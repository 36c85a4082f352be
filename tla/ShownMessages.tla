--------------------------- MODULE ShownMessages ----------------------------
(* What a command shows: the messages it sends and edits, its response and  *)
(* its modal, from the values it makes one call after the other             *)
(* (runtime/engine.go, modals.go, mentions.go), and how a test uses them.   *)
(* A call that fails is caught, so that the command goes on.                *)
EXTENDS MessageBuilder

CONSTANTS
  ShownCalls,     \* bound: ShownCalls[k][n] are the calls that can be the nth of a command of kind k
  MaxContent,     \* characters of a message
  Author          \* of the message that started the command

\* A command is a list of calls. A message is one of four kinds, and what a response says
\* mentions everyone, members and roles.
ASSUME CallsAssumption ==
  \A k \in DOMAIN ShownCalls :
    /\ IsList(ShownCalls[k])
    /\ \A c \in UNION Range(ShownCalls[k]) :
         /\ c.fn = "end" =>
              \A m \in c.text.mentions : m \in {Everyone, User(m.id), RoleOf(m.id)}
         /\ c.fn \in {"sendMessage", "sendMessageNoEscape", "editMessage"} =>
              /\ c.input.as \in {"text", "embeds", "message", "data"}
              /\ c.input.as = "message" =>
                   /\ IsList(c.input.pairs)
                   /\ \A p \in Range(c.input.pairs) : p.shape \in {"nil", "one", "list", "rows"}

VARIABLES
  command,    \* [kind, strict, mayMention]: errors as YAGPDB has them; the bot may mention everyone
  made,       \* the values made so far
  shown,      \* the messages, the response the last
  modals,     \* the modal
  mentioned,  \* what mentionEveryone and mentionRole let the response ping
  called      \* how many calls were made

shownVars == <<command, made, shown, modals, mentioned, called>>

ShownInit ==
  /\ command \in [kind : DOMAIN ShownCalls, strict : BOOLEAN, mayMention : BOOLEAN]
  /\ made = <<>> /\ shown = <<>> /\ modals = <<>> /\ mentioned = {} /\ called = 0

-----------------------------------------------------------------------------
(* What a message argument is: a text, embeds, a message of complexMessage, *)
(* or the data of a modal.                                                  *)

\* parseMessageInput keeps the embeds that are some; if none is, it gives none.
Valid(embeds) ==
  LET some == SelectSeq(embeds.list, LAMBDA e : e # "nil")
  IN  IF embeds.list # <<>> /\ some = <<>> THEN None ELSE [embeds EXCEPT !.list = some]

Plainly(m) == [error |-> FALSE, made |-> made, m |-> m]
InputOf(input) ==
  CASE input.as = "text"    -> Plainly([EmptyMessage EXCEPT !.mentions = UsersOnly, !.content = input.text])
    [] input.as = "embeds"  -> Plainly([EmptyMessage EXCEPT !.mentions = UsersOnly, !.embeds = ListOf(input.embeds)])
    [] input.as = "message" -> ComplexMessage(made, input.pairs)
    [] input.as = "data"    -> Plainly([EmptyMessage EXCEPT !.form = made[input.at].fields])
ParseMessageInput(input) == {[built EXCEPT !.m.embeds = Valid(@)] : built \in {InputOf(input)}}

\* sendProblems: what Discord would reject of a message.
SendProblems(m) ==
  LET empty == /\ m.content.size = 0 /\ ~m.file /\ ~m.other /\ m.rows.list = <<>> /\ m.form = <<>>
               /\ Range(m.embeds.list) \subseteq {"empty"}
  IN  IF empty THEN {"empty"}
      ELSE {p \in {"content"} : m.content.size > MaxContent} \cup {e \in Range(m.embeds.list) : e = "large"}

\* checkSend and checkComponents: a message Discord rejects is sent all the same, unless
\* errors are YAGPDB's; one with fields of a modal or a custom ID twice never is.
Takes(values, m) ==
  /\ SendProblems(m) = {} \/ ~command.strict
  /\ m.form = <<>> /\ ~DuplicateCustomID(values, m.rows.list)

\* A message as it is shown: its custom IDs as they are then, and the call it is of.
Showing(call, values, m, pings) ==
  [call |-> call, content |-> m.content, embeds |-> m.embeds.list, rows |-> m.rows.list,
   ids |-> CustomIDs(values, m.rows.list), asked |-> m.asked, pings |-> pings]

\* Who wrote the message replied to: not the bot, and somebody the emulator knows.
RepliedTo(reply) == IF reply = "trigger" THEN Author ELSE 0

-----------------------------------------------------------------------------
\* send
PingsOfSend(c, m) ==
  Pings(m.content.mentions, IF c.fn = "sendMessageNoEscape" THEN NoEscape ELSE m.mentions, command.mayMention,
        RepliedTo(m.reply))
SendMessage(c) ==
  /\ c.fn \in {"sendMessage", "sendMessageNoEscape"}
  /\ \E input \in ParseMessageInput(c.input) :
       /\ made' = input.made
       /\ shown' = IF ~input.error /\ Takes(input.made, input.m)
                   THEN Append(shown, Showing(c, input.made, input.m, PingsOfSend(c, input.m))) ELSE shown
  /\ UNCHANGED <<modals, mentioned>>

\* editMessage: the content always, what else is given, and no file; only a message of the
\* bot's.
Kept(new, list) == IF new.given THEN new ELSE ListOf(list)
EditedTo(old, m) ==
  [m EXCEPT !.embeds = Kept(@, old.embeds), !.rows = Kept(@, old.rows), !.asked = IF m.rows.given THEN @ ELSE old.asked,
            !.file = FALSE]
EditMessage(c) ==
  /\ c.fn = "editMessage"
  /\ \E input \in ParseMessageInput(c.input) :
       /\ made' = input.made
       /\ IF input.error \/ c.message \notin DOMAIN shown THEN UNCHANGED shown
          ELSE \E m \in {EditedTo(shown[c.message], input.m)} :
                 shown' = IF Takes(input.made, m)
                          THEN [shown EXCEPT ![c.message] = Showing(c, input.made, m, {})] ELSE shown
  /\ UNCHANGED <<modals, mentioned>>

\* getMessage: copies of the components of a message, for the command to use again.
GetMessage(c) ==
  /\ c.fn = "getMessage" /\ c.message \in DOMAIN shown
  /\ LET copied == Flat(shown[c.message].rows)
     IN  made' = made \o [i \in DOMAIN copied |-> [made[copied[i]] EXCEPT !.wrote = made[copied[i]].id]]
  /\ UNCHANGED <<shown, modals, mentioned>>

\* mentionEveryone, mentionHere and mentionRole: for the response.
LetPing(c) ==
  /\ c.fn \in {"mentionEveryone", "mentionRole"}
  /\ LET role == FindRole(c.role, c.accept)
     IN  mentioned' = mentioned \cup (IF c.fn = "mentionEveryone" THEN {Everyone}
                                      ELSE IF role = 0 THEN {} ELSE {RoleOf(role)})
  /\ UNCHANGED <<made, shown, modals>>

\* The functions that only make a value, or change a builder.
MakeValue(c) ==
  /\ made' = CASE c.fn = "cbutton"    -> CreateButton(made, c.arg).made
               [] c.fn = "cmenu"      -> CreateSelectMenu(made, c.arg).made
               [] c.fn = "ctextInput" -> CreateTextInput(made, c.arg.dict).made
               [] c.fn = "clabel"     -> CreateLabel(made, c.arg).made
               [] c.fn = "modalBuilder"  -> CreateModalBuilder(made, c.id, c.args).made
               [] c.fn = "AddComponents" -> AddComponents(made, c.at, made[c.at].fields, c.args).made
               [] c.fn = "Set components" -> AddComponents(made, c.at, <<>>, c.args).made
               [] c.fn = "Set custom_id"  -> SetCustomID(made, c.at, c.id).made
               [] c.fn = "cmodal"     -> CreateModal(made, c.modal).made
  /\ UNCHANGED <<shown, modals, mentioned>>

\* sendModal: one for an interaction, of a builder, a response or a dictionary.
ModalToSend(arg) ==
  IF arg.is = "made" /\ made[arg.at].kind = "response" THEN Is(made, arg.at) ELSE CreateModal(made, arg)
SendModal(c) ==
  /\ c.fn = "sendModal"
  /\ \E modal \in {ModalToSend(c.modal)} :
       /\ made' = modal.made
       /\ modals' = IF modals = <<>> /\ ~modal.error THEN <<modal.made[modal.at]>> ELSE modals
  /\ UNCHANGED <<shown, mentioned>>

\* The run's response, once it has ended.
Respond(c) ==
  /\ c.fn = "end"
  /\ LET m == [EmptyMessage EXCEPT !.content = c.text]
         pings == Pings(c.text.mentions, ResponseMentions(mentioned), command.mayMention, 0)
     IN  shown' = IF SendProblems(m) = {} THEN Append(shown, Showing(c, made, m, pings)) ELSE shown
  /\ UNCHANGED <<made, modals, mentioned>>

\* The calls that use what is there by now: at least "needs" values, and modals where
\* a modal is meant.
CanCall(c) == c.needs <= Len(made) /\ \A i \in c.modalsAt : i \in DOMAIN made /\ made[i].kind \in {"modal", "response"}

Makers == {"cbutton", "cmenu", "ctextInput", "clabel", "modalBuilder", "AddComponents", "Set components",
           "Set custom_id", "cmodal"}

Calls == ShownCalls[command.kind]

ShownNext ==
  /\ called < Len(Calls) /\ UNCHANGED command
  /\ \E c \in Calls[called + 1] :
       /\ CanCall(c)
       /\ called' = IF c.fn = "end" THEN Len(Calls) ELSE called + 1
       /\ \/ SendMessage(c) \/ EditMessage(c) \/ GetMessage(c) \/ LetPing(c)
          \/ c.fn \in Makers /\ MakeValue(c)
          \/ SendModal(c) \/ Respond(c)

ShownSpec == ShownInit /\ [][ShownNext]_shownVars

-----------------------------------------------------------------------------
\* The custom ID a click, and the ID and the field a submission give the command.
AnyClick(id) == [customID |-> id, message |-> 1, kind |-> "button", values |-> <<>>]
Here == [messages |-> {<<1, 1>>}, channel |-> 1]
OnAny(type) == [type |-> type, text |-> <<>>, caseSensitive |-> FALSE]
ClickReads(id) == SetInteractionComponent(NoContext, Here, OnAny("Message Component"), AnyClick(id), "None").ctx.customID
FieldReads(fields) == ModalData(NoContext, fields).modalValues

\* What the author wrote, as the command is to read it: a number, if that was nothing, or
\* was too long, which took it away where the message was refused.
ReadsAs(wrote, read) ==
  IF wrote = <<>> \/ ~FitsID(WithTemplatePrefix(wrote)) THEN \E n \in 0 .. Len(made) + MaxInputs : read = <<ToString(n)>> ELSE read = WithoutPrefix(wrote)

\* A field of ctextInput keeps a prefix of the author's own, and has no ID unless given one.
FieldReadsAs(field, read) ==
  IF field.form = "action_row" THEN ReadsAs(field.wrote, read) ELSE read = field.wrote

ModalCanBeSubmitted(modal) ==
  LET ids  == ModalFieldIDs(modal.fields)
      read == FieldReads([i \in DOMAIN ids |-> [customID |-> modal.fields[i].id, value |-> "v"]])
  IN  /\ Len(ids) <= MaxInputs
      /\ \A i \in DOMAIN ids : read[i][1] = ids[i] /\ FieldReadsAs(modal.fields[i], ids[i])

\* A message's buttons and menus come back under the ID their author wrote, or a
\* number, which is theirs alone in the message; none is lost that fits in the rows;
\* and nothing the command does later, with the same values in another message,
\* changes what the message has (components.go changes them in place).  A modal's
\* fields come back alike.
ShownCanBeUsed ==
  /\ \A n \in DOMAIN shown :
       LET m == shown[n]
           used == Usable(made, m.rows)
       IN  /\ m.ids = CustomIDs(made, m.rows) /\ IsInjective(m.ids)
           /\ \A i \in DOMAIN used : ReadsAs(made[used[i]].wrote, ClickReads(m.ids[i]))
           /\ \A row \in Range(m.rows) : Len(row) <= RowWidth /\ (Len(row) > 1 => MenusIn(made, row) = {})
           /\ Len(m.asked) <= MaxRows * RowWidth => Flat(m.rows) = m.asked
  /\ \A n \in DOMAIN modals : ModalCanBeSubmitted(modals[n])

\* Whom the author lets a call's message ping: with complexMessage, whom the last
\* allowed_mentions says; else users only, and with the data of a modal nobody.
LastMentions(c) ==
  LET keys == {i \in DOMAIN c.input.pairs : c.input.pairs[i].key = "allowed_mentions"}
  IN  {c.input.pairs[i] : i \in {k \in keys : \A j \in keys : j <= k}}
CallAllows(c, ping) ==
  CASE c.fn = "end" -> ping.of = "user" \/ ping \in mentioned
    [] c.fn = "sendMessageNoEscape" -> TRUE
    [] c.fn = "sendMessage" /\ c.input.as = "data" -> FALSE
    [] c.fn = "sendMessage" /\ c.input.as \in {"text", "embeds"} -> ping.of = "user"
    [] c.fn = "sendMessage" /\ c.input.as = "message" ->
         IF LastMentions(c) = {} THEN ping.of = "user"
         ELSE \E p \in LastMentions(c) :
                  /\ p.shape # "nil"
                  /\ \/ [everyone |-> "everyone", user |-> "users", role |-> "roles"][ping.of] \in Range(p.mentions.parse)
                     \/ ping.of = "user" /\ ping.id \in Range(p.mentions.users)
                     \/ ping.of = "role" /\ ping.id \in Range(p.mentions.roles)

\* No message pings anybody whom its author did not let it: it mentions them and the
\* call allows it, and the bot may; or it replies to them, which has to be allowed too
\* (mentions.go pings; a wrong ping cannot be taken back).
PingsOnlyTheAllowed ==
  \A n \in DOMAIN shown :
    LET m == shown[n]
    IN  \A ping \in m.pings :
          \/ /\ ping \in m.content.mentions /\ CallAllows(m.call, ping)
             /\ command.mayMention \/ ping.of = "user" \/ (ping.of = "role" /\ ping.id \in Mentionable)
          \/ /\ ping = User(Author) /\ m.call.fn # "end"
             /\ m.call.fn = "sendMessageNoEscape" \/ \E p \in LastMentions(m.call) : p.shape # "nil" /\ p.mentions.replied
=============================================================================
