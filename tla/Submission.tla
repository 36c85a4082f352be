----------------------------- MODULE Submission -----------------------------
(* What starts a run: a message, a click, a slash command, a context menu   *)
(* entry or a modal, put into the run's context as YAGPDB's handlers do     *)
(* (runtime/trigger.go, slash.go, interactions.go, modals.go).              *)
(*                                                                          *)
(* "ctx" is what the template sees of it.  0, "" and <<>> stand for what is *)
(* not given.  An operator's result is a context or a refusal.              *)
EXTENDS SlashHeader

CONSTANTS
  Prefix,           \* the server's command prefix, a text
  GuildRoles,       \* what the test declares of the guild
  GuildChannels,
  Members

IsList(q) == q \in Seq(Range(q))   \* of anything

TemplatePrefix == "templates-"     \* a custom ID is a text that may begin with it

WithTemplatePrefix(id) == IF id # <<>> /\ Head(id) = TemplatePrefix THEN id ELSE <<TemplatePrefix>> \o id
WithoutPrefix(id) == Tail(WithTemplatePrefix(id))

NoContext ==
  [content |-> <<>>, args |-> <<>>, cmd |-> <<>>, cmdArgs |-> <<>>, stripped |-> <<>>,
   execData |-> "", reaction |-> "", interaction |-> "", customID |-> <<>>, kind |-> "", message |-> 0,
   chosen |-> <<>>, subcommand |-> <<>>, options |-> <<>>, target |-> 0, targetMember |-> FALSE,
   values |-> <<>>, modalValues |-> <<>>, form |-> "", delayed |-> FALSE, respondedTo |-> FALSE,
   deferred |-> FALSE, noMessage |-> FALSE, noMember |-> FALSE, triggered |-> FALSE,
   depth |-> 0, inherited |-> [of |-> "", id |-> 0]]

Run(ctx)     == [error |-> "", ctx |-> ctx]
Refused      == [error |-> "refused", ctx |-> NoContext]
Mismatch     == [error |-> "mismatch", ctx |-> NoContext]       \* ErrTriggerMismatch

-----------------------------------------------------------------------------
\* What a match gives the handler.
Matched(ctx, m) ==
  IF ~m.match THEN Mismatch
  ELSE Run([ctx EXCEPT !.cmd = Trimmed(m.cmd), !.cmdArgs = m.args, !.stripped = m.stripped])

\* SetTriggerMessage
SetTriggerMessage(ctx, t, msg) ==
  Matched([ctx EXCEPT !.content = msg, !.args = Strs(SplitArgs(msg)), !.triggered = TRUE], CheckMatch(Prefix, t, msg))

\* The deferral counts as the response.
Deferred(ctx, mode) == [ctx EXCEPT !.respondedTo = mode # "None", !.deferred = mode # "None"]

\* Is it a message the test declares in the run's channel?
MessageHere(world, id) == <<id, world.channel>> \in world.messages

\* A click or a submission whose custom ID matches; the message has to be there.
OnMessage(run, there) == IF run.error = "" /\ ~there THEN Refused ELSE run

\* SetInteractionComponent
SetInteractionComponent(ctx, world, t, click, mode) ==
  LET id  == WithoutPrefix(click.customID)
      new == [ctx EXCEPT !.customID = id, !.interaction = "component", !.message = click.message,
                         !.kind = click.kind, !.chosen = click.values]
  IN  IF ComponentTriggered(t)
      THEN OnMessage(Matched(Deferred(new, mode), CheckMatchComponent(t, id)), MessageHere(world, click.message))
      ELSE Refused

\* setData of a modal: the values in the modal's order, and by field.
ModalData(ctx, fields) ==
  [ctx EXCEPT !.values      = [i \in DOMAIN fields |-> fields[i].value],
              !.modalValues = [i \in DOMAIN fields |-> <<WithoutPrefix(fields[i].customID), fields[i].value>>]]

\* SetInteractionModal
SetInteractionModal(ctx, world, t, sub, mode) ==
  LET id  == WithoutPrefix(sub.customID)
      new == [ModalData(ctx, sub.fields) EXCEPT
                !.customID = id, !.interaction = "modal", !.message = sub.message, !.form = sub.form]
  IN  IF ModalTriggered(t)
      THEN OnMessage(Matched(Deferred(new, mode), CheckMatchModal(t, id)),
                     sub.message = 0 \/ MessageHere(world, sub.message))
      ELSE Refused

-----------------------------------------------------------------------------
(* Slash commands.  A value is [kind, v] as the test writes it.             *)

\* slashOptionValue: what Discord sends for it.
SlashOptionValue(type, raw) ==
  LET fits(kinds) == raw.kind \in kinds
      id == raw.kind = "int" /\ raw.v > 0
  IN  CASE type \in {"string", "string_menu"}   -> fits({"string"})
        [] type \in {"integer", "integer_menu"} -> fits({"int"})
        [] type \in {"number", "number_menu"}   -> fits({"int", "float"})
        [] type = "boolean" -> fits({"bool"})
        [] type = "channel" -> id /\ raw.v \in GuildChannels
        [] type = "role"    -> id /\ raw.v \in GuildRoles
        [] OTHER            -> id

\* resolveSlashOptionValue: the value a template sees.
ResolveSlashOptionValue(type, raw) ==
  CASE type \in {"number", "number_menu"} -> [kind |-> "float", v |-> raw.v]
    [] type \in {"channel", "role"}       -> [kind |-> type, v |-> raw.v]
    [] type = "user"                      -> [kind |-> "user", v |-> raw.v]
    [] type = "mentionable" -> [kind |-> IF raw.v \in GuildRoles THEN "role" ELSE "user", v |-> raw.v]
    [] OTHER -> raw

\* Where the test gives the option, by its name in any case.
GivenAt(given, name) == {i \in DOMAIN given : Lowered(given[i].name) = Lowered(name)}

\* Every option given is declared, once, and every required one is given.
OptionsFit(defs, given) ==
  /\ \A i \in DOMAIN given : /\ GivenAt(given, given[i].name) = {i}
                             /\ \E d \in Range(defs) : Lowered(d.name) = Lowered(given[i].name)
  /\ \A d \in Range(defs) : LET at == GivenAt(given, d.name) IN
       IF at = {} THEN ~d.required ELSE SlashOptionValue(d.type, given[Min(at)].value)

\* The options as the template sees them, in the order of their declaration.
OptionsSeen(defs, given) ==
  LET isGiven(d) == GivenAt(given, d.name) # {}
      seen == SelectSeq(defs, isGiven)
  IN  [i \in DOMAIN seen |->
        <<seen[i].name,
          ResolveSlashOptionValue(seen[i].type, given[Min(GivenAt(given, seen[i].name))].value)>>]

\* SetInteractionSlash
SetInteractionSlash(ctx, t, def, inv, mode) ==
  LET named == {i \in DOMAIN def.subs : Lowered(def.subs[i].name) = Lowered(inv.subcommand)}
      defs  == IF named = {} THEN def.options ELSE def.subs[Min(named)].options
      name  == Lowered(Trimmed(t.text))
      seen  == OptionsSeen(defs, inv.options)
  IN  IF /\ SlashTriggered(t)
         /\ IF def.subs = <<>> THEN inv.subcommand = <<>> ELSE named # {}
         /\ OptionsFit(defs, inv.options)
      THEN Run(Deferred([ctx EXCEPT !.interaction = "slash", !.cmd = name, !.options = seen,
                           !.subcommand = IF named = {} THEN <<>> ELSE def.subs[Min(named)].name], mode))
      ELSE Refused

\* SetInteractionDelayed
SetInteractionDelayed(ctx, respondedTo) ==
  [ctx EXCEPT !.interaction = "slash", !.delayed = TRUE, !.respondedTo = respondedTo]

\* SetInteractionContextMenu
SetInteractionContextMenu(ctx, world, t, target, mode) ==
  LET entry == [ctx EXCEPT !.cmd = Trimmed(t.text), !.noMember = TRUE]
  IN  CASE t.type = "User Context Menu" /\ target.user # 0 ->
             Run(Deferred([entry EXCEPT !.interaction = "user_menu", !.target = target.user,
                            !.targetMember = target.user \in Members, !.noMessage = TRUE], mode))
        [] t.type = "Message Context Menu" /\ MessageHere(world, target.message) ->
             Run(Deferred([entry EXCEPT !.interaction = "message_menu", !.message = target.message], mode))
        [] OTHER -> Refused
=============================================================================
