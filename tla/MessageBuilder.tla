--------------------------- MODULE MessageBuilder ---------------------------
(* The messages a template builds: cbutton, cmenu and complexMessage        *)
(* (runtime/components.go, engine.go), up to the custom IDs under which     *)
(* their buttons and menus come back when they are used, and its modals.    *)
(*                                                                          *)
(* A button or menu is made once and then known by its place in "made",     *)
(* the values the command holds: the same one may stand in several          *)
(* messages, and what one message does to it shows in the others.  "wrote"  *)
(* is the custom ID the author gave it.                                     *)
EXTENDS Submission, Mentions

CONSTANTS
  RowWidth, MaxRows,    \* Discord's rows and their width
  MaxButtons, MaxMenus, \* what "buttons" and "menus" take
  MaxChoices,           \* options of a menu, and how many may have to be chosen
  MaxEmbeds, MaxFile,
  MaxID,                \* length of a custom ID with its prefix
  MaxInputs             \* the fields of a modal

\* The value of a call: the values made so far, changed or not, and where it is.
NotMade(made)        == [error |-> TRUE, made |-> made, at |-> 0]
Is(made, i)        == [error |-> FALSE, made |-> made, at |-> i]
Makes(made, value) == Is(Append(made, value), Len(made) + 1)

-----------------------------------------------------------------------------
(* Components.  An argument is [is, at, dict]: a value already made, a      *)
(* dictionary, a call of cbutton or cmenu with one, or something else.      *)

Styles == <<{"primary", "blue", "purple", "blurple", "1"}, {"secondary", "grey", "2"}, {"success", "green", "3"},
            {"danger", "destructive", "red", "4"}, {"link", "url", "5"}>>
LinkStyle == 5

\* 0 is no style, which Discord is given as the first.
StyleOf(dict) == IF dict.style = "" THEN 0 ELSE CHOOSE n \in DOMAIN Styles : dict.style \in Styles[n]

\* createComponent: every value has its field's type, or none is made.
CreateComponent(made, component, dict) == IF dict.fits THEN Makes(made, component) ELSE NotMade(made)

GoodButton(dict) ==
  /\ dict.style \in {""} \cup UNION Range(Styles)
  /\ StyleOf(dict) = LinkStyle => dict.url
  /\ dict.label \/ dict.emoji

\* CreateButton
CreateButton(made, arg) ==
  CASE arg.is = "made" /\ made[arg.at].kind = "button" -> Is(made, arg.at)
    [] arg.is = "sdict" /\ GoodButton(arg.dict) ->
         CreateComponent(made, [kind |-> "button", link |-> StyleOf(arg.dict) = LinkStyle,
                                id |-> arg.dict.id, wrote |-> arg.dict.id], arg.dict)
    [] OTHER -> NotMade(made)

\* A string menu has no type of its own, which is why it may have no options.
MenuTypes == {"user", "role", "mentionable", "channel"}
GoodMenu(dict) ==
  /\ dict.type \in {"", "string", "text"} \cup MenuTypes
  /\ Len(dict.options) <= MaxChoices /\ IsInjective(dict.options)
  /\ dict.min \in 0 .. MaxChoices /\ dict.max <= MaxChoices

\* CreateSelectMenu
CreateSelectMenu(made, arg) ==
  CASE arg.is = "made" /\ made[arg.at].kind = "menu" -> Is(made, arg.at)
    [] arg.is = "sdict" /\ GoodMenu(arg.dict) ->
         CreateComponent(made, [kind |-> "menu", strings |-> arg.dict.type \notin MenuTypes, link |-> FALSE,
                                id |-> arg.dict.id, wrote |-> arg.dict.id], arg.dict)
    [] OTHER -> NotMade(made)

\* One after the other, up to the first that fails: the places of what they make.
With(one, list) == [error |-> one.error, made |-> one.made, list |-> Append(list, one.at)]
Each(made, args, Create(_, _)) ==
  LET next(acc, arg) == IF acc.error THEN acc ELSE With(Create(acc.made, arg), acc.list)
  IN  FoldLeft(next, [error |-> FALSE, made |-> made, list |-> <<>>], args)

\* An entry of a list of components: made before, or as the list is written; 0 is
\* anything else, a dictionary too.
Entry(made, arg) ==
  CASE arg.is = "button" -> CreateButton(made, [arg EXCEPT !.is = "sdict"])
    [] arg.is = "menu"   -> CreateSelectMenu(made, [arg EXCEPT !.is = "sdict"])
    [] OTHER -> Is(made, IF arg.is = "made" /\ made[arg.at].kind \in {"button", "menu"} THEN arg.at ELSE 0)

-----------------------------------------------------------------------------
(* Rows, of the places of buttons and menus.                                *)

FirstOf(list, n) == SubSeq(list, 1, IF Len(list) < n THEN Len(list) ELSE n)
Flat(rows) == FlattenSeq(rows)

\* A plausible slip: a list that fills its last row leaves it out.
DropsAFullRow(made, list) ==
  LET place(acc, i) ==
        LET menu == made[list[i]].kind = "menu"
            fits == IF menu THEN acc.row = <<>> ELSE Len(acc.row) < RowWidth
            rows == IF fits THEN acc.rows ELSE Append(acc.rows, acc.row)
            row  == IF fits THEN Append(acc.row, list[i]) ELSE <<list[i]>>
        IN  IF menu THEN [rows |-> Append(rows, <<list[i]>>), row |-> <<>>]
            ELSE IF i = Len(list) /\ Len(row) < RowWidth THEN [rows |-> Append(rows, row), row |-> <<>>]
            ELSE [rows |-> rows, row |-> row]
  IN  FoldLeft(place, [rows |-> <<>>, row |-> <<>>], [i \in DOMAIN FirstOf(list, MaxRows * RowWidth) |-> i]).rows

\* distributeComponentsIntoActionsRows, of a flat list: rows as full as they can be, a
\* menu alone in its row.  The last row is there once the list's last component is placed.
DistributeFlat(made, list) ==
  LET place(acc, i) ==
        LET menu == made[list[i]].kind = "menu"
            fits == IF menu THEN acc.row = <<>> ELSE Len(acc.row) < RowWidth
            rows == IF fits THEN acc.rows ELSE Append(acc.rows, acc.row)
            row  == IF fits THEN Append(acc.row, list[i]) ELSE <<list[i]>>
        IN  IF menu THEN [rows |-> Append(rows, <<list[i]>>), row |-> <<>>]
            ELSE IF i = Len(list) THEN [rows |-> Append(rows, row), row |-> <<>>]
            ELSE [rows |-> rows, row |-> row]
  IN  FoldLeft(place, [rows |-> <<>>, row |-> <<>>], [i \in DOMAIN FirstOf(list, MaxRows * RowWidth) |-> i]).rows

\* The same of the author's own rows: each ends at a string menu, which has to be its first.
StringMenu(made, i) == i # 0 /\ made[i].kind = "menu" /\ made[i].strings
MenusIn(made, row) == {j \in DOMAIN row : StringMenu(made, row[j])}
OwnRow(made, row) ==
  LET menus == MenusIn(made, FirstOf(row, RowWidth))
  IN  IF menus = {} THEN FirstOf(row, RowWidth) ELSE FirstOf(row, Min(menus))
OwnRowsFit(made, rows) ==
  \A r \in Range(FirstOf(rows, MaxRows)) : LET row == OwnRow(made, r) IN 0 \notin Range(row) /\ MenusIn(made, row) \subseteq {1}
DistributeRows(made, rows) ==
  [r \in DOMAIN FirstOf(rows, MaxRows) |-> OwnRow(made, rows[r])]

-----------------------------------------------------------------------------
(* Custom IDs.                                                              *)

\* validateCustomID: one that is not given is numbered by those used so far.
ValidCustomID(id, used) == WithTemplatePrefix(IF id = <<>> THEN <<ToString(used)>> ELSE id)
FitsID(id) == Len(id) <= MaxID

\* A plausible slip: each message numbers its components anew.
RenumbersAll(made, rows) ==
  LET give(acc, i) ==
        LET id == ValidCustomID(IF made[i].wrote = <<>> THEN <<>> ELSE acc.made[i].id, Cardinality(acc.used))
        IN  IF acc.error THEN acc
            ELSE IF made[i].link THEN [acc EXCEPT !.made[i].id = <<>>]
            ELSE IF ~FitsID(id) THEN [acc EXCEPT !.made[i].id = <<>>, !.error = TRUE]
            ELSE [acc EXCEPT !.made[i].id = id, !.used = @ \cup {id}]
  IN  FoldLeft(give, [error |-> FALSE, made |-> made, used |-> {}], Flat(rows))

\* validateTopLevelComponentsCustomIDs gives the components themselves their IDs; a
\* link has none, and one that does not fit loses it.
ValidateCustomIDs(made, rows) ==
  LET give(acc, i) ==
        LET id == ValidCustomID(acc.made[i].id, Cardinality(acc.used))
        IN  IF acc.error THEN acc
            ELSE IF made[i].link THEN [acc EXCEPT !.made[i].id = <<>>]
            ELSE IF ~FitsID(id) THEN [acc EXCEPT !.made[i].id = <<>>, !.error = TRUE]
            ELSE [acc EXCEPT !.made[i].id = id, !.used = @ \cup {id}]
  IN  FoldLeft(give, [error |-> FALSE, made |-> made, used |-> {}], Flat(rows))

\* The components that can be used, and their custom IDs.
Usable(made, rows) == SelectSeq(Flat(rows), LAMBDA i : ~made[i].link)
CustomIDs(made, rows) == [n \in DOMAIN Usable(made, rows) |-> made[Usable(made, rows)[n]].id]

\* duplicateCustomID finds one, other than none.
DuplicateCustomID(made, rows) == ~IsInjective(SelectSeq(CustomIDs(made, rows), LAMBDA id : id # <<>>))

-----------------------------------------------------------------------------
(* Messages.  "given" tells a list that is not nil from one that is; "form" *)
(* are the fields of a modal sent as a message; "asked" is every component  *)
(* of the lists the author gave, and of rows of his own if all of them can  *)
(* be.                                                                      *)

None == [given |-> FALSE, list |-> <<>>]
ListOf(list) == [given |-> TRUE, list |-> list]
Blank == [size |-> 0, mentions |-> {}]

EmptyMessage ==
  [content |-> Blank, embeds |-> None, rows |-> None, form |-> <<>>, file |-> FALSE, other |-> FALSE,
   mentions |-> Nobody, reply |-> "", asked |-> <<>>]

\* A list of the author's: the key, how it is given, and what.
Embeds(m, p) == [m EXCEPT !.embeds = ListOf(FirstOf(p.embeds, MaxEmbeds))]

Adding(m, rows, list) ==
  [m EXCEPT !.rows = IF rows = <<>> THEN @ ELSE ListOf(@.list \o rows), !.asked = @ \o list]

\* Each row of the author's own.
WithRow(one, rows) == [error |-> one.error, made |-> one.made, rows |-> Append(rows, one.list)]
EachRow(made, rows) ==
  LET next(acc, row) == IF acc.error THEN acc ELSE WithRow(Each(acc.made, row, Entry), acc.rows)
  IN  FoldLeft(next, [error |-> FALSE, made |-> made, rows |-> <<>>], rows)

\* "components": one more component, or a list, which takes the place of all that was there.
OneComponent(m, flat) ==
  [error |-> flat.error \/ 0 \in Range(flat.list), made |-> flat.made, m |-> Adding(m, <<flat.list>>, flat.list)]
Replaced(m, made, rows, asked) ==
  [error |-> FALSE, made |-> made, m |-> [m EXCEPT !.rows = ListOf(rows), !.asked = asked]]
FlatList(acc, flat) ==
  IF flat.error \/ 0 \in Range(FirstOf(flat.list, MaxRows * RowWidth)) THEN [acc EXCEPT !.error = TRUE]
  ELSE Replaced(acc.m, flat.made, DistributeFlat(flat.made, flat.list), flat.list)
CanBe(made, rows) ==
  Len(rows) <= MaxRows /\ \A r \in Range(rows) : Len(r) <= RowWidth /\ (MenusIn(made, r) # {} => Len(r) = 1)
OwnRowsOf(m, made, rows, own) == Replaced(m, made, rows, Flat(IF CanBe(made, own) THEN own ELSE rows))
OwnRows(acc, own) ==
  IF own.error \/ ~OwnRowsFit(own.made, own.rows) THEN [acc EXCEPT !.error = TRUE]
  ELSE OwnRowsOf(acc.m, own.made, DistributeRows(own.made, own.rows), own.rows)
Components(acc, p) ==
  CASE p.shape = "one"  -> OneComponent(acc.m, Each(acc.made, p.list, Entry))
    [] p.shape = "list" -> FlatList(acc, Each(acc.made, p.list, Entry))
    [] p.shape = "rows" -> OwnRows(acc, EachRow(acc.made, p.rows))

\* "buttons" and "menus": each of the list is made, as many as they take.
Listed(acc, r) ==
  [error |-> r.error, made |-> r.made,
   m |-> IF r.error THEN acc.m ELSE Adding(acc.m, DistributeFlat(r.made, r.list), r.list)]
Buttons(acc, p) == Listed(acc, Each(acc.made, FirstOf(p.list, MaxButtons), CreateButton))
Menus(acc, p)   == Listed(acc, Each(acc.made, FirstOf(p.list, MaxMenus), CreateSelectMenu))

\* "allowed_mentions": nil lets nobody be pinged.
MentionsKey(acc, p) ==
  IF p.shape = "nil" THEN [acc EXCEPT !.m.mentions = Nobody]
  ELSE IF ParsesMentions(p.mentions) THEN [acc EXCEPT !.m.mentions = AllowedMentions(p.mentions)]
  ELSE [acc EXCEPT !.error = TRUE]

\* Keys without a part in what follows.
OtherKeys == {"filename", "ephemeral", "silent", "suppress_embeds", "is_components_v2"}

\* A key and its value.
AddKey(acc, p) ==
  CASE acc.error -> acc
    [] ~acc.error /\ p.key = "allowed_mentions" -> MentionsKey(acc, p)
    [] ~acc.error /\ p.key = "content" -> [acc EXCEPT !.m.content = p.text]
    [] ~acc.error /\ p.key = "reply" -> [acc EXCEPT !.m.reply = p.reply, !.error = p.reply = "bad"]
    [] ~acc.error /\ p.key = "file" -> [acc EXCEPT !.m.file = TRUE, !.error = p.text.size > MaxFile]
    [] ~acc.error /\ p.key = "sticker" -> [acc EXCEPT !.m.other = p.shape # "nil"]
    [] ~acc.error /\ (p.key \in OtherKeys \/ (p.shape = "nil" /\ p.key \in {"embed", "components", "buttons", "menus"})) -> acc
    [] ~acc.error /\ p.shape # "nil" /\ p.key = "embed" -> [acc EXCEPT !.m = Embeds(acc.m, p)]
    [] ~acc.error /\ p.shape # "nil" /\ p.key = "components" -> Components(acc, p)
    [] ~acc.error /\ p.shape # "nil" /\ p.key = "buttons" -> Buttons(acc, p)
    [] ~acc.error /\ p.shape # "nil" /\ p.key = "menus" -> Menus(acc, p)
    [] OTHER -> [acc EXCEPT !.error = TRUE]

\* complexMessage: the keys in order, then the IDs of all components.
Finish(built, ids) == [error |-> ids.error, made |-> ids.made, m |-> built.m]
Built(built) ==
  IF built.error THEN [built EXCEPT !.m = EmptyMessage]
  ELSE Finish(built, ValidateCustomIDs(built.made, built.m.rows.list))
KeysAdded(made, pairs) ==
  LET first == [error |-> FALSE, made |-> made, m |-> [EmptyMessage EXCEPT !.mentions = UsersOnly]]
      added[n \in 0 .. Len(pairs)] == IF n = 0 THEN first ELSE AddKey(added[n - 1], pairs[n])
  IN  added
ComplexMessage(made, pairs) ==
  IF pairs = <<>> THEN [error |-> FALSE, made |-> made, m |-> EmptyMessage]
  ELSE Built(KeysAdded(made, pairs)[Len(pairs)])

-----------------------------------------------------------------------------
(* Modals: ctextInput, clabel, cmodal and the builder modalBuilder gives,  *)
(* whose Set and AddComponents change it in place (runtime/modals.go).  A   *)
(* field is a text input, by its custom ID, in the form it is submitted in: *)
(* an action row or a label.                                                *)

Field(form, id, wrote) == [form |-> form, id |-> id, wrote |-> wrote]
Modal(id, wrote, fields) == [kind |-> "modal", id |-> id, wrote |-> wrote, fields |-> fields]
Response(modal) == [modal EXCEPT !.kind = "response"]

-----------------------------------------------------------------------------
(* Fields.  An argument is a value made before or a call: clabel around     *)
(* ctextInput, with the dictionary of the latter.                           *)

\* CreateTextInput: the prefix is put before an ID that has it, too.
CreateTextInput(made, dict) ==
  LET id == IF dict.id = <<>> THEN <<>> ELSE <<TemplatePrefix>> \o dict.id
  IN  IF FitsID(id) THEN CreateComponent(made, [kind |-> "input", id |-> id, wrote |-> dict.id], dict) ELSE NotMade(made)

\* CreateLabel: around a text input, and nothing else.
CreateLabel(made, arg) ==
  IF arg.is # "made" THEN NotMade(made)
  ELSE CASE made[arg.at].kind = "label" -> Is(made, arg.at)
         [] made[arg.at].kind = "input" -> Makes(made, [kind |-> "label", id |-> made[arg.at].id, wrote |-> made[arg.at].wrote])
         [] OTHER -> NotMade(made)

\* What a modal's entry evaluates to; 0 is anything that is no label.
Labelled(input, arg) == IF input.error THEN input ELSE CreateLabel(input.made, [arg EXCEPT !.is = "made", !.at = input.at])
FieldEntry(made, arg) ==
  IF arg.is = "label" THEN Labelled(CreateTextInput(made, arg.dict), arg)
  ELSE Is(made, IF arg.is = "made" /\ made[arg.at].kind = "label" THEN arg.at ELSE 0)

-----------------------------------------------------------------------------
(* Builders.                                                                *)

\* addComponent, one after the other: what was added before a bad entry stays.
Added(made, fields, list) ==
  LET add(acc, at) ==
        IF acc.error \/ at = 0 \/ Len(acc.fields) = MaxInputs THEN [acc EXCEPT !.error = TRUE]
        ELSE [acc EXCEPT !.fields = Append(@, Field("label", made[at].id, made[at].wrote))]
  IN  FoldLeft(add, [error |-> FALSE, fields |-> fields], list)

\* AddComponents, and Set of "components", which starts from none.
Holding(made, at, added) == [error |-> added.error, made |-> [made EXCEPT ![at].fields = added.fields], at |-> at]
AddingAll(made, at, fields, entries) ==
  IF entries.error THEN NotMade(made) ELSE Holding(entries.made, at, Added(entries.made, fields, entries.list))
AddComponents(made, at, fields, args) == AddingAll(made, at, fields, Each(made, args, FieldEntry))

\* Set of "custom_id".
SetCustomID(made, at, id) ==
  LET valid == ValidCustomID(id, 0)
  IN  IF FitsID(valid) THEN Is([made EXCEPT ![at].id = valid, ![at].wrote = id], at) ELSE NotMade(made)

\* CreateModalBuilder
BuilderOf(made, id, entries, added) ==
  IF entries.error \/ added.error \/ ~FitsID(ValidCustomID(id, 0)) THEN NotMade(made)
  ELSE Makes(entries.made, Modal(ValidCustomID(id, 0), id, added.fields))
BuilderWith(made, id, entries) == BuilderOf(made, id, entries, Added(entries.made, <<>>, entries.list))
CreateModalBuilder(made, id, args) == BuilderWith(made, id, Each(made, args, FieldEntry))

-----------------------------------------------------------------------------
(* cmodal.                                                                  *)

DefaultID == <<TemplatePrefix, "-0">>

\* "fields": the first of them, numbered where they have no ID.
ModalFields(made, dicts) ==
  LET add(acc, dict) ==
        LET id == ValidCustomID(dict.id, Cardinality(acc.used))
        IN  IF acc.error \/ ~dict.fits \/ ~FitsID(id) THEN [acc EXCEPT !.error = TRUE]
            ELSE [acc EXCEPT !.fields = Append(@, Field("action_row", id, dict.id)), !.used = @ \cup {id}]
  IN  FoldLeft(add, [error |-> FALSE, fields |-> <<>>, used |-> {}], FirstOf(dicts, MaxInputs))

\* CreateModal: of a builder, or of a dictionary [id, fields, components, keys].  The list of
\* components ends at a bad entry, without an error.
ModalID(arg) == IF arg.id = <<>> THEN DefaultID ELSE ValidCustomID(arg.id, 0)
ModalOf(made, arg, entries, fields) ==
  IF arg.keys \subseteq {"title", "custom_id", "fields", "components"} /\ FitsID(ModalID(arg)) /\ ~entries.error /\ ~fields.error
  THEN Makes(entries.made, Response(Modal(ModalID(arg), arg.id,
                                          Added(entries.made, <<>>, entries.list).fields \o fields.fields)))
  ELSE NotMade(made)
CreateModal(made, arg) ==
  CASE arg.is = "made" -> IF made[arg.at].kind = "modal" THEN Makes(made, Response(made[arg.at])) ELSE NotMade(made)
    [] arg.is = "sdict" /\ {"fields", "components"} \subseteq arg.keys -> NotMade(made)
    [] arg.is = "sdict" /\ ~({"fields", "components"} \subseteq arg.keys) ->
         ModalOf(made, arg, Each(made, arg.components, FieldEntry), ModalFields(made, arg.fields))

\* modalFieldIDs, as a test that reads the response is shown them.
CutPrefix(id) == IF id # <<>> /\ Head(id) = TemplatePrefix THEN Tail(id) ELSE id
ModalFieldIDs(fields) == [i \in DOMAIN fields |-> CutPrefix(fields[i].id)]
=============================================================================
