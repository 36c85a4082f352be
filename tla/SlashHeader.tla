---------------------------- MODULE SlashHeader ----------------------------
(* The header of a template as the emulator reads it and the control panel  *)
(* stores it: its trigger, switches, interval, defer mode, and the rows of  *)
(* a slash command (runtime/trigger.go, runtime/slash.go).                  *)
(*                                                                          *)
(* A header is a record of its lines; "" or 0 is a line it does not have.   *)
(* A row is [sub, name, type, required, description], names are texts.      *)
EXTENDS TriggerMatch

CONSTANTS
  MaxName,          \* the longest name of a command or an option (32)
  MaxOptions,       \* the most options of a command (25)
  MaxHours,         \* the longest hourly interval (744)
  MinMinutes,       \* the shortest and the longest minute interval (5, 44640)
  MaxMinutes,
  Hour              \* the minutes of an hour (60)

ASSUME HeaderBounds ==
  {MaxName, MaxOptions, MaxHours, MinMinutes, MaxMinutes, Hour} \subseteq Nat \ {0}

\* The types an option may have, and those that are a choice of another's.
MenuBase == [string_menu |-> "string", integer_menu |-> "integer", number_menu |-> "number"]
SlashFormTypes ==
  DOMAIN MenuBase \cup {"string", "integer", "number", "boolean", "user", "channel", "role", "mentionable"}

DeferModeLabels == {"None", "Message Response", "Ephemeral Message Response", "Update Message Response"}

-----------------------------------------------------------------------------
(* Reading.                                                                 *)

HasTrigger(h)  == h.type # ""
ReadTrigger(h) == [type |-> h.type, text |-> h.text, caseSensitive |-> h.caseSensitive = "true"]
ReadDeferMode(h) == IF h.defer \in DeferModeLabels THEN h.defer ELSE "None"
ReadInterval(h)  == h.interval > 0

Lowered(name) == [i \in DOMAIN name |-> Folded(name[i])]

Trimmed(text) ==
  LET words == {i \in DOMAIN text : text[i] # Space}
  IN  IF words = {} THEN <<>> ELSE SubSeq(text, Min(words), Max(words))

\* slashCommandNameRegex, and contextMenuNameRegex, which takes spaces too
Name(text, more) ==
  Len(text) \in 1 .. MaxName /\ Range(text) \cap ({Space, Quote, Tick, Backslash, Mention} \ more) = {}

Described(row) == row.description = "good"     \* 1 to 100 characters

RefusedDef == [ok |-> FALSE, subs |-> <<>>, options |-> <<>>]

\* parseSlashSubcommandRow
ParseSlashSubcommandRow(def, row) ==
  IF ~def.ok \/ row.description = "" THEN RefusedDef
  ELSE [def EXCEPT !.subs = Append(@, [name |-> row.name, description |-> row.description, options |-> <<>>])]

\* parseSlashOptionRow
ParsesAsOption(row) == row.description # "" /\ row.type \in SlashFormTypes

\* An option goes to the subcommand it names, or to the command if that has none.
PlaceOption(def, row) ==
  LET named == {i \in DOMAIN def.subs : Lowered(def.subs[i].name) = Lowered(row.sub)}
  IN  CASE ~def.ok \/ ~ParsesAsOption(row)           -> RefusedDef
        [] row.sub = <<>> /\ def.subs = <<>>         -> [def EXCEPT !.options = Append(@, row)]
        [] row.sub # <<>> /\ named # {}              -> [def EXCEPT !.subs[Min(named)].options = Append(@, row)]
        [] OTHER                                     -> RefusedDef

-----------------------------------------------------------------------------
(* Validation.                                                              *)

\* The names are names, in lower case, each once, and everything is described.
ValidRows(rows) ==
  /\ \A i \in DOMAIN rows :
       /\ Name(Trimmed(rows[i].name), {})
       /\ Trimmed(rows[i].name) = Lowered(Trimmed(rows[i].name))
       /\ Described(rows[i])
  /\ \A i, j \in DOMAIN rows : Trimmed(rows[i].name) = Trimmed(rows[j].name) => i = j

\* validateSlashOptionList
ValidateSlashOptionList(options) == Len(options) <= MaxOptions /\ ValidRows(options)

\* validateSlashCommandDef
ValidateSlashCommandDef(def) ==
  IF def.subs # <<>>
  THEN ValidRows(def.subs) /\ \A i \in DOMAIN def.subs : ValidateSlashOptionList(def.subs[i].options)
  ELSE ValidateSlashOptionList(def.options)

\* ReadSlashCommand
ReadSlashCommand(h) ==
  LET subs == FoldLeft(ParseSlashSubcommandRow, [ok |-> TRUE, subs |-> <<>>, options |-> <<>>], h.subs)
      def  == FoldLeft(PlaceOption, subs, h.options)
  IN  IF /\ h.type = "Slash Command"
         /\ h.text = Lowered(h.text)
         /\ Name(Trimmed(h.text), {})
         /\ ReadDeferMode(h) # "Update Message Response"
         /\ h.description # "long"
         /\ def.ok
         /\ ValidateSlashCommandDef(def)
      THEN def ELSE RefusedDef

\* What the panel would not show back as written: a menu of choices, and a
\* required option after another.
Deployable(options) ==
  /\ \A i \in DOMAIN options : options[i].type \notin DOMAIN MenuBase
  /\ \A i, j \in DOMAIN options : i < j /\ options[j].required => options[i].required

\* A plausible slip: the options of subcommands are not looked at.
DeployableTopLevel(def) == Deployable(def.options)

\* validateDeployableSlashDef
ValidateDeployableSlashDef(def) ==
  Deployable(def.options) /\ \A i \in DOMAIN def.subs : Deployable(def.subs[i].options)

\* validateContextMenuHeader
ValidateContextMenuHeader(h) ==
  Name(Trimmed(h.text), {Space}) /\ ReadDeferMode(h) # "Update Message Response"

ValidInterval(h) ==
  CASE h.type = "Hourly interval" -> ReadInterval(h) /\ h.interval <= MaxHours
    [] h.type = "Minute interval" -> h.interval \in MinMinutes .. MaxMinutes /\ h.interval % Hour # 0
    [] OTHER -> TRUE

\* ValidateHeader
ValidateHeader(h) ==
  /\ {h.caseSensitive, h.showErrors} \subseteq {"", "true", "false"}
  /\ h.redirect # "notAChannel"
  /\ h.defer \in DeferModeLabels \cup {""}
  /\ ValidInterval(h)
  /\ IF h.type = "Slash Command"
     THEN LET def == ReadSlashCommand(h)
          IN  def.ok /\ (h.group => ValidateDeployableSlashDef(def) /\ h.description # "")
     ELSE /\ IsContextMenu(h) => ValidateContextMenuHeader(h)
          /\ h.subs = <<>> /\ h.options = <<>> /\ h.description = ""

-----------------------------------------------------------------------------
(* The control panel, as slash.go and trigger.go describe it.               *)

\* The rows as it shows them: the required options first, each in its order,
\* and a menu without choices as its base type.
PanelRows(options) ==
  LET required(row) == row.required
      optional(row) == ~row.required
      shown(row) == [row EXCEPT !.type = IF @ \in DOMAIN MenuBase THEN MenuBase[@] ELSE @]
      sorted == SelectSeq(options, required) \o SelectSeq(options, optional)
  IN  [i \in DOMAIN sorted |-> shown(sorted[i])]

PanelShows(def) ==
  [def EXCEPT !.options = PanelRows(@),
              !.subs = [i \in DOMAIN def.subs |-> [def.subs[i] EXCEPT !.options = PanelRows(@)]]]

\* An interval is kept in minutes; whole hours are shown as hours.
PanelInterval(h) ==
  LET minutes == IF h.type = "Hourly interval" THEN h.interval * Hour ELSE h.interval
  IN  IF minutes % Hour = 0 THEN [type |-> "Hourly interval", interval |-> minutes \div Hour]
      ELSE [type |-> "Minute interval", interval |-> minutes]

ReadsBack(h) ==
  /\ h.type = "Slash Command" => PanelShows(ReadSlashCommand(h)) = ReadSlashCommand(h)
  /\ h.type \in IntervalTriggers => PanelInterval(h) = [type |-> h.type, interval |-> h.interval]
=============================================================================
