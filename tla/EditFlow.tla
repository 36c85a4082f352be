----------------------------- MODULE EditFlow ------------------------------
(***************************************************************************)
(* /edit: the rows it writes (a row is a section, its keys are entries;    *)
(* the rules are the section "Rules"), the forms and delete confirms it    *)
(* opens on Discord, and the rows "Edit Pending" that tie a confirm's      *)
(* buttons to what they delete:                                            *)
(*   commands/edit/edit_slash.gohtml, edit_modal.gohtml and                *)
(*   edit_confirm.gohtml, with the writes of commands/db/db_slash.gohtml.  *)
(*                                                                         *)
(* A run is one step up to the last read before its first write, and one   *)
(* step per write; a confirm reads its record and the section in two.  A   *)
(* refusal only answers, so it is no step.  Texts are what a form can      *)
(* save: the text "(nil)" is always refused.                               *)
(***************************************************************************)
EXTENDS Naturals, FiniteSets

CONSTANTS
  Users, Sections, Names, Texts,
  RulesSection, CommandsSection,
  RuleNames,           \* the names "Rule #n" with n >= 1
  ValidRules,          \* those with n <= 9999
  Titled,              \* Titled[n]: the typed name n, first letters capitalised
  Group,               \* a list or a settings group, the value that is no text
  Absent,              \* no such entry
  NoRow, Plain,        \* no such row; a row that is a single value or a list
  NoRecord,
  Runs, Overlap, MayCrash,
  OneConfirmPerSecond, \* nobody opens two confirms in the same second
  Hour,                \* the lifetime of forms and confirms, 3600 seconds
  MaxNow, MaxForms     \* bounds: the clock, the forms open at once

Values   == Texts \cup {Group}
DictRows == [Names -> Values \cup {Absent}]
Rows     == DictRows \cup {NoRow, Plain}

ASSUME SectionsAssumption == RulesSection \in Sections /\ RulesSection # CommandsSection
ASSUME NamesAssumption ==
  /\ ValidRules \subseteq RuleNames /\ RuleNames \subseteq Names
  /\ Titled \in [Names -> Names]
  /\ \A n \in Names : Titled[Titled[n]] = Titled[n]
  /\ \A n \in RuleNames : Titled[n] = n
ASSUME ValuesAssumption ==
  /\ Absent \notin Values /\ Group \notin Texts
  /\ NoRow \notin DictRows /\ Plain \notin DictRows /\ NoRow # Plain
ASSUME ClockAssumption == Hour \in Nat /\ MaxNow \in Nat /\ MaxForms \in Nat
ASSUME FlagsAssumption ==
  Overlap \in BOOLEAN /\ MayCrash \in BOOLEAN /\ OneConfirmPerSecond \in BOOLEAN

Records  == [section : Sections, name : Names, stamp : Nat]
ASSUME NoRecordAssumption == NoRecord \notin Records

VARIABLES
  store,     \* store[s]: the row of section s
  pending,   \* pending[u]: u's row "Edit Pending"
  staff,     \* the members who wear the Staff role
  forms,     \* the open forms
  confirms,  \* the delete confirms sent; a click on one can arrive any time
  run,       \* run[r]: the local variables of the run in slot r
  now,       \* the clock, in seconds
  (* history: what happened, read by no action *)
  acted      \* the confirms that deleted their entry

vars == <<store, pending, staff, forms, confirms, run, now, acted>>

-----------------------------------------------------------------------------
(* An entry form can be filled in freely, so it carries no section.        *)
Forms == [kind : {"rule"}, name : ValidRules, user : Users, stamp : Nat]
           \cup [kind : {"entry"}, create : BOOLEAN, user : Users, stamp : Nat]

(* The buttons' custom id holds the user and the stamp; the section and    *)
(* the name are what the message shows.                                    *)
Confirms == [user : Users, section : Sections, name : Names, stamp : Nat]

Idle == [op |-> "none"]
FormRuns ==
  [op : {"form"}, kind : {"rule", "entry"}, section : Sections, name : Names,
   row : DictRows, text : Texts]
ConfirmRuns ==
  [op : {"confirm"}, stage : {"read", "write", "clear"}, confirm : Confirms,
   record : Records, row : DictRows]
RunType == {Idle} \cup FormRuns \cup ConfirmRuns

TypeOK ==
  /\ store \in [Sections -> Rows]
  /\ pending \in [Users -> Records \cup {NoRecord}]
  /\ staff \in SUBSET Users
  /\ forms \in SUBSET Forms
  /\ confirms \in SUBSET Confirms
  /\ run \in [Runs -> RunType]
  /\ now \in Nat
  /\ acted \in SUBSET Confirms

IsDict(row) == row \in DictRows
EmptyRow    == [n \in Names |-> Absent]
DictOf(row) == IF IsDict(row) THEN row ELSE EmptyRow

(* title, which leaves the section "Commands" alone. *)
KeyOf(s, typed) == IF s = CommandsSection THEN typed ELSE Titled[typed]

Holds(s, n, v) == IsDict(store[s]) /\ store[s][n] = v

(* Rows with nothing in them or missing, nothing open, nothing pending.    *)
Init ==
  /\ store \in [Sections -> {NoRow, Plain, EmptyRow}]
  /\ store[RulesSection] # Plain
  /\ pending = [u \in Users |-> NoRecord]
  /\ staff = Users
  /\ forms = {}
  /\ confirms = {}
  /\ run = [r \in Runs |-> Idle]
  /\ now = 0
  /\ acted = {}

Active(r) == run[r].op # "none"
MayAct == Overlap \/ \A r \in Runs : ~Active(r)
Free(r) == MayAct /\ ~Active(r)
Fresh(stamp) == now - stamp < Hour
At(r, stage) == run[r].op = "confirm" /\ run[r].stage = stage

-----------------------------------------------------------------------------
(* /edit rule and /edit entry open a form.  The entry form opens without a *)
(* section too; one that is given must exist, or create be set, and hold   *)
(* no group under the name.                                                *)
OpenForm(f) ==
  /\ MayAct
  /\ Cardinality(forms) < MaxForms
  /\ forms' = forms \cup {f}
  /\ UNCHANGED <<store, pending, staff, confirms, run, now, acted>>

OpenRuleForm(u, n) ==
  /\ u \in staff
  /\ n \in ValidRules
  /\ OpenForm([kind |-> "rule", name |-> n, user |-> u, stamp |-> now])

OpenEntryForm(u, create, s, typed, given) ==
  /\ u \in staff
  /\ given => /\ create \/ store[s] # NoRow
              /\ ~Holds(s, KeyOf(s, typed), Group)
  /\ OpenForm([kind |-> "entry", create |-> create, user |-> u, stamp |-> now])

-----------------------------------------------------------------------------
(* edit_modal: the section is read again, and the text saved unless it is  *)
(* what the entry holds already.                                           *)
Submit(r, f, s, n, t) ==
  LET row == DictOf(store[s])
  IN  /\ Free(r)
      /\ f \in forms
      /\ f.user \in staff
      /\ Fresh(f.stamp)
      /\ forms' = forms \ {f}
      /\ run' = IF row[n] = t
                THEN run
                ELSE [run EXCEPT ![r] = [op |-> "form", kind |-> f.kind, section |-> s,
                                         name |-> n, row |-> row, text |-> t]]
      /\ UNCHANGED <<store, pending, staff, confirms, now, acted>>

SubmitRuleForm(r, f, t) ==
  /\ f.kind = "rule"
  /\ Submit(r, f, RulesSection, f.name, t)

(* A plausible slip: the check looks at the name as it was typed.          *)
SubmitEntryFormCheckingTyped(r, f, s, typed, t) ==
  /\ f.kind = "entry"
  /\ store[s] # Plain
  /\ f.create \/ store[s] # NoRow
  /\ ~Holds(s, typed, Group)
  /\ Submit(r, f, s, KeyOf(s, typed), t)

(* Refused: a section that is missing and not to be created, one that is   *)
(* no dictionary, an entry that holds a group.                             *)
SubmitEntryForm(r, f, s, typed, t) ==
  /\ f.kind = "entry"
  /\ store[s] # Plain
  /\ f.create \/ store[s] # NoRow
  /\ ~Holds(s, KeyOf(s, typed), Group)
  /\ Submit(r, f, s, KeyOf(s, typed), t)

(* The new text and the whole section it was read with.                    *)
SaveForm(r) ==
  LET local == run[r]
  IN  /\ local.op = "form"
      /\ store' = [store EXCEPT ![local.section] = [local.row EXCEPT ![local.name] = local.text]]
      /\ run' = [run EXCEPT ![r] = Idle]
      /\ UNCHANGED <<pending, staff, forms, confirms, now, acted>>

-----------------------------------------------------------------------------
(* /edit delete_rule and delete_entry: the record, with the stamp of the   *)
(* moment, and the confirm message.  Both the record and the message are   *)
(* new, so that the run needs no second step.                              *)
OpenConfirm(u, s, n) ==
  /\ MayAct
  /\ u \in staff
  /\ IsDict(store[s])
  /\ store[s][n] # Absent
  /\ OneConfirmPerSecond => ~\E c \in confirms : c.user = u /\ c.stamp = now
  /\ pending' = [pending EXCEPT ![u] = [section |-> s, name |-> n, stamp |-> now]]
  /\ confirms' = confirms \cup {[user |-> u, section |-> s, name |-> n, stamp |-> now]}
  /\ UNCHANGED <<store, staff, forms, run, now, acted>>

OpenRuleConfirm(u, n) == n \in RuleNames /\ OpenConfirm(u, RulesSection, n)
OpenEntryConfirm(u, s, typed) == OpenConfirm(u, s, KeyOf(s, typed))

-----------------------------------------------------------------------------
(* edit_confirm.  The button acts only on a record with its own stamp.     *)
Matches(c) == pending[c.user] # NoRecord /\ pending[c.user].stamp = c.stamp
MayPress(r, c) == Free(r) /\ c \in confirms /\ c.user \in staff /\ Fresh(c.stamp)

PressWith(r, c, stage) ==
  /\ run' = [run EXCEPT ![r] = [op |-> "confirm", stage |-> stage, confirm |-> c,
                                record |-> pending[c.user], row |-> EmptyRow]]
  /\ UNCHANGED <<store, pending, staff, forms, confirms, now, acted>>

(* A plausible slip: the record's stamp is not compared.                   *)
PressGoUnmatched(r, c) ==
  /\ MayPress(r, c)
  /\ pending[c.user] # NoRecord
  /\ PressWith(r, c, "read")

PressGo(r, c) ==
  /\ MayPress(r, c)
  /\ Matches(c)
  /\ PressWith(r, c, "read")

(* Dismiss closes the message in any case; it clears a record that matches. *)
PressDismiss(r, c) ==
  /\ MayPress(r, c)
  /\ Matches(c)
  /\ PressWith(r, c, "clear")

(* The section is read.  An entry that is gone ends the run, and leaves    *)
(* the record where it is.                                                 *)
ReadSection(r) ==
  LET row == DictOf(store[run[r].record.section])
  IN  /\ At(r, "read")
      /\ run' = IF row[run[r].record.name] = Absent
                THEN [run EXCEPT ![r] = Idle]
                ELSE [run EXCEPT ![r].stage = "write", ![r].row = row]
      /\ UNCHANGED <<store, pending, staff, forms, confirms, now, acted>>

(* A plausible slip: the record stays when the entry is deleted.           *)
DeleteEntryKeepingRecord(r) ==
  LET record == run[r].record
  IN  /\ At(r, "write")
      /\ store' = [store EXCEPT ![record.section] = [run[r].row EXCEPT ![record.name] = Absent]]
      /\ acted' = acted \cup {run[r].confirm}
      /\ run' = [run EXCEPT ![r] = Idle]
      /\ UNCHANGED <<pending, staff, forms, confirms, now>>

(* A plausible slip: the section is written back empty.                    *)
DeleteWholeSection(r) ==
  LET record == run[r].record
  IN  /\ At(r, "write")
      /\ store' = [store EXCEPT ![record.section] = EmptyRow]
      /\ acted' = acted \cup {run[r].confirm}
      /\ run' = [run EXCEPT ![r].stage = "clear"]
      /\ UNCHANGED <<pending, staff, forms, confirms, now>>

DeleteEntry(r) ==
  LET record == run[r].record
  IN  /\ At(r, "write")
      /\ store' = [store EXCEPT ![record.section] = [run[r].row EXCEPT ![record.name] = Absent]]
      /\ acted' = acted \cup {run[r].confirm}
      /\ run' = [run EXCEPT ![r].stage = "clear"]
      /\ UNCHANGED <<pending, staff, forms, confirms, now>>

(* dbDel of the record, whatever it holds by now. *)
ClearRecord(r) ==
  /\ At(r, "clear")
  /\ pending' = [pending EXCEPT ![run[r].confirm.user] = NoRecord]
  /\ run' = [run EXCEPT ![r] = Idle]
  /\ UNCHANGED <<store, staff, forms, confirms, now, acted>>

-----------------------------------------------------------------------------
(* Outside /edit: an admin's /db on an entry or a whole section (one step, *)
(* its names are not capitalised), the Staff role given or taken, a form   *)
(* closed unsent, time, a run that stops.                                  *)
DbWrite(s, n, v) ==
  /\ MayAct
  /\ IsDict(store[s])
  /\ store' = [store EXCEPT ![s][n] = v]
  /\ UNCHANGED <<pending, staff, forms, confirms, run, now, acted>>

DbDropSection(s) ==
  /\ MayAct
  /\ store' = [store EXCEPT ![s] = NoRow]
  /\ UNCHANGED <<pending, staff, forms, confirms, run, now, acted>>

ChangeStaff(u) ==
  /\ MayAct
  /\ staff' = IF u \in staff THEN staff \ {u} ELSE staff \cup {u}
  /\ UNCHANGED <<store, pending, forms, confirms, run, now, acted>>

CloseForm(f) ==
  /\ forms' = forms \ {f}
  /\ UNCHANGED <<store, pending, staff, confirms, run, now, acted>>

Tick ==
  /\ now < MaxNow
  /\ now' = now + 1
  /\ UNCHANGED <<store, pending, staff, forms, confirms, run, acted>>

Crash(r) ==
  /\ MayCrash
  /\ Active(r)
  /\ run' = [run EXCEPT ![r] = Idle]
  /\ UNCHANGED <<store, pending, staff, forms, confirms, now, acted>>

-----------------------------------------------------------------------------
EditSlash ==
  \E u \in Users :
    \/ \E n \in Names : OpenRuleForm(u, n) \/ OpenRuleConfirm(u, n)
    \/ \E s \in Sections, typed \in Names :
         \/ OpenEntryConfirm(u, s, typed)
         \/ \E create, given \in BOOLEAN : OpenEntryForm(u, create, s, typed, given)

EditModal(r) ==
  \/ \E f \in forms, t \in Texts :
       \/ SubmitRuleForm(r, f, t)
       \/ \E s \in Sections, typed \in Names : SubmitEntryForm(r, f, s, typed, t)
  \/ SaveForm(r)

EditConfirm(r) ==
  \/ \E c \in confirms : PressGo(r, c) \/ PressDismiss(r, c)
  \/ ReadSection(r)
  \/ DeleteEntry(r)
  \/ ClearRecord(r)

Environment ==
  \/ \E s \in Sections, n \in Names, v \in Values \cup {Absent} : DbWrite(s, n, v)
  \/ \E s \in Sections : DbDropSection(s)
  \/ \E u \in Users : ChangeStaff(u)
  \/ \E f \in forms : CloseForm(f)
  \/ Tick

Next ==
  \/ EditSlash
  \/ \E r \in Runs : EditModal(r) \/ EditConfirm(r) \/ Crash(r)
  \/ Environment

Spec == Init /\ [][Next]_vars

-----------------------------------------------------------------------------
(* What a save or a delete is about to write over.                         *)
Saves(r)   == run[r].op = "form"
Deletes(r) == At(r, "write")
Target(r)  == IF Saves(r) THEN <<run[r].section, run[r].name>>
                          ELSE <<run[r].record.section, run[r].record.name>>

(* A Delete button deletes only what its own message showed: the record it *)
(* acts on names the section and the entry of that message (edit_confirm:  *)
(* "the record belongs to ONE confirm").                                   *)
DeletesWhatItShowed ==
  \A r \in Runs : Deletes(r) =>
     Target(r) = <<run[r].confirm.section, run[r].confirm.name>>

(* A run changes no entry but its own, and answers with the value it       *)
(* replaced or removed ("Was", "removed"): nothing is lost unseen.         *)
LosesNothingUnseen ==
  [][\A r \in Runs : Saves(r) \/ Deletes(r) =>
       \A s \in Sections, n \in Names, v \in Values :
          Holds(s, n, v) /\ ~Holds(s, n, v)' =>
             Target(r) = <<s, n>> /\ run[r].row[n] = v]_vars

(* The entry form never overwrites a list or a settings group with text    *)
(* (edit_modal: "the form can be stale, or built before the entry changed  *)
(* type").                                                                 *)
GroupsStay ==
  \A r \in Runs : Saves(r) /\ run[r].kind = "entry" =>
     ~Holds(run[r].section, run[r].name, Group)

(* A confirm deletes once: clicked again, when somebody has put the entry  *)
(* back, it finds its record gone.                                         *)
DeletesOnce == \A r \in Runs : Deletes(r) => run[r].confirm \notin acted

-----------------------------------------------------------------------------
(* Strengthenings.  A record and the confirms that match it agree on what  *)
(* they delete, and so do a run's record and the message pressed.          *)
SameTarget(record, c) == record.section = c.section /\ record.name = c.name

RecordsAgree ==
  \A u \in Users, c \in confirms :
     pending[u] # NoRecord /\ c.user = u /\ pending[u].stamp = c.stamp
       => SameTarget(pending[u], c)

RunsAgree ==
  \A r \in Runs : At(r, "read") \/ At(r, "write") => SameTarget(run[r].record, run[r].confirm)

ConfirmInv == RecordsAgree /\ RunsAgree

(* Without overlap, the row a run is about to write back is still the one  *)
(* in the store.                                                           *)
AloneInv ==
  /\ \A r, q \in Runs : Active(r) /\ Active(q) => r = q
  /\ \A r \in Runs : Saves(r) \/ Deletes(r) => run[r].row = DictOf(store[Target(r)[1]])
  /\ GroupsStay
(* Without overlap and crashes, the record of a confirm that deleted is    *)
(* gone, or about to be cleared.                                           *)
OnceInv ==
  /\ acted \subseteq confirms
  /\ \A c \in acted : Matches(c) =>
        \E r \in Runs : At(r, "clear") /\ run[r].confirm.user = c.user
  /\ \A r \in Runs : At(r, "read") \/ At(r, "write") =>
        run[r].confirm \in confirms /\ Matches(run[r].confirm)
=============================================================================
