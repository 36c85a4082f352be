-------------------------- MODULE EditFlowProofs ---------------------------
(***************************************************************************)
(* Proofs about EditFlow, for every set of members, sections, names and    *)
(* texts, every clock and every lifetime of a confirm.                     *)
(***************************************************************************)
EXTENDS EditFlow, TLAPS

-----------------------------------------------------------------------------
(* Every variable keeps its type.                                          *)
LEMMA EmptyRowType == EmptyRow \in DictRows
  BY DEF EmptyRow, DictRows

LEMMA DictOfType == \A row : DictOf(row) \in DictRows
  BY EmptyRowType DEF DictOf, IsDict

LEMMA KeyType == \A s \in Sections, n \in Names : KeyOf(s, n) \in Names
  BY NamesAssumption DEF KeyOf

(* A run in a state of its own has the fields of that state.               *)
LEMMA RunTypes ==
  ASSUME TypeOK, NEW r \in Runs
  PROVE  /\ run[r].op = "form" => run[r] \in FormRuns
         /\ run[r].op = "confirm" => run[r] \in ConfirmRuns
         /\ Active(r) => run[r].op \in {"form", "confirm"}
<1>1. run[r] \in {Idle} \cup FormRuns \cup ConfirmRuns
  BY DEF TypeOK, RunType
<1>2. CASE run[r] = Idle
  BY <1>2 DEF Idle, Active
<1>3. CASE run[r] \in FormRuns
  BY <1>3 DEF FormRuns, Active
<1>4. CASE run[r] \in ConfirmRuns
  BY <1>4 DEF ConfirmRuns, Active
<1> QED BY <1>1, <1>2, <1>3, <1>4

LEMMA IdleType == Idle \in RunType
  BY DEF RunType

LEMMA TypeInit == Init => TypeOK
<1> SUFFICES ASSUME Init PROVE TypeOK
  OBVIOUS
<1>1. store \in [Sections -> Rows]
  BY EmptyRowType DEF Init, Rows
<1> QED BY <1>1, IdleType DEF Init, TypeOK

LEMMA SubmitType ==
  ASSUME TypeOK, NEW r \in Runs, NEW f \in forms, NEW s \in Sections, NEW n \in Names,
         NEW t \in Texts, f.kind \in {"rule", "entry"}, Submit(r, f, s, n, t)
  PROVE  TypeOK'
<1>1. DictOf(store[s]) \in DictRows
  BY DictOfType
<1>2. run' \in [Runs -> RunType]
  BY <1>1 DEF Submit, TypeOK, RunType, FormRuns
<1> QED BY <1>2 DEF Submit, TypeOK

LEMMA OpenConfirmType ==
  ASSUME TypeOK, NEW u \in Users, NEW s \in Sections, NEW n \in Names, OpenConfirm(u, s, n)
  PROVE  TypeOK'
  BY DEF OpenConfirm, TypeOK, Records, Confirms

LEMMA PressType ==
  ASSUME TypeOK, NEW r \in Runs, NEW c \in confirms, Matches(c),
         NEW stage \in {"read", "clear"}, PressWith(r, c, stage)
  PROVE  TypeOK'
<1>1. pending[c.user] \in Records /\ c \in Confirms
  BY DEF TypeOK, Matches, Confirms
<1>2. run' \in [Runs -> RunType]
  BY <1>1, EmptyRowType DEF PressWith, TypeOK, RunType, ConfirmRuns
<1> QED BY <1>2 DEF PressWith, TypeOK

LEMMA TypeNext == TypeOK /\ [Next]_vars => TypeOK'
<1> SUFFICES ASSUME TypeOK, [Next]_vars PROVE TypeOK'
  OBVIOUS
<1>1. ASSUME NEW u \in Users, NEW n \in Names, OpenRuleForm(u, n)
      PROVE  TypeOK'
  BY <1>1 DEF OpenRuleForm, OpenForm, TypeOK, Forms
<1>2. ASSUME NEW u \in Users, NEW create \in BOOLEAN, NEW given \in BOOLEAN,
             NEW s \in Sections, NEW typed \in Names, OpenEntryForm(u, create, s, typed, given)
      PROVE  TypeOK'
  BY <1>2 DEF OpenEntryForm, OpenForm, TypeOK, Forms
<1>3. ASSUME NEW u \in Users, NEW n \in Names, OpenRuleConfirm(u, n)
      PROVE  TypeOK'
  BY <1>3, OpenConfirmType, SectionsAssumption DEF OpenRuleConfirm
<1>4. ASSUME NEW u \in Users, NEW s \in Sections, NEW typed \in Names,
             OpenEntryConfirm(u, s, typed)
      PROVE  TypeOK'
  BY <1>4, OpenConfirmType, KeyType DEF OpenEntryConfirm
<1>5. ASSUME NEW r \in Runs, NEW f \in forms, NEW t \in Texts, SubmitRuleForm(r, f, t)
      PROVE  TypeOK'
  <2>1. f.name \in Names
    BY <1>5, NamesAssumption DEF SubmitRuleForm, TypeOK, Forms
  <2> QED BY <1>5, <2>1, SubmitType, SectionsAssumption DEF SubmitRuleForm
<1>6. ASSUME NEW r \in Runs, NEW f \in forms, NEW t \in Texts, NEW s \in Sections,
             NEW typed \in Names, SubmitEntryForm(r, f, s, typed, t)
      PROVE  TypeOK'
  BY <1>6, SubmitType, KeyType DEF SubmitEntryForm
<1>7. ASSUME NEW r \in Runs, SaveForm(r)
      PROVE  TypeOK'
  <2>1. run[r] \in FormRuns
    BY <1>7, RunTypes DEF SaveForm
  <2>2. [run[r].row EXCEPT ![run[r].name] = run[r].text] \in DictRows
    BY <2>1 DEF FormRuns, DictRows, Values
  <2> QED BY <1>7, <2>2, IdleType DEF SaveForm, TypeOK, Rows
<1>8. ASSUME NEW r \in Runs, NEW c \in confirms, PressGo(r, c) \/ PressDismiss(r, c)
      PROVE  TypeOK'
  BY <1>8, PressType DEF PressGo, PressDismiss
<1>9. ASSUME NEW r \in Runs, ReadSection(r)
      PROVE  TypeOK'
  <2>1. run[r] \in ConfirmRuns
    BY <1>9, RunTypes DEF ReadSection, At
  <2>2. DictOf(store[run[r].record.section]) \in DictRows
    BY DictOfType
  <2>3. run' \in [Runs -> RunType]
    BY <1>9, <2>1, <2>2, IdleType DEF ReadSection, TypeOK, RunType, ConfirmRuns
  <2> QED BY <1>9, <2>3 DEF ReadSection, TypeOK
<1>10. ASSUME NEW r \in Runs, DeleteEntry(r)
       PROVE  TypeOK'
  <2>1. run[r] \in ConfirmRuns
    BY <1>10, RunTypes DEF DeleteEntry, At
  <2>2. [run[r].row EXCEPT ![run[r].record.name] = Absent] \in DictRows
    BY <2>1 DEF ConfirmRuns, DictRows
  <2>3. run' \in [Runs -> RunType]
    BY <1>10, <2>1 DEF DeleteEntry, TypeOK, RunType, ConfirmRuns
  <2>4. store' \in [Sections -> Rows] /\ acted' \in SUBSET Confirms
    BY <1>10, <2>1, <2>2 DEF DeleteEntry, TypeOK, Rows, ConfirmRuns
  <2> QED BY <1>10, <2>3, <2>4 DEF DeleteEntry, TypeOK
<1>11. ASSUME NEW r \in Runs, ClearRecord(r)
       PROVE  TypeOK'
  BY <1>11, IdleType DEF ClearRecord, TypeOK
<1>12. ASSUME NEW s \in Sections, NEW n \in Names, NEW v \in Values \cup {Absent},
              DbWrite(s, n, v)
       PROVE  TypeOK'
  <2>1. store[s] \in DictRows
    BY <1>12 DEF DbWrite, IsDict
  <2>2. [store[s] EXCEPT ![n] = v] \in DictRows
    BY <2>1 DEF DictRows
  <2> QED BY <1>12, <2>2 DEF DbWrite, TypeOK, Rows
<1>13. ASSUME NEW s \in Sections, DbDropSection(s)
       PROVE  TypeOK'
  BY <1>13 DEF DbDropSection, TypeOK, Rows
<1>14. ASSUME NEW u \in Users, ChangeStaff(u)
       PROVE  TypeOK'
  BY <1>14 DEF ChangeStaff, TypeOK
<1>15. ASSUME NEW f \in forms, CloseForm(f)
       PROVE  TypeOK'
  BY <1>15 DEF CloseForm, TypeOK
<1>16. CASE Tick
  BY <1>16, ClockAssumption DEF Tick, TypeOK
<1>17. ASSUME NEW r \in Runs, Crash(r)
       PROVE  TypeOK'
  BY <1>17, IdleType DEF Crash, TypeOK
<1>18. CASE UNCHANGED vars
  BY <1>18 DEF vars, TypeOK
<1> QED
  BY <1>1, <1>2, <1>3, <1>4, <1>5, <1>6, <1>7, <1>8, <1>9, <1>10, <1>11, <1>12,
     <1>13, <1>14, <1>15, <1>16, <1>17, <1>18
  DEF Next, EditSlash, EditModal, EditConfirm, Environment

(* Type correctness, whatever overlaps or crashes.                         *)
THEOREM TypeCorrect == Spec => []TypeOK
  BY TypeInit, TypeNext, PTL DEF Spec

-----------------------------------------------------------------------------
(* A Delete button deletes only what its message showed.  The stamp ties   *)
(* the record to the message as long as no member opens two confirms in    *)
(* the same second.                                                        *)
LEMMA ConfirmInit == Init => ConfirmInv
  BY DEF Init, ConfirmInv, RecordsAgree, RunsAgree, At, Idle

(* Steps that touch no record and no confirm, and bring no run to "read"   *)
(* or "write" that was not there with the same record and message.         *)
LEMMA ConfirmKept ==
  ASSUME ConfirmInv, pending' = pending, confirms' = confirms,
         \A q \in Runs : run'[q].op = "confirm" /\ run'[q].stage \in {"read", "write"} =>
            /\ At(q, "read") \/ At(q, "write")
            /\ run'[q].record = run[q].record /\ run'[q].confirm = run[q].confirm
  PROVE  ConfirmInv'
  BY DEF ConfirmInv, RecordsAgree, RunsAgree, At, SameTarget

LEMMA OpenConfirmAgrees ==
  ASSUME TypeOK, ConfirmInv, OneConfirmPerSecond, NEW u \in Users, NEW s \in Sections,
         NEW n \in Names, OpenConfirm(u, s, n)
  PROVE  ConfirmInv'
<1>1. RunsAgree'
  BY DEF OpenConfirm, ConfirmInv, RunsAgree, At, SameTarget
<1>2. ASSUME NEW v \in Users, NEW c \in confirms', pending'[v] # NoRecord,
             c.user = v, pending'[v].stamp = c.stamp
      PROVE  SameTarget(pending'[v], c)
  <2>1. CASE v = u
    <3>1. pending'[v] = [section |-> s, name |-> n, stamp |-> now]
      BY <2>1 DEF OpenConfirm, TypeOK
    <3>2. c \notin confirms
      BY <1>2, <2>1, <3>1 DEF OpenConfirm
    <3>3. c = [user |-> u, section |-> s, name |-> n, stamp |-> now]
      BY <3>2 DEF OpenConfirm
    <3> QED BY <3>1, <3>3 DEF SameTarget
  <2>2. CASE v # u
    <3>1. pending'[v] = pending[v] /\ c \in confirms
      BY <1>2, <2>2 DEF OpenConfirm, TypeOK
    <3> QED BY <1>2, <3>1 DEF ConfirmInv, RecordsAgree
  <2> QED BY <2>1, <2>2
<1> QED BY <1>1, <1>2 DEF ConfirmInv, RecordsAgree

LEMMA ConfirmNext ==
  ASSUME OneConfirmPerSecond
  PROVE  TypeOK /\ ConfirmInv /\ [Next]_vars => ConfirmInv'
<1> SUFFICES ASSUME TypeOK, ConfirmInv, [Next]_vars PROVE ConfirmInv'
  OBVIOUS
<1>1. ASSUME NEW u \in Users, NEW s \in Sections, NEW n \in Names, OpenConfirm(u, s, n)
      PROVE  ConfirmInv'
  BY <1>1, OpenConfirmAgrees
<1>2. ASSUME NEW u \in Users, NEW n \in Names, OpenRuleConfirm(u, n)
      PROVE  ConfirmInv'
  BY <1>1, <1>2, SectionsAssumption DEF OpenRuleConfirm
<1>3. ASSUME NEW u \in Users, NEW s \in Sections, NEW typed \in Names,
              OpenEntryConfirm(u, s, typed)
       PROVE  ConfirmInv'
  BY <1>1, <1>3, KeyType DEF OpenEntryConfirm
<1>4. ASSUME NEW r \in Runs, NEW c \in confirms, PressGo(r, c)
      PROVE  ConfirmInv'
  <2>1. SameTarget(pending[c.user], c)
    BY <1>4 DEF PressGo, Matches, ConfirmInv, RecordsAgree, TypeOK, Confirms
  <2>2. RunsAgree'
    BY <1>4, <2>1 DEF PressGo, PressWith, ConfirmInv, RunsAgree, At, SameTarget, TypeOK
  <2> QED BY <1>4, <2>2 DEF PressGo, PressWith, ConfirmInv, RecordsAgree, SameTarget
<1>5. ASSUME NEW r \in Runs, NEW c \in confirms, PressDismiss(r, c)
      PROVE  ConfirmInv'
  BY <1>5, ConfirmKept DEF PressDismiss, PressWith, At, TypeOK
<1>6. ASSUME NEW r \in Runs, ReadSection(r)
      PROVE  ConfirmInv'
  <2>1. run[r] \in ConfirmRuns
    BY <1>6, RunTypes DEF ReadSection, At
  <2>2. \A q \in Runs : run'[q].op = "confirm" =>
          run'[q].record = run[q].record /\ run'[q].confirm = run[q].confirm
                                         /\ run[q].op = "confirm"
    BY <1>6, <2>1 DEF ReadSection, TypeOK, ConfirmRuns, Idle
  <2>3. \A q \in Runs : q # r => run'[q] = run[q]
    BY <1>6 DEF ReadSection, TypeOK
  <2> QED BY <1>6, <2>2, <2>3, ConfirmKept DEF ReadSection, At
<1>7. ASSUME NEW r \in Runs, DeleteEntry(r)
      PROVE  ConfirmInv'
  <2>1. run[r] \in ConfirmRuns
    BY <1>7, RunTypes DEF DeleteEntry, At
  <2>2. run'[r].stage = "clear" /\ \A q \in Runs : q # r => run'[q] = run[q]
    BY <1>7, <2>1 DEF DeleteEntry, TypeOK, ConfirmRuns
  <2> QED BY <1>7, <2>2, ConfirmKept DEF DeleteEntry, At
<1>8. ASSUME NEW r \in Runs, ClearRecord(r)
      PROVE  ConfirmInv'
  <2>1. run'[r] = Idle /\ \A q \in Runs : q # r => run'[q] = run[q]
    BY <1>8 DEF ClearRecord, TypeOK
  <2>2. RunsAgree'
    BY <2>1 DEF ConfirmInv, RunsAgree, At, SameTarget, Idle
  <2>3. \A u \in Users : pending'[u] = pending[u] \/ pending'[u] = NoRecord
    BY <1>8 DEF ClearRecord, TypeOK
  <2>4. confirms' = confirms
    BY <1>8 DEF ClearRecord
  <2>5. RecordsAgree'
    BY <2>3, <2>4 DEF ConfirmInv, RecordsAgree, SameTarget
  <2> QED BY <2>2, <2>5 DEF ConfirmInv
<1>9. ASSUME NEW r \in Runs, SaveForm(r) \/ Crash(r)
      PROVE  ConfirmInv'
  <2>1. run'[r] = Idle /\ \A q \in Runs : q # r => run'[q] = run[q]
    BY <1>9 DEF SaveForm, Crash, TypeOK
  <2> QED BY <1>9, <2>1, ConfirmKept DEF SaveForm, Crash, At, Idle
<1>10. ASSUME NEW r \in Runs, NEW f \in forms, NEW s \in Sections, NEW n \in Names,
             NEW t \in Texts, Submit(r, f, s, n, t)
      PROVE  ConfirmInv'
  <2>1. \A q \in Runs : run'[q] = run[q] \/ run'[q].op = "form"
    BY <1>10 DEF Submit, TypeOK
  <2> QED BY <1>10, <2>1, ConfirmKept DEF Submit, At
<1>11. ASSUME NEW r \in Runs, NEW f \in forms, NEW t \in Texts, SubmitRuleForm(r, f, t)
       PROVE  ConfirmInv'
  <2>1. f.name \in Names
    BY <1>11, NamesAssumption DEF SubmitRuleForm, TypeOK, Forms
  <2> QED BY <1>10, <1>11, <2>1, SectionsAssumption DEF SubmitRuleForm
<1>12. ASSUME NEW r \in Runs, NEW f \in forms, NEW t \in Texts, NEW s \in Sections,
              NEW typed \in Names, SubmitEntryForm(r, f, s, typed, t)
       PROVE  ConfirmInv'
  BY <1>10, <1>12, KeyType DEF SubmitEntryForm
<1>13. ASSUME pending' = pending, confirms' = confirms, run' = run
       PROVE  ConfirmInv'
  BY <1>13, ConfirmKept DEF At
<1>14. ASSUME NEW u \in Users, NEW n \in Names, OpenRuleForm(u, n)
       PROVE  ConfirmInv'
  BY <1>13, <1>14 DEF OpenRuleForm, OpenForm
<1>15. ASSUME NEW u \in Users, NEW s \in Sections, NEW typed \in Names, NEW create \in BOOLEAN,
              NEW given \in BOOLEAN, OpenEntryForm(u, create, s, typed, given)
       PROVE  ConfirmInv'
  BY <1>13, <1>15 DEF OpenEntryForm, OpenForm
<1>16. CASE Environment \/ UNCHANGED vars
  BY <1>13, <1>16 DEF Environment, DbWrite, DbDropSection, ChangeStaff, CloseForm, Tick, vars
<1> QED
  BY <1>2, <1>3, <1>4, <1>5, <1>6, <1>7, <1>8, <1>9, <1>11, <1>12, <1>14, <1>15, <1>16
  DEF Next, EditSlash, EditModal, EditConfirm

(* However runs overlap and stop, a Delete button deletes what its own     *)
(* message showed, if nobody opens two confirms in one second.             *)
THEOREM ButtonsDeleteWhatTheyShow ==
  ASSUME OneConfirmPerSecond
  PROVE  Spec => []DeletesWhatItShowed
<1>1. ConfirmInv => DeletesWhatItShowed
  BY DEF ConfirmInv, RunsAgree, SameTarget, DeletesWhatItShowed, Deletes, Target, Saves, At
<1>2. TypeOK /\ ConfirmInv /\ [Next]_vars => ConfirmInv'
  BY ConfirmNext
<1> QED BY <1>1, <1>2, ConfirmInit, TypeCorrect, PTL DEF Spec

-----------------------------------------------------------------------------
(* Without overlap, nothing is lost unseen and no group is overwritten: a  *)
(* run's row is still the store's when it writes.                          *)
LEMMA AloneInit == Init => AloneInv
  BY DEF Init, AloneInv, GroupsStay, Active, Saves, Deletes, At, Idle

(* After a step that leaves every slot idle.                               *)
LEMMA AllIdle ==
  ASSUME \A q \in Runs : run'[q].op = "none"
  PROVE  AloneInv'
  BY DEF AloneInv, GroupsStay, Active, Saves, Deletes, At

(* After a step of the only run, which goes on.                            *)
LEMMA OnlyRun ==
  ASSUME NEW r \in Runs, \A q \in Runs : q # r => run'[q].op = "none",
         (Saves(r) \/ Deletes(r) => run[r].row = DictOf(store[Target(r)[1]]))',
         (Saves(r) /\ run[r].kind = "entry" => ~Holds(run[r].section, run[r].name, Group))'
  PROVE  AloneInv'
  BY DEF AloneInv, GroupsStay, Active, Saves, Deletes, At

(* A step that changes no section and no run.                              *)
LEMMA AloneKept ==
  ASSUME AloneInv, run' = run, store' = store
  PROVE  AloneInv'
  BY DEF AloneInv, GroupsStay, Active, Saves, Deletes, Target, At, Holds

LEMMA Alone ==
  ASSUME ~Overlap, AloneInv
  PROVE  /\ MayAct => \A q \in Runs : run[q].op = "none"
         /\ \A r, q \in Runs : run[r].op # "none" /\ q # r => run[q].op = "none"
  BY DEF AloneInv, Active, MayAct

LEMMA SubmitAlone ==
  ASSUME ~Overlap, TypeOK, AloneInv, NEW r \in Runs, NEW f \in forms, NEW s \in Sections,
         NEW n \in Names, NEW t \in Texts, Submit(r, f, s, n, t),
         f.kind = "entry" => ~Holds(s, n, Group)
  PROVE  AloneInv'
<1>1. \A q \in Runs : run[q].op = "none"
  BY Alone DEF Submit, Free
<1>2. CASE run' = run
  BY <1>1, <1>2, AllIdle
<1>3. CASE run' = [run EXCEPT ![r] = [op |-> "form", kind |-> f.kind, section |-> s,
                                      name |-> n, row |-> DictOf(store[s]), text |-> t]]
  <2>1. /\ run'[r].op = "form" /\ run'[r].kind = f.kind /\ run'[r].section = s
        /\ run'[r].name = n /\ run'[r].row = DictOf(store[s])
        /\ \A q \in Runs : q # r => run'[q].op = "none"
    BY <1>1, <1>3 DEF TypeOK
  <2>2. store' = store
    BY DEF Submit
  <2>3. Target(r)'[1] = s
    BY <2>1 DEF Target, Saves
  <2>4. f.kind = "entry" => ~Holds(s, n, Group)'
    BY <2>2 DEF Holds
  <2> QED BY <2>1, <2>2, <2>3, <2>4, OnlyRun
<1> QED BY <1>2, <1>3 DEF Submit

LEMMA AloneNext ==
  ASSUME ~Overlap
  PROVE  TypeOK /\ AloneInv /\ [Next]_vars => AloneInv'
<1> SUFFICES ASSUME TypeOK, AloneInv, [Next]_vars PROVE AloneInv'
  OBVIOUS
<1>1. ASSUME run' = run, store' = store
      PROVE  AloneInv'
  BY <1>1, AloneKept
<1>2. CASE EditSlash
  BY <1>1, <1>2 DEF EditSlash, OpenRuleForm, OpenEntryForm, OpenForm,
     OpenRuleConfirm, OpenEntryConfirm, OpenConfirm
<1>3. ASSUME NEW r \in Runs, NEW f \in forms, NEW t \in Texts, SubmitRuleForm(r, f, t)
      PROVE  AloneInv'
  <2>1. f.name \in Names
    BY <1>3, NamesAssumption DEF SubmitRuleForm, TypeOK, Forms
  <2> QED BY <1>3, <2>1, SubmitAlone, SectionsAssumption DEF SubmitRuleForm
<1>4. ASSUME NEW r \in Runs, NEW f \in forms, NEW t \in Texts, NEW s \in Sections,
             NEW typed \in Names, SubmitEntryForm(r, f, s, typed, t)
      PROVE  AloneInv'
  BY <1>4, SubmitAlone, KeyType DEF SubmitEntryForm
<1>5. ASSUME NEW r \in Runs, SaveForm(r) \/ ClearRecord(r) \/ Crash(r)
      PROVE  AloneInv'
  <2>1. run[r].op # "none" /\ run' = [run EXCEPT ![r] = Idle]
    BY <1>5 DEF SaveForm, ClearRecord, Crash, At, Active
  <2>2. \A q \in Runs : run'[q].op = "none"
    BY <2>1, Alone DEF TypeOK, Idle
  <2> QED BY <2>2, AllIdle
<1>6. ASSUME NEW r \in Runs, NEW c \in confirms, PressGo(r, c) \/ PressDismiss(r, c)
      PROVE  AloneInv'
  <2>1. \A q \in Runs : run[q].op = "none"
    BY <1>6, Alone DEF PressGo, PressDismiss, MayPress, Free
  <2>2. /\ run'[r].op = "confirm" /\ run'[r].stage \in {"read", "clear"}
        /\ \A q \in Runs : q # r => run'[q].op = "none"
    BY <1>6, <2>1 DEF PressGo, PressDismiss, PressWith, TypeOK
  <2> QED BY <2>2, OnlyRun DEF Saves, Deletes, At
<1>7. ASSUME NEW r \in Runs, ReadSection(r)
      PROVE  AloneInv'
  <2>1. run[r] \in ConfirmRuns /\ run[r].op # "none"
    BY <1>7, RunTypes DEF ReadSection, At
  <2>2. \A q \in Runs : q # r => run'[q].op = "none"
    BY <1>7, <2>1, Alone DEF ReadSection, TypeOK
  <2>3. CASE run'[r] = Idle
    BY <2>2, <2>3, OnlyRun DEF Saves, Deletes, At, Idle
  <2>4. CASE run'[r] # Idle
    <3>1. run' = [run EXCEPT ![r].stage = "write",
                             ![r].row = DictOf(store[run[r].record.section])]
      BY <1>7, <2>4 DEF ReadSection, TypeOK
    <3>2. /\ run'[r].op = "confirm" /\ run'[r].record = run[r].record
          /\ run'[r].row = DictOf(store[run[r].record.section]) /\ store' = store
      BY <1>7, <2>1, <3>1 DEF ReadSection, TypeOK, ConfirmRuns
    <3>3. ~Saves(r)' /\ Target(r)'[1] = run[r].record.section
      BY <3>2 DEF Saves, Target
    <3> QED BY <2>2, <3>2, <3>3, OnlyRun
  <2> QED BY <2>3, <2>4
<1>8. ASSUME NEW r \in Runs, DeleteEntry(r)
      PROVE  AloneInv'
  <2>1. run[r] \in ConfirmRuns /\ run[r].op # "none"
    BY <1>8, RunTypes DEF DeleteEntry, At
  <2>2. /\ run'[r].op = "confirm" /\ run'[r].stage = "clear"
        /\ \A q \in Runs : q # r => run'[q].op = "none"
    BY <1>8, <2>1, Alone DEF DeleteEntry, TypeOK, ConfirmRuns
  <2> QED BY <2>2, OnlyRun DEF Saves, Deletes, At
<1>9. ASSUME NEW s \in Sections, NEW n \in Names, NEW v \in Values \cup {Absent},
             DbWrite(s, n, v)
      PROVE  AloneInv'
  BY <1>9, Alone, AllIdle DEF DbWrite
<1>10. ASSUME NEW s \in Sections, DbDropSection(s)
       PROVE  AloneInv'
  BY <1>10, Alone, AllIdle DEF DbDropSection
<1>11. CASE UNCHANGED vars \/ Tick \/ (\E u \in Users : ChangeStaff(u))
                          \/ (\E f \in forms : CloseForm(f))
  BY <1>1, <1>11 DEF vars, Tick, ChangeStaff, CloseForm
<1> QED
  BY <1>2, <1>3, <1>4, <1>5, <1>6, <1>7, <1>8, <1>9, <1>10, <1>11
  DEF Next, EditModal, EditConfirm, Environment

(* A run alone writes back the row of the store with one entry changed.    *)
LEMMA OneEntryWritten ==
  ASSUME TypeOK, NEW s0 \in Sections, NEW n0 \in Names, NEW row \in DictRows,
         NEW w \in Values \cup {Absent}, row = DictOf(store[s0]),
         store' = [store EXCEPT ![s0] = [row EXCEPT ![n0] = w]],
         NEW s \in Sections, NEW n \in Names, NEW v \in Values,
         Holds(s, n, v), ~Holds(s, n, v)'
  PROVE  s = s0 /\ n = n0 /\ row[n] = v
<1>1. s = s0
  BY DEF Holds, TypeOK
<1>2. row = store[s0]
  BY <1>1 DEF Holds, DictOf
<1>3. [row EXCEPT ![n0] = w] \in DictRows /\ store'[s0] = [row EXCEPT ![n0] = w]
  BY DEF DictRows, TypeOK
<1>4. n # n0 => Holds(s, n, v)'
  BY <1>1, <1>2, <1>3 DEF Holds, IsDict, DictRows
<1> QED BY <1>1, <1>2, <1>4 DEF Holds

LEMMA WritesOwnEntry ==
  ASSUME ~Overlap, TypeOK, AloneInv, [Next]_vars, NEW r \in Runs, Saves(r) \/ Deletes(r),
         NEW s \in Sections, NEW n \in Names, NEW v \in Values,
         Holds(s, n, v), ~Holds(s, n, v)'
  PROVE  Target(r) = <<s, n>> /\ run[r].row[n] = v
<1>1. run[r].op # "none" /\ store' # store
  BY DEF Saves, Deletes, At, Holds
<1>2. ~MayAct /\ \A q \in Runs : run[q].op # "none" => q = r
  BY <1>1, Alone
<1>3. SaveForm(r) \/ DeleteEntry(r)
  <2>1. ~EditSlash /\ ~UNCHANGED vars
    BY <1>1 DEF EditSlash, OpenRuleForm, OpenEntryForm, OpenForm, OpenRuleConfirm,
       OpenEntryConfirm, OpenConfirm, vars
  <2>2. \A q \in Runs : EditModal(q) => SaveForm(q)
    BY <1>1 DEF EditModal, SubmitRuleForm, SubmitEntryForm, Submit
  <2>3. \A q \in Runs : EditConfirm(q) => DeleteEntry(q)
    BY <1>1 DEF EditConfirm, PressGo, PressDismiss, PressWith, ReadSection, ClearRecord
  <2>4. ~Environment
    BY <1>1, <1>2 DEF Environment, DbWrite, DbDropSection, ChangeStaff, CloseForm, Tick
  <2>5. \A q \in Runs : ~Crash(q)
    BY <1>1 DEF Crash
  <2>6. \A q \in Runs : SaveForm(q) \/ DeleteEntry(q) => q = r
    BY <1>2 DEF SaveForm, DeleteEntry, At
  <2> QED BY <2>1, <2>2, <2>3, <2>4, <2>5, <2>6 DEF Next
<1>4. CASE SaveForm(r)
  <2>1. run[r] \in FormRuns /\ Saves(r)
    BY <1>4, RunTypes DEF SaveForm, Saves
  <2>2. Target(r) = <<run[r].section, run[r].name>>
        /\ run[r].row = DictOf(store[run[r].section])
    BY <2>1 DEF AloneInv, Target
  <2>3. /\ run[r].section \in Sections /\ run[r].name \in Names /\ run[r].row \in DictRows
        /\ run[r].text \in Values \cup {Absent}
    BY <2>1 DEF FormRuns, Values
  <2>4. store' = [store EXCEPT ![run[r].section] = [run[r].row EXCEPT ![run[r].name] = run[r].text]]
    BY <1>4 DEF SaveForm
  <2>5. PICK s0 \in Sections, n0 \in Names, row \in DictRows, w \in Values \cup {Absent} :
             s0 = run[r].section /\ n0 = run[r].name /\ row = run[r].row /\ w = run[r].text
    BY <2>3
  <2>6. store' = [store EXCEPT ![s0] = [row EXCEPT ![n0] = w]] /\ row = DictOf(store[s0])
    BY <2>2, <2>4, <2>5
  <2>7. s = s0 /\ n = n0 /\ row[n] = v
    BY <2>6, OneEntryWritten
  <2> QED BY <2>2, <2>5, <2>7
<1>5. CASE DeleteEntry(r)
  <2>1. run[r] \in ConfirmRuns /\ Deletes(r) /\ ~Saves(r)
    BY <1>5, RunTypes DEF DeleteEntry, At, Deletes, Saves
  <2>2. Target(r) = <<run[r].record.section, run[r].record.name>>
        /\ run[r].row = DictOf(store[run[r].record.section])
    BY <2>1 DEF AloneInv, Target
  <2>3. /\ run[r].record.section \in Sections /\ run[r].record.name \in Names
        /\ run[r].row \in DictRows
    BY <2>1 DEF ConfirmRuns, Records
  <2>4. store' = [store EXCEPT ![run[r].record.section] =
                             [run[r].row EXCEPT ![run[r].record.name] = Absent]]
    BY <1>5 DEF DeleteEntry
  <2>5. PICK s0 \in Sections, n0 \in Names, row \in DictRows :
             s0 = run[r].record.section /\ n0 = run[r].record.name /\ row = run[r].row
    BY <2>3
  <2>6. store' = [store EXCEPT ![s0] = [row EXCEPT ![n0] = Absent]] /\ row = DictOf(store[s0])
    BY <2>2, <2>4, <2>5
  <2>7. s = s0 /\ n = n0 /\ row[n] = v
    BY <2>6, OneEntryWritten
  <2> QED BY <2>2, <2>5, <2>7
<1> QED BY <1>3, <1>4, <1>5

(* Without overlap, a run changes its own entry only, and the value it     *)
(* replaces or removes is the one it read and answers with.                *)
THEOREM NothingLostUnseen ==
  ASSUME ~Overlap
  PROVE  Spec => LosesNothingUnseen
<1>1. TypeOK /\ AloneInv /\ [Next]_vars => AloneInv'
  BY AloneNext
<1>2. TypeOK /\ AloneInv /\ [Next]_vars =>
        [\A r \in Runs : Saves(r) \/ Deletes(r) =>
          \A s \in Sections, n \in Names, v \in Values :
             Holds(s, n, v) /\ ~Holds(s, n, v)' =>
                Target(r) = <<s, n>> /\ run[r].row[n] = v]_vars
  BY WritesOwnEntry
<1> QED BY <1>1, <1>2, AloneInit, TypeCorrect, PTL DEF Spec, LosesNothingUnseen

(* Without overlap, the entry form never overwrites a group with text.     *)
THEOREM GroupsNeverOverwritten ==
  ASSUME ~Overlap
  PROVE  Spec => []GroupsStay
<1>1. AloneInv => GroupsStay
  BY DEF AloneInv
<1>2. TypeOK /\ AloneInv /\ [Next]_vars => AloneInv'
  BY AloneNext
<1> QED BY <1>1, <1>2, AloneInit, TypeCorrect, PTL DEF Spec

-----------------------------------------------------------------------------
(* Without overlap and crashes, a confirm deletes once.                    *)
LEMMA OnceInit == Init => OnceInv
  BY DEF Init, OnceInv, At, Idle

(* A step that leaves records, confirms and acted alone, no run being at   *)
(* "clear", and brings no new run to "read" or "write".                    *)
LEMMA OnceKept ==
  ASSUME OnceInv, pending' = pending, confirms' = confirms, acted' = acted,
         \A q \in Runs : run[q].op = "confirm" /\ run[q].stage = "clear" => run'[q] = run[q],
         \A q \in Runs : run'[q].op = "confirm" /\ run'[q].stage \in {"read", "write"} =>
            (At(q, "read") \/ At(q, "write")) /\ run'[q].confirm = run[q].confirm
  PROVE  OnceInv'
<1>1. \A c \in acted' : Matches(c)' =>
        \E r \in Runs : At(r, "clear")' /\ run'[r].confirm.user = c.user
  BY DEF OnceInv, Matches, At
<1>2. \A r \in Runs : (At(r, "read") \/ At(r, "write"))' =>
        run'[r].confirm \in confirms' /\ pending'[run'[r].confirm.user] # NoRecord
          /\ pending'[run'[r].confirm.user].stamp = run'[r].confirm.stamp
  BY DEF OnceInv, Matches, At
<1> QED BY <1>1, <1>2 DEF OnceInv, Matches

LEMMA OnceNext ==
  ASSUME ~Overlap, ~MayCrash, OneConfirmPerSecond
  PROVE  TypeOK /\ AloneInv /\ OnceInv /\ [Next]_vars => OnceInv'
<1> SUFFICES ASSUME TypeOK, AloneInv, OnceInv, [Next]_vars PROVE OnceInv'
  OBVIOUS
<1>1. ASSUME NEW u \in Users, NEW s \in Sections, NEW n \in Names, OpenConfirm(u, s, n)
      PROVE  OnceInv'
  <2>1. \A q \in Runs : run'[q].op = "none"
    BY <1>1, Alone DEF OpenConfirm
  <2>2. ASSUME NEW c \in acted', Matches(c)'
        PROVE  FALSE
    <3>1. c \in confirms /\ acted' = acted
      BY <1>1, <2>2 DEF OpenConfirm, OnceInv
    <3>2. CASE c.user = u
      <4>1. pending'[u].stamp = now
        BY <1>1 DEF OpenConfirm, TypeOK
      <4> QED BY <1>1, <2>2, <3>1, <3>2, <4>1 DEF OpenConfirm, Matches
    <3>3. CASE c.user # u
      <4>1. pending'[c.user] = pending[c.user]
        BY <1>1, <3>1, <3>3 DEF OpenConfirm, TypeOK, Confirms
      <4>2. Matches(c)
        BY <2>2, <4>1 DEF Matches
      <4>3. \A q \in Runs : run[q].op = "none"
        BY <1>1, Alone DEF OpenConfirm
      <4> QED BY <3>1, <4>2, <4>3 DEF OnceInv, At
    <3> QED BY <3>2, <3>3
  <2>3. acted' \subseteq confirms'
    BY <1>1 DEF OpenConfirm, OnceInv
  <2> QED BY <2>1, <2>2, <2>3 DEF OnceInv, At
<1>2. ASSUME NEW u \in Users, NEW n \in Names, OpenRuleConfirm(u, n)
      PROVE  OnceInv'
  BY <1>1, <1>2, SectionsAssumption DEF OpenRuleConfirm
<1>3. ASSUME NEW u \in Users, NEW s \in Sections, NEW typed \in Names,
             OpenEntryConfirm(u, s, typed)
      PROVE  OnceInv'
  BY <1>1, <1>3, KeyType DEF OpenEntryConfirm
<1>4. ASSUME NEW r \in Runs, NEW c \in confirms, NEW stage \in {"read", "clear"},
             Free(r), Matches(c), PressWith(r, c, stage)
      PROVE  OnceInv'
  <2>1. \A q \in Runs : run[q].op = "none"
    BY <1>4, Alone DEF Free
  <2>2. /\ run'[r].confirm = c /\ \A q \in Runs : q # r => run'[q].op = "none"
    BY <1>4, <2>1 DEF PressWith, TypeOK
  <2>3. /\ pending' = pending /\ confirms' = confirms /\ acted' = acted
    BY <1>4 DEF PressWith
  <2>4. \A d \in acted : ~Matches(d)
    BY <2>1 DEF OnceInv, At
  <2>5. \A d \in acted' : ~Matches(d)'
    BY <2>3, <2>4 DEF Matches
  <2>6. \A q \in Runs : (At(q, "read") \/ At(q, "write"))' => q = r
    BY <2>2 DEF At
  <2>7. pending'[c.user] # NoRecord /\ pending'[c.user].stamp = c.stamp
    BY <1>4, <2>3 DEF Matches
  <2>8. \A q \in Runs : (At(q, "read") \/ At(q, "write"))' =>
          run'[q].confirm \in confirms' /\ Matches(run[q].confirm)'
    BY <2>2, <2>3, <2>6, <2>7 DEF Matches
  <2> QED BY <2>3, <2>5, <2>8 DEF OnceInv
<1>5. ASSUME NEW r \in Runs, NEW c \in confirms, PressGo(r, c) \/ PressDismiss(r, c)
      PROVE  OnceInv'
  BY <1>4, <1>5 DEF PressGo, PressDismiss, MayPress
<1>6. ASSUME NEW r \in Runs, ReadSection(r)
      PROVE  OnceInv'
  <2>1. run[r] \in ConfirmRuns
    BY <1>6, RunTypes DEF ReadSection, At
  <2>2. run'[r] = Idle \/ run'[r].confirm = run[r].confirm
    BY <1>6, <2>1 DEF ReadSection, TypeOK, ConfirmRuns
  <2>3. \A q \in Runs : q # r => run'[q] = run[q]
    BY <1>6 DEF ReadSection, TypeOK
  <2>4. /\ pending' = pending /\ confirms' = confirms /\ acted' = acted
        /\ run[r].op = "confirm" /\ run[r].stage = "read"
    BY <1>6 DEF ReadSection, At
  <2>5. \A q \in Runs : run'[q].op = "confirm" /\ run'[q].stage \in {"read", "write"} =>
          (At(q, "read") \/ At(q, "write")) /\ run'[q].confirm = run[q].confirm
    BY <2>2, <2>3, <2>4 DEF At, Idle
  <2> QED BY <2>3, <2>4, <2>5, OnceKept
<1>7. ASSUME NEW r \in Runs, DeleteEntry(r)
      PROVE  OnceInv'
  <2>1. run[r] \in ConfirmRuns /\ run[r].op # "none"
    BY <1>7, RunTypes DEF DeleteEntry, At
  <2>2. /\ run'[r].op = "confirm" /\ run'[r].stage = "clear"
        /\ run'[r].confirm = run[r].confirm
        /\ \A q \in Runs : q # r => run'[q].op = "none"
    BY <1>7, <2>1, Alone DEF DeleteEntry, TypeOK, ConfirmRuns
  <2>3. /\ pending' = pending /\ confirms' = confirms /\ acted' = acted \cup {run[r].confirm}
    BY <1>7 DEF DeleteEntry
  <2>4. run[r].confirm \in confirms
    BY <1>7 DEF DeleteEntry, OnceInv
  <2>5. \A d \in acted : ~Matches(d)
    <3>1. \A q \in Runs : ~At(q, "clear")
      BY <1>7, <2>1, Alone DEF DeleteEntry, At
    <3> QED BY <3>1 DEF OnceInv
  <2>6. \A d \in acted' : Matches(d)' => At(r, "clear")' /\ run'[r].confirm.user = d.user
    BY <2>2, <2>3, <2>5 DEF Matches, At
  <2>7. \A q \in Runs : ~(At(q, "read") \/ At(q, "write"))'
    BY <2>2 DEF At
  <2> QED BY <2>3, <2>4, <2>6, <2>7 DEF OnceInv
<1>8. ASSUME NEW r \in Runs, ClearRecord(r)
      PROVE  OnceInv'
  <2>1. run[r] \in ConfirmRuns /\ run[r].op # "none"
    BY <1>8, RunTypes DEF ClearRecord, At
  <2>2. \A q \in Runs : run'[q].op = "none"
    BY <1>8, <2>1, Alone DEF ClearRecord, TypeOK, Idle
  <2>3. confirms' = confirms /\ acted' = acted
    BY <1>8 DEF ClearRecord
  <2>4. ASSUME NEW d \in acted', Matches(d)'
        PROVE  FALSE
    <3>1. d.user \in Users
      BY <2>3 DEF TypeOK, Confirms
    <3>2. d.user # run[r].confirm.user /\ Matches(d)
      BY <1>8, <2>4, <3>1 DEF ClearRecord, Matches, TypeOK
    <3>3. \E q \in Runs : At(q, "clear") /\ run[q].confirm.user = d.user
      BY <2>3, <3>2 DEF OnceInv
    <3> QED BY <2>1, <3>2, <3>3, Alone DEF At
  <2> QED BY <2>2, <2>3, <2>4 DEF OnceInv, At
<1>9. ASSUME NEW r \in Runs, SaveForm(r)
      PROVE  OnceInv'
  <2>1. run[r].op = "form" /\ run'[r] = Idle /\ \A q \in Runs : q # r => run'[q] = run[q]
    BY <1>9 DEF SaveForm, TypeOK
  <2> QED BY <1>9, <2>1, OnceKept DEF SaveForm, At, Idle
<1>10. ASSUME NEW r \in Runs, NEW f \in forms, NEW s \in Sections, NEW n \in Names,
              NEW t \in Texts, Submit(r, f, s, n, t)
       PROVE  OnceInv'
  <2>1. \A q \in Runs : run[q].op = "none"
    BY <1>10, Alone DEF Submit, Free
  <2>2. \A q \in Runs : run'[q] = run[q] \/ run'[q].op = "form"
    BY <1>10 DEF Submit, TypeOK
  <2> QED BY <1>10, <2>1, <2>2, OnceKept DEF Submit, At
<1>11. ASSUME NEW r \in Runs, NEW f \in forms, NEW t \in Texts, SubmitRuleForm(r, f, t)
       PROVE  OnceInv'
  <2>1. f.name \in Names
    BY <1>11, NamesAssumption DEF SubmitRuleForm, TypeOK, Forms
  <2> QED BY <1>10, <1>11, <2>1, SectionsAssumption DEF SubmitRuleForm
<1>12. ASSUME NEW r \in Runs, NEW f \in forms, NEW t \in Texts, NEW s \in Sections,
              NEW typed \in Names, SubmitEntryForm(r, f, s, typed, t)
       PROVE  OnceInv'
  BY <1>10, <1>12, KeyType DEF SubmitEntryForm
<1>13. ASSUME pending' = pending, confirms' = confirms, acted' = acted, run' = run
       PROVE  OnceInv'
  BY <1>13, OnceKept DEF At
<1>14. ASSUME NEW u \in Users, NEW n \in Names, OpenRuleForm(u, n)
       PROVE  OnceInv'
  BY <1>13, <1>14 DEF OpenRuleForm, OpenForm
<1>15. ASSUME NEW u \in Users, NEW s \in Sections, NEW typed \in Names, NEW create \in BOOLEAN,
              NEW given \in BOOLEAN, OpenEntryForm(u, create, s, typed, given)
       PROVE  OnceInv'
  BY <1>13, <1>15 DEF OpenEntryForm, OpenForm
<1>16. CASE Environment \/ UNCHANGED vars
  BY <1>13, <1>16 DEF Environment, DbWrite, DbDropSection, ChangeStaff, CloseForm, Tick, vars
<1> QED
  BY <1>2, <1>3, <1>5, <1>6, <1>7, <1>8, <1>9, <1>11, <1>12, <1>14, <1>15, <1>16
  DEF Next, EditSlash, EditModal, EditConfirm, Crash

(* Without overlap and crashes, a confirm deletes once, however often its  *)
(* button is clicked.                                                      *)
THEOREM ConfirmsDeleteOnce ==
  ASSUME ~Overlap, ~MayCrash, OneConfirmPerSecond
  PROVE  Spec => []DeletesOnce
<1>1. AloneInv /\ OnceInv => DeletesOnce
  <2> SUFFICES ASSUME AloneInv, OnceInv, NEW r \in Runs, Deletes(r), run[r].confirm \in acted
               PROVE  FALSE
    BY DEF DeletesOnce
  <2>1. \E q \in Runs : At(q, "clear")
    BY DEF OnceInv, Deletes
  <2> QED BY <2>1, Alone DEF Deletes, At
<1>2. TypeOK /\ AloneInv /\ [Next]_vars => AloneInv'
  BY AloneNext
<1>3. TypeOK /\ AloneInv /\ OnceInv /\ [Next]_vars => OnceInv'
  BY OnceNext
<1> QED BY <1>1, <1>2, <1>3, AloneInit, OnceInit, TypeCorrect, PTL DEF Spec
=============================================================================
