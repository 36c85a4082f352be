-------------------------- MODULE DeploymentProofs --------------------------
(***************************************************************************)
(* Proofs about Deployment, for any commands, ids and number of failures   *)
(* and of changes by hand.                                                 *)
(***************************************************************************)
EXTENDS Deployment, TLAPS

LEMMA ActiveSession ==
  ASSUME NEW s \in Sessions \cup {NoSession}, s # NoSession
  PROVE  s \in Sessions
  OBVIOUS

LEMMA SessionIsActive ==
  ASSUME NEW s \in Sessions
  PROVE  s # NoSession
<1>1. s.kind \in {"run", "create"}
  BY DEF Sessions
<1>2. NoSession.kind = "none"
  BY DEF NoSession
<1> QED BY <1>1, <1>2

LEMMA CommandIsThere ==
  ASSUME NEW c \in Command
  PROVE  c # Absent
<1>1. c.code # "none"
  BY DEF Command
<1>2. Absent.code = "none"
  BY DEF Absent
<1> QED BY <1>1, <1>2

LEMMA SaysReport ==
  ASSUME NEW i \in Ids \cup {NoId},
         NEW st \in Written \cup NotWritten \cup NotCreated
                      \cup {"none", "created-disabled", "may exist", "created but"}
  PROVE  Says(st) \in Reports /\ SaysOf(st, i) \in Reports
  BY DEF Says, SaysOf, Reports

(* What the forms that are posted, and a new command, look like.           *)
LEMMA AppliedIsCommand ==
  ASSUME NEW p \in Paths, NEW wish \in Wishes, NEW form \in Command
  PROVE  Applied(p, wish, form) \in Command
<1>1. PICK b \in BOOLEAN : b <=> (wish = "enable")
  BY (wish = "enable") \in BOOLEAN
<1>2. [form EXCEPT !.name = p, !.code = "new", !.structure = "new",
                   !.enabled = IF wish = "leave" THEN form.enabled ELSE b] \in Command
  BY DEF Command
<1>3. form.enabled \in BOOLEAN
  BY DEF Command
<1>4. (IF wish = "leave" THEN form.enabled ELSE b)
        = (IF wish = "leave" THEN form.enabled ELSE wish = "enable")
  BY <1>1
<1> QED BY <1>2, <1>4 DEF Applied

LEMMA NamedIsCommand ==
  ASSUME NEW form \in Command, session.item \in Paths
  PROVE  Named(form) \in Command /\ ~Named(form).enabled
  BY DEF Named, Command

LEMMA NewIsCommand == NewCommand \in Command /\ NewCommand.name = NoPath
  BY DEF NewCommand, Command

-----------------------------------------------------------------------------
(* The part of TypeOK that is about the session.                           *)
SessionOK(s) ==
  /\ s \in Sessions \cup {NoSession}
  /\ s # NoSession =>
       /\ s.kind = "run" => \A p \in s.todo : recorded[p] # NoId
       /\ s.stage # "next" => s.item \in Paths
       /\ s.stage \notin {"next", "new"} => s.id \in Ids
       /\ s.stage \in {"decide", "post", "disable"} => s.form \in Command

LEMMA FinishStep ==
  ASSUME TypeOK, session # NoSession, session.stage # "next",
         NEW r \in Reports, Finish(r)
  PROVE  /\ report' \in [Paths -> Reports]
         /\ SessionOK(session')
<1>1. session \in Sessions
  BY DEF TypeOK
<1>2. session' \in Sessions /\ session'.stage = "next"
  BY <1>1 DEF Finish, Sessions, Stages
<1>3. session'.kind = session.kind /\ session'.todo = session.todo
  BY <1>1 DEF Finish, Sessions
<1> QED BY <1>2, <1>3 DEF Finish, TypeOK, SessionOK

LEMMA GoOnStep ==
  ASSUME TypeOK, session # NoSession, session.stage \notin {"next", "new"},
         NEW stage \in Stages, GoOn(stage),
         stage \in {"decide", "post", "disable"} => session.form \in Command
  PROVE  /\ report' \in [Paths -> Reports]
         /\ SessionOK(session')
<1>1. session \in Sessions
  BY DEF TypeOK
<1>2. session' \in Sessions /\ session' = [session EXCEPT !.stage = stage]
  BY <1>1 DEF GoOn, Sessions
<1>3. /\ session'.kind = session.kind /\ session'.todo = session.todo
      /\ session'.item = session.item /\ session'.id = session.id
      /\ session'.form = session.form /\ session'.stage = stage
  BY <1>1, <1>2 DEF Sessions
<1> QED BY <1>2, <1>3 DEF GoOn, TypeOK, SessionOK

LEMMA SaveStep ==
  ASSUME TypeOK, NEW i \in Ids, NEW c \in Command, Save(i, c)
  PROVE  panel' \in [Ids -> Command \cup {Absent}]
  BY DEF TypeOK, Save

LEMMA FailsStep == ASSUME TypeOK, Fails
                   PROVE  failures' \in 0 .. MaxFailures /\ edits' \in 0 .. MaxEdits
  BY BoundsAssumption DEF TypeOK, Fails

(* What every step of a session leaves alone, and what it has to keep.     *)
Parts ==
  /\ panel' \in [Ids -> Command \cup {Absent}]
  /\ report' \in [Paths -> Reports]
  /\ SessionOK(session')
PartsOfLimits == failures' \in 0 .. MaxFailures /\ edits' \in 0 .. MaxEdits

LEMMA FromParts ==
  ASSUME TypeOK, Parts, PartsOfLimits, UNCHANGED <<nextId, recorded, before, byHand>>,
         UNCHANGED purpose
  PROVE  TypeOK'
  BY DEF TypeOK, Parts, PartsOfLimits, SessionOK

LEMMA LimitsKept ==
  ASSUME TypeOK, UNCHANGED limits \/ Fails
  PROVE  PartsOfLimits
  BY FailsStep DEF PartsOfLimits, TypeOK, limits

(* What holds of a session in the middle of an item.                       *)
LEMMA InItem ==
  ASSUME TypeOK, NEW kind, NEW stage \in Stages \ {"next"}, At(kind, stage)
  PROVE  /\ session \in Sessions /\ session # NoSession
         /\ session.stage = stage /\ session.kind = kind
         /\ session.item \in Paths
         /\ session.wish[session.item] \in Wishes
         /\ stage # "new" => session.id \in Ids
         /\ stage \in {"decide", "post", "disable"} => session.form \in Command
  BY DEF At, TypeOK, Sessions

LEMMA FinishSays ==
  ASSUME TypeOK, session # NoSession, session.stage # "next",
         NEW st \in Written \cup NotWritten, Finish(Says(st)),
         panel' \in [Ids -> Command \cup {Absent}]
  PROVE  Parts
<1>1. Says(st) \in Reports
  BY SaysReport
<1> QED BY <1>1, FinishStep DEF Parts

LEMMA FinishParts ==
  ASSUME TypeOK, NEW r \in Reports, Finish(r), session # NoSession,
         session.stage # "next", panel' \in [Ids -> Command \cup {Absent}]
  PROVE  Parts
  BY FinishStep DEF Parts

(* The steps of run.                                                       *)
LEMMA FetchTypes ==
  ASSUME TypeOK, NEW p \in Paths, Fetch(p)
  PROVE  TypeOK'
<1>1. /\ session \in Sessions /\ session # NoSession
      /\ session.stage = "next" /\ session.kind = "run" /\ p \in session.todo
      /\ recorded[p] \in Ids
  BY DEF Fetch, NextItem, TypeOK
<1>2. PartsOfLimits
  BY LimitsKept DEF Fetch
<1> DEFINE i == recorded[p]
           taken == [session EXCEPT !.todo = @ \ {p}]
<1>3. /\ taken \in Sessions /\ taken.kind = "run" /\ taken.stage = "next"
      /\ taken.todo \subseteq session.todo
  BY <1>1 DEF Sessions
<1>4. CASE panel[i] = Absent \/ panel[i].code = "several"
  <2>1. session' = taken /\ panel' = panel
    BY <1>4 DEF Fetch, NextItem
  <2>2. report' \in [Paths -> Reports]
    <3>1. Says("missing") \in Reports /\ Says("skipped-multi") \in Reports
      BY SaysReport DEF NotWritten
    <3>2. report' = [report EXCEPT ![p] = Says(IF panel[i] = Absent THEN "missing"
                                              ELSE "skipped-multi")]
      BY <1>4 DEF Fetch
    <3> QED BY <3>1, <3>2 DEF TypeOK
  <2>3. SessionOK(session')
    BY <1>1, <1>3, <2>1 DEF SessionOK, TypeOK
  <2> QED BY <1>2, <2>1, <2>2, <2>3, FromParts DEF Parts, Fetch, NextItem, history, TypeOK
<1>5. CASE ~(panel[i] = Absent \/ panel[i].code = "several")
  <2>1. /\ session' = [taken EXCEPT !.item = p, !.id = i, !.form = panel[i], !.stage = "decide"]
        /\ panel' = panel /\ report' = report
    BY <1>5 DEF Fetch, NextItem
  <2>2. panel[i] \in Command
    BY <1>1, <1>5 DEF TypeOK
  <2>3. /\ session' \in Sessions /\ session'.item = p /\ session'.id = i
        /\ session'.form = panel[i] /\ session'.todo = taken.todo
    BY <1>1, <1>3, <2>1, <2>2 DEF Sessions, Stages
  <2>4. SessionOK(session')
    BY <1>1, <1>3, <2>2, <2>3 DEF SessionOK, TypeOK
  <2> QED BY <1>2, <2>1, <2>4, FromParts DEF Parts, Fetch, NextItem, history, TypeOK
<1> QED BY <1>4, <1>5

LEMMA LeaveTypes ==
  ASSUME TypeOK, NEW p \in Paths, NextItem(p), NEW r \in Reports,
         session' = [session EXCEPT !.todo = @ \ {p}],
         report' = [report EXCEPT ![p] = r], UNCHANGED limits \/ Fails
  PROVE  TypeOK'
<1>1. /\ session \in Sessions /\ session # NoSession /\ session.stage = "next"
  BY DEF NextItem, TypeOK
<1>2. /\ session' \in Sessions /\ session'.kind = session.kind
      /\ session'.stage = "next" /\ session'.todo \subseteq session.todo
  BY <1>1 DEF Sessions
<1>3. SessionOK(session')
  BY <1>1, <1>2 DEF SessionOK, TypeOK
<1>4. panel' = panel /\ report' \in [Paths -> Reports]
  BY DEF NextItem, TypeOK
<1> QED BY <1>3, <1>4, LimitsKept, FromParts DEF Parts, NextItem, history, TypeOK

LEMMA RunTypes == TypeOK /\ RunStep => TypeOK'
<1> SUFFICES ASSUME TypeOK, RunStep PROVE TypeOK'
  OBVIOUS
<1>1. ASSUME NEW p \in Paths, Fetch(p) \/ FetchFails(p) PROVE TypeOK'
  <2>1. CASE FetchFails(p)
    <3>1. PICK st \in {"refused", "missing"} : report' = [report EXCEPT ![p] = Says(st)]
      BY <2>1 DEF FetchFails
    <3>2. Says(st) \in Reports
      BY SaysReport DEF NotWritten
    <3> QED BY <2>1, <3>1, <3>2, LeaveTypes DEF FetchFails
  <2> QED BY <1>1, <2>1, FetchTypes
<1>2. CASE Decide \/ DecideFails
  <2>0. At("run", "decide") /\ panel' = panel
    BY <1>2 DEF Decide, DecideFails
  <2>1. /\ session # NoSession /\ session.stage = "decide"
        /\ session.form \in Command /\ panel' \in [Ids -> Command \cup {Absent}]
    BY <2>0, InItem DEF Stages, TypeOK
  <2>2. Parts
    <3>1. ASSUME NEW st \in NotWritten, Finish(Says(st)) PROVE Parts
      BY <2>1, <3>1, FinishSays
    <3>2. CASE GoOn("post")
      <4>1. "post" \in Stages
        BY DEF Stages
      <4> QED BY <2>1, <3>2, <4>1, GoOnStep DEF Parts
    <3> QED BY <1>2, <3>1, <3>2 DEF Decide, DecideFails, NotWritten
  <2>3. PartsOfLimits /\ UNCHANGED <<nextId, recorded, before, byHand>> /\ UNCHANGED purpose
    BY <1>2, LimitsKept DEF Decide, DecideFails, history
  <2> QED BY <2>2, <2>3, FromParts
<1>3. CASE Post \/ PostUnanswered
  <2>0. At("run", "post")
    BY <1>3 DEF Post, PostUnanswered
  <2>1. /\ session # NoSession /\ session.stage = "post" /\ session.id \in Ids
        /\ session.item \in Paths /\ session.wish[session.item] \in Wishes
        /\ session.form \in Command
    <3>1. "post" \in Stages \ {"next"}
      BY DEF Stages
    <3> QED BY <2>0, <3>1, InItem
  <2>2. panel' \in [Ids -> Command \cup {Absent}]
    <3>1. Applied(session.item, session.wish[session.item], session.form) \in Command
      BY <2>1, AppliedIsCommand
    <3>2. CASE panel' = panel
      BY <3>2 DEF TypeOK
    <3>3. CASE Save(session.id, Applied(session.item, session.wish[session.item], session.form))
      BY <2>1, <3>1, <3>3, SaveStep
    <3> QED BY <1>3, <3>2, <3>3 DEF Post, PostUnanswered
  <2>3. Parts
    <3>1. CASE Finish(Says("posted"))
      BY <2>1, <2>2, <3>1, FinishSays DEF Written
    <3>2. CASE GoOn("read back")
      <4>1. "read back" \in Stages
        BY DEF Stages
      <4> QED BY <2>1, <2>2, <3>2, <4>1, GoOnStep DEF Parts
    <3> QED BY <1>3, <3>1, <3>2 DEF Post, PostUnanswered
  <2>4. PartsOfLimits /\ UNCHANGED <<nextId, recorded, before, byHand>> /\ UNCHANGED purpose
    BY <1>3, LimitsKept DEF Post, PostUnanswered, history
  <2> QED BY <2>3, <2>4, FromParts
<1>4. CASE ReadBack \/ ReadBackFails
  <2>0. At("run", "read back") /\ panel' = panel
    BY <1>4 DEF ReadBack, ReadBackFails
  <2>1. /\ session # NoSession /\ session.stage = "read back"
        /\ panel' \in [Ids -> Command \cup {Absent}]
    BY <2>0, InItem DEF Stages, TypeOK
  <2>2. PICK st \in Written : Finish(Says(st))
    BY <1>4 DEF ReadBack, ReadBackFails, Written
  <2>3. Parts
    BY <2>1, <2>2, FinishSays
  <2>4. PartsOfLimits /\ UNCHANGED <<nextId, recorded, before, byHand>> /\ UNCHANGED purpose
    BY <1>4, LimitsKept DEF ReadBack, ReadBackFails, history
  <2> QED BY <2>3, <2>4, FromParts
<1> QED BY <1>1, <1>2, <1>3, <1>4 DEF RunStep

(* The steps of create.                                                    *)
LEMMA StartItemTypes ==
  ASSUME TypeOK, NEW p \in Paths, NextItem(p), session.kind = "create",
         session' = [session EXCEPT !.todo = @ \ {p}, !.item = p, !.stage = "new"],
         UNCHANGED report, UNCHANGED limits
  PROVE  TypeOK'
<1>1. /\ session \in Sessions /\ session # NoSession
  BY DEF NextItem, TypeOK
<1>2. /\ session' \in Sessions /\ session'.kind = "create"
      /\ session'.stage = "new" /\ session'.item = p
  BY <1>1 DEF Sessions, Stages
<1>3. SessionOK(session')
  BY <1>2 DEF SessionOK
<1>4. panel' = panel
  BY DEF NextItem
<1> QED BY <1>3, <1>4, LimitsKept, FromParts DEF Parts, NextItem, history, TypeOK

LEMMA MadeTypes ==
  ASSUME TypeOK, session.item \in Paths, Made \/ NotMade
  PROVE  /\ panel' \in [Ids -> Command \cup {Absent}]
         /\ nextId' \in 1 .. MaxId + 1
         /\ purpose' \in [Ids -> Paths \cup {NoPath}]
<1>1. CASE Made
  <2>1. nextId \in Ids /\ nextId' = nextId + 1
    BY <1>1, BoundsAssumption DEF Made, TypeOK, Ids
  <2> QED BY <1>1, <2>1, NewIsCommand, BoundsAssumption DEF Made, TypeOK, Ids
<1>2. CASE NotMade
  BY <1>2 DEF NotMade, TypeOK
<1> QED BY <1>1, <1>2

LEMMA NewTypes ==
  ASSUME TypeOK, New \/ NewRejected \/ NewUnanswered
  PROVE  TypeOK'
<1>0. At("create", "new")
  BY DEF New, NewRejected, NewUnanswered
<1>1. /\ session \in Sessions /\ session # NoSession /\ session.stage = "new"
      /\ session.kind = "create" /\ session.item \in Paths
  <2>1. "new" \in Stages \ {"next"}
    BY DEF Stages
  <2> QED BY <1>0, <2>1, InItem
<1>2. /\ panel' \in [Ids -> Command \cup {Absent}]
      /\ nextId' \in 1 .. MaxId + 1
      /\ purpose' \in [Ids -> Paths \cup {NoPath}]
  BY <1>1, MadeTypes DEF New, NewRejected, NewUnanswered, NotMade, history
<1>3. report' \in [Paths -> Reports] /\ SessionOK(session')
  <2>1. CASE Finish(Says("may exist"))
    BY <1>1, <2>1, SaysReport, FinishStep
  <2>2. CASE New
    <3>1. nextId \in Ids
      BY <2>2, BoundsAssumption DEF New, Made, TypeOK, Ids
    <3>2. /\ session' \in Sessions /\ session'.id = nextId /\ session'.stage = "page"
          /\ session'.item = session.item /\ session'.kind = "create"
      BY <1>1, <2>2, <3>1 DEF New, Sessions, Stages
    <3> QED BY <1>1, <2>2, <3>1, <3>2 DEF New, SessionOK, TypeOK
  <2> QED BY <2>1, <2>2 DEF NewRejected, NewUnanswered
<1>4. PartsOfLimits
  BY LimitsKept DEF New, NewRejected, NewUnanswered
<1>5. UNCHANGED <<recorded, before, byHand>>
  BY DEF New, NewRejected, NewUnanswered, history
<1> QED BY <1>2, <1>3, <1>4, <1>5 DEF TypeOK, SessionOK, PartsOfLimits

LEMMA CreateTypes == TypeOK /\ CreateStep => TypeOK'
<1> SUFFICES ASSUME TypeOK, CreateStep PROVE TypeOK'
  OBVIOUS
<1>1. ASSUME NEW p \in Paths, CreateItem(p) PROVE TypeOK'
  <2>1. ASSUME NEW st \in NotCreated, report' = [report EXCEPT ![p] = Says(st)],
               session' = [session EXCEPT !.todo = @ \ {p}]
        PROVE  TypeOK'
    BY <1>1, <2>1, SaysReport, LeaveTypes DEF CreateItem
  <2> QED BY <1>1, <2>1, StartItemTypes DEF CreateItem, NotCreated
<1>2. CASE New \/ NewRejected \/ NewUnanswered
  BY <1>2, NewTypes
<1>3. CASE Page \/ Disable \/ DisableUnanswered \/ Verify \/ CreateFails
  <2>1. PICK stage \in {"page", "disable", "verify"} : At("create", stage)
    BY <1>3 DEF Page, Disable, DisableUnanswered, Verify, CreateFails
  <2>2. /\ session \in Sessions /\ session # NoSession /\ session.stage = stage
        /\ session.item \in Paths /\ session.id \in Ids
        /\ stage = "disable" => session.form \in Command
    BY <2>1, InItem DEF Stages
  <2>3. panel' \in [Ids -> Command \cup {Absent}]
    <3>1. CASE panel' = panel
      BY <3>1 DEF TypeOK
    <3>2. CASE Save(session.id, Named(session.form)) /\ session.form \in Command
      BY <2>2, <3>2, NamedIsCommand, SaveStep
    <3> QED BY <1>3, <2>2, <3>1, <3>2
         DEF Page, Disable, DisableUnanswered, Verify, CreateFails, At
  <2>4. Parts
    <3>1. ASSUME NEW st \in {"created but", "created-disabled"},
                 Finish(SaysOf(st, session.id))
          PROVE  Parts
      BY <2>2, <2>3, <3>1, SaysReport, FinishParts
    <3>2. CASE GoOn("verify")
      <4>1. "verify" \in Stages
        BY DEF Stages
      <4> QED BY <2>2, <2>3, <3>2, <4>1, GoOnStep DEF Parts
    <3>3. CASE /\ session' = [session EXCEPT !.form = panel[session.id], !.stage = "disable"]
               /\ report' = report /\ panel[session.id] # Absent
      <4>1. panel[session.id] \in Command
        BY <2>2, <3>3 DEF TypeOK
      <4>2. /\ session' \in Sessions /\ session'.form = panel[session.id]
            /\ session'.item = session.item /\ session'.id = session.id
            /\ session'.kind = session.kind /\ session'.todo = session.todo
        BY <2>2, <3>3, <4>1 DEF Sessions, Stages
      <4> QED BY <2>2, <2>3, <3>3, <4>1, <4>2 DEF Parts, SessionOK, TypeOK
    <3> QED BY <1>3, <3>1, <3>2, <3>3
         DEF Page, Disable, DisableUnanswered, Verify, CreateFails, CreatedBut
  <2>5. PartsOfLimits /\ UNCHANGED <<nextId, recorded, before, byHand>> /\ UNCHANGED purpose
    BY <1>3, LimitsKept DEF Page, Disable, DisableUnanswered, Verify, CreateFails, history
  <2> QED BY <2>4, <2>5, FromParts
<1> QED BY <1>1, <1>2, <1>3 DEF CreateStep

(* The steps around a session.                                             *)
LEMMA BeginTypes ==
  ASSUME TypeOK, NEW kind \in {"run", "create"}, NEW dry \in BOOLEAN,
         NEW wish \in [Paths -> Wishes], NEW todo \in SUBSET Paths,
         NEW existing \in SUBSET Paths, kind = "run" => todo \subseteq Manifest,
         Begin(kind, dry, wish, existing, todo), UNCHANGED limits \/ Fails
  PROVE  TypeOK'
<1>1. /\ session' \in Sessions /\ session'.stage = "next"
      /\ session'.kind = kind /\ session'.todo = todo
  BY DEF Begin, Sessions, Stages
<1>2. report' \in [Paths -> Reports]
  BY SaysReport DEF Begin
<1>3. /\ panel' = panel /\ before' = panel /\ byHand' = {}
      /\ UNCHANGED <<nextId, recorded>> /\ UNCHANGED purpose
  BY DEF Begin
<1>4. kind = "run" => \A p \in todo : recorded[p] # NoId
  BY DEF Manifest
<1>5. PartsOfLimits
  BY LimitsKept
<1> QED BY <1>1, <1>2, <1>3, <1>4, <1>5 DEF TypeOK, PartsOfLimits

LEMMA OperatorTypes == TypeOK /\ Operator => TypeOK'
<1> SUFFICES ASSUME TypeOK, Operator PROVE TypeOK'
  OBVIOUS
<1>1. ASSUME NEW dry \in BOOLEAN, NEW items \in SUBSET Paths, BeginCreate(dry, items)
      PROVE  TypeOK'
  <2>1. PICK existing \in SUBSET InUse :
             /\ Begin("create", dry, [p \in Paths |-> "leave"], existing, items)
             /\ UNCHANGED limits \/ Fails
    BY <1>1 DEF BeginCreate
  <2>2. existing \in SUBSET Paths
    BY DEF InUse
  <2> QED BY <2>1, <2>2, BeginTypes DEF Wishes
<1>2. ASSUME NEW enable \in SUBSET Paths, NEW disable \in SUBSET Paths,
             NEW dry \in BOOLEAN, BeginRun(dry, enable, disable)
      PROVE  TypeOK'
  <2>1. WishOf(enable, disable) \in [Paths -> Wishes] /\ Manifest \in SUBSET Paths
    BY DEF WishOf, Wishes, Manifest
  <2> QED BY <1>2, <2>1, BeginTypes DEF BeginRun
<1>3. ASSUME NEW enable \in SUBSET Paths, NEW disable \in SUBSET Paths,
             RefuseRun(enable, disable)
      PROVE  TypeOK'
  <2>1. report' \in [Paths -> Reports]
    BY <1>3, SaysReport DEF RefuseRun, NotWritten
  <2> QED BY <1>3, <2>1 DEF RefuseRun, TypeOK, limits
<1>4. ASSUME NEW p \in Paths, Record(p) PROVE TypeOK'
  <2>1. report[p].id \in Ids
    BY <1>4 DEF Record, TypeOK, Reports
  <2> QED BY <1>4, <2>1 DEF Record, TypeOK, limits, history
<1>5. ASSUME NEW items \in SUBSET Paths, CreateCannotBegin(items) PROVE TypeOK'
  <2>1. report' \in [Paths -> Reports]
    BY <1>5, SaysReport DEF CreateCannotBegin, NotCreated
  <2> QED BY <1>5, <2>1, FailsStep DEF CreateCannotBegin, TypeOK
<1> QED BY <1>1, <1>2, <1>3, <1>4, <1>5 DEF Operator

LEMMA AroundTypes ==
  TypeOK /\ (Return \/ CloseTab \/ \E i \in Ids : ByHand(i)) => TypeOK'
<1> SUFFICES ASSUME TypeOK, Return \/ CloseTab \/ \E i \in Ids : ByHand(i)
             PROVE  TypeOK'
  OBVIOUS
<1>1. CASE Return
  BY <1>1 DEF Return, TypeOK, limits, history
<1>2. CASE CloseTab
  <2>1. report' \in [Paths -> Reports]
    BY <1>2, SaysReport DEF CloseTab
  <2> QED BY <1>2, <2>1, FailsStep DEF CloseTab, TypeOK, history
<1>3. ASSUME NEW i \in Ids, ByHand(i) PROVE TypeOK'
  <2>1. panel[i] \in Command
    BY <1>3 DEF ByHand, TypeOK
  <2>2. /\ [panel[i] EXCEPT !.enabled = ~@] \in Command
        /\ [panel[i] EXCEPT !.other = IF @ = "a" THEN "b" ELSE "a"] \in Command
    BY <2>1 DEF Command
  <2>3. panel' \in [Ids -> Command \cup {Absent}]
    BY <1>3, <2>2 DEF ByHand, TypeOK
  <2>4. edits' \in 0 .. MaxEdits /\ byHand' \in SUBSET Ids
    BY <1>3, BoundsAssumption DEF ByHand, TypeOK
  <2> QED BY <1>3, <2>3, <2>4 DEF ByHand, TypeOK
<1> QED BY <1>1, <1>2, <1>3

LEMMA TypeStep == TypeOK /\ [Next]_vars => TypeOK'
<1>1. TypeOK /\ UNCHANGED vars => TypeOK'
  BY DEF TypeOK, vars
<1> QED BY <1>1, RunTypes, CreateTypes, OperatorTypes, AroundTypes DEF Next, SessionStep

LEMMA TypeInit == Init => TypeOK
<1> SUFFICES ASSUME Init PROVE TypeOK
  OBVIOUS
<1>1. PICK installed \in SUBSET Paths, number \in [Paths -> Ids], first \in 1 .. MaxId + 1,
           code \in {"old", "new", "several"}, structure \in {"old", "new"} :
        /\ \A p, q \in installed : number[p] = number[q] => p = q
        /\ \A p \in installed : number[p] < first
        /\ \A p \in Paths \ installed : number[p] = 1
        /\ panel = [i \in Ids |->
             IF \E p \in installed : number[p] = i
             THEN [name |-> CHOOSE p \in installed : number[p] = i,
                   code |-> code, structure |-> structure,
                   other |-> "b", enabled |-> TRUE]
             ELSE Absent]
        /\ recorded = [p \in Paths |-> IF p \in installed THEN number[p] ELSE NoId]
        /\ purpose = [i \in Ids |->
             IF \E p \in installed : number[p] = i
             THEN CHOOSE p \in installed : number[p] = i ELSE NoPath]
        /\ nextId = first
  BY Zenon DEF Init
<1>2. ASSUME NEW i \in Ids, \E p \in installed : number[p] = i
      PROVE  (CHOOSE p \in installed : number[p] = i) \in Paths
  BY <1>2
<1>3. panel \in [Ids -> Command \cup {Absent}]
  BY <1>1, <1>2 DEF Command
<1>4. purpose \in [Ids -> Paths \cup {NoPath}]
  BY <1>1, <1>2
<1>5. recorded \in [Paths -> Ids \cup {NoId}]
  BY <1>1
<1>6. report \in [Paths -> Reports]
  BY SaysReport DEF Init
<1>7. /\ session = NoSession /\ failures = 0 /\ edits = 0
      /\ before = panel /\ byHand = {}
  BY DEF Init
<1>8. nextId \in 1 .. MaxId + 1 /\ 0 \in 0 .. MaxFailures /\ 0 \in 0 .. MaxEdits
  BY <1>1, BoundsAssumption
<1> QED BY <1>3, <1>4, <1>5, <1>6, <1>7, <1>8 DEF TypeOK

(* Type correctness: whatever requests fail, tabs are closed and commands  *)
(* are changed by hand, a step only uses a form that it has read.          *)
THEOREM TypeCorrect == Spec => []TypeOK
  BY TypeInit, TypeStep, PTL DEF Spec

-----------------------------------------------------------------------------
(* What the steps do to the session's lasting fields.                      *)
LEMMA SessionKeeps ==
  ASSUME TypeOK, SessionStep, session' # NoSession
  PROVE  /\ session # NoSession /\ session \in Sessions
         /\ session'.dry = session.dry /\ session'.kind = session.kind
         /\ session'.todo \subseteq session.todo
         /\ UNCHANGED <<before, byHand>>
<1>1. session # NoSession /\ session \in Sessions
  BY DEF SessionStep, RunStep, CreateStep, Return, Fetch, FetchFails, NextItem, Decide,
     DecideFails, Post, PostUnanswered, ReadBack, ReadBackFails, CreateItem, New,
     NewRejected, NewUnanswered, Page, Disable, DisableUnanswered, Verify, CreateFails,
     At, TypeOK
<1>2. UNCHANGED <<before, byHand>>
  BY DEF SessionStep, RunStep, CreateStep, Return, Fetch, FetchFails, NextItem, Decide,
     DecideFails, Post, PostUnanswered, ReadBack, ReadBackFails, CreateItem, New,
     NewRejected, NewUnanswered, Page, Disable, DisableUnanswered, Verify, CreateFails,
     history
<1>3. ASSUME NEW r, Finish(r)
      PROVE  /\ session'.dry = session.dry /\ session'.kind = session.kind
             /\ session'.todo \subseteq session.todo
  BY <1>1, <1>3 DEF Finish, Sessions
<1>4. ASSUME NEW stage, GoOn(stage)
      PROVE  /\ session'.dry = session.dry /\ session'.kind = session.kind
             /\ session'.todo \subseteq session.todo
  BY <1>1, <1>4 DEF GoOn, Sessions
<1>5. ASSUME NEW p \in Paths, Fetch(p) \/ FetchFails(p) \/ CreateItem(p)
      PROVE  /\ session'.dry = session.dry /\ session'.kind = session.kind
             /\ session'.todo \subseteq session.todo
  <2>0. DEFINE taken == [session EXCEPT !.todo = @ \ {p}]
  <2>a. /\ taken \in Sessions /\ taken.dry = session.dry /\ taken.kind = session.kind
        /\ taken.todo \subseteq session.todo
    BY <1>1 DEF Sessions
  <2>1. CASE Fetch(p)
    <3>1. \/ session' = taken
          \/ session' = [taken EXCEPT !.item = p, !.id = recorded[p],
                          !.form = panel[recorded[p]], !.stage = "decide"]
      BY <2>1 DEF Fetch
    <3> HIDE DEF taken
    <3>2. CASE session' = [taken EXCEPT !.item = p, !.id = recorded[p],
                            !.form = panel[recorded[p]], !.stage = "decide"]
      BY <2>a, <3>2 DEF Sessions
    <3> QED BY <2>a, <3>1, <3>2
  <2>2. CASE FetchFails(p)
    BY <1>1, <2>2 DEF FetchFails, Sessions
  <2>3. CASE CreateItem(p)
    <3>1. \/ session' = taken
          \/ session' = [session EXCEPT !.todo = @ \ {p}, !.item = p, !.stage = "new"]
      BY <2>3 DEF CreateItem
    <3>2. CASE session' = [session EXCEPT !.todo = @ \ {p}, !.item = p, !.stage = "new"]
      BY <1>1, <3>2 DEF Sessions
    <3> QED BY <2>a, <3>1, <3>2
  <2> QED BY <1>5, <2>1, <2>2, <2>3
<1>6. CASE New \/ Page
  <2>1. CASE New
    BY <1>1, <2>1 DEF New, Sessions
  <2>2. CASE Page
    BY <1>1, <1>2, <1>3, <2>2 DEF Page, CreatedBut, Sessions
  <2> QED BY <1>1, <1>2, <1>6, <2>1, <2>2
<1>7. CASE Decide \/ DecideFails \/ Post \/ PostUnanswered \/ ReadBack \/ ReadBackFails
           \/ NewRejected \/ NewUnanswered \/ Disable \/ DisableUnanswered
           \/ Verify \/ CreateFails
  <2>1. (\E r : Finish(r)) \/ (\E stage : GoOn(stage))
    BY <1>7 DEF Decide, DecideFails, Post, PostUnanswered, ReadBack, ReadBackFails,
       NewRejected, NewUnanswered, Disable, DisableUnanswered, Verify, CreateFails,
       CreatedBut
  <2> QED BY <1>1, <1>2, <1>3, <1>4, <2>1
<1>8. ~Return
  BY DEF Return
<1> QED BY <1>1, <1>2, <1>5, <1>6, <1>7, <1>8 DEF SessionStep, RunStep, CreateStep

(* A step of a dry session never comes to one that writes.                 *)
LEMMA DryStep == TypeOK /\ DryInv /\ [Next]_vars => DryInv'
<1> SUFFICES ASSUME TypeOK, DryInv, [Next]_vars, session' # NoSession, session'.dry
             PROVE  /\ session'.stage \in {"next", "decide"}
                    /\ \A i \in Ids \ byHand' : panel'[i] = before'[i]
  BY DEF DryInv
<1>1. CASE UNCHANGED vars
  BY <1>1 DEF vars, DryInv
<1>2. CASE SessionStep
  <2>1. /\ session # NoSession /\ session \in Sessions /\ session.dry
        /\ session.stage \in {"next", "decide"} /\ UNCHANGED <<before, byHand>>
        /\ \A i \in Ids \ byHand : panel[i] = before[i]
    BY <1>2, SessionKeeps DEF DryInv
  <2>2. (\E p \in Paths : Fetch(p) \/ FetchFails(p) \/ CreateItem(p)) \/ Decide \/ DecideFails
    BY <1>2, <2>1 DEF SessionStep, RunStep, CreateStep, Return, Post, PostUnanswered,
       ReadBack, ReadBackFails, New, NewRejected, NewUnanswered, Page, Disable,
       DisableUnanswered, Verify, CreateFails, At
  <2>3. panel' = panel
    BY <2>2 DEF Fetch, FetchFails, CreateItem, NextItem, Decide, DecideFails
  <2>4. session'.stage \in {"next", "decide"}
    <3>1. ASSUME NEW p \in Paths, Fetch(p) \/ FetchFails(p) \/ CreateItem(p)
          PROVE  session'.stage \in {"next", "decide"}
      BY <2>1, <3>1 DEF Fetch, FetchFails, CreateItem, NextItem, Sessions
    <3>2. ASSUME NEW r, Finish(r) PROVE session'.stage \in {"next", "decide"}
      BY <2>1, <3>2 DEF Finish, Sessions
    <3> QED BY <2>1, <2>2, <3>1, <3>2 DEF Decide, DecideFails
  <2> QED BY <2>1, <2>3, <2>4
<1>3. CASE Operator
  <2>1. ASSUME NEW kind, NEW dry, NEW wish, NEW existing, NEW todo,
               Begin(kind, dry, wish, existing, todo)
        PROVE  session'.stage = "next" /\ panel' = panel /\ before' = panel
    BY <2>1 DEF Begin
  <2>2. ASSUME NEW p \in Paths, Record(p) PROVE FALSE
    BY <2>2 DEF Record
  <2>3. ASSUME NEW enable, NEW disable, RefuseRun(enable, disable) PROVE FALSE
    BY <2>3 DEF RefuseRun
  <2>4. ASSUME NEW items, CreateCannotBegin(items) PROVE FALSE
    BY <2>4 DEF CreateCannotBegin
  <2>5. session'.stage = "next" /\ panel' = panel /\ before' = panel
    BY <1>3, <2>1, <2>2, <2>3, <2>4 DEF Operator, BeginCreate, BeginRun
  <2> QED BY <2>5
<1>4. ASSUME NEW i \in Ids, ByHand(i)
      PROVE  /\ session'.stage \in {"next", "decide"}
             /\ \A j \in Ids \ byHand' : panel'[j] = before'[j]
  BY <1>4 DEF ByHand, DryInv, TypeOK
<1>5. ~CloseTab
  BY DEF CloseTab
<1> QED BY <1>1, <1>2, <1>3, <1>4, <1>5 DEF Next

(* Dry runs, of run and of create, change nothing in the panel, whatever   *)
(* fails and whatever is changed by hand beside them.                      *)
THEOREM DryRunsOnlyRead == Spec => []DryRunsWriteNothing
<1>1. Init => DryInv
  BY DEF Init, DryInv
<1>2. DryInv => DryRunsWriteNothing
  BY DEF DryInv, DryRunsWriteNothing
<1> QED BY <1>1, <1>2, TypeCorrect, DryStep, PTL DEF Spec

-----------------------------------------------------------------------------
(* What create has made it speaks of.  Saving a form makes no command.     *)
LEMMA SaveMakesNone ==
  ASSUME TypeOK, NEW i \in Ids, NEW c, Save(i, c)
  PROVE  /\ \A j \in Ids : j # i => panel'[j] = panel[j]
         /\ \A j \in Ids : panel[j] = Absent => panel'[j] = Absent
         /\ panel'[i] # Absent => panel'[i] = c
<1>1. CASE panel[i] = Absent
  BY <1>1 DEF Save
<1>2. CASE panel[i] # Absent
  BY <1>2 DEF Save, TypeOK
<1> QED BY <1>1, <1>2

LEMMA RunMakesNone ==
  ASSUME TypeOK, MadeInv, RunStep
  PROVE  MadeInv' /\ LeftoversAreReported'
<1>1. session # NoSession /\ session.kind = "run"
  BY DEF RunStep, Fetch, FetchFails, NextItem, Decide, DecideFails, Post, PostUnanswered,
     ReadBack, ReadBackFails, At
<1>2. before' = before
  BY DEF RunStep, Fetch, FetchFails, NextItem, Decide, DecideFails, Post, PostUnanswered,
     ReadBack, ReadBackFails, history
<1>3. ASSUME NEW j \in Ids, panel[j] = Absent PROVE panel'[j] = Absent
  <2>1. CASE panel' = panel
    BY <1>3, <2>1
  <2>2. CASE /\ At("run", "post")
             /\ Save(session.id, Applied(session.item, session.wish[session.item], session.form))
    <3>1. "post" \in Stages \ {"next"}
      BY DEF Stages
    <3>2. session.id \in Ids
      BY <2>2, <3>1, InItem
    <3> QED BY <1>3, <2>2, <3>2, SaveMakesNone
  <2> QED BY <2>1, <2>2 DEF RunStep, Fetch, FetchFails, NextItem, Decide, DecideFails, Post,
          PostUnanswered, ReadBack, ReadBackFails
<1>4. \A j \in Ids : before'[j] = Absent => panel'[j] = Absent
  BY <1>1, <1>2, <1>3 DEF MadeInv
<1>5. session' # NoSession => session'.kind = "run"
  BY <1>1, SessionKeeps DEF SessionStep
<1> QED BY <1>4, <1>5 DEF MadeInv, LeftoversAreReported

(* The items of create that a step is not about keep what holds of them.   *)
LEMMA OthersKept ==
  ASSUME TypeOK, MadeInv, LeftoversAreReported, session # NoSession,
         session.kind = "create", UNCHANGED <<before, byHand>>,
         NEW q \in Paths, \A p \in Paths \ {q} : report'[p] = report[p],
         \A j \in Ids : panel'[j] # panel[j] \/ purpose'[j] # purpose[j] =>
                          purpose'[j] = q \/ (panel[j] # Absent /\ purpose'[j] = purpose[j]
                                                /\ (panel'[j] # Absent => ~panel'[j].enabled)),
         session.stage # "next" => q = session.item,
         NEW p \in Paths \ {q}
  PROVE  /\ MadeFor(p)' \subseteq MadeFor(p)
         /\ \A i \in Ids \ byHand' :
              before'[i] = Absent /\ purpose'[i] = p /\ panel'[i] # Absent /\ panel'[i].enabled =>
                report'[p].status \in {"may exist", "created but"}
<1>1. MadeFor(p)' \subseteq MadeFor(p)
  BY DEF MadeFor
<1>2. p # session.item
  BY NoPathAssumption DEF MadeInv
<1>3. ASSUME NEW i \in Ids \ byHand', before'[i] = Absent, purpose'[i] = p,
             panel'[i] # Absent, panel'[i].enabled
      PROVE  report'[p].status \in {"may exist", "created but"}
  <2>1. panel[i] = panel'[i] /\ purpose[i] = purpose'[i]
    BY <1>3
  <2> QED BY <1>2, <1>3, <2>1 DEF LeftoversAreReported
<1> QED BY <1>1, <1>3

(* An item that is reported on, and gone on from.                          *)
LEMMA FinishedIsReported ==
  ASSUME TypeOK, MadeInv, LeftoversAreReported, session # NoSession,
         session.kind = "create", session.stage # "next",
         UNCHANGED <<before, byHand>>, NEW r, Finish(r),
         NEW q \in Paths, q = session.item,
         \A j \in Ids : panel'[j] # panel[j] \/ purpose'[j] # purpose[j] =>
                          purpose'[j] = q
                            \/ (panel[j] # Absent /\ purpose'[j] = purpose[j]
                                  /\ (panel'[j] # Absent => ~panel'[j].enabled)),
         \/ r.status \in {"may exist", "created but"}
         \/ \A i \in MadeFor(q)' : ~panel'[i].enabled
  PROVE  MadeInv' /\ LeftoversAreReported'
<1>1. /\ session \in Sessions
      /\ report' = [report EXCEPT ![q] = r] /\ report \in [Paths -> Reports]
  BY DEF TypeOK, Finish
<1>2. /\ session'.stage = "next" /\ session'.item = NoPath
      /\ session'.todo = session.todo /\ session'.kind = "create"
  BY <1>1 DEF Finish, Sessions
<1>3. session.todo \subseteq Paths \ {q}
  BY <1>1 DEF Sessions, MadeInv
<1>4. \A p \in Paths \ {q} : report'[p] = report[p]
  BY <1>1
<1>5. ASSUME NEW p \in Paths \ {q}
      PROVE  /\ MadeFor(p)' \subseteq MadeFor(p)
             /\ \A i \in Ids \ byHand' :
                  before'[i] = Absent /\ purpose'[i] = p /\ panel'[i] # Absent /\ panel'[i].enabled =>
                    report'[p].status \in {"may exist", "created but"}
  BY <1>1, <1>4, OthersKept
<1>6. MadeInv'
  <2>1. ASSUME NEW p \in session'.todo
        PROVE  report'[p].status = "none" /\ MadeFor(p)' = {}
    <3>1. p \in session.todo /\ p \in Paths \ {q}
      BY <1>2, <1>3, <2>1
    <3>2. MadeFor(p) = {} /\ report[p].status = "none"
      BY <3>1 DEF MadeInv
    <3> QED BY <1>4, <1>5, <3>1, <3>2
  <2>2. session'.item \notin session'.todo
    BY <1>2, <1>3, NoPathAssumption
  <2> QED BY <1>2, <2>1, <2>2 DEF MadeInv
<1>7. ASSUME NEW i \in Ids \ byHand', before'[i] = Absent, purpose'[i] = q,
             panel'[i] # Absent, panel'[i].enabled
      PROVE  report'[q].status \in {"may exist", "created but"}
  <2>1. i \in MadeFor(q)'
    BY <1>7 DEF MadeFor
  <2> QED BY <1>1, <1>7, <2>1
<1>8. ASSUME NEW p \in Paths, NEW i \in Ids \ byHand', before'[i] = Absent,
             purpose'[i] = p, panel'[i] # Absent, panel'[i].enabled
      PROVE  report'[p].status \in {"may exist", "created but"}
  BY <1>5, <1>7, <1>8
<1> QED BY <1>6, <1>8 DEF LeftoversAreReported

(* An item that is gone on with.                                           *)
LEMMA ContinuedIsKept ==
  ASSUME TypeOK, MadeInv, LeftoversAreReported, session # NoSession,
         session.kind = "create", session.stage # "next",
         UNCHANGED <<before, byHand, report>>,
         NEW q \in Paths, q = session.item,
         session'.kind = "create", session'.todo = session.todo,
         session'.item = q, session'.stage \notin {"next", "new"},
         \A j \in Ids : panel'[j] # panel[j] \/ purpose'[j] # purpose[j] =>
                          purpose'[j] = q
                            \/ (panel[j] # Absent /\ purpose'[j] = purpose[j]
                                  /\ (panel'[j] # Absent => ~panel'[j].enabled)),
         \A i \in Ids : i # session'.id =>
           panel'[i] = panel[i] /\ purpose'[i] = purpose[i] /\ i \notin MadeFor(q)
  PROVE  MadeInv' /\ LeftoversAreReported'
<1>1. session.todo \subseteq Paths \ {q}
  BY DEF TypeOK, Sessions, MadeInv
<1>2. ASSUME NEW p \in Paths \ {q}
      PROVE  /\ MadeFor(p)' \subseteq MadeFor(p)
             /\ \A i \in Ids \ byHand' :
                  before'[i] = Absent /\ purpose'[i] = p /\ panel'[i] # Absent /\ panel'[i].enabled =>
                    report'[p].status \in {"may exist", "created but"}
  BY OthersKept
<1>3. MadeFor(q)' \subseteq {session'.id}
  BY DEF MadeFor
<1>4. ASSUME NEW p \in session'.todo
      PROVE  report'[p].status = "none" /\ MadeFor(p)' = {}
  BY <1>1, <1>2, <1>4 DEF MadeInv
<1>5. report'[q].status = "none"
  BY DEF MadeInv
<1>6. MadeInv'
  BY <1>1, <1>3, <1>4, <1>5 DEF MadeInv
<1>7. ASSUME NEW p \in Paths, NEW i \in Ids \ byHand', before'[i] = Absent,
             purpose'[i] = p, panel'[i] # Absent, panel'[i].enabled
      PROVE  \/ report'[p].status \in {"may exist", "created but"}
             \/ report'[p].status = "none" /\ session'.item = p
  <2>1. CASE p = q
    BY <1>5, <2>1
  <2>2. CASE p # q
    BY <1>2, <1>7, <2>2
  <2> QED BY <2>1, <2>2
<1> QED BY <1>6, <1>7 DEF LeftoversAreReported

LEMMA ItemIsKept ==
  ASSUME TypeOK, MadeInv, LeftoversAreReported, NEW q \in Paths, CreateItem(q)
  PROVE  MadeInv' /\ LeftoversAreReported'
<1>1. /\ session \in Sessions /\ session # NoSession /\ session.kind = "create"
      /\ session.stage = "next" /\ session.item = NoPath /\ q \in session.todo
      /\ UNCHANGED <<panel, before, byHand, purpose>>
  BY DEF CreateItem, NextItem, TypeOK, MadeInv, history
<1>2. /\ \A p \in session.todo : report[p].status = "none" /\ MadeFor(p) = {}
      /\ \A p \in Paths : MadeFor(p)' = MadeFor(p)
  BY <1>1 DEF MadeInv, MadeFor
<1>3. ASSUME NEW p \in Paths \ {q}, report'[p] = report[p], NEW i \in Ids \ byHand',
             before'[i] = Absent, purpose'[i] = p, panel'[i] # Absent, panel'[i].enabled
      PROVE  report'[p].status \in {"may exist", "created but"}
  BY <1>1, <1>3, NoPathAssumption DEF LeftoversAreReported
<1>4. ASSUME NEW i \in Ids, before'[i] = Absent, purpose'[i] = q, panel'[i] # Absent
      PROVE  FALSE
  BY <1>1, <1>2, <1>4 DEF MadeFor
<1>5. CASE session' = [session EXCEPT !.todo = @ \ {q}, !.item = q, !.stage = "new"]
             /\ UNCHANGED report
  <2>1. /\ session'.kind = "create" /\ session'.todo = session.todo \ {q}
        /\ session'.item = q /\ session'.stage = "new"
    BY <1>1, <1>5 DEF Sessions
  <2>2. \A p \in session'.todo \cup {q} : report'[p].status = "none" /\ MadeFor(p)' = {}
    BY <1>1, <1>2, <1>5, <2>1 DEF Sessions
  <2>3. MadeInv'
    BY <2>1, <2>2 DEF MadeInv
  <2> QED BY <1>3, <1>4, <1>5, <2>3 DEF LeftoversAreReported
<1>6. ASSUME NEW st, report' = [report EXCEPT ![q] = Says(st)],
             session' = [session EXCEPT !.todo = @ \ {q}]
      PROVE  MadeInv' /\ LeftoversAreReported'
  <2>1. /\ session'.kind = "create" /\ session'.todo = session.todo \ {q}
        /\ session'.item = NoPath /\ session'.stage = "next"
    BY <1>1, <1>6 DEF Sessions
  <2>2. \A p \in Paths \ {q} : report'[p] = report[p]
    BY <1>6 DEF TypeOK
  <2>3. \A p \in session'.todo : report'[p].status = "none" /\ MadeFor(p)' = {}
    BY <1>1, <1>2, <2>1, <2>2 DEF Sessions
  <2>4. MadeInv'
    BY <1>1, <2>1, <2>3, NoPathAssumption DEF MadeInv, Sessions
  <2> QED BY <1>3, <1>4, <2>2, <2>4 DEF LeftoversAreReported
<1> QED BY <1>5, <1>6 DEF CreateItem

LEMMA MadeIsOfItem ==
  ASSUME TypeOK, Made \/ NotMade, session.item \in Paths
  PROVE  \A j \in Ids : panel'[j] # panel[j] \/ purpose'[j] # purpose[j] =>
                          purpose'[j] = session.item
  BY DEF Made, NotMade, TypeOK

LEMMA CreateIsReported ==
  ASSUME TypeOK, MadeInv, LeftoversAreReported, CreateStep
  PROVE  MadeInv' /\ LeftoversAreReported'
<1> DEFINE q == session.item
<1>1. ASSUME NEW p \in Paths, CreateItem(p) PROVE MadeInv' /\ LeftoversAreReported'
  BY <1>1, ItemIsKept
<1>2. CASE New \/ NewRejected \/ NewUnanswered
  <2>0. At("create", "new")
    BY <1>2 DEF New, NewRejected, NewUnanswered
  <2>1. /\ session \in Sessions /\ session # NoSession /\ session.kind = "create"
        /\ session.stage = "new" /\ q \in Paths
    <3>1. "new" \in Stages \ {"next"}
      BY DEF Stages
    <3> QED BY <2>0, <3>1, InItem
  <2>2. UNCHANGED <<before, byHand>> /\ (Made \/ NotMade)
    BY <1>2 DEF New, NewRejected, NewUnanswered, NotMade, history
  <2>3. \A j \in Ids : panel'[j] # panel[j] \/ purpose'[j] # purpose[j] => purpose'[j] = q
    BY <2>1, <2>2, MadeIsOfItem
  <2>4. CASE NewRejected \/ NewUnanswered
    <3>1. Finish(Says("may exist"))
      BY <2>4 DEF NewRejected, NewUnanswered
    <3>2. Says("may exist").status = "may exist"
      BY DEF Says
    <3> QED BY <2>1, <2>2, <2>3, <3>1, <3>2, FinishedIsReported
  <2>5. CASE New
    <3>1. /\ session'.kind = "create" /\ session'.todo = session.todo
          /\ session'.item = q /\ session'.stage = "page" /\ session'.id = nextId
      BY <2>1, <2>5 DEF New, Sessions
    <3>2. \A i \in Ids : i # nextId => panel'[i] = panel[i] /\ purpose'[i] = purpose[i]
      BY <2>5 DEF New, Made, TypeOK
    <3>3. MadeFor(q) = {}
      BY <2>1 DEF MadeInv
    <3>4. report' = report
      BY <2>5 DEF New
    <3> QED BY <2>1, <2>2, <2>3, <3>1, <3>2, <3>3, <3>4, ContinuedIsKept
  <2> QED BY <1>2, <2>4, <2>5
<1>3. CASE Page \/ Disable \/ DisableUnanswered \/ Verify \/ CreateFails
  <2>1. PICK stage \in {"page", "disable", "verify"} : At("create", stage)
    BY <1>3 DEF Page, Disable, DisableUnanswered, Verify, CreateFails
  <2>2. /\ session \in Sessions /\ session # NoSession /\ session.kind = "create"
        /\ session.stage = stage /\ q \in Paths /\ session.id \in Ids
        /\ stage = "disable" => session.form \in Command
    BY <2>1, InItem DEF Stages
  <2>3. UNCHANGED <<before, byHand, purpose>>
    BY <1>3 DEF Page, Disable, DisableUnanswered, Verify, CreateFails, history
  <2>4. /\ \A j \in Ids : panel'[j] # panel[j] =>
             j = session.id /\ panel[j] # Absent /\ (panel'[j] # Absent => ~panel'[j].enabled)
    <3>1. CASE panel' = panel
      BY <3>1
    <3>2. CASE Save(session.id, Named(session.form)) /\ session.form \in Command
      <4>1. ~Named(session.form).enabled
        BY <2>2, <3>2, NamedIsCommand
      <4> QED BY <2>2, <3>2, <4>1, SaveMakesNone
    <3> QED BY <1>3, <2>2, <3>1, <3>2
         DEF Page, Disable, DisableUnanswered, Verify, CreateFails, At
  <2>5. \A j \in Ids : panel'[j] # panel[j] \/ purpose'[j] # purpose[j] =>
                         panel[j] # Absent /\ purpose'[j] = purpose[j]
                           /\ (panel'[j] # Absent => ~panel'[j].enabled)
    BY <2>3, <2>4
  <2>6. MadeFor(q) \subseteq {session.id}
    BY <2>2 DEF MadeInv
  <2>7. CASE CreatedBut
    <3>1. SaysOf("created but", session.id).status = "created but"
      BY DEF SaysOf
    <3> QED BY <2>2, <2>3, <2>5, <2>7, <3>1, FinishedIsReported DEF CreatedBut
  <2>8. CASE Verify /\ ~CreatedBut
    <3>1. /\ Finish(SaysOf("created-disabled", session.id)) /\ panel' = panel
          /\ ~panel[session.id].enabled
      BY <2>8 DEF Verify
    <3>2. ASSUME NEW p \in Paths, p = q, NEW i \in MadeFor(p)' PROVE ~panel'[i].enabled
      BY <2>3, <2>6, <3>1, <3>2 DEF MadeFor
    <3> QED BY <2>2, <2>3, <2>5, <3>1, <3>2, FinishedIsReported
  <2>9. CASE (Page \/ Disable) /\ ~CreatedBut
    <3>1. /\ session'.kind = "create" /\ session'.todo = session.todo
          /\ session'.item = q /\ session'.id = session.id
          /\ session'.stage \in {"disable", "verify"} /\ report' = report
      BY <2>2, <2>9 DEF Page, Disable, GoOn, Sessions
    <3>2. \A i \in Ids : i # session'.id =>
            panel'[i] = panel[i] /\ purpose'[i] = purpose[i] /\ i \notin MadeFor(q)
      BY <2>3, <2>4, <2>6, <3>1
    <3> QED BY <2>2, <2>3, <2>5, <3>1, <3>2, ContinuedIsKept
  <2> QED BY <1>3, <2>7, <2>8, <2>9 DEF DisableUnanswered, CreateFails
<1> QED BY <1>1, <1>2, <1>3 DEF CreateStep

LEMMA AroundIsReported ==
  ASSUME TypeOK, MadeInv, LeftoversAreReported,
         \/ Operator \/ Return \/ CloseTab \/ \E i \in Ids : ByHand(i)
         \/ UNCHANGED vars
  PROVE  MadeInv' /\ LeftoversAreReported'
<1>1. CASE Operator
  <2>1. ASSUME NEW kind \in {"run", "create"}, NEW dry \in BOOLEAN,
               NEW wish \in [Paths -> Wishes], NEW existing \in SUBSET Paths,
               NEW todo \in SUBSET Paths, Begin(kind, dry, wish, existing, todo)
        PROVE  MadeInv' /\ LeftoversAreReported'
    <3>1. /\ session'.kind = kind /\ session'.todo = todo /\ session'.item = NoPath
          /\ session'.stage = "next" /\ before' = panel' /\ panel' = panel
          /\ \A p \in Paths : report'[p].status = "none"
      BY <2>1 DEF Begin, Says
    <3>2. \A p \in Paths : MadeFor(p)' = {}
      BY <3>1 DEF MadeFor
    <3> QED BY <3>1, <3>2, NoPathAssumption DEF MadeInv, LeftoversAreReported
  <2>2. ASSUME session' = NoSession, before' = panel' PROVE MadeInv' /\ LeftoversAreReported'
    BY <2>2 DEF MadeInv, LeftoversAreReported
  <2>3. ASSUME NEW items, CreateCannotBegin(items) PROVE MadeInv' /\ LeftoversAreReported'
    BY <2>2, <2>3 DEF CreateCannotBegin
  <2>4. ASSUME NEW enable, NEW disable, RefuseRun(enable, disable)
        PROVE  MadeInv' /\ LeftoversAreReported'
    BY <2>2, <2>4 DEF RefuseRun
  <2>5. ASSUME NEW p \in Paths, Record(p) PROVE MadeInv' /\ LeftoversAreReported'
    BY <2>5 DEF Record, MadeInv, LeftoversAreReported, history
  <2>6. ASSUME NEW items \in SUBSET Paths, NEW dry \in BOOLEAN, BeginCreate(dry, items)
        PROVE  MadeInv' /\ LeftoversAreReported'
    <3>1. InUse \in SUBSET Paths /\ [p \in Paths |-> "leave"] \in [Paths -> Wishes]
      BY DEF InUse, Wishes
    <3> QED BY <2>1, <2>6, <3>1 DEF BeginCreate
  <2>7. ASSUME NEW enable \in SUBSET Paths, NEW disable \in SUBSET Paths,
               NEW dry \in BOOLEAN, BeginRun(dry, enable, disable)
        PROVE  MadeInv' /\ LeftoversAreReported'
    <3>1. WishOf(enable, disable) \in [Paths -> Wishes] /\ Manifest \in SUBSET Paths
      BY DEF WishOf, Wishes, Manifest
    <3> QED BY <2>1, <2>7, <3>1 DEF BeginRun
  <2> QED BY <1>1, <2>3, <2>4, <2>5, <2>6, <2>7 DEF Operator
<1>2. CASE Return
  <2>1. /\ session' = NoSession /\ session # NoSession /\ session.stage = "next"
        /\ UNCHANGED <<panel, report, before, byHand, purpose>>
    BY <1>2 DEF Return, history
  <2> QED BY <2>1 DEF MadeInv, LeftoversAreReported
<1>3. CASE CloseTab
  BY <1>3 DEF CloseTab, MadeInv, LeftoversAreReported, Says
<1>4. ASSUME NEW h \in Ids, ByHand(h) PROVE MadeInv' /\ LeftoversAreReported'
  <2>1. /\ \A i \in Ids \ {h} : panel'[i] = panel[i]
        /\ panel[h] # Absent /\ h \in byHand' /\ byHand \subseteq byHand'
        /\ UNCHANGED <<session, report, before, purpose>>
    BY <1>4 DEF ByHand, TypeOK
  <2>2. \A p \in Paths : MadeFor(p)' \subseteq MadeFor(p)
    BY <2>1 DEF MadeFor
  <2>3. session # NoSession => session.todo \subseteq Paths /\ (session.stage # "next" => session.item \in Paths)
    BY DEF TypeOK, Sessions
  <2>4. MadeInv'
    BY <2>1, <2>2, <2>3 DEF MadeInv
  <2> QED BY <2>1, <2>4 DEF LeftoversAreReported
<1>5. CASE UNCHANGED vars
  BY <1>5 DEF vars, MadeInv, LeftoversAreReported, MadeFor
<1> QED BY <1>1, <1>2, <1>3, <1>4, <1>5

(* A command that create has made and that is still enabled is one its     *)
(* report speaks of, whichever request failed, unless the tab was closed.  *)
THEOREM LeftoversAreTold == Spec => []LeftoversAreReported
<1>1. Init => MadeInv /\ LeftoversAreReported
  BY DEF Init, MadeInv, LeftoversAreReported
<1>2. TypeOK /\ MadeInv /\ LeftoversAreReported /\ [Next]_vars
        => MadeInv' /\ LeftoversAreReported'
  BY RunMakesNone, CreateIsReported, AroundIsReported DEF Next, SessionStep
<1> QED BY <1>1, <1>2, TypeCorrect, PTL DEF Spec

-----------------------------------------------------------------------------
(* What the steps do to the fields of the session.                         *)
LEMMA FinishFields ==
  ASSUME TypeOK, session # NoSession, NEW r, Finish(r)
  PROVE  /\ session' # NoSession /\ session'.stage = "next" /\ session'.item = NoPath
         /\ session'.kind = session.kind /\ session'.dry = session.dry
         /\ session'.wish = session.wish /\ session'.existing = session.existing
         /\ session'.todo = session.todo /\ session'.id = session.id
         /\ session'.form = session.form
<1>1. session \in Sessions
  BY DEF TypeOK
<1>2. session' \in Sessions
  BY <1>1 DEF Finish, Sessions, Stages
<1>3. session' # NoSession
  BY <1>2, SessionIsActive
<1> QED BY <1>1, <1>3 DEF Finish, Sessions

LEMMA GoOnFields ==
  ASSUME TypeOK, session # NoSession, NEW stage \in Stages, GoOn(stage)
  PROVE  /\ session' # NoSession /\ session'.stage = stage /\ session'.item = session.item
         /\ session'.kind = session.kind /\ session'.dry = session.dry
         /\ session'.wish = session.wish /\ session'.existing = session.existing
         /\ session'.todo = session.todo /\ session'.id = session.id
         /\ session'.form = session.form /\ report' = report
<1>1. session \in Sessions
  BY DEF TypeOK
<1>2. session' \in Sessions
  BY <1>1 DEF GoOn, Sessions
<1>3. session' # NoSession
  BY <1>2, SessionIsActive
<1> QED BY <1>1, <1>3 DEF GoOn, Sessions

LEMMA TakenFields ==
  ASSUME TypeOK, session # NoSession, NEW p,
         session' = [session EXCEPT !.todo = @ \ {p}]
  PROVE  /\ session' # NoSession /\ session'.stage = session.stage
         /\ session'.item = session.item /\ session'.kind = session.kind
         /\ session'.dry = session.dry /\ session'.wish = session.wish
         /\ session'.existing = session.existing
         /\ session'.todo = session.todo \ {p} /\ session'.id = session.id
         /\ session'.form = session.form
<1>1. session \in Sessions
  BY DEF TypeOK
<1>2. session' \in Sessions
  BY <1>1 DEF Sessions
<1>3. session' # NoSession
  BY <1>2, SessionIsActive
<1> QED BY <1>1, <1>3 DEF Sessions

LEMMA SaysFields ==
  ASSUME NEW st, NEW i
  PROVE  /\ Says(st).status = st /\ Says(st).id = NoId
         /\ SaysOf(st, i).status = st /\ SaysOf(st, i).id = i
  BY DEF Says, SaysOf

LEMMA AppliedFields ==
  ASSUME NEW form \in Command, NEW p \in Paths, NEW wish \in Wishes
  PROVE  /\ Applied(p, wish, form) # Absent
         /\ Applied(p, wish, form).name = p
         /\ Applied(p, wish, form).other = form.other
         /\ wish = "leave" => Applied(p, wish, form).enabled = form.enabled
<1>1. Applied(p, wish, form) # Absent
  BY AppliedIsCommand, CommandIsThere
<1> QED BY <1>1 DEF Applied, Command

(* The steps of run, in terms of what they change.                         *)
LEMMA FetchFields ==
  ASSUME TypeOK, NEW p \in Paths, Fetch(p), ~(panel[recorded[p]] = Absent
                                                \/ panel[recorded[p]].code = "several")
  PROVE  /\ session' # NoSession /\ session'.stage = "decide" /\ session'.item = p
         /\ session'.kind = session.kind /\ session'.wish = session.wish
         /\ session'.todo = session.todo \ {p} /\ session'.id = recorded[p]
         /\ session'.form = panel[recorded[p]] /\ report' = report
<1> DEFINE taken == [session EXCEPT !.todo = @ \ {p}]
<1>1. session \in Sessions
  BY DEF Fetch, NextItem, TypeOK
<1>2. /\ taken \in Sessions /\ taken.kind = session.kind /\ taken.wish = session.wish
      /\ taken.todo = session.todo \ {p}
  BY <1>1 DEF Sessions
<1>3. session' = [taken EXCEPT !.item = p, !.id = recorded[p],
                   !.form = panel[recorded[p]], !.stage = "decide"] /\ report' = report
  BY DEF Fetch
<1> HIDE DEF taken
<1>4. /\ session'.stage = "decide" /\ session'.item = p /\ session'.kind = session.kind
      /\ session'.wish = session.wish /\ session'.todo = session.todo \ {p}
      /\ session'.id = recorded[p] /\ session'.form = panel[recorded[p]]
  BY <1>2, <1>3 DEF Sessions
<1>5. session' # NoSession
  BY <1>1, <1>4 DEF Sessions, NoSession, Fetch, NextItem
<1> QED BY <1>3, <1>4, <1>5

(* A run passes over an item, takes one up, goes on with it or reports it. *)
PassesOver(p, st) ==
  /\ session.stage = "next" /\ p \in session.todo
  /\ st \in NotWritten \ {"same"} /\ report' = [report EXCEPT ![p] = Says(st)]
  /\ session'.stage = "next" /\ session'.todo = session.todo \ {p}
  /\ panel' = panel
TakesUp(p) ==
  /\ session.stage = "next" /\ p \in session.todo
  /\ session'.stage = "decide" /\ session'.item = p /\ session'.id = recorded[p]
  /\ session'.form = panel[recorded[p]] /\ session'.todo = session.todo \ {p}
  /\ panel' = panel /\ report' = report
Goes(stage) ==
  /\ session'.stage = stage /\ session'.item = session.item /\ session'.id = session.id
  /\ session'.form = session.form /\ report' = report
Tells(st) ==
  /\ session'.stage = "next" /\ report' = [report EXCEPT ![session.item] = Says(st)]
Writes ==
  LET form == Applied(session.item, session.wish[session.item], session.form)
  IN  panel[session.id] # Absent /\ panel' = [panel EXCEPT ![session.id] = form]
DecidesOrReads ==
  /\ panel' = panel
  /\ \/ session.stage = "decide" /\ Goes("post")
     \/ session.stage = "decide" /\ \E st \in NotWritten : Tells(st)
          /\ (st = "same" => Deployed(session.item, session.form))
     \/ session.stage = "read back" /\ \E st \in Written : Tells(st)
          /\ (st = "updated" => Deployed(session.item, panel[session.id]))
Posts ==
  /\ session.stage = "post"
  /\ panel' = panel \/ Writes
  /\ Goes("read back") \/ Tells("posted")

LEMMA RunStepIs ==
  ASSUME TypeOK, RunStep
  PROVE  /\ session # NoSession /\ session.kind = "run"
         /\ session' # NoSession /\ session'.kind = "run" /\ session'.wish = session.wish
         /\ UNCHANGED <<nextId, recorded, before, byHand, purpose>>
         /\ \/ \E p \in Paths, st \in NotWritten : PassesOver(p, st)
            \/ \E p \in Paths : TakesUp(p)
            \/ (DecidesOrReads \/ Posts) /\ session'.todo = session.todo
<1>1. /\ session # NoSession /\ session.kind = "run"
      /\ UNCHANGED <<nextId, recorded, before, byHand, purpose>>
  BY DEF RunStep, Fetch, FetchFails, NextItem, Decide, DecideFails, Post, PostUnanswered,
     ReadBack, ReadBackFails, At, history
<1>2. ASSUME NEW p \in Paths, Fetch(p) \/ FetchFails(p)
      PROVE  /\ session' # NoSession /\ session'.kind = "run" /\ session'.wish = session.wish
             /\ (\E st \in NotWritten : PassesOver(p, st)) \/ TakesUp(p)
  <2>1. session.stage = "next" /\ p \in session.todo /\ panel' = panel
    BY <1>2 DEF Fetch, FetchFails, NextItem
  <2>2. ASSUME session' = [session EXCEPT !.todo = @ \ {p}],
               NEW st \in NotWritten \ {"same"}, report' = [report EXCEPT ![p] = Says(st)]
        PROVE  /\ session' # NoSession /\ session'.kind = "run" /\ session'.wish = session.wish
               /\ \E s \in NotWritten : PassesOver(p, s)
    BY <1>1, <2>1, <2>2, TakenFields DEF PassesOver
  <2>3. CASE FetchFails(p)
    BY <2>2, <2>3 DEF FetchFails, NotWritten
  <2>4. CASE Fetch(p) /\ (panel[recorded[p]] = Absent \/ panel[recorded[p]].code = "several")
    <3>1. PICK st \in {"missing", "skipped-multi"} : report' = [report EXCEPT ![p] = Says(st)]
      BY <2>4 DEF Fetch
    <3>2. session' = [session EXCEPT !.todo = @ \ {p}]
      BY <2>4 DEF Fetch
    <3> QED BY <2>2, <3>1, <3>2 DEF NotWritten
  <2>5. CASE Fetch(p) /\ ~(panel[recorded[p]] = Absent \/ panel[recorded[p]].code = "several")
    BY <1>1, <2>1, <2>5, FetchFields DEF TakesUp
  <2> QED BY <1>2, <2>3, <2>4, <2>5
<1>3. ASSUME NEW st, Finish(Says(st))
      PROVE  /\ session' # NoSession /\ session'.kind = "run" /\ session'.wish = session.wish
             /\ session'.todo = session.todo /\ Tells(st)
  BY <1>1, <1>3, FinishFields DEF Finish, Tells
<1>4. ASSUME NEW stage \in Stages, GoOn(stage)
      PROVE  /\ session' # NoSession /\ session'.kind = "run" /\ session'.wish = session.wish
             /\ session'.todo = session.todo /\ Goes(stage)
  BY <1>1, <1>4, GoOnFields DEF Goes
<1>5. ASSUME Decide \/ DecideFails \/ ReadBack \/ ReadBackFails
      PROVE  /\ session' # NoSession /\ session'.kind = "run" /\ session'.wish = session.wish
             /\ session'.todo = session.todo /\ DecidesOrReads
  <2>1. panel' = panel
    BY <1>5 DEF Decide, DecideFails, ReadBack, ReadBackFails
  <2>2. CASE Decide
    <3>1. CASE GoOn("post")
      BY <1>4, <2>1, <2>2, <3>1 DEF Stages, DecidesOrReads, Decide, At
    <3>2. CASE ~GoOn("post")
      <4>1. PICK st \in NotWritten : Finish(Says(st))
                /\ (st = "same" => Deployed(session.item, session.form))
        BY <2>2, <3>2 DEF Decide, Differs, NotWritten
      <4> QED BY <1>3, <2>1, <2>2, <4>1 DEF DecidesOrReads, Decide, At
    <3> QED BY <3>1, <3>2
  <2>3. CASE DecideFails
    BY <1>3, <2>1, <2>3 DEF DecideFails, DecidesOrReads, At, NotWritten
  <2>4. CASE ReadBack
    <3>1. PICK st \in Written : Finish(Says(st))
              /\ (st = "updated" => Deployed(session.item, panel[session.id]))
      BY <2>4 DEF ReadBack, Written
    <3> QED BY <1>3, <2>1, <2>4, <3>1 DEF DecidesOrReads, ReadBack, At
  <2>5. CASE ReadBackFails
    BY <1>3, <2>1, <2>5 DEF ReadBackFails, DecidesOrReads, At, Written
  <2> QED BY <1>5, <2>2, <2>3, <2>4, <2>5
<1>6. ASSUME Post \/ PostUnanswered
      PROVE  /\ session' # NoSession /\ session'.kind = "run" /\ session'.wish = session.wish
             /\ session'.todo = session.todo /\ Posts
  <2>1. session.stage = "post"
    BY <1>6 DEF Post, PostUnanswered, At
  <2>2. panel' = panel \/ Writes
    BY <1>6 DEF Post, PostUnanswered, Save, Writes
  <2>3. CASE Post
    BY <1>4, <2>1, <2>2, <2>3 DEF Post, Posts, Stages
  <2>4. CASE PostUnanswered
    BY <1>3, <2>1, <2>2, <2>4 DEF PostUnanswered, Posts
  <2> QED BY <1>6, <2>3, <2>4
<1> QED BY <1>1, <1>2, <1>5, <1>6 DEF RunStep

(* Create leaves an item out, takes it up, makes its command, and names    *)
(* and disables that; a step that no failure counts did all it was to do.  *)
LeavesOut(p, st) ==
  /\ session.stage = "next" /\ p \in session.todo
  /\ st \in NotCreated /\ report' = [report EXCEPT ![p] = Says(st)]
  /\ session'.stage = "next" /\ session'.todo = session.todo \ {p}
  /\ session'.existing = session.existing
  /\ UNCHANGED <<panel, nextId, purpose>>
StartsOn(p) ==
  /\ session.stage = "next" /\ p \in session.todo /\ p \notin session.existing
  /\ session'.stage = "new" /\ session'.item = p /\ session'.todo = session.todo \ {p}
  /\ session'.existing = session.existing
  /\ UNCHANGED <<panel, nextId, purpose>> /\ report' = report
Makes ==
  /\ session.stage = "new"
  /\ Made \/ NotMade
  /\ \/ /\ Made /\ session'.stage = "page" /\ session'.id = nextId
        /\ session'.item = session.item /\ report' = report
        /\ session'.existing = session.existing \cup {session.item}
     \/ /\ session'.stage = "next" /\ session'.existing = session.existing
        /\ report' = [report EXCEPT ![session.item] = Says("may exist")]
        /\ NotMade \/ Fails
NamesIt ==
  /\ session.stage = "disable" /\ panel[session.id] # Absent
  /\ panel' = [panel EXCEPT ![session.id] = Named(session.form)]
Turns ==
  /\ session.stage \in {"page", "disable", "verify"}
  /\ UNCHANGED <<nextId, purpose>> /\ session'.existing = session.existing
  /\ panel' = panel \/ NamesIt
  /\ \/ /\ session'.item = session.item /\ session'.id = session.id /\ report' = report
        /\ \/ session.stage = "page" /\ session'.stage = "disable" /\ panel' = panel
           \/ session.stage = "disable" /\ session'.stage = "verify"
                /\ (Fails \/ NamesIt \/ panel[session.id] = Absent)
     \/ /\ session'.stage = "next"
        /\ \E st \in {"created-disabled", "created but"} :
             report' = [report EXCEPT ![session.item] = SaysOf(st, session.id)]
        /\ \/ Fails
           \/ session.stage = "page" /\ panel[session.id] = Absent /\ panel' = panel
           \/ session.stage = "verify" /\ panel' = panel

LEMMA CreateStepIs ==
  ASSUME TypeOK, CreateStep
  PROVE  /\ session # NoSession /\ session.kind = "create"
         /\ session' # NoSession /\ session'.kind = "create"
         /\ session'.wish = session.wish
         /\ UNCHANGED <<recorded, before, byHand>>
         /\ UNCHANGED limits \/ Fails
         /\ \/ \E p \in Paths, st \in NotCreated : LeavesOut(p, st)
            \/ \E p \in Paths : StartsOn(p)
            \/ (Makes \/ Turns) /\ session'.todo = session.todo
<1>1. /\ session # NoSession /\ session.kind = "create" /\ session \in Sessions
      /\ UNCHANGED <<recorded, before, byHand>>
      /\ UNCHANGED limits \/ Fails
  BY DEF CreateStep, CreateItem, NextItem, New, NewRejected, NewUnanswered, Page, Disable,
     DisableUnanswered, Verify, CreateFails, At, history, TypeOK
<1>2. ASSUME NEW p \in Paths, CreateItem(p)
      PROVE  /\ session' # NoSession /\ session'.kind = "create"
             /\ session'.wish = session.wish
             /\ (\E st \in NotCreated : LeavesOut(p, st)) \/ StartsOn(p)
  <2>1. /\ session.stage = "next" /\ p \in session.todo
        /\ UNCHANGED <<panel, nextId, purpose>>
    BY <1>2 DEF CreateItem, NextItem, history
  <2>2. ASSUME NEW st \in NotCreated, session' = [session EXCEPT !.todo = @ \ {p}],
               report' = [report EXCEPT ![p] = Says(st)]
        PROVE  /\ session' # NoSession /\ session'.kind = "create"
               /\ session'.wish = session.wish /\ LeavesOut(p, st)
    BY <1>1, <2>1, <2>2, TakenFields DEF LeavesOut
  <2>3. ASSUME session' = [session EXCEPT !.todo = @ \ {p}, !.item = p, !.stage = "new"],
               report' = report, p \notin session.existing
        PROVE  /\ session' # NoSession /\ session'.kind = "create"
               /\ session'.wish = session.wish /\ StartsOn(p)
    <3>1. session' \in Sessions
      BY <1>1, <2>3 DEF Sessions, Stages
    <3>2. session' # NoSession
      BY <3>1, SessionIsActive
    <3> QED BY <1>1, <2>1, <2>3, <3>2 DEF StartsOn, Sessions
  <2> QED BY <1>2, <2>2, <2>3 DEF CreateItem, NotCreated
<1>3. ASSUME NEW r, Finish(r)
      PROVE  /\ session' # NoSession /\ session'.kind = "create"
             /\ session'.wish = session.wish /\ session'.todo = session.todo
             /\ session'.existing = session.existing /\ session'.stage = "next"
             /\ report' = [report EXCEPT ![session.item] = r]
  BY <1>1, <1>3, FinishFields DEF Finish
<1>4. ASSUME New \/ NewRejected \/ NewUnanswered
      PROVE  /\ session' # NoSession /\ session'.kind = "create"
             /\ session'.wish = session.wish /\ session'.todo = session.todo /\ Makes
  <2>1. CASE New
    <3>1. nextId \in Ids
      BY <2>1, BoundsAssumption DEF New, Made, TypeOK, Ids
    <3>2. session' \in Sessions
      <4>1. session.item \in Paths
        BY <2>1, InItem DEF New, Stages
      <4> QED BY <1>1, <2>1, <3>1, <4>1 DEF New, Sessions, Stages
    <3>3. session' # NoSession
      BY <3>2, SessionIsActive
    <3> QED BY <1>1, <2>1, <3>3 DEF New, Makes, At, Sessions
  <2>2. CASE NewRejected \/ NewUnanswered
    <3>1. Finish(Says("may exist")) /\ session.stage = "new"
      BY <2>2 DEF NewRejected, NewUnanswered, At
    <3>2. (Made \/ NotMade) /\ (NotMade \/ Fails)
      BY <2>2 DEF NewRejected, NewUnanswered, NotMade, history
    <3> QED BY <1>3, <3>1, <3>2 DEF Makes
  <2> QED BY <1>4, <2>1, <2>2
<1>5. ASSUME Page \/ Disable \/ DisableUnanswered \/ Verify \/ CreateFails
      PROVE  /\ session' # NoSession /\ session'.kind = "create"
             /\ session'.wish = session.wish /\ session'.todo = session.todo /\ Turns
  <2>1. UNCHANGED <<nextId, purpose>>
    BY <1>5 DEF Page, Disable, DisableUnanswered, Verify, CreateFails, history
  <2>2. ASSUME NEW st \in {"created-disabled", "created but"},
               Finish(SaysOf(st, session.id)), panel' = panel \/ NamesIt,
               session.stage \in {"page", "disable", "verify"},
               \/ Fails
               \/ session.stage = "page" /\ panel[session.id] = Absent /\ panel' = panel
               \/ session.stage = "verify" /\ panel' = panel
        PROVE  /\ session' # NoSession /\ session'.kind = "create"
               /\ session'.wish = session.wish /\ session'.todo = session.todo /\ Turns
    BY <1>3, <2>1, <2>2 DEF Turns
  <2>3. CASE Page /\ panel[session.id] = Absent
    BY <2>2, <2>3 DEF Page, CreatedBut, At
  <2>4. CASE Page /\ panel[session.id] # Absent
    <3>1. /\ session' = [session EXCEPT !.form = panel[session.id], !.stage = "disable"]
          /\ report' = report /\ panel' = panel /\ session.stage = "page"
      BY <2>4 DEF Page, At
    <3>2. session.id \in Ids
      <4>1. At("create", "page") /\ "page" \in Stages \ {"next"}
        BY <2>4 DEF Page, Stages
      <4> QED BY <4>1, InItem
    <3>3. session' \in Sessions
      BY <1>1, <3>1, <3>2 DEF TypeOK, Sessions, Stages
    <3>4. session' # NoSession
      BY <3>3, SessionIsActive
    <3> QED BY <1>1, <2>1, <3>1, <3>4 DEF Turns, Sessions
  <2>5. CASE Disable
    <3>1. GoOn("verify") /\ session.stage = "disable"
      BY <2>5 DEF Disable, At
    <3>2. \/ Fails /\ panel' = panel
          \/ NamesIt
          \/ panel' = panel /\ panel[session.id] = Absent
      BY <2>5 DEF Disable, Save, NamesIt, At
    <3> QED BY <1>1, <2>1, <3>1, <3>2, GoOnFields DEF Turns, Stages
  <2>6. CASE DisableUnanswered
    BY <2>2, <2>6 DEF DisableUnanswered, CreatedBut, Save, NamesIt, At
  <2>7. CASE Verify
    BY <2>2, <2>7 DEF Verify, CreatedBut, At
  <2>8. CASE CreateFails
    BY <2>2, <2>8 DEF CreateFails, CreatedBut, At
  <2> QED BY <1>5, <2>3, <2>4, <2>5, <2>6, <2>7, <2>8
<1> QED BY <1>1, <1>2, <1>4, <1>5 DEF CreateStep

(* The operator begins a session, is told off, or puts an id on record;    *)
(* and what becomes of a session that is over.                             *)
Starts ==
  /\ session = NoSession /\ session' # NoSession /\ session'.stage = "next"
  /\ session'.kind = "run" => session'.todo = Manifest
  /\ session'.kind = "create" => session'.existing = InUse \/ Fails
  /\ before' = panel /\ byHand' = {} /\ UNCHANGED <<panel, nextId, recorded, purpose>>
  /\ \A p \in Paths : report'[p] = Says("none")
Declines ==
  /\ session = NoSession /\ session' = NoSession
  /\ before' = panel /\ byHand' = {} /\ UNCHANGED <<panel, nextId, recorded, purpose>>
  /\ \A p \in Paths : \E st \in {"options", "no", "none"} : report'[p] = Says(st)
Ends ==
  /\ session # NoSession /\ session' = NoSession
  /\ session.stage = "next" \/ Fails
  /\ UNCHANGED <<panel, nextId, recorded, before, byHand, purpose>>
  /\ report' = report \/ \A p \in Paths : report'[p] = Says("none")

LEMMA AroundIs ==
  ASSUME TypeOK, Operator \/ Return \/ CloseTab
  PROVE  /\ Starts \/ Declines \/ Ends \/ \E p \in Paths : Record(p)
         /\ session' = NoSession \/ Starts
<1>1. ASSUME Operator, ~\E p \in Paths : Record(p) PROVE Starts \/ Declines
  <2>1. ASSUME NEW items \in SUBSET Paths, CreateCannotBegin(items) PROVE Declines
    BY <2>1 DEF CreateCannotBegin, Declines
  <2>2. ASSUME NEW enable, NEW disable, RefuseRun(enable, disable) PROVE Declines
    BY <2>2 DEF RefuseRun, Declines
  <2>3. ASSUME NEW kind \in {"run", "create"}, NEW dry \in BOOLEAN,
               NEW wish, NEW existing, NEW todo,
               Begin(kind, dry, wish, existing, todo),
               kind = "run" => todo = Manifest, kind = "create" => existing = InUse \/ Fails
        PROVE  Starts
    <3>1. session'.kind \in {"run", "create"} /\ NoSession.kind = "none"
      BY <2>3 DEF Begin, NoSession
    <3>2. session' # NoSession
      BY <3>1
    <3> QED BY <2>3, <3>2 DEF Begin, Starts
  <2>4. ASSUME NEW items \in SUBSET Paths, NEW dry \in BOOLEAN, BeginCreate(dry, items)
        PROVE  Starts
    BY <2>3, <2>4 DEF BeginCreate
  <2>5. ASSUME NEW enable \in SUBSET Paths, NEW disable \in SUBSET Paths,
               NEW dry \in BOOLEAN, BeginRun(dry, enable, disable)
        PROVE  Starts
    BY <2>3, <2>5 DEF BeginRun
  <2> QED BY <1>1, <2>1, <2>2, <2>4, <2>5 DEF Operator, Declines
<1>2. CASE Return \/ CloseTab
  BY <1>2 DEF Return, CloseTab, Ends, history
<1>3. ASSUME NEW p \in Paths, Record(p) PROVE session' = NoSession
  BY <1>3 DEF Record
<1> QED BY <1>1, <1>2, <1>3 DEF Ends, Declines

LEMMA ByHandIs ==
  ASSUME TypeOK, NEW h \in Ids, ByHand(h)
  PROVE  /\ panel[h] # Absent /\ byHand' = byHand \cup {h}
         /\ \A i \in Ids \ {h} : panel'[i] = panel[i]
         /\ panel'[h] # Absent => panel'[h].name = panel[h].name
         /\ UNCHANGED <<nextId, recorded, session, report, failures, before, purpose>>
<1>1. PICK c \in { Absent,
                   [panel[h] EXCEPT !.enabled = ~@],
                   [panel[h] EXCEPT !.other = IF @ = "a" THEN "b" ELSE "a"] } :
        panel' = [panel EXCEPT ![h] = c]
  BY DEF ByHand
<1>2. panel[h] \in Command /\ panel'[h] = c
  BY <1>1 DEF ByHand, TypeOK
<1>3. c # Absent => c.name = panel[h].name
  BY <1>1, <1>2 DEF Command
<1> QED BY <1>1, <1>2, <1>3 DEF ByHand, TypeOK

-----------------------------------------------------------------------------
(* Each path has an id of its own, in the record as in the reports.        *)
LEMMA OwnRun == ASSUME TypeOK, OwnInv, RunStep PROVE OwnInv'
<1>1. /\ session' # NoSession /\ session'.kind = "run"
      /\ UNCHANGED <<nextId, recorded, before, byHand, purpose>>
      /\ nextId \in Nat /\ report \in [Paths -> Reports]
  BY RunStepIs, BoundsAssumption DEF TypeOK
<1>2. \A i \in Ids : panel[i] = Absent => panel'[i] = Absent
  <2>1. (DecidesOrReads \/ Posts \/ \E p \in Paths : TakesUp(p) \/ \E st : PassesOver(p, st))
    BY RunStepIs
  <2>2. panel' = panel \/ Writes
    BY <2>1 DEF DecidesOrReads, Posts, TakesUp, PassesOver
  <2> QED BY <2>2 DEF Writes, TypeOK
<1>3. \A p \in Paths : report'[p] = report[p] \/ report'[p].id = NoId
  <2>1. \/ report' = report
        \/ \E p, st : report' = [report EXCEPT ![p] = Says(st)]
    <3>1. ASSUME NEW p, NEW st, PassesOver(p, st) PROVE <2>1!2
      BY <3>1 DEF PassesOver
    <3>2. ASSUME NEW p, TakesUp(p) PROVE <2>1!1
      BY <3>2 DEF TakesUp
    <3>3. ASSUME NEW st, Tells(st) PROVE <2>1!2
      BY <3>3 DEF Tells
    <3>4. ASSUME NEW stage, Goes(stage) PROVE <2>1!1
      BY <3>4 DEF Goes
    <3>5. CASE DecidesOrReads \/ Posts
      BY <3>3, <3>4, <3>5 DEF DecidesOrReads, Posts
    <3> QED BY <3>1, <3>2, <3>5, RunStepIs
  <2> QED BY <1>1, <2>1, SaysFields
<1> QED BY <1>1, <1>2, <1>3 DEF OwnInv

LEMMA OwnCreate == ASSUME TypeOK, OwnInv, CreateStep PROVE OwnInv'
<1>1. /\ session # NoSession /\ session.kind = "create"
      /\ session' # NoSession /\ UNCHANGED <<recorded, before, byHand>>
      /\ session.stage # "next" => session.item \in Paths
      /\ session.stage \notin {"next", "new"} => session.id \in Ids
  BY CreateStepIs DEF TypeOK
<1>a. nextId \in Nat /\ nextId >= 1 /\ report \in [Paths -> Reports]
  BY BoundsAssumption DEF TypeOK
<1>b. \A p \in Paths : recorded[p] \in Ids \cup {NoId} /\ report[p].id \in Ids \cup {NoId}
  BY DEF TypeOK, Reports
<1>c. /\ panel \in [Ids -> Command \cup {Absent}]
      /\ purpose \in [Ids -> Paths \cup {NoPath}]
  BY DEF TypeOK
<1>2. ASSUME Made, session.stage = "new"
      PROVE  /\ nextId \in Ids /\ nextId' = nextId + 1
             /\ panel[nextId] = Absent /\ before[nextId] = Absent /\ purpose[nextId] = NoPath
             /\ purpose'[nextId] = session.item
             /\ \A i \in Ids \ {nextId} : panel'[i] = panel[i] /\ purpose'[i] = purpose[i]
  <2>1. nextId \in Ids /\ nextId >= nextId
    BY <1>a, <1>2, BoundsAssumption DEF Made, Ids
  <2>2. panel[nextId] = Absent /\ before[nextId] = Absent /\ purpose[nextId] = NoPath
    BY <2>1 DEF OwnInv
  <2> QED BY <1>c, <1>2, <2>1, <2>2 DEF Made
<1>3. ASSUME NEW p \in Paths, NEW i \in Ids, purpose[i] = p PROVE purpose'[i] = p
  <2>1. purpose'[i] = purpose[i] \/ (Made /\ session.stage = "new" /\ i = nextId)
    BY <1>2, CreateStepIs DEF LeavesOut, StartsOn, Makes, Turns, NotMade
  <2> QED BY <1>2, <1>3, <2>1, NoPathAssumption
<1>4. ASSUME NEW i \in Ids, i >= nextId'
      PROVE  panel'[i] = Absent /\ before'[i] = Absent /\ purpose'[i] = NoPath
  <2>1. CASE Makes
    <3>1. i \in Nat
      BY DEF Ids
    <3>2. CASE NotMade
      BY <1>1, <1>4, <2>1, <3>2 DEF NotMade, OwnInv
    <3>3. CASE Made
      <4>1. nextId' = nextId + 1 /\ i \in Ids \ {nextId} /\ i >= nextId
        <5>1. nextId' = nextId + 1
          BY <3>3 DEF Made
        <5> QED BY <1>4, <1>a, <3>1, <5>1
      <4> QED BY <1>1, <1>2, <2>1, <3>3, <4>1 DEF Makes, OwnInv
    <3> QED BY <2>1, <3>2, <3>3 DEF Makes
  <2>2. CASE Turns
    <3>1. panel' = panel \/ NamesIt
      BY <2>2 DEF Turns
    <3>2. panel[i] = Absent /\ before[i] = Absent /\ purpose[i] = NoPath
      BY <1>4, <2>2 DEF Turns, OwnInv
    <3> QED BY <1>1, <1>c, <2>2, <3>1, <3>2 DEF Turns, NamesIt
  <2>3. CASE ~Makes /\ ~Turns
    BY <1>1, <1>4, <2>3, CreateStepIs DEF LeavesOut, StartsOn, OwnInv
  <2> QED BY <2>1, <2>2, <2>3
<1>5. ASSUME NEW p \in Paths, recorded'[p] # NoId PROVE purpose'[recorded'[p]] = p
  BY <1>1, <1>3, <1>5, <1>b DEF OwnInv
<1>6. ASSUME NEW p \in Paths, report'[p].id # NoId
      PROVE  /\ purpose'[report'[p].id] = p
             /\ report'[p].status \in {"created-disabled", "created but"}
  <2>1. CASE report'[p] = report[p]
    <3>1. report[p].id \in Ids /\ report[p].id # NoId
      BY <1>6, <1>b, <2>1
    <3>2. /\ purpose[report[p].id] = p
          /\ report[p].status \in {"created-disabled", "created but"}
      BY <3>1 DEF OwnInv
    <3> QED BY <1>3, <2>1, <3>1, <3>2
  <2>2. CASE report'[p] # report[p]
    <3>1. \/ \E q, st : report' = [report EXCEPT ![q] = Says(st)]
          \/ /\ Turns
             /\ \E st \in {"created-disabled", "created but"} :
                  report' = [report EXCEPT ![session.item] = SaysOf(st, session.id)]
      <4>1. ASSUME NEW q, NEW st, LeavesOut(q, st) PROVE <3>1!1
        BY <4>1 DEF LeavesOut
      <4>2. ASSUME NEW q, StartsOn(q) PROVE FALSE
        BY <2>2, <4>2 DEF StartsOn
      <4>3. CASE Makes
        BY <2>2, <4>3 DEF Makes
      <4>4. CASE Turns
        BY <2>2, <4>4 DEF Turns
      <4> QED BY <4>1, <4>2, <4>3, <4>4, CreateStepIs
    <3>2. CASE \E q, st : report' = [report EXCEPT ![q] = Says(st)]
      <4>1. PICK q, st : report' = [report EXCEPT ![q] = Says(st)]
        BY <3>2
      <4>2. report'[p] = Says(st)
        BY <1>a, <2>2, <4>1
      <4> QED BY <1>6, <4>2, SaysFields
    <3>3. CASE /\ Turns
               /\ \E st \in {"created-disabled", "created but"} :
                    report' = [report EXCEPT ![session.item] = SaysOf(st, session.id)]
      <4>1. p = session.item /\ session.stage \notin {"next", "new"}
        BY <1>a, <2>2, <3>3 DEF Turns
      <4>2. purpose[session.id] = p /\ session.id \in Ids
        BY <1>1, <4>1 DEF OwnInv
      <4>3. /\ report'[p].id = session.id
            /\ report'[p].status \in {"created-disabled", "created but"}
        <5>1. PICK st \in {"created-disabled", "created but"} :
                report' = [report EXCEPT ![p] = SaysOf(st, session.id)]
          BY <3>3, <4>1
        <5>2. report'[p] = SaysOf(st, session.id)
          BY <1>a, <5>1
        <5>3. SaysOf(st, session.id).status = st /\ SaysOf(st, session.id).id = session.id
          BY DEF SaysOf
        <5> QED BY <5>2, <5>3
      <4> QED BY <1>3, <4>2, <4>3
    <3> QED BY <3>1, <3>2, <3>3
  <2> QED BY <2>1, <2>2
<1>7. ASSUME session'.stage \notin {"next", "new"}
      PROVE  purpose'[session'.id] = session'.item /\ before'[session'.id] = Absent
  <2>1. CASE Makes
    BY <1>1, <1>2, <1>7, <2>1 DEF Makes
  <2>2. CASE Turns
    BY <1>1, <1>7, <2>2 DEF Turns, OwnInv
  <2>3. CASE ~Makes /\ ~Turns
    BY <1>7, <2>3, CreateStepIs DEF LeavesOut, StartsOn
  <2> QED BY <2>1, <2>2, <2>3
<1> QED BY <1>4, <1>5, <1>6, <1>7 DEF OwnInv

LEMMA OwnStep == TypeOK /\ OwnInv /\ [Next]_vars => OwnInv'
<1> SUFFICES ASSUME TypeOK, OwnInv, [Next]_vars PROVE OwnInv'
  OBVIOUS
<1>1. CASE Starts \/ Declines \/ Ends
  <2>1. UNCHANGED <<panel, nextId, recorded, purpose>> /\ before' \in {before, panel}
    BY <1>1 DEF Starts, Declines, Ends
  <2>2. \A p \in Paths : report'[p] = report[p] \/ report'[p].id = NoId
    BY <1>1, SaysFields DEF Starts, Declines, Ends
  <2>3. session' # NoSession => session'.stage = "next"
    BY <1>1 DEF Starts, Declines, Ends
  <2> QED BY <2>1, <2>2, <2>3 DEF OwnInv
<1>2. ASSUME NEW p \in Paths, Record(p) PROVE OwnInv'
  BY <1>2 DEF Record, OwnInv, TypeOK, history
<1>3. ASSUME NEW h \in Ids, ByHand(h) PROVE OwnInv'
  <2>1. /\ \A i \in Ids : panel[i] = Absent => panel'[i] = Absent
        /\ UNCHANGED <<nextId, recorded, session, report, before, purpose>>
    BY <1>3, ByHandIs
  <2> QED BY <2>1 DEF OwnInv
<1>4. CASE UNCHANGED vars
  BY <1>4 DEF vars, OwnInv
<1> QED BY <1>1, <1>2, <1>3, <1>4, OwnRun, OwnCreate, AroundIs DEF Next, SessionStep

LEMMA OneId ==
  ASSUME OwnInv, NEW p \in Paths, NEW q \in Paths, recorded[p] # NoId,
         recorded[p] = recorded[q]
  PROVE  p = q
  BY DEF OwnInv

(* A step of run writes the command of its item only, and with the fields  *)
(* no header manages as the form had them.                                 *)
LEMMA RunWrites ==
  ASSUME TypeOK, OwnInv, ToWriteInv, RunStep, NEW i \in Ids, panel'[i] # panel[i]
  PROVE  /\ Posts /\ session.item \in Paths /\ session.item \notin session.todo
         /\ i = session.id /\ i = recorded[session.item]
         /\ session.form \in Command /\ session.wish[session.item] \in Wishes
         /\ panel'[i] = Applied(session.item, session.wish[session.item], session.form)
         /\ i \in byHand \/ (session.form = before[i] /\ panel[i] = before[i])
<1>1. Posts /\ Writes /\ session # NoSession /\ session.kind = "run"
  <2>1. ~DecidesOrReads /\ (\A p \in Paths : ~TakesUp(p) /\ \A st : ~PassesOver(p, st))
    BY DEF DecidesOrReads, TakesUp, PassesOver
  <2>2. Posts
    BY <2>1, RunStepIs
  <2> QED BY <2>2, RunStepIs DEF Posts
<1>2. /\ session.item \in Paths /\ session.form \in Command
      /\ session.wish[session.item] \in Wishes /\ session.id \in Ids
  <2>1. At("run", "post") /\ "post" \in Stages \ {"next"}
    BY <1>1 DEF Posts, At, Stages
  <2> QED BY <2>1, InItem
<1>3. i = session.id
      /\ panel'[i] = Applied(session.item, session.wish[session.item], session.form)
  BY <1>1, <1>2 DEF Writes, TypeOK
<1>4. session.stage = "post"
  BY <1>1 DEF Posts
<1> QED BY <1>1, <1>2, <1>3, <1>4 DEF ToWriteInv

LEMMA RunToWrite == ASSUME TypeOK, OwnInv, ToWriteInv, RunStep PROVE ToWriteInv'
<1>1. /\ session # NoSession /\ session.kind = "run" /\ session \in Sessions
      /\ UNCHANGED <<nextId, recorded, before, byHand, purpose>>
      /\ report \in [Paths -> Reports]
  BY RunStepIs DEF TypeOK
<1>2. \A p \in session.todo : p \in Paths /\ recorded[p] \in Ids /\ recorded[p] # NoId
  BY <1>1 DEF TypeOK, Sessions
<1>3. ASSUME NEW p \in session.todo
      PROVE  recorded[p] \in byHand \/ panel'[recorded[p]] = before[recorded[p]]
  <2>1. recorded[p] \in byHand \/ panel[recorded[p]] = before[recorded[p]]
    BY <1>1 DEF ToWriteInv
  <2>2. CASE panel'[recorded[p]] # panel[recorded[p]]
    <3>1. /\ session.item \in Paths /\ session.item \notin session.todo
          /\ recorded[p] = recorded[session.item]
      BY <1>2, <2>2, RunWrites
    <3> QED BY <1>2, <3>1, OneId
  <2> QED BY <2>1, <2>2
<1>4. session'.todo \subseteq session.todo
  BY RunStepIs DEF TakesUp, PassesOver
<1>8. ASSUME NEW p \in session'.todo PROVE report'[p].status = "none"
  <2>1. p \in session.todo /\ p \in Paths /\ report[p].status = "none"
    BY <1>1, <1>2, <1>4, <1>8 DEF ToWriteInv
  <2>2. CASE (DecidesOrReads \/ Posts) /\ session'.todo = session.todo
    <3>1. session.item # p
      BY <1>1, <2>1, <2>2 DEF ToWriteInv, DecidesOrReads, Posts
    <3>2. report' = report \/ \E st : report' = [report EXCEPT ![session.item] = Says(st)]
      BY <2>2 DEF DecidesOrReads, Posts, Goes, Tells
    <3> QED BY <1>1, <2>1, <3>1, <3>2
  <2>3. ASSUME NEW q \in Paths, TakesUp(q) PROVE report'[p].status = "none"
    BY <2>1, <2>3 DEF TakesUp
  <2>4. ASSUME NEW q \in Paths, NEW st \in NotWritten, PassesOver(q, st)
        PROVE  report'[p].status = "none"
    BY <1>1, <1>8, <2>1, <2>4 DEF PassesOver
  <2> QED BY <2>2, <2>3, <2>4, RunStepIs
<1>9. ASSUME session'.stage # "next" PROVE report'[session'.item].status = "none"
  <2>1. CASE (DecidesOrReads \/ Posts) /\ session'.todo = session.todo
    <3>1. session.stage # "next" /\ session'.item = session.item /\ report' = report
      BY <1>9, <2>1 DEF DecidesOrReads, Posts, Goes, Tells
    <3> QED BY <1>1, <3>1 DEF ToWriteInv
  <2>2. CASE \E q \in Paths : TakesUp(q)
    BY <1>1, <2>2 DEF TakesUp, ToWriteInv
  <2>3. CASE \E q \in Paths, st \in NotWritten : PassesOver(q, st)
    BY <1>9, <2>3 DEF PassesOver
  <2> QED BY <2>1, <2>2, <2>3, RunStepIs
<1>5. ASSUME NEW p \in Paths PROVE report'[p].id = NoId
  <2>1. \A q \in Paths : report[q].id = NoId
    BY <1>1 DEF ToWriteInv
  <2>2. report' = report \/ \E q, st : report' = [report EXCEPT ![q] = Says(st)]
    <3>1. CASE DecidesOrReads \/ Posts
      BY <3>1 DEF DecidesOrReads, Posts, Goes, Tells
    <3>2. CASE \E q \in Paths : TakesUp(q) \/ \E st \in NotWritten : PassesOver(q, st)
      BY <3>2 DEF TakesUp, PassesOver
    <3> QED BY <3>1, <3>2, RunStepIs
  <2>3. report'[p] = report[p] \/ \E st : report'[p] = Says(st)
    BY <1>1, <2>2
  <2> QED BY <2>1, <2>3, SaysFields
<1>6. ASSUME session'.stage # "next"
      PROVE  session'.item \notin session'.todo /\ session'.id = recorded[session'.item]
  <2>1. CASE (DecidesOrReads \/ Posts) /\ session'.todo = session.todo
    <3>1. session.stage # "next" /\ session'.item = session.item /\ session'.id = session.id
      BY <1>6, <2>1 DEF DecidesOrReads, Posts, Goes, Tells
    <3> QED BY <1>1, <2>1, <3>1 DEF ToWriteInv
  <2>2. CASE \E q \in Paths : TakesUp(q)
    BY <2>2 DEF TakesUp
  <2>3. CASE \E q \in Paths, st \in NotWritten : PassesOver(q, st)
    BY <1>6, <2>3 DEF PassesOver
  <2> QED BY <2>1, <2>2, <2>3, RunStepIs
<1>7. ASSUME session'.stage \in {"decide", "post"}
      PROVE  \/ session'.id \in byHand
             \/ session'.form = before[session'.id] /\ panel'[session'.id] = before[session'.id]
  <2>1. CASE DecidesOrReads \/ Posts
    <3>1. /\ session.stage = "decide" /\ session'.id = session.id
          /\ session'.form = session.form /\ panel' = panel
      BY <1>7, <2>1 DEF DecidesOrReads, Posts, Goes, Tells
    <3> QED BY <1>1, <3>1 DEF ToWriteInv
  <2>2. ASSUME NEW q \in Paths, TakesUp(q) PROVE <1>7!2
    <3>1. /\ session'.id = recorded[q] /\ session'.form = panel[recorded[q]]
          /\ panel' = panel /\ q \in session.todo
      BY <2>2 DEF TakesUp
    <3> QED BY <1>1, <3>1 DEF ToWriteInv
  <2>3. CASE \E q \in Paths, st \in NotWritten : PassesOver(q, st)
    BY <1>7, <2>3 DEF PassesOver
  <2> QED BY <2>1, <2>2, <2>3, RunStepIs
<1> QED BY <1>1, <1>3, <1>4, <1>5, <1>6, <1>7, <1>8, <1>9 DEF ToWriteInv

LEMMA RunIsTrue ==
  ASSUME TypeOK, OwnInv, ToWriteInv, ReportsAreTrue, RunStep
  PROVE  ReportsAreTrue'
<1>1. /\ session # NoSession /\ session.kind = "run"
      /\ UNCHANGED <<nextId, recorded, before, byHand, purpose>>
      /\ report \in [Paths -> Reports]
      /\ session.stage # "next" => session.item \in Paths
  BY RunStepIs DEF TypeOK
<1> SUFFICES ASSUME NEW p \in Paths, recorded[p] # NoId, recorded[p] \notin byHand
             PROVE  /\ report'[p].status \in {"same", "updated"} =>
                         Deployed(p, panel'[recorded[p]])
                    /\ report'[p].status \in NotWritten =>
                         panel'[recorded[p]] = before[recorded[p]]
  BY <1>1 DEF ReportsAreTrue, Deployed
<1> DEFINE i == recorded[p]
<1>2. i \in Ids
  BY DEF TypeOK
<1>3. CASE \E st \in NotWritten : PassesOver(p, st)
  <2>1. PICK st \in NotWritten : PassesOver(p, st)
    BY <1>3
  <2>2. report'[p] = Says(st) /\ panel' = panel /\ st # "same" /\ p \in session.todo
    BY <1>1, <2>1 DEF PassesOver
  <2>3. report'[p].status = st /\ st \notin {"same", "updated"}
    BY <2>1, <2>2 DEF Says, NotWritten
  <2> QED BY <1>1, <2>2, <2>3 DEF ToWriteInv
<1>4. CASE (DecidesOrReads \/ Posts) /\ p = session.item /\ session'.stage = "next"
  <2>1. session.stage # "next" /\ i = session.id
    BY <1>1, <1>4 DEF DecidesOrReads, Posts, ToWriteInv
  <2>2. CASE Posts
    <3>1. Tells("posted")
      BY <1>4, <2>2 DEF Posts, Goes
    <3>2. report'[p] = Says("posted")
      BY <1>1, <1>4, <2>1, <3>1 DEF Tells
    <3>3. report'[p].status = "posted"
      BY <3>2 DEF Says
    <3> QED BY <3>3 DEF NotWritten
  <2>3. CASE DecidesOrReads /\ session.stage = "decide"
    <3>1. PICK st \in NotWritten : Tells(st) /\ (st = "same" => Deployed(p, session.form))
      BY <1>4, <2>3 DEF DecidesOrReads, Goes
    <3>2. report'[p] = Says(st)
      BY <1>1, <1>4, <2>1, <3>1 DEF Tells
    <3>3. report'[p].status = st /\ st # "updated"
      BY <3>1, <3>2 DEF Says, NotWritten
    <3>4. panel' = panel /\ session.form = before[i] /\ panel[i] = before[i]
      BY <1>1, <2>1, <2>3 DEF DecidesOrReads, ToWriteInv
    <3> QED BY <3>1, <3>3, <3>4
  <2>4. CASE DecidesOrReads /\ session.stage # "decide"
    <3>1. PICK st \in Written : Tells(st) /\ (st = "updated" => Deployed(p, panel[i]))
      BY <1>4, <2>1, <2>4 DEF DecidesOrReads, Goes
    <3>2. report'[p] = Says(st) /\ panel' = panel
      BY <1>1, <1>4, <2>1, <2>4, <3>1 DEF Tells, DecidesOrReads
    <3>3. report'[p].status = st /\ st \notin NotWritten \cup {"same"}
      BY <3>1, <3>2 DEF Says, NotWritten, Written
    <3> QED BY <3>1, <3>2, <3>3
  <2> QED BY <1>4, <2>2, <2>3, <2>4
<1>5. CASE /\ ~\E st \in NotWritten : PassesOver(p, st)
           /\ ~((DecidesOrReads \/ Posts) /\ p = session.item /\ session'.stage = "next")
  <2>1. report'[p] = report[p]
    <3>1. ASSUME NEW q \in Paths, NEW st \in NotWritten, PassesOver(q, st)
          PROVE  report'[p] = report[p]
      BY <1>1, <1>5, <3>1 DEF PassesOver
    <3>2. ASSUME NEW q \in Paths, TakesUp(q) PROVE report'[p] = report[p]
      BY <3>2 DEF TakesUp
    <3>3. CASE DecidesOrReads \/ Posts
      <4>1. report' = report \/ (session'.stage = "next"
               /\ \E st : report' = [report EXCEPT ![session.item] = Says(st)])
        BY <3>3 DEF DecidesOrReads, Posts, Goes, Tells
      <4> QED BY <1>1, <1>5, <3>3, <4>1
    <3> QED BY <3>1, <3>2, <3>3, RunStepIs
  <2>2. CASE panel'[i] = panel[i]
    BY <1>2, <2>1, <2>2 DEF ReportsAreTrue
  <2>3. CASE panel'[i] # panel[i]
    <3>1. Posts /\ session.item \in Paths /\ i = recorded[session.item]
      BY <1>2, <2>3, RunWrites
    <3>2. p = session.item /\ session.stage = "post"
      BY <3>1, OneId DEF Posts
    <3>3. report'[p].status = "none"
      BY <1>1, <2>1, <3>2 DEF ToWriteInv
    <3> QED BY <3>3 DEF NotWritten
  <2> QED BY <2>2, <2>3
<1> QED BY <1>3, <1>4, <1>5

LEMMA RunKeepsTheRest ==
  ASSUME TypeOK, OwnInv, ToWriteInv, KeepsTheRest, RunStep
  PROVE  KeepsTheRest'
<1>1. /\ session # NoSession /\ session' # NoSession /\ session'.wish = session.wish
      /\ UNCHANGED <<recorded, before, byHand>>
  BY RunStepIs
<1> SUFFICES ASSUME NEW i \in Ids \ byHand, before[i] # Absent
             PROVE  /\ panel'[i] # Absent /\ panel'[i].other = before[i].other
                    /\ panel'[i].enabled # before[i].enabled =>
                         \E p \in Paths : recorded[p] = i /\ session.wish[p] # "leave"
  BY <1>1 DEF KeepsTheRest
<1>2. CASE panel'[i] = panel[i]
  BY <1>1, <1>2 DEF KeepsTheRest
<1>3. CASE panel'[i] # panel[i]
  <2>1. /\ session.item \in Paths /\ i = recorded[session.item]
        /\ session.form \in Command /\ session.wish[session.item] \in Wishes
        /\ panel'[i] = Applied(session.item, session.wish[session.item], session.form)
        /\ session.form = before[i]
    BY <1>3, RunWrites
  <2> QED BY <2>1, AppliedFields
<1> QED BY <1>2, <1>3

(* Create writes the command it has made, of an id that was nobody's.      *)
LEMMA CreateWrites ==
  ASSUME TypeOK, OwnInv, CreateStep, NEW i \in Ids, panel'[i] # panel[i]
  PROVE  before[i] = Absent
<1>1. \/ session.stage = "new" /\ Made
      \/ NamesIt
  <2>1. CASE Makes
    BY <2>1 DEF Makes, NotMade
  <2>2. CASE Turns
    BY <2>2 DEF Turns
  <2>3. CASE ~Makes /\ ~Turns
    BY <2>3, CreateStepIs DEF LeavesOut, StartsOn
  <2> QED BY <2>1, <2>2, <2>3
<1>2. CASE session.stage = "new" /\ Made
  <2>1. i = nextId /\ nextId \in Nat
    BY <1>2, BoundsAssumption DEF Made, TypeOK
  <2>2. i >= nextId
    BY <2>1
  <2> QED BY <2>2 DEF OwnInv
<1>3. CASE NamesIt
  <2>1. i = session.id /\ session.stage = "disable"
    BY <1>3 DEF NamesIt, TypeOK
  <2>2. session # NoSession /\ session.kind = "create"
    BY CreateStepIs
  <2> QED BY <2>1, <2>2 DEF OwnInv
<1> QED BY <1>1, <1>2, <1>3

LEMMA CreateKeeps ==
  ASSUME TypeOK, OwnInv, LeftAloneInv, CreateStep
  PROVE  LeftAloneInv' /\ ToWriteInv' /\ ReportsAreTrue' /\ KeepsTheRest'
<1>1. /\ session # NoSession /\ session.kind = "create"
      /\ session' # NoSession /\ session'.kind = "create"
      /\ UNCHANGED <<recorded, before, byHand>>
  BY CreateStepIs
<1>2. report \in [Paths -> Reports]
  BY DEF TypeOK
<1>3. ASSUME NEW p \in Paths
      PROVE  report'[p].status \notin {"same", "updated"} \cup NotWritten
  <2>1. report[p].status \notin {"same", "updated"} \cup NotWritten
    BY <1>1 DEF LeftAloneInv
  <2>2. \/ report' = report
        \/ \E q, st : /\ st \in NotCreated \cup {"may exist"}
                      /\ report' = [report EXCEPT ![q] = Says(st)]
        \/ \E st \in {"created-disabled", "created but"} :
             report' = [report EXCEPT ![session.item] = SaysOf(st, session.id)]
    <3>1. CASE Makes
      BY <3>1 DEF Makes
    <3>2. CASE Turns
      BY <3>2 DEF Turns
    <3>3. ASSUME NEW q, StartsOn(q) PROVE report' = report
      BY <3>3 DEF StartsOn
    <3>4. ASSUME NEW q, NEW st, LeavesOut(q, st) PROVE <2>2!2
      BY <3>4 DEF LeavesOut
    <3> QED BY <3>1, <3>2, <3>3, <3>4, CreateStepIs
  <2>3. \/ report'[p] = report[p]
        \/ \E st \in NotCreated \cup {"may exist"} : report'[p] = Says(st)
        \/ \E st \in {"created-disabled", "created but"} : report'[p] = SaysOf(st, session.id)
    BY <1>2, <2>2
  <2>4. ASSUME NEW st \in NotCreated \cup {"may exist"}, report'[p] = Says(st)
        PROVE  report'[p].status \notin {"same", "updated"} \cup NotWritten
    <3>1. report'[p].status = st
      BY <2>4, SaysFields
    <3> QED BY <3>1 DEF NotCreated, NotWritten
  <2>5. ASSUME NEW st \in {"created-disabled", "created but"},
               report'[p] = SaysOf(st, session.id)
        PROVE  report'[p].status \notin {"same", "updated"} \cup NotWritten
    <3>1. SaysOf(st, session.id).status = st
      BY DEF SaysOf
    <3> QED BY <2>5, <3>1 DEF NotWritten
  <2> QED BY <2>1, <2>3, <2>4, <2>5
<1>4. ASSUME NEW i \in Ids \ byHand, before[i] # Absent PROVE panel'[i] = before[i]
  <2>1. panel[i] = before[i]
    BY <1>1, <1>4 DEF LeftAloneInv
  <2> QED BY <1>4, <2>1, CreateWrites
<1>5. LeftAloneInv'
  BY <1>1, <1>3, <1>4 DEF LeftAloneInv
<1>6. ToWriteInv'
  BY <1>1 DEF ToWriteInv
<1>7. ReportsAreTrue'
  BY <1>3 DEF ReportsAreTrue
<1>8. KeepsTheRest'
  BY <1>1, <1>4 DEF KeepsTheRest
<1> QED BY <1>5, <1>6, <1>7, <1>8

WriteInv == OwnInv /\ ToWriteInv /\ LeftAloneInv /\ ReportsAreTrue /\ KeepsTheRest

LEMMA AroundKeeps ==
  ASSUME TypeOK, WriteInv, Operator \/ Return \/ CloseTab \/ UNCHANGED vars
  PROVE  ToWriteInv' /\ LeftAloneInv' /\ ReportsAreTrue' /\ KeepsTheRest'
<1>1. CASE Starts
  <2>1. /\ session' # NoSession /\ session'.stage = "next"
        /\ session'.kind = "run" => session'.todo = Manifest
        /\ before' = panel /\ byHand' = {} /\ UNCHANGED <<panel, recorded>>
    BY <1>1 DEF Starts
  <2>2. \A p \in Paths : report'[p].id = NoId /\ report'[p].status = "none"
    BY <1>1, SaysFields DEF Starts
  <2>3. Manifest \subseteq Paths
    BY DEF Manifest
  <2>4. ToWriteInv'
    BY <2>1, <2>2, <2>3 DEF ToWriteInv
  <2>5. LeftAloneInv' /\ ReportsAreTrue'
    BY <2>1, <2>2 DEF LeftAloneInv, ReportsAreTrue, NotWritten
  <2>6. KeepsTheRest'
    BY <2>1 DEF KeepsTheRest
  <2> QED BY <2>4, <2>5, <2>6
<1>2. CASE Declines
  <2>1. /\ session' = NoSession /\ before' = panel /\ UNCHANGED <<panel, recorded>>
    BY <1>2 DEF Declines
  <2>2. ASSUME NEW p \in Paths
        PROVE  report'[p].id = NoId /\ report'[p].status \in {"options", "no", "none"}
    <3>1. PICK st \in {"options", "no", "none"} : report'[p] = Says(st)
      BY <1>2 DEF Declines
    <3>2. Says(st).id = NoId /\ Says(st).status = st
      BY SaysFields
    <3> QED BY <3>1, <3>2
  <2>3. ToWriteInv' /\ LeftAloneInv'
    BY <2>1, <2>2 DEF ToWriteInv, LeftAloneInv
  <2>4. ReportsAreTrue'
    BY <2>1, <2>2 DEF ReportsAreTrue
  <2>5. KeepsTheRest'
    BY <2>1 DEF KeepsTheRest
  <2> QED BY <2>3, <2>4, <2>5
<1>3. CASE Ends
  <2>1. /\ session # NoSession /\ session' = NoSession
        /\ UNCHANGED <<panel, recorded, before, byHand>>
    BY <1>3 DEF Ends
  <2>2. report' = report \/ \A p \in Paths : report'[p].id = NoId /\ report'[p].status = "none"
    BY <1>3, SaysFields DEF Ends
  <2>3. ToWriteInv' /\ LeftAloneInv'
    BY <2>1, <2>2 DEF ToWriteInv, LeftAloneInv, WriteInv
  <2>4. ReportsAreTrue'
    BY <2>1, <2>2 DEF ReportsAreTrue, WriteInv, NotWritten, Deployed
  <2>5. KeepsTheRest'
    BY <2>1 DEF KeepsTheRest, WriteInv
  <2> QED BY <2>3, <2>4, <2>5
<1>4. ASSUME NEW p \in Paths, Record(p)
      PROVE  ToWriteInv' /\ LeftAloneInv' /\ ReportsAreTrue' /\ KeepsTheRest'
  <2>1. /\ session = NoSession /\ session' = NoSession /\ report[p].id # NoId
        /\ recorded' = [recorded EXCEPT ![p] = report[p].id]
        /\ UNCHANGED <<panel, report, before, byHand>>
    BY <1>4 DEF Record, history
  <2>2. \A q \in Paths \ {p} : recorded'[q] = recorded[q]
    BY <2>1 DEF TypeOK
  <2>3. report[p].status \in {"created-disabled", "created but"}
    BY <2>1 DEF WriteInv, OwnInv
  <2>4. \A i \in Ids \ byHand : before[i] # Absent => panel[i] = before[i]
    BY <2>1 DEF WriteInv, LeftAloneInv
  <2>5. ToWriteInv' /\ LeftAloneInv'
    BY <2>1, <2>4 DEF ToWriteInv, LeftAloneInv
  <2>6. ReportsAreTrue'
    <3>1. ASSUME NEW q \in Paths \ {p}, recorded'[q] # NoId, recorded'[q] \notin byHand'
          PROVE  LET i == recorded'[q]
                 IN  /\ report'[q].status \in {"same", "updated"} => Deployed(q, panel'[i])
                     /\ report'[q].status \in NotWritten => panel'[i] = before'[i]
      BY <2>1, <2>2, <3>1 DEF ReportsAreTrue, WriteInv
    <3>2. report'[p].status \notin {"same", "updated"} \cup NotWritten
      BY <2>1, <2>3 DEF NotWritten
    <3> QED BY <3>1, <3>2 DEF ReportsAreTrue, Deployed
  <2>7. KeepsTheRest'
    BY <2>1, <2>4 DEF KeepsTheRest
  <2> QED BY <2>5, <2>6, <2>7
<1>5. CASE UNCHANGED vars
  BY <1>5 DEF vars, WriteInv, ToWriteInv, LeftAloneInv, ReportsAreTrue, KeepsTheRest, Deployed
<1> QED BY <1>1, <1>2, <1>3, <1>4, <1>5, AroundIs

LEMMA ByHandKeeps ==
  ASSUME TypeOK, WriteInv, NEW h \in Ids, ByHand(h)
  PROVE  ToWriteInv' /\ LeftAloneInv' /\ ReportsAreTrue' /\ KeepsTheRest'
<1>1. /\ byHand' = byHand \cup {h} /\ \A i \in Ids \ {h} : panel'[i] = panel[i]
      /\ UNCHANGED <<recorded, session, report, before>>
  BY ByHandIs
<1>2. \A p \in Paths : recorded[p] # NoId => recorded[p] \in Ids
  BY DEF TypeOK
<1>3. ToWriteInv'
  <2>1. session # NoSession /\ session.kind = "run" =>
          /\ \A p \in session.todo : p \in Paths /\ recorded[p] \in Ids
          /\ session.stage \in {"decide", "post"} => session.id \in Ids
    BY DEF TypeOK, Sessions
  <2> QED BY <1>1, <2>1 DEF WriteInv, ToWriteInv
<1>4. LeftAloneInv'
  BY <1>1 DEF WriteInv, LeftAloneInv
<1>5. ReportsAreTrue'
  BY <1>1, <1>2 DEF WriteInv, ReportsAreTrue, Deployed
<1>6. KeepsTheRest'
  BY <1>1 DEF WriteInv, KeepsTheRest
<1> QED BY <1>3, <1>4, <1>5, <1>6

LEMMA WriteStep == TypeOK /\ WriteInv /\ [Next]_vars => WriteInv'
<1> SUFFICES ASSUME TypeOK, WriteInv, [Next]_vars PROVE WriteInv'
  OBVIOUS
<1>0. OwnInv'
  BY OwnStep DEF WriteInv
<1>1. CASE RunStep
  <2>1. ToWriteInv' /\ ReportsAreTrue' /\ KeepsTheRest'
    BY <1>1, RunToWrite, RunIsTrue, RunKeepsTheRest DEF WriteInv
  <2>2. session' # NoSession /\ session'.kind = "run"
    BY <1>1, RunStepIs
  <2>3. LeftAloneInv'
    BY <2>1, <2>2 DEF LeftAloneInv, ToWriteInv
  <2> QED BY <1>0, <2>1, <2>3 DEF WriteInv
<1>2. CASE CreateStep
  BY <1>0, <1>2, CreateKeeps DEF WriteInv
<1> QED BY <1>0, <1>1, <1>2, AroundKeeps, ByHandKeeps DEF WriteInv, Next, SessionStep

LEMMA OwnInit == Init => OwnInv
<1> SUFFICES ASSUME Init PROVE OwnInv
  OBVIOUS
<1>1. PICK installed \in SUBSET Paths, number \in [Paths -> Ids], first \in 1 .. MaxId + 1,
           code \in {"old", "new", "several"}, structure \in {"old", "new"} :
        /\ \A p, q \in installed : number[p] = number[q] => p = q
        /\ \A p \in installed : number[p] < first
        /\ \A p \in Paths \ installed : number[p] = 1
        /\ panel = [i \in Ids |->
             IF \E p \in installed : number[p] = i
             THEN [name |-> CHOOSE p \in installed : number[p] = i,
                   code |-> code, structure |-> structure,
                   other |-> "b", enabled |-> TRUE]
             ELSE Absent]
        /\ recorded = [p \in Paths |-> IF p \in installed THEN number[p] ELSE NoId]
        /\ purpose = [i \in Ids |->
             IF \E p \in installed : number[p] = i
             THEN CHOOSE p \in installed : number[p] = i ELSE NoPath]
        /\ nextId = first
  BY Zenon DEF Init
<1>2. before = panel /\ session = NoSession /\ \A p \in Paths : report[p] = Says("none")
  BY DEF Init
<1>3. ASSUME NEW i \in Ids, i >= nextId
      PROVE  panel[i] = Absent /\ before[i] = Absent /\ purpose[i] = NoPath
  <2>1. ~\E p \in installed : number[p] = i
    <3>1. ASSUME NEW p \in installed PROVE number[p] \in Nat /\ number[p] < first
      <4>1. number[p] \in Ids
        OBVIOUS
      <4> QED BY <1>1, <4>1 DEF Ids
    <3>2. first \in Nat /\ i \in Nat /\ i >= first
      BY <1>1, <1>3, BoundsAssumption DEF Ids
    <3> QED BY <3>1, <3>2
  <2> QED BY <1>1, <1>2, <2>1
<1>4. ASSUME NEW p \in Paths, recorded[p] # NoId PROVE purpose[recorded[p]] = p
  <2>1. p \in installed /\ recorded[p] = number[p] /\ number[p] \in Ids
    BY <1>1, <1>4
  <2>2. (CHOOSE q \in installed : number[q] = number[p]) = p
    <3>1. \A q \in installed : number[q] = number[p] => q = p
      BY <1>1, <2>1
    <3> QED BY <2>1, <3>1
  <2>3. \E q \in installed : number[q] = number[p]
    BY <2>1
  <2> QED BY <1>1, <2>1, <2>2, <2>3
<1>5. \A p \in Paths : report[p].id = NoId
  BY <1>2, SaysFields
<1> QED BY <1>2, <1>3, <1>4, <1>5 DEF OwnInv

LEMMA WriteInit == Init => WriteInv
<1> SUFFICES ASSUME Init PROVE WriteInv
  OBVIOUS
<1>1. before = panel /\ session = NoSession /\ \A p \in Paths : report[p] = Says("none")
  BY DEF Init
<1>2. \A p \in Paths : report[p].id = NoId /\ report[p].status = "none"
  BY <1>1, SaysFields
<1> QED BY <1>1, <1>2, OwnInit
      DEF WriteInv, ToWriteInv, LeftAloneInv, ReportsAreTrue, KeepsTheRest, NotWritten

(* What a report says of a command nobody changed by hand meanwhile is so, *)
(* whichever requests failed and whatever was carried out unanswered.      *)
THEOREM ReportsSpeakTrue == Spec => []ReportsAreTrue
<1>1. WriteInv => ReportsAreTrue
  BY DEF WriteInv
<1> QED BY <1>1, TypeCorrect, WriteInit, WriteStep, PTL DEF Spec

(* A session leaves the fields no header manages as they were, and whether *)
(* a command is enabled but where the operator said otherwise.             *)
THEOREM TheRestIsKept == Spec => []KeepsTheRest
<1>1. WriteInv => KeepsTheRest
  BY DEF WriteInv
<1> QED BY <1>1, TypeCorrect, WriteInit, WriteStep, PTL DEF Spec

-----------------------------------------------------------------------------
(* While no request has failed, no path has two commands.                  *)


LEMMA NamedFields ==
  ASSUME NEW form \in Command, session.item \in Paths
  PROVE  Named(form) # Absent /\ Named(form).name = session.item
<1>1. Named(form) # Absent
  BY NamedIsCommand, CommandIsThere
<1> QED BY <1>1 DEF Named, Command

LEMMA NameInUse ==
  ASSUME NEW i \in Ids, NEW p \in Paths, panel[i].name = p
  PROVE  p \in InUse
  BY DEF InUse

LEMMA RunNames ==
  ASSUME TypeOK, OwnInv, ToWriteInv, NamesInv, NoDuplicatesYet, RunStep, failures' = 0
  PROVE  NamesInv' /\ NoDuplicates'
<1>1. /\ session # NoSession /\ session.kind = "run"
      /\ session' # NoSession /\ session'.kind = "run"
      /\ UNCHANGED <<recorded, purpose>>
  BY RunStepIs
<1>2. failures = 0
  <2>1. failures' = failures \/ Fails
    BY DEF RunStep, Fetch, FetchFails, Decide, DecideFails, Post, PostUnanswered,
       ReadBack, ReadBackFails, limits
  <2> QED BY <2>1, BoundsAssumption DEF Fails, TypeOK
<1>3. ASSUME NEW i \in Ids, panel'[i] # Absent, purpose[i] # NoPath
      PROVE  panel[i] # Absent /\ panel'[i].name = purpose[i]
  <2>1. CASE panel'[i] = panel[i]
    BY <1>1, <1>2, <1>3, <2>1 DEF NamesInv, Unnamed
  <2>2. CASE panel'[i] # panel[i]
    <3>1. /\ Posts /\ session.item \in Paths /\ i = recorded[session.item]
          /\ session.form \in Command /\ session.wish[session.item] \in Wishes
          /\ panel'[i] = Applied(session.item, session.wish[session.item], session.form)
      BY <2>2, RunWrites
    <3>2. panel[i] # Absent
      BY <2>2, <3>1, RunWrites DEF Posts, Writes
    <3>3. purpose[i] = session.item
      <4>1. i # NoId
        BY BoundsAssumption DEF Ids
      <4> QED BY <3>1, <4>1 DEF OwnInv
    <3> QED BY <3>1, <3>2, <3>3, AppliedFields
  <2> QED BY <2>1, <2>2
<1>4. NamesInv'
  BY <1>1, <1>3 DEF NamesInv
<1>5. NoDuplicates'
  BY <1>1, <1>2, <1>3 DEF NoDuplicates, NoDuplicatesYet
<1> QED BY <1>4, <1>5

LEMMA MakesNames ==
  ASSUME TypeOK, OwnInv, NamesInv, NoDuplicates, failures = 0, failures' = 0, ~Fails,
         session # NoSession, session.kind = "create",
         session' # NoSession, session'.kind = "create", Makes
  PROVE  NamesInv' /\ NoDuplicates'
<1>1. /\ session.stage = "new" /\ session.item \in Paths
      /\ session.item \notin session.existing /\ InUse \subseteq session.existing
  BY DEF Makes, TypeOK, NamesInv
<1>2. \A i \in Ids : panel[i] # Absent /\ purpose[i] # NoPath => panel[i].name = purpose[i]
  BY <1>1 DEF NamesInv, Unnamed
<1>3. CASE NotMade
  <2>1. /\ UNCHANGED <<panel, nextId, purpose>> /\ session'.stage = "next"
        /\ session'.existing = session.existing
    <3>1. nextId' = nextId /\ nextId \in Nat
      BY <1>3, BoundsAssumption DEF NotMade, TypeOK
    <3>2. ~Made
      BY <3>1 DEF Made
    <3> QED BY <1>3, <3>2 DEF Makes, NotMade
  <2>2. InUse' = InUse
    BY <2>1 DEF InUse
  <2> QED BY <1>1, <1>2, <2>1, <2>2 DEF NamesInv, NoDuplicates
<1>4. CASE ~NotMade
  <2>1. /\ Made /\ session'.stage = "page" /\ session'.id = nextId
        /\ session'.item = session.item
        /\ session'.existing = session.existing \cup {session.item}
    BY <1>4 DEF Makes
  <2>2. /\ nextId \in Ids /\ panel' = [panel EXCEPT ![nextId] = NewCommand]
        /\ purpose' = [purpose EXCEPT ![nextId] = session.item]
        /\ panel \in [Ids -> Command \cup {Absent}]
        /\ purpose \in [Ids -> Paths \cup {NoPath}]
    BY <2>1, BoundsAssumption DEF Made, TypeOK, Ids
  <2>3. InUse' \subseteq InUse
    BY <2>2, NewIsCommand, NoPathAssumption DEF InUse
  <2>4. ASSUME NEW i \in Ids \ {nextId}
        PROVE  /\ panel'[i] = panel[i] /\ purpose'[i] = purpose[i]
               /\ panel[i] # Absent => purpose[i] # session.item
    <3>1. panel'[i] = panel[i] /\ purpose'[i] = purpose[i]
      BY <2>2
    <3>2. CASE panel[i] # Absent /\ purpose[i] = session.item
      <4>1. session.item \in InUse
        BY <1>1, <1>2, <3>2, NoPathAssumption, NameInUse
      <4> QED BY <1>1, <4>1
    <3> QED BY <3>1, <3>2
  <2>5. PICK n \in Ids : n = nextId
    BY <2>2
  <2>6. purpose'[n] = session.item /\ Unnamed(n)'
    BY <2>1, <2>2, <2>5 DEF Unnamed
  <2>7. NamesInv'
    <3>1. ASSUME NEW i \in Ids, panel'[i] # Absent, purpose'[i] # NoPath, ~Unnamed(i)'
          PROVE  panel'[i].name = purpose'[i]
      BY <1>2, <2>4, <2>5, <2>6, <3>1
    <3> QED BY <1>1, <2>1, <2>3, <3>1 DEF NamesInv
  <2>8. NoDuplicates'
    <3> SUFFICES ASSUME NEW i \in Ids, NEW j \in Ids, panel'[i] # Absent,
                        panel'[j] # Absent, purpose'[i] = purpose'[j], purpose'[i] # NoPath
                 PROVE  i = j
      BY DEF NoDuplicates
    <3>1. CASE i = n \/ j = n
      BY <2>4, <2>5, <2>6, <3>1
    <3>2. CASE i # n /\ j # n
      BY <2>4, <2>5, <3>2 DEF NoDuplicates
    <3> QED BY <3>1, <3>2
  <2> QED BY <2>7, <2>8
<1> QED BY <1>3, <1>4

LEMMA TurnsNames ==
  ASSUME TypeOK, OwnInv, NamesInv, NoDuplicates, failures = 0, failures' = 0, ~Fails,
         session # NoSession, session.kind = "create",
         session' # NoSession, session'.kind = "create", Turns
  PROVE  NamesInv' /\ NoDuplicates'
<1>1. /\ session.stage \in {"page", "disable", "verify"} /\ session.item \in Paths
      /\ session.id \in Ids /\ session.item \in session.existing
      /\ InUse \subseteq session.existing /\ purpose[session.id] = session.item
      /\ session.stage = "disable" => session.form \in Command
  BY DEF Turns, TypeOK, NamesInv, OwnInv
<1>2. /\ purpose' = purpose /\ session'.existing = session.existing
      /\ panel \in [Ids -> Command \cup {Absent}]
  BY DEF Turns, TypeOK
<1>3. ASSUME NEW i \in Ids \ {session.id}
      PROVE  /\ panel'[i] = panel[i]
             /\ panel[i] # Absent /\ purpose[i] # NoPath => panel[i].name = purpose[i]
  <2>1. panel'[i] = panel[i]
    BY <1>2 DEF Turns, NamesIt
  <2> QED BY <1>3, <2>1 DEF NamesInv, Unnamed
<1>4. /\ panel'[session.id] # Absent => panel[session.id] # Absent
      /\ panel'[session.id] = panel[session.id] \/ panel'[session.id].name = session.item
  <2>1. CASE panel' = panel
    BY <2>1
  <2>2. CASE NamesIt
    BY <1>1, <1>2, <2>2, NamedFields DEF NamesIt
  <2> QED BY <2>1, <2>2 DEF Turns
<1>5. ASSUME panel'[session.id] # Absent
      PROVE  \/ panel'[session.id].name = session.item
             \/ session'.id = session.id /\ session'.stage = "disable"
  <2>1. CASE session.stage = "page"
    BY <1>4, <1>5, <2>1 DEF Turns
  <2>2. CASE session.stage = "disable"
    <3>1. NamesIt
      BY <1>4, <1>5, <2>2 DEF Turns
    <3> QED BY <1>1, <1>2, <2>2, <3>1, NamedFields DEF NamesIt
  <2>3. CASE session.stage = "verify"
    <3>1. panel'[session.id] = panel[session.id] /\ ~Unnamed(session.id)
      BY <2>3 DEF Turns, NamesIt, Unnamed
    <3> QED BY <1>1, <1>5, <2>3, <3>1, NoPathAssumption DEF NamesInv
  <2> QED BY <1>1, <2>1, <2>2, <2>3
<1>6. InUse' \subseteq session.existing
  <2> SUFFICES ASSUME NEW p \in Paths, NEW i \in Ids, panel'[i].name = p
               PROVE  p \in session.existing
    BY DEF InUse
  <2>1. CASE panel'[i] = panel[i]
    BY <1>1, <2>1, NameInUse
  <2>2. CASE panel'[i] # panel[i]
    BY <1>1, <1>3, <1>4, <2>2
  <2> QED BY <2>1, <2>2
<1>7. session'.stage # "new" /\ (session'.stage # "next" => session'.item = session.item)
  BY DEF Turns
<1>8. ASSUME NEW i \in Ids, panel'[i] # Absent, purpose'[i] # NoPath, ~Unnamed(i)'
      PROVE  panel'[i].name = purpose'[i]
  <2>1. CASE i = session.id
    BY <1>1, <1>2, <1>5, <1>8, <2>1 DEF Unnamed
  <2>2. CASE i # session.id
    BY <1>2, <1>3, <1>8, <2>2
  <2> QED BY <2>1, <2>2
<1>9. NamesInv'
  BY <1>1, <1>2, <1>6, <1>7, <1>8 DEF NamesInv
<1>10. \A i \in Ids : panel'[i] # Absent => panel[i] # Absent
  BY <1>3, <1>4
<1>11. NoDuplicates'
  BY <1>2, <1>10 DEF NoDuplicates
<1> QED BY <1>9, <1>11

LEMMA NamesStep ==
  TypeOK /\ OwnInv /\ ToWriteInv /\ NamesInv /\ NoDuplicatesYet /\ [Next]_vars
    => NamesInv' /\ NoDuplicatesYet'
<1> SUFFICES ASSUME TypeOK, OwnInv, ToWriteInv, NamesInv, NoDuplicatesYet, [Next]_vars,
                    failures' = 0
             PROVE  NamesInv' /\ NoDuplicates'
  BY DEF NamesInv, NoDuplicatesYet
<1>0. failures \in Nat
  BY BoundsAssumption DEF TypeOK
<1>1. CASE RunStep
  BY <1>1, RunNames
<1>2. CASE CreateStep
  <2>1. /\ session # NoSession /\ session.kind = "create"
        /\ session' # NoSession /\ session'.kind = "create"
        /\ UNCHANGED limits \/ Fails
    BY <1>2, CreateStepIs
  <2>2. failures = 0 /\ ~Fails /\ NoDuplicates
    BY <1>0, <2>1 DEF Fails, limits, NoDuplicatesYet
  <2>3. ASSUME session.stage = "next", session'.stage \in {"next", "new"},
               UNCHANGED <<panel, purpose>>, session'.existing = session.existing,
               session'.stage = "new" => session'.item \notin session.existing
        PROVE  NamesInv' /\ NoDuplicates'
    BY <2>1, <2>2, <2>3 DEF NamesInv, NoDuplicates, Unnamed, InUse
  <2>4. ASSUME NEW p \in Paths, StartsOn(p) PROVE NamesInv' /\ NoDuplicates'
    BY <2>3, <2>4 DEF StartsOn
  <2>5. ASSUME NEW p \in Paths, NEW st \in NotCreated, LeavesOut(p, st)
        PROVE  NamesInv' /\ NoDuplicates'
    BY <2>3, <2>5 DEF LeavesOut
  <2> QED BY <1>2, <2>1, <2>2, <2>4, <2>5, MakesNames, TurnsNames, CreateStepIs
<1>3. ASSUME failures = 0, UNCHANGED <<panel, purpose>>,
             session = NoSession \/ session.stage = "next",
             session' # NoSession =>
               /\ session'.stage = "next"
               /\ session'.kind = "create" => session'.existing = InUse
      PROVE  NamesInv' /\ NoDuplicates'
  BY <1>3 DEF NamesInv, NoDuplicatesYet, NoDuplicates, Unnamed, InUse
<1>4. ASSUME Operator \/ Return \/ CloseTab, ~\E p \in Paths : Record(p)
      PROVE  NamesInv' /\ NoDuplicates'
  <2>1. failures' = failures \/ Fails
    BY <1>4 DEF Operator, CreateCannotBegin, BeginCreate, RefuseRun, BeginRun, Record,
       Return, CloseTab, limits
  <2>2. failures = 0 /\ ~Fails
    BY <1>0, <2>1 DEF Fails
  <2> QED BY <1>3, <1>4, <2>2, AroundIs DEF Starts, Declines, Ends
<1>5. ASSUME NEW p \in Paths, Record(p) PROVE NamesInv' /\ NoDuplicates'
  BY <1>3, <1>5 DEF Record, limits, history
<1>6. ASSUME NEW h \in Ids, ByHand(h) PROVE NamesInv' /\ NoDuplicates'
  <2>1. /\ panel[h] # Absent /\ \A i \in Ids \ {h} : panel'[i] = panel[i]
        /\ panel'[h] # Absent => panel'[h].name = panel[h].name
        /\ UNCHANGED <<session, failures, purpose>>
    BY <1>6, ByHandIs
  <2>2. \A i \in Ids : panel'[i] # Absent => panel[i] # Absent /\ panel'[i].name = panel[i].name
    BY <2>1
  <2>3. InUse' \subseteq InUse
    <3>1. Absent.name = NoPath
      BY DEF Absent
    <3> QED BY <2>2, <3>1, NoPathAssumption DEF InUse
  <2> QED BY <2>1, <2>2, <2>3 DEF NamesInv, NoDuplicatesYet, NoDuplicates, Unnamed
<1>7. CASE UNCHANGED vars
  <2>1. UNCHANGED <<panel, session, purpose, failures>>
    BY <1>7 DEF vars
  <2> QED BY <2>1 DEF NamesInv, NoDuplicatesYet, NoDuplicates, Unnamed, InUse
<1> QED BY <1>1, <1>2, <1>4, <1>5, <1>6, <1>7 DEF Next, SessionStep

LEMMA NamesInit == Init => NamesInv /\ NoDuplicates
<1> SUFFICES ASSUME Init PROVE NamesInv /\ NoDuplicates
  OBVIOUS
<1>1. PICK installed \in SUBSET Paths, number \in [Paths -> Ids], first \in 1 .. MaxId + 1,
           code \in {"old", "new", "several"}, structure \in {"old", "new"} :
        /\ \A p, q \in installed : number[p] = number[q] => p = q
        /\ \A p \in installed : number[p] < first
        /\ \A p \in Paths \ installed : number[p] = 1
        /\ panel = [i \in Ids |->
             IF \E p \in installed : number[p] = i
             THEN [name |-> CHOOSE p \in installed : number[p] = i,
                   code |-> code, structure |-> structure,
                   other |-> "b", enabled |-> TRUE]
             ELSE Absent]
        /\ recorded = [p \in Paths |-> IF p \in installed THEN number[p] ELSE NoId]
        /\ purpose = [i \in Ids |->
             IF \E p \in installed : number[p] = i
             THEN CHOOSE p \in installed : number[p] = i ELSE NoPath]
        /\ nextId = first
  BY Zenon DEF Init
<1>2. session = NoSession
  BY DEF Init
<1>3. ASSUME NEW i \in Ids, panel[i] # Absent, purpose[i] # NoPath
      PROVE  /\ panel[i].name = purpose[i] /\ purpose[i] \in installed
             /\ number[purpose[i]] = i
  <2>1. \E p \in installed : number[p] = i
    BY <1>1, <1>3
  <2>2. /\ purpose[i] = (CHOOSE p \in installed : number[p] = i)
        /\ panel[i].name = (CHOOSE p \in installed : number[p] = i)
    BY <1>1, <2>1
  <2> QED BY <2>1, <2>2
<1> QED BY <1>2, <1>3 DEF NamesInv, NoDuplicates

(* As long as no request has failed, create makes no command twice: what   *)
(* the comment of the list pages promises of every create holds of those.  *)
THEOREM NoneTwiceYet == Spec => []NoDuplicatesYet
<1>1. Init => NamesInv /\ NoDuplicatesYet
  BY NamesInit DEF NoDuplicatesYet
<1>2. WriteInv => OwnInv /\ ToWriteInv
  BY DEF WriteInv
<1>3. TypeOK /\ WriteInv /\ NamesInv /\ NoDuplicatesYet /\ [Next]_vars
        => NamesInv' /\ NoDuplicatesYet'
  BY <1>2, NamesStep
<1> QED BY <1>1, <1>3, TypeCorrect, WriteInit, WriteStep, PTL DEF Spec
=============================================================================
