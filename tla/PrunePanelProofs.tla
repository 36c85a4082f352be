-------------------------- MODULE PrunePanelProofs --------------------------
(***************************************************************************)
(* Proofs about PrunePanel, for any members, panels and runs: its types,   *)
(* that Kick's re-check is of this press, and that every kick is told of   *)
(* once.                                                                   *)
(***************************************************************************)
EXTENDS PrunePanel, FiniteSetTheorems, TLAPS

(* What Notes can ever note.                                               *)
LEMMA FactsAreFacts ==
  ASSUME NEW m, NEW S, NEW A, NEW I
  PROVE  /\ Facts(m, S, A, I) \subseteq MayBeKicked
         /\ m \in S => "member" \in Facts(m, S, A, I)
         /\ m \notin A => "not active" \in Facts(m, S, A, I)
         /\ m \in I => "inactive" \in Facts(m, S, A, I)
  BY DEF Facts, MayBeKicked

LEMMA RunOfIsRun ==
  ASSUME NEW mode \in {"select", "kick", "exec"}, NEW p \in Panels, NEW m \in Members
  PROVE  /\ RunOf(mode, p, m) \in RunStates
         /\ RunOf(mode, p, m) # Idle
         /\ RunOf(mode, p, m).stage = "member"
         /\ RunOf(mode, p, m).needsKick = FALSE
  BY DEF RunOf, RunStates, Idle

(* A panel with a Kick button has somebody in it.                          *)
LEMMA ConfirmHasTarget ==
  ASSUME NEW s \in PanelStates, s.shows = "confirm"
  PROVE  s.target \in Members
  BY DEF PanelStates, NotPosted, Picker, Confirm, Verdict

LEMMA ActiveRun ==
  ASSUME NEW s \in RunStates, s # Idle
  PROVE  s \in [mode : {"select", "kick", "exec"},
                stage : {"member", "inactive", "answer", "kick", "tell"},
                panel : Panels, target : Members,
                needsKick : BOOLEAN, kicked : BOOLEAN]
  BY DEF RunStates

-----------------------------------------------------------------------------
(* Every step of a run and every step around it keeps the types.           *)
LEMMA TypeStep == TypeOK /\ [Next]_vars => TypeOK'
<1> SUFFICES ASSUME TypeOK, Next PROVE TypeOK'
  BY DEF TypeOK, vars
<1> USE DEF TypeOK, members, counts, At, Active
<1> DEFINE Others == /\ inServer' \in SUBSET Members
                     /\ active' \in SUBSET Members /\ inactive' \in SUBSET Members
                     /\ panel' \in [Panels -> PanelStates]
                     /\ run' \in [Runs -> RunStates]
                     /\ kicks' \in [Members -> Nat] /\ told' \in [Members -> Nat]
<1>1. Notes /\ Others => TypeOK'
  <2> SUFFICES ASSUME Notes, Others PROVE seen' \in [Runs -> SUBSET MayBeKicked]
    OBVIOUS
  <2> QED BY FactsAreFacts DEF Notes
<1>2. Notes
  BY DEF Next, RunStep
<1> HIDE DEF Others
<1>3. ASSUME NEW p \in Panels, PostPicker(p) \/ PressCancel(p) PROVE Others
  BY <1>3 DEF Others, PostPicker, PressCancel, PanelStates
<1>4. ASSUME NEW r \in Runs, Press(r) PROVE Others
  <2>1. ASSUME NEW mode \in {"select", "kick", "exec"}, NEW p \in Panels,
               NEW m \in Members, Begin(r, mode, p, m)
        PROVE  Others
    BY <2>1, RunOfIsRun DEF Others, Begin
  <2>2. ASSUME NEW p \in Panels, PressKick(r, p) PROVE Others
    BY <2>2, <2>1, ConfirmHasTarget DEF PressKick
  <2> QED BY <1>4, <2>1, <2>2 DEF Press, PostReview, Select
<1>5. ASSUME NEW r \in Runs, GoOn(r) PROVE Others
  <2>1. PICK s : s = run[r]
    OBVIOUS
  <2>2. /\ s \in [mode : {"select", "kick", "exec"},
                  stage : {"member", "inactive", "answer", "kick", "tell"},
                  panel : Panels, target : Members,
                  needsKick : BOOLEAN, kicked : BOOLEAN]
    BY <2>1, <1>5, ActiveRun DEF GoOn, LookUp, LookUpInactive, Answer,
       Acknowledge, Kick, Tell
  <2>3. /\ Idle \in RunStates
        /\ Picker \in PanelStates
        /\ Confirm(s.target) \in PanelStates /\ Verdict(s.target) \in PanelStates
    BY <2>2 DEF RunStates, PanelStates
  <2>4. CASE LookUp(r)
    BY <2>4, <2>1, <2>2 DEF Others, LookUp, RunStates
  <2>5. CASE LookUpInactive(r)
    <3>1. PICK b \in BOOLEAN : b <=> (s.target \in inactive)
      BY (s.target \in inactive) \in BOOLEAN
    <3>2. [s EXCEPT !.stage = "answer", !.needsKick = b] \in RunStates
      BY <2>2 DEF RunStates
    <3>3. run' = [run EXCEPT ![r].stage = "answer", ![r].needsKick = b]
      BY <2>5, <2>1, <3>1 DEF LookUpInactive
    <3> QED BY <2>5, <2>1, <3>2, <3>3 DEF Others, LookUpInactive
  <2>6. CASE Answer(r)
    BY <2>6, <2>1, <2>2, <2>3 DEF Others, Answer
  <2>7. CASE Acknowledge(r)
    BY <2>7, <2>1, <2>2, <2>3 DEF Others, Acknowledge, RunStates
  <2>8. ASSUME NEW succeeds \in BOOLEAN, Kick(r, succeeds) PROVE Others
    <3>1. [s EXCEPT !.stage = "tell", !.kicked = succeeds] \in RunStates
      BY <2>2 DEF RunStates
    <3>2. inServer' \in SUBSET Members
      BY <2>8 DEF Kick
    <3>3. kicks' \in [Members -> Nat]
      BY <2>8, <2>1, <2>2 DEF Kick
    <3> QED BY <2>8, <2>1, <3>1, <3>2, <3>3 DEF Others, Kick
  <2>9. CASE Tell(r)
    BY <2>9, <2>1, <2>2, <2>3 DEF Others, Tell
  <2> QED BY <1>5, <2>4, <2>5, <2>6, <2>7, <2>8, <2>9 DEF GoOn
<1>6. ASSUME NEW m \in Members, 
             Leave(m) \/ Return(m) \/ ChangeActive(m) \/ ChangeInactive(m)
      PROVE  Others
  BY <1>6 DEF Others, Leave, Return, ChangeActive, ChangeInactive, Toggled
<1> QED BY <1>1, <1>2, <1>3, <1>4, <1>5, <1>6 DEF Next, RunStep, Environment

(* Type correctness: panels show a picker, or a confirm or verdict of a    *)
(* member, whatever presses, kicks and comings and goings interleave.      *)
THEOREM TypeCorrect == Spec => []TypeOK
<1>1. Init => TypeOK
  BY DEF Init, TypeOK, PanelStates, RunStates, MayBeKicked
<1> QED BY <1>1, TypeStep, PTL DEF Spec

-----------------------------------------------------------------------------
(* What was noted of a run stays noted for as long as it is under way.     *)
LEMMA SeenGrows ==
  ASSUME TypeOK, Notes, NEW r \in Runs, Active(r), run'[r] # Idle
  PROVE  /\ seen[r] \subseteq seen'[r] /\ seen'[r] \subseteq MayBeKicked
         /\ run'[r].target \in inServer' => "member" \in seen'[r]
         /\ run'[r].target \notin active' => "not active" \in seen'[r]
         /\ run'[r].target \in inactive' => "inactive" \in seen'[r]
<1> DEFINE F == Facts(run'[r].target, inServer', active', inactive')
<1>1. seen'[r] = F \cup seen[r]
  BY DEF Notes
<1>2. seen[r] \subseteq MayBeKicked
  BY DEF TypeOK
<1>3. /\ F \subseteq MayBeKicked
      /\ run'[r].target \in inServer' => "member" \in F
      /\ run'[r].target \notin active' => "not active" \in F
      /\ run'[r].target \in inactive' => "inactive" \in F
  BY FactsAreFacts
<1> HIDE DEF F
<1> QED BY <1>1, <1>2, <1>3

(* A step that leaves a run as it is leaves Found true of it.              *)
FoundOf(r) ==
  /\ At(r, "inactive") => {"member", "not active"} \subseteq seen[r]
  /\ At(r, "answer") /\ run[r].needsKick => seen[r] = MayBeKicked
  /\ At(r, "kick") => seen[r] = MayBeKicked
  /\ At(r, "member") => ~run[r].needsKick
  /\ At(r, "inactive") => ~run[r].needsKick

LEMMA SameRun ==
  ASSUME TypeOK, Notes, NEW r \in Runs, FoundOf(r), run'[r] = run[r]
  PROVE  FoundOf(r)'
  <1>1. CASE run[r] = Idle
    BY <1>1 DEF FoundOf, At, Active
  <1>2. CASE run[r] # Idle
    BY <1>2, SeenGrows DEF FoundOf, At, Active, TypeOK
  <1> QED BY <1>1, <1>2

LEMMA FoundStep == TypeOK /\ Found /\ [Next]_vars => Found'
<1> SUFFICES ASSUME TypeOK, Found, [Next]_vars, NEW r \in Runs PROVE FoundOf(r)'
  BY DEF Found, FoundOf
<1>0. FoundOf(r)
  BY DEF Found, FoundOf
<1>1. CASE UNCHANGED vars
  BY <1>0, <1>1 DEF vars, FoundOf, At, Active
<1> SUFFICES ASSUME Next PROVE FoundOf(r)'
  BY <1>1
<1>2. Notes
  BY DEF Next, RunStep
<1>3. CASE run'[r] = run[r]
  BY <1>0, <1>2, <1>3, SameRun
<1>4. ASSUME run'[r] # run[r] PROVE GoOn(r) \/ Press(r)
  <2>1. ~Environment
    BY <1>4 DEF Environment, PostPicker, PressCancel, Leave, Return,
       ChangeActive, ChangeInactive
  <2>2. ASSUME NEW q \in Runs, q # r PROVE ~GoOn(q) /\ ~Press(q)
    BY <1>4, <2>2 DEF GoOn, Press, PostReview, Select, PressKick, Begin, LookUp,
       LookUpInactive, Answer, Acknowledge, Kick, Tell, TypeOK, counts
  <2> QED BY <2>1, <2>2 DEF Next, RunStep
<1>5. CASE Press(r)
  <2>1. ASSUME NEW mode, NEW p, NEW m, Begin(r, mode, p, m) PROVE FoundOf(r)'
    BY <2>1 DEF FoundOf, At, Active, Begin, RunOf, Idle, TypeOK
  <2> QED BY <1>5, <2>1 DEF Press, PostReview, Select, PressKick
<1>6. CASE GoOn(r)
  <2> DEFINE s == run[r]
  <2>1. /\ Active(r)
        /\ s \in [mode : {"select", "kick", "exec"},
                  stage : {"member", "inactive", "answer", "kick", "tell"},
                  panel : Panels, target : Members,
                  needsKick : BOOLEAN, kicked : BOOLEAN]
    BY <1>6, ActiveRun DEF GoOn, LookUp, LookUpInactive, Answer,
       Acknowledge, Kick, Tell, At, Active, TypeOK
  <2>a. ASSUME run'[r] # Idle
        PROVE  /\ seen[r] \subseteq seen'[r] /\ seen'[r] \subseteq MayBeKicked
               /\ run'[r].target \in inServer' => "member" \in seen'[r]
               /\ run'[r].target \notin active' => "not active" \in seen'[r]
               /\ run'[r].target \in inactive' => "inactive" \in seen'[r]
    BY <1>2, <2>1, <2>a, SeenGrows
  <2>2. CASE LookUp(r)
    <3>1. /\ run'[r] = [s EXCEPT !.stage = IF s.target \in inServer \ active
                                           THEN "inactive" ELSE "answer"]
          /\ inServer' = inServer /\ active' = active
          /\ ~s.needsKick
      BY <1>0, <2>2 DEF LookUp, FoundOf, members, TypeOK
    <3>2. run'[r] # Idle /\ run'[r].target = s.target /\ ~run'[r].needsKick
      BY <2>1, <3>1 DEF Idle
    <3>3. run'[r].stage \in {"inactive", "answer"}
      BY <2>1, <3>1
    <3>4. run'[r].stage = "inactive" => s.target \in inServer \ active
      BY <2>1, <3>1
    <3>5. run'[r].stage = "inactive" => {"member", "not active"} \subseteq seen'[r]
      BY <2>a, <3>1, <3>2, <3>4
    <3> QED BY <3>2, <3>3, <3>5 DEF FoundOf, At, Active
  <2>3. CASE LookUpInactive(r)
    <3>1. /\ run'[r] = [s EXCEPT !.stage = "answer", !.needsKick = s.target \in inactive]
          /\ inactive' = inactive
          /\ {"member", "not active"} \subseteq seen[r]
      BY <1>0, <2>3 DEF LookUpInactive, FoundOf, members, TypeOK
    <3>2. /\ run'[r] # Idle /\ run'[r].target = s.target /\ run'[r].stage = "answer"
          /\ run'[r].needsKick => s.target \in inactive
      BY <2>1, <3>1 DEF Idle
    <3>3. run'[r].needsKick => seen'[r] = MayBeKicked
      BY <2>a, <3>1, <3>2 DEF MayBeKicked
    <3> QED BY <3>2, <3>3 DEF FoundOf, At, Active
  <2>4. CASE Acknowledge(r)
    <3>1. /\ run'[r] = [s EXCEPT !.stage = "kick"]
          /\ seen[r] = MayBeKicked
      BY <1>0, <2>4 DEF Acknowledge, FoundOf, TypeOK
    <3>2. run'[r] # Idle /\ run'[r].stage = "kick"
      BY <2>1, <3>1 DEF Idle
    <3>3. seen'[r] = MayBeKicked
      BY <2>a, <3>1, <3>2
    <3> QED BY <3>2, <3>3 DEF FoundOf, At, Active
  <2>5. ASSUME NEW succeeds \in BOOLEAN, Kick(r, succeeds) PROVE FoundOf(r)'
    <3>1. run'[r] = [s EXCEPT !.stage = "tell", !.kicked = succeeds]
      BY <2>5 DEF Kick, TypeOK
    <3>2. run'[r].stage = "tell"
      BY <2>1, <3>1
    <3> QED BY <3>2 DEF FoundOf, At, Active
  <2>6. CASE Answer(r) \/ Tell(r)
    <3>1. run'[r] = Idle
      BY <2>6 DEF Answer, Tell, TypeOK
    <3> QED BY <3>1 DEF FoundOf, At, Active
  <2> QED BY <1>6, <2>2, <2>3, <2>4, <2>5, <2>6 DEF GoOn
<1> QED BY <1>3, <1>4, <1>5, <1>6

(* Kick re-checks: whatever the confirm says, a run that is about to kick  *)
(* has found its member to be one, without Active and with Inactive, at    *)
(* moments since Kick was pressed (inactivity_prune_pick.gohtml).          *)
THEOREM KickIsOfThisPress == Spec => []KickIsRechecked
<1>1. Init => Found
  BY DEF Init, Found, At, Active
<1>2. Found => KickIsRechecked
  BY DEF Found, KickIsRechecked
<1> QED BY <1>1, <1>2, TypeCorrect, FoundStep, PTL DEF Spec

-----------------------------------------------------------------------------
(* What there is to tell of a member: runs past a kick that was one, which *)
(* are finitely many however many slots there are.                         *)
Books(m) ==
  /\ IsFiniteSet(ToBeTold(m))
  /\ kicks[m] = told[m] + Cardinality(ToBeTold(m))

(* A run that is not told of, before and after its step.                   *)
LEMMA NotToTell ==
  ASSUME TypeOK, NEW r \in Runs, NEW m \in Members,
         \A q \in Runs \ {r} : run'[q] = run[q]
  PROVE  /\ \A q \in Runs \ {r} : q \in ToBeTold(m)' <=> q \in ToBeTold(m)
         /\ ToBeTold(m) \subseteq Runs /\ ToBeTold(m)' \subseteq Runs
         /\ r \notin ToBeTold(m) /\ r \notin ToBeTold(m)' => ToBeTold(m)' = ToBeTold(m)
<1>1. \A q \in Runs \ {r} : q \in ToBeTold(m)' <=> q \in ToBeTold(m)
  BY DEF ToBeTold, At, Active
<1>2. ToBeTold(m) \subseteq Runs /\ ToBeTold(m)' \subseteq Runs
  BY DEF ToBeTold
<1> HIDE DEF ToBeTold
<1> QED BY <1>1, <1>2

LEMMA BooksKept ==
  ASSUME NEW m \in Members, Books(m), UNCHANGED <<kicks, told>>,
         ToBeTold(m)' = ToBeTold(m)
  PROVE  Books(m)'
  BY DEF Books

(* A kick that was one adds its run, and telling of it takes it out again. *)
LEMMA KickIsBooked ==
  ASSUME TypeOK, NEW m \in Members, Books(m), NEW r \in Runs,
         NEW succeeds \in BOOLEAN, Kick(r, succeeds)
  PROVE  Books(m)'
<1>1. /\ run[r] # Idle /\ run[r].stage = "kick" /\ run[r] \in RunStates
      /\ \A q \in Runs \ {r} : run'[q] = run[q]
      /\ run'[r] = [run[r] EXCEPT !.stage = "tell", !.kicked = succeeds]
  BY DEF Kick, At, Active, TypeOK
<1>2. /\ run'[r].stage = "tell" /\ run'[r].kicked = succeeds
      /\ run'[r].target = run[r].target /\ run'[r] # Idle
  <2>1. run[r] \in [mode : {"select", "kick", "exec"},
                    stage : {"member", "inactive", "answer", "kick", "tell"},
                    panel : Panels, target : Members,
                    needsKick : BOOLEAN, kicked : BOOLEAN]
    BY <1>1, ActiveRun
  <2>2. run'[r].mode = run[r].mode /\ run[r].mode # "none"
    BY <1>1, <2>1
  <2> QED BY <1>1, <2>1, <2>2 DEF Idle
<1>3. r \notin ToBeTold(m)
  BY <1>1 DEF ToBeTold, At
<1>4. r \in ToBeTold(m)' <=> (run[r].target = m /\ succeeds)
  BY <1>2 DEF ToBeTold, At, Active
<1>5. CASE run[r].target = m /\ succeeds
  <2>1. ToBeTold(m)' = ToBeTold(m) \cup {r}
    BY <1>1, <1>4, <1>5, NotToTell
  <2>2. kicks'[m] = kicks[m] + 1 /\ told' = told /\ told[m] \in Nat
    BY <1>5 DEF Kick, TypeOK
  <2>3. /\ IsFiniteSet(ToBeTold(m) \cup {r})
        /\ Cardinality(ToBeTold(m) \cup {r}) = Cardinality(ToBeTold(m)) + 1
        /\ Cardinality(ToBeTold(m)) \in Nat
    BY <1>3, FS_AddElement, FS_CardinalityType DEF Books
  <2> HIDE DEF ToBeTold
  <2> QED BY <2>1, <2>2, <2>3 DEF Books
<1>6. CASE ~(run[r].target = m /\ succeeds)
  <2>1. ToBeTold(m)' = ToBeTold(m)
    BY <1>1, <1>3, <1>4, <1>6, NotToTell
  <2>2. kicks'[m] = kicks[m] /\ told' = told
    BY <1>6 DEF Kick, TypeOK
  <2> QED BY <2>1, <2>2 DEF Books
<1> QED BY <1>5, <1>6

LEMMA TellIsBooked ==
  ASSUME TypeOK, NEW m \in Members, Books(m), NEW r \in Runs, Tell(r)
  PROVE  Books(m)'
<1>1. /\ \A q \in Runs \ {r} : run'[q] = run[q]
      /\ run'[r] = Idle /\ At(r, "tell") /\ kicks' = kicks
  BY DEF Tell, TypeOK
<1>2. r \notin ToBeTold(m)'
  BY <1>1 DEF ToBeTold, At, Active
<1>3. r \in ToBeTold(m) <=> (run[r].target = m /\ run[r].kicked)
  BY <1>1 DEF ToBeTold
<1>4. CASE run[r].target = m /\ run[r].kicked
  <2>1. ToBeTold(m)' = ToBeTold(m) \ {r}
    BY <1>1, <1>2, NotToTell
  <2>2. told'[m] = told[m] + 1 /\ told[m] \in Nat
    BY <1>4 DEF Tell, TypeOK
  <2>3. /\ IsFiniteSet(ToBeTold(m) \ {r})
        /\ Cardinality(ToBeTold(m) \ {r}) = Cardinality(ToBeTold(m)) - 1
        /\ Cardinality(ToBeTold(m)) \in Nat
    BY <1>3, <1>4, FS_RemoveElement, FS_CardinalityType DEF Books
  <2> HIDE DEF ToBeTold
  <2> QED BY <1>1, <2>1, <2>2, <2>3 DEF Books
<1>5. CASE ~(run[r].target = m /\ run[r].kicked)
  <2>1. ToBeTold(m)' = ToBeTold(m)
    BY <1>1, <1>2, <1>3, <1>5, NotToTell
  <2>2. told'[m] = told[m]
    BY <1>5 DEF Tell, TypeOK
  <2> QED BY <1>1, <2>1, <2>2 DEF Books
<1> QED BY <1>4, <1>5

LEMMA BooksStep ==
  ASSUME TypeOK, [Next]_vars, NEW m \in Members, Books(m)
  PROVE  Books(m)'
<1>1. CASE UNCHANGED vars
  BY <1>1 DEF vars, counts, Books, ToBeTold, At, Active
<1>2. ASSUME NEW r \in Runs, NEW mode, NEW p, NEW t, Begin(r, mode, p, t)
      PROVE  Books(m)'
  <2>1. /\ run[r] = Idle /\ run'[r].stage = "member"
        /\ \A q \in Runs \ {r} : run'[q] = run[q]
    BY <1>2 DEF Begin, Active, RunOf, TypeOK
  <2>2. r \notin ToBeTold(m) /\ r \notin ToBeTold(m)'
    BY <2>1 DEF ToBeTold, At, Active
  <2> QED BY <1>2, <2>1, <2>2, NotToTell, BooksKept DEF Begin, counts
<1>3. ASSUME NEW r \in Runs, LookUp(r) \/ LookUpInactive(r) \/ Answer(r) \/ Acknowledge(r)
      PROVE  Books(m)'
  <2>1. /\ run[r] # Idle /\ run[r] \in RunStates
        /\ run[r].stage \in {"member", "inactive", "answer"}
        /\ \A q \in Runs \ {r} : run'[q] = run[q]
        /\ UNCHANGED <<kicks, told>>
    BY <1>3 DEF LookUp, LookUpInactive, Answer, Acknowledge, At, Active, TypeOK, counts
  <2>2. run'[r] = Idle \/ run'[r].stage \in {"inactive", "answer", "kick"}
    <3>1. run[r] \in [mode : {"select", "kick", "exec"},
                      stage : {"member", "inactive", "answer", "kick", "tell"},
                      panel : Panels, target : Members,
                      needsKick : BOOLEAN, kicked : BOOLEAN]
      BY <2>1, ActiveRun
    <3>2. CASE LookUp(r)
      BY <3>1, <3>2 DEF LookUp, TypeOK
    <3>3. CASE LookUpInactive(r)
      BY <3>1, <3>3 DEF LookUpInactive, TypeOK
    <3>4. CASE Answer(r) \/ Acknowledge(r)
      BY <3>1, <3>4 DEF Answer, Acknowledge, TypeOK
    <3> QED BY <1>3, <3>2, <3>3, <3>4
  <2>3. r \notin ToBeTold(m) /\ r \notin ToBeTold(m)'
    BY <2>1, <2>2 DEF ToBeTold, At, Active
  <2> QED BY <2>1, <2>3, NotToTell, BooksKept
<1>4. CASE Environment
  <2>1. UNCHANGED <<run, kicks, told>>
    BY <1>4 DEF Environment, PostPicker, PressCancel, Leave, Return, ChangeActive,
       ChangeInactive, counts
  <2> QED BY <2>1, BooksKept DEF ToBeTold, At, Active
<1>5. ASSUME NEW r \in Runs, Press(r) PROVE Books(m)'
  BY <1>2, <1>5 DEF Press, PostReview, Select, PressKick
<1>6. ASSUME NEW r \in Runs, GoOn(r) PROVE Books(m)'
  BY <1>3, <1>6, KickIsBooked, TellIsBooked DEF GoOn
<1> QED BY <1>1, <1>4, <1>5, <1>6 DEF Next, RunStep

(* "has been kicked!" is said once for every kick that was one and for     *)
(* nothing else, whatever presses overlap on one member.                   *)
THEOREM EveryKickIsToldOnce == Spec => []TellsWhatHappened
<1> DEFINE Booked == \A m \in Members : Books(m)
<1>1. Init => Booked
  <2> SUFFICES ASSUME Init, NEW m \in Members PROVE Books(m)
    OBVIOUS
  <2>1. ToBeTold(m) = {}
    BY DEF Init, ToBeTold, At, Active
  <2> QED BY <2>1, FS_EmptySet DEF Init, Books
<1>2. TypeOK /\ Booked /\ [Next]_vars => Booked'
  BY BooksStep
<1>3. Booked => TellsWhatHappened
  BY DEF Books, TellsWhatHappened
<1> HIDE DEF Booked
<1> QED BY <1>1, <1>2, <1>3, TypeCorrect, PTL DEF Spec
=============================================================================
