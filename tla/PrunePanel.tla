----------------------------- MODULE PrunePanel -----------------------------
(***************************************************************************)
(* The Inactivity Prune panel, a public message that a moderator picks a   *)
(* member in and kicks that member from:                                   *)
(*   commands/members/inactivity_prune_pick.gohtml (every mode of it) and  *)
(*   the prune action of inactivity.gohtml, which posts panels.            *)
(*                                                                         *)
(* Any moderator may use any panel, so runs of several presses are under   *)
(* way at once, each with the panel as its click carried it.  A run looks  *)
(* its member up, answers by changing the panel, and kicks last.  A press  *)
(* by somebody without the Staff role is refused, changes nothing and is   *)
(* left out; so are the avatars, the dates and the wording.                *)
(***************************************************************************)
EXTENDS Naturals, FiniteSets

CONSTANTS
  Members, Panels, Runs,
  NoMember,
  Returning,  \* bounds: the members who come back after a kick,
  MaxKicks    \* and after how many kicks they do no more

ASSUME NoMemberAssumption == NoMember \notin Members
ASSUME MaxKicksAssumption == MaxKicks \in Nat /\ Returning \subseteq Members

VARIABLES
  inServer,          \* the members who are in the server
  active, inactive,  \* those who have the role Active, and Inactive
  panel,             \* panel[p]: what the message p shows, and of whom
  run,               \* run[r]: the local variables of the run in slot r
  (* history, read by no action *)
  seen,              \* seen[r]: what was so of r's member since r was pressed
  kicks, told        \* kicks of a member, and messages that told of one

members == <<inServer, active, inactive>>
counts  == <<kicks, told>>
vars    == <<inServer, active, inactive, panel, run, seen, kicks, told>>

-----------------------------------------------------------------------------
NotPosted   == [shows |-> "nothing", target |-> NoMember]
Picker      == [shows |-> "picker", target |-> NoMember]
Confirm(m)  == [shows |-> "confirm", target |-> m]
Verdict(m)  == [shows |-> "verdict", target |-> m]
PanelStates == {NotPosted, Picker} \cup {Confirm(m) : m \in Members}
                                   \cup {Verdict(m) : m \in Members}

(* needsKick as far as the run has found it, and what the kick came to.    *)
Idle == [mode |-> "none"]
RunOf(mode, p, m) ==
  [mode |-> mode, stage |-> "member", panel |-> p, target |-> m,
   needsKick |-> FALSE, kicked |-> FALSE]
RunStates ==
  {Idle} \cup
  [mode : {"select", "kick", "exec"},
   stage : {"member", "inactive", "answer", "kick", "tell"},
   panel : Panels, target : Members, needsKick : BOOLEAN, kicked : BOOLEAN]

Active(r)    == run[r] # Idle
At(r, stage) == Active(r) /\ run[r].stage = stage
MayBeKicked  == {"member", "not active", "inactive"}

TypeOK ==
  /\ inServer \in SUBSET Members
  /\ active \in SUBSET Members /\ inactive \in SUBSET Members
  /\ panel \in [Panels -> PanelStates]
  /\ run \in [Runs -> RunStates]
  /\ seen \in [Runs -> SUBSET MayBeKicked]
  /\ kicks \in [Members -> Nat] /\ told \in [Members -> Nat]

Init ==
  /\ inServer = Members
  /\ active \in SUBSET Members /\ inactive \in SUBSET Members
  /\ panel = [p \in Panels |-> NotPosted]
  /\ run = [r \in Runs |-> Idle]
  /\ seen = [r \in Runs |-> {}]
  /\ kicks = [m \in Members |-> 0] /\ told = [m \in Members |-> 0]

-----------------------------------------------------------------------------
(* /staff prune and its text twin: without a member they post a picker,    *)
(* with one that is found they hand it to the panel's own command.         *)
PostPicker(p) ==
  /\ panel[p] = NotPosted
  /\ \A r \in Runs : Active(r) => run[r].panel # p
  /\ panel' = [panel EXCEPT ![p] = Picker]
  /\ UNCHANGED <<members, run, counts>>

Begin(r, mode, p, m) ==
  /\ ~Active(r)
  /\ run' = [run EXCEPT ![r] = RunOf(mode, p, m)]
  /\ UNCHANGED <<members, panel, counts>>

PostReview(r, p, m) ==
  /\ m \in inServer
  /\ panel[p] = NotPosted
  /\ \A q \in Runs : Active(q) => run[q].panel # p
  /\ Begin(r, "exec", p, m)

(* A picker is a select, of any member; a confirm has both buttons, a      *)
(* verdict's Kick is disabled.  The click carries the message as it is,    *)
(* and Kick finds its member in the message's text.                        *)
Select(r, p, m) ==
  /\ panel[p] = Picker
  /\ Begin(r, "select", p, m)

PressKick(r, p) ==
  /\ panel[p].shows = "confirm"
  /\ Begin(r, "kick", p, panel[p].target)

PressCancel(p) ==
  /\ panel[p].shows \in {"confirm", "verdict"}
  /\ panel' = [panel EXCEPT ![p] = Picker]
  /\ UNCHANGED <<members, run, counts>>

-----------------------------------------------------------------------------
(* A plausible slip: the Kick button trusts the confirm it is on.          *)
LookUpTrusting(r) ==
  LET m == run[r].target
  IN  /\ At(r, "member")
      /\ run' = IF run[r].mode = "kick" \/ m \in inServer \ active
                THEN [run EXCEPT ![r].stage = "inactive"]
                ELSE [run EXCEPT ![r].stage = "answer"]
      /\ UNCHANGED <<members, panel, counts>>

(* The verdict: getMember and the role Active, then the role Inactive.     *)
LookUp(r) ==
  LET m == run[r].target
  IN  /\ At(r, "member")
      /\ run' = [run EXCEPT ![r].stage =
                   IF m \in inServer \ active THEN "inactive" ELSE "answer"]
      /\ UNCHANGED <<members, panel, counts>>

LookUpInactive(r) ==
  /\ At(r, "inactive")
  /\ run' = [run EXCEPT ![r].stage = "answer",
                        ![r].needsKick = run[r].target \in inactive]
  /\ UNCHANGED <<members, panel, counts>>

(* The answer: a picked member's confirm or verdict.                       *)
Answer(r) ==
  LET m == run[r].target
  IN  /\ At(r, "answer")
      /\ run[r].mode = "kick" => ~run[r].needsKick
      /\ panel' = [panel EXCEPT ![run[r].panel] =
                     IF run[r].needsKick THEN Confirm(m) ELSE Verdict(m)]
      /\ run' = [run EXCEPT ![r] = Idle]
      /\ UNCHANGED <<members, counts>>

(* Kick's answer restores the picker, before the kick: "a slow kick REST   *)
(* call must not eat the 3s ack window".                                   *)
Acknowledge(r) ==
  /\ At(r, "answer")
  /\ run[r].mode = "kick" /\ run[r].needsKick
  /\ panel' = [panel EXCEPT ![run[r].panel] = Picker]
  /\ run' = [run EXCEPT ![r].stage = "kick"]
  /\ UNCHANGED <<members, counts>>

(* exec "kick": done, or refused (hierarchy, permissions, no such member). *)
Kick(r, succeeds) ==
  LET m == run[r].target
  IN  /\ At(r, "kick")
      /\ succeeds => m \in inServer
      /\ inServer' = IF succeeds THEN inServer \ {m} ELSE inServer
      /\ kicks' = IF succeeds THEN [kicks EXCEPT ![m] = @ + 1] ELSE kicks
      /\ run' = [run EXCEPT ![r].stage = "tell", ![r].kicked = succeeds]
      /\ UNCHANGED <<active, inactive, panel, told>>

(* A plausible slip: the kick's answer is not looked at.                   *)
TellKicked(r) ==
  /\ At(r, "tell")
  /\ told' = [told EXCEPT ![run[r].target] = @ + 1]
  /\ run' = [run EXCEPT ![r] = Idle]
  /\ UNCHANGED <<members, panel, kicks>>

(* A plausible slip: a kick is told by looking whether the member is gone. *)
TellOfTheGone(r) ==
  /\ At(r, "tell")
  /\ told' = IF run[r].kicked /\ run[r].target \notin inServer
             THEN [told EXCEPT ![run[r].target] = @ + 1] ELSE told
  /\ run' = [run EXCEPT ![r] = Idle]
  /\ UNCHANGED <<members, panel, kicks>>

Tell(r) ==
  /\ At(r, "tell")
  /\ told' = IF run[r].kicked THEN [told EXCEPT ![run[r].target] = @ + 1] ELSE told
  /\ run' = [run EXCEPT ![r] = Idle]
  /\ UNCHANGED <<members, panel, kicks>>

-----------------------------------------------------------------------------
(* Members come and go, without roles, and roles change hands.             *)
Leave(m) ==
  /\ inServer' = inServer \ {m}
  /\ UNCHANGED <<active, inactive, panel, run, counts>>

Return(m) ==
  /\ m \notin inServer
  /\ kicks[m] = 0 \/ m \in Returning
  /\ kicks[m] < MaxKicks
  /\ inServer' = inServer \cup {m}
  /\ active' = active \ {m}
  /\ inactive' = inactive \ {m}
  /\ UNCHANGED <<panel, run, counts>>

Toggled(S, m) == IF m \in S THEN S \ {m} ELSE S \cup {m}
ChangeActive(m) ==
  /\ m \in inServer
  /\ active' = Toggled(active, m)
  /\ UNCHANGED <<inServer, inactive, panel, run, counts>>
ChangeInactive(m) ==
  /\ m \in inServer
  /\ inactive' = Toggled(inactive, m)
  /\ UNCHANGED <<inServer, active, panel, run, counts>>

-----------------------------------------------------------------------------
(* What is so of a run's member, noted after every step.                   *)
Facts(m, server, withActive, withInactive) ==
  {f \in MayBeKicked : \/ f = "member" /\ m \in server
                       \/ f = "not active" /\ m \notin withActive
                       \/ f = "inactive" /\ m \in withInactive}
Notes ==
  seen' = [r \in Runs |->
             IF run'[r] = Idle THEN {}
             ELSE Facts(run'[r].target, inServer', active', inactive')
                    \cup IF Active(r) THEN seen[r] ELSE {}]

Press(r) ==
  \E p \in Panels : \/ \E m \in Members : PostReview(r, p, m) \/ Select(r, p, m)
                    \/ PressKick(r, p)
GoOn(r) ==
  \/ LookUp(r)
  \/ LookUpInactive(r)
  \/ Answer(r)
  \/ Acknowledge(r)
  \/ \E succeeds \in BOOLEAN : Kick(r, succeeds)
  \/ Tell(r)
Environment ==
  \/ \E p \in Panels : PostPicker(p) \/ PressCancel(p)
  \/ \E m \in Members :
       Leave(m) \/ Return(m) \/ ChangeActive(m) \/ ChangeInactive(m)

RunStep(r) == GoOn(r) /\ Notes

Next ==
  \/ \E r \in Runs : RunStep(r) \/ (Press(r) /\ Notes)
  \/ Environment /\ Notes

Spec == Init /\ [][Next]_vars

(* The bot goes on with a run once it is started.                          *)
FairSpec == Spec /\ \A r \in Runs : WF_vars(RunStep(r))

-----------------------------------------------------------------------------
(* Kick re-checks ("the select can be stale"): a member is only kicked who *)
(* was a member, without Active, and with Inactive since Kick was pressed, *)
(* whatever the confirm says and however many presses overlap.             *)
KickIsRechecked == \A r \in Runs : At(r, "kick") => seen[r] = MayBeKicked

(* "has been kicked!" is said once for every kick that was one, and for    *)
(* nothing else, also when two moderators press Kick on one member.        *)
ToBeTold(m) == {r \in Runs : At(r, "tell") /\ run[r].target = m /\ run[r].kicked}
TellsWhatHappened ==
  \A m \in Members : kicks[m] = told[m] + Cardinality(ToBeTold(m))

(* Every kick is told of in the end, also when the member is back by then, *)
(* or has been kicked again (inactivity_prune_pick.gohtml goes on after    *)
(* the kick): kicks are bounded, so at last none is left to tell.          *)
EveryKickIsTold == <>[](told = kicks)

-----------------------------------------------------------------------------
(* The strengthening the proof of KickIsRechecked needs: what the run has  *)
(* found by now was so since the press.                                    *)
Found ==
  \A r \in Runs :
    /\ At(r, "inactive") => {"member", "not active"} \subseteq seen[r]
    /\ At(r, "answer") /\ run[r].needsKick => seen[r] = MayBeKicked
    /\ At(r, "kick") => seen[r] = MayBeKicked
    /\ At(r, "member") => ~run[r].needsKick
    /\ At(r, "inactive") => ~run[r].needsKick
=============================================================================
