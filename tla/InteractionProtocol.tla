------------------------ MODULE InteractionProtocol -------------------------
(***************************************************************************)
(* What Discord takes as answers to one interaction, as the emulator       *)
(* states it (internal/runtime/interactions.go): one response, which a     *)
(* deferral counts as; a deferral filled once; followups once the          *)
(* interaction is acknowledged.  The module Interaction implements it.     *)
(***************************************************************************)
EXTENDS Sequences

VARIABLES
  phase,    \* "open", "deferred" (acknowledged, to be filled) or "answered"
  answers   \* the kinds of the answers, in order

Phases    == {"open", "deferred", "answered"}
Responses == {"message", "update", "modal"}
Kinds     == Responses \cup {"deferred_edit", "followup"}

Init == phase \in Phases /\ answers = <<>>

Respond(k) ==
  /\ phase = "open"
  /\ phase' = "answered"
  /\ answers' = Append(answers, k)

Fill ==
  /\ phase = "deferred"
  /\ phase' = "answered"
  /\ answers' = Append(answers, "deferred_edit")

Followup ==
  /\ phase # "open"
  /\ answers' = Append(answers, "followup")
  /\ UNCHANGED phase

Next == (\E k \in Responses : Respond(k)) \/ Fill \/ Followup

Spec == Init /\ [][Next]_<<phase, answers>>
=============================================================================
