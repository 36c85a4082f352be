--------------------------- MODULE MCStaffRoster ---------------------------
(* Instances of StaffRoster for TLC.                                       *)
EXTENDS StaffRoster, TLC

(* No role ID contains the digits of another. *)
NoEmbeds == [x \in Roles |-> {}]

(* One ID's digits contain those of every other: IDs pasted together.      *)
PastedTogether ==
  LET pasted == CHOOSE x \in Roles : TRUE
  IN  [x \in Roles |-> {pasted} \ {x}]

(* Crashes of /hiatus leave roles behind for one member at most: what a    *)
(* second one loses is not told apart from what the first one lost.        *)
OneForgotten ==
  \A u, v \in Users : abandoned[u] # {} /\ abandoned[v] # {} => u = v

Symmetry == Permutations(Users) \cup Permutations(Roles) \cup Permutations(Runs)
=============================================================================
