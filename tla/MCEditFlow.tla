----------------------------- MODULE MCEditFlow -----------------------------
(* Instances of EditFlow for TLC.                                          *)
EXTENDS EditFlow, TLC

CONSTANTS lower, upper   \* the names "rule #1" and "Rule #1"

FirstLettersUp == [n \in Names |-> IF n = lower THEN upper ELSE n]

UserSymmetry == Permutations(Users) \cup Permutations(Runs)
=============================================================================
