----------------------------- MODULE ValueNums ------------------------------
(***************************************************************************)
(* The numbers of the column value_num, their sum and their order, and the *)
(* number written there for a value that is none (internal/state/db.go).   *)
(***************************************************************************)
EXTENDS Integers

CONSTANTS
  NaN,
  Texts,  \* values that are no numbers
  NumOf   \* the number ToFloat64 reads in each

ASSUME NaNAssumption == NaN \notin Int

ValueNum == Int \cup {NaN}

ASSUME TextsAssumption == Texts \cap ValueNum = {} /\ NumOf \in [Texts -> ValueNum]

ToFloat64(v) == IF v \in Texts THEN NumOf[v] ELSE v

Plus(a, b) == IF a = NaN \/ b = NaN THEN NaN ELSE a + b

(* A plausible slip: NaN is compared as Go's < compares it, with nothing.  *)
BelowUnordered(a, b) == a # NaN /\ b # NaN /\ a < b

(* pgCompare(a, b) < 0: NaN is above every number. *)
Below(a, b) == a # NaN /\ (b = NaN \/ a < b)
=============================================================================
