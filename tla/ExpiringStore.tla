--------------------------- MODULE ExpiringStore ----------------------------
(***************************************************************************)
(* What a custom command may rely on of the database (internal/state/db.go *)
(* states it in the comments of Get, SetWithExpiry, Incr and DelMultiple): *)
(* a name holds a number or a text or nothing, perhaps until a second that *)
(* is given, and once that second is past it holds nothing.  Beside what   *)
(* it holds it has a count, which dbIncr adds to and which shows only when *)
(* it holds no text.                                                       *)
(*                                                                         *)
(* Of what a name held there is one trace, until it is removed: whether it *)
(* was a number or which text.  When a name that holds nothing is counted  *)
(* again, it holds that text again.  How long anything else stays stored   *)
(* is not told.  MockDB implements this module.                            *)
(***************************************************************************)
EXTENDS ValueNums

CONSTANTS
  Entries,        \* the names, each a user and a key
  Amounts, Ttls,  \* numbers written or added, seconds given
  Number,         \* what is kept of a number
  None            \* no number, no text

VARIABLES
  value,    \* what a name holds
  count,    \* what dbIncr has counted to
  until,    \* the last second it holds it, 0 if it holds it for good
  kept,     \* what it was last set to: Number, a text, or None
  now

Put(e, v, ttl) ==
  /\ value' = [value EXCEPT ![e] = v]
  /\ count' = [count EXCEPT ![e] = ToFloat64(v)]
  /\ until' = [until EXCEPT ![e] = IF ttl > 0 THEN now + ttl ELSE 0]
  /\ kept' = [kept EXCEPT ![e] = IF v \in Texts THEN v ELSE Number]
  /\ UNCHANGED now

Add(e, v) ==
  LET total == IF count[e] = None THEN v ELSE Plus(count[e], v)
  IN  /\ count' = [count EXCEPT ![e] = total]
      /\ value' = [value EXCEPT ![e] = IF kept[e] \in Texts THEN kept[e] ELSE total]
      /\ kept' = [kept EXCEPT ![e] = IF @ = None THEN Number ELSE @]
      /\ UNCHANGED <<until, now>>

Remove(S) ==
  LET Without(f, nothing) == [e \in Entries |-> IF e \in S THEN nothing ELSE f[e]]
  IN  /\ value' = Without(value, None)
      /\ count' = Without(count, None)
      /\ until' = Without(until, 0)
      /\ kept' = Without(kept, None)
      /\ UNCHANGED now

Pass ==
  LET gone == {e \in Entries : until[e] # 0 /\ until[e] < now + 1}
      Without(f, nothing) == [e \in Entries |-> IF e \in gone THEN nothing ELSE f[e]]
  IN  /\ now' = now + 1
      /\ value' = Without(value, None)
      /\ count' = Without(count, None)
      /\ until' = Without(until, 0)
      /\ UNCHANGED kept

Init ==
  /\ value = [e \in Entries |-> None]
  /\ count = [e \in Entries |-> None]
  /\ until = [e \in Entries |-> 0]
  /\ kept = [e \in Entries |-> None]
  /\ now \in Nat \ {0}

Next ==
  \/ \E S \in SUBSET Entries : Remove(S)
  \/ \E e \in Entries, v \in Amounts \cup Texts, ttl \in Ttls : Put(e, v, ttl)
  \/ \E e \in Entries, v \in Amounts : Add(e, v)
  \/ Pass

Spec == Init /\ [][Next]_<<value, count, until, kept, now>>
=============================================================================
