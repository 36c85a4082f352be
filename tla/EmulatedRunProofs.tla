------------------------- MODULE EmulatedRunProofs --------------------------
(***************************************************************************)
(* Proofs about EmulatedRun, for any calls, limits and depth: the types,   *)
(* one run scheduled under a key, the messages numbered in order, and, with *)
(* -strict, nothing done more often than YAGPDB lets one run do it.  Then, *)
(* of the two runs side by side: the one without -strict has noted a limit *)
(* where they differ.                                                      *)
EXTENDS EmulatedRun, SequenceTheorems, FiniteSetTheorems, WellFoundedInduction, TLAPS

-----------------------------------------------------------------------------
(* Lists, of whatever entries.                                             *)
IsList(q) == \E S : q \in Seq(S)

LEMMA ListType ==
  ASSUME NEW q, IsList(q)
  PROVE  /\ Len(q) \in Nat /\ DOMAIN q = 1 .. Len(q)
         /\ q \in Seq(Range(q))
<1>1. PICK S : q \in Seq(S)
  BY DEF IsList
<1>2. Len(q) \in Nat /\ DOMAIN q = 1 .. Len(q) /\ q \in [1 .. Len(q) -> S]
  BY <1>1, LenProperties
<1>3. q \in [1 .. Len(q) -> Range(q)]
  BY <1>2 DEF Range
<1> QED BY <1>2, <1>3, SeqDef

LEMMA ListAppend ==
  ASSUME NEW q, IsList(q), NEW e
  PROVE  /\ IsList(Append(q, e)) /\ Len(Append(q, e)) = Len(q) + 1
         /\ DOMAIN Append(q, e) = 1 .. Len(q) + 1
         /\ \A i \in 1 .. Len(q) : Append(q, e)[i] = q[i]
         /\ Append(q, e)[Len(q) + 1] = e
<1>1. PICK S : q \in Seq(S)
  BY DEF IsList
<1>2. q \in Seq(S \cup {e}) /\ e \in S \cup {e}
  BY <1>1, SeqMonotonic
<1>3. Append(q, e) \in Seq(S \cup {e})
  BY <1>2, AppendProperties
<1> QED BY <1>2, <1>3, AppendProperties, LenProperties DEF IsList

LEMMA ListConcat ==
  ASSUME NEW p, IsList(p), NEW q, IsList(q)
  PROVE  /\ IsList(p \o q) /\ Len(p \o q) = Len(p) + Len(q)
         /\ DOMAIN (p \o q) = 1 .. Len(p) + Len(q)
         /\ \A i \in 1 .. Len(p) : (p \o q)[i] = p[i]
         /\ \A i \in Len(p) + 1 .. Len(p) + Len(q) : (p \o q)[i] = q[i - Len(p)]
<1>1. PICK S : p \in Seq(S)
  BY DEF IsList
<1>2. PICK T : q \in Seq(T)
  BY DEF IsList
<1>3. p \in Seq(S \cup T) /\ q \in Seq(S \cup T)
  BY <1>1, <1>2, SeqMonotonic
<1>4. Len(p) \in Nat /\ Len(q) \in Nat
  BY <1>3, LenProperties
<1>5. p \o q \in Seq(S \cup T) /\ Len(p \o q) = Len(p) + Len(q)
  BY <1>3, ConcatProperties
<1>6. \A i \in 1 .. Len(p) + Len(q) : (p \o q)[i] = IF i <= Len(p) THEN p[i] ELSE q[i - Len(p)]
  BY <1>3, ConcatProperties
<1> QED BY <1>4, <1>5, <1>6, LenProperties DEF IsList

LEMMA ListConcatThree ==
  ASSUME NEW p, IsList(p), NEW q, IsList(q), NEW t, IsList(t)
  PROVE  (p \o q) \o t = p \o (q \o t)
<1>1. PICK S : p \in Seq(S)
  BY DEF IsList
<1>2. PICK T : q \in Seq(T)
  BY DEF IsList
<1>3. PICK U : t \in Seq(U)
  BY DEF IsList
<1> DEFINE V == S \cup T \cup U
<1>4. p \in Seq(V) /\ q \in Seq(V) /\ t \in Seq(V)
  BY <1>1, <1>2, <1>3, SeqMonotonic
<1> HIDE DEF V
<1> QED BY <1>4, ConcatAssociative

LEMMA ListConcatAppend ==
  ASSUME NEW p, IsList(p), NEW q, IsList(q), NEW e
  PROVE  p \o Append(q, e) = Append(p \o q, e)
<1>1. /\ Append(q, e) = q \o <<e>>
      /\ Append(p \o q, e) = (p \o q) \o <<e>>
      /\ IsList(<<e>>)
  <2>1. PICK S : q \in Seq(S) /\ p \o q \in Seq(S)
    <3>1. q \in Seq(Range(q)) /\ p \o q \in Seq(Range(p \o q))
      BY ListType, ListConcat
    <3> QED BY <3>1, SeqMonotonic
  <2>2. q \in Seq(S \cup {e}) /\ p \o q \in Seq(S \cup {e}) /\ e \in S \cup {e}
    BY <2>1, SeqMonotonic
  <2>3. <<e>> \in Seq({e})
    OBVIOUS
  <2> QED BY <2>2, <2>3, AppendIsConcat DEF IsList
<1> QED BY <1>1, ListConcatThree

LEMMA ListEmpty ==
  /\ IsList(<<>>) /\ Len(<<>>) = 0
  /\ \A q : IsList(q) => <<>> \o q = q /\ q \o <<>> = q
BY EmptySeq, ConcatEmptySeq DEF IsList

-----------------------------------------------------------------------------
(* Induction on 1 .. n, for a set: the theorems of NaturalsInduction are     *)
(* about an operator, and so out of the provers' reach.                     *)
LEMMA Least ==
  ASSUME NEW T \in SUBSET Nat, T # {}
  PROVE  \E x \in T : \A y \in T : x <= y
<1> DEFINE R == OpToRel(<, Nat)
<1>1. IsWellFoundedOn(R, Nat)
  BY NatLessThanWellFounded
<1>2. \E x \in T : \A y \in T : ~ (<<y, x>> \in R)
  <2> HIDE DEF R
  <2> QED BY <1>1, WFMin
<1>3. \A x, y \in Nat : <<y, x>> \in R <=> y < x
  BY DEF OpToRel
<1>4. PICK x \in T : \A y \in T : ~ (<<y, x>> \in R)
  BY <1>2
<1>5. ASSUME NEW y \in T PROVE x <= y
  <2> HIDE DEF R
  <2>1. x \in Nat /\ y \in Nat
    OBVIOUS
  <2>2. ~ (y < x)
    BY <2>1, <1>3, <1>4
  <2> QED BY <2>1, <2>2
<1> QED BY <1>4, <1>5

LEMMA From0 ==
  ASSUME NEW n \in Nat, NEW S, 0 \in S, \A k \in 0 .. n - 1 : k \in S => k + 1 \in S
  PROVE  0 .. n \subseteq S
<1> DEFINE T == (0 .. n) \ S
<1> SUFFICES ASSUME T # {} PROVE FALSE
  OBVIOUS
<1>1. PICK x \in T : \A y \in T : x <= y
  <2>1. T \in SUBSET Nat
    OBVIOUS
  <2> HIDE DEF T
  <2> QED BY <2>1, Least
<1>2. x # 0 /\ x - 1 \in 0 .. n - 1 /\ x - 1 \notin T
  BY <1>1
<1> QED BY <1>2

-----------------------------------------------------------------------------
(* DeleteFunc is a recursive function: f[i] is what is left of the first i  *)
(* entries, and came[i] says where its entries were.                        *)
Keeps(f, q, gone) ==
  /\ f[0] = <<>>
  /\ \A i \in 1 .. Len(q) : f[i] = IF q[i] \in gone THEN f[i-1] ELSE Append(f[i-1], q[i])

LEMMA DeleteFuncIs ==
  ASSUME NEW q, IsList(q), NEW gone
  PROVE  \E f : Keeps(f, q, gone) /\ DeleteFunc(q, gone) = f[Len(q)]
<1> DEFINE n == Len(q)
           Def(f, i) == IF i = 0 THEN <<>> ELSE IF q[i] \in gone THEN f[i-1] ELSE Append(f[i-1], q[i])
           Is(k) == \E f : f = [i \in 0 .. k |-> Def(f, i)]
<1>0. n \in Nat
  BY ListType
<1>1. Is(0)
  <2> DEFINE f == [i \in 0 .. 0 |-> <<>>]
  <2>1. f = [i \in 0 .. 0 |-> Def(f, i)]
    OBVIOUS
  <2> QED BY <2>1
<1>2. ASSUME NEW k \in 0 .. n - 1, Is(k) PROVE Is(k + 1)
  <2>1. PICK f : f = [i \in 0 .. k |-> Def(f, i)]
    BY <1>2
  <2> DEFINE g == [i \in 0 .. k + 1 |-> Def(f, i)]
  <2>2. ASSUME NEW i \in 0 .. k + 1 PROVE Def(f, i) = Def(g, i)
    <3>1. CASE i = 0
      BY <3>1
    <3>2. CASE i # 0
      <4>1. i - 1 \in 0 .. k /\ i - 1 \in 0 .. k + 1
        BY <3>2, <1>0
      <4>2. g[i-1] = Def(f, i - 1)
        BY <4>1
      <4>3. f[i-1] = Def(f, i - 1)
        <5> HIDE DEF Def
        <5> QED BY <4>1, <2>1
      <4>4. f[i-1] = g[i-1]
        BY <4>2, <4>3
      <4> HIDE DEF g
      <4> QED BY <4>4, <3>2
    <3> QED BY <3>1, <3>2
  <2>3. g = [i \in 0 .. k + 1 |-> Def(g, i)]
    <3> HIDE DEF Def
    <3> QED BY <2>2
  <2> HIDE DEF g
  <2> QED BY <2>3
<1>3. Is(n)
  <2> DEFINE S == {k \in 0 .. n : Is(k)}
  <2> HIDE DEF Is
  <2>1. 0 \in S /\ \A k \in 0 .. n - 1 : k \in S => k + 1 \in S
    BY <1>0, <1>1, <1>2
  <2>2. 0 .. n \subseteq S
    <3> HIDE DEF S, n
    <3> QED BY <2>1, <1>0, From0
  <2> QED BY <2>2, <1>0
<1> DEFINE f == CHOOSE f : f = [i \in 0 .. n |-> Def(f, i)]
<1>4. f = [i \in 0 .. n |-> Def(f, i)]
  BY <1>3
<1>5. DeleteFunc(q, gone) = f[n]
  BY DEF DeleteFunc
<1> HIDE DEF f
<1>6. \A i \in 0 .. n : f[i] = Def(f, i)
  <2> HIDE DEF Def
  <2> QED BY <1>4
<1>7. Keeps(f, q, gone)
  <2>1. f[0] = <<>>
    BY <1>0, <1>6
  <2>2. ASSUME NEW i \in 1 .. n PROVE f[i] = IF q[i] \in gone THEN f[i-1] ELSE Append(f[i-1], q[i])
    <3>1. i \in 0 .. n /\ i # 0
      BY <1>0
    <3> QED BY <1>6, <3>1
  <2> QED BY <2>1, <2>2 DEF Keeps
<1> QED BY <1>5, <1>7

(* What is left of a list comes from it, in its order, and is not deleted.  *)
IsLeftOf(p, q, m, gone) ==
  /\ IsList(p)
  /\ \E came \in [1 .. Len(p) -> 1 .. m] :
       /\ \A i \in 1 .. Len(p) : p[i] = q[came[i]] /\ q[came[i]] \notin gone
       /\ \A i, j \in 1 .. Len(p) : i < j => came[i] < came[j]

LEMMA DeleteFuncLeaves ==
  ASSUME NEW q, IsList(q), NEW gone
  PROVE  IsLeftOf(DeleteFunc(q, gone), q, Len(q), gone)
<1> DEFINE n == Len(q)
<1>0. n \in Nat
  BY ListType
<1>1. PICK f : Keeps(f, q, gone) /\ DeleteFunc(q, gone) = f[n]
  BY DeleteFuncIs
<1> DEFINE S == {i \in 0 .. n : IsLeftOf(f[i], q, i, gone)}
<1>2. 0 \in S
  <2>1. f[0] = <<>> /\ IsList(<<>>) /\ Len(<<>>) = 0
    BY <1>1, ListEmpty DEF Keeps
  <2>2. PICK none : none \in [1 .. 0 -> 1 .. 0]
    <3>1. [i \in 1 .. 0 |-> i] \in [1 .. 0 -> 1 .. 0]
      OBVIOUS
    <3> QED BY <3>1
  <2>3. IsLeftOf(<<>>, q, 0, gone)
    <3> DEFINE empty == <<>>
    <3>1. Len(empty) = 0 /\ IsList(empty) /\ 1 .. 0 = {}
      BY <2>1
    <3> HIDE DEF empty
    <3>2. IsLeftOf(empty, q, 0, gone)
      BY <3>1, <2>2 DEF IsLeftOf
    <3> QED BY <3>2 DEF empty
  <2> QED BY <2>1, <2>3, <1>0
<1>3. ASSUME NEW k \in 0 .. n - 1, k \in S PROVE k + 1 \in S
  <2>0. k + 1 \in 0 .. n /\ k + 1 \in 1 .. n /\ (k + 1) - 1 = k /\ k \in Nat
    BY <1>0
  <2>1. IsList(f[k]) /\ Len(f[k]) \in Nat
    BY <1>3, ListType DEF IsLeftOf
  <2>2. PICK came \in [1 .. Len(f[k]) -> 1 .. k] :
          /\ \A i \in 1 .. Len(f[k]) : f[k][i] = q[came[i]] /\ q[came[i]] \notin gone
          /\ \A i, j \in 1 .. Len(f[k]) : i < j => came[i] < came[j]
    BY <1>3 DEF IsLeftOf
  <2>3. f[k + 1] = IF q[k + 1] \in gone THEN f[k] ELSE Append(f[k], q[k + 1])
    BY <1>1, <2>0 DEF Keeps
  <2>4. CASE q[k + 1] \in gone
    <3>1. f[k + 1] = f[k] /\ came \in [1 .. Len(f[k]) -> 1 .. k + 1]
      BY <2>0, <2>3, <2>4
    <3> QED BY <3>1, <2>0, <2>1, <2>2 DEF IsLeftOf
  <2>5. CASE q[k + 1] \notin gone
    <3> DEFINE p == Append(f[k], q[k + 1])
               m == Len(f[k])
               to == [i \in 1 .. m + 1 |-> IF i <= m THEN came[i] ELSE k + 1]
    <3>1. IsList(p) /\ Len(p) = m + 1 /\ (\A i \in 1 .. m : p[i] = f[k][i]) /\ p[m + 1] = q[k + 1]
      BY <2>1, ListAppend
    <3>2. f[k + 1] = p
      BY <2>3, <2>5
    <3> HIDE DEF p
    <3>3. to \in [1 .. m + 1 -> 1 .. k + 1]
      BY <2>0, <2>1, <2>2
    <3>4. \A i \in 1 .. m + 1 : p[i] = q[to[i]] /\ q[to[i]] \notin gone
      BY <3>1, <2>1, <2>2, <2>5
    <3>5. \A i, j \in 1 .. m + 1 : i < j => to[i] < to[j]
      BY <2>0, <2>1, <2>2
    <3> HIDE DEF to
    <3>6. IsLeftOf(p, q, k + 1, gone)
      BY <3>1, <3>3, <3>4, <3>5 DEF IsLeftOf
    <3> QED BY <3>2, <3>6, <2>0
  <2> QED BY <2>4, <2>5
<1>4. 0 .. n \subseteq S
  <2> HIDE DEF S, n
  <2> QED BY <1>0, <1>2, <1>3, From0
<1> QED BY <1>0, <1>1, <1>4

-----------------------------------------------------------------------------
(* FlattenSeq is a recursive function too: f[i] is the first i lists of s,  *)
(* one after the other.                                                     *)
Flattens(f, s, n) ==
  /\ f[1] = s[1]
  /\ \A i \in 2 .. n : f[i] = f[i-1] \o s[i]

LEMMA FlattenIs ==
  ASSUME NEW n \in Nat \ {0}, NEW s, DOMAIN s = 1 .. n, IsList(s)
  PROVE  \E f : Flattens(f, s, n) /\ FlattenSeq(s) = f[n]
<1> DEFINE Def(f, i) == IF i = 1 THEN s[i] ELSE f[i-1] \o s[i]
           Is(k) == \E f : f = [i \in 1 .. k |-> Def(f, i)]
           S == {k \in 0 .. n : k > 0 => Is(k)}
<1>1. 0 \in S
  OBVIOUS
<1>a. Is(1)
  <2> DEFINE f == [i \in 1 .. 1 |-> s[i]]
  <2>1. f = [i \in 1 .. 1 |-> Def(f, i)]
    OBVIOUS
  <2> QED BY <2>1
<1>2. ASSUME NEW k \in 0 .. n - 1, k > 0 => Is(k) PROVE Is(k + 1)
  <2>1. CASE k = 0
    <3> HIDE DEF Is
    <3>1. k + 1 = 1
      BY <2>1
    <3> QED BY <1>a, <3>1
  <2>2. CASE k > 0
    <3>1. PICK f : f = [i \in 1 .. k |-> Def(f, i)]
      BY <1>2, <2>2
    <3> DEFINE g == [i \in 1 .. k + 1 |-> Def(f, i)]
    <3>2. ASSUME NEW i \in 1 .. k + 1 PROVE Def(f, i) = Def(g, i)
      <4>1. CASE i = 1
        BY <4>1
      <4>2. CASE i # 1
        <5>1. i - 1 \in 1 .. k /\ i - 1 \in 1 .. k + 1
          BY <4>2
        <5>2. g[i-1] = Def(f, i - 1)
          BY <5>1
        <5>3. f[i-1] = Def(f, i - 1)
          <6> HIDE DEF Def
          <6> QED BY <5>1, <3>1
        <5>4. f[i-1] = g[i-1]
          BY <5>2, <5>3
        <5> HIDE DEF g
        <5> QED BY <5>4, <4>2
      <4> QED BY <4>1, <4>2
    <3>3. g = [i \in 1 .. k + 1 |-> Def(g, i)]
      <4> HIDE DEF Def
      <4> QED BY <3>2
    <3> HIDE DEF g
    <3> QED BY <3>3
  <2> HIDE DEF Is
  <2> QED BY <2>1, <2>2
<1>3. Is(n)
  <2> HIDE DEF Is
  <2>1. \A k \in 0 .. n - 1 : k \in S => k + 1 \in S
    BY <1>2
  <2>2. 0 .. n \subseteq S
    <3> HIDE DEF S
    <3> QED BY <1>1, <2>1, From0
  <2> QED BY <2>2
<1> DEFINE f == CHOOSE f : f = [i \in 1 .. n |-> Def(f, i)]
<1>4. f = [i \in 1 .. n |-> Def(f, i)]
  BY <1>3
<1>5. Len(s) = n
  BY ListType
<1>6. FlattenSeq(s) = f[n]
  BY <1>5 DEF FlattenSeq
<1> HIDE DEF f
<1>7. \A i \in 1 .. n : f[i] = Def(f, i)
  <2> HIDE DEF Def
  <2> QED BY <1>4
<1>8. ASSUME NEW i \in 2 .. n PROVE f[i] = f[i-1] \o s[i]
  <2>1. i \in 1 .. n /\ i # 1
    OBVIOUS
  <2> QED BY <1>7, <2>1
<1>9. f[1] = s[1]
  <2>1. 1 \in 1 .. n
    OBVIOUS
  <2> QED BY <1>7, <2>1
<1> QED BY <1>6, <1>8, <1>9 DEF Flattens

(* The first n lists of a longer one make the same.                         *)
SameLists(s, t, n) == \A i \in 1 .. n : s[i] = t[i]

LEMMA FlattensSame ==
  ASSUME NEW n \in Nat \ {0}, NEW s, NEW t, NEW f, NEW g, Flattens(f, s, n), Flattens(g, t, n), SameLists(s, t, n)
  PROVE  f[n] = g[n]
<1> DEFINE S == {i \in 0 .. n : i > 0 => f[i] = g[i]}
<1>1. 0 \in S
  OBVIOUS
<1>2. ASSUME NEW k \in 0 .. n - 1, k \in S PROVE k + 1 \in S
  <2>1. k + 1 \in 1 .. n /\ k + 1 \in 0 .. n /\ s[k + 1] = t[k + 1]
    BY DEF SameLists
  <2>2. CASE k = 0
    BY <2>1, <2>2 DEF Flattens
  <2>3. CASE k > 0
    <3>1. k + 1 \in 2 .. n /\ (k + 1) - 1 = k /\ f[k] = g[k]
      BY <1>2, <2>3
    <3>2. f[k + 1] = f[k] \o s[k + 1] /\ g[k + 1] = g[k] \o t[k + 1]
      BY <3>1 DEF Flattens
    <3> QED BY <3>1, <3>2, <2>1
  <2> QED BY <2>2, <2>3
<1>3. 0 .. n \subseteq S
  <2> HIDE DEF S
  <2> QED BY <1>1, <1>2, From0
<1>4. n \in S
  <2> HIDE DEF S
  <2> QED BY <1>3
<1> QED BY <1>4

AllLists(s, n) == \A i \in 1 .. n : IsList(s[i])

LEMMA FlattensList ==
  ASSUME NEW n \in Nat \ {0}, NEW s, NEW f, Flattens(f, s, n), AllLists(s, n)
  PROVE  IsList(f[n])
<1> DEFINE S == {i \in 0 .. n : i > 0 => IsList(f[i])}
<1>1. 0 \in S
  OBVIOUS
<1>2. ASSUME NEW k \in 0 .. n - 1, k \in S PROVE k + 1 \in S
  <2>1. k + 1 \in 1 .. n /\ k + 1 \in 0 .. n /\ IsList(s[k + 1])
    BY DEF AllLists
  <2>2. CASE k = 0
    BY <2>1, <2>2 DEF Flattens
  <2>3. CASE k > 0
    <3>1. k + 1 \in 2 .. n /\ (k + 1) - 1 = k /\ IsList(f[k])
      BY <1>2, <2>3
    <3>2. f[k + 1] = f[k] \o s[k + 1]
      BY <3>1 DEF Flattens
    <3>3. IsList(f[k] \o s[k + 1])
      BY <3>1, <2>1, ListConcat
    <3> QED BY <3>2, <3>3, <2>1
  <2> QED BY <2>2, <2>3
<1>3. 0 .. n \subseteq S
  <2> HIDE DEF S
  <2> QED BY <1>1, <1>2, From0
<1>4. n \in S
  <2> HIDE DEF S
  <2> QED BY <1>3
<1> QED BY <1>4

(* What a list of lists makes is what those before its last make, and then its last. *)
ListOfLists(s, n) == DOMAIN s = 1 .. n /\ IsList(s) /\ AllLists(s, n)

LEMMA FlattenOne ==
  ASSUME NEW s, ListOfLists(s, 1)
  PROVE  FlattenSeq(s) = s[1]
<1> DEFINE n == 1
<1>1. n \in Nat \ {0} /\ DOMAIN s = 1 .. n /\ IsList(s)
  BY DEF ListOfLists
<1> HIDE DEF n
<1>2. PICK f : Flattens(f, s, n) /\ FlattenSeq(s) = f[n]
  BY <1>1, FlattenIs
<1> QED BY <1>2 DEF Flattens, n

LEMMA FlattenLast ==
  ASSUME NEW n \in Nat \ {0}, NEW s, ListOfLists(s, n + 1), NEW t, ListOfLists(t, n), SameLists(s, t, n)
  PROVE  FlattenSeq(s) = FlattenSeq(t) \o s[n + 1] /\ IsList(FlattenSeq(t))
<1>1. PICK f : Flattens(f, s, n + 1) /\ FlattenSeq(s) = f[n + 1]
  BY FlattenIs DEF ListOfLists
<1>2. PICK g : Flattens(g, t, n) /\ FlattenSeq(t) = g[n]
  BY FlattenIs DEF ListOfLists
<1>3. n + 1 \in 2 .. n + 1 /\ (n + 1) - 1 = n /\ Flattens(f, s, n)
  <2>1. n + 1 \in 2 .. n + 1 /\ (n + 1) - 1 = n
    OBVIOUS
  <2>2. ASSUME NEW i \in 2 .. n PROVE f[i] = f[i-1] \o s[i]
    <3>1. i \in 2 .. n + 1
      OBVIOUS
    <3> QED BY <1>1, <3>1 DEF Flattens
  <2>3. f[1] = s[1]
    BY <1>1 DEF Flattens
  <2> QED BY <2>1, <2>2, <2>3 DEF Flattens
<1>4. f[n] = g[n]
  BY <1>2, <1>3, FlattensSame
<1>5. f[n + 1] = f[n] \o s[n + 1]
  BY <1>1, <1>3 DEF Flattens
<1>6. IsList(g[n])
  BY <1>2, FlattensList DEF ListOfLists
<1> QED BY <1>1, <1>2, <1>4, <1>5, <1>6

-----------------------------------------------------------------------------
(* The types of a context and of a run, of which n calls have been counted. *)
ContextFields ==
  {"id", "channel", "count", "setFor", "inTry", "known", "created", "posts", "output", "deletes", "reactions",
   "slept", "cannotSend", "effects", "warned"}
RunFields == {"stack", "status", "sent", "threads", "scheduled", "started"}

IsContext(c, n) ==
  /\ c = [f \in ContextFields |-> c[f]]
  /\ c.id \in Nat /\ c.reactions \in Nat
  /\ c.count \in [Counters -> 0 .. n]
  /\ c.output \in 0 .. LenientOutput
  /\ IsList(c.effects)

IsRun(r, n) ==
  /\ r = [f \in RunFields |-> r[f]]
  /\ IsList(r.stack) /\ Len(r.stack) \in 1 .. MaxDepth + 1
  /\ \A i \in 1 .. Len(r.stack) : IsContext(r.stack[i], n)
  /\ r.status \in {"running", "done", "failed"}
  /\ r.sent \in Nat /\ r.started \in Nat /\ IsList(r.scheduled)

LEMMA NewContext ==
  ASSUME NEW n \in Nat, NEW id \in Nat, NEW channel, NEW known, NEW posts, NEW slept, NEW cannotSend
  PROVE  LET c == Context(id, channel, known, posts, slept, cannotSend)
         IN IsContext(c, n) /\ c.id = id /\ c.effects = <<>>
<1> DEFINE c == Context(id, channel, known, posts, slept, cannotSend)
<1>1. c = [id |-> c.id, channel |-> c.channel, count |-> c.count, setFor |-> c.setFor, inTry |-> c.inTry,
           known |-> c.known, created |-> c.created, posts |-> c.posts, output |-> c.output, deletes |-> c.deletes,
           reactions |-> c.reactions, slept |-> c.slept, cannotSend |-> c.cannotSend, effects |-> c.effects,
           warned |-> c.warned]
  BY DEF Context
<1>2. /\ c.id = id /\ c.reactions = 0 /\ c.effects = <<>> /\ c.count = [k \in Counters |-> 0]
      /\ c.output = 0
  BY DEF Context
<1> HIDE DEF c
<1>3. c = [f \in ContextFields |-> c[f]]
  <2>1. DOMAIN c = ContextFields
    BY <1>1 DEF ContextFields
  <2>2. c = [f \in DOMAIN c |-> c[f]]
    BY <1>1
  <2> QED BY <2>1, <2>2
<1>4. IsContext(c, n)
  BY <1>2, <1>3, ListEmpty, EmulatedRunAssumption DEF IsContext
<1> QED BY <1>2, <1>4 DEF c

LEMMA Tops ==
  ASSUME NEW n, NEW r, IsRun(r, n)
  PROVE  /\ Len(r.stack) \in Nat \ {0} /\ DOMAIN r.stack = 1 .. Len(r.stack)
         /\ Top(r) = r.stack[Len(r.stack)] /\ IsContext(Top(r), n)
<1>1. IsList(r.stack) /\ Len(r.stack) \in 1 .. MaxDepth + 1 /\ MaxDepth \in Nat
  BY EmulatedRunAssumption DEF IsRun
<1>2. Len(r.stack) \in Nat \ {0} /\ DOMAIN r.stack = 1 .. Len(r.stack)
  BY <1>1, ListType
<1>3. Len(r.stack) \in 1 .. Len(r.stack)
  BY <1>2
<1>4. IsContext(r.stack[Len(r.stack)], n)
  BY <1>3 DEF IsRun
<1> QED BY <1>2, <1>4 DEF Top, Last

(* WithTop changes one context, and nothing else.                           *)
Replaces(q, r, c) ==
  /\ q.stack = [r.stack EXCEPT ![Len(r.stack)] = c]
  /\ Top(q) = c /\ Len(q.stack) = Len(r.stack)
  /\ \A i \in 1 .. Len(r.stack) - 1 : q.stack[i] = r.stack[i]
  /\ \A f \in RunFields \ {"stack"} : q[f] = r[f]

LEMMA WithTopIs ==
  ASSUME NEW n, NEW r, IsRun(r, n), NEW c, IsContext(c, n)
  PROVE  IsRun(WithTop(r, c), n) /\ Replaces(WithTop(r, c), r, c)
<1> DEFINE s == [r.stack EXCEPT ![Len(r.stack)] = c]
<1>0. Len(r.stack) \in Nat \ {0} /\ DOMAIN r.stack = 1 .. Len(r.stack)
  BY Tops
<1>1. WithTop(r, c) = [r EXCEPT !.stack = s]
  BY DEF WithTop, IsRun, RunFields
<1>2. IsList(s) /\ Len(s) = Len(r.stack) /\ s[Len(r.stack)] = c
  <2>1. PICK S : r.stack \in Seq(S)
    BY DEF IsRun, IsList
  <2>2. s \in Seq(S \cup {c})
    BY <2>1, <1>0
  <2> QED BY <2>1, <2>2, <1>0 DEF IsList
<1>3. \A i \in 1 .. Len(s) : IsContext(s[i], n)
  BY <1>0, <1>2 DEF IsRun
<1>4. \A i \in 1 .. Len(r.stack) - 1 : s[i] = r.stack[i]
  BY <1>0
<1> DEFINE q == WithTop(r, c)
<1>5. q.stack = s /\ q = [f \in RunFields |-> q[f]] /\ \A f \in RunFields \ {"stack"} : q[f] = r[f]
  <2> HIDE DEF s
  <2> QED BY <1>1 DEF IsRun, RunFields
<1>6. Replaces(q, r, c)
  <2> HIDE DEF q
  <2> QED BY <1>2, <1>4, <1>5 DEF Replaces, Top, Last
<1>7. IsRun(q, n)
  <2> HIDE DEF q, s
  <2> QED BY <1>0, <1>2, <1>3, <1>5 DEF IsRun, RunFields
<1> QED BY <1>6, <1>7

-----------------------------------------------------------------------------
(* What the first k contexts of a run have recorded.                        *)
EffectsOf(r, k) == [i \in 1 .. k |-> r.stack[i].effects]
Before(r, k) == IF k = 0 THEN <<>> ELSE FlattenSeq(EffectsOf(r, k))

LEMMA EffectsAreLists ==
  ASSUME NEW n, NEW r, IsRun(r, n), NEW k \in 1 .. Len(r.stack)
  PROVE  ListOfLists(EffectsOf(r, k), k)
<1> DEFINE s == EffectsOf(r, k)
<1>0. Len(r.stack) \in Nat /\ k \in Nat
  BY Tops
<1>1. DOMAIN s = 1 .. k /\ \A i \in 1 .. k : s[i] = r.stack[i].effects
  BY DEF EffectsOf
<1>2. IsList(s)
  <2>1. s \in [1 .. k -> Range(s)]
    BY <1>1 DEF EffectsOf, Range
  <2>2. s \in Seq(Range(s))
    <3> HIDE DEF s
    <3> QED BY <2>1, <1>0, SeqDef
  <2> QED BY <2>2 DEF IsList
<1>3. AllLists(s, k)
  <2>1. ASSUME NEW i \in 1 .. k PROVE IsList(s[i])
    <3>1. i \in 1 .. Len(r.stack)
      BY <1>0
    <3> QED BY <3>1, <1>1 DEF IsRun, IsContext
  <2> HIDE DEF s
  <2> QED BY <2>1 DEF AllLists
<1> HIDE DEF s
<1>4. ListOfLists(s, k)
  BY <1>1, <1>2, <1>3 DEF ListOfLists
<1> QED BY <1>4 DEF s

LEMMA BeforeIs ==
  ASSUME NEW n, NEW r, IsRun(r, n), NEW k \in 1 .. Len(r.stack)
  PROVE  Before(r, k) = Before(r, k - 1) \o r.stack[k].effects /\ IsList(Before(r, k - 1)) /\ IsList(Before(r, k))
<1>0. Len(r.stack) \in Nat /\ k \in Nat \ {0} /\ IsList(r.stack[k].effects)
  <2>1. Len(r.stack) \in Nat
    BY Tops
  <2>2. IsContext(r.stack[k], n)
    BY DEF IsRun
  <2> QED BY <2>1, <2>2 DEF IsContext
<1>1. Before(r, k) = FlattenSeq(EffectsOf(r, k)) /\ EffectsOf(r, k)[k] = r.stack[k].effects
  BY <1>0 DEF Before, EffectsOf
<1>2. Before(r, k) = Before(r, k - 1) \o r.stack[k].effects /\ IsList(Before(r, k - 1))
  <2>1. CASE k = 1
    <3>1. FlattenSeq(EffectsOf(r, 1)) = EffectsOf(r, 1)[1]
      BY <2>1, EffectsAreLists, FlattenOne
    <3>2. Before(r, k - 1) = <<>>
      BY <2>1 DEF Before
    <3> QED BY <1>0, <1>1, <2>1, <3>1, <3>2, ListEmpty
  <2>2. CASE k # 1
    <3> DEFINE m == k - 1
    <3>1. m \in Nat \ {0} /\ k = m + 1 /\ m \in 1 .. Len(r.stack)
      BY <2>2, <1>0
    <3>2. Before(r, m) = FlattenSeq(EffectsOf(r, m))
      BY <3>1 DEF Before
    <3>3. SameLists(EffectsOf(r, k), EffectsOf(r, m), m)
      BY <3>1 DEF SameLists, EffectsOf
    <3> HIDE DEF m
    <3>4. ListOfLists(EffectsOf(r, m + 1), m + 1) /\ ListOfLists(EffectsOf(r, m), m)
      BY <3>1, EffectsAreLists
    <3>5. FlattenSeq(EffectsOf(r, m + 1)) = FlattenSeq(EffectsOf(r, m)) \o EffectsOf(r, m + 1)[m + 1]
          /\ IsList(FlattenSeq(EffectsOf(r, m)))
      BY <3>1, <3>3, <3>4, FlattenLast
    <3> QED BY <3>1, <3>2, <3>5, <1>1 DEF m
  <2> QED BY <2>1, <2>2
<1>3. IsList(Before(r, k))
  BY <1>0, <1>2, ListConcat
<1> QED BY <1>2, <1>3

LEMMA BeforeSame ==
  ASSUME NEW r, NEW q, NEW k \in Nat, SameLists(r.stack, q.stack, k)
  PROVE  Before(r, k) = Before(q, k)
BY DEF SameLists, Before, EffectsOf

LEMMA RecordedIs ==
  ASSUME NEW n, NEW r, IsRun(r, n)
  PROVE  /\ Recorded(r) = Before(r, Len(r.stack)) /\ IsList(Recorded(r))
         /\ Recorded(r) = Before(r, Len(r.stack) - 1) \o Top(r).effects
         /\ IsList(Before(r, Len(r.stack) - 1))
<1>1. Len(r.stack) \in Nat \ {0} /\ Len(r.stack) \in 1 .. Len(r.stack) /\ Top(r) = r.stack[Len(r.stack)]
  BY Tops
<1>2. Recorded(r) = Before(r, Len(r.stack))
  BY <1>1, Tops DEF Recorded, Before, EffectsOf
<1> QED BY <1>1, <1>2, BeforeIs

-----------------------------------------------------------------------------
(* How often something is on record, and how the messages are numbered.     *)
Positions(q, id, kinds) == {i \in DOMAIN q : q[i].by = id /\ q[i].of \in kinds}

LEMMA PositionsType ==
  ASSUME NEW q, IsList(q), NEW id, NEW kinds
  PROVE  IsFiniteSet(Positions(q, id, kinds)) /\ Cardinality(Positions(q, id, kinds)) \in Nat
<1>0. Len(q) \in Nat /\ DOMAIN q = 1 .. Len(q)
  BY ListType
<1>1. Positions(q, id, kinds) \in SUBSET (1 .. Len(q)) /\ IsFiniteSet(1 .. Len(q))
  BY <1>0, FS_Interval DEF Positions
<1>2. IsFiniteSet(Positions(q, id, kinds))
  BY <1>1, FS_Subset
<1> QED BY <1>2, FS_CardinalityType

LEMMA PositionsQuiet ==
  ASSUME NEW q, IsList(q), NEW t, IsList(t), NEW id, NEW kinds, Positions(t, id, kinds) = {}
  PROVE  Positions(q \o t, id, kinds) = Positions(q, id, kinds)
<1>1. Len(q) \in Nat /\ Len(t) \in Nat /\ DOMAIN q = 1 .. Len(q) /\ DOMAIN t = 1 .. Len(t)
  BY ListType
<1>2. /\ DOMAIN (q \o t) = 1 .. Len(q) + Len(t)
      /\ \A i \in 1 .. Len(q) : (q \o t)[i] = q[i]
      /\ \A i \in Len(q) + 1 .. Len(q) + Len(t) : (q \o t)[i] = t[i - Len(q)]
  BY ListConcat
<1>3. ASSUME NEW i \in Positions(q \o t, id, kinds) PROVE i \in Positions(q, id, kinds)
  <2>1. i \in 1 .. Len(q) + Len(t)
    BY <1>2 DEF Positions
  <2>2. CASE i <= Len(q)
    <3>1. i \in 1 .. Len(q)
      BY <1>1, <2>1, <2>2
    <3> QED BY <3>1, <1>1, <1>2 DEF Positions
  <2>3. CASE ~(i <= Len(q))
    <3>1. i \in Len(q) + 1 .. Len(q) + Len(t) /\ i - Len(q) \in DOMAIN t
      BY <1>1, <2>1, <2>3
    <3>2. i - Len(q) \in Positions(t, id, kinds)
      BY <3>1, <1>2 DEF Positions
    <3> QED BY <3>2
  <2> QED BY <2>2, <2>3
<1>4. ASSUME NEW i \in Positions(q, id, kinds) PROVE i \in Positions(q \o t, id, kinds)
  <2>1. i \in 1 .. Len(q) /\ i \in 1 .. Len(q) + Len(t)
    BY <1>1 DEF Positions
  <2> QED BY <2>1, <1>2 DEF Positions
<1> QED BY <1>3, <1>4

LEMMA PositionsOne ==
  ASSUME NEW q, IsList(q), NEW e, NEW kinds, e.of \in kinds
  PROVE  /\ Positions(Append(q, e), e.by, kinds) = Positions(q, e.by, kinds) \cup {Len(q) + 1}
         /\ Cardinality(Positions(Append(q, e), e.by, kinds)) = Cardinality(Positions(q, e.by, kinds)) + 1
<1> DEFINE P == Positions(q, e.by, kinds)
<1>1. Len(q) \in Nat /\ DOMAIN q = 1 .. Len(q)
  BY ListType
<1>2. /\ DOMAIN Append(q, e) = 1 .. Len(q) + 1
      /\ \A i \in 1 .. Len(q) : Append(q, e)[i] = q[i]
      /\ Append(q, e)[Len(q) + 1] = e
  BY ListAppend
<1>3. Positions(Append(q, e), e.by, kinds) = P \cup {Len(q) + 1}
  BY <1>1, <1>2 DEF Positions
<1>4. Len(q) + 1 \notin P /\ IsFiniteSet(P)
  <2>1. IsFiniteSet(P)
    BY PositionsType
  <2> QED BY <1>1, <2>1 DEF Positions
<1> HIDE DEF P
<1>5. Cardinality(P \cup {Len(q) + 1}) = Cardinality(P) + 1
  BY <1>4, FS_AddElement
<1> QED BY <1>3, <1>5 DEF P

Messages == {"send", "dm", "firstMessage", "response", "error"}
Sent(q) == {i \in DOMAIN q : q[i].of \in Messages}
Numbered(q, n) ==
  /\ Cardinality(Sent(q)) = n
  /\ \A i \in Sent(q) : q[i].id = Cardinality({j \in Sent(q) : j <= i})

LEMMA SentType ==
  ASSUME NEW q, IsList(q)
  PROVE  IsFiniteSet(Sent(q)) /\ Sent(q) \subseteq 1 .. Len(q)
<1>0. Len(q) \in Nat /\ DOMAIN q = 1 .. Len(q)
  BY ListType
<1>1. Sent(q) \in SUBSET (1 .. Len(q)) /\ IsFiniteSet(1 .. Len(q))
  BY <1>0, FS_Interval DEF Sent
<1> QED BY <1>1, FS_Subset

LEMMA NumberedQuiet ==
  ASSUME NEW q, IsList(q), NEW t, IsList(t), Sent(t) = {}, NEW n, Numbered(q, n)
  PROVE  Numbered(q \o t, n)
<1>1. Len(q) \in Nat /\ Len(t) \in Nat /\ DOMAIN q = 1 .. Len(q) /\ DOMAIN t = 1 .. Len(t)
  BY ListType
<1>2. /\ DOMAIN (q \o t) = 1 .. Len(q) + Len(t)
      /\ \A i \in 1 .. Len(q) : (q \o t)[i] = q[i]
      /\ \A i \in Len(q) + 1 .. Len(q) + Len(t) : (q \o t)[i] = t[i - Len(q)]
  BY ListConcat
<1>3. ASSUME NEW i \in Sent(q \o t) PROVE i \in Sent(q)
  <2>1. i \in 1 .. Len(q) + Len(t)
    BY <1>2 DEF Sent
  <2>2. CASE i <= Len(q)
    <3>1. i \in 1 .. Len(q)
      BY <1>1, <2>1, <2>2
    <3> QED BY <3>1, <1>1, <1>2 DEF Sent
  <2>3. CASE ~(i <= Len(q))
    <3>1. i \in Len(q) + 1 .. Len(q) + Len(t) /\ i - Len(q) \in DOMAIN t
      BY <1>1, <2>1, <2>3
    <3>2. i - Len(q) \in Sent(t)
      BY <3>1, <1>2 DEF Sent
    <3> QED BY <3>2
  <2> QED BY <2>2, <2>3
<1>4. ASSUME NEW i \in Sent(q) PROVE i \in Sent(q \o t) /\ (q \o t)[i] = q[i]
  <2>1. i \in 1 .. Len(q) /\ i \in 1 .. Len(q) + Len(t)
    BY <1>1 DEF Sent
  <2> QED BY <2>1, <1>2 DEF Sent
<1>5. Sent(q \o t) = Sent(q)
  BY <1>3, <1>4
<1> QED BY <1>4, <1>5 DEF Numbered

LEMMA NumberedOne ==
  ASSUME NEW q, IsList(q), NEW n \in Nat, Numbered(q, n), NEW e, e.of \in Messages, e.id = n + 1
  PROVE  Numbered(Append(q, e), n + 1)
<1> DEFINE m == Len(q) + 1
           t == Append(q, e)
<1>1. Len(q) \in Nat /\ DOMAIN q = 1 .. Len(q) /\ Sent(q) \subseteq 1 .. Len(q) /\ IsFiniteSet(Sent(q))
  BY ListType, SentType
<1>2. DOMAIN t = 1 .. m /\ (\A i \in 1 .. Len(q) : t[i] = q[i]) /\ t[m] = e
  BY ListAppend
<1> HIDE DEF t
<1>3. Sent(t) = Sent(q) \cup {m} /\ m \notin Sent(q)
  BY <1>1, <1>2 DEF Sent
<1>4. Cardinality(Sent(t)) = n + 1
  BY <1>1, <1>3, FS_AddElement DEF Numbered
<1>5. ASSUME NEW i \in Sent(t) PROVE t[i].id = Cardinality({j \in Sent(t) : j <= i})
  <2>1. CASE i = m
    <3>1. {j \in Sent(t) : j <= i} = Sent(t)
      BY <1>1, <1>3, <2>1
    <3> QED BY <3>1, <1>2, <1>4, <2>1
  <2>2. CASE i # m
    <3>1. i \in Sent(q) /\ i \in 1 .. Len(q)
      BY <1>1, <1>3, <2>2
    <3>2. {j \in Sent(t) : j <= i} = {j \in Sent(q) : j <= i}
      BY <1>1, <1>3, <3>1
    <3> QED BY <3>1, <3>2, <1>2 DEF Numbered
  <2> QED BY <2>1, <2>2
<1>6. Numbered(t, n + 1)
  BY <1>4, <1>5 DEF Numbered
<1> QED BY <1>6 DEF t

-----------------------------------------------------------------------------
(* The inductive invariant of one run.                                      *)

(* What each counter bounds.                                                *)
CountedFor(k) ==
  CASE k = "api_call" -> {"send", "dm", "edit", "giveRole", "takeRole", "addRole", "removeRole"}
    [] k = "send_dm" -> {"dm"}
    [] k = "create_thread" -> {"thread"}
    [] k = "message_pins" -> {"pin"}
    [] k = "exec" -> {"exec"}
    [] k = "del_reaction_message" -> {"unreaction"}
    [] OTHER -> {}
Bounded ==
  {"send", "dm", "edit", "giveRole", "takeRole", "addRole", "removeRole", "thread", "pin", "exec", "unreaction"}

ScheduledBy(q, id) == {i \in DOMAIN q : q[i].by = id}
Did(r, id, k) == IF k = "runcc" THEN Cardinality(ScheduledBy(r.scheduled, id))
                 ELSE Cardinality(Positions(Recorded(r), id, CountedFor(k)))

(* No two contexts have one number, and what is on record is of one that    *)
(* has been given: a context that starts has done nothing.                  *)
Owned(r) ==
  /\ \A i \in 1 .. Len(r.stack) : r.stack[i].id \in 1 .. r.started
  /\ \A i, j \in 1 .. Len(r.stack) : r.stack[i].id = r.stack[j].id => i = j
  /\ \A i \in DOMAIN Recorded(r) : Recorded(r)[i].by \in 1 .. r.started
  /\ \A i \in DOMAIN r.scheduled : r.scheduled[i].by \in 1 .. r.started

OneEach(q) ==
  \A i, j \in DOMAIN q : q[i].key # "none" /\ q[i].key = q[j].key /\ q[i].cc = q[j].cc => i = j

(* Nothing is done more often than its limit, nor than it has been counted. *)
Within(r) ==
  \A k \in Counters :
    /\ \A id \in Nat : Did(r, id, k) <= LimitOf(k, premium)
    /\ \A i \in 1 .. Len(r.stack) : Did(r, r.stack[i].id, k) <= r.stack[i].count[k]

Good(r, s, n) ==
  /\ IsRun(r, n) /\ Owned(r) /\ Numbered(Recorded(r), r.sent) /\ OneEach(r.scheduled)
  /\ s => Within(r)

(* A call has been counted: what it counts for may be done once more.       *)
Room(r, k) == Did(r, Top(r).id, k) < Top(r).count[k] /\ Did(r, Top(r).id, k) < LimitOf(k, premium)
KeepsRoom(q, r) == \A k \in Counters : Room(r, k) => Room(q, k)

-----------------------------------------------------------------------------
(* What keeps the invariant: recording something that is not bounded, or    *)
(* one thing for which there is room, whatever else a context changes.      *)
Framed(q, r) ==
  /\ Len(q.stack) = Len(r.stack)
  /\ \A i \in 1 .. Len(r.stack) :
       /\ q.stack[i].id = r.stack[i].id
       /\ \A k \in Counters : r.stack[i].count[k] <= q.stack[i].count[k]
  /\ q.started = r.started

IsQuiet(t, id) ==
  /\ IsList(t)
  /\ \A i \in DOMAIN t : t[i].by = id /\ t[i].of \notin Messages /\ t[i].of \notin Bounded

LEMMA DidType ==
  ASSUME NEW n, NEW r, IsRun(r, n), NEW id, NEW k
  PROVE  Did(r, id, k) \in Nat
<1>0. IsList(r.scheduled) /\ IsList(Recorded(r))
  BY RecordedIs DEF IsRun
<1>1. Len(r.scheduled) \in Nat /\ DOMAIN r.scheduled = 1 .. Len(r.scheduled)
  BY <1>0, ListType
<1>2. ScheduledBy(r.scheduled, id) \in SUBSET (1 .. Len(r.scheduled)) /\ IsFiniteSet(1 .. Len(r.scheduled))
  BY <1>1, FS_Interval DEF ScheduledBy
<1>3. Cardinality(ScheduledBy(r.scheduled, id)) \in Nat
  BY <1>2, FS_Subset, FS_CardinalityType
<1>4. Cardinality(Positions(Recorded(r), id, CountedFor(k))) \in Nat
  BY <1>0, PositionsType
<1> QED BY <1>3, <1>4 DEF Did

LEMMA CountedIsBounded ==
  ASSUME NEW k PROVE CountedFor(k) \subseteq Bounded
BY DEF CountedFor, Bounded

(* What the lemmas below have in common: of what the run did.               *)
LEMMA OwnedThen ==
  ASSUME NEW n, NEW r, IsRun(r, n), Owned(r), NEW q, Framed(q, r),
         NEW t, IsList(t), \A i \in DOMAIN t : t[i].by = Top(r).id,
         Recorded(q) = Recorded(r) \o t, q.scheduled = r.scheduled
  PROVE  Owned(q)
<1> DEFINE a == Recorded(r)
           b == Recorded(q)
<1>1. IsList(a) /\ Len(a) \in Nat /\ Len(t) \in Nat /\ DOMAIN a = 1 .. Len(a) /\ DOMAIN t = 1 .. Len(t)
  BY RecordedIs, ListType
<1>2. /\ DOMAIN b = 1 .. Len(a) + Len(t)
      /\ \A i \in 1 .. Len(a) : b[i] = a[i]
      /\ \A i \in Len(a) + 1 .. Len(a) + Len(t) : b[i] = t[i - Len(a)]
  BY <1>1, ListConcat
<1>3. Top(r).id \in 1 .. r.started
  BY Tops DEF Owned
<1>4. ASSUME NEW i \in DOMAIN b PROVE b[i].by \in 1 .. r.started
  <2>1. i \in 1 .. Len(a) + Len(t)
    BY <1>2
  <2>2. CASE i <= Len(a)
    <3>1. i \in 1 .. Len(a)
      BY <1>1, <2>1, <2>2
    <3> QED BY <3>1, <1>1, <1>2 DEF Owned
  <2>3. CASE ~(i <= Len(a))
    <3>1. i \in Len(a) + 1 .. Len(a) + Len(t) /\ i - Len(a) \in DOMAIN t
      BY <1>1, <2>1, <2>3
    <3> QED BY <3>1, <1>2, <1>3
  <2> QED BY <2>2, <2>3
<1>5. /\ \A i \in 1 .. Len(q.stack) : q.stack[i].id \in 1 .. q.started
      /\ \A i, j \in 1 .. Len(q.stack) : q.stack[i].id = q.stack[j].id => i = j
      /\ \A i \in DOMAIN q.scheduled : q.scheduled[i].by \in 1 .. q.started
  BY DEF Owned, Framed
<1> QED BY <1>4, <1>5 DEF Owned, Framed

LEMMA FramedTop ==
  ASSUME NEW n, NEW r, IsRun(r, n), NEW q, Framed(q, r)
  PROVE  Top(q).id = Top(r).id /\ \A k \in Counters : Top(r).count[k] <= Top(q).count[k]
<1>1. Len(r.stack) \in 1 .. Len(r.stack)
  BY Tops
<1> QED BY <1>1 DEF Framed, Top, Last

(* Counts are numbers.                                                      *)
LEMMA CountType ==
  ASSUME NEW n \in Nat, NEW r, IsRun(r, n), NEW i \in 1 .. Len(r.stack), NEW k \in Counters
  PROVE  r.stack[i].count[k] \in Nat
<1>1. IsContext(r.stack[i], n)
  BY DEF IsRun
<1> QED BY <1>1 DEF IsContext

LEMMA LimitType ==
  ASSUME NEW k \in Counters, NEW p
  PROVE  LimitOf(k, p) \in Nat
BY LimitsAssumption DEF LimitOf

LEMMA QuietDoes ==
  ASSUME NEW n, NEW r, IsRun(r, n), NEW q, NEW t, IsQuiet(t, Top(r).id), Recorded(q) = Recorded(r) \o t,
         q.scheduled = r.scheduled, NEW id, NEW k
  PROVE  Did(q, id, k) = Did(r, id, k)
<1>0. IsList(Recorded(r)) /\ IsList(t)
  BY RecordedIs DEF IsQuiet
<1>1. Positions(t, id, CountedFor(k)) = {}
  BY CountedIsBounded DEF Positions, IsQuiet
<1>2. Positions(Recorded(q), id, CountedFor(k)) = Positions(Recorded(r), id, CountedFor(k))
  BY <1>0, <1>1, PositionsQuiet
<1> QED BY <1>2 DEF Did

LEMMA GoodQuiet ==
  ASSUME NEW n \in Nat, NEW m \in Nat, NEW s, NEW r, Good(r, s, n), NEW q, IsRun(q, m), Framed(q, r),
         NEW t, IsQuiet(t, Top(r).id), Recorded(q) = Recorded(r) \o t,
         q.sent = r.sent, q.scheduled = r.scheduled
  PROVE  Good(q, s, m) /\ KeepsRoom(q, r)
<1>0. IsRun(r, n) /\ IsList(Recorded(r)) /\ IsList(t)
  BY RecordedIs DEF Good, IsQuiet
<1>1. Owned(q)
  BY <1>0, OwnedThen DEF Good, IsQuiet
<1>2. Numbered(Recorded(q), q.sent)
  <2>1. Sent(t) = {}
    BY DEF Sent, IsQuiet
  <2> QED BY <1>0, <2>1, NumberedQuiet DEF Good
<1>3. ASSUME NEW id, NEW k PROVE Did(q, id, k) = Did(r, id, k)
  BY <1>0, QuietDoes, SMTT(30)
<1>4. ASSUME s PROVE Within(q)
  <2>1. Within(r)
    BY <1>4 DEF Good
  <2> SUFFICES ASSUME NEW k \in Counters
               PROVE  /\ \A id \in Nat : Did(q, id, k) <= LimitOf(k, premium)
                      /\ \A i \in 1 .. Len(q.stack) : Did(q, q.stack[i].id, k) <= q.stack[i].count[k]
    BY DEF Within
  <2>2. \A id \in Nat : Did(q, id, k) <= LimitOf(k, premium)
    BY <1>3, <2>1 DEF Within
  <2>3. ASSUME NEW i \in 1 .. Len(q.stack) PROVE Did(q, q.stack[i].id, k) <= q.stack[i].count[k]
    <3>1. i \in 1 .. Len(r.stack) /\ q.stack[i].id = r.stack[i].id /\ r.stack[i].count[k] <= q.stack[i].count[k]
      BY DEF Framed
    <3>2. Did(r, r.stack[i].id, k) <= r.stack[i].count[k] /\ Did(q, q.stack[i].id, k) = Did(r, r.stack[i].id, k)
      BY <1>3, <2>1, <3>1 DEF Within
    <3>3. Did(r, r.stack[i].id, k) \in Nat /\ r.stack[i].count[k] \in Nat /\ q.stack[i].count[k] \in Nat
      BY <1>0, <3>1, DidType, CountType
    <3> QED BY <3>1, <3>2, <3>3
  <2> QED BY <2>2, <2>3
<1>5. KeepsRoom(q, r)
  <2> SUFFICES ASSUME NEW k \in Counters, Room(r, k) PROVE Room(q, k)
    BY DEF KeepsRoom
  <2>1. Top(q).id = Top(r).id /\ Top(r).count[k] <= Top(q).count[k]
    BY <1>0, FramedTop
  <2>2. Did(q, Top(q).id, k) = Did(r, Top(r).id, k)
    BY <1>3, <2>1
  <2>3. Did(r, Top(r).id, k) \in Nat
    BY <1>0, DidType
  <2>4. Top(r).count[k] \in Nat /\ Top(q).count[k] \in Nat
    BY <1>0, Tops DEF IsContext
  <2> QED BY <2>1, <2>2, <2>3, <2>4 DEF Room
<1>6. OneEach(q.scheduled)
  BY DEF Good
<1> QED BY <1>1, <1>2, <1>4, <1>5, <1>6 DEF Good

LEMMA ListAppendIs ==
  ASSUME NEW q, IsList(q), NEW e
  PROVE  Append(q, e) = q \o <<e>> /\ IsList(<<e>>) /\ DOMAIN <<e>> = {1} /\ <<e>>[1] = e
<1>1. PICK S : q \in Seq(S)
  BY DEF IsList
<1>2. q \in Seq(S \cup {e}) /\ e \in S \cup {e}
  BY <1>1, SeqMonotonic
<1>3. Append(q, e) = q \o <<e>>
  BY <1>2, AppendIsConcat
<1>4. <<e>> \in Seq({e}) /\ DOMAIN <<e>> = {1} /\ <<e>>[1] = e
  OBVIOUS
<1> QED BY <1>3, <1>4 DEF IsList

(* What may be done in mode s; a message takes the next number.             *)
Allowed(r, s, of) == s => \A k \in Counters : of \in CountedFor(k) => Room(r, k)
NumberedNext(q, r, e) ==
  IF e.of \in Messages THEN e.id = r.sent + 1 /\ q.sent = r.sent + 1 ELSE q.sent = r.sent

LEMMA GoodOne ==
  ASSUME NEW n \in Nat, NEW s, NEW r, Good(r, s, n), NEW q, IsRun(q, n), Framed(q, r),
         NEW e, e.by = Top(r).id, Recorded(q) = Append(Recorded(r), e), q.scheduled = r.scheduled,
         NumberedNext(q, r, e), Allowed(r, s, e.of)
  PROVE  Good(q, s, n)
<1> DEFINE t == <<e>>
<1>0. IsRun(r, n) /\ IsList(Recorded(r)) /\ r.sent \in Nat
  BY RecordedIs DEF Good, IsRun
<1>t. IsList(t) /\ DOMAIN t = {1} /\ t[1] = e /\ Recorded(q) = Recorded(r) \o t
  BY <1>0, ListAppendIs
<1> HIDE DEF t
<1>1. Owned(q)
  BY <1>0, <1>t, OwnedThen DEF Good
<1>2. Numbered(Recorded(q), q.sent)
  <2>1. CASE e.of \in Messages
    BY <1>0, <2>1, NumberedOne DEF Good, NumberedNext
  <2>2. CASE e.of \notin Messages
    <3>1. Sent(t) = {}
      BY <1>t, <2>2 DEF Sent
    <3> QED BY <1>0, <1>t, <2>2, <3>1, NumberedQuiet DEF Good, NumberedNext
  <2> QED BY <2>1, <2>2
<1>3. ASSUME NEW id, NEW k, ~(id = Top(r).id /\ e.of \in CountedFor(k)) PROVE Did(q, id, k) = Did(r, id, k)
  <2>1. Positions(t, id, CountedFor(k)) = {}
    BY <1>t, <1>3 DEF Positions
  <2>2. Positions(Recorded(q), id, CountedFor(k)) = Positions(Recorded(r), id, CountedFor(k))
    BY <1>0, <1>t, <2>1, PositionsQuiet
  <2> QED BY <2>2 DEF Did
<1>4. ASSUME NEW k, e.of \in CountedFor(k) PROVE Did(q, Top(r).id, k) = Did(r, Top(r).id, k) + 1
  <2>1. k # "runcc"
    BY <1>4 DEF CountedFor
  <2>2. Cardinality(Positions(Append(Recorded(r), e), e.by, CountedFor(k)))
          = Cardinality(Positions(Recorded(r), e.by, CountedFor(k))) + 1
    BY <1>0, <1>4, PositionsOne
  <2> QED BY <2>1, <2>2 DEF Did
<1>5. ASSUME s PROVE Within(q)
  <2>1. Within(r) /\ Owned(r)
    BY <1>5 DEF Good
  <2> SUFFICES ASSUME NEW k \in Counters
               PROVE  /\ \A id \in Nat : Did(q, id, k) <= LimitOf(k, premium)
                      /\ \A i \in 1 .. Len(q.stack) : Did(q, q.stack[i].id, k) <= q.stack[i].count[k]
    BY DEF Within
  <2>l. LimitOf(k, premium) \in Nat
    BY LimitType
  <2>d. \A id : Did(r, id, k) \in Nat
    BY <1>0, DidType
  <2>r. e.of \in CountedFor(k) => Room(r, k)
    BY <1>5 DEF Allowed
  <2>2. ASSUME NEW id \in Nat PROVE Did(q, id, k) <= LimitOf(k, premium)
    <3>1. Did(r, id, k) <= LimitOf(k, premium)
      BY <2>1 DEF Within
    <3>2. CASE id = Top(r).id /\ e.of \in CountedFor(k)
      <4>1. Did(r, id, k) < LimitOf(k, premium) /\ Did(q, id, k) = Did(r, id, k) + 1
        BY <3>2, <1>4, <2>r DEF Room
      <4> QED BY <4>1, <2>l, <2>d
    <3>3. CASE ~(id = Top(r).id /\ e.of \in CountedFor(k))
      BY <3>1, <3>3, <1>3
    <3> QED BY <3>2, <3>3
  <2>3. ASSUME NEW i \in 1 .. Len(q.stack) PROVE Did(q, q.stack[i].id, k) <= q.stack[i].count[k]
    <3>1. i \in 1 .. Len(r.stack) /\ q.stack[i].id = r.stack[i].id /\ r.stack[i].count[k] <= q.stack[i].count[k]
      BY DEF Framed
    <3>2. Did(r, r.stack[i].id, k) <= r.stack[i].count[k]
      BY <2>1, <3>1 DEF Within
    <3>3. r.stack[i].count[k] \in Nat /\ q.stack[i].count[k] \in Nat
      BY <1>0, <3>1, CountType
    <3> DEFINE id == r.stack[i].id
    <3>4. CASE id = Top(r).id /\ e.of \in CountedFor(k)
      <4>1. Len(r.stack) \in 1 .. Len(r.stack) /\ Top(r) = r.stack[Len(r.stack)]
        BY <1>0, Tops
      <4>2. i = Len(r.stack)
        BY <2>1, <3>1, <3>4, <4>1 DEF Owned
      <4>3. Did(r, id, k) < r.stack[i].count[k] /\ Did(q, id, k) = Did(r, id, k) + 1
        BY <3>4, <1>4, <2>r, <4>1, <4>2 DEF Room
      <4> QED BY <4>3, <2>d, <3>1, <3>3
    <3>5. CASE ~(id = Top(r).id /\ e.of \in CountedFor(k))
      <4>1. Did(q, id, k) = Did(r, id, k)
        BY <3>5, <1>3
      <4> QED BY <4>1, <2>d, <3>1, <3>2, <3>3
    <3> QED BY <3>4, <3>5
  <2> QED BY <2>2, <2>3
<1>6. OneEach(q.scheduled)
  BY DEF Good
<1> QED BY <1>1, <1>2, <1>5, <1>6 DEF Good

-----------------------------------------------------------------------------
(* The operations on a run's context and record.                            *)

(* The run after keeps the invariant, at the same level.                    *)
Then(q, r, s, n) == Good(q, s, n) /\ Len(q.stack) = Len(r.stack)

CountsUp(r, c) == \A k \in Counters : Top(r).count[k] <= c.count[k]
Replaced(q, r, c, n) ==
  /\ IsRun(q, n) /\ Framed(q, r) /\ Top(q) = c
  /\ Recorded(q) = Before(r, Len(r.stack) - 1) \o c.effects
  /\ q.sent = r.sent /\ q.scheduled = r.scheduled /\ q.started = r.started
  /\ q.status = r.status /\ q.threads = r.threads

LEMMA ReplacedIs ==
  ASSUME NEW n \in Nat, NEW r, IsRun(r, n), NEW c, IsContext(c, n), c.id = Top(r).id, CountsUp(r, c)
  PROVE  Replaced(WithTop(r, c), r, c, n)
<1> DEFINE q == WithTop(r, c)
<1>1. IsRun(q, n) /\ Replaces(q, r, c)
  BY WithTopIs
<1> HIDE DEF q
<1>2. Len(r.stack) \in Nat \ {0} /\ Top(r) = r.stack[Len(r.stack)] /\ Top(q) = q.stack[Len(q.stack)]
  BY <1>1, Tops
<1>3. Framed(q, r)
  <2>1. ASSUME NEW i \in 1 .. Len(r.stack)
        PROVE  q.stack[i].id = r.stack[i].id /\ \A k \in Counters : r.stack[i].count[k] <= q.stack[i].count[k]
    <3>1. CASE i = Len(r.stack)
      BY <3>1, <1>1, <1>2 DEF Replaces, CountsUp
    <3>2. CASE i # Len(r.stack)
      <4>1. q.stack[i] = r.stack[i]
        BY <3>2, <1>1, <1>2 DEF Replaces
      <4>2. \A k \in Counters : r.stack[i].count[k] \in Nat
        BY CountType
      <4> QED BY <4>1, <4>2
    <3> QED BY <3>1, <3>2
  <2> QED BY <2>1, <1>1 DEF Framed, Replaces, RunFields
<1>4. Recorded(q) = Before(r, Len(r.stack) - 1) \o c.effects
  <2>1. Recorded(q) = Before(q, Len(q.stack) - 1) \o c.effects
    BY <1>1, RecordedIs DEF Replaces
  <2>2. SameLists(r.stack, q.stack, Len(r.stack) - 1) /\ Len(r.stack) - 1 \in Nat
    BY <1>1, <1>2 DEF Replaces, SameLists
  <2>3. Before(r, Len(r.stack) - 1) = Before(q, Len(r.stack) - 1)
    BY <2>2, BeforeSame
  <2> QED BY <2>1, <2>3, <1>1 DEF Replaces
<1>5. /\ q.sent = r.sent /\ q.scheduled = r.scheduled /\ q.started = r.started
      /\ q.status = r.status /\ q.threads = r.threads
  BY <1>1 DEF Replaces, RunFields
<1> QED BY <1>1, <1>3, <1>4, <1>5 DEF q, Replaces, Replaced

LEMMA SameCount ==
  ASSUME NEW n \in Nat, NEW r, IsRun(r, n), NEW c, c.count = Top(r).count
  PROVE  CountsUp(r, c)
<1>1. \A k \in Counters : Top(r).count[k] \in Nat
  BY Tops DEF IsContext
<1> QED BY <1>1 DEF CountsUp

LEMMA FramedLen ==
  ASSUME NEW q, NEW r, Framed(q, r)
  PROVE  Len(q.stack) = Len(r.stack)
BY DEF Framed

LEMMA QuietTop ==
  ASSUME NEW n \in Nat, NEW s, NEW r, Good(r, s, n), NEW c, IsContext(c, n),
         c.id = Top(r).id, c.effects = Top(r).effects, c.count = Top(r).count
  PROVE  Then(WithTop(r, c), r, s, n) /\ KeepsRoom(WithTop(r, c), r)
<1> DEFINE q == WithTop(r, c)
<1>0. IsRun(r, n) /\ IsList(<<>>) /\ IsList(Recorded(r))
  BY RecordedIs, ListEmpty DEF Good
<1>a. Replaced(q, r, c, n)
  BY <1>0, SameCount, ReplacedIs
<1>1. IsRun(q, n) /\ Framed(q, r) /\ Recorded(q) = Recorded(r) /\ q.sent = r.sent /\ q.scheduled = r.scheduled
  BY <1>0, <1>a, RecordedIs DEF Replaced
<1>2. Recorded(q) = Recorded(r) \o <<>>
  BY <1>0, <1>1, ListEmpty
<1>3. IsQuiet(<<>>, Top(r).id)
  BY <1>0 DEF IsQuiet
<1> HIDE DEF q
<1>4. Good(q, s, n) /\ KeepsRoom(q, r)
  BY <1>1, <1>2, <1>3, GoodQuiet
<1> QED BY <1>1, <1>4, FramedLen DEF Then, q

LEMMA GoodTop ==
  ASSUME NEW n, NEW s, NEW r, Good(r, s, n)
  PROVE  IsContext(Top(r), n) /\ IsRun(r, n)
BY Tops DEF Good

LEMMA GoodWarn ==
  ASSUME NEW n \in Nat, NEW s, NEW r, Good(r, s, n), NEW kind
  PROVE  Then(Warn(r, kind), r, s, n)
<1> DEFINE c == [Top(r) EXCEPT !.warned = @ \cup {kind}]
<1>1. IsContext(c, n) /\ c.id = Top(r).id /\ c.effects = Top(r).effects /\ c.count = Top(r).count
  BY GoodTop DEF IsContext, ContextFields
<1> HIDE DEF c
<1>2. Then(WithTop(r, c), r, s, n)
  BY <1>1, QuietTop
<1> QED BY <1>2 DEF Warn, c

(* A run of which only the threads or the status change.                    *)
LEMMA GoodSame ==
  ASSUME NEW n \in Nat, NEW s, NEW r, Good(r, s, n), NEW q, IsRun(q, n), q.stack = r.stack, q.sent = r.sent,
         q.scheduled = r.scheduled, q.started = r.started
  PROVE  Then(q, r, s, n)
<1>1. Recorded(q) = Recorded(r)
  BY DEF Recorded
<1>2. \A id, k : Did(q, id, k) = Did(r, id, k)
  BY <1>1 DEF Did
<1>3. s => Within(q)
  BY <1>2 DEF Good, Within
<1>4. Owned(q)
  BY <1>1 DEF Good, Owned
<1> QED BY <1>1, <1>3, <1>4 DEF Good, Then

LEMMA RecordIs ==
  ASSUME NEW n \in Nat, NEW r, IsRun(r, n), NEW of, NEW in, NEW id
  PROVE  LET q == Record(r, of, in, id)
             e == [by |-> Top(r).id, of |-> of, in |-> in, id |-> id]
         IN /\ IsRun(q, n) /\ Framed(q, r) /\ Recorded(q) = Append(Recorded(r), e)
            /\ q.sent = r.sent /\ q.scheduled = r.scheduled
<1> DEFINE e == [by |-> Top(r).id, of |-> of, in |-> in, id |-> id]
           c == [Top(r) EXCEPT !.effects = Append(@, e)]
<1>1. IsContext(Top(r), n)
  BY Tops
<1>2. IsList(Append(Top(r).effects, e))
  BY <1>1, ListAppend DEF IsContext
<1>3. IsContext(c, n) /\ c.id = Top(r).id /\ c.effects = Append(Top(r).effects, e) /\ c.count = Top(r).count
  <2> HIDE DEF e
  <2> QED BY <1>1, <1>2 DEF IsContext, ContextFields
<1>4. Record(r, of, in, id) = WithTop(r, c)
  BY DEF Record
<1> HIDE DEF c, e
<1> DEFINE q == WithTop(r, c)
<1>5. Replaced(q, r, c, n)
  BY <1>3, SameCount, ReplacedIs
<1> HIDE DEF q
<1>6. Recorded(q) = Append(Recorded(r), e)
  <2>1. IsList(Before(r, Len(r.stack) - 1)) /\ IsList(Top(r).effects)
    BY <1>1, RecordedIs DEF IsContext
  <2>2. Before(r, Len(r.stack) - 1) \o Append(Top(r).effects, e)
          = Append(Before(r, Len(r.stack) - 1) \o Top(r).effects, e)
    <3> DEFINE p == Before(r, Len(r.stack) - 1)
               v == Top(r).effects
    <3> HIDE DEF p, v
    <3>1. IsList(p) /\ IsList(v)
      BY <2>1 DEF p, v
    <3>2. p \o Append(v, e) = Append(p \o v, e)
      BY <3>1, ListConcatAppend
    <3> QED BY <3>2 DEF p, v
  <2> QED BY <1>3, <1>5, <2>2, RecordedIs DEF Replaced
<1> QED BY <1>4, <1>5, <1>6 DEF q, e, Replaced

LEMMA GoodRecord ==
  ASSUME NEW n \in Nat, NEW s, NEW r, Good(r, s, n), NEW of, of \notin Messages, Allowed(r, s, of), NEW in, NEW id
  PROVE  Then(Record(r, of, in, id), r, s, n)
<1> DEFINE q == Record(r, of, in, id)
           e == [by |-> Top(r).id, of |-> of, in |-> in, id |-> id]
<1>1. /\ IsRun(q, n) /\ Framed(q, r) /\ Recorded(q) = Append(Recorded(r), e)
      /\ q.sent = r.sent /\ q.scheduled = r.scheduled
  BY RecordIs DEF Good
<1>2. e.by = Top(r).id /\ e.of = of
  OBVIOUS
<1> HIDE DEF q, e
<1>3. NumberedNext(q, r, e)
  BY <1>1, <1>2 DEF NumberedNext
<1>4. Good(q, s, n)
  BY <1>1, <1>2, <1>3, GoodOne
<1> QED BY <1>1, <1>4, FramedLen DEF Then, q

LEMMA GoodSent ==
  ASSUME NEW n \in Nat, NEW s, NEW r, Good(r, s, n), NEW of, of \in Messages, Allowed(r, s, of), NEW in
  PROVE  Then(RecordSentMessage(r, of, in), r, s, n)
<1> DEFINE m == r.sent + 1
           p == Record(r, of, in, m)
           e == [by |-> Top(r).id, of |-> of, in |-> in, id |-> m]
           q == [p EXCEPT !.sent = m]
           c == [Top(q) EXCEPT !.known = @ \cup {[id |-> m, in |-> in]}]
<1>1. IsRun(r, n) /\ m \in Nat
  <2>1. IsRun(r, n)
    BY DEF Good
  <2>2. r.sent \in Nat
    BY <2>1 DEF IsRun
  <2> QED BY <2>1, <2>2
<1>2. e.by = Top(r).id /\ e.of = of /\ e.id = m
  OBVIOUS
<1>3. IsRun(p, n) /\ Framed(p, r) /\ Recorded(p) = Append(Recorded(r), e) /\ p.scheduled = r.scheduled
  BY <1>1, RecordIs
<1>4. IsRun(q, n) /\ q.stack = p.stack /\ q.sent = m /\ q.scheduled = p.scheduled /\ q.started = p.started
  <2> HIDE DEF p, m
  <2> QED BY <1>1, <1>3 DEF IsRun, RunFields
<1>5. RecordSentMessage(r, of, in) = IF in = "dm" THEN q ELSE WithTop(q, c)
  BY DEF RecordSentMessage
<1> HIDE DEF e, q, p
<1>6. Recorded(q) = Recorded(p) /\ Framed(q, r)
  BY <1>3, <1>4 DEF Recorded, Framed
<1>7. NumberedNext(q, r, e)
  BY <1>2, <1>4 DEF NumberedNext
<1>8. Good(q, s, n) /\ Len(q.stack) = Len(r.stack)
  BY <1>2, <1>3, <1>4, <1>6, <1>7, GoodOne, FramedLen
<1>9. IsContext(c, n) /\ c.id = Top(q).id /\ c.effects = Top(q).effects /\ c.count = Top(q).count
  BY <1>8, GoodTop DEF IsContext, ContextFields
<1> HIDE DEF c
<1>10. Then(WithTop(q, c), q, s, n)
  BY <1>8, <1>9, QuietTop
<1> QED BY <1>5, <1>8, <1>10 DEF Then

LEMMA GoodThread ==
  ASSUME NEW n \in Nat, NEW s, NEW r, Good(r, s, n), Allowed(r, s, "thread"), NEW parent
  PROVE  Then(RegisterThread(r, parent), r, s, n)
<1> DEFINE m == Top(r).created + 1
           c == [Top(r) EXCEPT !.created = m]
           p == WithTop(r, c)
           w == Record(p, "thread", parent, m)
           q == [w EXCEPT !.threads = @ \cup {m}]
<1>1. IsContext(c, n) /\ c.id = Top(r).id /\ c.effects = Top(r).effects /\ c.count = Top(r).count
  <2> HIDE DEF m
  <2> QED BY GoodTop DEF IsContext, ContextFields
<1>2. RegisterThread(r, parent) = q
  BY DEF RegisterThread
<1> HIDE DEF c, m
<1>3. Then(p, r, s, n) /\ KeepsRoom(p, r)
  BY <1>1, QuietTop
<1>4. Allowed(p, s, "thread") /\ Good(p, s, n)
  BY <1>3 DEF Allowed, KeepsRoom, Then
<1> HIDE DEF p
<1>5. "thread" \notin Messages
  BY DEF Messages
<1>6. Then(w, p, s, n)
  BY <1>4, <1>5, GoodRecord
<1> HIDE DEF w
<1>7. /\ IsRun(q, n) /\ q.stack = w.stack /\ q.sent = w.sent /\ q.scheduled = w.scheduled
      /\ q.started = w.started
  BY <1>6 DEF Then, Good, IsRun, RunFields
<1> HIDE DEF q
<1>8. Then(q, w, s, n)
  BY <1>6, <1>7, GoodSame DEF Then
<1> QED BY <1>2, <1>3, <1>6, <1>8 DEF Then

LEMMA GoodResponse ==
  ASSUME NEW n \in Nat, NEW s, NEW r, Good(r, s, n), NEW of
  PROVE  Then(RecordResponseSent(r, of), r, s, n)
<1> DEFINE c == Top(r)
           p == IF c.deletes = "no" THEN r ELSE Record(r, "delete", c.channel, of)
           t == [i \in 1 .. c.reactions |-> [by |-> c.id, of |-> "responseReaction", in |-> c.channel, id |-> of]]
           d == [Top(p) EXCEPT !.effects = @ \o t]
           q == WithTop(p, d)
<1>1. RecordResponseSent(r, of) = q
  BY DEF RecordResponseSent
<1>2. Good(p, s, n) /\ Framed(p, r)
  <2>1. CASE c.deletes = "no"
    <3>1. Framed(r, r)
      <4>1. \A i \in 1 .. Len(r.stack) : \A k \in Counters : r.stack[i].count[k] \in Nat
        BY CountType DEF Good
      <4> QED BY <4>1 DEF Framed
    <3> QED BY <2>1, <3>1
  <2>2. CASE c.deletes # "no"
    <3>1. "delete" \notin Messages /\ Allowed(r, s, "delete")
      BY CountedIsBounded DEF Messages, Allowed, Bounded
    <3>2. Good(Record(r, "delete", c.channel, of), s, n)
      BY <3>1, GoodRecord DEF Then
    <3>3. Framed(Record(r, "delete", c.channel, of), r)
      BY RecordIs DEF Good
    <3> QED BY <2>2, <3>2, <3>3
  <2> QED BY <2>1, <2>2
<1>3. Top(p).id = c.id /\ c.reactions \in Nat /\ Len(p.stack) = Len(r.stack)
  <2>1. IsRun(r, n) /\ IsContext(c, n)
    BY GoodTop
  <2> HIDE DEF p
  <2> QED BY <1>2, <2>1, FramedTop, FramedLen DEF IsContext
<1>4. IsList(t) /\ DOMAIN t = 1 .. c.reactions
  <2>1. t \in [1 .. c.reactions -> Range(t)]
    BY DEF Range
  <2> HIDE DEF t
  <2>2. t \in Seq(Range(t))
    BY <2>1, <1>3, SeqDef
  <2> QED BY <2>1, <2>2 DEF IsList
<1>5. \A i \in 1 .. c.reactions : t[i].by = c.id /\ t[i].of = "responseReaction"
  OBVIOUS
<1> HIDE DEF t, p
<1>6. IsQuiet(t, Top(p).id)
  BY <1>3, <1>4, <1>5 DEF IsQuiet, Messages, Bounded
<1>7. IsRun(p, n) /\ IsContext(Top(p), n)
  BY <1>2, GoodTop
<1>8. IsContext(d, n) /\ d.id = Top(p).id /\ d.effects = Top(p).effects \o t /\ d.count = Top(p).count
  <2>1. IsList(Top(p).effects \o t)
    BY <1>4, <1>7, ListConcat DEF IsContext
  <2> QED BY <1>7, <2>1 DEF IsContext, ContextFields
<1> HIDE DEF d, c
<1>9. Replaced(q, p, d, n)
  BY <1>7, <1>8, SameCount, ReplacedIs
<1>10. Recorded(q) = Recorded(p) \o t
  <2> DEFINE b == Before(p, Len(p.stack) - 1)
             v == Top(p).effects
  <2>1. IsList(b) /\ IsList(v) /\ Recorded(p) = b \o v /\ Recorded(q) = b \o (v \o t)
    BY <1>7, <1>8, <1>9, RecordedIs DEF IsContext, Replaced
  <2> HIDE DEF b, v
  <2> QED BY <2>1, <1>4, ListConcatThree
<1> HIDE DEF q
<1>11. Good(q, s, n)
  BY <1>2, <1>6, <1>9, <1>10, GoodQuiet DEF Replaced
<1> QED BY <1>1, <1>3, <1>9, <1>11, FramedLen DEF Then, Replaced

-----------------------------------------------------------------------------
(* The scheduled runs.                                                      *)
OwnedBy(q, n) == \A i \in DOMAIN q : q[i].by \in 1 .. n

LEMMA DeletedIsLess ==
  ASSUME NEW q, IsList(q), NEW p, NEW gone, IsLeftOf(p, q, Len(q), gone)
  PROVE  /\ OneEach(q) => OneEach(p)
         /\ \A n : OwnedBy(q, n) => OwnedBy(p, n)
         /\ \A id : Cardinality(ScheduledBy(p, id)) <= Cardinality(ScheduledBy(q, id))
         /\ \A i \in DOMAIN p : p[i] \in Range(q) /\ p[i] \notin gone
<1>1. IsList(p) /\ Len(p) \in Nat /\ DOMAIN p = 1 .. Len(p) /\ Len(q) \in Nat /\ DOMAIN q = 1 .. Len(q)
  BY ListType DEF IsLeftOf
<1>2. PICK came \in [1 .. Len(p) -> 1 .. Len(q)] :
        /\ \A i \in 1 .. Len(p) : p[i] = q[came[i]] /\ q[came[i]] \notin gone
        /\ \A i, j \in 1 .. Len(p) : i < j => came[i] < came[j]
  BY DEF IsLeftOf
<1>3. \A i, j \in 1 .. Len(p) : came[i] = came[j] => i = j
  BY <1>1, <1>2
<1>4. OneEach(q) => OneEach(p)
  BY <1>1, <1>2, <1>3 DEF OneEach
<1>5. \A n : OwnedBy(q, n) => OwnedBy(p, n)
  BY <1>1, <1>2 DEF OwnedBy
<1>6. ASSUME NEW id PROVE Cardinality(ScheduledBy(p, id)) <= Cardinality(ScheduledBy(q, id))
  <2> DEFINE P == ScheduledBy(p, id)
             Q == ScheduledBy(q, id)
             f == [i \in P |-> came[i]]
  <2>1. \A i \in P : i \in 1 .. Len(p) /\ came[i] \in Q
    BY <1>1, <1>2 DEF ScheduledBy
  <2>2. Q \in SUBSET (1 .. Len(q)) /\ IsFiniteSet(1 .. Len(q))
    BY <1>1, FS_Interval DEF ScheduledBy
  <2>3. IsFiniteSet(Q)
    BY <2>2, FS_Subset
  <2> HIDE DEF P, Q
  <2>4. f \in Injection(P, Q)
    BY <2>1, <1>3 DEF Injection, IsInjective
  <2> HIDE DEF f
  <2>5. Cardinality(P) <= Cardinality(Q)
    BY <2>3, <2>4, FS_Injection
  <2> QED BY <2>5 DEF P, Q
<1>7. \A i \in DOMAIN p : p[i] \in Range(q) /\ p[i] \notin gone
  BY <1>1, <1>2 DEF Range
<1> QED BY <1>4, <1>5, <1>6, <1>7

WithScheduled(r, q) == [r EXCEPT !.scheduled = q]

LEMMA WithScheduledIs ==
  ASSUME NEW n \in Nat, NEW r, IsRun(r, n), NEW q, IsList(q)
  PROVE  LET w == WithScheduled(r, q)
         IN /\ IsRun(w, n) /\ w.stack = r.stack /\ w.sent = r.sent /\ w.started = r.started /\ w.scheduled = q
            /\ Recorded(w) = Recorded(r) /\ Top(w) = Top(r)
            /\ \A id, k : Did(w, id, k) = IF k = "runcc" THEN Cardinality(ScheduledBy(q, id)) ELSE Did(r, id, k)
<1> DEFINE w == WithScheduled(r, q)
<1>1. IsRun(w, n) /\ w.stack = r.stack /\ w.sent = r.sent /\ w.started = r.started /\ w.scheduled = q
  BY DEF IsRun, RunFields, WithScheduled
<1> HIDE DEF w
<1>2. Recorded(w) = Recorded(r) /\ Top(w) = Top(r)
  BY <1>1 DEF Recorded, Top
<1> QED BY <1>1, <1>2 DEF Did, w

LEMMA GoodCancelled ==
  ASSUME NEW n \in Nat, NEW s, NEW r, Good(r, s, n), NEW gone
  PROVE  LET w == WithScheduled(r, DeleteFunc(r.scheduled, gone))
         IN Then(w, r, s, n) /\ KeepsRoom(w, r)
<1> DEFINE p == DeleteFunc(r.scheduled, gone)
           w == WithScheduled(r, p)
<1>1. IsRun(r, n) /\ IsList(r.scheduled)
  BY DEF Good, IsRun
<1>2. IsLeftOf(p, r.scheduled, Len(r.scheduled), gone)
  BY <1>1, DeleteFuncLeaves
<1>3. /\ IsList(p) /\ OneEach(p) /\ OwnedBy(p, r.started)
      /\ \A id : Cardinality(ScheduledBy(p, id)) <= Cardinality(ScheduledBy(r.scheduled, id))
  <2>1. OneEach(r.scheduled) /\ OwnedBy(r.scheduled, r.started)
    BY DEF Good, Owned, OwnedBy
  <2>2. IsList(p)
    BY <1>2 DEF IsLeftOf
  <2> HIDE DEF p
  <2> QED BY <1>1, <1>2, <2>1, <2>2, DeletedIsLess
<1> HIDE DEF p
<1>4. /\ IsRun(w, n) /\ w.stack = r.stack /\ w.sent = r.sent /\ w.started = r.started /\ w.scheduled = p
      /\ Recorded(w) = Recorded(r) /\ Top(w) = Top(r)
      /\ \A id, k : Did(w, id, k) = IF k = "runcc" THEN Cardinality(ScheduledBy(p, id)) ELSE Did(r, id, k)
  BY <1>1, <1>3, WithScheduledIs
<1> HIDE DEF w
<1>5. ASSUME NEW id, NEW k PROVE Did(w, id, k) <= Did(r, id, k) /\ Did(w, id, k) \in Nat /\ Did(r, id, k) \in Nat
  <2>1. Did(w, id, k) \in Nat /\ Did(r, id, k) \in Nat
    BY <1>1, <1>4, DidType
  <2>2. CASE k = "runcc"
    BY <2>1, <2>2, <1>3, <1>4 DEF Did
  <2>3. CASE k # "runcc"
    BY <2>1, <2>3, <1>4
  <2> QED BY <2>1, <2>2, <2>3
<1>6. Owned(w)
  BY <1>3, <1>4 DEF Good, Owned, OwnedBy
<1>7. ASSUME s PROVE Within(w)
  <2>1. Within(r)
    BY <1>7 DEF Good
  <2>2. ASSUME NEW k \in Counters, NEW id \in Nat PROVE Did(w, id, k) <= LimitOf(k, premium)
    <3>1. Did(r, id, k) <= LimitOf(k, premium) /\ LimitOf(k, premium) \in Nat
      BY <2>1, LimitType DEF Within
    <3> QED BY <3>1, <1>5
  <2>3. ASSUME NEW k \in Counters, NEW i \in 1 .. Len(w.stack) PROVE Did(w, w.stack[i].id, k) <= w.stack[i].count[k]
    <3>1. Did(r, r.stack[i].id, k) <= r.stack[i].count[k] /\ r.stack[i].count[k] \in Nat
      BY <1>1, <1>4, <2>1, CountType DEF Within
    <3> QED BY <3>1, <1>4, <1>5
  <2> QED BY <2>2, <2>3 DEF Within
<1>8. KeepsRoom(w, r)
  <2> SUFFICES ASSUME NEW k \in Counters, Room(r, k) PROVE Room(w, k)
    BY DEF KeepsRoom
  <2>1. Top(r).count[k] \in Nat /\ LimitOf(k, premium) \in Nat
    BY <1>1, Tops, LimitType DEF IsContext
  <2> QED BY <2>1, <1>4, <1>5 DEF Room
<1> QED BY <1>3, <1>4, <1>6, <1>7, <1>8 DEF Good, Then, w, p

LEMMA GoodScheduled ==
  ASSUME NEW n \in Nat, NEW s, NEW r, Good(r, s, n), s => Room(r, "runcc"), NEW e, e.by = Top(r).id,
         e.key = "none" \/ \A i \in DOMAIN r.scheduled : r.scheduled[i].key # e.key \/ r.scheduled[i].cc # e.cc
  PROVE  Then(WithScheduled(r, Append(r.scheduled, e)), r, s, n)
<1> DEFINE q == r.scheduled
           p == Append(q, e)
           w == WithScheduled(r, p)
<1>1. IsRun(r, n) /\ IsList(q) /\ Len(q) \in Nat /\ DOMAIN q = 1 .. Len(q)
  BY ListType DEF Good, IsRun
<1>2. /\ IsList(p) /\ DOMAIN p = 1 .. Len(q) + 1
      /\ \A i \in 1 .. Len(q) : p[i] = q[i]
      /\ p[Len(q) + 1] = e
  BY <1>1, ListAppend
<1> HIDE DEF p
<1>3. /\ IsRun(w, n) /\ w.stack = r.stack /\ w.sent = r.sent /\ w.started = r.started /\ w.scheduled = p
      /\ Recorded(w) = Recorded(r) /\ Top(w) = Top(r)
      /\ \A id, k : Did(w, id, k) = IF k = "runcc" THEN Cardinality(ScheduledBy(p, id)) ELSE Did(r, id, k)
  BY <1>1, <1>2, WithScheduledIs
<1> HIDE DEF w
<1>4. OneEach(p)
  <2> SUFFICES ASSUME NEW i \in DOMAIN p, NEW j \in DOMAIN p,
                      p[i].key # "none", p[i].key = p[j].key, p[i].cc = p[j].cc
               PROVE  i = j
    BY DEF OneEach
  <2>1. i \in DOMAIN q \/ i = Len(q) + 1
    BY <1>1, <1>2
  <2>2. j \in DOMAIN q \/ j = Len(q) + 1
    BY <1>1, <1>2
  <2>3. CASE i \in DOMAIN q /\ j \in DOMAIN q
    BY <2>3, <1>1, <1>2 DEF Good, OneEach
  <2>4. CASE i \in DOMAIN q /\ j = Len(q) + 1
    BY <2>4, <1>1, <1>2
  <2>5. CASE i = Len(q) + 1 /\ j \in DOMAIN q
    BY <2>5, <1>1, <1>2
  <2> QED BY <2>1, <2>2, <2>3, <2>4, <2>5
<1>5. Owned(w)
  <2>1. Top(r).id \in 1 .. r.started
    BY <1>1, Tops DEF Good, Owned
  <2>2. \A i \in DOMAIN p : p[i].by \in 1 .. r.started
    BY <1>1, <1>2, <2>1 DEF Good, Owned
  <2> QED BY <2>2, <1>3 DEF Good, Owned
<1>6. ASSUME NEW id PROVE Did(w, id, "runcc") = IF id = Top(r).id THEN Did(r, id, "runcc") + 1 ELSE Did(r, id, "runcc")
  <2> DEFINE Q == ScheduledBy(q, id)
             P == ScheduledBy(p, id)
             m == Len(q) + 1
  <2>1. Q \in SUBSET (1 .. Len(q)) /\ IsFiniteSet(1 .. Len(q))
    BY <1>1, FS_Interval DEF ScheduledBy
  <2>2. IsFiniteSet(Q) /\ m \notin Q
    BY <1>1, <2>1, FS_Subset
  <2>3. CASE id = Top(r).id
    <3>1. P = Q \cup {m}
      BY <2>3, <1>1, <1>2 DEF ScheduledBy
    <3>2. Cardinality(Q \cup {m}) = Cardinality(Q) + 1
      <4> HIDE DEF Q, m
      <4> QED BY <2>2, FS_AddElement
    <3> QED BY <3>1, <3>2, <2>3, <1>3 DEF Did
  <2>4. CASE id # Top(r).id
    <3>1. P = Q
      BY <2>4, <1>1, <1>2 DEF ScheduledBy
    <3> QED BY <3>1, <2>4, <1>3 DEF Did
  <2> QED BY <2>3, <2>4
<1>7. ASSUME s PROVE Within(w)
  <2>1. Within(r) /\ Room(r, "runcc") /\ Owned(r)
    BY <1>7 DEF Good
  <2>d. \A id, k : Did(r, id, k) \in Nat
    BY <1>1, DidType
  <2>2. ASSUME NEW k \in Counters, NEW id \in Nat PROVE Did(w, id, k) <= LimitOf(k, premium)
    <3>1. Did(r, id, k) <= LimitOf(k, premium) /\ LimitOf(k, premium) \in Nat
      BY <2>1, LimitType DEF Within
    <3>2. CASE k = "runcc"
      BY <3>1, <3>2, <2>1, <2>d, <1>6 DEF Room
    <3> QED BY <3>1, <3>2, <1>3
  <2>3. ASSUME NEW k \in Counters, NEW i \in 1 .. Len(w.stack) PROVE Did(w, w.stack[i].id, k) <= w.stack[i].count[k]
    <3> DEFINE id == r.stack[i].id
    <3>1. i \in 1 .. Len(r.stack) /\ w.stack[i] = r.stack[i]
      BY <1>3
    <3>2. Did(r, id, k) <= r.stack[i].count[k] /\ r.stack[i].count[k] \in Nat
      BY <1>1, <2>1, <3>1, CountType DEF Within
    <3>3. CASE k = "runcc" /\ id = Top(r).id
      <4>1. Len(r.stack) \in 1 .. Len(r.stack) /\ Top(r) = r.stack[Len(r.stack)]
        BY <1>1, Tops
      <4>2. i = Len(r.stack)
        BY <2>1, <3>1, <3>3, <4>1 DEF Owned
      <4>3. Did(r, id, k) < r.stack[i].count[k] /\ Did(w, id, k) = Did(r, id, k) + 1
        BY <2>1, <3>3, <4>1, <4>2, <1>6 DEF Room
      <4> QED BY <4>3, <2>d, <3>1, <3>2
    <3>4. CASE ~(k = "runcc" /\ id = Top(r).id)
      <4>1. Did(w, id, k) = Did(r, id, k)
        BY <3>4, <1>3, <1>6
      <4> QED BY <4>1, <3>1, <3>2
    <3> QED BY <3>3, <3>4
  <2> QED BY <2>2, <2>3 DEF Within
<1> QED BY <1>3, <1>4, <1>5, <1>7 DEF Good, Then, w, p

LEMMA GoodCancel ==
  ASSUME NEW n \in Nat, NEW s, NEW r, Good(r, s, n), NEW cc, NEW key
  PROVE  Then(CancelScheduled(r, cc, key), r, s, n) /\ KeepsRoom(CancelScheduled(r, cc, key), r)
BY GoodCancelled DEF CancelScheduled, WithScheduled

LEMMA GoodSchedule ==
  ASSUME NEW n \in Nat, NEW s, NEW r, Good(r, s, n), s => Room(r, "runcc"), NEW c, NEW key
  PROVE  Then(Schedule(r, c, key).run, r, s, n) /\ Schedule(r, c, key).kind \in {"ok", "error"}
<1> DEFINE p == IF key = "none" THEN r ELSE CancelScheduled(r, c.cc, key)
           e == [cc |-> c.cc, key |-> key, in |-> ChannelArg(r, c.ch), by |-> Top(r).id]
           w == WithScheduled(p, Append(p.scheduled, e))
           refused == key = "none" /\ c.data = "large"
<1>1. IF refused THEN Schedule(r, c, key).run = r /\ Schedule(r, c, key).kind = "error"
      ELSE Schedule(r, c, key).run = w /\ Schedule(r, c, key).kind = "ok"
  BY DEF Schedule, Ok, Error, WithScheduled
<1>2. e.by = Top(r).id /\ e.key = key /\ e.cc = c.cc
  OBVIOUS
<1>3. Good(p, s, n) /\ Len(p.stack) = Len(r.stack) /\ (s => Room(p, "runcc")) /\ Top(p).id = Top(r).id
  <2>1. CASE key = "none"
    BY <2>1
  <2>2. CASE key # "none"
    <3>1. "runcc" \in Counters
      BY DEF Counters
    <3>2. Top(p) = Top(r)
      BY <2>2 DEF CancelScheduled, Top, Good, IsRun, RunFields
    <3> QED BY <2>2, <3>1, <3>2, GoodCancel DEF Then, KeepsRoom
  <2> QED BY <2>1, <2>2
<1>4. e.key = "none" \/ \A i \in DOMAIN p.scheduled : p.scheduled[i].key # e.key \/ p.scheduled[i].cc # e.cc
  <2> SUFFICES ASSUME key # "none" PROVE \A i \in DOMAIN p.scheduled : p.scheduled[i].key # key \/ p.scheduled[i].cc # c.cc
    BY <1>2
  <2> DEFINE gone == {u \in Range(r.scheduled) : u.cc = c.cc /\ u.key = key}
             left == DeleteFunc(r.scheduled, gone)
  <2>1. IsList(r.scheduled)
    BY DEF Good, IsRun
  <2>2. p.scheduled = left
    BY DEF CancelScheduled, Good, IsRun, RunFields
  <2>3. IsLeftOf(left, r.scheduled, Len(r.scheduled), gone)
    BY <2>1, DeleteFuncLeaves
  <2> HIDE DEF left, gone
  <2>4. \A i \in DOMAIN left : left[i] \in Range(r.scheduled) /\ left[i] \notin gone
    BY <2>1, <2>3, DeletedIsLess
  <2> QED BY <2>2, <2>4 DEF gone
<1>5. CASE refused
  BY <1>1, <1>5 DEF Then
<1>6. CASE ~refused
  <2> HIDE DEF p, e
  <2>1. Then(w, p, s, n)
    BY <1>2, <1>3, <1>4, GoodScheduled
  <2> QED BY <1>1, <1>3, <1>6, <2>1 DEF Then
<1> QED BY <1>5, <1>6

-----------------------------------------------------------------------------
(* A child starts, and ends: its record goes to its caller.                 *)
HasChild(q, r, c) ==
  /\ Len(q.stack) = Len(r.stack) + 1 /\ Top(q) = c
  /\ \A i \in 1 .. Len(r.stack) : q.stack[i] = r.stack[i]
  /\ q.started = r.started + 1
  /\ \A f \in RunFields \ {"stack", "started"} : q[f] = r[f]

LEMMA ChildIs ==
  ASSUME NEW n \in Nat, NEW r, IsRun(r, n), Len(r.stack) <= MaxDepth, NEW ch
  PROVE  LET c == Context(r.started + 1, ch, Top(r).known, Top(r).posts, 0, {})
         IN /\ IsContext(c, n) /\ c.id = r.started + 1 /\ c.effects = <<>>
            /\ IsRun(Child(r, ch), n) /\ HasChild(Child(r, ch), r, c)
<1> DEFINE id == r.started + 1
           c == Context(id, ch, Top(r).known, Top(r).posts, 0, {})
           st == Append(r.stack, c)
           m == Len(r.stack)
           q == Child(r, ch)
<1>1. IsRun(r, n) /\ IsList(r.stack) /\ r.started \in Nat /\ m \in Nat \ {0} /\ MaxDepth \in Nat
      /\ r.sent \in Nat /\ DOMAIN r.stack = 1 .. m
  <2>1. IsList(r.stack) /\ r.started \in Nat /\ r.sent \in Nat
    BY DEF IsRun
  <2> QED BY <2>1, Tops, EmulatedRunAssumption
<1>2. IsContext(c, n) /\ c.id = id /\ c.effects = <<>>
  BY <1>1, NewContext
<1>3. q = [r EXCEPT !.started = id, !.stack = st]
  BY <1>1 DEF Child, IsRun, RunFields
<1> HIDE DEF c
<1>4. IsList(st) /\ Len(st) = m + 1 /\ (\A i \in 1 .. m : st[i] = r.stack[i]) /\ st[m + 1] = c
  BY <1>1, ListAppend
<1> HIDE DEF st, q
<1>5. /\ q = [f \in RunFields |-> q[f]] /\ q.stack = st /\ q.started = id
      /\ q.sent = r.sent /\ q.scheduled = r.scheduled /\ q.status = r.status /\ q.threads = r.threads
  BY <1>1, <1>3 DEF IsRun, RunFields
<1>6. IsRun(q, n)
  <2>1. \A i \in 1 .. m : IsContext(r.stack[i], n)
    BY <1>1 DEF IsRun
  <2>2. \A i \in 1 .. m + 1 : IsContext(st[i], n)
    BY <2>1, <1>1, <1>2, <1>4
  <2>3. r.status \in {"running", "done", "failed"} /\ IsList(r.scheduled)
    BY <1>1 DEF IsRun
  <2>4. m + 1 \in 1 .. MaxDepth + 1 /\ id \in Nat
    BY <1>1
  <2> HIDE DEF id, m
  <2> QED BY <2>2, <2>3, <2>4, <1>1, <1>4, <1>5 DEF IsRun
<1>7. HasChild(q, r, c)
  <2>1. Top(q) = c /\ Len(q.stack) = m + 1 /\ \A i \in 1 .. m : q.stack[i] = r.stack[i]
    BY <1>1, <1>4, <1>5 DEF Top, Last
  <2>2. \A f \in RunFields \ {"stack", "started"} : q[f] = r[f]
    BY <1>5 DEF RunFields
  <2> QED BY <2>1, <2>2, <1>5 DEF HasChild
<1> QED BY <1>2, <1>6, <1>7 DEF q, c

LEMMA GoodChild ==
  ASSUME NEW n \in Nat, NEW s, NEW r, Good(r, s, n), Len(r.stack) <= MaxDepth, NEW ch
  PROVE  Good(Child(r, ch), s, n)
<1> DEFINE id == r.started + 1
           c == Context(id, ch, Top(r).known, Top(r).posts, 0, {})
           m == Len(r.stack)
           q == Child(r, ch)
<1>1. IsRun(r, n) /\ r.started \in Nat /\ m \in Nat \ {0} /\ r.sent \in Nat
  <2>1. IsRun(r, n)
    BY DEF Good
  <2>2. r.started \in Nat /\ r.sent \in Nat
    BY <2>1 DEF IsRun
  <2> QED BY <2>1, <2>2, Tops
<1>2. IsContext(c, n) /\ c.id = id /\ c.effects = <<>> /\ IsRun(q, n) /\ HasChild(q, r, c)
  BY <1>1, ChildIs
<1> HIDE DEF c, q
<1>4. /\ Len(q.stack) = m + 1 /\ (\A i \in 1 .. m : q.stack[i] = r.stack[i]) /\ q.stack[m + 1] = c
      /\ Top(q) = c
  <2>1. Top(q) = q.stack[Len(q.stack)]
    BY <1>2, Tops
  <2> QED BY <1>2, <2>1 DEF HasChild
<1>5. /\ q.started = id /\ q.sent = r.sent /\ q.scheduled = r.scheduled /\ q.status = r.status
  BY <1>2 DEF HasChild, RunFields
<1>6. IsRun(q, n)
  BY <1>2
<1>7. Recorded(q) = Recorded(r)
  <2>1. Recorded(q) = Before(q, m) \o <<>> /\ IsList(Before(q, m))
    <3>1. Len(q.stack) - 1 = m
      BY <1>1, <1>4
    <3> QED BY <3>1, <1>2, <1>4, RecordedIs
  <2>2. SameLists(r.stack, q.stack, m)
    BY <1>4 DEF SameLists
  <2>3. Before(r, m) = Before(q, m)
    BY <2>2, <1>1, BeforeSame
  <2> QED BY <2>1, <2>3, <1>1, RecordedIs, ListEmpty
<1>8. ASSUME NEW of, NEW k PROVE Did(q, of, k) = Did(r, of, k)
  BY <1>5, <1>7 DEF Did
<1>9. Owned(q)
  <2>1. ASSUME NEW i \in 1 .. m + 1
        PROVE  /\ q.stack[i].id = IF i = m + 1 THEN id ELSE r.stack[i].id
               /\ i # m + 1 => r.stack[i].id \in 1 .. r.started /\ i \in 1 .. m
    <3>1. CASE i = m + 1
      BY <3>1, <1>2, <1>4, <1>5
    <3>2. CASE i # m + 1
      <4>1. i \in 1 .. m
        BY <3>2, <1>1
      <4> QED BY <4>1, <3>2, <1>4, <1>5 DEF Good, Owned
    <3> QED BY <3>1, <3>2
  <2>2. ASSUME NEW i \in 1 .. m + 1 PROVE q.stack[i].id \in 1 .. id
    <3>1. id \in 1 .. id /\ \A j \in 1 .. r.started : j \in 1 .. id
      BY <1>1
    <3> QED BY <2>1, <3>1
  <2>3. \A i, j \in 1 .. m + 1 : q.stack[i].id = q.stack[j].id => i = j
    BY <2>1, <1>1 DEF Good, Owned
  <2>4. \A i \in DOMAIN Recorded(r) : Recorded(r)[i].by \in 1 .. id
    BY <1>1 DEF Good, Owned
  <2>5. \A i \in DOMAIN r.scheduled : r.scheduled[i].by \in 1 .. id
    BY <1>1 DEF Good, Owned
  <2> QED BY <2>2, <2>3, <2>4, <2>5, <1>4, <1>5, <1>7 DEF Owned
<1>10. ASSUME s PROVE Within(q)
  <2>1. Within(r)
    BY <1>10 DEF Good
  <2>2. \A k \in Counters : \A of \in Nat : Did(q, of, k) <= LimitOf(k, premium)
    BY <2>1, <1>8 DEF Within
  <2>3. ASSUME NEW k \in Counters, NEW i \in 1 .. Len(q.stack) PROVE Did(q, q.stack[i].id, k) <= q.stack[i].count[k]
    <3>1. CASE i = m + 1
      <4>1. id \notin 1 .. r.started
        BY <1>1
      <4>2. Positions(Recorded(r), id, CountedFor(k)) = {} /\ ScheduledBy(r.scheduled, id) = {}
        BY <4>1 DEF Good, Owned, Positions, ScheduledBy
      <4>3. Did(r, id, k) = 0
        BY <4>2, FS_EmptySet DEF Did
      <4>4. q.stack[i] = c /\ c.count[k] \in Nat
        BY <3>1, <1>2, <1>4, <1>5 DEF IsContext
      <4> QED BY <4>3, <4>4, <1>2, <1>8
    <3>2. CASE i # m + 1
      <4>1. i \in 1 .. m
        BY <3>2, <1>1, <1>4, <1>5
      <4>2. q.stack[i] = r.stack[i]
        BY <4>1, <1>4, <1>5
      <4> QED BY <4>1, <4>2, <2>1, <1>8 DEF Within
    <3> QED BY <3>1, <3>2
  <2> QED BY <2>2, <2>3 DEF Within
<1> QED BY <1>5, <1>6, <1>7, <1>9, <1>10 DEF Good, q

Joined(r, failed) ==
  LET caller == r.stack[Len(r.stack) - 1]
  IN [caller EXCEPT !.effects = @ \o Top(r).effects,
                    !.posts = IF @ = {} THEN @ ELSE Top(r).posts,
                    !.warned = @ \cup Top(r).warned \cup (IF failed THEN {"execcc"} ELSE {})]
HasJoined(q, r, c) ==
  /\ Len(q.stack) = Len(r.stack) - 1 /\ Top(q) = c
  /\ \A i \in 1 .. Len(r.stack) - 2 : q.stack[i] = r.stack[i]
  /\ \A f \in RunFields \ {"stack"} : q[f] = r[f]

LEMMA JoinIs ==
  ASSUME NEW n \in Nat, NEW r, IsRun(r, n), Len(r.stack) > 1, NEW failed
  PROVE  /\ IsContext(r.stack[Len(r.stack) - 1], n) /\ IsContext(Joined(r, failed), n)
         /\ IsRun(Join(r, failed), n) /\ HasJoined(Join(r, failed), r, Joined(r, failed))
<1> DEFINE m == Len(r.stack) - 1
           child == Top(r)
           caller == r.stack[m]
           c == [caller EXCEPT !.effects = @ \o child.effects,
                               !.posts = IF @ = {} THEN @ ELSE child.posts,
                               !.warned = @ \cup child.warned \cup (IF failed THEN {"execcc"} ELSE {})]
           front == SubSeq(r.stack, 1, m - 1)
           st == Append(front, c)
           q == Join(r, failed)
<1>1. /\ IsRun(r, n) /\ Len(r.stack) = m + 1 /\ m \in Nat \ {0} /\ m \in 1 .. Len(r.stack)
      /\ m + 1 \in 1 .. Len(r.stack) /\ Top(r) = r.stack[m + 1] /\ IsContext(Top(r), n)
  BY Tops
<1>2. IsContext(caller, n)
  BY <1>1 DEF IsRun
<1>3. IsContext(c, n) /\ c = Joined(r, failed)
  <2>1. IsList(caller.effects \o child.effects)
    BY <1>1, <1>2, ListConcat DEF IsContext
  <2>2. c = Joined(r, failed)
    BY DEF Joined
  <2> HIDE DEF child, caller
  <2> QED BY <1>2, <2>1, <2>2 DEF IsContext, ContextFields
<1>4. q = [r EXCEPT !.stack = st]
  <2>1. Len(r.stack) - 2 = m - 1
    BY <1>1
  <2> QED BY <2>1 DEF Join
<1> HIDE DEF c
<1>5. IsList(front) /\ Len(front) = m - 1 /\ \A i \in 1 .. m - 1 : front[i] = r.stack[i]
  <2>1. PICK S : r.stack \in Seq(S)
    BY <1>1 DEF IsRun, IsList
  <2>2. \A i \in 1 .. m - 1 : r.stack[i] \in S
    BY <1>1, <2>1, ElementOfSeq
  <2>3. 1 \in Int /\ m - 1 \in Int /\ (m - 1) - 1 + 1 = m - 1
    BY <1>1
  <2>4. front \in Seq(S) /\ Len(front) = (IF 1 <= m - 1 THEN (m - 1) - 1 + 1 ELSE 0)
    BY <2>2, <2>3, SubSeqProperties
  <2>5. \A i \in 1 .. (m - 1) - 1 + 1 : SubSeq(r.stack, 1, m - 1)[i] = r.stack[1 + i - 1]
    BY <2>2, <2>3, SubSeqProperties
  <2>6. \A i \in 1 .. m - 1 : front[i] = r.stack[i]
    <3> SUFFICES ASSUME NEW i \in 1 .. m - 1 PROVE front[i] = r.stack[i]
      OBVIOUS
    <3>1. i \in 1 .. (m - 1) - 1 + 1 /\ 1 + i - 1 = i
      BY <1>1
    <3> QED BY <2>5, <3>1
  <2> HIDE DEF front
  <2> QED BY <1>1, <2>4, <2>6 DEF IsList
<1> HIDE DEF front
<1>6. IsList(st) /\ Len(st) = m /\ (\A i \in 1 .. m - 1 : st[i] = r.stack[i]) /\ st[m] = c
  BY <1>1, <1>5, ListAppend
<1> HIDE DEF st, q
<1>7. /\ q = [f \in RunFields |-> q[f]] /\ q.stack = st
      /\ \A f \in RunFields \ {"stack"} : q[f] = r[f]
  BY <1>1, <1>4 DEF IsRun, RunFields
<1>8. IsRun(q, n)
  <2>1. ASSUME NEW i \in 1 .. m PROVE IsContext(st[i], n)
    <3>1. CASE i = m
      BY <3>1, <1>3, <1>6
    <3>2. CASE i # m
      <4>1. i \in 1 .. m - 1 /\ i \in 1 .. Len(r.stack)
        BY <1>1, <3>2
      <4> QED BY <4>1, <1>1, <1>6 DEF IsRun
    <3> QED BY <3>1, <3>2
  <2>2. /\ r.status \in {"running", "done", "failed"} /\ IsList(r.scheduled)
        /\ r.sent \in Nat /\ r.started \in Nat /\ m + 1 \in 1 .. MaxDepth + 1 /\ MaxDepth \in Nat
    BY <1>1, EmulatedRunAssumption DEF IsRun
  <2>3. m \in 1 .. MaxDepth + 1
    BY <1>1, <2>2
  <2> QED BY <2>1, <2>2, <2>3, <1>6, <1>7 DEF IsRun, RunFields
<1>9. HasJoined(q, r, c)
  <2>1. Len(q.stack) = Len(r.stack) - 1 /\ Top(q) = c /\ Len(r.stack) - 2 = m - 1
    BY <1>1, <1>6, <1>7 DEF Top, Last
  <2>2. \A i \in 1 .. Len(r.stack) - 2 : q.stack[i] = r.stack[i]
    BY <2>1, <1>6, <1>7
  <2> QED BY <2>1, <2>2, <1>7 DEF HasJoined
<1> QED BY <1>2, <1>3, <1>8, <1>9 DEF q

LEMMA GoodJoin ==
  ASSUME NEW n \in Nat, NEW s, NEW r, Good(r, s, n), Len(r.stack) > 1, NEW failed
  PROVE  Good(Join(r, failed), s, n) /\ Len(Join(r, failed).stack) = Len(r.stack) - 1
<1> DEFINE m == Len(r.stack) - 1
           child == Top(r)
           caller == r.stack[m]
           c == Joined(r, failed)
           q == Join(r, failed)
<1>1. /\ IsRun(r, n) /\ Len(r.stack) = m + 1 /\ m \in Nat \ {0} /\ m \in 1 .. Len(r.stack)
      /\ m + 1 \in 1 .. Len(r.stack) /\ Top(r) = r.stack[m + 1] /\ IsContext(Top(r), n)
  BY Tops DEF Good
<1>2. IsContext(caller, n) /\ IsContext(c, n) /\ IsRun(q, n) /\ HasJoined(q, r, c)
  BY <1>1, JoinIs
<1>3. c.id = caller.id /\ c.count = caller.count /\ c.effects = caller.effects \o child.effects
  <2>1. c = [caller EXCEPT !.effects = @ \o child.effects,
                           !.posts = IF @ = {} THEN @ ELSE child.posts,
                           !.warned = @ \cup child.warned \cup (IF failed THEN {"execcc"} ELSE {})]
    BY DEF Joined
  <2> HIDE DEF child, caller, c
  <2> QED BY <1>2, <2>1 DEF IsContext, ContextFields
<1> HIDE DEF c, q
<1>6. Len(q.stack) = m /\ (\A i \in 1 .. m - 1 : q.stack[i] = r.stack[i]) /\ q.stack[m] = c /\ Top(q) = c
  <2>1. Top(q) = q.stack[Len(q.stack)] /\ Len(r.stack) - 2 = m - 1
    BY <1>1, <1>2, Tops
  <2> QED BY <2>1, <1>1, <1>2 DEF HasJoined
<1>7. q.started = r.started /\ q.sent = r.sent /\ q.scheduled = r.scheduled /\ q.status = r.status
  BY <1>2 DEF HasJoined, RunFields
<1>8. IsRun(q, n)
  BY <1>2
<1>9. Recorded(q) = Recorded(r)
  <2> DEFINE b == Before(r, m - 1)
             v == caller.effects
             t == child.effects
  <2>1. IsList(b) /\ IsList(v) /\ IsList(t) /\ Before(r, m) = b \o v
    BY <1>1, <1>2, BeforeIs DEF IsContext
  <2>2. Recorded(r) = Before(r, m) \o t
    <3>1. (m + 1) - 1 = m
      BY <1>1
    <3> QED BY <1>1, <3>1, RecordedIs
  <2>3. Recorded(q) = Before(q, m - 1) \o (v \o t)
    <3>1. Len(q.stack) - 1 = m - 1 /\ Top(q) = c
      BY <1>6
    <3> QED BY <3>1, <1>3, <1>8, RecordedIs
  <2>4. SameLists(r.stack, q.stack, m - 1) /\ m - 1 \in Nat
    BY <1>1, <1>6, <1>7 DEF SameLists
  <2>5. b = Before(q, m - 1)
    BY <2>4, BeforeSame
  <2>6. (b \o v) \o t = b \o (v \o t)
    <3> HIDE DEF b, v, t
    <3> QED BY <2>1, ListConcatThree
  <2> QED BY <2>1, <2>2, <2>3, <2>5, <2>6
<1>10. \A of, k : Did(q, of, k) = Did(r, of, k)
  BY <1>7, <1>9 DEF Did
<1>11. \A i \in 1 .. m : i \in 1 .. Len(r.stack) /\ q.stack[i].id = r.stack[i].id /\ q.stack[i].count = r.stack[i].count
  <2> SUFFICES ASSUME NEW i \in 1 .. m
               PROVE  i \in 1 .. Len(r.stack) /\ q.stack[i].id = r.stack[i].id /\ q.stack[i].count = r.stack[i].count
    OBVIOUS
  <2>1. CASE i = m
    BY <2>1, <1>1, <1>3, <1>6, <1>7
  <2>2. CASE i # m
    BY <2>2, <1>1, <1>6, <1>7
  <2> QED BY <2>1, <2>2
<1>12. Owned(q)
  BY <1>6, <1>7, <1>9, <1>11 DEF Good, Owned
<1>13. ASSUME s PROVE Within(q)
  <2>1. Within(r) /\ Len(q.stack) = m
    BY <1>13, <1>6, <1>7 DEF Good
  <2>2. \A k \in Counters : \A of \in Nat : Did(q, of, k) <= LimitOf(k, premium)
    BY <2>1, <1>10 DEF Within
  <2>3. \A k \in Counters : \A i \in 1 .. m : Did(q, q.stack[i].id, k) <= q.stack[i].count[k]
    BY <2>1, <1>10, <1>11 DEF Within
  <2> QED BY <2>1, <2>2, <2>3 DEF Within
<1> QED BY <1>1, <1>6, <1>7, <1>8, <1>9, <1>12, <1>13 DEF Good, q

-----------------------------------------------------------------------------
(* The end of a run.                                                        *)
LEMMA Free ==
  ASSUME NEW r, NEW s, NEW of, of \notin Bounded
  PROVE  Allowed(r, s, of)
BY CountedIsBounded DEF Allowed

LEMMA GoodCheckOutput ==
  ASSUME NEW n \in Nat, NEW s, NEW r, Good(r, s, n), NEW strict, NEW failed
  PROVE  Then(CheckOutput(r, strict, failed).run, r, s, n)
<1> DEFINE p == IF ~strict /\ Top(r).output > MaxOutput THEN Warn(r, "limit") ELSE r
<1>1. Then(p, r, s, n)
  BY GoodWarn DEF Then
<1>2. CheckOutput(r, strict, failed).run \in {p, Warn(p, "limit"), Warn(p, "response")}
  BY DEF CheckOutput, Response
<1> HIDE DEF p
<1>3. Then(Warn(p, "limit"), p, s, n) /\ Then(Warn(p, "response"), p, s, n)
  BY <1>1, GoodWarn DEF Then
<1> QED BY <1>1, <1>2, <1>3 DEF Then

LEMMA GoodShowError ==
  ASSUME NEW n \in Nat, NEW s, NEW r, Good(r, s, n), NEW strict, NEW size
  PROVE  Then(ShowError(r, strict, size), r, s, n)
<1> DEFINE p == Warn(r, "limit")
           ch == Top(r).channel
<1>1. Then(p, r, s, n)
  BY GoodWarn
<1>2. "error" \in Messages /\ "error" \notin Bounded
  BY DEF Messages, Bounded
<1>3. ShowError(r, strict, size) \in {p, RecordSentMessage(r, "error", ch), RecordSentMessage(p, "error", ch)}
  BY DEF ShowError
<1> HIDE DEF p, ch
<1>4. Then(RecordSentMessage(r, "error", ch), r, s, n) /\ Then(RecordSentMessage(p, "error", ch), p, s, n)
  BY <1>1, <1>2, Free, GoodSent DEF Then
<1> QED BY <1>1, <1>3, <1>4 DEF Then

LEMMA GoodStatus ==
  ASSUME NEW n \in Nat, NEW s, NEW r, Good(r, s, n), NEW status \in {"running", "done", "failed"}
  PROVE  Then([r EXCEPT !.status = status], r, s, n)
<1> DEFINE q == [r EXCEPT !.status = status]
<1>1. IsRun(q, n) /\ q.stack = r.stack /\ q.sent = r.sent /\ q.scheduled = r.scheduled /\ q.started = r.started
  BY DEF Good, IsRun, RunFields
<1> HIDE DEF q
<1>2. Then(q, r, s, n)
  BY <1>1, GoodSame
<1> QED BY <1>2 DEF q

LEMMA GoodFinish ==
  ASSUME NEW n \in Nat, NEW s, NEW r, Good(r, s, n), NEW strict, NEW failed, NEW show
  PROVE  LET q == Finish(r, strict, failed, show)
         IN /\ Good(q, s, n)
            /\ IF Len(r.stack) > 1 THEN Len(q.stack) = Len(r.stack) - 1 ELSE q.status # "running" /\ Len(q.stack) = 1
<1> DEFINE out == CheckOutput(r, strict, failed)
           now == Top(r).deletes = "now"
           responds == out.size > 0 /\ ~(failed /\ show) /\ ~now
           child == Len(r.stack) > 1
           sent == IF child THEN RecordSentMessage(out.run, "response", Top(r).channel) ELSE out.run
           shown == IF failed /\ show THEN ShowError(out.run, strict, out.size)
                    ELSE IF responds THEN RecordResponseSent(sent, IF child THEN sent.sent ELSE 0)
                    ELSE out.run
<1>1. Finish(r, strict, failed, show)
        = IF child THEN Join(shown, failed) ELSE [shown EXCEPT !.status = IF failed THEN "failed" ELSE "done"]
  BY DEF Finish
<1>2. Then(out.run, r, s, n)
  BY GoodCheckOutput
<1> HIDE DEF out
<1>3. Then(sent, r, s, n)
  <2>1. "response" \in Messages /\ "response" \notin Bounded
    BY DEF Messages, Bounded
  <2>2. Then(RecordSentMessage(out.run, "response", Top(r).channel), out.run, s, n)
    BY <1>2, <2>1, Free, GoodSent DEF Then
  <2> QED BY <1>2, <2>2 DEF Then
<1>4. Then(shown, r, s, n)
  <2>1. Then(ShowError(out.run, strict, out.size), out.run, s, n)
    BY <1>2, GoodShowError DEF Then
  <2>2. Then(RecordResponseSent(sent, IF child THEN sent.sent ELSE 0), sent, s, n)
    <3> HIDE DEF sent, child
    <3> QED BY <1>3, GoodResponse DEF Then
  <2> HIDE DEF sent, responds, child
  <2> QED BY <1>2, <1>3, <2>1, <2>2 DEF Then
<1> HIDE DEF shown
<1>5. CASE child
  <2>1. Good(Join(shown, failed), s, n) /\ Len(Join(shown, failed).stack) = Len(r.stack) - 1
    BY <1>4, <1>5, GoodJoin DEF Then
  <2> QED BY <1>1, <1>5, <2>1
<1>6. CASE ~child
  <2> DEFINE status == IF failed THEN "failed" ELSE "done"
             q == [shown EXCEPT !.status = status]
  <2>1. status \in {"running", "done", "failed"} /\ status # "running"
    OBVIOUS
  <2>2. Good(shown, s, n) /\ Len(shown.stack) = Len(r.stack)
    BY <1>4 DEF Then
  <2> HIDE DEF status
  <2>3. Then(q, shown, s, n)
    BY <2>1, <2>2, GoodStatus
  <2>4. q.status = status
    BY <2>2 DEF Good, IsRun, RunFields
  <2>5. Len(r.stack) = 1
    <3>1. IsRun(r, n)
      BY GoodTop
    <3> DEFINE m == Len(r.stack)
    <3>2. m \in Nat \ {0} /\ ~(m > 1)
      BY <3>1, <1>6, Tops
    <3> HIDE DEF m
    <3>3. m = 1
      BY <3>2
    <3> QED BY <3>3 DEF m
  <2> HIDE DEF q
  <2> QED BY <1>1, <1>6, <2>1, <2>2, <2>3, <2>4, <2>5 DEF Then, status, q
<1> QED BY <1>5, <1>6

LEMMA GoodBegin ==
  ASSUME NEW n \in Nat, NEW s, NEW r, Good(r, s, n), NEW strict, NEW long, NEW show
  PROVE  Good(Begin(r, strict, long, show), s, n)
<1>1. Good(Finish(r, strict, TRUE, show), s, n) /\ Good(Warn(r, "limit"), s, n)
  BY GoodFinish, GoodWarn DEF Then
<1> QED BY <1>1 DEF Begin

LEMMA GoodTry ==
  ASSUME NEW n \in Nat, NEW s, NEW r, Good(r, s, n), NEW in
  PROVE  Good(WithTop(r, [Top(r) EXCEPT !.inTry = in]), s, n)
<1> DEFINE c == [Top(r) EXCEPT !.inTry = in]
<1>1. IsContext(c, n) /\ c.id = Top(r).id /\ c.effects = Top(r).effects /\ c.count = Top(r).count
  BY GoodTop DEF IsContext, ContextFields
<1> HIDE DEF c
<1>2. Good(WithTop(r, c), s, n)
  BY <1>1, QuietTop DEF Then
<1> QED BY <1>2 DEF c

LEMMA GoodThrow ==
  ASSUME NEW n \in Nat, NEW s, NEW r, Good(r, s, n), NEW strict, NEW show
  PROVE  Good(Throw(r, strict, show), s, n)
<1>1. Good(Finish(r, strict, TRUE, show), s, n) /\ Good(WithTop(r, [Top(r) EXCEPT !.inTry = FALSE]), s, n)
  BY GoodFinish, GoodTry
<1> QED BY <1>1 DEF Throw

LEMMA GoodPrinted ==
  ASSUME NEW n \in Nat, NEW s, NEW r, Good(r, s, n), NEW strict, NEW size \in Nat, NEW show
  PROVE  Good(Printed(r, strict, size, show), s, n)
<1> DEFINE cap == IF strict THEN MaxOutput ELSE LenientOutput
           m == Top(r).output + size
           out == IF m > cap THEN cap ELSE m
           c == [Top(r) EXCEPT !.output = out]
           p == WithTop(r, c)
<1>1. Printed(r, strict, size, show) = IF m > cap THEN Finish(p, strict, TRUE, show) ELSE p
  BY DEF Printed
<1>a. out \in 0 .. LenientOutput
  <2>1. Top(r).output \in Nat /\ cap \in Nat /\ cap <= LenientOutput /\ LenientOutput \in Nat
    BY GoodTop, EmulatedRunAssumption DEF IsContext
  <2>2. m \in Nat
    BY <2>1
  <2> HIDE DEF cap, m
  <2> QED BY <2>1, <2>2
<1> HIDE DEF cap, m, out
<1>2. IsContext(c, n) /\ c.id = Top(r).id /\ c.effects = Top(r).effects /\ c.count = Top(r).count
  BY <1>a, GoodTop DEF IsContext, ContextFields
<1> HIDE DEF c
<1>3. Good(p, s, n)
  BY <1>2, QuietTop DEF Then
<1> HIDE DEF p
<1>4. Good(Finish(p, strict, TRUE, show), s, n)
  BY <1>3, GoodFinish
<1> QED BY <1>1, <1>3, <1>4

LEMMA GoodRanLong ==
  ASSUME NEW n \in Nat, NEW s, NEW r, Good(r, s, n), NEW strict, NEW far, NEW show
  PROVE  Good(RanLong(r, strict, far, show), s, n)
<1> DEFINE p == Warn(r, "limit")
<1>1. RanLong(r, strict, far, show) \in {Finish(r, strict, TRUE, show), Finish(p, strict, TRUE, show), p}
  BY DEF RanLong
<1>2. Good(p, s, n)
  BY GoodWarn DEF Then
<1> HIDE DEF p
<1> QED BY <1>1, <1>2, GoodFinish

-----------------------------------------------------------------------------
(* What a call does keeps the invariant, if there is room for what it counts. *)
OutcomeKinds == {"ok", "error", "refused", "rejected", "dropped", "noted", "child"}
Outcome(o, s, n) == Good(o.run, s, n) /\ o.kind \in OutcomeKinds

LEMMA OutcomeIs ==
  ASSUME NEW s, NEW n, NEW r, Good(r, s, n)
  PROVE  Outcome(Ok(r), s, n) /\ Outcome(Error(r), s, n) /\ Outcome(Refused(r), s, n)
BY DEF Outcome, OutcomeKinds, Ok, Error, Refused

LEMMA OutcomeNoted ==
  ASSUME NEW n \in Nat, NEW s, NEW r, Good(r, s, n), NEW kind
  PROVE  Outcome(Noted(r, kind), s, n)
BY GoodWarn DEF Outcome, OutcomeKinds, Noted, Then

LEMMA OutcomeChecked ==
  ASSUME NEW s, NEW n, NEW r, Good(r, s, n), NEW done, Good(done, s, n), NEW body
  PROVE  Outcome(Checked(r, body, done), s, n)
<1>1. Checked(r, body, done) \in {[kind |-> "rejected", run |-> done], Refused(r), Ok(done)}
  BY DEF Checked
<1>2. Outcome([kind |-> "rejected", run |-> done], s, n)
  BY DEF Outcome, OutcomeKinds
<1>3. Outcome(Refused(r), s, n) /\ Outcome(Ok(done), s, n)
  BY OutcomeIs
<1> QED BY <1>1, <1>2, <1>3

(* What each counter lets a call do.                                        *)
LEMMA MayDo ==
  ASSUME NEW r, NEW s
  PROVE  /\ (s => Room(r, "api_call")) =>
              \A of \in {"send", "edit", "giveRole", "takeRole", "addRole", "removeRole"} : Allowed(r, s, of)
         /\ (s => Room(r, "api_call") /\ Room(r, "send_dm")) => Allowed(r, s, "dm")
         /\ (s => Room(r, "create_thread")) => Allowed(r, s, "thread")
         /\ (s => Room(r, "message_pins")) => Allowed(r, s, "pin")
         /\ (s => Room(r, "exec")) => Allowed(r, s, "exec")
         /\ (s => Room(r, "del_reaction_message")) => Allowed(r, s, "unreaction")
         /\ \A of \in {"delete", "reaction", "allReactions", "firstMessage"} : Allowed(r, s, of)
BY DEF Allowed, CountedFor

LEMMA RecordOk ==
  ASSUME NEW n \in Nat, NEW s, NEW r, Good(r, s, n), NEW of, of \notin Messages, Allowed(r, s, of), NEW in, NEW id
  PROVE  Good(Record(r, of, in, id), s, n) /\ Outcome(Ok(Record(r, of, in, id)), s, n)
<1>1. Good(Record(r, of, in, id), s, n)
  BY GoodRecord DEF Then
<1> QED BY <1>1, OutcomeIs

LEMMA SendGood ==
  ASSUME NEW n \in Nat, NEW s, NEW r, Good(r, s, n), s => Room(r, "api_call"), NEW c
  PROVE  Outcome(Send(r, c), s, n)
<1> DEFINE done == RecordSentMessage(r, "send", ChannelArg(r, c.ch))
<1>1. Good(done, s, n)
  BY MayDo, GoodSent DEF Then, Messages
<1>2. Send(r, c) \in {Ok(r), Refused(r), Checked(r, c.body, done)}
  BY DEF Send
<1> HIDE DEF done
<1> QED BY <1>1, <1>2, OutcomeIs, OutcomeChecked

LEMMA SendDMGood ==
  ASSUME NEW n \in Nat, NEW s, NEW r, Good(r, s, n), s => Room(r, "api_call") /\ Room(r, "send_dm"), NEW c
  PROVE  Outcome(SendDM(r, c), s, n)
<1> DEFINE done == RecordSentMessage(r, "dm", "dm")
<1>1. Good(done, s, n)
  BY MayDo, GoodSent DEF Then, Messages
<1>2. SendDM(r, c) \in {Noted(r, "response"), [kind |-> "dropped", run |-> done], Ok(done)}
  BY DEF SendDM
<1> HIDE DEF done
<1>3. Outcome([kind |-> "dropped", run |-> done], s, n)
  BY <1>1 DEF Outcome, OutcomeKinds
<1>4. Outcome(Noted(r, "response"), s, n) /\ Outcome(Ok(done), s, n)
  BY <1>1, OutcomeIs, OutcomeNoted
<1> QED BY <1>2, <1>3, <1>4

LEMMA EditMessageGood ==
  ASSUME NEW n \in Nat, NEW s, NEW r, Good(r, s, n), s => Room(r, "api_call"), NEW c
  PROVE  Outcome(EditMessage(r, c), s, n)
<1> DEFINE ch == ChannelArg(r, c.ch)
           done == Record(r, "edit", ch, MessageId(r, ch, c.msg))
<1>1. Good(done, s, n)
  BY MayDo, RecordOk DEF Messages
<1>2. EditMessage(r, c) \in {Error(r), Refused(r), Checked(r, c.body, done)}
  BY DEF EditMessage
<1> HIDE DEF done
<1> QED BY <1>1, <1>2, OutcomeIs, OutcomeChecked

LEMMA DeleteMessageGood ==
  ASSUME NEW n \in Nat, NEW s, NEW r, Good(r, s, n), NEW c
  PROVE  Outcome(DeleteMessage(r, c), s, n) /\ Outcome(DeleteTrigger(r, c), s, n)
<1>1. "delete" \notin Messages /\ Allowed(r, s, "delete")
  BY MayDo DEF Messages
<1>2. \A in, id : Outcome(Ok(Record(r, "delete", in, id)), s, n)
  BY <1>1, RecordOk
<1>3. Outcome(Ok(r), s, n)
  BY OutcomeIs
<1> QED BY <1>2, <1>3 DEF DeleteMessage, DeleteTrigger

LEMMA QuietContext ==
  ASSUME NEW n \in Nat, NEW s, NEW r, Good(r, s, n), NEW c, IsContext(c, n),
         c.id = Top(r).id, c.effects = Top(r).effects, c.count = Top(r).count
  PROVE  Good(WithTop(r, c), s, n) /\ Outcome(Ok(WithTop(r, c)), s, n)
<1>1. Good(WithTop(r, c), s, n)
  BY QuietTop DEF Then
<1> QED BY <1>1, OutcomeIs

LEMMA DeleteResponseGood ==
  ASSUME NEW n \in Nat, NEW s, NEW r, Good(r, s, n), NEW c
  PROVE  Outcome(DeleteResponse(r, c), s, n)
<1> DEFINE d == [Top(r) EXCEPT !.deletes = c.when]
<1>1. IsContext(d, n) /\ d.id = Top(r).id /\ d.effects = Top(r).effects /\ d.count = Top(r).count
  BY GoodTop DEF IsContext, ContextFields
<1>2. DeleteResponse(r, c) = Ok(WithTop(r, d))
  BY DEF DeleteResponse
<1> HIDE DEF d
<1> QED BY <1>1, <1>2, QuietContext

LEMMA AddResponseReactionsGood ==
  ASSUME NEW n \in Nat, NEW s, NEW r, Good(r, s, n), NEW c
  PROVE  Outcome(AddResponseReactions(r, c), s, n)
<1> DEFINE d == [Top(r) EXCEPT !.reactions = @ + 1]
<1>1. IsContext(d, n) /\ d.id = Top(r).id /\ d.effects = Top(r).effects /\ d.count = Top(r).count
  BY GoodTop DEF IsContext, ContextFields
<1>2. AddResponseReactions(r, c) = Ok(WithTop(r, d))
  BY DEF AddResponseReactions
<1> HIDE DEF d
<1> QED BY <1>1, <1>2, QuietContext

LEMMA SleepGood ==
  ASSUME NEW n \in Nat, NEW s, NEW r, Good(r, s, n), NEW c
  PROVE  Outcome(Sleep(r, c), s, n)
<1> DEFINE d == [Top(r) EXCEPT !.slept = @ + c.seconds]
<1>1. IsContext(d, n) /\ d.id = Top(r).id /\ d.effects = Top(r).effects /\ d.count = Top(r).count
  BY GoodTop DEF IsContext, ContextFields
<1>2. Sleep(r, c) \in {Error(r), Ok(WithTop(r, d))}
  BY DEF Sleep
<1> HIDE DEF d
<1> QED BY <1>1, <1>2, OutcomeIs, QuietContext

LEMMA ChangeRoleGood ==
  ASSUME NEW n \in Nat, NEW s, NEW r, Good(r, s, n), s => Room(r, "api_call"),
         NEW c, c.fn \in {"giveRole", "takeRole", "addRole", "removeRole"}
  PROVE  Outcome(ChangeRole(r, c), s, n)
<1>1. Allowed(r, s, c.fn) /\ c.fn \notin Messages
  BY MayDo DEF Messages
<1>2. Outcome(Ok(Record(r, c.fn, c.role, 0)), s, n)
  BY <1>1, RecordOk
<1>3. ChangeRole(r, c) \in {Error(r), Ok(r), Ok(Record(r, c.fn, c.role, 0))}
  BY DEF ChangeRole
<1> QED BY <1>2, <1>3, OutcomeIs

LEMMA TargetHasRoleGood ==
  ASSUME NEW n \in Nat, NEW s, NEW r, Good(r, s, n), NEW c
  PROVE  Outcome(TargetHasRole(r, c), s, n)
BY OutcomeIs DEF TargetHasRole

LEMMA ExecGood ==
  ASSUME NEW n \in Nat, NEW s, NEW r, Good(r, s, n), s => Room(r, "exec"), NEW c
  PROVE  Outcome(Exec(r, c), s, n)
<1> DEFINE done == Record(r, "exec", Top(r).channel, 0)
<1>1. Good(done, s, n)
  BY MayDo, RecordOk DEF Messages
<1>2. Exec(r, c) \in {Error(r), Ok(done), Error(done), Noted(done, "exec")}
  BY DEF Exec
<1> HIDE DEF done
<1> QED BY <1>1, <1>2, OutcomeIs, OutcomeNoted

LEMMA ReactGood ==
  ASSUME NEW n \in Nat, NEW s, NEW r, Good(r, s, n), NEW c, NEW of \in {"reaction", "unreaction"}, Allowed(r, s, of)
  PROVE  Outcome(React(r, c, of), s, n)
<1> DEFINE done == Ok(Record(r, of, ChannelArg(r, c.ch), MessageId(r, ChannelArg(r, c.ch), c.msg)))
<1>1. of \notin Messages
  BY DEF Messages
<1>2. Outcome(done, s, n)
  BY <1>1, RecordOk
<1>3. React(r, c, of) \in {Refused(r), done}
  BY DEF React
<1> HIDE DEF done
<1> QED BY <1>2, <1>3, OutcomeIs

LEMMA OtherReactionsGood ==
  ASSUME NEW n \in Nat, NEW s, NEW r, Good(r, s, n), NEW c
  PROVE  Outcome(AddReactions(r, c), s, n) /\ Outcome(DeleteAllMessageReactions(r, c), s, n)
<1>1. /\ "reaction" \notin Messages /\ Allowed(r, s, "reaction")
      /\ "allReactions" \notin Messages /\ Allowed(r, s, "allReactions")
  BY MayDo DEF Messages
<1>2. \A in, id : Outcome(Ok(Record(r, "reaction", in, id)), s, n) /\ Outcome(Ok(Record(r, "allReactions", in, id)), s, n)
  BY <1>1, RecordOk
<1>3. Outcome(AddReactions(r, c), s, n)
  BY <1>2, OutcomeIs DEF AddReactions
<1>4. Outcome(DeleteAllMessageReactions(r, c), s, n)
  BY <1>2, OutcomeNoted DEF DeleteAllMessageReactions
<1> QED BY <1>3, <1>4

LEMMA PinGood ==
  ASSUME NEW n \in Nat, NEW s, NEW r, Good(r, s, n), s => Room(r, "message_pins"), NEW c
  PROVE  Outcome(Pin(r, c), s, n)
<1> DEFINE done == Ok(Record(r, "pin", ChannelArg(r, c.ch), MessageId(r, ChannelArg(r, c.ch), c.msg)))
<1>1. Outcome(done, s, n)
  BY MayDo, RecordOk DEF Messages
<1>2. Pin(r, c) \in {Error(r), Refused(r), done}
  BY DEF Pin
<1> HIDE DEF done
<1> QED BY <1>1, <1>2, OutcomeIs

LEMMA CreateForumPostGood ==
  ASSUME NEW n \in Nat, NEW s, NEW r, Good(r, s, n), s => Room(r, "create_thread"), NEW c
  PROVE  Outcome(CreateForumPost(r, c), s, n)
<1> DEFINE ch == ChannelArg(r, c.ch)
           made == RegisterThread(r, ch)
           d == [Top(made) EXCEPT !.posts = @ \cup {Top(made).created}]
           posted == WithTop(made, d)
           done == RecordSentMessage(posted, "firstMessage", "thread")
<1>1. Good(made, s, n)
  BY MayDo, GoodThread DEF Then
<1>2. CreateForumPost(r, c) \in {Ok(r), Error(r), Refused(r), Checked(r, c.body, done)}
  BY DEF CreateForumPost
<1> HIDE DEF made
<1>3. IsContext(d, n) /\ d.id = Top(made).id /\ d.effects = Top(made).effects /\ d.count = Top(made).count
  BY <1>1, GoodTop DEF IsContext, ContextFields
<1> HIDE DEF d
<1>4. Good(posted, s, n)
  BY <1>1, <1>3, QuietContext
<1> HIDE DEF posted
<1>5. "firstMessage" \in Messages /\ Allowed(posted, s, "firstMessage")
  BY MayDo DEF Messages
<1>6. Good(done, s, n)
  BY <1>4, <1>5, GoodSent DEF Then
<1> HIDE DEF done
<1> QED BY <1>2, <1>6, OutcomeIs, OutcomeChecked

LEMMA CreateThreadGood ==
  ASSUME NEW n \in Nat, NEW s, NEW r, Good(r, s, n), s => Room(r, "create_thread"), NEW c
  PROVE  Outcome(CreateThread(r, c), s, n)
<1> DEFINE made == RegisterThread(r, ChannelArg(r, c.ch))
<1>1. Good(made, s, n)
  BY MayDo, GoodThread DEF Then
<1>2. CreateThread(r, c) \in {Ok(r), Error(r), Refused(r), Ok(made)}
  BY DEF CreateThread
<1> HIDE DEF made
<1> QED BY <1>1, <1>2, OutcomeIs

LEMMA ScheduleOutcome ==
  ASSUME NEW n \in Nat, NEW s, NEW r, Good(r, s, n), s => Room(r, "runcc"), NEW c, NEW key
  PROVE  Outcome(Schedule(r, c, key), s, n)
BY GoodSchedule DEF Then, Outcome, OutcomeKinds

LEMMA ScheduleUniqueCCGood ==
  ASSUME NEW n \in Nat, NEW s, NEW r, Good(r, s, n), s => Room(r, "runcc"), NEW c
  PROVE  Outcome(ScheduleUniqueCC(r, c), s, n)
<1>1. ScheduleUniqueCC(r, c) \in {Error(r), Ok(r), Schedule(r, c, c.key)}
  BY DEF ScheduleUniqueCC
<1> QED BY <1>1, OutcomeIs, ScheduleOutcome

LEMMA ExecCCGood ==
  ASSUME NEW n \in Nat, NEW s, NEW r, Good(r, s, n), s => Room(r, "runcc"), NEW c
  PROVE  Outcome(ExecCC(r, c), s, n)
<1> DEFINE ch == ChannelArg(r, c.ch)
<1>1. \/ ExecCC(r, c) \in {Error(r), Schedule(r, c, "none"), Noted(r, "execcc")}
      \/ Len(r.stack) <= MaxDepth /\ ExecCC(r, c) = [kind |-> "child", run |-> Child(r, ch)]
  <2>1. Len(r.stack) \in Nat /\ MaxDepth \in Nat
    BY GoodTop, Tops, EmulatedRunAssumption
  <2> QED BY <2>1 DEF ExecCC
<1>2. CASE ExecCC(r, c) \in {Error(r), Schedule(r, c, "none"), Noted(r, "execcc")}
  BY <1>2, OutcomeIs, OutcomeNoted, ScheduleOutcome
<1>3. CASE Len(r.stack) <= MaxDepth /\ ExecCC(r, c) = [kind |-> "child", run |-> Child(r, ch)]
  <2>1. Good(Child(r, ch), s, n)
    BY <1>3, GoodChild
  <2> QED BY <1>3, <2>1 DEF Outcome, OutcomeKinds
<1> QED BY <1>1, <1>2, <1>3

(* There is room for all that a function counts.                            *)
HasRoom(r, fn) == \A i \in DOMAIN LimitsOf(fn) : Room(r, LimitsOf(fn)[i])

LEMMA RoomOf ==
  ASSUME NEW r, NEW fn, HasRoom(r, fn)
  PROVE  /\ fn \in {"sendMessage", "sendDM", "editMessage", "giveRole", "takeRole", "addRole", "removeRole"}
              => Room(r, "api_call")
         /\ fn = "sendDM" => Room(r, "send_dm")
         /\ fn \in {"createForumPost", "createThread"} => Room(r, "create_thread")
         /\ fn \in {"pinMessage", "unpinMessage"} => Room(r, "message_pins")
         /\ fn = "exec" => Room(r, "exec")
         /\ fn = "deleteMessageReaction" => Room(r, "del_reaction_message")
         /\ fn \in {"execCC", "scheduleUniqueCC"} => Room(r, "runcc")
<1>1. ASSUME NEW k, LimitsOf(fn) = <<k>> PROVE Room(r, k)
  <2>1. 1 \in DOMAIN LimitsOf(fn) /\ LimitsOf(fn)[1] = k
    BY <1>1
  <2> QED BY <2>1 DEF HasRoom
<1>2. CASE fn = "sendDM"
  <2>1. LimitsOf(fn) = <<"send_dm", "api_call">>
    BY <1>2 DEF LimitsOf
  <2>2. 1 \in DOMAIN LimitsOf(fn) /\ 2 \in DOMAIN LimitsOf(fn) /\ LimitsOf(fn)[1] = "send_dm"
        /\ LimitsOf(fn)[2] = "api_call"
    BY <2>1
  <2> QED BY <1>2, <2>2 DEF HasRoom
<1>3. CASE fn \in {"sendMessage", "editMessage", "giveRole", "takeRole", "addRole", "removeRole"}
  <2>1. LimitsOf(fn) = <<"api_call">>
    BY <1>3 DEF LimitsOf
  <2> QED BY <1>1, <1>3, <2>1
<1>4. CASE fn \in {"createForumPost", "createThread"}
  <2>1. LimitsOf(fn) = <<"create_thread">>
    BY <1>4 DEF LimitsOf
  <2> QED BY <1>1, <1>4, <2>1
<1>5. CASE fn \in {"pinMessage", "unpinMessage"}
  <2>1. LimitsOf(fn) = <<"message_pins">>
    BY <1>5 DEF LimitsOf
  <2> QED BY <1>1, <1>5, <2>1
<1>6. CASE fn = "exec"
  <2>1. LimitsOf(fn) = <<"exec">>
    BY <1>6 DEF LimitsOf
  <2> QED BY <1>1, <1>6, <2>1
<1>7. CASE fn = "deleteMessageReaction"
  <2>1. LimitsOf(fn) = <<"del_reaction_message">>
    BY <1>7 DEF LimitsOf
  <2> QED BY <1>1, <1>7, <2>1
<1>8. CASE fn \in {"execCC", "scheduleUniqueCC"}
  <2>1. LimitsOf(fn) = <<"runcc">>
    BY <1>8 DEF LimitsOf
  <2> QED BY <1>1, <1>8, <2>1
<1> QED BY <1>2, <1>3, <1>4, <1>5, <1>6, <1>7, <1>8

LEMMA BodyGood ==
  ASSUME NEW n \in Nat, NEW s, NEW r, Good(r, s, n), NEW c, s => HasRoom(r, c.fn)
  PROVE  Outcome(Body(r, c), s, n)
<1> DEFINE Fns == {"sendMessage", "sendDM", "editMessage", "deleteMessage", "deleteTrigger", "deleteResponse",
                   "giveRole", "takeRole", "addRole", "removeRole", "targetHasRole", "exec", "sleep", "addReactions",
                   "addResponseReactions", "addMessageReactions", "deleteMessageReaction",
                   "deleteAllMessageReactions", "pinMessage", "unpinMessage", "createForumPost", "createThread",
                   "scheduleUniqueCC", "cancelScheduledUniqueCC", "execCC"}
<1>1. CASE c.fn \in {"sendMessage", "sendDM", "editMessage"}
  <2>1. /\ c.fn = "sendMessage" => Body(r, c) = Send(r, c)
        /\ c.fn = "sendDM" => Body(r, c) = SendDM(r, c)
        /\ c.fn = "editMessage" => Body(r, c) = EditMessage(r, c)
    BY DEF Body
  <2> QED BY <1>1, <2>1, RoomOf, SendGood, SendDMGood, EditMessageGood
<1>2. CASE c.fn \in {"deleteMessage", "deleteTrigger", "deleteResponse"}
  <2>1. /\ c.fn = "deleteMessage" => Body(r, c) = DeleteMessage(r, c)
        /\ c.fn = "deleteTrigger" => Body(r, c) = DeleteTrigger(r, c)
        /\ c.fn = "deleteResponse" => Body(r, c) = DeleteResponse(r, c)
    BY DEF Body
  <2> QED BY <1>2, <2>1, DeleteMessageGood, DeleteResponseGood
<1>3. CASE c.fn \in {"giveRole", "takeRole", "addRole", "removeRole"}
  <2>1. Body(r, c) = ChangeRole(r, c)
    BY <1>3 DEF Body
  <2>2. s => Room(r, "api_call")
    BY <1>3, RoomOf
  <2> QED BY <1>3, <2>1, <2>2, ChangeRoleGood
<1>4. CASE c.fn \in {"targetHasRole", "exec", "sleep"}
  <2>1. /\ c.fn = "targetHasRole" => Body(r, c) = TargetHasRole(r, c)
        /\ c.fn = "exec" => Body(r, c) = Exec(r, c)
        /\ c.fn = "sleep" => Body(r, c) = Sleep(r, c)
    BY DEF Body
  <2> QED BY <1>4, <2>1, RoomOf, TargetHasRoleGood, ExecGood, SleepGood
<1>5. CASE c.fn \in {"addReactions", "addResponseReactions", "deleteAllMessageReactions"}
  <2>1. /\ c.fn = "addReactions" => Body(r, c) = AddReactions(r, c)
        /\ c.fn = "addResponseReactions" => Body(r, c) = AddResponseReactions(r, c)
        /\ c.fn = "deleteAllMessageReactions" => Body(r, c) = DeleteAllMessageReactions(r, c)
    BY DEF Body
  <2> QED BY <1>5, <2>1, OtherReactionsGood, AddResponseReactionsGood
<1>6. CASE c.fn \in {"addMessageReactions", "deleteMessageReaction"}
  <2>1. /\ c.fn = "addMessageReactions" => Body(r, c) = React(r, c, "reaction")
        /\ c.fn = "deleteMessageReaction" => Body(r, c) = React(r, c, "unreaction")
    BY DEF Body
  <2>2. Allowed(r, s, "reaction") /\ (c.fn = "deleteMessageReaction" => Allowed(r, s, "unreaction"))
    BY RoomOf, MayDo
  <2>3. c.fn = "addMessageReactions" => Outcome(React(r, c, "reaction"), s, n)
    BY <2>2, ReactGood
  <2>4. c.fn = "deleteMessageReaction" => Outcome(React(r, c, "unreaction"), s, n)
    BY <2>2, ReactGood
  <2> QED BY <1>6, <2>1, <2>3, <2>4
<1>7. CASE c.fn \in {"pinMessage", "unpinMessage"}
  <2>1. Body(r, c) = Pin(r, c)
    BY <1>7 DEF Body
  <2> QED BY <1>7, <2>1, RoomOf, PinGood
<1>8. CASE c.fn \in {"createForumPost", "createThread"}
  <2>1. /\ c.fn = "createForumPost" => Body(r, c) = CreateForumPost(r, c)
        /\ c.fn = "createThread" => Body(r, c) = CreateThread(r, c)
    BY DEF Body
  <2> QED BY <1>8, <2>1, RoomOf, CreateForumPostGood, CreateThreadGood
<1>9. CASE c.fn \in {"scheduleUniqueCC", "execCC"}
  <2>1. /\ c.fn = "scheduleUniqueCC" => Body(r, c) = ScheduleUniqueCC(r, c)
        /\ c.fn = "execCC" => Body(r, c) = ExecCC(r, c)
    BY DEF Body
  <2> QED BY <1>9, <2>1, RoomOf, ScheduleUniqueCCGood, ExecCCGood
<1>10. CASE c.fn = "cancelScheduledUniqueCC"
  <2>1. Body(r, c) = Ok(CancelScheduled(r, c.cc, c.key))
    BY <1>10 DEF Body
  <2>2. Good(CancelScheduled(r, c.cc, c.key), s, n)
    BY GoodCancel DEF Then
  <2> QED BY <2>1, <2>2, OutcomeIs
<1>11. CASE c.fn \notin Fns
  <2>1. Body(r, c) = Ok(r)
    BY <1>11 DEF Body
  <2> QED BY <2>1, OutcomeIs
<1> QED BY <1>1, <1>2, <1>3, <1>4, <1>5, <1>6, <1>7, <1>8, <1>9, <1>10, <1>11

LEMMA CarryOutGood ==
  ASSUME NEW n \in Nat, NEW s, NEW r, Good(r, s, n), NEW strict, NEW c, s => HasRoom(r, c.fn), NEW show
  PROVE  Good(CarryOut(r, strict, c, show), s, n)
<1> DEFINE o == Body(r, c)
           p == o.run
           warned == Warn(r, "limit")
<1>1. Good(p, s, n) /\ o.kind \in OutcomeKinds
  BY BodyGood DEF Outcome
<1>2. Good(warned, s, n) /\ Good(Warn(p, "limit"), s, n)
  BY <1>1, GoodWarn DEF Then
<1>3. CarryOut(r, strict, c, show) \in
        {p, warned, Warn(p, "limit"), Throw(p, strict, show), Throw(warned, strict, show), Begin(p, strict, c.long, show)}
  <2> HIDE DEF o, warned
  <2>1. CarryOut(r, strict, c, show) =
          CASE o.kind \in {"ok", "noted"} -> p
            [] o.kind = "error" -> Throw(p, strict, show)
            [] o.kind = "refused" -> IF ReturnsError(r, strict) THEN Throw(warned, strict, show) ELSE warned
            [] o.kind = "rejected" -> IF ReturnsError(r, strict) THEN Throw(warned, strict, show) ELSE Warn(p, "limit")
            [] o.kind = "dropped" -> IF strict THEN warned ELSE Warn(p, "limit")
            [] o.kind = "child" -> Begin(p, strict, c.long, show)
    BY DEF CarryOut, o, warned
  <2> QED BY <1>1, <2>1 DEF OutcomeKinds
<1> HIDE DEF o, p, warned
<1>4. /\ Good(Throw(p, strict, show), s, n) /\ Good(Throw(warned, strict, show), s, n)
      /\ Good(Begin(p, strict, c.long, show), s, n)
  BY <1>1, <1>2, GoodThrow, GoodBegin
<1> QED BY <1>1, <1>2, <1>3, <1>4

-----------------------------------------------------------------------------
(* The counting of a call makes room for what it counts, or finds none.     *)
LEMMA LimitsAreCounters ==
  ASSUME NEW fn
  PROVE  \A i \in DOMAIN LimitsOf(fn) : LimitsOf(fn)[i] \in Counters
<1>1. \/ \E k \in Counters : LimitsOf(fn) = <<k>>
      \/ \E k, l \in Counters : LimitsOf(fn) = <<k, l>>
      \/ LimitsOf(fn) = <<>>
  BY DEF LimitsOf, Counters
<1> QED BY <1>1

LEMMA CountedMore ==
  ASSUME NEW n \in Nat, NEW r, IsRun(r, n)
  PROVE  IsRun(r, n + 1)
<1>1. \A i \in 1 .. Len(r.stack) : IsContext(r.stack[i], n + 1)
  <2> SUFFICES ASSUME NEW i \in 1 .. Len(r.stack) PROVE IsContext(r.stack[i], n + 1)
    OBVIOUS
  <2>1. IsContext(r.stack[i], n)
    BY DEF IsRun
  <2> QED BY <2>1 DEF IsContext
<1> QED BY <1>1 DEF IsRun

LEMMA GoodMore ==
  ASSUME NEW n \in Nat, NEW s, NEW r, Good(r, s, n)
  PROVE  Good(r, s, n + 1)
BY CountedMore DEF Good

LEMMA CountCallsIs ==
  ASSUME NEW n \in Nat, NEW count \in [Counters -> 0 .. n], NEW fn
  PROVE  LET m == CountCalls(count, LimitsOf(fn), premium)
         IN /\ m.count \in [Counters -> 0 .. n + 1]
            /\ \A k \in Counters : count[k] <= m.count[k]
            /\ ~m.over => \A i \in DOMAIN LimitsOf(fn) :
                 LET k == LimitsOf(fn)[i] IN m.count[k] = count[k] + 1 /\ count[k] + 1 <= LimitOf(k, premium)
<1> DEFINE ks == LimitsOf(fn)
           m == CountCalls(count, ks, premium)
           over == {i \in DOMAIN ks : count[ks[i]] + 1 > LimitOf(ks[i], premium)}
           counted == {ks[i] : i \in {j \in DOMAIN ks : \A o \in over : j <= o}}
<1>1. m.count = [k \in Counters |-> IF k \in counted THEN count[k] + 1 ELSE count[k]] /\ m.over = (over # {})
  BY DEF CountCalls
<1>2. \A i \in DOMAIN ks : ks[i] \in Counters
  BY LimitsAreCounters
<1> HIDE DEF ks, m
<1>3. m.count \in [Counters -> 0 .. n + 1] /\ \A k \in Counters : count[k] <= m.count[k]
  <2> HIDE DEF counted
  <2> QED BY <1>1
<1>4. ASSUME ~m.over, NEW i \in DOMAIN ks
      PROVE  m.count[ks[i]] = count[ks[i]] + 1 /\ count[ks[i]] + 1 <= LimitOf(ks[i], premium)
  <2>1. over = {} /\ ks[i] \in Counters
    BY <1>1, <1>2, <1>4
  <2>2. ks[i] \in counted
    BY <2>1
  <2>3. count[ks[i]] \in Nat /\ LimitOf(ks[i], premium) \in Nat
    BY <2>1, LimitType
  <2>4. ~(count[ks[i]] + 1 > LimitOf(ks[i], premium))
    BY <2>1
  <2>5. m.count[ks[i]] = count[ks[i]] + 1
    <3> HIDE DEF counted, over
    <3> QED BY <1>1, <2>1, <2>2
  <2> QED BY <2>3, <2>4, <2>5
<1> QED BY <1>3, <1>4 DEF m, ks

LEMMA CountedGood ==
  ASSUME NEW n \in Nat, NEW s, NEW r, Good(r, s, n), NEW c
  PROVE  LET m == Counted(r, c)
         IN Good(m.run, s, n + 1) /\ (s /\ ~m.over => HasRoom(m.run, c.fn))
<1> DEFINE m == CountCalls(Top(r).count, LimitsOf(c.fn), premium)
           d == [Top(r) EXCEPT !.count = m.count, !.setFor = IF c.fn = "setRoles" /\ ~m.over THEN @ \cup {c.user} ELSE @]
           q == WithTop(r, d)
<1>1. Counted(r, c).run = q /\ (~Counted(r, c).over => ~m.over)
  BY DEF Counted
<1>2. IsRun(r, n) /\ IsContext(Top(r), n) /\ Top(r).count \in [Counters -> 0 .. n]
  BY GoodTop DEF IsContext
<1>3. /\ m.count \in [Counters -> 0 .. n + 1]
      /\ \A k \in Counters : Top(r).count[k] <= m.count[k]
      /\ ~m.over => \A i \in DOMAIN LimitsOf(c.fn) :
           LET k == LimitsOf(c.fn)[i]
           IN m.count[k] = Top(r).count[k] + 1 /\ Top(r).count[k] + 1 <= LimitOf(k, premium)
  BY <1>2, CountCallsIs
<1> HIDE DEF m
<1>4. IsContext(d, n + 1) /\ d.id = Top(r).id /\ d.effects = Top(r).effects /\ d.count = m.count
  BY <1>2, <1>3 DEF IsContext, ContextFields
<1> HIDE DEF d
<1>5. IsRun(r, n + 1) /\ Good(r, s, n + 1) /\ CountsUp(r, d) /\ n + 1 \in Nat
  BY <1>2, <1>3, <1>4, CountedMore, GoodMore DEF CountsUp
<1>6. Replaced(q, r, d, n + 1)
  BY <1>4, <1>5, ReplacedIs
<1> HIDE DEF q
<1>7. Recorded(q) = Recorded(r) \o <<>> /\ IsQuiet(<<>>, Top(r).id)
  <2>1. Recorded(q) = Recorded(r) /\ IsList(Recorded(r))
    BY <1>2, <1>4, <1>6, RecordedIs DEF Replaced
  <2> QED BY <2>1, ListEmpty DEF IsQuiet
<1>8. Good(q, s, n + 1) /\ \A id, k : Did(q, id, k) = Did(r, id, k)
  <2> DEFINE m1 == n + 1
  <2>1. Good(r, s, m1) /\ m1 \in Nat
    BY <1>5
  <2>2. IsRun(q, m1) /\ Framed(q, r) /\ q.sent = r.sent /\ q.scheduled = r.scheduled
    BY <1>6 DEF Replaced
  <2> HIDE DEF m1
  <2>3. Good(q, s, m1)
    BY <2>1, <2>2, <1>7, GoodQuiet
  <2>4. ASSUME NEW id, NEW k PROVE Did(q, id, k) = Did(r, id, k)
    <3> DEFINE t == <<>>
    <3>1. IsRun(r, n) /\ q.scheduled = r.scheduled
      BY <1>2, <2>2
    <3>2. Recorded(q) = Recorded(r) \o t /\ IsQuiet(t, Top(r).id)
      BY <1>7
    <3> HIDE DEF t
    <3> QED BY <3>1, <3>2, QuietDoes
  <2> QED BY <2>3, <2>4 DEF m1
<1>9. ASSUME s, ~m.over PROVE HasRoom(q, c.fn)
  <2> SUFFICES ASSUME NEW i \in DOMAIN LimitsOf(c.fn) PROVE Room(q, LimitsOf(c.fn)[i])
    BY DEF HasRoom
  <2> DEFINE k == LimitsOf(c.fn)[i]
  <2>1. k \in Counters /\ m.count[k] = Top(r).count[k] + 1 /\ Top(r).count[k] + 1 <= LimitOf(k, premium)
    BY <1>3, <1>9, LimitsAreCounters
  <2> HIDE DEF k
  <2>2. Did(r, Top(r).id, k) <= Top(r).count[k] /\ Did(r, Top(r).id, k) \in Nat /\ Top(r).count[k] \in Nat
        /\ LimitOf(k, premium) \in Nat
    <3>1. Len(r.stack) \in 1 .. Len(r.stack) /\ Top(r) = r.stack[Len(r.stack)]
      BY <1>2, Tops
    <3>2. Did(r, Top(r).id, k) <= Top(r).count[k]
      BY <3>1, <2>1, <1>9 DEF Good, Within
    <3> QED BY <3>2, <1>2, <2>1, DidType, LimitType
  <2>3. Top(q) = d
    BY <1>6 DEF Replaced
  <2>4. Did(q, Top(q).id, k) = Did(r, Top(r).id, k) /\ Top(q).count[k] = Top(r).count[k] + 1
    BY <2>1, <2>3, <1>4, <1>8
  <2>5. Room(q, k)
    BY <2>1, <2>2, <2>4 DEF Room
  <2> QED BY <2>5 DEF k
<1> QED BY <1>1, <1>8, <1>9

LEMMA WithLimitsGood ==
  ASSUME NEW n \in Nat, NEW strict, NEW r, Good(r, strict, n), NEW c, NEW show
  PROVE  Good(WithLimits(r, strict, c, show), strict, n + 1)
<1> DEFINE m == Counted(r, c)
           p == m.run
           warned == Warn(p, "limit")
<1>1. Good(p, strict, n + 1) /\ (strict /\ ~m.over => HasRoom(p, c.fn)) /\ n + 1 \in Nat
  BY CountedGood
<1>2. \/ WithLimits(r, strict, c, show) \in {r, warned, Throw(warned, strict, show)}
      \/ ~m.over /\ WithLimits(r, strict, c, show) = CarryOut(p, strict, c, show)
      \/ ~strict /\ WithLimits(r, strict, c, show) = CarryOut(warned, strict, c, show)
  BY DEF WithLimits, ReturnsError
<1> HIDE DEF m, p
<1>3. Good(warned, strict, n + 1)
  BY <1>1, GoodWarn DEF Then
<1> HIDE DEF warned
<1>4. CASE WithLimits(r, strict, c, show) \in {r, warned, Throw(warned, strict, show)}
  <2>1. Good(r, strict, n + 1) /\ Good(Throw(warned, strict, show), strict, n + 1)
    BY <1>1, <1>3, GoodMore, GoodThrow
  <2> QED BY <1>3, <1>4, <2>1
<1>5. CASE ~m.over /\ WithLimits(r, strict, c, show) = CarryOut(p, strict, c, show)
  <2>1. Good(CarryOut(p, strict, c, show), strict, n + 1)
    BY <1>1, <1>5, CarryOutGood
  <2> QED BY <1>5, <2>1
<1>6. CASE ~strict /\ WithLimits(r, strict, c, show) = CarryOut(warned, strict, c, show)
  <2>1. Good(CarryOut(warned, strict, c, show), strict, n + 1)
    BY <1>1, <1>3, <1>6, CarryOutGood
  <2> QED BY <1>6, <2>1
<1> QED BY <1>2, <1>4, <1>5, <1>6

-----------------------------------------------------------------------------
(* The invariant of both runs: what each of them keeps, of as many calls as *)
(* the program has made.                                                    *)
GoodUnder(p, r, s, n) ==
  /\ IsRun(r, n) /\ Owned(r) /\ Numbered(Recorded(r), r.sent) /\ OneEach(r.scheduled)
  /\ s => \A k \in Counters :
            /\ \A id \in Nat : Did(r, id, k) <= LimitOf(k, p)
            /\ \A i \in 1 .. Len(r.stack) : Did(r, r.stack[i].id, k) <= r.stack[i].count[k]

RunsInv ==
  /\ calls \in 0 .. MaxCalls /\ tries \in 0 .. MaxTries /\ followed \subseteq BOOLEAN
  /\ \A s \in BOOLEAN : GoodUnder(premium, runs[s], s, calls)

LEMMA GoodIs ==
  ASSUME NEW r, NEW s, NEW n
  PROVE  Good(r, s, n) <=> GoodUnder(premium, r, s, n)
BY DEF Good, Within, GoodUnder

(* A run that starts has done nothing.                                      *)
LEMMA NewRunGood ==
  ASSUME NEW s
  PROVE  Good(NewRun, s, 0)
<1> DEFINE c == Context(1, "here", {}, {}, 0, Muted)
           r == NewRun
<1>1. IsContext(c, 0) /\ c.id = 1 /\ c.effects = <<>>
  BY NewContext
<1> HIDE DEF c
<1>2. /\ r.stack = <<c>> /\ r.status = "running" /\ r.sent = 0 /\ r.scheduled = <<>> /\ r.started = 1
      /\ r = [f \in RunFields |-> r[f]]
  BY DEF NewRun, c, RunFields
<1> HIDE DEF r
<1>3. IsList(<<c>>) /\ Len(<<c>>) = 1 /\ IsList(<<>>) /\ DOMAIN <<>> = {}
  <2>1. <<c>> \in Seq({c}) /\ <<>> \in Seq({c}) /\ Len(<<c>>) = 1 /\ DOMAIN <<>> = {}
    OBVIOUS
  <2>2. IsList(<<c>>) /\ IsList(<<>>)
    BY <2>1 DEF IsList
  <2> QED BY <2>1, <2>2
<1>4. IsRun(r, 0)
  BY <1>1, <1>2, <1>3, EmulatedRunAssumption DEF IsRun
<1>5. Recorded(r) = <<>>
  <2>1. Top(r) = c
    <3>1. Top(r) = r.stack[Len(r.stack)]
      BY <1>4, Tops
    <3> QED BY <3>1, <1>2, <1>3
  <2>3. Before(r, Len(r.stack) - 1) = <<>>
    BY <1>2, <1>3 DEF Before
  <2>2. Recorded(r) = <<>> \o <<>>
    BY <1>1, <1>4, <2>1, <2>3, RecordedIs
  <2> QED BY <2>2, <1>3, ListEmpty
<1>6. Owned(r)
  BY <1>1, <1>2, <1>3, <1>5 DEF Owned
<1>7. Numbered(Recorded(r), r.sent)
  <2>1. Sent(<<>>) = {}
    BY <1>3 DEF Sent
  <2> QED BY <2>1, <1>2, <1>5, FS_EmptySet DEF Numbered
<1>8. \A id, k : Did(r, id, k) = 0
  <2>1. \A id, k : ScheduledBy(<<>>, id) = {} /\ Positions(<<>>, id, CountedFor(k)) = {}
    BY <1>3 DEF ScheduledBy, Positions
  <2> QED BY <2>1, <1>2, <1>5, FS_EmptySet DEF Did
<1>9. Within(r)
  <2>1. ASSUME NEW k \in Counters PROVE LimitOf(k, premium) \in Nat
    BY LimitType
  <2>2. ASSUME NEW k \in Counters, NEW i \in 1 .. Len(r.stack) PROVE r.stack[i].count[k] \in Nat
    BY <1>4, CountType
  <2> QED BY <1>8, <2>1, <2>2 DEF Within
<1>10. OneEach(r.scheduled)
  BY <1>2, <1>3 DEF OneEach
<1> QED BY <1>4, <1>6, <1>7, <1>9, <1>10 DEF Good, r

LEMMA RunsInvInit == Init => RunsInv
<1> SUFFICES ASSUME Init PROVE RunsInv
  OBVIOUS
<1>1. calls = 0 /\ tries = 0 /\ followed \subseteq BOOLEAN /\ MaxCalls \in Nat /\ MaxTries \in Nat
  BY EmulatedRunAssumption DEF Init, MaxCalls
<1>2. PICK long, show \in BOOLEAN : runs = [strict \in BOOLEAN |-> Begin(NewRun, strict, long, show)]
  BY DEF Init
<1>3. ASSUME NEW s \in BOOLEAN PROVE GoodUnder(premium, runs[s], s, 0)
  <2>1. Good(Begin(NewRun, s, long, show), s, 0)
    BY NewRunGood, GoodBegin
  <2> QED BY <2>1, <1>2, GoodIs
<1> QED BY <1>1, <1>3 DEF RunsInv

(* A step of both runs keeps it that keeps it of each that is followed.     *)
LEMMA AdvanceKeeps ==
  ASSUME RunsInv, NEW next, \A s \in BOOLEAN : Good(next[s], s, calls'), Advance(next),
         calls' \in 0 .. MaxCalls, tries' \in 0 .. MaxTries
  PROVE  RunsInv'
<1>1. runs' = next /\ followed' \subseteq BOOLEAN /\ premium' = premium
  BY DEF Advance, RunsInv
<1>2. \A s \in BOOLEAN : GoodUnder(premium', runs'[s], s, calls')
  BY <1>1, GoodIs
<1> QED BY <1>1, <1>2 DEF RunsInv

LEMMA CallKeeps ==
  ASSUME RunsInv, NEW fns, Call(fns)
  PROVE  RunsInv'
<1>1. /\ calls \in Nat /\ calls + 1 \in 0 .. MaxCalls /\ calls' = calls + 1 /\ tries' \in 0 .. MaxTries
  BY EmulatedRunAssumption DEF RunsInv, Call, MaxCalls
<1>2. PICK c \in Calls[calls + 1], show \in BOOLEAN :
        Advance([s \in BOOLEAN |-> IF s \in followed THEN WithLimits(runs[s], s, c, show) ELSE runs[s]])
  BY DEF Call
<1> DEFINE next == [s \in BOOLEAN |-> IF s \in followed THEN WithLimits(runs[s], s, c, show) ELSE runs[s]]
<1>3. ASSUME NEW s \in BOOLEAN PROVE Good(next[s], s, calls')
  <2>1. Good(runs[s], s, calls)
    BY GoodIs DEF RunsInv
  <2>2. Good(WithLimits(runs[s], s, c, show), s, calls + 1) /\ Good(runs[s], s, calls + 1)
    BY <1>1, <2>1, WithLimitsGood, GoodMore
  <2> QED BY <1>1, <2>2
<1> HIDE DEF next
<1> QED BY <1>1, <1>2, <1>3, AdvanceKeeps DEF next

LEMMA PrintTextKeeps == RunsInv /\ PrintText => RunsInv'
<1> SUFFICES ASSUME RunsInv, PrintText PROVE RunsInv'
  OBVIOUS
<1>1. /\ calls \in Nat /\ calls + 1 \in 0 .. MaxCalls /\ calls' = calls + 1 /\ tries' \in 0 .. MaxTries
  BY EmulatedRunAssumption DEF RunsInv, PrintText, MaxCalls
<1>2. PICK size \in 1 .. MaxOutput + 1, show \in BOOLEAN :
        Advance([s \in BOOLEAN |-> IF s \in followed THEN Printed(runs[s], s, size, show) ELSE runs[s]])
  BY DEF PrintText
<1> DEFINE next == [s \in BOOLEAN |-> IF s \in followed THEN Printed(runs[s], s, size, show) ELSE runs[s]]
<1>3. ASSUME NEW s \in BOOLEAN PROVE Good(next[s], s, calls')
  <2>1. Good(runs[s], s, calls)
    BY GoodIs DEF RunsInv
  <2>2. Good(Printed(runs[s], s, size, show), s, calls)
    <3>1. size \in Nat
      BY EmulatedRunAssumption
    <3> QED BY <1>1, <2>1, <3>1, GoodPrinted
  <2>3. Good(next[s], s, calls)
    BY <2>1, <2>2
  <2> HIDE DEF next
  <2> QED BY <1>1, <2>3, GoodMore
<1> HIDE DEF next
<1> QED BY <1>1, <1>2, <1>3, AdvanceKeeps DEF next

LEMMA RunsLongKeeps == RunsInv /\ RunsLong => RunsInv'
<1> SUFFICES ASSUME RunsInv, RunsLong PROVE RunsInv'
  OBVIOUS
<1>1. /\ calls \in Nat /\ calls + 1 \in 0 .. MaxCalls /\ calls' = calls + 1 /\ tries' \in 0 .. MaxTries
  BY EmulatedRunAssumption DEF RunsInv, RunsLong, MaxCalls
<1>2. PICK far, show \in BOOLEAN :
        Advance([s \in BOOLEAN |-> IF s \in followed THEN RanLong(runs[s], s, far, show) ELSE runs[s]])
  BY DEF RunsLong
<1> DEFINE next == [s \in BOOLEAN |-> IF s \in followed THEN RanLong(runs[s], s, far, show) ELSE runs[s]]
<1>3. ASSUME NEW s \in BOOLEAN PROVE Good(next[s], s, calls')
  <2>1. Good(runs[s], s, calls)
    BY GoodIs DEF RunsInv
  <2>2. Good(RanLong(runs[s], s, far, show), s, calls)
    BY <1>1, <2>1, GoodRanLong
  <2>3. Good(next[s], s, calls)
    BY <2>1, <2>2
  <2> HIDE DEF next
  <2> QED BY <1>1, <2>3, GoodMore
<1> HIDE DEF next
<1> QED BY <1>1, <1>2, <1>3, AdvanceKeeps DEF next

LEMMA SetTryKeeps ==
  ASSUME RunsInv, NEW in, SetTry(in), calls' = calls, tries' \in 0 .. MaxTries
  PROVE  RunsInv'
<1>1. calls \in Nat /\ calls' \in 0 .. MaxCalls
  BY EmulatedRunAssumption DEF RunsInv, MaxCalls
<1> DEFINE next == [s \in BOOLEAN |->
              IF s \in followed THEN WithTop(runs[s], [Top(runs[s]) EXCEPT !.inTry = in]) ELSE runs[s]]
<1>2. ASSUME NEW s \in BOOLEAN PROVE Good(next[s], s, calls')
  <2>1. Good(runs[s], s, calls)
    BY GoodIs DEF RunsInv
  <2>2. Good(WithTop(runs[s], [Top(runs[s]) EXCEPT !.inTry = in]), s, calls)
    BY <1>1, <2>1, GoodTry
  <2>3. Good(next[s], s, calls)
    BY <2>1, <2>2
  <2> HIDE DEF next
  <2> QED BY <2>3
<1>3. Advance(next)
  BY DEF SetTry
<1> HIDE DEF next
<1> QED BY <1>1, <1>2, <1>3, AdvanceKeeps

LEMMA EndKeeps == RunsInv /\ End => RunsInv'
<1> SUFFICES ASSUME RunsInv, End PROVE RunsInv'
  OBVIOUS
<1>1. calls \in Nat /\ calls' = calls /\ calls' \in 0 .. MaxCalls /\ tries' \in 0 .. MaxTries
  BY EmulatedRunAssumption DEF RunsInv, End, MaxCalls
<1> DEFINE next == [s \in BOOLEAN |-> IF s \in followed THEN Finish(runs[s], s, FALSE, FALSE) ELSE runs[s]]
<1>2. ASSUME NEW s \in BOOLEAN PROVE Good(next[s], s, calls')
  <2>1. Good(runs[s], s, calls)
    BY GoodIs DEF RunsInv
  <2>2. Good(Finish(runs[s], s, FALSE, FALSE), s, calls)
    BY <1>1, <2>1, GoodFinish
  <2>3. Good(next[s], s, calls)
    BY <2>1, <2>2
  <2> HIDE DEF next
  <2> QED BY <1>1, <2>3
<1>3. Advance(next)
  BY DEF End
<1> HIDE DEF next
<1> QED BY <1>1, <1>2, <1>3, AdvanceKeeps

LEMMA RunsInvStep == RunsInv /\ [Next]_vars => RunsInv'
<1> SUFFICES ASSUME RunsInv, [Next]_vars PROVE RunsInv'
  OBVIOUS
<1>1. CASE Message \/ RoleCall \/ Reaction \/ PinCall \/ Thread \/ RunCC \/ Other
  BY <1>1, CallKeeps DEF Message, RoleCall, Reaction, PinCall, Thread, RunCC, Other
<1>2. CASE PrintText
  BY <1>2, PrintTextKeeps
<1>3. CASE RunsLong
  BY <1>3, RunsLongKeeps
<1>4. CASE EnterTry
  <2>1. tries' \in 0 .. MaxTries /\ calls' = calls
    BY <1>4, EmulatedRunAssumption DEF EnterTry, RunsInv
  <2> QED BY <1>4, <2>1, SetTryKeeps DEF EnterTry
<1>5. CASE LeaveTry
  <2>1. tries' \in 0 .. MaxTries /\ calls' = calls
    BY <1>5 DEF LeaveTry, RunsInv
  <2> QED BY <1>5, <2>1, SetTryKeeps DEF LeaveTry
<1>6. CASE End
  BY <1>6, EndKeeps
<1>7. CASE UNCHANGED vars
  BY <1>7 DEF vars, RunsInv
<1> QED BY <1>1, <1>2, <1>3, <1>4, <1>5, <1>6, <1>7 DEF Next

(* Both runs keep the invariant through every program.                      *)
THEOREM RunsAreGood == Spec => []RunsInv
<1>1. RunsInv /\ [Next]_vars => RunsInv'
  BY RunsInvStep
<1> QED BY RunsInvInit, <1>1, PTL DEF Spec

(* Every run has its contexts, no more below one another than execCC allows, *)
(* and no context counts more calls than the program has made.              *)
THEOREM TypeCorrect == Spec => []TypeOK
<1>1. ASSUME RunsInv PROVE TypeOK
  <2>1. ASSUME NEW s \in BOOLEAN
        PROVE  /\ runs[s].status \in {"running", "done", "failed"}
               /\ Len(runs[s].stack) \in 1 .. MaxDepth + 1
               /\ \A i \in DOMAIN runs[s].stack : runs[s].stack[i].count \in [Counters -> 0 .. MaxCalls]
    <3>1. IsRun(runs[s], calls) /\ calls \in 0 .. MaxCalls /\ MaxCalls \in Nat
      BY <1>1, EmulatedRunAssumption DEF RunsInv, GoodUnder, MaxCalls
    <3>2. ASSUME NEW i \in DOMAIN runs[s].stack PROVE runs[s].stack[i].count \in [Counters -> 0 .. MaxCalls]
      <4>1. i \in 1 .. Len(runs[s].stack)
        BY <3>1, Tops
      <4>2. runs[s].stack[i].count \in [Counters -> 0 .. calls]
        BY <3>1, <4>1 DEF IsRun, IsContext
      <4> QED BY <3>1, <4>2
    <3> QED BY <3>1, <3>2 DEF IsRun
  <2> QED BY <1>1, <2>1 DEF TypeOK, RunsInv
<1> QED BY RunsAreGood, <1>1, PTL

(* Of the runs scheduled under a key for a command there is one, the last,  *)
(* whichever context scheduled them: the earlier one is cancelled first.    *)
THEOREM OneUnderAKey == Spec => []OneUniqueRun
<1>1. RunsInv => OneUniqueRun
  BY DEF RunsInv, GoodUnder, OneEach, OneUniqueRun
<1> QED BY RunsAreGood, <1>1, PTL

(* The messages of a run and of its children are numbered in the order of   *)
(* the record, from one on with none left out, however children join their  *)
(* callers.                                                                 *)
THEOREM NumberedInOrder == Spec => []MessagesNumbered
<1>1. RunsInv => MessagesNumbered
  BY DEF RunsInv, GoodUnder, Numbered, Sent, Messages, MessagesNumbered
<1> QED BY RunsAreGood, <1>1, PTL

(* With -strict no context does more of anything than YAGPDB lets a run do, *)
(* of every sequence of calls, children and {{try}} blocks.                 *)
THEOREM NeverOverTheLimits == Spec => []WithinLimits
<1>1. ASSUME RunsInv PROVE WithinLimits
  <2> SUFFICES ASSUME NEW id \in 1 .. Strict.started
               PROVE  /\ DidIn(Strict, id, {"send", "dm", "edit", "giveRole", "takeRole", "addRole", "removeRole"})
                           <= LimitOf("api_call", premium)
                      /\ DidIn(Strict, id, {"dm"}) <= LimitOf("send_dm", premium)
                      /\ DidIn(Strict, id, {"thread"}) <= LimitOf("create_thread", premium)
                      /\ DidIn(Strict, id, {"pin"}) <= LimitOf("message_pins", premium)
                      /\ DidIn(Strict, id, {"exec"}) <= LimitOf("exec", premium)
                      /\ DidIn(Strict, id, {"unreaction"}) <= LimitOf("del_reaction_message", premium)
                      /\ Cardinality({i \in DOMAIN Strict.scheduled : Strict.scheduled[i].by = id})
                           <= LimitOf("runcc", premium)
    BY DEF WithinLimits
  <2>1. GoodUnder(premium, Strict, TRUE, calls)
    BY <1>1 DEF RunsInv, Strict
  <2>2. id \in Nat
    <3>1. Strict.started \in Nat
      BY <2>1 DEF GoodUnder, IsRun
    <3> QED BY <3>1
  <2>3. \A k \in Counters : Did(Strict, id, k) <= LimitOf(k, premium)
    BY <2>1, <2>2 DEF GoodUnder
  <2>4. \A kinds : DidIn(Strict, id, kinds) = Cardinality(Positions(Recorded(Strict), id, kinds))
    BY DEF DidIn, Positions
  <2>5. /\ "api_call" \in Counters /\ "send_dm" \in Counters /\ "create_thread" \in Counters
        /\ "message_pins" \in Counters /\ "exec" \in Counters /\ "del_reaction_message" \in Counters
        /\ "runcc" \in Counters
    BY DEF Counters
  <2>6. /\ CountedFor("api_call") = {"send", "dm", "edit", "giveRole", "takeRole", "addRole", "removeRole"}
        /\ CountedFor("send_dm") = {"dm"} /\ CountedFor("create_thread") = {"thread"}
        /\ CountedFor("message_pins") = {"pin"} /\ CountedFor("exec") = {"exec"}
        /\ CountedFor("del_reaction_message") = {"unreaction"}
    BY DEF CountedFor
  <2>7. \A k \in Counters \ {"runcc"} : DidIn(Strict, id, CountedFor(k)) <= LimitOf(k, premium)
    BY <2>3, <2>4 DEF Did
  <2>8. Cardinality(ScheduledBy(Strict.scheduled, id)) <= LimitOf("runcc", premium)
    BY <2>3, <2>5 DEF Did
  <2> QED BY <2>5, <2>6, <2>7, <2>8 DEF ScheduledBy
<1> QED BY RunsAreGood, <1>1, PTL
-----------------------------------------------------------------------------
(***************************************************************************)
(* The two runs of one program: a lenient run that differs from the strict *)
(* one has noted a limit, and catches what the strict one does.  The       *)
(* argument: as long as nothing is over a limit the two are twins (Same),  *)
(* alike in all but the notes that are no limit's; where they part the     *)
(* lenient one notes it (Noted), and a note stays, in whichever context,   *)
(* until the run is over.                                                  *)
(***************************************************************************)
(* Runs that differ in their notes only.                                    *)
SameContext(c, d) == \A f \in ContextFields \ {"warned"} : c[f] = d[f]

Same(r, q) ==
  /\ Len(r.stack) = Len(q.stack)
  /\ \A i \in 1 .. Len(q.stack) : SameContext(r.stack[i], q.stack[i])
  /\ \A f \in RunFields \ {"stack"} : r[f] = q[f]

Twins(r, q, n) == IsRun(r, n) /\ IsRun(q, n) /\ Same(r, q)

(* What a context keeps through a call, but for {{try}} and what it prints; *)
(* and what a run keeps, which may have a child more.                       *)
Keeping(d, c) == c.warned \subseteq d.warned /\ d.output = c.output /\ d.inTry = c.inTry

Grown(y, q) ==
  /\ y.status = q.status /\ Len(q.stack) <= Len(y.stack)
  /\ \A i \in 1 .. Len(q.stack) : Keeping(y.stack[i], q.stack[i])

(* The twins r and q have become x and y, with the contexts they had.       *)
Moved(x, y, q, n) == Twins(x, y, n) /\ Grown(y, q) /\ Len(y.stack) = Len(q.stack)

LEMMA TwinTops ==
  ASSUME NEW n, NEW r, NEW q, Twins(r, q, n)
  PROVE  /\ IsContext(Top(r), n) /\ IsContext(Top(q), n) /\ SameContext(Top(r), Top(q))
         /\ Top(r).id = Top(q).id /\ Top(r).channel = Top(q).channel /\ Top(r).inTry = Top(q).inTry
         /\ Top(r).known = Top(q).known /\ Top(r).created = Top(q).created /\ Top(r).posts = Top(q).posts
         /\ Top(r).output = Top(q).output /\ Top(r).deletes = Top(q).deletes /\ Top(r).reactions = Top(q).reactions
         /\ Top(r).slept = Top(q).slept /\ Top(r).cannotSend = Top(q).cannotSend /\ Top(r).effects = Top(q).effects
         /\ Top(r).count = Top(q).count /\ Top(r).setFor = Top(q).setFor
         /\ Len(r.stack) = Len(q.stack) /\ r.status = q.status /\ r.sent = q.sent /\ r.threads = q.threads
         /\ r.scheduled = q.scheduled /\ r.started = q.started
<1>1. /\ Len(q.stack) \in Nat \ {0} /\ Top(q) = q.stack[Len(q.stack)] /\ IsContext(Top(q), n)
      /\ Top(r) = r.stack[Len(r.stack)] /\ IsContext(Top(r), n) /\ Len(r.stack) = Len(q.stack)
  BY Tops DEF Twins, Same
<1>2. SameContext(Top(r), Top(q))
  <2>1. Len(q.stack) \in 1 .. Len(q.stack)
    BY <1>1
  <2> QED BY <1>1, <2>1 DEF Twins, Same
<1>3. /\ r.status = q.status /\ r.sent = q.sent /\ r.threads = q.threads /\ r.scheduled = q.scheduled
      /\ r.started = q.started
  BY DEF Twins, Same, RunFields
<1> QED BY <1>1, <1>2, <1>3 DEF SameContext, ContextFields

LEMMA TwinSelf ==
  ASSUME NEW n, NEW r, IsRun(r, n)
  PROVE  Twins(r, r, n) /\ Grown(r, r)
<1>1. Len(r.stack) \in Nat
  BY Tops
<1> QED BY <1>1 DEF Twins, Same, SameContext, Grown, Keeping

LEMMA MovedNot ==
  ASSUME NEW n, NEW r, NEW q, Twins(r, q, n)
  PROVE  Moved(r, q, q, n)
BY TwinSelf DEF Moved, Twins

LEMMA GrownTwice ==
  ASSUME NEW y, NEW q, NEW v, NEW n, IsRun(y, n), IsRun(q, n), IsRun(v, n), Grown(y, q), Grown(v, y)
  PROVE  Grown(v, q)
<1>1. Len(q.stack) \in Nat /\ Len(y.stack) \in Nat /\ Len(v.stack) \in Nat
  BY Tops
<1> QED BY <1>1 DEF Grown, Keeping

LEMMA MovedTwice ==
  ASSUME NEW n, NEW q, IsRun(q, n), NEW x, NEW y, Moved(x, y, q, n), NEW u, NEW v, Moved(u, v, y, n)
  PROVE  Moved(u, v, q, n)
BY GrownTwice DEF Moved, Twins

LEMMA TwinsSet ==
  ASSUME NEW n, NEW r, NEW q, Twins(r, q, n), NEW c, NEW d, IsContext(c, n), IsContext(d, n), SameContext(c, d)
  PROVE  Twins(WithTop(r, c), WithTop(q, d), n)
<1> DEFINE x == WithTop(r, c)
           y == WithTop(q, d)
           m == Len(q.stack)
<1>1. IsRun(x, n) /\ Replaces(x, r, c) /\ IsRun(y, n) /\ Replaces(y, q, d)
  BY WithTopIs DEF Twins
<1>2. m \in Nat \ {0} /\ Len(r.stack) = m /\ Top(q) = q.stack[m] /\ Top(r) = r.stack[m]
  BY Tops DEF Twins, Same
<1> HIDE DEF x, y
<1>3. /\ Len(x.stack) = m /\ Len(y.stack) = m /\ x.stack[m] = c /\ y.stack[m] = d
      /\ \A i \in 1 .. m : i # m => x.stack[i] = r.stack[i] /\ y.stack[i] = q.stack[i]
  <2>1. Top(x) = x.stack[Len(x.stack)] /\ Top(y) = y.stack[Len(y.stack)]
    BY <1>1, Tops
  <2> QED BY <1>1, <1>2, <2>1 DEF Replaces
<1>4. Same(x, y)
  <2>1. \A i \in 1 .. m : SameContext(x.stack[i], y.stack[i])
    BY <1>3 DEF Twins, Same
  <2>2. \A f \in RunFields \ {"stack"} : x[f] = y[f]
    BY <1>1 DEF Twins, Same, Replaces
  <2> QED BY <1>3, <2>1, <2>2 DEF Same
<1> QED BY <1>1, <1>4 DEF Twins, x, y

LEMMA MovedTop ==
  ASSUME NEW n, NEW r, NEW q, Twins(r, q, n), NEW c, NEW d, IsContext(c, n), IsContext(d, n), SameContext(c, d),
         Keeping(d, Top(q))
  PROVE  Moved(WithTop(r, c), WithTop(q, d), q, n)
<1> DEFINE x == WithTop(r, c)
           y == WithTop(q, d)
           m == Len(q.stack)
<1>1. Replaces(y, q, d) /\ IsRun(y, n)
  BY WithTopIs DEF Twins
<1>2. m \in Nat \ {0} /\ Top(q) = q.stack[m] /\ Top(y) = y.stack[Len(y.stack)]
  BY <1>1, Tops DEF Twins
<1>3. Twins(x, y, n)
  BY TwinsSet
<1> HIDE DEF x, y
<1>4. Grown(y, q) /\ Len(y.stack) = m
  <2>1. \A i \in 1 .. m : Keeping(y.stack[i], q.stack[i])
    BY <1>1, <1>2 DEF Replaces, Keeping
  <2>2. y.status = q.status
    BY <1>1 DEF Replaces, RunFields
  <2> QED BY <1>1, <1>2, <2>1, <2>2 DEF Grown, Replaces
<1> QED BY <1>3, <1>4 DEF Moved, x, y

-----------------------------------------------------------------------------
(* What is recorded, of either.                                             *)
LEMMA MovedWarn ==
  ASSUME NEW n, NEW r, NEW q, Twins(r, q, n), NEW kind
  PROVE  /\ Moved(Warn(r, kind), Warn(q, kind), q, n)
         /\ kind \in Top(Warn(q, kind)).warned
<1> DEFINE c == [Top(r) EXCEPT !.warned = @ \cup {kind}]
           d == [Top(q) EXCEPT !.warned = @ \cup {kind}]
<1>1. IsContext(c, n) /\ IsContext(d, n) /\ SameContext(c, d) /\ Keeping(d, Top(q)) /\ kind \in d.warned
  <2> DEFINE a == Top(r)
             b == Top(q)
  <2>1. IsContext(a, n) /\ IsContext(b, n) /\ SameContext(a, b)
    BY TwinTops
  <2> HIDE DEF a, b
  <2>2. IsContext([a EXCEPT !.warned = @ \cup {kind}], n)
    BY <2>1 DEF IsContext, ContextFields
  <2>3. IsContext([b EXCEPT !.warned = @ \cup {kind}], n)
    BY <2>1 DEF IsContext, ContextFields
  <2>4. SameContext([a EXCEPT !.warned = @ \cup {kind}], [b EXCEPT !.warned = @ \cup {kind}])
    BY <2>1 DEF IsContext, ContextFields, SameContext
  <2>5. Keeping([b EXCEPT !.warned = @ \cup {kind}], b) /\ kind \in [b EXCEPT !.warned = @ \cup {kind}].warned
    BY <2>1 DEF IsContext, ContextFields, Keeping
  <2> QED BY <2>2, <2>3, <2>4, <2>5 DEF a, b
<1> HIDE DEF c, d
<1>2. Moved(WithTop(r, c), WithTop(q, d), q, n)
  BY <1>1, MovedTop
<1>3. Top(WithTop(q, d)) = d
  BY <1>1, WithTopIs DEF Twins, Replaces
<1> QED BY <1>1, <1>2, <1>3 DEF Warn, c, d

(* Any other field changes in both alike.                                   *)
LEMMA MovedField ==
  ASSUME NEW n, NEW r, NEW q, Twins(r, q, n), NEW f \in ContextFields \ {"warned", "output", "inTry"}, NEW v,
         f \in {"id", "reactions"} => v \in Nat, f = "count" => v \in [Counters -> 0 .. n], f = "effects" => IsList(v)
  PROVE  Moved(WithTop(r, [Top(r) EXCEPT ![f] = v]), WithTop(q, [Top(q) EXCEPT ![f] = v]), q, n)
<1> DEFINE a == Top(r)
           b == Top(q)
           c == [a EXCEPT ![f] = v]
           d == [b EXCEPT ![f] = v]
<1>1. IsContext(a, n) /\ IsContext(b, n) /\ SameContext(a, b)
  BY TwinTops
<1> HIDE DEF a, b
<1>2. /\ c = [g \in ContextFields |-> c[g]] /\ d = [g \in ContextFields |-> d[g]]
      /\ \A g \in ContextFields : c[g] = (IF g = f THEN v ELSE a[g]) /\ d[g] = (IF g = f THEN v ELSE b[g])
  <2>1. DOMAIN a = ContextFields /\ DOMAIN b = ContextFields
    BY <1>1 DEF IsContext
  <2> QED BY <2>1
<1> HIDE DEF c, d
<1>3. IsContext(c, n) /\ IsContext(d, n)
  BY <1>1, <1>2 DEF IsContext, ContextFields
<1>4. SameContext(c, d)
  BY <1>1, <1>2 DEF SameContext
<1>5. Keeping(d, b)
  BY <1>2 DEF Keeping, ContextFields
<1>6. Moved(WithTop(r, c), WithTop(q, d), q, n)
  BY <1>3, <1>4, <1>5, MovedTop DEF b
<1> QED BY <1>6 DEF a, b, c, d

LEMMA MovedRecord ==
  ASSUME NEW n, NEW r, NEW q, Twins(r, q, n), NEW of, NEW in, NEW id
  PROVE  Moved(Record(r, of, in, id), Record(q, of, in, id), q, n)
<1> DEFINE e == [by |-> Top(r).id, of |-> of, in |-> in, id |-> id]
           t == Append(Top(r).effects, e)
<1>1. IsList(t)
  BY TwinTops, ListAppend DEF IsContext
<1>2. /\ Record(r, of, in, id) = WithTop(r, [Top(r) EXCEPT !.effects = t])
      /\ Record(q, of, in, id) = WithTop(q, [Top(q) EXCEPT !.effects = t])
  <2>1. Append(Top(q).effects, [by |-> Top(q).id, of |-> of, in |-> in, id |-> id]) = t
    BY TwinTops
  <2>2. Record(q, of, in, id)
          = WithTop(q, [Top(q) EXCEPT !.effects = Append(Top(q).effects, [by |-> Top(q).id, of |-> of, in |-> in, id |-> id])])
    BY DEF Record
  <2>3. Record(r, of, in, id) = WithTop(r, [Top(r) EXCEPT !.effects = t])
    BY DEF Record
  <2> HIDE DEF t
  <2> QED BY <2>1, <2>2, <2>3
<1> HIDE DEF t
<1>3. "effects" \in ContextFields \ {"warned", "output", "inTry"}
  BY DEF ContextFields
<1>4. Moved(WithTop(r, [Top(r) EXCEPT !["effects"] = t]), WithTop(q, [Top(q) EXCEPT !["effects"] = t]), q, n)
  BY <1>1, <1>3, MovedField
<1> QED BY <1>2, <1>4

LEMMA MovedSameBut ==
  ASSUME NEW n, NEW r, NEW q, Twins(r, q, n), NEW f \in RunFields \ {"stack", "status"}, NEW v,
         f \in {"sent", "started"} => v \in Nat, f = "scheduled" => IsList(v)
  PROVE  Moved([r EXCEPT ![f] = v], [q EXCEPT ![f] = v], q, n)
<1> DEFINE x == [r EXCEPT ![f] = v]
           y == [q EXCEPT ![f] = v]
<1>1. /\ x = [g \in RunFields |-> x[g]] /\ y = [g \in RunFields |-> y[g]]
      /\ \A g \in RunFields : x[g] = (IF g = f THEN v ELSE r[g]) /\ y[g] = (IF g = f THEN v ELSE q[g])
  <2>1. DOMAIN r = RunFields /\ DOMAIN q = RunFields
    BY DEF Twins, IsRun
  <2> QED BY <2>1
<1> HIDE DEF x, y
<1>2. x.stack = r.stack /\ y.stack = q.stack /\ x.status = r.status /\ y.status = q.status
  BY <1>1 DEF RunFields
<1>3. IsRun(x, n)
  BY <1>1, <1>2 DEF Twins, IsRun, RunFields
<1>4. IsRun(y, n)
  BY <1>1, <1>2 DEF Twins, IsRun, RunFields
<1>5. Same(x, y)
  BY <1>1, <1>2 DEF Twins, Same
<1>6. Grown(y, q)
  BY <1>2, TwinSelf DEF Grown, Twins
<1> QED BY <1>2, <1>3, <1>4, <1>5, <1>6 DEF Moved, Twins, x, y

LEMMA MovedSent ==
  ASSUME NEW n, NEW r, NEW q, Twins(r, q, n), NEW of, NEW in
  PROVE  Moved(RecordSentMessage(r, of, in), RecordSentMessage(q, of, in), q, n)
<1> DEFINE m == r.sent + 1
           a == Record(r, of, in, m)
           b == Record(q, of, in, m)
           x == [a EXCEPT !.sent = m]
           y == [b EXCEPT !.sent = m]
           v == Top(x).known \cup {[id |-> m, in |-> in]}
           u == WithTop(x, [Top(x) EXCEPT !.known = v])
           w == WithTop(y, [Top(y) EXCEPT !.known = v])
<1>1. m \in Nat /\ q.sent + 1 = m /\ IsRun(q, n)
  <2>1. IsRun(r, n) /\ IsRun(q, n) /\ q.sent = r.sent
    BY TwinTops DEF Twins
  <2>2. r.sent \in Nat
    BY <2>1 DEF IsRun
  <2> QED BY <2>1, <2>2
<1>2. Moved(a, b, q, n)
  BY MovedRecord
<1>3. Moved(x, y, q, n)
  <2>1. "sent" \in RunFields \ {"stack", "status"}
    BY DEF RunFields
  <2> HIDE DEF a, b, m
  <2>2. Moved([a EXCEPT !["sent"] = m], [b EXCEPT !["sent"] = m], b, n)
    BY <1>1, <1>2, <2>1, MovedSameBut DEF Moved
  <2> QED BY <2>2, <1>1, <1>2, MovedTwice
<1>4. /\ RecordSentMessage(r, of, in) = IF in = "dm" THEN x ELSE u
      /\ RecordSentMessage(q, of, in) = IF in = "dm" THEN y ELSE w
  <2>1. Top(y).known = Top(x).known
    BY <1>3, TwinTops DEF Moved
  <2>2. RecordSentMessage(r, of, in) = IF in = "dm" THEN x ELSE u
    BY DEF RecordSentMessage
  <2>3. RecordSentMessage(q, of, in)
          = IF in = "dm" THEN y ELSE WithTop(y, [Top(y) EXCEPT !.known = Top(y).known \cup {[id |-> m, in |-> in]}])
    BY <1>1 DEF RecordSentMessage
  <2> HIDE DEF y, x
  <2> QED BY <2>1, <2>2, <2>3
<1> HIDE DEF x, y, v
<1>5. Moved(u, w, q, n)
  <2>1. "known" \in ContextFields \ {"warned", "output", "inTry"}
    BY DEF ContextFields
  <2>2. Moved(WithTop(x, [Top(x) EXCEPT !["known"] = v]), WithTop(y, [Top(y) EXCEPT !["known"] = v]), y, n)
    BY <1>3, <2>1, MovedField DEF Moved
  <2> QED BY <2>2, <1>1, <1>3, MovedTwice
<1> QED BY <1>3, <1>4, <1>5

LEMMA MovedThread ==
  ASSUME NEW n, NEW r, NEW q, Twins(r, q, n), NEW parent
  PROVE  Moved(RegisterThread(r, parent), RegisterThread(q, parent), q, n)
<1> DEFINE m == Top(r).created + 1
           a == WithTop(r, [Top(r) EXCEPT !.created = m])
           b == WithTop(q, [Top(q) EXCEPT !.created = m])
           u == Record(a, "thread", parent, m)
           w == Record(b, "thread", parent, m)
           t == u.threads \cup {m}
<1>1. Top(q).created + 1 = m /\ IsRun(q, n)
  BY TwinTops DEF Twins
<1> HIDE DEF m
<1>2. Moved(a, b, q, n)
  <2>1. "created" \in ContextFields \ {"warned", "output", "inTry"}
    BY DEF ContextFields
  <2>2. Moved(WithTop(r, [Top(r) EXCEPT !["created"] = m]), WithTop(q, [Top(q) EXCEPT !["created"] = m]), q, n)
    BY <2>1, MovedField
  <2> QED BY <2>2
<1>3. Moved(u, w, q, n)
  <2> HIDE DEF a, b
  <2>1. Moved(u, w, b, n)
    BY <1>2, MovedRecord DEF Moved
  <2> QED BY <2>1, <1>1, <1>2, MovedTwice
<1>4. w.threads \cup {m} = t
  BY <1>3, TwinTops DEF Moved
<1>5. /\ RegisterThread(r, parent) = [u EXCEPT !.threads = t]
      /\ RegisterThread(q, parent) = [w EXCEPT !.threads = t]
  <2>1. RegisterThread(r, parent) = [u EXCEPT !.threads = t]
    BY DEF RegisterThread, m
  <2>2. RegisterThread(q, parent) = [w EXCEPT !.threads = w.threads \cup {m}]
    BY <1>1 DEF RegisterThread
  <2> HIDE DEF w, t
  <2> QED BY <2>1, <2>2, <1>4
<1> HIDE DEF u, w, t
<1>6. Moved([u EXCEPT !["threads"] = t], [w EXCEPT !["threads"] = t], w, n)
  <2>1. "threads" \in RunFields \ {"stack", "status"}
    BY DEF RunFields
  <2> QED BY <1>3, <2>1, MovedSameBut DEF Moved
<1>7. Moved([u EXCEPT !["threads"] = t], [w EXCEPT !["threads"] = t], q, n)
  BY <1>1, <1>3, <1>6, MovedTwice
<1> QED BY <1>5, <1>7

LEMMA MovedResponse ==
  ASSUME NEW n, NEW r, NEW q, Twins(r, q, n), NEW of
  PROVE  Moved(RecordResponseSent(r, of), RecordResponseSent(q, of), q, n)
<1> DEFINE c == Top(r)
           a == IF c.deletes = "no" THEN r ELSE Record(r, "delete", c.channel, of)
           b == IF c.deletes = "no" THEN q ELSE Record(q, "delete", c.channel, of)
           t == [i \in 1 .. c.reactions |-> [by |-> c.id, of |-> "responseReaction", in |-> c.channel, id |-> of]]
           v == Top(a).effects \o t
<1>1. /\ IsRun(q, n) /\ c.deletes = Top(q).deletes /\ c.channel = Top(q).channel /\ c.id = Top(q).id
      /\ c.reactions = Top(q).reactions /\ c.reactions \in Nat
  BY TwinTops DEF Twins, IsContext
<1>2. Moved(a, b, q, n)
  BY MovedNot, MovedRecord
<1>3. IsList(t)
  <2>1. t \in [1 .. c.reactions -> Range(t)]
    BY DEF Range
  <2> HIDE DEF t
  <2>2. t \in Seq(Range(t))
    BY <2>1, <1>1, SeqDef
  <2> QED BY <2>2 DEF IsList
<1>4. Top(b).effects = Top(a).effects /\ IsList(v)
  <2> HIDE DEF t, a, b
  <2>1. Top(b).effects = Top(a).effects /\ IsList(Top(a).effects)
    BY <1>2, TwinTops DEF Moved, IsContext
  <2> QED BY <1>3, <2>1, ListConcat
<1>5. /\ RecordResponseSent(r, of) = WithTop(a, [Top(a) EXCEPT !.effects = v])
      /\ RecordResponseSent(q, of) = WithTop(b, [Top(b) EXCEPT !.effects = v])
  <2>1. RecordResponseSent(r, of) = WithTop(a, [Top(a) EXCEPT !.effects = v])
    BY DEF RecordResponseSent
  <2>2. RecordResponseSent(q, of) = WithTop(b, [Top(b) EXCEPT !.effects = Top(b).effects \o t])
    BY <1>1 DEF RecordResponseSent
  <2> HIDE DEF a, b, t
  <2> QED BY <2>1, <2>2, <1>4
<1> HIDE DEF a, b, v
<1>6. Moved(WithTop(a, [Top(a) EXCEPT !["effects"] = v]), WithTop(b, [Top(b) EXCEPT !["effects"] = v]), b, n)
  <2>1. "effects" \in ContextFields \ {"warned", "output", "inTry"}
    BY DEF ContextFields
  <2>2. Twins(a, b, n)
    BY <1>2 DEF Moved
  <2> QED BY <1>4, <2>1, <2>2, MovedField
<1>7. Moved(WithTop(a, [Top(a) EXCEPT !["effects"] = v]), WithTop(b, [Top(b) EXCEPT !["effects"] = v]), q, n)
  BY <1>1, <1>2, <1>6, MovedTwice
<1> QED BY <1>5, <1>7

LEMMA MovedCancel ==
  ASSUME NEW n, NEW r, NEW q, Twins(r, q, n), NEW cc, NEW key
  PROVE  Moved(CancelScheduled(r, cc, key), CancelScheduled(q, cc, key), q, n)
<1> DEFINE gone == {s \in Range(r.scheduled) : s.cc = cc /\ s.key = key}
           p == DeleteFunc(r.scheduled, gone)
<1>1. r.scheduled = q.scheduled /\ IsList(r.scheduled)
  <2>1. r.scheduled = q.scheduled /\ IsRun(r, n)
    BY TwinTops DEF Twins
  <2> QED BY <2>1 DEF IsRun
<1>2. IsList(p)
  <2> HIDE DEF gone
  <2> QED BY <1>1, DeleteFuncLeaves DEF IsLeftOf
<1>3. CancelScheduled(r, cc, key) = [r EXCEPT !.scheduled = p]
  BY DEF CancelScheduled
<1>4. CancelScheduled(q, cc, key) = [q EXCEPT !.scheduled = p]
  <2>1. CancelScheduled(q, cc, key)
          = [q EXCEPT !.scheduled = DeleteFunc(q.scheduled, {s \in Range(q.scheduled) : s.cc = cc /\ s.key = key})]
    BY DEF CancelScheduled
  <2>2. DeleteFunc(q.scheduled, {s \in Range(q.scheduled) : s.cc = cc /\ s.key = key}) = p
    BY <1>1
  <2> HIDE DEF p
  <2> QED BY <2>1, <2>2
<1> HIDE DEF p
<1>5. "scheduled" \in RunFields \ {"stack", "status"}
  BY DEF RunFields
<1>6. Moved([r EXCEPT !["scheduled"] = p], [q EXCEPT !["scheduled"] = p], q, n)
  BY <1>2, <1>5, MovedSameBut
<1> QED BY <1>3, <1>4, <1>6

LEMMA MovedChild ==
  ASSUME NEW n \in Nat, NEW r, NEW q, Twins(r, q, n), Len(q.stack) <= MaxDepth, NEW ch
  PROVE  Twins(Child(r, ch), Child(q, ch), n) /\ Grown(Child(q, ch), q) /\ Len(Child(q, ch).stack) = Len(q.stack) + 1
<1> DEFINE c == Context(r.started + 1, ch, Top(r).known, Top(r).posts, 0, {})
           x == Child(r, ch)
           y == Child(q, ch)
           m == Len(q.stack)
<1>1. c = Context(q.started + 1, ch, Top(q).known, Top(q).posts, 0, {}) /\ Len(r.stack) = m
  BY TwinTops
<1> HIDE DEF c
<1>2. IsRun(x, n) /\ HasChild(x, r, c)
  BY <1>1, ChildIs DEF Twins, c
<1>3. IsRun(y, n) /\ HasChild(y, q, c)
  BY <1>1, ChildIs DEF Twins
<1> HIDE DEF x, y
<1>4. m \in Nat /\ Top(x) = x.stack[Len(x.stack)] /\ Top(y) = y.stack[Len(y.stack)]
  BY <1>2, <1>3, Tops DEF Twins
<1>5. /\ Len(x.stack) = m + 1 /\ Len(y.stack) = m + 1 /\ x.stack[m + 1] = c /\ y.stack[m + 1] = c
      /\ \A i \in 1 .. m : x.stack[i] = r.stack[i] /\ y.stack[i] = q.stack[i]
  BY <1>1, <1>2, <1>3, <1>4 DEF HasChild
<1>6. Same(x, y)
  <2>1. ASSUME NEW i \in 1 .. m + 1 PROVE SameContext(x.stack[i], y.stack[i])
    <3>1. CASE i = m + 1
      BY <3>1, <1>5 DEF SameContext
    <3>2. CASE i # m + 1
      <4>1. i \in 1 .. m
        BY <3>2, <1>4
      <4> QED BY <4>1, <1>5 DEF Twins, Same
    <3> QED BY <3>1, <3>2
  <2>2. \A f \in RunFields \ {"stack"} : x[f] = y[f]
    <3>1. x.started = y.started
      BY <1>2, <1>3, TwinTops DEF HasChild
    <3>2. \A f \in RunFields \ {"stack", "started"} : x[f] = y[f]
      BY <1>2, <1>3 DEF HasChild, Twins, Same
    <3> QED BY <3>1, <3>2
  <2> QED BY <1>5, <2>1, <2>2 DEF Same
<1>7. Grown(y, q)
  <2>1. y.status = q.status
    BY <1>3 DEF HasChild, RunFields
  <2> QED BY <1>4, <1>5, <2>1 DEF Grown, Keeping
<1> QED BY <1>2, <1>3, <1>5, <1>6, <1>7 DEF Twins, x, y

-----------------------------------------------------------------------------
(* What a call does: of the same kind in both, to runs that stay twins.     *)
SameOutcome(o, p, q, n) ==
  /\ o.kind = p.kind /\ o.kind \in OutcomeKinds /\ Twins(o.run, p.run, n) /\ Grown(p.run, q)
  /\ Len(p.run.stack) = Len(q.stack) + (IF o.kind = "child" THEN 1 ELSE 0)

LEMMA AlikeNot ==
  ASSUME NEW n, NEW r, NEW q, Twins(r, q, n)
  PROVE  SameOutcome(Ok(r), Ok(q), q, n) /\ SameOutcome(Error(r), Error(q), q, n) /\ SameOutcome(Refused(r), Refused(q), q, n)
BY MovedNot DEF SameOutcome, Moved, Ok, Error, Refused, OutcomeKinds

LEMMA AlikeOk ==
  ASSUME NEW n, NEW q, NEW x, NEW y, Moved(x, y, q, n)
  PROVE  SameOutcome(Ok(x), Ok(y), q, n) /\ SameOutcome(Error(x), Error(y), q, n)
BY DEF SameOutcome, Moved, Ok, Error, OutcomeKinds

LEMMA AlikeNoted ==
  ASSUME NEW n, NEW r, NEW q, Twins(r, q, n), NEW kind
  PROVE  SameOutcome(Noted(r, kind), Noted(q, kind), q, n)
BY MovedWarn DEF SameOutcome, Moved, Noted, OutcomeKinds

LEMMA AlikeChecked ==
  ASSUME NEW n, NEW r, NEW q, Twins(r, q, n), NEW x, NEW y, Moved(x, y, q, n), NEW body
  PROVE  SameOutcome(Checked(r, body, x), Checked(q, body, y), q, n)
<1>1. SameOutcome([kind |-> "rejected", run |-> x], [kind |-> "rejected", run |-> y], q, n)
  BY DEF SameOutcome, Moved, OutcomeKinds
<1>2. SameOutcome(Refused(r), Refused(q), q, n) /\ SameOutcome(Ok(x), Ok(y), q, n)
  BY AlikeNot, AlikeOk
<1> QED BY <1>1, <1>2 DEF Checked

(* Both see the same channels and messages.                                 *)
LEMMA TwinsSee ==
  ASSUME NEW n, NEW r, NEW q, Twins(r, q, n), NEW ch, NEW msg
  PROVE  /\ ChannelArg(r, ch) = ChannelArg(q, ch)
         /\ KnownSent(r, ch) = KnownSent(q, ch)
         /\ MessageExists(r, ch, msg) = MessageExists(q, ch, msg)
         /\ MessageId(r, ch, msg) = MessageId(q, ch, msg)
         /\ IsForumStarter(r, ch, msg) = IsForumStarter(q, ch, msg)
<1>1. Top(r).channel = Top(q).channel /\ Top(r).known = Top(q).known /\ Top(r).posts = Top(q).posts
      /\ r.threads = q.threads
  BY TwinTops
<1>2. SentIn(r, ch) = SentIn(q, ch)
  BY <1>1 DEF SentIn
<1>3. ChannelArg(r, ch) = ChannelArg(q, ch)
  BY <1>1 DEF ChannelArg
<1>4. KnownSent(r, ch) = KnownSent(q, ch)
  BY <1>2 DEF KnownSent
<1>5. MessageExists(r, ch, msg) = MessageExists(q, ch, msg)
  BY <1>4 DEF MessageExists
<1>6. MessageId(r, ch, msg) = MessageId(q, ch, msg)
  BY <1>2 DEF MessageId
<1>7. IsForumStarter(r, ch, msg) = IsForumStarter(q, ch, msg)
  BY <1>1 DEF IsForumStarter
<1> QED BY <1>3, <1>4, <1>5, <1>6, <1>7

LEMMA SendAlike ==
  ASSUME NEW n, NEW r, NEW q, Twins(r, q, n), NEW c
  PROVE  SameOutcome(Send(r, c), Send(q, c), q, n)
<1> DEFINE ch == ChannelArg(r, c.ch)
           x == RecordSentMessage(r, "send", ch)
           y == RecordSentMessage(q, "send", ch)
<1>1. ch = ChannelArg(q, c.ch) /\ Top(r).cannotSend = Top(q).cannotSend
  BY TwinsSee, TwinTops
<1>2. \/ Send(r, c) = Ok(r) /\ Send(q, c) = Ok(q)
      \/ Send(r, c) = Refused(r) /\ Send(q, c) = Refused(q)
      \/ Send(r, c) = Checked(r, c.body, x) /\ Send(q, c) = Checked(q, c.body, y)
  BY <1>1 DEF Send
<1>3. Moved(x, y, q, n)
  BY MovedSent
<1> HIDE DEF x, y
<1> QED BY <1>2, <1>3, AlikeNot, AlikeChecked

LEMMA SendDMAlike ==
  ASSUME NEW n, NEW r, NEW q, Twins(r, q, n), NEW c
  PROVE  SameOutcome(SendDM(r, c), SendDM(q, c), q, n)
<1> DEFINE x == RecordSentMessage(r, "dm", "dm")
           y == RecordSentMessage(q, "dm", "dm")
<1>1. Moved(x, y, q, n)
  BY MovedSent
<1>2. \/ SendDM(r, c) = Noted(r, "response") /\ SendDM(q, c) = Noted(q, "response")
      \/ SendDM(r, c) = [kind |-> "dropped", run |-> x] /\ SendDM(q, c) = [kind |-> "dropped", run |-> y]
      \/ SendDM(r, c) = Ok(x) /\ SendDM(q, c) = Ok(y)
  BY DEF SendDM
<1> HIDE DEF x, y
<1>3. SameOutcome([kind |-> "dropped", run |-> x], [kind |-> "dropped", run |-> y], q, n)
  BY <1>1 DEF SameOutcome, Moved, OutcomeKinds
<1> QED BY <1>1, <1>2, <1>3, AlikeNoted, AlikeOk

LEMMA EditMessageAlike ==
  ASSUME NEW n, NEW r, NEW q, Twins(r, q, n), NEW c
  PROVE  SameOutcome(EditMessage(r, c), EditMessage(q, c), q, n)
<1> DEFINE ch == ChannelArg(r, c.ch)
           id == MessageId(r, ch, c.msg)
           x == Record(r, "edit", ch, id)
           y == Record(q, "edit", ch, id)
<1>1. ch = ChannelArg(q, c.ch) /\ KnownSent(r, ch) = KnownSent(q, ch) /\ id = MessageId(q, ch, c.msg)
  BY TwinsSee
<1>2. \/ EditMessage(r, c) = Error(r) /\ EditMessage(q, c) = Error(q)
      \/ EditMessage(r, c) = Refused(r) /\ EditMessage(q, c) = Refused(q)
      \/ EditMessage(r, c) = Checked(r, c.body, x) /\ EditMessage(q, c) = Checked(q, c.body, y)
  BY <1>1 DEF EditMessage
<1>3. Moved(x, y, q, n)
  BY MovedRecord
<1> HIDE DEF x, y
<1> QED BY <1>2, <1>3, AlikeNot, AlikeChecked

LEMMA RecordAlike ==
  ASSUME NEW n, NEW r, NEW q, Twins(r, q, n), NEW of, NEW in, NEW id
  PROVE  SameOutcome(Ok(Record(r, of, in, id)), Ok(Record(q, of, in, id)), q, n)
BY MovedRecord, AlikeOk

LEMMA DeletesAlike ==
  ASSUME NEW n, NEW r, NEW q, Twins(r, q, n), NEW c
  PROVE  /\ SameOutcome(DeleteMessage(r, c), DeleteMessage(q, c), q, n)
         /\ SameOutcome(DeleteTrigger(r, c), DeleteTrigger(q, c), q, n)
<1> DEFINE ch == ChannelArg(r, c.ch)
           id == IF MessageExists(r, ch, c.msg) THEN MessageId(r, ch, c.msg) ELSE 0
<1>1. /\ ch = ChannelArg(q, c.ch)
      /\ id = IF MessageExists(q, ch, c.msg) THEN MessageId(q, ch, c.msg) ELSE 0
  BY TwinsSee
<1>2. DeleteMessage(r, c) = IF ch = "none" THEN Ok(r) ELSE Ok(Record(r, "delete", ch, id))
  BY DEF DeleteMessage
<1>3. DeleteMessage(q, c) = IF ch = "none" THEN Ok(q) ELSE Ok(Record(q, "delete", ch, id))
  BY <1>1 DEF DeleteMessage
<1> HIDE DEF id, ch
<1>4. SameOutcome(DeleteMessage(r, c), DeleteMessage(q, c), q, n)
  BY <1>2, <1>3, AlikeNot, RecordAlike
<1>5. SameOutcome(DeleteTrigger(r, c), DeleteTrigger(q, c), q, n)
  BY AlikeNot, RecordAlike DEF DeleteTrigger
<1> QED BY <1>4, <1>5

LEMMA FieldAlike ==
  ASSUME NEW n, NEW r, NEW q, Twins(r, q, n), NEW f \in {"deletes", "slept", "reactions"}, NEW v,
         f = "reactions" => v \in Nat
  PROVE  SameOutcome(Ok(WithTop(r, [Top(r) EXCEPT ![f] = v])), Ok(WithTop(q, [Top(q) EXCEPT ![f] = v])), q, n)
<1>1. f \in ContextFields \ {"warned", "output", "inTry"}
  BY DEF ContextFields
<1>2. Moved(WithTop(r, [Top(r) EXCEPT ![f] = v]), WithTop(q, [Top(q) EXCEPT ![f] = v]), q, n)
  BY <1>1, MovedField
<1> QED BY <1>2, AlikeOk

LEMMA OwnFieldsAlike ==
  ASSUME NEW n, NEW r, NEW q, Twins(r, q, n), NEW c
  PROVE  /\ SameOutcome(DeleteResponse(r, c), DeleteResponse(q, c), q, n)
         /\ SameOutcome(AddResponseReactions(r, c), AddResponseReactions(q, c), q, n)
         /\ SameOutcome(Sleep(r, c), Sleep(q, c), q, n)
<1>1. SameOutcome(DeleteResponse(r, c), DeleteResponse(q, c), q, n)
  <2> DEFINE v == c.when
  <2>1. /\ DeleteResponse(r, c) = Ok(WithTop(r, [Top(r) EXCEPT !.deletes = v]))
        /\ DeleteResponse(q, c) = Ok(WithTop(q, [Top(q) EXCEPT !.deletes = v]))
    BY DEF DeleteResponse
  <2> HIDE DEF v
  <2>2. SameOutcome(Ok(WithTop(r, [Top(r) EXCEPT !["deletes"] = v])), Ok(WithTop(q, [Top(q) EXCEPT !["deletes"] = v])), q, n)
    BY FieldAlike
  <2> QED BY <2>1, <2>2
<1>2. SameOutcome(AddResponseReactions(r, c), AddResponseReactions(q, c), q, n)
  <2> DEFINE v == Top(r).reactions + 1
  <2>1. v \in Nat /\ Top(q).reactions + 1 = v
    BY TwinTops DEF IsContext
  <2>2. AddResponseReactions(r, c) = Ok(WithTop(r, [Top(r) EXCEPT !.reactions = v]))
    BY DEF AddResponseReactions
  <2> HIDE DEF v
  <2>3. AddResponseReactions(q, c) = Ok(WithTop(q, [Top(q) EXCEPT !.reactions = v]))
    BY <2>1 DEF AddResponseReactions
  <2>4. SameOutcome(Ok(WithTop(r, [Top(r) EXCEPT !["reactions"] = v])), Ok(WithTop(q, [Top(q) EXCEPT !["reactions"] = v])), q, n)
    BY <2>1, FieldAlike
  <2> QED BY <2>2, <2>3, <2>4
<1>3. SameOutcome(Sleep(r, c), Sleep(q, c), q, n)
  <2> DEFINE v == Top(r).slept + c.seconds
             bad == v > MaxSleep \/ c.seconds < 1
             x == WithTop(r, [Top(r) EXCEPT !.slept = v])
             y == WithTop(q, [Top(q) EXCEPT !.slept = v])
  <2>1. Top(q).slept + c.seconds = v
    BY TwinTops
  <2>2. Sleep(r, c) = IF bad THEN Error(r) ELSE Ok(x)
    BY DEF Sleep
  <2> HIDE DEF v
  <2>3. Sleep(q, c) = IF bad THEN Error(q) ELSE Ok(y)
    BY <2>1 DEF Sleep
  <2> HIDE DEF bad
  <2>4. SameOutcome(Ok(WithTop(r, [Top(r) EXCEPT !["slept"] = v])), Ok(WithTop(q, [Top(q) EXCEPT !["slept"] = v])), q, n)
    BY FieldAlike
  <2> QED BY <2>2, <2>3, <2>4, AlikeNot
<1> QED BY <1>1, <1>2, <1>3

LEMMA RolesAlike ==
  ASSUME NEW n, NEW r, NEW q, Twins(r, q, n), NEW c
  PROVE  /\ SameOutcome(ChangeRole(r, c), ChangeRole(q, c), q, n)
         /\ SameOutcome(TargetHasRole(r, c), TargetHasRole(q, c), q, n)
<1>1. \/ ChangeRole(r, c) = Ok(r) /\ ChangeRole(q, c) = Ok(q)
      \/ ChangeRole(r, c) = Error(r) /\ ChangeRole(q, c) = Error(q)
      \/ ChangeRole(r, c) = Ok(Record(r, c.fn, c.role, 0)) /\ ChangeRole(q, c) = Ok(Record(q, c.fn, c.role, 0))
  BY DEF ChangeRole
<1>2. \/ TargetHasRole(r, c) = Ok(r) /\ TargetHasRole(q, c) = Ok(q)
      \/ TargetHasRole(r, c) = Error(r) /\ TargetHasRole(q, c) = Error(q)
  BY DEF TargetHasRole
<1> QED BY <1>1, <1>2, AlikeNot, RecordAlike

LEMMA ExecAlike ==
  ASSUME NEW n, NEW r, NEW q, Twins(r, q, n), NEW c
  PROVE  SameOutcome(Exec(r, c), Exec(q, c), q, n)
<1> DEFINE ch == Top(r).channel
           x == Record(r, "exec", ch, 0)
           y == Record(q, "exec", ch, 0)
<1>1. ch = Top(q).channel /\ IsRun(q, n)
  BY TwinTops DEF Twins
<1>2. \/ Exec(r, c) = Error(r) /\ Exec(q, c) = Error(q)
      \/ Exec(r, c) = Ok(x) /\ Exec(q, c) = Ok(y)
      \/ Exec(r, c) = Error(x) /\ Exec(q, c) = Error(y)
      \/ Exec(r, c) = Noted(x, "exec") /\ Exec(q, c) = Noted(y, "exec")
  BY <1>1 DEF Exec
<1>3. Moved(x, y, q, n)
  BY MovedRecord
<1> HIDE DEF x, y
<1>4. SameOutcome(Noted(x, "exec"), Noted(y, "exec"), q, n)
  <2>1. SameOutcome(Noted(x, "exec"), Noted(y, "exec"), y, n)
    BY <1>3, AlikeNoted DEF Moved
  <2> QED BY <1>1, <1>3, <2>1, GrownTwice DEF SameOutcome, Moved, Twins
<1> QED BY <1>2, <1>3, <1>4, AlikeNot, AlikeOk

LEMMA ReactionsAlike ==
  ASSUME NEW n, NEW r, NEW q, Twins(r, q, n), NEW c
  PROVE  /\ SameOutcome(AddReactions(r, c), AddReactions(q, c), q, n)
         /\ SameOutcome(DeleteAllMessageReactions(r, c), DeleteAllMessageReactions(q, c), q, n)
         /\ \A of : SameOutcome(React(r, c, of), React(q, c, of), q, n)
<1> DEFINE ch == ChannelArg(r, c.ch)
           id == MessageId(r, ch, c.msg)
           there == MessageExists(r, ch, c.msg)
<1>1. /\ ch = ChannelArg(q, c.ch) /\ id = MessageId(q, ch, c.msg) /\ there = MessageExists(q, ch, c.msg)
  BY TwinsSee
<1>2. SameOutcome(AddReactions(r, c), AddReactions(q, c), q, n)
  BY AlikeNot, RecordAlike DEF AddReactions
<1>3. SameOutcome(DeleteAllMessageReactions(r, c), DeleteAllMessageReactions(q, c), q, n)
  <2>1. \/ /\ DeleteAllMessageReactions(r, c) = Ok(Record(r, "allReactions", ch, id))
           /\ DeleteAllMessageReactions(q, c) = Ok(Record(q, "allReactions", ch, id))
        \/ /\ DeleteAllMessageReactions(r, c) = Noted(r, "message")
           /\ DeleteAllMessageReactions(q, c) = Noted(q, "message")
    BY <1>1 DEF DeleteAllMessageReactions
  <2> QED BY <2>1, AlikeNoted, RecordAlike
<1>4. ASSUME NEW of PROVE SameOutcome(React(r, c, of), React(q, c, of), q, n)
  <2>1. \/ React(r, c, of) = Refused(r) /\ React(q, c, of) = Refused(q)
        \/ React(r, c, of) = Ok(Record(r, of, ch, id)) /\ React(q, c, of) = Ok(Record(q, of, ch, id))
    BY <1>1 DEF React
  <2> QED BY <2>1, AlikeNot, RecordAlike
<1> QED BY <1>2, <1>3, <1>4

LEMMA PinAlike ==
  ASSUME NEW n, NEW r, NEW q, Twins(r, q, n), NEW c
  PROVE  SameOutcome(Pin(r, c), Pin(q, c), q, n)
<1> DEFINE ch == ChannelArg(r, c.ch)
           id == MessageId(r, ch, c.msg)
<1>1. /\ ch = ChannelArg(q, c.ch) /\ id = MessageId(q, ch, c.msg)
      /\ MessageExists(r, ch, c.msg) = MessageExists(q, ch, c.msg)
      /\ IsForumStarter(r, ch, c.msg) = IsForumStarter(q, ch, c.msg)
  BY TwinsSee
<1>2. \/ Pin(r, c) = Error(r) /\ Pin(q, c) = Error(q)
      \/ Pin(r, c) = Refused(r) /\ Pin(q, c) = Refused(q)
      \/ Pin(r, c) = Ok(Record(r, "pin", ch, id)) /\ Pin(q, c) = Ok(Record(q, "pin", ch, id))
  BY <1>1 DEF Pin
<1> QED BY <1>2, AlikeNot, RecordAlike

LEMMA CreateForumPostAlike ==
  ASSUME NEW n, NEW r, NEW q, Twins(r, q, n), NEW c
  PROVE  SameOutcome(CreateForumPost(r, c), CreateForumPost(q, c), q, n)
<1> DEFINE ch == ChannelArg(r, c.ch)
           a == RegisterThread(r, ch)
           b == RegisterThread(q, ch)
           v == Top(a).posts \cup {Top(a).created}
           u == WithTop(a, [Top(a) EXCEPT !.posts = v])
           w == WithTop(b, [Top(b) EXCEPT !.posts = v])
           x == RecordSentMessage(u, "firstMessage", "thread")
           y == RecordSentMessage(w, "firstMessage", "thread")
<1>1. ch = ChannelArg(q, c.ch) /\ Top(r).cannotSend = Top(q).cannotSend /\ IsRun(q, n)
  BY TwinsSee, TwinTops DEF Twins
<1>2. Moved(a, b, q, n)
  BY MovedThread
<1>3. v = Top(b).posts \cup {Top(b).created}
  <2> HIDE DEF a, b
  <2> QED BY <1>2, TwinTops DEF Moved
<1>4. LET none == c.body # "none" /\ ch = "none"
          bad == c.body = "none" \/ ch \notin ForumChannels \/ BadThreadArgs(c)
          refused == c.name = "bad" \/ ch \in Top(r).cannotSend
      IN /\ CreateForumPost(r, c) = IF none THEN Ok(r) ELSE IF bad THEN Error(r) ELSE IF refused THEN Refused(r)
                                    ELSE Checked(r, c.body, x)
         /\ CreateForumPost(q, c) = IF none THEN Ok(q) ELSE IF bad THEN Error(q) ELSE IF refused THEN Refused(q)
                                    ELSE Checked(q, c.body, y)
  <2>1. WithTop(b, [Top(b) EXCEPT !.posts = @ \cup {Top(b).created}]) = w
    <3>1. WithTop(b, [Top(b) EXCEPT !.posts = Top(b).posts \cup {Top(b).created}]) = w
      <4> HIDE DEF b, v
      <4> QED BY <1>3
    <3> QED BY <3>1
  <2>2. WithTop(a, [Top(a) EXCEPT !.posts = @ \cup {Top(a).created}]) = u
    OBVIOUS
  <2> QED BY <1>1, <2>1, <2>2 DEF CreateForumPost
<1> HIDE DEF a, b, v
<1>5. Moved(u, w, q, n)
  <2>1. "posts" \in ContextFields \ {"warned", "output", "inTry"}
    BY DEF ContextFields
  <2>a. Twins(a, b, n)
    BY <1>2 DEF Moved
  <2>2. Moved(WithTop(a, [Top(a) EXCEPT !["posts"] = v]), WithTop(b, [Top(b) EXCEPT !["posts"] = v]), b, n)
    BY <2>1, <2>a, MovedField
  <2> QED BY <2>2, <1>1, <1>2, MovedTwice
<1> HIDE DEF u, w
<1>6. Moved(x, y, q, n)
  <2>1. Moved(x, y, w, n)
    BY <1>5, MovedSent DEF Moved
  <2> QED BY <2>1, <1>1, <1>5, MovedTwice
<1> HIDE DEF x, y
<1>7. SameOutcome(Checked(r, c.body, x), Checked(q, c.body, y), q, n)
  BY <1>6, AlikeChecked
<1> QED BY <1>4, <1>7, AlikeNot

LEMMA CreateThreadAlike ==
  ASSUME NEW n, NEW r, NEW q, Twins(r, q, n), NEW c
  PROVE  SameOutcome(CreateThread(r, c), CreateThread(q, c), q, n)
<1> DEFINE ch == ChannelArg(r, c.ch)
           x == RegisterThread(r, ch)
           y == RegisterThread(q, ch)
<1>1. ch = ChannelArg(q, c.ch) /\ MessageExists(r, ch, c.msg) = MessageExists(q, ch, c.msg)
  BY TwinsSee
<1>2. \/ CreateThread(r, c) = Ok(r) /\ CreateThread(q, c) = Ok(q)
      \/ CreateThread(r, c) = Error(r) /\ CreateThread(q, c) = Error(q)
      \/ CreateThread(r, c) = Refused(r) /\ CreateThread(q, c) = Refused(q)
      \/ CreateThread(r, c) = Ok(x) /\ CreateThread(q, c) = Ok(y)
  BY <1>1 DEF CreateThread
<1>3. Moved(x, y, q, n)
  BY MovedThread
<1> HIDE DEF x, y
<1> QED BY <1>2, <1>3, AlikeNot, AlikeOk

LEMMA ScheduleAlike ==
  ASSUME NEW n, NEW r, NEW q, Twins(r, q, n), NEW c, NEW key
  PROVE  SameOutcome(Schedule(r, c, key), Schedule(q, c, key), q, n)
<1> DEFINE refused == key = "none" /\ c.data = "large"
           a == IF key = "none" THEN r ELSE CancelScheduled(r, c.cc, key)
           b == IF key = "none" THEN q ELSE CancelScheduled(q, c.cc, key)
           e == [cc |-> c.cc, key |-> key, in |-> ChannelArg(r, c.ch), by |-> Top(r).id]
           v == Append(a.scheduled, e)
<1>1. e = [cc |-> c.cc, key |-> key, in |-> ChannelArg(q, c.ch), by |-> Top(q).id] /\ IsRun(q, n)
  BY TwinTops, TwinsSee DEF Twins
<1>2. Moved(a, b, q, n)
  BY MovedNot, MovedCancel
<1>3. Schedule(r, c, key) = IF refused THEN Error(r) ELSE Ok([a EXCEPT !.scheduled = v])
  BY DEF Schedule
<1>4. Schedule(q, c, key) = IF refused THEN Error(q) ELSE Ok([b EXCEPT !.scheduled = Append(b.scheduled, e)])
  BY <1>1 DEF Schedule
<1> HIDE DEF a, b, e, refused
<1>5. Append(b.scheduled, e) = v /\ IsList(v)
  <2>1. b.scheduled = a.scheduled /\ IsRun(a, n)
    BY <1>2, TwinTops DEF Moved, Twins
  <2>2. IsList(a.scheduled)
    BY <2>1 DEF IsRun
  <2> QED BY <2>1, <2>2, ListAppend
<1> HIDE DEF v
<1>6. SameOutcome(Ok([a EXCEPT !["scheduled"] = v]), Ok([b EXCEPT !["scheduled"] = v]), q, n)
  <2>1. "scheduled" \in RunFields \ {"stack", "status"}
    BY DEF RunFields
  <2>a. Twins(a, b, n)
    BY <1>2 DEF Moved
  <2>2. Moved([a EXCEPT !["scheduled"] = v], [b EXCEPT !["scheduled"] = v], b, n)
    BY <1>5, <2>1, <2>a, MovedSameBut
  <2>3. Moved([a EXCEPT !["scheduled"] = v], [b EXCEPT !["scheduled"] = v], q, n)
    BY <2>2, <1>1, <1>2, MovedTwice
  <2> QED BY <2>3, AlikeOk
<1> QED BY <1>3, <1>4, <1>5, <1>6, AlikeNot

LEMMA ScheduleUniqueCCAlike ==
  ASSUME NEW n, NEW r, NEW q, Twins(r, q, n), NEW c
  PROVE  SameOutcome(ScheduleUniqueCC(r, c), ScheduleUniqueCC(q, c), q, n)
<1>1. ChannelArg(r, c.ch) = ChannelArg(q, c.ch)
  BY TwinsSee
<1>2. \/ ScheduleUniqueCC(r, c) = Ok(r) /\ ScheduleUniqueCC(q, c) = Ok(q)
      \/ ScheduleUniqueCC(r, c) = Error(r) /\ ScheduleUniqueCC(q, c) = Error(q)
      \/ ScheduleUniqueCC(r, c) = Schedule(r, c, c.key) /\ ScheduleUniqueCC(q, c) = Schedule(q, c, c.key)
  BY <1>1 DEF ScheduleUniqueCC
<1> QED BY <1>2, AlikeNot, ScheduleAlike

LEMMA ExecCCAlike ==
  ASSUME NEW n \in Nat, NEW r, NEW q, Twins(r, q, n), NEW c
  PROVE  SameOutcome(ExecCC(r, c), ExecCC(q, c), q, n)
<1> DEFINE ch == ChannelArg(r, c.ch)
           x == Child(r, ch)
           y == Child(q, ch)
           m == Len(q.stack)
<1>1. ch = ChannelArg(q, c.ch) /\ m = Len(r.stack)
  BY TwinsSee, TwinTops
<1>2. m \in Nat /\ MaxDepth \in Nat
  BY Tops, EmulatedRunAssumption DEF Twins
<1>3. \/ ExecCC(r, c) = Error(r) /\ ExecCC(q, c) = Error(q)
      \/ ExecCC(r, c) = Schedule(r, c, "none") /\ ExecCC(q, c) = Schedule(q, c, "none")
      \/ ExecCC(r, c) = Noted(r, "execcc") /\ ExecCC(q, c) = Noted(q, "execcc")
      \/ m <= MaxDepth /\ ExecCC(r, c) = [kind |-> "child", run |-> x] /\ ExecCC(q, c) = [kind |-> "child", run |-> y]
  <2> HIDE DEF ch, m
  <2>1. \/ ExecCC(r, c) = Error(r) /\ ExecCC(q, c) = Error(q)
        \/ ExecCC(r, c) = Schedule(r, c, "none") /\ ExecCC(q, c) = Schedule(q, c, "none")
        \/ ExecCC(r, c) = Noted(r, "execcc") /\ ExecCC(q, c) = Noted(q, "execcc")
        \/ ~ (m > MaxDepth) /\ ExecCC(r, c) = [kind |-> "child", run |-> x] /\ ExecCC(q, c) = [kind |-> "child", run |-> y]
    BY <1>1 DEF ExecCC, ch, m
  <2> QED BY <1>2, <2>1
<1>4. m <= MaxDepth => SameOutcome([kind |-> "child", run |-> x], [kind |-> "child", run |-> y], q, n)
  <2>1. m <= MaxDepth => Twins(x, y, n) /\ Grown(y, q) /\ Len(y.stack) = m + 1
    BY MovedChild
  <2> HIDE DEF x, y
  <2> QED BY <2>1 DEF SameOutcome, OutcomeKinds
<1> HIDE DEF x, y, m
<1> QED BY <1>3, <1>4, AlikeNot, AlikeNoted, ScheduleAlike

(* Every function, called by twins, does the same.                          *)
LEMMA BodyAlike ==
  ASSUME NEW n \in Nat, NEW r, NEW q, Twins(r, q, n), NEW c
  PROVE  SameOutcome(Body(r, c), Body(q, c), q, n)
<1> DEFINE Fns == {"sendMessage", "sendDM", "editMessage", "deleteMessage", "deleteTrigger", "deleteResponse",
                   "giveRole", "takeRole", "addRole", "removeRole", "targetHasRole", "exec", "sleep", "addReactions",
                   "addResponseReactions", "addMessageReactions", "deleteMessageReaction",
                   "deleteAllMessageReactions", "pinMessage", "unpinMessage", "createForumPost", "createThread",
                   "scheduleUniqueCC", "cancelScheduledUniqueCC", "execCC"}
<1>1. CASE c.fn \in {"sendMessage", "sendDM", "editMessage"}
  <2>1. /\ c.fn = "sendMessage" => Body(r, c) = Send(r, c) /\ Body(q, c) = Send(q, c)
        /\ c.fn = "sendDM" => Body(r, c) = SendDM(r, c) /\ Body(q, c) = SendDM(q, c)
        /\ c.fn = "editMessage" => Body(r, c) = EditMessage(r, c) /\ Body(q, c) = EditMessage(q, c)
    BY DEF Body
  <2> QED BY <1>1, <2>1, SendAlike, SendDMAlike, EditMessageAlike
<1>2. CASE c.fn \in {"deleteMessage", "deleteTrigger", "deleteResponse"}
  <2>1. /\ c.fn = "deleteMessage" => Body(r, c) = DeleteMessage(r, c) /\ Body(q, c) = DeleteMessage(q, c)
        /\ c.fn = "deleteTrigger" => Body(r, c) = DeleteTrigger(r, c) /\ Body(q, c) = DeleteTrigger(q, c)
        /\ c.fn = "deleteResponse" => Body(r, c) = DeleteResponse(r, c) /\ Body(q, c) = DeleteResponse(q, c)
    BY DEF Body
  <2> QED BY <1>2, <2>1, DeletesAlike, OwnFieldsAlike
<1>3. CASE c.fn \in {"giveRole", "takeRole", "addRole", "removeRole"}
  <2>1. Body(r, c) = ChangeRole(r, c) /\ Body(q, c) = ChangeRole(q, c)
    BY <1>3 DEF Body
  <2> QED BY <2>1, RolesAlike
<1>4. CASE c.fn \in {"targetHasRole", "exec", "sleep"}
  <2>1. /\ c.fn = "targetHasRole" => Body(r, c) = TargetHasRole(r, c) /\ Body(q, c) = TargetHasRole(q, c)
        /\ c.fn = "exec" => Body(r, c) = Exec(r, c) /\ Body(q, c) = Exec(q, c)
        /\ c.fn = "sleep" => Body(r, c) = Sleep(r, c) /\ Body(q, c) = Sleep(q, c)
    BY DEF Body
  <2> QED BY <1>4, <2>1, RolesAlike, ExecAlike, OwnFieldsAlike
<1>5. CASE c.fn \in {"addReactions", "addResponseReactions", "deleteAllMessageReactions"}
  <2>1. /\ c.fn = "addReactions" => Body(r, c) = AddReactions(r, c) /\ Body(q, c) = AddReactions(q, c)
        /\ c.fn = "addResponseReactions" =>
             Body(r, c) = AddResponseReactions(r, c) /\ Body(q, c) = AddResponseReactions(q, c)
        /\ c.fn = "deleteAllMessageReactions" =>
             Body(r, c) = DeleteAllMessageReactions(r, c) /\ Body(q, c) = DeleteAllMessageReactions(q, c)
    BY DEF Body
  <2> QED BY <1>5, <2>1, ReactionsAlike, OwnFieldsAlike
<1>6. CASE c.fn \in {"addMessageReactions", "deleteMessageReaction"}
  <2>1. /\ c.fn = "addMessageReactions" =>
             Body(r, c) = React(r, c, "reaction") /\ Body(q, c) = React(q, c, "reaction")
        /\ c.fn = "deleteMessageReaction" =>
             Body(r, c) = React(r, c, "unreaction") /\ Body(q, c) = React(q, c, "unreaction")
    BY DEF Body
  <2>2. \A of : SameOutcome(React(r, c, of), React(q, c, of), q, n)
    BY ReactionsAlike
  <2> QED BY <1>6, <2>1, <2>2
<1>7. CASE c.fn \in {"pinMessage", "unpinMessage"}
  <2>1. Body(r, c) = Pin(r, c) /\ Body(q, c) = Pin(q, c)
    BY <1>7 DEF Body
  <2> QED BY <2>1, PinAlike
<1>8. CASE c.fn \in {"createForumPost", "createThread"}
  <2>1. /\ c.fn = "createForumPost" => Body(r, c) = CreateForumPost(r, c) /\ Body(q, c) = CreateForumPost(q, c)
        /\ c.fn = "createThread" => Body(r, c) = CreateThread(r, c) /\ Body(q, c) = CreateThread(q, c)
    BY DEF Body
  <2> QED BY <1>8, <2>1, CreateForumPostAlike, CreateThreadAlike
<1>9. CASE c.fn \in {"scheduleUniqueCC", "execCC"}
  <2>1. /\ c.fn = "scheduleUniqueCC" => Body(r, c) = ScheduleUniqueCC(r, c) /\ Body(q, c) = ScheduleUniqueCC(q, c)
        /\ c.fn = "execCC" => Body(r, c) = ExecCC(r, c) /\ Body(q, c) = ExecCC(q, c)
    BY DEF Body
  <2> QED BY <1>9, <2>1, ScheduleUniqueCCAlike, ExecCCAlike
<1>10. CASE c.fn = "cancelScheduledUniqueCC"
  <2>1. Body(r, c) = Ok(CancelScheduled(r, c.cc, c.key)) /\ Body(q, c) = Ok(CancelScheduled(q, c.cc, c.key))
    BY <1>10 DEF Body
  <2>2. Moved(CancelScheduled(r, c.cc, c.key), CancelScheduled(q, c.cc, c.key), q, n)
    BY MovedCancel
  <2> QED BY <2>1, <2>2, AlikeOk
<1>11. CASE c.fn \notin Fns
  <2>1. Body(r, c) = Ok(r) /\ Body(q, c) = Ok(q)
    BY <1>11 DEF Body
  <2> QED BY <2>1, AlikeNot
<1> QED BY <1>1, <1>2, <1>3, <1>4, <1>5, <1>6, <1>7, <1>8, <1>9, <1>10, <1>11

-----------------------------------------------------------------------------
(* What the lenient run has noted: of a run under way, a limit or more      *)
(* output than YAGPDB takes, in any of its contexts; of one that is over, a *)
(* limit in its report.                                                     *)
NotedIn(q) == \E i \in 1 .. Len(q.stack) : "limit" \in q.stack[i].warned \/ q.stack[i].output > MaxOutput
HasNoted(q) == IF q.status = "running" THEN NotedIn(q) ELSE "limit" \in Top(q).warned

TopNoted(q) == "limit" \in Top(q).warned
Over(q) == Top(q).output > MaxOutput

LEMMA NotedTop ==
  ASSUME NEW n, NEW q, IsRun(q, n), TopNoted(q)
  PROVE  NotedIn(q) /\ HasNoted(q)
BY Tops DEF TopNoted, NotedIn, HasNoted

LEMMA GrownNoted ==
  ASSUME NEW n, NEW y, NEW q, IsRun(y, n), IsRun(q, n), Grown(y, q)
  PROVE  /\ NotedIn(q) => NotedIn(y)
         /\ Len(y.stack) = Len(q.stack) /\ TopNoted(q) => TopNoted(y)
         /\ Len(y.stack) = Len(q.stack) => Top(y).output = Top(q).output /\ Top(y).inTry = Top(q).inTry
<1>1. /\ Len(y.stack) \in Nat \ {0} /\ Len(q.stack) \in Nat \ {0}
      /\ Top(y) = y.stack[Len(y.stack)] /\ Top(q) = q.stack[Len(q.stack)]
  BY Tops
<1>2. NotedIn(q) => NotedIn(y)
  BY <1>1 DEF Grown, Keeping, NotedIn
<1>3. Len(y.stack) = Len(q.stack) => Keeping(Top(y), Top(q))
  BY <1>1 DEF Grown
<1> QED BY <1>2, <1>3 DEF Keeping, TopNoted

LEMMA JoinNotes ==
  ASSUME NEW n \in Nat, NEW q, IsRun(q, n), Len(q.stack) > 1, NEW failed
  PROVE  /\ IsRun(Join(q, failed), n) /\ Len(Join(q, failed).stack) = Len(q.stack) - 1
         /\ Join(q, failed).status = q.status
         /\ TopNoted(q) => NotedIn(Join(q, failed))
         /\ NotedIn(q) /\ ~Over(q) => NotedIn(Join(q, failed))
         /\ Top(Join(q, failed)).inTry = q.stack[Len(q.stack) - 1].inTry
<1> DEFINE m == Len(q.stack) - 1
           c == Joined(q, failed)
           y == Join(q, failed)
<1>1. IsContext(q.stack[m], n) /\ IsContext(c, n) /\ IsRun(y, n) /\ HasJoined(y, q, c)
  BY JoinIs
<1>2. Len(q.stack) = m + 1 /\ m \in Nat \ {0} /\ Top(q) = q.stack[m + 1] /\ Top(y) = y.stack[Len(y.stack)]
  BY <1>1, Tops
<1>3. /\ Top(q).warned \subseteq c.warned /\ q.stack[m].warned \subseteq c.warned
      /\ c.output = q.stack[m].output /\ c.inTry = q.stack[m].inTry
  <2> DEFINE caller == q.stack[m]
  <2>1. c = [caller EXCEPT !.effects = @ \o Top(q).effects,
                           !.posts = IF @ = {} THEN @ ELSE Top(q).posts,
                           !.warned = @ \cup Top(q).warned \cup (IF failed THEN {"execcc"} ELSE {})]
    BY DEF Joined
  <2>2. IsContext(caller, n)
    BY <1>1
  <2> HIDE DEF caller, c
  <2>3. /\ Top(q).warned \subseteq c.warned /\ caller.warned \subseteq c.warned
        /\ c.output = caller.output /\ c.inTry = caller.inTry
    BY <2>1, <2>2 DEF IsContext, ContextFields
  <2> QED BY <2>3 DEF caller
<1> HIDE DEF c, y
<1>4. Len(y.stack) = m /\ y.stack[m] = c /\ (\A i \in 1 .. m - 1 : y.stack[i] = q.stack[i]) /\ Top(y) = c
      /\ y.status = q.status
  <2>1. Len(q.stack) - 2 = m - 1
    BY <1>2
  <2> QED BY <2>1, <1>1, <1>2 DEF HasJoined, RunFields
<1>5. TopNoted(q) => NotedIn(y)
  <2>1. m \in 1 .. m
    BY <1>2
  <2> QED BY <2>1, <1>3, <1>4 DEF TopNoted, NotedIn
<1>6. NotedIn(q) /\ ~Over(q) => NotedIn(y)
  <2> SUFFICES ASSUME NotedIn(q), ~Over(q) PROVE NotedIn(y)
    OBVIOUS
  <2>1. PICK i \in 1 .. m + 1 : "limit" \in q.stack[i].warned \/ q.stack[i].output > MaxOutput
    BY <1>2 DEF NotedIn
  <2>2. CASE i = m + 1
    BY <2>1, <2>2, <1>2, <1>5 DEF Over, TopNoted
  <2>3. CASE i = m
    <3>1. m \in 1 .. m
      BY <1>2
    <3> QED BY <2>1, <2>3, <3>1, <1>3, <1>4 DEF NotedIn
  <2>4. CASE i # m + 1 /\ i # m
    <3>1. i \in 1 .. m - 1 /\ i \in 1 .. m
      BY <2>4, <1>2
    <3> QED BY <2>1, <3>1, <1>4 DEF NotedIn
  <2> QED BY <2>2, <2>3, <2>4
<1> QED BY <1>1, <1>3, <1>4, <1>5, <1>6 DEF y

LEMMA JoinTwins ==
  ASSUME NEW n \in Nat, NEW r, NEW q, Twins(r, q, n), Len(q.stack) > 1, NEW failed
  PROVE  Same(Join(r, failed), Join(q, failed))
<1> DEFINE m == Len(q.stack) - 1
           a == r.stack[m]
           b == q.stack[m]
           c == Joined(r, failed)
           d == Joined(q, failed)
           x == Join(r, failed)
           y == Join(q, failed)
<1>1. IsRun(r, n) /\ IsRun(q, n) /\ Len(r.stack) = Len(q.stack) /\ m \in Nat \ {0} /\ m \in 1 .. Len(q.stack)
      /\ Len(q.stack) - 2 = m - 1 /\ IsContext(Top(r), n) /\ IsContext(Top(q), n)
  BY TwinTops, Tops DEF Twins
<1>2. IsContext(a, n) /\ IsContext(c, n) /\ IsRun(x, n) /\ HasJoined(x, r, c)
  BY <1>1, JoinIs
<1>3. IsContext(b, n) /\ IsContext(d, n) /\ IsRun(y, n) /\ HasJoined(y, q, d)
  BY <1>1, JoinIs
<1>4. SameContext(a, b)
  BY <1>1 DEF Twins, Same
<1>5. SameContext(c, d)
  <2> DEFINE e == Top(r).effects
             p == Top(r).posts
  <2>1. e = Top(q).effects /\ p = Top(q).posts
    BY TwinTops
  <2>2. c = [a EXCEPT !.effects = @ \o e, !.posts = IF @ = {} THEN @ ELSE p,
                      !.warned = @ \cup Top(r).warned \cup (IF failed THEN {"execcc"} ELSE {})]
    BY <1>1 DEF Joined
  <2>3. d = [b EXCEPT !.effects = @ \o e, !.posts = IF @ = {} THEN @ ELSE p,
                      !.warned = @ \cup Top(q).warned \cup (IF failed THEN {"execcc"} ELSE {})]
    BY <2>1 DEF Joined
  <2> HIDE DEF a, b, c, d, e, p
  <2>4. /\ c.effects = a.effects \o e /\ d.effects = b.effects \o e
        /\ c.posts = (IF a.posts = {} THEN a.posts ELSE p) /\ d.posts = (IF b.posts = {} THEN b.posts ELSE p)
    BY <1>2, <1>3, <2>2, <2>3 DEF IsContext, ContextFields
  <2>5. /\ \A f \in ContextFields \ {"effects", "posts", "warned"} : c[f] = a[f] /\ d[f] = b[f]
        /\ a.effects = b.effects /\ a.posts = b.posts
    BY <1>2, <1>3, <1>4, <2>2, <2>3 DEF IsContext, ContextFields, SameContext
  <2> QED BY <1>4, <2>4, <2>5 DEF SameContext, ContextFields
<1> HIDE DEF c, d, x, y
<1>6. /\ Len(x.stack) = m /\ Len(y.stack) = m /\ x.stack[m] = c /\ y.stack[m] = d
      /\ \A i \in 1 .. m - 1 : x.stack[i] = r.stack[i] /\ y.stack[i] = q.stack[i]
  <2>1. Top(x) = x.stack[Len(x.stack)] /\ Top(y) = y.stack[Len(y.stack)]
    BY <1>2, <1>3, Tops
  <2> QED BY <2>1, <1>1, <1>2, <1>3 DEF HasJoined
<1>7. \A i \in 1 .. m : SameContext(x.stack[i], y.stack[i])
  <2> SUFFICES ASSUME NEW i \in 1 .. m PROVE SameContext(x.stack[i], y.stack[i])
    OBVIOUS
  <2>1. CASE i = m
    BY <2>1, <1>5, <1>6
  <2>2. CASE i # m
    <3>1. i \in 1 .. m - 1 /\ i \in 1 .. Len(q.stack)
      BY <2>2, <1>1
    <3> QED BY <3>1, <1>6 DEF Twins, Same
  <2> QED BY <2>1, <2>2
<1>8. \A f \in RunFields \ {"stack"} : x[f] = y[f]
  BY <1>2, <1>3 DEF HasJoined, Twins, Same
<1> QED BY <1>6, <1>7, <1>8 DEF Same, x, y

-----------------------------------------------------------------------------
(* What is done to one run alone keeps its contexts, their notes and their  *)
(* output.                                                                  *)
Stays(y, q, n) == IsRun(y, n) /\ Grown(y, q) /\ Len(y.stack) = Len(q.stack)

LEMMA StaysTwice ==
  ASSUME NEW n, NEW q, IsRun(q, n), NEW y, Stays(y, q, n), NEW v, Stays(v, y, n)
  PROVE  Stays(v, q, n)
BY GrownTwice DEF Stays

LEMMA MovedStays ==
  ASSUME NEW n, NEW q, NEW x, NEW y, Moved(x, y, q, n)
  PROVE  Stays(y, q, n)
BY DEF Moved, Twins, Stays

LEMMA AloneStays ==
  ASSUME NEW n, NEW q, IsRun(q, n)
  PROVE  /\ Stays(q, q, n)
         /\ \A kind : Stays(Warn(q, kind), q, n)
         /\ \A of, in : Stays(RecordSentMessage(q, of, in), q, n)
         /\ \A of : Stays(RecordResponseSent(q, of), q, n)
<1>1. Twins(q, q, n)
  BY TwinSelf
<1> QED BY <1>1, MovedNot, MovedWarn, MovedSent, MovedResponse, MovedStays

LEMMA StaysNoted ==
  ASSUME NEW n, NEW q, IsRun(q, n), NEW y, Stays(y, q, n)
  PROVE  /\ NotedIn(q) => NotedIn(y)
         /\ TopNoted(q) => TopNoted(y)
         /\ Over(q) <=> Over(y)
         /\ Top(y).inTry = Top(q).inTry /\ y.status = q.status
BY GrownNoted DEF Stays, Over, Grown

(* The output: too long a one, or one over YAGPDB's cap, is noted.          *)
LEMMA OutputStays ==
  ASSUME NEW n, NEW q, IsRun(q, n), NEW strict, NEW failed
  PROVE  Stays(CheckOutput(q, strict, failed).run, q, n)
<1> DEFINE p == IF ~strict /\ Top(q).output > MaxOutput THEN Warn(q, "limit") ELSE q
<1>1. Stays(p, q, n)
  BY AloneStays
<1>2. CheckOutput(q, strict, failed).run \in {p, Warn(p, "limit"), Warn(p, "response")}
  BY DEF CheckOutput, Response
<1> HIDE DEF p
<1>3. Stays(Warn(p, "limit"), p, n) /\ Stays(Warn(p, "response"), p, n)
  BY <1>1, AloneStays DEF Stays
<1> QED BY <1>1, <1>2, <1>3, StaysTwice

LEMMA OverIsNoted ==
  ASSUME NEW n, NEW q, IsRun(q, n), NEW failed, Over(q)
  PROVE  TopNoted(CheckOutput(q, FALSE, failed).run)
<1> DEFINE p == Warn(q, "limit")
<1>1. TopNoted(p) /\ IsRun(p, n)
  BY TwinSelf, MovedWarn, AloneStays DEF TopNoted, Stays
<1>2. CheckOutput(q, FALSE, failed).run \in {p, Warn(p, "limit"), Warn(p, "response")}
  BY DEF CheckOutput, Response, Over
<1> HIDE DEF p
<1>3. TopNoted(Warn(p, "limit")) /\ TopNoted(Warn(p, "response"))
  BY <1>1, AloneStays, StaysNoted
<1> QED BY <1>1, <1>2, <1>3

LEMMA OutputPair ==
  ASSUME NEW n, NEW r, NEW q, Twins(r, q, n), NEW failed, ~TopNoted(CheckOutput(q, FALSE, failed).run)
  PROVE  /\ Moved(CheckOutput(r, TRUE, failed).run, CheckOutput(q, FALSE, failed).run, q, n)
         /\ CheckOutput(r, TRUE, failed).size = CheckOutput(q, FALSE, failed).size
<1> DEFINE m == Top(q).output
<1>1. ~Over(q) /\ Top(r).output = m /\ Top(r).deletes = Top(q).deletes
  <2>1. ~Over(q)
    BY OverIsNoted DEF Twins
  <2> QED BY <2>1, TwinTops
<1>2. TopNoted(Warn(q, "limit"))
  BY MovedWarn DEF TopNoted
<1>3. CASE Top(q).deletes # "now" \/ failed
  <2>1. CheckOutput(q, FALSE, failed) = Response(q, FALSE) /\ CheckOutput(r, TRUE, failed) = Response(r, TRUE)
    BY <1>1, <1>3 DEF CheckOutput, Over
  <2>2. m <= MaxResponse
    <3>1. ~(m <= MaxResponse) => Response(q, FALSE).run = Warn(q, "limit")
      BY DEF Response
    <3> QED BY <1>2, <2>1, <3>1
  <2>3. Response(q, FALSE).run = q /\ Response(q, FALSE).size = m
    BY <2>2 DEF Response
  <2>4. Response(r, TRUE).run = r /\ Response(r, TRUE).size = m
    BY <1>1, <2>2 DEF Response
  <2> QED BY <2>1, <2>3, <2>4, MovedNot
<1>4. CASE ~(Top(q).deletes # "now" \/ failed)
  <2>1. /\ CheckOutput(q, FALSE, failed).run = (IF m > 0 THEN Warn(q, "response") ELSE q)
        /\ CheckOutput(q, FALSE, failed).size = 0
    BY <1>1, <1>4 DEF CheckOutput, Over
  <2>2. /\ CheckOutput(r, TRUE, failed).run = (IF m > 0 THEN Warn(r, "response") ELSE r)
        /\ CheckOutput(r, TRUE, failed).size = 0
    <3>1. ~(Top(r).deletes # "now" \/ failed)
      BY <1>1, <1>4
    <3> HIDE DEF m
    <3> QED BY <1>1, <3>1 DEF CheckOutput
  <2>3. Moved(Warn(r, "response"), Warn(q, "response"), q, n) /\ Moved(r, q, q, n)
    BY MovedNot, MovedWarn
  <2> QED BY <2>1, <2>2, <2>3
<1> QED BY <1>3, <1>4

(* What Finish posts, before the run ends or returns to its caller.         *)
Shown(r, strict, failed, show) ==
  LET out == CheckOutput(r, strict, failed)
      child == Len(r.stack) > 1
      sent == IF child THEN RecordSentMessage(out.run, "response", Top(r).channel) ELSE out.run
  IN IF failed /\ show THEN ShowError(out.run, strict, out.size)
     ELSE IF out.size > 0 /\ ~(failed /\ show) /\ Top(r).deletes # "now"
          THEN RecordResponseSent(sent, IF child THEN sent.sent ELSE 0)
     ELSE out.run

LEMMA FinishIs ==
  ASSUME NEW r, NEW strict, NEW failed, NEW show
  PROVE  Finish(r, strict, failed, show)
           = IF Len(r.stack) > 1 THEN Join(Shown(r, strict, failed, show), failed)
             ELSE [Shown(r, strict, failed, show) EXCEPT !.status = IF failed THEN "failed" ELSE "done"]
BY DEF Finish, Shown

LEMMA ErrorStays ==
  ASSUME NEW n, NEW q, IsRun(q, n), NEW strict, NEW size
  PROVE  Stays(ShowError(q, strict, size), q, n)
<1> DEFINE p == Warn(q, "limit")
           ch == Top(q).channel
<1>1. Stays(p, q, n)
  BY AloneStays
<1>2. ShowError(q, strict, size) \in {p, RecordSentMessage(q, "error", ch), RecordSentMessage(p, "error", ch)}
  BY DEF ShowError
<1> HIDE DEF p, ch
<1>3. Stays(RecordSentMessage(p, "error", ch), q, n) /\ Stays(RecordSentMessage(q, "error", ch), q, n)
  <2>1. Stays(RecordSentMessage(p, "error", ch), p, n)
    BY <1>1, AloneStays DEF Stays
  <2> QED BY <1>1, <2>1, AloneStays, StaysTwice
<1> QED BY <1>1, <1>2, <1>3

LEMMA ErrorPair ==
  ASSUME NEW n, NEW r, NEW q, Twins(r, q, n), NEW size
  PROVE  Moved(ShowError(r, TRUE, size), ShowError(q, FALSE, size), q, n) \/ TopNoted(ShowError(q, FALSE, size))
<1> DEFINE ch == Top(q).channel
           p == Warn(q, "limit")
<1>1. Top(r).channel = ch
  BY TwinTops
<1>2. CASE size + 1 <= MaxResponse
  <2>1. ShowError(q, FALSE, size) = RecordSentMessage(q, "error", ch)
    BY <1>2 DEF ShowError
  <2>2. ShowError(r, TRUE, size) = RecordSentMessage(r, "error", ch)
    BY <1>1, <1>2 DEF ShowError
  <2> QED BY <2>1, <2>2, MovedSent
<1>3. CASE ~(size + 1 <= MaxResponse)
  <2>1. ShowError(q, FALSE, size) = RecordSentMessage(p, "error", ch)
    BY <1>3 DEF ShowError
  <2>2. TopNoted(p) /\ IsRun(p, n)
    BY MovedWarn, AloneStays DEF TopNoted, Stays, Twins
  <2> HIDE DEF p, ch
  <2> QED BY <2>1, <2>2, AloneStays, StaysNoted
<1> QED BY <1>2, <1>3

LEMMA ShownStays ==
  ASSUME NEW n, NEW q, IsRun(q, n), NEW strict, NEW failed, NEW show
  PROVE  Stays(Shown(q, strict, failed, show), q, n)
<1> DEFINE out == CheckOutput(q, strict, failed)
           sent == IF Len(q.stack) > 1 THEN RecordSentMessage(out.run, "response", Top(q).channel) ELSE out.run
           of == IF Len(q.stack) > 1 THEN sent.sent ELSE 0
<1>1. Shown(q, strict, failed, show) \in {ShowError(out.run, strict, out.size), RecordResponseSent(sent, of), out.run}
  BY DEF Shown
<1>2. Stays(out.run, q, n)
  BY OutputStays
<1> HIDE DEF out
<1>3. Stays(sent, q, n)
  <2>1. Stays(RecordSentMessage(out.run, "response", Top(q).channel), out.run, n)
    BY <1>2, AloneStays DEF Stays
  <2> QED BY <1>2, <2>1, StaysTwice
<1> HIDE DEF sent, of
<1>4. Stays(ShowError(out.run, strict, out.size), q, n)
  <2>1. Stays(ShowError(out.run, strict, out.size), out.run, n)
    BY <1>2, ErrorStays DEF Stays
  <2> QED BY <1>2, <2>1, StaysTwice
<1>5. Stays(RecordResponseSent(sent, of), q, n)
  <2>1. Stays(RecordResponseSent(sent, of), sent, n)
    BY <1>3, AloneStays DEF Stays
  <2> QED BY <1>3, <2>1, StaysTwice
<1> QED BY <1>1, <1>2, <1>4, <1>5

(* A note of the output stays, whatever is posted.                          *)
LEMMA ShownNotes ==
  ASSUME NEW n, NEW q, IsRun(q, n), NEW failed, NEW show, TopNoted(CheckOutput(q, FALSE, failed).run)
  PROVE  TopNoted(Shown(q, FALSE, failed, show))
<1> DEFINE out == CheckOutput(q, FALSE, failed)
           sent == IF Len(q.stack) > 1 THEN RecordSentMessage(out.run, "response", Top(q).channel) ELSE out.run
           of == IF Len(q.stack) > 1 THEN sent.sent ELSE 0
<1>1. Shown(q, FALSE, failed, show) \in {ShowError(out.run, FALSE, out.size), RecordResponseSent(sent, of), out.run}
  BY DEF Shown
<1>2. IsRun(out.run, n)
  BY OutputStays DEF Stays
<1> HIDE DEF out
<1>3. TopNoted(out.run)
  BY DEF out
<1>4. IsRun(sent, n) /\ TopNoted(sent)
  <2>1. Stays(RecordSentMessage(out.run, "response", Top(q).channel), out.run, n)
    BY <1>2, AloneStays
  <2>2. TopNoted(RecordSentMessage(out.run, "response", Top(q).channel))
    BY <1>2, <1>3, <2>1, StaysNoted
  <2> QED BY <1>2, <1>3, <2>1, <2>2 DEF Stays
<1> HIDE DEF sent, of
<1>5. TopNoted(ShowError(out.run, FALSE, out.size))
  <2> DEFINE v == ShowError(out.run, FALSE, out.size)
  <2>1. Stays(v, out.run, n)
    BY <1>2, ErrorStays
  <2> HIDE DEF v
  <2>2. TopNoted(v)
    BY <1>2, <1>3, <2>1, StaysNoted
  <2> QED BY <2>2 DEF v
<1>6. TopNoted(RecordResponseSent(sent, of))
  BY <1>4, AloneStays, StaysNoted
<1> QED BY <1>1, <1>3, <1>5, <1>6

LEMMA ShownPair ==
  ASSUME NEW n, NEW r, NEW q, Twins(r, q, n), NEW failed, NEW show
  PROVE  \/ Moved(Shown(r, TRUE, failed, show), Shown(q, FALSE, failed, show), q, n)
         \/ TopNoted(Shown(q, FALSE, failed, show))
<1> DEFINE o == CheckOutput(r, TRUE, failed)
           p == CheckOutput(q, FALSE, failed)
           child == Len(q.stack) > 1
           ch == Top(q).channel
           u == IF child THEN RecordSentMessage(o.run, "response", ch) ELSE o.run
           w == IF child THEN RecordSentMessage(p.run, "response", ch) ELSE p.run
           of == IF child THEN w.sent ELSE 0
<1> SUFFICES ASSUME ~TopNoted(Shown(q, FALSE, failed, show))
             PROVE  Moved(Shown(r, TRUE, failed, show), Shown(q, FALSE, failed, show), q, n)
  OBVIOUS
<1>1. IsRun(q, n) /\ Len(r.stack) = Len(q.stack) /\ Top(r).channel = ch /\ Top(r).deletes = Top(q).deletes
  BY TwinTops DEF Twins
<1>2. ~TopNoted(CheckOutput(q, FALSE, failed).run)
  BY <1>1, ShownNotes
<1>3. Moved(o.run, p.run, q, n) /\ o.size = p.size
  <2>1. /\ Moved(CheckOutput(r, TRUE, failed).run, CheckOutput(q, FALSE, failed).run, q, n)
        /\ CheckOutput(r, TRUE, failed).size = CheckOutput(q, FALSE, failed).size
    BY <1>2, OutputPair, ZenonT(30)
  <2> QED BY <2>1
<1>4. Shown(q, FALSE, failed, show)
        = IF failed /\ show THEN ShowError(p.run, FALSE, p.size)
          ELSE IF p.size > 0 /\ ~(failed /\ show) /\ Top(q).deletes # "now" THEN RecordResponseSent(w, of) ELSE p.run
  BY DEF Shown
<1>5. Shown(r, TRUE, failed, show)
        = IF failed /\ show THEN ShowError(o.run, TRUE, p.size)
          ELSE IF p.size > 0 /\ ~(failed /\ show) /\ Top(q).deletes # "now"
               THEN RecordResponseSent(u, IF child THEN u.sent ELSE 0)
          ELSE o.run
  <2>1. Shown(r, TRUE, failed, show)
        = IF failed /\ show THEN ShowError(o.run, TRUE, o.size)
          ELSE IF o.size > 0 /\ ~(failed /\ show) /\ Top(r).deletes # "now"
               THEN RecordResponseSent(IF Len(r.stack) > 1 THEN RecordSentMessage(o.run, "response", Top(r).channel) ELSE o.run,
                                       IF Len(r.stack) > 1
                                       THEN (IF Len(r.stack) > 1
                                             THEN RecordSentMessage(o.run, "response", Top(r).channel) ELSE o.run).sent
                                       ELSE 0)
          ELSE o.run
    BY DEF Shown
  <2> HIDE DEF o, p
  <2> QED BY <2>1, <1>1, <1>3
<1> HIDE DEF o, p, ch, child
<1>6. Moved(u, w, q, n)
  <2>1. Moved(RecordSentMessage(o.run, "response", ch), RecordSentMessage(p.run, "response", ch), p.run, n)
    BY <1>3, MovedSent DEF Moved
  <2> QED BY <1>1, <1>3, <2>1, MovedTwice
<1>7. u.sent = w.sent
  BY <1>6, TwinTops DEF Moved
<1> HIDE DEF u, w
<1>8. Moved(RecordResponseSent(u, of), RecordResponseSent(w, of), q, n)
  <2>1. Moved(RecordResponseSent(u, of), RecordResponseSent(w, of), w, n)
    BY <1>6, MovedResponse DEF Moved
  <2> QED BY <1>1, <1>6, <2>1, MovedTwice
<1>9. CASE failed /\ show
  <2> DEFINE x == ShowError(o.run, TRUE, p.size)
             y == ShowError(p.run, FALSE, p.size)
  <2>1. Shown(q, FALSE, failed, show) = y /\ Shown(r, TRUE, failed, show) = x
    BY <1>4, <1>5, <1>9
  <2>2. Moved(x, y, p.run, n)
    <3>1. Twins(o.run, p.run, n)
      BY <1>3 DEF Moved
    <3>2. ~TopNoted(ShowError(p.run, FALSE, p.size))
      BY <2>1
    <3> QED BY <3>1, <3>2, ErrorPair, ZenonT(30)
  <2> HIDE DEF x, y
  <2>3. Moved(x, y, q, n)
    BY <1>1, <1>3, <2>2, MovedTwice
  <2> QED BY <2>1, <2>3
<1>10. CASE ~(failed /\ show)
  BY <1>3, <1>4, <1>5, <1>7, <1>8, <1>10
<1> QED BY <1>9, <1>10

(* A run that is over keeps its contexts; a child leaves its caller's.      *)
LEMMA OverIs ==
  ASSUME NEW n, NEW z, IsRun(z, n), NEW status \in {"done", "failed"}, NEW y, y = [z EXCEPT !.status = status]
  PROVE  /\ y.status = status /\ y.stack = z.stack /\ Top(y) = Top(z) /\ y.status # "running"
         /\ \A f \in RunFields \ {"status"} : y[f] = z[f]
<1>1. y.status = status /\ y.stack = z.stack /\ \A f \in RunFields \ {"status"} : y[f] = z[f]
  BY DEF IsRun, RunFields
<1> QED BY <1>1 DEF Top

LEMMA FinishEnds ==
  ASSUME NEW n \in Nat, NEW q, IsRun(q, n), NEW strict, NEW failed, NEW show
  PROVE  LET x == Finish(q, strict, failed, show)
         IN IF Len(q.stack) > 1
            THEN /\ IsRun(x, n) /\ Len(x.stack) = Len(q.stack) - 1 /\ x.status = q.status
                 /\ Top(x).inTry = q.stack[Len(q.stack) - 1].inTry
            ELSE x.status # "running"
<1> DEFINE z == Shown(q, strict, failed, show)
           x == Finish(q, strict, failed, show)
           status == IF failed THEN "failed" ELSE "done"
           m == Len(q.stack)
<1>1. Stays(z, q, n)
  BY ShownStays
<1>2. x = IF m > 1 THEN Join(z, failed) ELSE [z EXCEPT !.status = status]
  BY FinishIs
<1>3. m \in Nat \ {0}
  BY Tops
<1>4. IsRun(z, n) /\ Len(z.stack) = m /\ z.status = q.status /\ status \in {"done", "failed"}
  BY <1>1, StaysNoted DEF Stays
<1> HIDE DEF x, z, status
<1>5. CASE m > 1
  <2>1. /\ IsRun(x, n) /\ Len(x.stack) = m - 1 /\ x.status = q.status
        /\ Top(x).inTry = z.stack[m - 1].inTry
    BY <1>2, <1>4, <1>5, JoinNotes
  <2>2. z.stack[m - 1].inTry = q.stack[m - 1].inTry
    <3>1. m - 1 \in 1 .. m
      BY <1>3, <1>5
    <3> QED BY <3>1, <1>1 DEF Stays, Grown, Keeping
  <2> QED BY <1>5, <2>1, <2>2 DEF x
<1>6. CASE ~(m > 1)
  <2>1. x.status # "running"
    BY <1>2, <1>4, <1>6, OverIs
  <2> QED BY <1>6, <2>1 DEF x
<1> QED BY <1>5, <1>6

(* Whatever a run that ends has noted is in its report, or its caller's     *)
(* notes.                                                                   *)
LEMMA FinishNotes ==
  ASSUME NEW n \in Nat, NEW q, IsRun(q, n), q.status = "running", NotedIn(q), NEW failed, NEW show
  PROVE  HasNoted(Finish(q, FALSE, failed, show))
<1> DEFINE z == Shown(q, FALSE, failed, show)
           y == Finish(q, FALSE, failed, show)
           status == IF failed THEN "failed" ELSE "done"
           m == Len(q.stack)
<1>1. Stays(z, q, n)
  BY ShownStays
<1>2. y = IF m > 1 THEN Join(z, failed) ELSE [z EXCEPT !.status = status]
  BY FinishIs
<1>3. Over(q) => TopNoted(z)
  BY OverIsNoted, ShownNotes
<1>4. m \in Nat \ {0} /\ Top(q) = q.stack[m]
  BY Tops
<1> HIDE DEF y, z
<1>5. IsRun(z, n) /\ Len(z.stack) = m /\ z.status = "running" /\ NotedIn(z) /\ (Over(z) => TopNoted(z))
      /\ status \in {"done", "failed"} /\ (TopNoted(q) => TopNoted(z))
  BY <1>1, <1>3, StaysNoted DEF Stays
<1> HIDE DEF status
<1>6. CASE m > 1
  <2>1. NotedIn(Join(z, failed)) /\ Join(z, failed).status = "running"
    BY <1>5, <1>6, JoinNotes
  <2> QED BY <1>2, <1>6, <2>1 DEF HasNoted, y
<1>7. CASE ~(m > 1)
  <2>1. m = 1
    <3> HIDE DEF m
    <3> QED BY <1>4, <1>7
  <2>2. TopNoted(q) \/ Over(q)
    BY <2>1, <1>4 DEF NotedIn, TopNoted, Over
  <2>3. TopNoted(z)
    BY <2>2, <1>3, <1>5
  <2>4. y.status # "running" /\ Top(y) = Top(z)
    BY <1>2, <1>5, <1>7, OverIs
  <2> QED BY <2>3, <2>4 DEF HasNoted, TopNoted, y
<1> QED BY <1>6, <1>7

LEMMA FinishPair ==
  ASSUME NEW n \in Nat, NEW r, NEW q, Twins(r, q, n), q.status = "running", NEW failed, NEW show
  PROVE  \/ Same(Finish(r, TRUE, failed, show), Finish(q, FALSE, failed, show))
         \/ HasNoted(Finish(q, FALSE, failed, show))
<1> DEFINE u == Shown(r, TRUE, failed, show)
           z == Shown(q, FALSE, failed, show)
           x == Finish(r, TRUE, failed, show)
           y == Finish(q, FALSE, failed, show)
           status == IF failed THEN "failed" ELSE "done"
           m == Len(q.stack)
<1>1. Moved(u, z, q, n) \/ TopNoted(z)
  BY ShownPair, ZenonT(30)
<1>2. x = IF m > 1 THEN Join(u, failed) ELSE [u EXCEPT !.status = status]
  <2>1. Len(r.stack) = m
    BY TwinTops
  <2>2. x = IF Len(r.stack) > 1 THEN Join(u, failed) ELSE [u EXCEPT !.status = status]
    BY FinishIs
  <2> HIDE DEF x, u, m, status
  <2> QED BY <2>1, <2>2
<1>3. y = IF m > 1 THEN Join(z, failed) ELSE [z EXCEPT !.status = status]
  BY FinishIs
<1>4. Stays(z, q, n) /\ Stays(u, r, n) /\ IsRun(q, n)
  BY ShownStays DEF Twins
<1> HIDE DEF u, z, x, y
<1>5. /\ IsRun(z, n) /\ Len(z.stack) = m /\ z.status = "running" /\ IsRun(u, n)
      /\ status \in {"done", "failed"}
  BY <1>4, StaysNoted DEF Stays
<1> HIDE DEF status
<1>6. CASE TopNoted(z)
  <2>1. CASE m > 1
    <3>1. NotedIn(Join(z, failed)) /\ Join(z, failed).status = "running"
      BY <1>5, <1>6, <2>1, JoinNotes
    <3> QED BY <1>3, <2>1, <3>1 DEF HasNoted, y
  <2>2. CASE ~(m > 1)
    <3>1. y.status # "running" /\ Top(y) = Top(z)
      BY <1>3, <1>5, <2>2, OverIs
    <3> QED BY <1>6, <3>1 DEF HasNoted, TopNoted, y
  <2> QED BY <2>1, <2>2
<1>7. CASE Moved(u, z, q, n)
  <2>1. Twins(u, z, n)
    BY <1>7 DEF Moved
  <2>2. CASE m > 1
    <3>1. Same(Join(u, failed), Join(z, failed))
      BY <1>5, <2>1, <2>2, JoinTwins
    <3> QED BY <1>2, <1>3, <2>2, <3>1 DEF x, y
  <2>3. CASE ~(m > 1)
    <3>a. x.stack = u.stack /\ x.status = status /\ \A f \in RunFields \ {"status"} : x[f] = u[f]
      <4>1. x = [u EXCEPT !.status = status]
        BY <1>2, <2>3
      <4> QED BY <4>1, <1>5, OverIs
    <3>1. y.stack = z.stack /\ y.status = status /\ \A f \in RunFields \ {"status"} : y[f] = z[f]
      <4>1. y = [z EXCEPT !.status = status]
        BY <1>3, <2>3
      <4> QED BY <4>1, <1>5, OverIs
    <3>2. \A f \in RunFields \ {"stack"} : x[f] = y[f]
      BY <2>1, <3>a, <3>1 DEF Twins, Same, RunFields
    <3>3. Same(x, y)
      BY <2>1, <3>a, <3>1, <3>2 DEF Twins, Same
    <3> QED BY <3>3 DEF x, y
  <2> QED BY <2>2, <2>3
<1> QED BY <1>1, <1>6, <1>7

-----------------------------------------------------------------------------
(* What one of the steps tells of the twins r and q, become x with -strict   *)
(* and y without: they are the same, or y has noted it; and then, if they   *)
(* were in a {{try}}, x is still, or has ended.                             *)
InTry(x, m) == x.status = "running" /\ m <= Len(x.stack) => x.stack[m].inTry

Tells(x, y, r, q) ==
  /\ NotedIn(q) => HasNoted(y)
  /\ Same(x, y) \/ (HasNoted(y) /\ (Top(r).inTry => InTry(x, Len(r.stack))))

LEMMA FinishTells ==
  ASSUME NEW n \in Nat, NEW r, NEW q, Twins(r, q, n), q.status = "running", NEW failed, NEW show
  PROVE  Tells(Finish(r, TRUE, failed, show), Finish(q, FALSE, failed, show), r, q)
<1> DEFINE x == Finish(r, TRUE, failed, show)
           y == Finish(q, FALSE, failed, show)
<1>1. Same(x, y) \/ HasNoted(y)
  BY FinishPair, ZenonT(30)
<1>2. NotedIn(q) => HasNoted(y)
  <2>1. IsRun(q, n)
    BY DEF Twins
  <2> QED BY <2>1, FinishNotes, ZenonT(30)
<1>3. IF Len(r.stack) > 1 THEN Len(x.stack) = Len(r.stack) - 1 ELSE x.status # "running"
  <2>1. IsRun(r, n)
    BY DEF Twins
  <2> QED BY <2>1, FinishEnds
<1> HIDE DEF x, y
<1>4. Len(r.stack) \in Nat
  BY Tops DEF Twins
<1>5. InTry(x, Len(r.stack))
  BY <1>3, <1>4 DEF InTry
<1>6. Tells(x, y, r, q)
  BY <1>1, <1>2, <1>5 DEF Tells
<1> QED BY <1>6 DEF x, y

(* The top context set to another: the notes of the run stay, if it keeps   *)
(* its own.                                                                 *)
LEMMA SetNotes ==
  ASSUME NEW n, NEW q, IsRun(q, n), NEW d, IsContext(d, n), d.warned = Top(q).warned
  PROVE  LET y == WithTop(q, d)
         IN /\ IsRun(y, n) /\ Len(y.stack) = Len(q.stack) /\ y.status = q.status /\ Top(y) = d
            /\ d.output > MaxOutput => NotedIn(y)
            /\ (Over(q) => d.output > MaxOutput) /\ NotedIn(q) => NotedIn(y)
<1> DEFINE y == WithTop(q, d)
           m == Len(q.stack)
<1>1. IsRun(y, n) /\ Replaces(y, q, d)
  BY WithTopIs
<1> HIDE DEF y
<1>2. m \in Nat \ {0} /\ Top(q) = q.stack[m] /\ Top(y) = y.stack[m] /\ Top(y) = d /\ Len(y.stack) = m /\ m \in 1 .. m
  BY <1>1, Tops DEF Replaces
<1>3. y.status = q.status
  BY <1>1 DEF Replaces, RunFields
<1>4. d.output > MaxOutput => NotedIn(y)
  BY <1>2 DEF NotedIn
<1>5. (Over(q) => d.output > MaxOutput) /\ NotedIn(q) => NotedIn(y)
  <2> SUFFICES ASSUME Over(q) => d.output > MaxOutput, NotedIn(q) PROVE NotedIn(y)
    OBVIOUS
  <2>1. PICK i \in 1 .. m : "limit" \in q.stack[i].warned \/ q.stack[i].output > MaxOutput
    BY DEF NotedIn
  <2>2. CASE i = m
    <3>1. "limit" \in d.warned \/ d.output > MaxOutput
      BY <2>1, <2>2, <1>2 DEF Over
    <3> QED BY <3>1, <1>2 DEF NotedIn
  <2>3. CASE i # m
    <3>1. y.stack[i] = q.stack[i]
      BY <2>3, <1>1, <1>2 DEF Replaces
    <3> QED BY <2>1, <3>1, <1>2 DEF NotedIn
  <2> QED BY <2>2, <2>3
<1> QED BY <1>1, <1>2, <1>3, <1>4, <1>5 DEF y

(* {{try}} and {{catch}}.                                                   *)
Tried(r, in) == WithTop(r, [Top(r) EXCEPT !.inTry = in])

LEMMA TryPair ==
  ASSUME NEW n, NEW r, NEW q, Twins(r, q, n), NEW in
  PROVE  Twins(Tried(r, in), Tried(q, in), n) /\ Tried(q, in).status = q.status /\ (NotedIn(q) => NotedIn(Tried(q, in)))
<1> DEFINE a == Top(r)
           b == Top(q)
           c == [a EXCEPT !.inTry = in]
           d == [b EXCEPT !.inTry = in]
<1>1. IsContext(a, n) /\ IsContext(b, n) /\ SameContext(a, b) /\ IsRun(q, n)
  BY TwinTops DEF Twins
<1> HIDE DEF a, b
<1>2. IsContext(c, n) /\ IsContext(d, n)
  BY <1>1 DEF IsContext, ContextFields
<1>3. SameContext(c, d) /\ d.warned = b.warned /\ d.output = b.output
  BY <1>1 DEF IsContext, ContextFields, SameContext
<1> HIDE DEF c, d
<1>4. Twins(WithTop(r, c), WithTop(q, d), n)
  BY <1>2, <1>3, TwinsSet
<1>5. WithTop(q, d).status = q.status /\ (NotedIn(q) => NotedIn(WithTop(q, d)))
  BY <1>1, <1>2, <1>3, SetNotes DEF Over, b
<1> QED BY <1>4, <1>5 DEF Tried, a, b, c, d

LEMMA SameTells ==
  ASSUME NEW n, NEW r, NEW q, Twins(r, q, n), NEW x, NEW y, Same(x, y), y.status = "running", NotedIn(q) => NotedIn(y)
  PROVE  Tells(x, y, r, q)
BY DEF Tells, HasNoted

LEMMA TryTells ==
  ASSUME NEW n, NEW r, NEW q, Twins(r, q, n), q.status = "running", NEW in
  PROVE  Tells(Tried(r, in), Tried(q, in), r, q) /\ Same(Tried(r, in), Tried(q, in))
BY TryPair, SameTells DEF Twins

LEMMA ThrowTells ==
  ASSUME NEW n \in Nat, NEW r, NEW q, Twins(r, q, n), q.status = "running", NEW show
  PROVE  /\ Tells(Throw(r, TRUE, show), Throw(q, FALSE, show), r, q)
         /\ Top(q).inTry => Same(Throw(r, TRUE, show), Throw(q, FALSE, show))
<1>1. Top(r).inTry = Top(q).inTry
  BY TwinTops
<1>2. CASE Top(q).inTry
  <2>1. Throw(r, TRUE, show) = Tried(r, FALSE) /\ Throw(q, FALSE, show) = Tried(q, FALSE)
    BY <1>1, <1>2 DEF Throw, Tried
  <2>2. Tells(Tried(r, FALSE), Tried(q, FALSE), r, q) /\ Same(Tried(r, FALSE), Tried(q, FALSE))
    BY TryTells, ZenonT(30)
  <2> QED BY <2>1, <2>2
<1>3. CASE ~Top(q).inTry
  <2>1. Throw(r, TRUE, show) = Finish(r, TRUE, TRUE, show) /\ Throw(q, FALSE, show) = Finish(q, FALSE, TRUE, show)
    BY <1>1, <1>3 DEF Throw
  <2>2. Tells(Finish(r, TRUE, TRUE, show), Finish(q, FALSE, TRUE, show), r, q)
    BY FinishTells, ZenonT(30)
  <2> QED BY <1>3, <2>1, <2>2
<1> QED BY <1>2, <1>3

(* What the steps after a call to a twin tell, they tell of it before.      *)
LEMMA TellsBefore ==
  ASSUME NEW n, NEW r, NEW q, Twins(r, q, n), NEW u, NEW w, Moved(u, w, q, n), NEW x, NEW y, Tells(x, y, u, w)
  PROVE  Tells(x, y, r, q)
<1>1. Stays(w, q, n) /\ IsRun(q, n)
  BY MovedStays DEF Twins
<1>2. (NotedIn(q) => NotedIn(w)) /\ Top(w).inTry = Top(q).inTry /\ Len(w.stack) = Len(q.stack)
  BY <1>1, StaysNoted DEF Stays
<1>3. Top(r).inTry = Top(q).inTry /\ Len(r.stack) = Len(q.stack)
  BY TwinTops
<1>4. Top(u).inTry = Top(w).inTry /\ Len(u.stack) = Len(w.stack)
  BY TwinTops DEF Moved
<1> QED BY <1>2, <1>3, <1>4 DEF Tells

(* A note of the lenient one tells it, where the strict one keeps its {{try}}. *)
LEMMA NotedTells ==
  ASSUME NEW n, NEW r, NEW q, Twins(r, q, n), NEW x, NEW y, HasNoted(y), ~Top(q).inTry \/ InTry(x, Len(r.stack))
  PROVE  Tells(x, y, r, q)
BY TwinTops DEF Tells

(* A child whose source is too long ends at once with -strict; its caller   *)
(* goes on where it was.                                                    *)
LEMMA BeginTells ==
  ASSUME NEW n \in Nat, NEW r, NEW q, Twins(r, q, n), q.status = "running", NEW u, NEW w, Twins(u, w, n),
         Grown(w, q), Len(w.stack) = Len(q.stack) + 1, NEW long, NEW show
  PROVE  Tells(Begin(u, TRUE, long, show), Begin(w, FALSE, long, show), r, q)
<1> DEFINE m == Len(q.stack)
<1>1. IsRun(q, n) /\ IsRun(w, n) /\ IsRun(u, n) /\ w.status = "running" /\ (NotedIn(q) => NotedIn(w))
  BY GrownNoted DEF Twins, Grown
<1>2. CASE ~long
  <2>1. Begin(u, TRUE, long, show) = u /\ Begin(w, FALSE, long, show) = w
    BY <1>2 DEF Begin
  <2>2. Tells(u, w, r, q)
    BY <1>1, SameTells DEF Twins
  <2> QED BY <2>1, <2>2
<1>3. CASE long
  <2> DEFINE x == Finish(u, TRUE, TRUE, show)
             y == Warn(w, "limit")
  <2>1. Begin(u, TRUE, long, show) = x /\ Begin(w, FALSE, long, show) = y
    BY <1>3 DEF Begin
  <2>2. HasNoted(y)
    <3>1. TopNoted(y) /\ IsRun(y, n)
      BY <1>1, MovedWarn, AloneStays DEF TopNoted, Stays
    <3> QED BY <3>1, NotedTop
  <2>3. /\ m \in Nat \ {0} /\ Len(u.stack) = m + 1 /\ Len(r.stack) = m
        /\ Top(q) = q.stack[m] /\ (m + 1) - 1 = m /\ m \in 1 .. m /\ m \in 1 .. m + 1
    BY <1>1, Tops, TwinTops
  <2>4. IsRun(x, n) /\ Len(x.stack) = m /\ Top(x).inTry = u.stack[m].inTry
    <3>1. /\ IsRun(x, n) /\ Len(x.stack) = Len(u.stack) - 1
          /\ Top(x).inTry = u.stack[Len(u.stack) - 1].inTry
      <4>1. Len(u.stack) > 1
        BY <2>3
      <4> QED BY <1>1, <4>1, FinishEnds
    <3> HIDE DEF x, m
    <3> QED BY <2>3, <3>1
  <2>5. u.stack[m].inTry = w.stack[m].inTry
    BY <2>3 DEF Twins, Same, SameContext, ContextFields
  <2>6. w.stack[m].inTry = q.stack[m].inTry
    BY <2>3 DEF Grown, Keeping
  <2> HIDE DEF x, y, m
  <2>7. Top(x) = x.stack[m]
    BY <2>4, Tops
  <2>8. ~Top(q).inTry \/ InTry(x, Len(r.stack))
    BY <2>3, <2>4, <2>5, <2>6, <2>7 DEF InTry
  <2>9. Tells(x, y, r, q)
    BY <2>2, <2>8, NotedTells
  <2> QED BY <2>1, <2>9
<1> QED BY <1>2, <1>3

(* A step that lets the strict run stand where it was.                      *)
LEMMA StandsInTry ==
  ASSUME NEW n, NEW r, IsRun(r, n), NEW x, Stays(x, r, n)
  PROVE  Top(r).inTry => InTry(x, Len(r.stack))
<1>1. Top(x).inTry = Top(r).inTry /\ Len(x.stack) = Len(r.stack) /\ Top(x) = x.stack[Len(x.stack)]
  BY StaysNoted, Tops DEF Stays
<1> QED BY <1>1 DEF InTry

LEMMA CarryOutTells ==
  ASSUME NEW n \in Nat, NEW r, NEW q, Twins(r, q, n), q.status = "running", NEW c, NEW show
  PROVE  Tells(CarryOut(r, TRUE, c, show), CarryOut(q, FALSE, c, show), r, q)
<1> DEFINE o == Body(r, c)
           p == Body(q, c)
           u == Warn(r, "limit")
           w == Warn(q, "limit")
           v == Warn(p.run, "limit")
           kind == p.kind
           x == CarryOut(r, TRUE, c, show)
           y == CarryOut(q, FALSE, c, show)
<1>1. /\ o.kind = kind /\ kind \in OutcomeKinds /\ Twins(o.run, p.run, n) /\ Grown(p.run, q)
      /\ Len(p.run.stack) = Len(q.stack) + (IF kind = "child" THEN 1 ELSE 0)
  <2>1. SameOutcome(o, p, q, n)
    BY BodyAlike
  <2> HIDE DEF o, p
  <2> QED BY <2>1 DEF SameOutcome
<1>2. IsRun(r, n) /\ IsRun(q, n) /\ Top(r).inTry = Top(q).inTry /\ Len(q.stack) \in Nat
  BY TwinTops, Tops DEF Twins
<1>3. Moved(u, w, q, n) /\ IsRun(w, n) /\ w.status = "running" /\ Twins(u, w, n) /\ Top(w).inTry = Top(q).inTry
  <2>1. Moved(u, w, q, n)
    BY MovedWarn
  <2>2. Stays(w, q, n)
    BY <1>2, AloneStays
  <2> HIDE DEF u, w
  <2> QED BY <1>2, <2>1, <2>2, StaysNoted DEF Moved, Stays
<1>4. HasNoted(w)
  BY <1>3, MovedWarn, NotedTop DEF TopNoted
<1>5. HasNoted(v)
  <2>1. TopNoted(v) /\ IsRun(v, n)
    BY <1>1, MovedWarn, AloneStays DEF TopNoted, Stays, Twins
  <2> QED BY <2>1, NotedTop
<1>6. Top(r).inTry => InTry(u, Len(r.stack))
  BY <1>2, AloneStays, StandsInTry
<1>7. /\ x = CASE kind \in {"ok", "noted"} -> o.run
               [] kind = "error" -> Throw(o.run, TRUE, show)
               [] kind = "refused" -> Throw(u, TRUE, show)
               [] kind = "rejected" -> Throw(u, TRUE, show)
               [] kind = "dropped" -> u
               [] kind = "child" -> Begin(o.run, TRUE, c.long, show)
  <2>1. x = CASE o.kind \in {"ok", "noted"} -> o.run
               [] o.kind = "error" -> Throw(o.run, TRUE, show)
               [] o.kind = "refused" -> Throw(u, TRUE, show)
               [] o.kind = "rejected" -> Throw(u, TRUE, show)
               [] o.kind = "dropped" -> u
               [] o.kind = "child" -> Begin(o.run, TRUE, c.long, show)
    BY DEF CarryOut, ReturnsError
  <2> HIDE DEF x, o, u, p
  <2> QED BY <2>1, <1>1
<1>8. /\ y = CASE kind \in {"ok", "noted"} -> p.run
               [] kind = "error" -> Throw(p.run, FALSE, show)
               [] kind = "refused" -> IF Top(q).inTry THEN Throw(w, FALSE, show) ELSE w
               [] kind = "rejected" -> IF Top(q).inTry THEN Throw(w, FALSE, show) ELSE v
               [] kind = "dropped" -> v
               [] kind = "child" -> Begin(p.run, FALSE, c.long, show)
  BY DEF CarryOut, ReturnsError
<1> HIDE DEF x, y, u, w, v, o, p
<1>9. CASE kind = "child"
  <2>1. Tells(Begin(o.run, TRUE, c.long, show), Begin(p.run, FALSE, c.long, show), r, q)
    BY <1>1, <1>9, BeginTells, ZenonT(30)
  <2>2. x = Begin(o.run, TRUE, c.long, show) /\ y = Begin(p.run, FALSE, c.long, show)
    BY <1>7, <1>8, <1>9
  <2> QED BY <2>1, <2>2 DEF x, y
<1>10. CASE kind # "child"
  <2>1. Moved(o.run, p.run, q, n)
    BY <1>1, <1>2, <1>10 DEF Moved
  <2>2. p.run.status = "running" /\ (NotedIn(q) => NotedIn(p.run))
    BY <1>2, <2>1, MovedStays, StaysNoted
  <2>3. CASE kind \in {"ok", "noted"}
    <3>1. Tells(o.run, p.run, r, q)
      BY <2>1, <2>2, SameTells DEF Moved, Twins
    <3>2. x = o.run /\ y = p.run
      BY <1>7, <1>8, <2>3
    <3> QED BY <3>1, <3>2 DEF x, y
  <2>4. CASE kind = "error"
    <3>1. Tells(Throw(o.run, TRUE, show), Throw(p.run, FALSE, show), o.run, p.run)
      BY <1>1, <2>2, ThrowTells, ZenonT(30)
    <3>2. x = Throw(o.run, TRUE, show) /\ y = Throw(p.run, FALSE, show)
      BY <1>7, <1>8, <2>4
    <3>3. Tells(x, y, o.run, p.run)
      BY <3>1, <3>2
    <3>4. Tells(x, y, r, q)
      BY <2>1, <3>3, TellsBefore
    <3> QED BY <3>4 DEF x, y
  <2>5. CASE kind \in {"refused", "rejected"}
    <3>1. CASE Top(q).inTry
      <4>1. Tells(Throw(u, TRUE, show), Throw(w, FALSE, show), u, w)
        BY <1>3, ThrowTells, ZenonT(30)
      <4>2. x = Throw(u, TRUE, show) /\ y = Throw(w, FALSE, show)
        BY <1>7, <1>8, <2>5, <3>1
      <4>3. Tells(x, y, u, w)
        BY <4>1, <4>2
      <4>4. Tells(x, y, r, q)
        BY <1>3, <4>3, TellsBefore
      <4> QED BY <4>4 DEF x, y
    <3>2. CASE ~Top(q).inTry
      <4>1. y \in {w, v}
        BY <1>8, <2>5, <3>2
      <4>2. Tells(x, y, r, q)
        BY <1>4, <1>5, <3>2, <4>1, NotedTells
      <4> QED BY <4>2 DEF x, y
    <3> QED BY <3>1, <3>2
  <2>6. CASE kind = "dropped"
    <3>1. x = u /\ y = v
      BY <1>7, <1>8, <2>6
    <3>2. Tells(x, y, r, q)
      BY <1>2, <1>5, <1>6, <3>1, NotedTells
    <3> QED BY <3>2 DEF x, y
  <2> QED BY <1>1, <1>10, <2>3, <2>4, <2>5, <2>6 DEF OutcomeKinds
<1> QED BY <1>9, <1>10

LEMMA TwinsMore ==
  ASSUME NEW n \in Nat, NEW r, NEW q, Twins(r, q, n)
  PROVE  Twins(r, q, n + 1)
BY CountedMore DEF Twins

LEMMA CountedPair ==
  ASSUME NEW n \in Nat, NEW r, NEW q, Twins(r, q, n), NEW c
  PROVE  /\ Moved(Counted(r, c).run, Counted(q, c).run, q, n + 1)
         /\ Counted(r, c).over = Counted(q, c).over
<1> DEFINE a == Top(r)
           b == Top(q)
           m == CountCalls(b.count, LimitsOf(c.fn), premium)
           f == IF c.fn = "setRoles" /\ ~m.over THEN b.setFor \cup {c.user} ELSE b.setFor
           d == [a EXCEPT !.count = m.count, !.setFor = f]
           e == [b EXCEPT !.count = m.count, !.setFor = f]
           over == m.over \/ (c.fn = "setRoles" /\ c.user \in b.setFor)
<1>1. a.count = b.count /\ a.setFor = b.setFor /\ IsContext(a, n) /\ IsContext(b, n) /\ SameContext(a, b)
  BY TwinTops
<1>2. Counted(q, c) = [run |-> WithTop(q, e), over |-> over]
  BY DEF Counted
<1>3. Counted(r, c) = [run |-> WithTop(r, d), over |-> over]
  <2>1. Counted(r, c)
          = [run |-> WithTop(r, [a EXCEPT !.count = CountCalls(a.count, LimitsOf(c.fn), premium).count,
                                          !.setFor = IF c.fn = "setRoles" /\ ~CountCalls(a.count, LimitsOf(c.fn), premium).over
                                                     THEN a.setFor \cup {c.user} ELSE a.setFor]),
             over |-> CountCalls(a.count, LimitsOf(c.fn), premium).over \/ (c.fn = "setRoles" /\ c.user \in a.setFor)]
    BY DEF Counted
  <2> HIDE DEF a, b
  <2> QED BY <1>1, <2>1
<1>4. m.count \in [Counters -> 0 .. n + 1]
  <2>1. b.count \in [Counters -> 0 .. n]
    BY <1>1 DEF IsContext
  <2> HIDE DEF b
  <2> QED BY <2>1, CountCallsIs
<1> HIDE DEF a, b, m, f
<1>5. IsContext(d, n + 1)
  BY <1>1, <1>4 DEF IsContext, ContextFields
<1>6. IsContext(e, n + 1)
  BY <1>1, <1>4 DEF IsContext, ContextFields
<1>7. SameContext(d, e) /\ Keeping(e, b)
  BY <1>1 DEF IsContext, ContextFields, SameContext, Keeping
<1> HIDE DEF d, e
<1>8. Twins(r, q, n + 1)
  BY TwinsMore
<1>9. Moved(WithTop(r, d), WithTop(q, e), q, n + 1)
  <2> DEFINE k == n + 1
  <2>1. Twins(r, q, k) /\ IsContext(d, k) /\ IsContext(e, k) /\ SameContext(d, e) /\ Keeping(e, Top(q))
    BY <1>5, <1>6, <1>7, <1>8 DEF b
  <2> HIDE DEF k
  <2>2. Moved(WithTop(r, d), WithTop(q, e), q, k)
    BY <2>1, MovedTop
  <2> QED BY <2>2 DEF k
<1> HIDE DEF over
<1> QED BY <1>2, <1>3, <1>9

(* A call under the limits: over one of them, YAGPDB skips it or it fails,  *)
(* and the emulator notes it; inside {{try}} it fails in both.              *)
LEMMA WithLimitsTells ==
  ASSUME NEW n \in Nat, NEW r, NEW q, Twins(r, q, n), q.status = "running", NEW c, NEW show
  PROVE  Tells(WithLimits(r, TRUE, c, show), WithLimits(q, FALSE, c, show), r, q)
<1> DEFINE k == n + 1
           o == Counted(r, c)
           p == Counted(q, c)
           u == Warn(o.run, "limit")
           w == Warn(p.run, "limit")
           over == p.over
           x == WithLimits(r, TRUE, c, show)
           y == WithLimits(q, FALSE, c, show)
<1>1. Moved(o.run, p.run, q, k) /\ o.over = over /\ k \in Nat
  BY CountedPair
<1>2. Uncounted(r, c) = Uncounted(q, c)
  BY TwinsSee DEF Uncounted
<1>3. Top(r).inTry = Top(q).inTry /\ Twins(r, q, k)
  BY TwinTops, TwinsMore
<1>4. x = IF Uncounted(q, c) THEN r
          ELSE IF ~over THEN CarryOut(o.run, TRUE, c, show)
          ELSE IF c.fn \in Silent THEN u ELSE Throw(u, TRUE, show)
  <2>1. x = IF Uncounted(r, c) THEN r
            ELSE IF ~o.over THEN CarryOut(o.run, TRUE, c, show)
            ELSE IF c.fn \in Silent THEN u ELSE Throw(u, TRUE, show)
    BY DEF WithLimits, ReturnsError
  <2> HIDE DEF x, o, u, p
  <2> QED BY <2>1, <1>1, <1>2
<1>5. y = IF Uncounted(q, c) THEN q
          ELSE IF ~over THEN CarryOut(p.run, FALSE, c, show)
          ELSE IF c.fn \in Silent THEN CarryOut(w, FALSE, c, show)
          ELSE IF Top(q).inTry THEN Throw(w, FALSE, show) ELSE CarryOut(w, FALSE, c, show)
  BY DEF WithLimits, ReturnsError
<1> HIDE DEF o, p, k
<1>6. Moved(u, w, q, k)
  <2>1. Moved(u, w, p.run, k)
    BY <1>1, MovedWarn DEF Moved
  <2>2. IsRun(q, k)
    BY <1>3 DEF Twins
  <2> QED BY <1>1, <2>1, <2>2, MovedTwice
<1>7. /\ IsRun(q, k) /\ p.run.status = "running" /\ w.status = "running" /\ IsRun(w, k) /\ Twins(u, w, k)
      /\ Twins(o.run, p.run, k)
  <2>1. IsRun(q, k) /\ Stays(w, q, k) /\ Stays(p.run, q, k)
    BY <1>1, <1>3, <1>6, MovedStays DEF Twins
  <2> HIDE DEF w, u
  <2> QED BY <2>1, <1>1, <1>6, StaysNoted DEF Moved, Twins
<1>8. NotedIn(w)
  <2>1. TopNoted(w)
    BY <1>1, MovedWarn DEF TopNoted, Moved
  <2> QED BY <2>1, <1>7, NotedTop
<1>9. Top(r).inTry => InTry(u, Len(r.stack))
  <2>1. Top(u).inTry = Top(w).inTry /\ Len(u.stack) = Len(w.stack) /\ Top(u) = u.stack[Len(u.stack)]
    BY <1>7, TwinTops, Tops DEF Twins
  <2>2. Top(w).inTry = Top(q).inTry /\ Len(w.stack) = Len(q.stack)
    BY <1>6, <1>7, MovedStays, StaysNoted DEF Stays
  <2>3. Len(r.stack) = Len(q.stack)
    BY TwinTops
  <2> HIDE DEF u, w
  <2> QED BY <1>3, <2>1, <2>2, <2>3 DEF InTry
<1>10. HasNoted(CarryOut(w, FALSE, c, show))
  <2>1. Twins(w, w, k)
    BY <1>7, TwinSelf
  <2>2. Tells(CarryOut(w, TRUE, c, show), CarryOut(w, FALSE, c, show), w, w)
    BY <1>1, <1>7, <2>1, CarryOutTells, ZenonT(30)
  <2> QED BY <1>8, <2>2 DEF Tells
<1> HIDE DEF u, w, over, x, y
<1>11. CASE Uncounted(q, c)
  <2>1. Tells(r, q, r, q)
    BY SameTells DEF Twins
  <2> QED BY <1>4, <1>5, <1>11, <2>1 DEF x, y
<1>12. CASE ~Uncounted(q, c) /\ ~over
  <2>1. Tells(CarryOut(o.run, TRUE, c, show), CarryOut(p.run, FALSE, c, show), o.run, p.run)
    BY <1>1, <1>7, CarryOutTells, ZenonT(30)
  <2>2. x = CarryOut(o.run, TRUE, c, show) /\ y = CarryOut(p.run, FALSE, c, show)
    BY <1>4, <1>5, <1>12
  <2>3. Tells(x, y, o.run, p.run)
    BY <2>1, <2>2
  <2>4. Tells(x, y, r, q)
    BY <1>1, <1>3, <2>3, TellsBefore
  <2> QED BY <2>4 DEF x, y
<1>13. CASE ~Uncounted(q, c) /\ over /\ c.fn \in Silent
  <2>1. x = u /\ y = CarryOut(w, FALSE, c, show)
    BY <1>4, <1>5, <1>13
  <2>2. HasNoted(y)
    BY <2>1, <1>10
  <2>3. Tells(x, y, r, q)
    BY <1>3, <1>9, <2>1, <2>2, NotedTells
  <2> QED BY <2>3 DEF x, y
<1>14. CASE ~Uncounted(q, c) /\ over /\ c.fn \notin Silent
  <2>1. CASE Top(q).inTry
    <3>1. Tells(Throw(u, TRUE, show), Throw(w, FALSE, show), u, w)
      BY <1>1, <1>7, ThrowTells, ZenonT(30)
    <3>2. x = Throw(u, TRUE, show) /\ y = Throw(w, FALSE, show)
      BY <1>4, <1>5, <1>14, <2>1
    <3>3. Tells(x, y, u, w)
      BY <3>1, <3>2
    <3>4. Tells(x, y, r, q)
      BY <1>3, <1>6, <3>3, TellsBefore
    <3> QED BY <3>4 DEF x, y
  <2>2. CASE ~Top(q).inTry
    <3>1. y = CarryOut(w, FALSE, c, show)
      BY <1>5, <1>14, <2>2
    <3>2. HasNoted(y)
      BY <3>1, <1>10
    <3>3. Tells(x, y, r, q)
      BY <1>3, <2>2, <3>2, NotedTells
    <3> QED BY <3>3 DEF x, y
  <2> QED BY <2>1, <2>2
<1> QED BY <1>11, <1>12, <1>13, <1>14

(* What is printed: past YAGPDB's cap the strict run fails, and the output   *)
(* of the lenient one is itself the note, until the run ends.               *)
Wrote(r, n) == WithTop(r, [Top(r) EXCEPT !.output = n])

LEMMA WroteIs ==
  ASSUME NEW n, NEW q, IsRun(q, n), NEW size \in 0 .. LenientOutput
  PROVE  /\ IsRun(Wrote(q, size), n) /\ Len(Wrote(q, size).stack) = Len(q.stack) /\ Wrote(q, size).status = q.status
         /\ size > MaxOutput => NotedIn(Wrote(q, size))
         /\ (Over(q) => size > MaxOutput) /\ NotedIn(q) => NotedIn(Wrote(q, size))
<1> DEFINE b == Top(q)
           d == [b EXCEPT !.output = size]
<1>1. IsContext(b, n)
  BY Tops
<1> HIDE DEF b
<1>2. IsContext(d, n) /\ d.warned = b.warned /\ d.output = size
  BY <1>1 DEF IsContext, ContextFields
<1> HIDE DEF d
<1>3. LET y == WithTop(q, d)
      IN /\ IsRun(y, n) /\ Len(y.stack) = Len(q.stack) /\ y.status = q.status
         /\ d.output > MaxOutput => NotedIn(y)
         /\ (Over(q) => d.output > MaxOutput) /\ NotedIn(q) => NotedIn(y)
  BY <1>2, SetNotes DEF b
<1>4. Wrote(q, size) = WithTop(q, d)
  BY DEF Wrote, b, d
<1> QED BY <1>2, <1>3, <1>4

LEMMA WroteTwins ==
  ASSUME NEW n, NEW r, NEW q, Twins(r, q, n), NEW size \in 0 .. LenientOutput
  PROVE  Twins(Wrote(r, size), Wrote(q, size), n)
<1> DEFINE a == Top(r)
           b == Top(q)
           c == [a EXCEPT !.output = size]
           d == [b EXCEPT !.output = size]
<1>1. IsContext(a, n) /\ IsContext(b, n) /\ SameContext(a, b)
  BY TwinTops
<1> HIDE DEF a, b
<1>2. IsContext(c, n) /\ IsContext(d, n)
  BY <1>1 DEF IsContext, ContextFields
<1>3. SameContext(c, d)
  BY <1>1 DEF IsContext, ContextFields, SameContext
<1> HIDE DEF c, d
<1>4. Twins(WithTop(r, c), WithTop(q, d), n)
  BY <1>2, <1>3, TwinsSet
<1> QED BY <1>4 DEF Wrote, a, b, c, d

LEMMA PrintedTells ==
  ASSUME NEW n \in Nat, NEW r, NEW q, Twins(r, q, n), q.status = "running", NEW size \in Nat, NEW show
  PROVE  Tells(Printed(r, TRUE, size, show), Printed(q, FALSE, size, show), r, q)
<1> DEFINE was == Top(q).output
           m == was + size
           s == IF m > MaxOutput THEN MaxOutput ELSE m
           t == IF m > LenientOutput THEN LenientOutput ELSE m
           u == Wrote(r, s)
           w == Wrote(q, t)
           x == Printed(r, TRUE, size, show)
           y == Printed(q, FALSE, size, show)
<1>1. /\ was \in 0 .. LenientOutput /\ Top(r).output = was /\ Top(r).inTry = Top(q).inTry
      /\ Len(r.stack) = Len(q.stack) /\ Len(q.stack) \in Nat /\ IsRun(r, n) /\ IsRun(q, n)
      /\ MaxOutput \in Nat /\ LenientOutput \in Nat /\ MaxOutput <= LenientOutput
  BY TwinTops, Tops, EmulatedRunAssumption DEF Twins, IsContext
<1>2. x = IF m > MaxOutput THEN Finish(u, TRUE, TRUE, show) ELSE u
  <2>1. x = IF Top(r).output + size > MaxOutput
            THEN Finish(Wrote(r, IF Top(r).output + size > MaxOutput THEN MaxOutput ELSE Top(r).output + size), TRUE, TRUE, show)
            ELSE Wrote(r, IF Top(r).output + size > MaxOutput THEN MaxOutput ELSE Top(r).output + size)
    BY DEF Printed, Wrote
  <2>2. Top(r).output + size = m
    BY <1>1
  <2> HIDE DEF x, m
  <2> QED BY <2>1, <2>2
<1>3. y = IF m > LenientOutput THEN Finish(w, FALSE, TRUE, show) ELSE w
  BY DEF Printed, Wrote
<1>4. m \in Nat /\ was <= m
  BY <1>1
<1>5. s \in 0 .. LenientOutput /\ t \in 0 .. LenientOutput /\ (was > MaxOutput => t > MaxOutput)
  <2> HIDE DEF m, was
  <2> QED BY <1>1, <1>4
<1> HIDE DEF m, s, t
<1>6. /\ IsRun(w, n) /\ w.status = "running" /\ (t > MaxOutput => NotedIn(w)) /\ (NotedIn(q) => NotedIn(w))
      /\ IsRun(u, n) /\ Len(u.stack) = Len(r.stack)
  <2>1. IsRun(w, n) /\ w.status = q.status /\ (t > MaxOutput => NotedIn(w))
        /\ ((Over(q) => t > MaxOutput) /\ NotedIn(q) => NotedIn(w))
    BY <1>1, <1>5, WroteIs
  <2>2. IsRun(u, n) /\ Len(u.stack) = Len(r.stack)
    BY <1>1, <1>5, WroteIs
  <2> HIDE DEF u, w
  <2> QED BY <1>5, <2>1, <2>2 DEF Over
<1>7. NotedIn(w) => HasNoted(Finish(w, FALSE, TRUE, show))
  BY <1>6, FinishNotes, ZenonT(30)
<1>8. InTry(Finish(u, TRUE, TRUE, show), Len(r.stack))
  <2> HIDE DEF u
  <2> DEFINE z == Finish(u, TRUE, TRUE, show)
  <2>1. IF Len(u.stack) > 1 THEN Len(z.stack) = Len(u.stack) - 1 ELSE z.status # "running"
    <3>1. IsRun(u, n)
      BY <1>6
    <3> QED BY <3>1, FinishEnds
  <2> HIDE DEF z
  <2>2. InTry(z, Len(r.stack))
    BY <1>1, <1>6, <2>1 DEF InTry
  <2> QED BY <2>2 DEF z
<1>9. s = t => Twins(u, w, n)
  BY <1>5, WroteTwins
<1>10. Len(r.stack) = Len(u.stack)
  BY <1>6
<1> HIDE DEF x, y, u, w, was
<1>11. CASE ~(m > MaxOutput)
  <2>1. s = t /\ ~(m > LenientOutput)
    BY <1>1, <1>4, <1>11 DEF s, t
  <2>2. x = u /\ y = w
    BY <1>2, <1>3, <1>11, <2>1
  <2>3. Tells(x, y, r, q)
    BY <1>6, <1>9, <2>1, <2>2, SameTells DEF Twins
  <2> QED BY <2>3 DEF x, y
<1>12. CASE m > MaxOutput /\ MaxOutput = LenientOutput
  <2>1. s = t /\ x = Finish(u, TRUE, TRUE, show) /\ y = Finish(w, FALSE, TRUE, show)
    BY <1>2, <1>3, <1>12 DEF s, t
  <2>2. Tells(Finish(u, TRUE, TRUE, show), Finish(w, FALSE, TRUE, show), u, w)
    BY <1>6, <1>9, <2>1, FinishTells, ZenonT(30)
  <2>3. Tells(x, y, u, w)
    BY <2>1, <2>2
  <2>4. InTry(x, Len(r.stack))
    BY <1>8, <2>1
  <2>5. Tells(x, y, r, q)
    BY <1>6, <2>3, <2>4 DEF Tells
  <2> QED BY <2>5 DEF x, y
<1>13. CASE m > MaxOutput /\ MaxOutput # LenientOutput
  <2>1. t > MaxOutput
    BY <1>1, <1>4, <1>13 DEF t
  <2>2. NotedIn(w)
    BY <1>6, <2>1
  <2>3. HasNoted(w)
    BY <1>6, <2>2 DEF HasNoted
  <2>4. HasNoted(y)
    BY <1>3, <1>7, <2>2, <2>3
  <2>5. x = Finish(u, TRUE, TRUE, show)
    BY <1>2, <1>13
  <2>6. InTry(x, Len(r.stack))
    BY <1>8, <2>5
  <2>7. Tells(x, y, r, q)
    BY <2>4, <2>6, NotedTells
  <2> QED BY <2>7 DEF x, y
<1> QED BY <1>11, <1>12, <1>13

LEMMA RanLongTells ==
  ASSUME NEW n \in Nat, NEW r, NEW q, Twins(r, q, n), q.status = "running", NEW far, NEW show
  PROVE  Tells(RanLong(r, TRUE, far, show), RanLong(q, FALSE, far, show), r, q)
<1> DEFINE w == Warn(q, "limit")
           x == RanLong(r, TRUE, far, show)
           y == RanLong(q, FALSE, far, show)
<1>1. x = Finish(r, TRUE, TRUE, show)
  BY DEF RanLong
<1>2. y = IF far THEN Finish(w, FALSE, TRUE, show) ELSE w
  BY DEF RanLong
<1>3. IsRun(w, n) /\ w.status = "running" /\ TopNoted(w)
  <2>1. IsRun(q, n) /\ Stays(w, q, n) /\ TopNoted(w)
    BY MovedWarn, AloneStays DEF Twins, TopNoted
  <2> HIDE DEF w
  <2> QED BY <2>1, StaysNoted DEF Stays
<1> HIDE DEF w
<1>4. NotedIn(w) /\ HasNoted(w)
  BY <1>3, NotedTop
<1>5. HasNoted(Finish(w, FALSE, TRUE, show))
  BY <1>3, <1>4, FinishNotes, ZenonT(30)
<1>6. HasNoted(y)
  BY <1>2, <1>4, <1>5
<1>7. InTry(x, Len(r.stack))
  <2>1. IsRun(r, n) /\ Len(r.stack) \in Nat
    BY Tops DEF Twins
  <2>2. IF Len(r.stack) > 1 THEN Len(x.stack) = Len(r.stack) - 1 ELSE x.status # "running"
    BY <1>1, <2>1, FinishEnds
  <2> HIDE DEF x
  <2> QED BY <2>1, <2>2 DEF InTry
<1> HIDE DEF x, y
<1>8. Tells(x, y, r, q)
  BY <1>6, <1>7, NotedTells
<1> QED BY <1>8 DEF x, y

-----------------------------------------------------------------------------
(* The invariant of the two runs: one that is followed is under way; and    *)
(* the lenient one has noted a limit, or the two are the same so far and    *)
(* followed together, until both are over.                                  *)
Watching == \A s \in followed : runs[s].status = "running"
PairInv ==
  /\ Watching
  /\ HasNoted(Lenient) \/ (Same(Strict, Lenient) /\ followed \in {{}, BOOLEAN})

(* A step of the program, to the runs of next.                              *)
GoesOn(next) ==
  /\ Advance(next) /\ followed # {}
  /\ FALSE \notin followed => next[FALSE] = Lenient
  /\ FALSE \in followed /\ NotedIn(Lenient) => HasNoted(next[FALSE])
  /\ followed = BOOLEAN /\ Same(Strict, Lenient) => Tells(next[TRUE], next[FALSE], Strict, Lenient)

LEMMA BothAreRuns ==
  ASSUME RunsInv
  PROVE  calls \in Nat /\ IsRun(Strict, calls) /\ IsRun(Lenient, calls) /\ followed \subseteq BOOLEAN
<1>1. calls \in Nat /\ followed \subseteq BOOLEAN
  BY EmulatedRunAssumption DEF RunsInv, MaxCalls
<1>2. \A s \in BOOLEAN : IsRun(runs[s], calls)
  BY DEF RunsInv, GoodUnder
<1> QED BY <1>1, <1>2 DEF Strict, Lenient

(* x and y are what a step makes of the runs, and z of the lenient one with *)
(* -strict: only that the notes stay is said of it.                         *)
LEMMA StepGoesOn ==
  ASSUME RunsInv, Watching, followed # {}, NEW next, Advance(next), NEW x, NEW y, NEW z,
         next[TRUE] = IF TRUE \in followed THEN x ELSE Strict,
         next[FALSE] = IF FALSE \in followed THEN y ELSE Lenient,
         Twins(Lenient, Lenient, calls) /\ Lenient.status = "running" => Tells(z, y, Lenient, Lenient),
         Twins(Strict, Lenient, calls) /\ Lenient.status = "running" => Tells(x, y, Strict, Lenient)
  PROVE  GoesOn(next)
<1>1. IsRun(Strict, calls) /\ IsRun(Lenient, calls) /\ Twins(Lenient, Lenient, calls)
  BY BothAreRuns, TwinSelf
<1>2. FALSE \in followed => Lenient.status = "running"
  BY DEF Watching, Lenient
<1>3. FALSE \in followed /\ NotedIn(Lenient) => HasNoted(next[FALSE])
  BY <1>1, <1>2 DEF Tells
<1>4. ASSUME followed = BOOLEAN, Same(Strict, Lenient) PROVE Tells(next[TRUE], next[FALSE], Strict, Lenient)
  <2>1. Twins(Strict, Lenient, calls) /\ Lenient.status = "running"
    BY <1>1, <1>2, <1>4 DEF Twins
  <2>2. next[TRUE] = x /\ next[FALSE] = y
    BY <1>4
  <2> QED BY <2>1, <2>2
<1> QED BY <1>3, <1>4 DEF GoesOn

LEMMA CallGoesOn ==
  ASSUME RunsInv, Watching, NEW fns, Call(fns)
  PROVE  \E next : GoesOn(next)
<1>1. PICK c \in Calls[calls + 1], show \in BOOLEAN :
        Advance([s \in BOOLEAN |-> IF s \in followed THEN WithLimits(runs[s], s, c, show) ELSE runs[s]])
  BY DEF Call
<1> DEFINE next == [s \in BOOLEAN |-> IF s \in followed THEN WithLimits(runs[s], s, c, show) ELSE runs[s]]
           x == WithLimits(Strict, TRUE, c, show)
           y == WithLimits(Lenient, FALSE, c, show)
           z == WithLimits(Lenient, TRUE, c, show)
<1>2. /\ next[TRUE] = IF TRUE \in followed THEN x ELSE Strict
      /\ next[FALSE] = IF FALSE \in followed THEN y ELSE Lenient
  BY DEF Strict, Lenient
<1>3. Twins(Lenient, Lenient, calls) /\ Lenient.status = "running" => Tells(z, y, Lenient, Lenient)
  BY BothAreRuns, WithLimitsTells, ZenonT(30)
<1>4. Twins(Strict, Lenient, calls) /\ Lenient.status = "running" => Tells(x, y, Strict, Lenient)
  BY BothAreRuns, WithLimitsTells, ZenonT(30)
<1>5. Advance(next) /\ followed # {}
  BY <1>1 DEF Call
<1> HIDE DEF next, x, y, z
<1>6. GoesOn(next)
  BY <1>2, <1>3, <1>4, <1>5, StepGoesOn
<1> QED BY <1>6

LEMMA PrintTextGoesOn ==
  ASSUME RunsInv, Watching, PrintText
  PROVE  \E next : GoesOn(next)
<1>1. PICK size \in 1 .. MaxOutput + 1, show \in BOOLEAN :
        Advance([s \in BOOLEAN |-> IF s \in followed THEN Printed(runs[s], s, size, show) ELSE runs[s]])
  BY DEF PrintText
<1> DEFINE next == [s \in BOOLEAN |-> IF s \in followed THEN Printed(runs[s], s, size, show) ELSE runs[s]]
           x == Printed(Strict, TRUE, size, show)
           y == Printed(Lenient, FALSE, size, show)
           z == Printed(Lenient, TRUE, size, show)
<1>2. /\ next[TRUE] = IF TRUE \in followed THEN x ELSE Strict
      /\ next[FALSE] = IF FALSE \in followed THEN y ELSE Lenient
  BY DEF Strict, Lenient
<1>a. calls \in Nat /\ size \in Nat
  BY BothAreRuns, EmulatedRunAssumption
<1>3. Twins(Lenient, Lenient, calls) /\ Lenient.status = "running" => Tells(z, y, Lenient, Lenient)
  BY <1>a, PrintedTells, ZenonT(30)
<1>4. Twins(Strict, Lenient, calls) /\ Lenient.status = "running" => Tells(x, y, Strict, Lenient)
  BY <1>a, PrintedTells, ZenonT(30)
<1>5. Advance(next) /\ followed # {}
  BY <1>1 DEF PrintText
<1> HIDE DEF next, x, y, z
<1>6. GoesOn(next)
  BY <1>2, <1>3, <1>4, <1>5, StepGoesOn
<1> QED BY <1>6

LEMMA RunsLongGoesOn ==
  ASSUME RunsInv, Watching, RunsLong
  PROVE  \E next : GoesOn(next)
<1>1. PICK far, show \in BOOLEAN :
        Advance([s \in BOOLEAN |-> IF s \in followed THEN RanLong(runs[s], s, far, show) ELSE runs[s]])
  BY DEF RunsLong
<1> DEFINE next == [s \in BOOLEAN |-> IF s \in followed THEN RanLong(runs[s], s, far, show) ELSE runs[s]]
           x == RanLong(Strict, TRUE, far, show)
           y == RanLong(Lenient, FALSE, far, show)
           z == RanLong(Lenient, TRUE, far, show)
<1>2. /\ next[TRUE] = IF TRUE \in followed THEN x ELSE Strict
      /\ next[FALSE] = IF FALSE \in followed THEN y ELSE Lenient
  BY DEF Strict, Lenient
<1>3. Twins(Lenient, Lenient, calls) /\ Lenient.status = "running" => Tells(z, y, Lenient, Lenient)
  BY BothAreRuns, RanLongTells, ZenonT(30)
<1>4. Twins(Strict, Lenient, calls) /\ Lenient.status = "running" => Tells(x, y, Strict, Lenient)
  BY BothAreRuns, RanLongTells, ZenonT(30)
<1>5. Advance(next) /\ followed # {}
  BY <1>1 DEF RunsLong
<1> HIDE DEF next, x, y, z
<1>6. GoesOn(next)
  BY <1>2, <1>3, <1>4, <1>5, StepGoesOn
<1> QED BY <1>6

LEMMA TryGoesOn ==
  ASSUME RunsInv, Watching, followed # {}, NEW in, SetTry(in)
  PROVE  \E next : GoesOn(next)
<1> DEFINE next == [s \in BOOLEAN |->
              IF s \in followed THEN WithTop(runs[s], [Top(runs[s]) EXCEPT !.inTry = in]) ELSE runs[s]]
           x == Tried(Strict, in)
           y == Tried(Lenient, in)
<1>2. /\ next[TRUE] = IF TRUE \in followed THEN x ELSE Strict
      /\ next[FALSE] = IF FALSE \in followed THEN y ELSE Lenient
  BY DEF Strict, Lenient, Tried
<1>3. Twins(Lenient, Lenient, calls) /\ Lenient.status = "running" => Tells(y, y, Lenient, Lenient)
  BY TryTells
<1>4. Twins(Strict, Lenient, calls) /\ Lenient.status = "running" => Tells(x, y, Strict, Lenient)
  BY TryTells
<1>5. Advance(next)
  BY DEF SetTry
<1> HIDE DEF next, x, y
<1>6. GoesOn(next)
  BY <1>2, <1>3, <1>4, <1>5, StepGoesOn
<1> QED BY <1>6

LEMMA EndGoesOn ==
  ASSUME RunsInv, Watching, End
  PROVE  \E next : GoesOn(next)
<1> DEFINE next == [s \in BOOLEAN |-> IF s \in followed THEN Finish(runs[s], s, FALSE, FALSE) ELSE runs[s]]
           x == Finish(Strict, TRUE, FALSE, FALSE)
           y == Finish(Lenient, FALSE, FALSE, FALSE)
           z == Finish(Lenient, TRUE, FALSE, FALSE)
<1>2. /\ next[TRUE] = IF TRUE \in followed THEN x ELSE Strict
      /\ next[FALSE] = IF FALSE \in followed THEN y ELSE Lenient
  BY DEF Strict, Lenient
<1>3. Twins(Lenient, Lenient, calls) /\ Lenient.status = "running" => Tells(z, y, Lenient, Lenient)
  BY BothAreRuns, FinishTells, ZenonT(30)
<1>4. Twins(Strict, Lenient, calls) /\ Lenient.status = "running" => Tells(x, y, Strict, Lenient)
  BY BothAreRuns, FinishTells, ZenonT(30)
<1>5. Advance(next) /\ followed # {}
  BY DEF End
<1> HIDE DEF next, x, y, z
<1>6. GoesOn(next)
  BY <1>2, <1>3, <1>4, <1>5, StepGoesOn
<1> QED BY <1>6

LEMMA ProgramGoesOn ==
  ASSUME RunsInv, Watching, Next
  PROVE  \E next : GoesOn(next)
<1>1. CASE Message \/ RoleCall \/ Reaction \/ PinCall \/ Thread \/ RunCC \/ Other
  BY <1>1, CallGoesOn DEF Message, RoleCall, Reaction, PinCall, Thread, RunCC, Other
<1>2. CASE PrintText
  BY <1>2, PrintTextGoesOn
<1>3. CASE RunsLong
  BY <1>3, RunsLongGoesOn
<1>4. CASE EnterTry
  BY <1>4, TryGoesOn DEF EnterTry
<1>5. CASE LeaveTry
  BY <1>5, TryGoesOn DEF LeaveTry
<1>6. CASE End
  BY <1>6, EndGoesOn
<1> QED BY <1>1, <1>2, <1>3, <1>4, <1>5, <1>6 DEF Next

(* Runs that are the same stand at the same place.                          *)
LEMMA SamePlace ==
  ASSUME NEW n, NEW x, NEW y, Twins(x, y, n)
  PROVE  Position(x) = Position(y)
BY TwinTops DEF Position

LEMMA PairInit == Init => PairInv
<1> SUFFICES ASSUME Init PROVE PairInv
  OBVIOUS
<1>1. PICK long, show \in BOOLEAN : runs = [strict \in BOOLEAN |-> Begin(NewRun, strict, long, show)]
  BY DEF Init
<1>2. followed = {s \in BOOLEAN : runs[s].status = "running"}
  BY DEF Init
<1>3. IsRun(NewRun, 0) /\ NewRun.status = "running"
  <2>1. NewRun.status = "running"
    BY DEF NewRun
  <2> QED BY <2>1, NewRunGood DEF Good
<1>4. HasNoted(Lenient) \/ (Same(Strict, Lenient) /\ followed \in {{}, BOOLEAN})
  <2>1. CASE long
    <3>1. Lenient = Warn(NewRun, "limit")
      BY <1>1, <2>1 DEF Lenient, Begin
    <3>2. TopNoted(Lenient) /\ IsRun(Lenient, 0)
      BY <1>3, <3>1, TwinSelf, MovedWarn, AloneStays DEF TopNoted, Stays
    <3> QED BY <3>2, NotedTop
  <2>2. CASE ~long
    <3>1. \A s \in BOOLEAN : runs[s] = NewRun
      BY <1>1, <2>2 DEF Begin
    <3>2. Same(NewRun, NewRun)
      BY <1>3, TwinSelf DEF Twins
    <3>3. followed = BOOLEAN
      BY <1>2, <1>3, <3>1
    <3> QED BY <3>1, <3>2, <3>3 DEF Strict, Lenient
  <2> QED BY <2>1, <2>2
<1> QED BY <1>2, <1>4 DEF PairInv, Watching

LEMMA PairStep == RunsInv /\ RunsInv' /\ PairInv /\ [Next]_vars => PairInv'
<1> SUFFICES ASSUME RunsInv, RunsInv', PairInv, [Next]_vars PROVE PairInv'
  OBVIOUS
<1>1. CASE Next
  <2>1. PICK next : GoesOn(next)
    BY <1>1, ProgramGoesOn DEF PairInv
  <2> DEFINE live == {s \in followed : next[s].status = "running"}
  <2>2. /\ runs' = next
        /\ IF live = BOOLEAN /\ Position(next[TRUE]) # Position(next[FALSE])
           THEN followed' \in {{TRUE}, {FALSE}} ELSE followed' = live
    BY <2>1 DEF GoesOn, Advance
  <2>3. Strict' = next[TRUE] /\ Lenient' = next[FALSE]
    BY <2>2 DEF Strict, Lenient
  <2>4. Watching'
    <3>1. followed' \subseteq live
      BY <2>2
    <3> QED BY <2>2, <3>1 DEF Watching
  <2>5. CASE HasNoted(Lenient)
    <3>1. HasNoted(next[FALSE])
      <4>1. CASE FALSE \in followed
        <5>1. Lenient.status = "running"
          BY <4>1 DEF PairInv, Watching, Lenient
        <5>2. NotedIn(Lenient)
          BY <2>5, <5>1 DEF HasNoted
        <5> QED BY <2>1, <4>1, <5>2 DEF GoesOn
      <4>2. CASE FALSE \notin followed
        BY <2>1, <2>5, <4>2 DEF GoesOn
      <4> QED BY <4>1, <4>2
    <3>2. HasNoted(Lenient')
      BY <2>3, <3>1
    <3> QED BY <2>4, <3>2 DEF PairInv, HasNoted, NotedIn, Top, Lenient
  <2>6. CASE ~HasNoted(Lenient)
    <3>1. Same(Strict, Lenient) /\ followed = BOOLEAN
      BY <2>1, <2>6 DEF PairInv, GoesOn
    <3>2. Same(next[TRUE], next[FALSE]) \/ HasNoted(next[FALSE])
      BY <2>1, <3>1 DEF GoesOn, Tells
    <3>3. CASE HasNoted(next[FALSE])
      BY <2>3, <2>4, <3>3 DEF PairInv, HasNoted, NotedIn, Top, Lenient
    <3>4. CASE Same(next[TRUE], next[FALSE])
      <4>1. IsRun(next[TRUE], calls') /\ IsRun(next[FALSE], calls')
        BY <2>2 DEF RunsInv, GoodUnder
      <4>2. Position(next[TRUE]) = Position(next[FALSE]) /\ next[TRUE].status = next[FALSE].status
        <5> DEFINE x == next[TRUE]
                   y == next[FALSE]
                   n == calls'
        <5>1. Twins(x, y, n)
          BY <3>4, <4>1 DEF Twins
        <5> HIDE DEF x, y, n
        <5>2. Position(x) = Position(y) /\ x.status = y.status
          BY <5>1, SamePlace, TwinTops
        <5> QED BY <5>2 DEF x, y
      <4>3. live \in {{}, BOOLEAN}
        BY <3>1, <4>2
      <4>4. followed' \in {{}, BOOLEAN}
        BY <2>2, <4>2, <4>3
      <4> QED BY <2>3, <2>4, <3>4, <4>4 DEF PairInv, Same, Strict, Lenient
    <3> QED BY <3>2, <3>3, <3>4
  <2> QED BY <2>5, <2>6
<1>2. CASE UNCHANGED vars
  <2>1. runs' = runs /\ followed' = followed
    BY <1>2 DEF vars
  <2> QED BY <2>1 DEF PairInv, Watching, Same, HasNoted, NotedIn, Top, Strict, Lenient
<1> QED BY <1>1, <1>2

(* Of every program, run in both modes.                                     *)
THEOREM PairsAgree == Spec => [](RunsInv /\ PairInv)
<1>1. Init => RunsInv /\ PairInv
  BY RunsInvInit, PairInit
<1>2. RunsInv /\ PairInv /\ [Next]_vars => (RunsInv /\ PairInv)'
  BY RunsInvStep, PairStep
<1> QED BY <1>1, <1>2, PTL DEF Spec

(* The same but for the notes is what Alike says.                           *)
Bare(c) == [c EXCEPT !.warned = {}]

LEMMA BareIs ==
  ASSUME NEW n, NEW c, IsContext(c, n)
  PROVE  /\ Bare(c) = [f \in ContextFields |-> Bare(c)[f]] /\ Bare(c).warned = {}
         /\ \A f \in ContextFields \ {"warned"} : Bare(c)[f] = c[f]
BY DEF IsContext, ContextFields, Bare

LEMMA UnnotedIs ==
  ASSUME NEW n, NEW r, IsRun(r, n)
  PROVE  /\ Unnoted(r) = [f \in RunFields |-> Unnoted(r)[f]]
         /\ Unnoted(r).stack = [i \in 1 .. Len(r.stack) |-> Bare(r.stack[i])]
         /\ \A f \in RunFields \ {"stack"} : Unnoted(r)[f] = r[f]
<1> DEFINE s == [i \in 1 .. Len(r.stack) |-> Bare(r.stack[i])]
           u == Unnoted(r)
<1>1. u = [r EXCEPT !.stack = s]
  BY Tops DEF Unnoted, Bare
<1>2. r = [f \in RunFields |-> r[f]]
  BY DEF IsRun
<1> HIDE DEF s, u
<1>3. u = [f \in RunFields |-> u[f]] /\ u.stack = s /\ \A f \in RunFields \ {"stack"} : u[f] = r[f]
  BY <1>1, <1>2 DEF RunFields
<1> QED BY <1>3 DEF s, u

LEMMA AlikeIsSame ==
  ASSUME RunsInv
  PROVE  Alike <=> Same(Strict, Lenient)
<1> DEFINE u == Unnoted(Strict)
           w == Unnoted(Lenient)
           k == Len(Strict.stack)
           l == Len(Lenient.stack)
<1>1. IsRun(Strict, calls) /\ IsRun(Lenient, calls) /\ k \in Nat /\ l \in Nat
  BY BothAreRuns, Tops
<1>2. /\ u = [f \in RunFields |-> u[f]] /\ w = [f \in RunFields |-> w[f]]
      /\ u.stack = [i \in 1 .. k |-> Bare(Strict.stack[i])] /\ w.stack = [i \in 1 .. l |-> Bare(Lenient.stack[i])]
      /\ \A f \in RunFields \ {"stack"} : u[f] = Strict[f] /\ w[f] = Lenient[f]
  BY <1>1, UnnotedIs
<1>3. Alike <=> u = w
  BY DEF Alike
<1> HIDE DEF u, w
<1>4. ASSUME u = w PROVE Same(Strict, Lenient)
  <2>1. k = l
    <3>1. 1 .. k = 1 .. l
      BY <1>2, <1>4
    <3> HIDE DEF k, l
    <3> QED BY <1>1, <3>1
  <2>2. ASSUME NEW i \in 1 .. l PROVE SameContext(Strict.stack[i], Lenient.stack[i])
    <3> DEFINE a == Strict.stack[i]
               b == Lenient.stack[i]
    <3>1. Bare(a) = Bare(b)
      BY <1>2, <1>4, <2>1
    <3>2. IsContext(a, calls) /\ IsContext(b, calls)
      BY <1>1, <2>1 DEF IsRun
    <3> HIDE DEF a, b
    <3>3. SameContext(a, b)
      BY <3>1, <3>2, BareIs DEF SameContext
    <3> QED BY <3>3 DEF a, b
  <2>3. \A f \in RunFields \ {"stack"} : Strict[f] = Lenient[f]
    BY <1>2, <1>4
  <2> QED BY <2>1, <2>2, <2>3 DEF Same
<1>5. ASSUME Same(Strict, Lenient) PROVE u = w
  <2>1. k = l
    BY <1>5 DEF Same
  <2>2. ASSUME NEW i \in 1 .. l PROVE Bare(Strict.stack[i]) = Bare(Lenient.stack[i])
    <3> DEFINE a == Strict.stack[i]
               b == Lenient.stack[i]
    <3>1. IsContext(a, calls) /\ IsContext(b, calls) /\ SameContext(a, b)
      BY <1>1, <1>5, <2>1 DEF IsRun, Same
    <3> HIDE DEF a, b
    <3>2. /\ Bare(a) = [f \in ContextFields |-> Bare(a)[f]] /\ Bare(a).warned = {}
          /\ \A f \in ContextFields \ {"warned"} : Bare(a)[f] = a[f]
      BY <3>1, BareIs
    <3>3. /\ Bare(b) = [f \in ContextFields |-> Bare(b)[f]] /\ Bare(b).warned = {}
          /\ \A f \in ContextFields \ {"warned"} : Bare(b)[f] = b[f]
      BY <3>1, BareIs
    <3>4. \A f \in ContextFields : Bare(a)[f] = Bare(b)[f]
      BY <3>1, <3>2, <3>3 DEF SameContext
    <3>5. Bare(a) = Bare(b)
      BY <3>2, <3>3, <3>4
    <3> QED BY <3>5 DEF a, b
  <2>3. u.stack = w.stack
    <3> HIDE DEF k, l
    <3> QED BY <1>2, <2>1, <2>2
  <2>4. \A f \in RunFields : u[f] = w[f]
    BY <1>2, <1>5, <2>3 DEF Same
  <2> QED BY <1>2, <2>4
<1> QED BY <1>3, <1>4, <1>5

(* A lenient run that is over and did anything YAGPDB would not have done,  *)
(* or not so, has a limit among the notes of its report, whichever child of *)
(* it went on.                                                              *)
THEOREM WarnsOfDifferences == Spec => []WarnsWhereItDiffers
<1>1. ASSUME RunsInv, PairInv PROVE WarnsWhereItDiffers
  BY <1>1, AlikeIsSame DEF PairInv, WarnsWhereItDiffers, HasNoted
<1> QED BY PairsAgree, <1>1, PTL

(* Of two runs alike so far, the lenient one catches what the strict one    *)
(* does, as long as their command goes on.                                  *)
THEOREM CatchIsCaught == Spec => CatchesAlike
<1>1. ASSUME RunsInv, RunsInv', PairInv, [Next]_vars
      PROVE  [LET n == Len(Strict.stack)
              IN (/\ followed = BOOLEAN /\ Alike /\ Top(Strict).inTry
                  /\ Strict'.status = "running" /\ Len(Strict'.stack) >= n /\ ~Strict'.stack[n].inTry)
                 => ~Lenient'.stack[n].inTry]_vars
  <2> DEFINE n == Len(Strict.stack)
             x == Strict'
             y == Lenient'
  <2>1. CASE Next
    <3> SUFFICES ASSUME followed = BOOLEAN, Alike, Top(Strict).inTry,
                        x.status = "running", Len(x.stack) >= n, ~x.stack[n].inTry
                 PROVE  ~y.stack[n].inTry
      OBVIOUS
    <3>1. PICK next : GoesOn(next)
      BY <1>1, <2>1, ProgramGoesOn DEF PairInv
    <3>2. x = next[TRUE] /\ y = next[FALSE]
      BY <3>1 DEF GoesOn, Advance, Strict, Lenient
    <3>3. Same(Strict, Lenient)
      BY <1>1, AlikeIsSame
    <3>4. n \in Nat \ {0}
      BY <1>1, BothAreRuns, Tops
    <3>5. Len(x.stack) \in Nat
      <4>1. IsRun(x, calls')
        BY <1>1 DEF RunsInv, GoodUnder, Strict
      <4> HIDE DEF x
      <4> QED BY <4>1, Tops
    <3> HIDE DEF x, y, n
    <3>6. Tells(x, y, Strict, Lenient)
      BY <3>1, <3>2, <3>3 DEF GoesOn
    <3>7. ~InTry(x, n)
      BY <3>4, <3>5 DEF InTry
    <3>8. Same(x, y)
      BY <3>6, <3>7 DEF Tells, n
    <3>9. n \in 1 .. Len(y.stack)
      BY <3>4, <3>5, <3>8 DEF Same
    <3> QED BY <3>8, <3>9 DEF Same, SameContext, ContextFields
  <2>2. CASE UNCHANGED vars
    BY <2>2
  <2> QED BY <1>1, <2>1, <2>2
<1> QED BY PairsAgree, <1>1, PTL DEF CatchesAlike, Spec
=============================================================================
