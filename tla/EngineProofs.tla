---------------------------- MODULE EngineProofs ----------------------------
(***************************************************************************)
(* Proofs about two parts of the emulator's engine, which share nothing    *)
(* but the lemmas on top.                                                  *)
(*                                                                         *)
(* Interaction, for any nesting of execCC and any number of answers: type  *)
(* correctness, one response at most, the records in order, and the        *)
(* refinement of InteractionProtocol, what Discord takes.                  *)
(*                                                                         *)
(* TemplateLexer, for sources of any length: every scan moves on or ends,  *)
(* nothing is lost but what is marked for it, and lines are counted right. *)
(* TemplateEngine's steps are NextItem or leave the lexer alone, so that   *)
(* this holds of its sources.                                              *)
EXTENDS Interaction, TemplateLexer, SequenceTheorems, FiniteSetTheorems, WellFoundedInduction, TLAPS

-----------------------------------------------------------------------------
(* What FlattenSeq makes of lists s[1 .. n].                               *)

(* Induction on 1 .. n, for a set: the theorems of NaturalsInduction are     *)
(* about an operator, and so out of the provers' reach.                     *)
LEMMA Least ==
  ASSUME NEW T \in SUBSET Nat, T # {}
  PROVE  \E x \in T : \A y \in T : x <= y
<1> DEFINE R == OpToRel(<, Nat)
<1>1. IsWellFoundedOn(R, Nat)
  BY NatLessThanWellFounded
<1>2. \E x \in T : \A y \in T : ~ (<<y, x>> \in R)
  <2> HIDE DEF R
  <2> QED BY <1>1, WFMin
<1>3. \A x, y \in Nat : <<y, x>> \in R <=> y < x
  BY DEF OpToRel
<1>4. PICK x \in T : \A y \in T : ~ (<<y, x>> \in R)
  BY <1>2
<1>5. ASSUME NEW y \in T PROVE x <= y
  <2> HIDE DEF R
  <2>1. x \in Nat /\ y \in Nat
    OBVIOUS
  <2>2. ~ (y < x)
    BY <2>1, <1>3, <1>4
  <2> QED BY <2>1, <2>2
<1> QED
  BY <1>4, <1>5

LEMMA UpTo ==
  ASSUME NEW n \in Nat, NEW S, 1 \in S, \A k \in 1 .. n - 1 : k \in S => k + 1 \in S
  PROVE  1 .. n \subseteq S
<1> DEFINE T == (1 .. n) \ S
<1> SUFFICES ASSUME T # {} PROVE FALSE
  OBVIOUS
<1>1. PICK x \in T : \A y \in T : x <= y
  <2>1. T \in SUBSET Nat
    OBVIOUS
  <2> HIDE DEF T
  <2> QED BY <2>1, Least
<1>2. x # 1 /\ x - 1 \in 1 .. n - 1 /\ x - 1 \notin T
  BY <1>1
<1> QED BY <1>2

(* f[k] is the concatenation of the first k of the sequences s[1 .. n].   *)
Flattens(f, s, n, A) ==
  /\ f \in [1 .. n -> Seq(A)]
  /\ f[1] = s[1]
  /\ \A i \in 2 .. n : f[i] = f[i-1] \o s[i]

(* FlattenSeq is a recursive function: it has a value, and this is it.      *)
LEMMA FlattenIs ==
  ASSUME NEW n \in Nat \ {0}, NEW A, NEW s \in [1 .. n -> Seq(A)]
  PROVE  \E f : Flattens(f, s, n, A) /\ FlattenSeq(s) = f[n]
<1> DEFINE Def(f, i) == IF i = 1 THEN s[i] ELSE f[i-1] \o s[i]
           Is(k) == \E f : f = [i \in 1 .. k |-> Def(f, i)]
<1>1. Is(1)
  <2> DEFINE f == [i \in 1 .. 1 |-> s[i]]
  <2>1. f = [i \in 1 .. 1 |-> Def(f, i)]
    OBVIOUS
  <2> QED BY <2>1
<1>2. ASSUME NEW k \in 1 .. n - 1, Is(k) PROVE Is(k + 1)
  <2>1. PICK f : f = [i \in 1 .. k |-> Def(f, i)]
    BY <1>2
  <2> DEFINE g == [i \in 1 .. k + 1 |-> Def(f, i)]
  <2>2. ASSUME NEW i \in 1 .. k + 1 PROVE Def(f, i) = Def(g, i)
    <3>1. CASE i = 1
      BY <3>1
    <3>2. CASE i # 1
      <4>1. i - 1 \in 1 .. k /\ i - 1 \in 1 .. k + 1
        BY <3>2
      <4>2. g[i-1] = Def(f, i - 1)
        BY <4>1
      <4>3. f[i-1] = Def(f, i - 1)
        <5> HIDE DEF Def
        <5> QED BY <4>1, <2>1
      <4>4. f[i-1] = g[i-1]
        BY <4>2, <4>3
      <4> HIDE DEF g
      <4> QED BY <4>4, <3>2
    <3> QED BY <3>1, <3>2
  <2>3. g = [i \in 1 .. k + 1 |-> Def(g, i)]
    <3> HIDE DEF Def
    <3> QED BY <2>2
  <2> HIDE DEF g
  <2> QED BY <2>3
<1>3. Is(n)
  <2> DEFINE S == {k \in 1 .. n : Is(k)}
  <2> HIDE DEF Is
  <2>1. 1 \in S /\ \A k \in 1 .. n - 1 : k \in S => k + 1 \in S
    BY <1>1, <1>2
  <2>2. 1 .. n \subseteq S
    <3> HIDE DEF S
    <3> QED BY <2>1, UpTo
  <2> QED BY <2>2
<1> DEFINE f == CHOOSE f : f = [i \in 1 .. n |-> Def(f, i)]
<1>4. f = [i \in 1 .. n |-> Def(f, i)]
  BY <1>3
<1>5. Len(s) = n
  OBVIOUS
<1>6. FlattenSeq(s) = f[n]
  BY <1>5 DEF FlattenSeq
<1> HIDE DEF f
<1>7. f[1] = s[1] /\ \A i \in 2 .. n : f[i] = f[i-1] \o s[i]
  <2>1. \A i \in 1 .. n : f[i] = Def(f, i)
    <3> HIDE DEF Def
    <3> QED BY <1>4
  <2>2. ASSUME NEW i \in 2 .. n PROVE f[i] = f[i-1] \o s[i]
    <3>1. i \in 1 .. n /\ i # 1
      OBVIOUS
    <3> QED BY <2>1, <3>1
  <2>3. 1 \in 1 .. n
    OBVIOUS
  <2> QED BY <2>1, <2>2, <2>3
<1>8. f \in [1 .. n -> Seq(A)]
  <2> DEFINE S == {i \in 1 .. n : f[i] \in Seq(A)}
  <2>1. 1 \in S
    BY <1>7
  <2>2. ASSUME NEW k \in 1 .. n - 1, k \in S PROVE k + 1 \in S
    <3>1. k + 1 \in 2 .. n /\ k + 1 \in 1 .. n /\ k \in 1 .. n /\ (k + 1) - 1 = k
      OBVIOUS
    <3>2. f[k + 1] = f[k] \o s[k + 1]
      BY <1>7, <3>1
    <3>3. f[k] \in Seq(A) /\ s[k + 1] \in Seq(A)
      BY <2>2, <3>1
    <3>4. f[k] \o s[k + 1] \in Seq(A)
      BY <3>3, ConcatProperties
    <3>5. f[k + 1] \in Seq(A)
      BY <3>2, <3>4
    <3> QED BY <3>1, <3>5
  <2>3. 1 .. n \subseteq S
    <3> HIDE DEF S
    <3> QED BY <2>1, <2>2, UpTo
  <2> QED BY <2>3, <1>4
<1> QED
  BY <1>6, <1>7, <1>8 DEF Flattens

(* s and t are the same below k; nothing is in s above k; what f and g have *)
(* of s and t up to k begins alike.                                         *)
SameBelow(s, t, k) == \A i \in 1 .. k - 1 : s[i] = t[i]
EmptyAbove(s, k, n) == \A i \in k + 1 .. n : s[i] = <<>>
OnePrefix(f, g, s, t, k, A) == \E p \in Seq(A) : f[k] = p \o s[k] /\ g[k] = p \o t[k]

LEMMA EmptyFrom ==
  ASSUME NEW n \in Nat \ {0}, NEW A, NEW s, NEW f, Flattens(f, s, n, A),
         NEW k \in 1 .. n, EmptyAbove(s, k, n)
  PROVE  f[n] = f[k]
<1> USE DEF EmptyAbove
<1> DEFINE S == {i \in 1 .. n : i >= k => f[i] = f[k]}
<1>1. 1 \in S
  OBVIOUS
<1>2. ASSUME NEW i \in 1 .. n - 1, i \in S PROVE i + 1 \in S
  <2>1. CASE i + 1 <= k
    BY <2>1
  <2>2. CASE i >= k
    <3>1. i + 1 \in k + 1 .. n /\ i + 1 \in 2 .. n /\ (i + 1) - 1 = i /\ i \in 1 .. n
      BY <2>2
    <3>2. f[i + 1] = f[i] \o <<>> /\ f[i] \in Seq(A)
      BY <3>1 DEF Flattens
    <3>3. f[i] \o <<>> = f[i]
      BY <3>2, ConcatEmptySeq
    <3>4. f[i] = f[k]
      BY <1>2, <2>2
    <3> QED BY <3>1, <3>2, <3>3, <3>4
  <2> QED BY <2>1, <2>2
<1>3. 1 .. n \subseteq S
  <2> HIDE DEF S
  <2> QED BY <1>1, <1>2, UpTo
<1>4. n \in S
  <2> HIDE DEF S
  <2> QED BY <1>3
<1> QED BY <1>4

LEMMA SameUntil ==
  ASSUME NEW n \in Nat \ {0}, NEW A, NEW s, NEW t, NEW f, NEW g,
         Flattens(f, s, n, A), Flattens(g, t, n, A),
         NEW k \in 1 .. n, SameBelow(s, t, k)
  PROVE  OnePrefix(f, g, s, t, k, A)
<1> USE DEF SameBelow, OnePrefix
<1> DEFINE S == {i \in 1 .. n : i < k => f[i] = g[i]}
<1>1. 1 \in S
  BY DEF Flattens
<1>2. ASSUME NEW i \in 1 .. n - 1, i \in S PROVE i + 1 \in S
  <2>1. CASE i + 1 < k
    <3>1. i + 1 \in 1 .. k - 1 /\ i + 1 \in 2 .. n /\ (i + 1) - 1 = i /\ f[i] = g[i]
      BY <1>2, <2>1
    <3>2. f[i + 1] = f[i] \o s[i + 1] /\ g[i + 1] = g[i] \o t[i + 1]
      BY <3>1 DEF Flattens
    <3>3. s[i + 1] = t[i + 1] /\ i + 1 \in 1 .. n
      BY <3>1
    <3>4. f[i + 1] = g[i + 1]
      BY <3>1, <3>2, <3>3
    <3> QED BY <3>3, <3>4
  <2>2. CASE ~(i + 1 < k)
    BY <2>2
  <2> QED BY <2>1, <2>2
<1>3. 1 .. n \subseteq S
  <2> HIDE DEF S
  <2> QED BY <1>1, <1>2, UpTo
<1>4. CASE k = 1
  <2>1. <<>> \in Seq(A) /\ s[1] \in Seq(A) /\ t[1] \in Seq(A) /\ f[1] = s[1] /\ g[1] = t[1]
    <3>1. 1 \in 1 .. n
      OBVIOUS
    <3> QED BY <3>1, EmptySeq DEF Flattens
  <2>2. <<>> \o s[1] = s[1] /\ <<>> \o t[1] = t[1]
    BY <2>1, ConcatEmptySeq
  <2> QED BY <1>4, <2>1, <2>2
<1>5. CASE k # 1
  <2>1. k \in 2 .. n /\ k - 1 \in 1 .. n /\ k - 1 < k
    BY <1>5
  <2>2. f[k-1] = g[k-1]
    BY <2>1, <1>3
  <2>3. f[k-1] \in Seq(A) /\ f[k] = f[k-1] \o s[k] /\ g[k] = g[k-1] \o t[k]
    BY <2>1 DEF Flattens
  <2> QED BY <2>2, <2>3
<1> QED BY <1>4, <1>5

(* Of two lists of lists the concatenations differ in the last list, or in  *)
(* the last two, at most.                                                   *)
DifferAt(s, t, k, A) == \E p \in Seq(A) : FlattenSeq(s) = p \o s[k] /\ FlattenSeq(t) = p \o t[k]
DifferAtTwo(s, t, k, A) ==
  \E p \in Seq(A) : /\ FlattenSeq(s) = (p \o s[k]) \o s[k + 1]
                    /\ FlattenSeq(t) = (p \o t[k]) \o t[k + 1]

LEMMA FlattenAt ==
  ASSUME NEW n \in Nat \ {0}, NEW A, NEW s \in [1 .. n -> Seq(A)], NEW t \in [1 .. n -> Seq(A)],
         NEW k \in 1 .. n, SameBelow(s, t, k), EmptyAbove(s, k, n), EmptyAbove(t, k, n)
  PROVE  DifferAt(s, t, k, A)
<1>1. PICK f : Flattens(f, s, n, A) /\ FlattenSeq(s) = f[n]
  BY FlattenIs
<1>2. PICK g : Flattens(g, t, n, A) /\ FlattenSeq(t) = g[n]
  BY FlattenIs
<1>3. f[n] = f[k] /\ g[n] = g[k]
  BY <1>1, <1>2, EmptyFrom
<1>4. OnePrefix(f, g, s, t, k, A)
  BY <1>1, <1>2, SameUntil
<1> QED BY <1>1, <1>2, <1>3, <1>4 DEF OnePrefix, DifferAt

LEMMA FlattenAtTwo ==
  ASSUME NEW n \in Nat \ {0}, NEW A, NEW s \in [1 .. n -> Seq(A)], NEW t \in [1 .. n -> Seq(A)],
         NEW k \in 1 .. n - 1, SameBelow(s, t, k), EmptyAbove(s, k + 1, n), EmptyAbove(t, k + 1, n)
  PROVE  DifferAtTwo(s, t, k, A)
<1>1. PICK f : Flattens(f, s, n, A) /\ FlattenSeq(s) = f[n]
  BY FlattenIs
<1>2. PICK g : Flattens(g, t, n, A) /\ FlattenSeq(t) = g[n]
  BY FlattenIs
<1>3. k \in 1 .. n /\ k + 1 \in 1 .. n /\ k + 1 \in 2 .. n /\ (k + 1) - 1 = k
  OBVIOUS
<1>4. f[n] = f[k + 1] /\ g[n] = g[k + 1]
  BY <1>1, <1>2, <1>3, EmptyFrom
<1>5. f[k + 1] = f[k] \o s[k + 1] /\ g[k + 1] = g[k] \o t[k + 1]
  BY <1>1, <1>2, <1>3 DEF Flattens
<1>6. OnePrefix(f, g, s, t, k, A)
  BY <1>1, <1>2, <1>3, SameUntil
<1> QED BY <1>1, <1>2, <1>4, <1>5, <1>6 DEF OnePrefix, DifferAtTwo

-----------------------------------------------------------------------------
USE BoundsAssumption DEF BoundsAssumption, Levels

-----------------------------------------------------------------------------
(* What a run can be started with. *)
Startable == Clicked \cup Slash \cup ContextMenu \cup Submitted \cup Delayed

LEMMA StartableType ==
  ASSUME NEW i \in Startable
  PROVE  /\ i \in Interactions
         /\ i.mode # "none" => i.acked
<1>1. ASSUME NEW type \in {"component", "command", "modal"},
             NEW mode \in DeferModes, NEW message \in BOOLEAN,
             i = Started(type, mode, message)
      PROVE  i \in Interactions /\ (i.mode # "none" => i.acked)
  BY <1>1 DEF Started, Interactions
<1>2. CASE i \in Clicked \cup Slash \cup ContextMenu \cup Submitted
  <2>1. CASE i \in Clicked
    BY <2>1, <1>1 DEF Clicked
  <2>2. CASE i \in Slash \cup ContextMenu
    BY <2>2, <1>1 DEF Slash, ContextMenu
  <2>3. CASE i \in Submitted
    BY <2>3, <1>1 DEF Submitted
  <2> QED
    BY <1>2, <2>1, <2>2, <2>3
<1>3. CASE i \in Delayed
  <2>1. PICK acked \in BOOLEAN : i = [Started("command", "none", FALSE) EXCEPT !.acked = acked]
    BY <1>3 DEF Delayed
  <2>2. i = [type |-> "command", mode |-> "none", message |-> FALSE, acked |-> acked]
    BY <2>1 DEF Started
  <2> QED
    BY <2>2 DEF Interactions, DeferModes
<1> QED
  BY <1>2, <1>3 DEF Startable

(* Output is the empty sequence or one kind. *)
LEMMA OutputShort ==
  /\ Output = <<>> \/ \E k \in Kinds : Output = <<k>>
  /\ Output \in Seq(Kinds)
<1>1. Output = <<>> \/ \E k \in Kinds : Output = <<k>>
  BY DEF Output, Kinds, Responses
<1>2. <<>> \in Seq(Kinds) /\ \A k \in Kinds : <<k>> \in Seq(Kinds)
  BY EmptySeq
<1> QED
  BY <1>1, <1>2

LEMMA ConcatOne ==
  ASSUME NEW s \in Seq(Kinds), NEW k \in Kinds
  PROVE  s \o <<k>> = Append(s, k)
BY AppendIsConcat

-----------------------------------------------------------------------------
LEMMA TypeInit == Init => TypeOK
<1> SUFFICES ASSUME Init PROVE TypeOK
  OBVIOUS
<1>1. interaction \in Interactions
  BY StartableType DEF Init, Startable
<1>2. <<>> \in Seq(Kinds)
  BY EmptySeq
<1>3. respondedTo \in BOOLEAN
  BY <1>1 DEF Init, Interactions
<1> QED
  BY <1>1, <1>2, <1>3 DEF Init, TypeOK

LEMMA TypeNext == TypeOK /\ [Next]_vars => TypeOK'
<1> SUFFICES ASSUME TypeOK, [Next]_vars PROVE TypeOK'
  OBVIOUS
<1>a. ASSUME NEW k \in Kinds, Answer(k), level \in Levels
      PROVE  answers' \in Seq(Kinds) /\ record' \in [Levels -> Seq(Kinds)]
  <2>1. Append(answers, k) \in Seq(Kinds) /\ Append(record[level], k) \in Seq(Kinds)
    BY <1>a, AppendProperties DEF TypeOK
  <2> QED
    BY <1>a, <2>1 DEF Answer, TypeOK
<1>b. ASSUME CountResponse
      PROVE  level \in Levels /\ counted' \in [Levels -> Nat]
  BY <1>b DEF CountResponse, Running, TypeOK
<1>c. "message" \in Kinds /\ "update" \in Kinds /\ "modal" \in Kinds /\ "followup" \in Kinds
  BY DEF Kinds, Responses
<1>1. ASSUME NEW refused \in BOOLEAN, SendResponse(refused) PROVE TypeOK'
  <2>1. CASE ~respondedTo
    BY <2>1, <1>1, <1>a, <1>b, <1>c DEF SendResponse, TakesResponse, Respond, Refused, TypeOK
  <2>2. CASE respondedTo
    <3>1. level \in Levels
      BY <2>2, <1>1 DEF SendResponse, TakesResponse, Running, TypeOK
    <3> QED
      BY <2>2, <1>1, <1>a, <1>c, <3>1 DEF SendResponse, TakesResponse, TypeOK
  <2> QED
    BY <2>1, <2>2
<1>2. ASSUME NEW refused \in BOOLEAN, UpdateMessage(refused) PROVE TypeOK'
  BY <1>2, <1>a, <1>b, <1>c DEF UpdateMessage, Respond, Refused, TypeOK
<1>3. ASSUME NEW refused \in BOOLEAN, SendModal(refused) PROVE TypeOK'
  BY <1>3, <1>a, <1>b, <1>c DEF SendModal, Respond, Refused, TypeOK
<1>4. ASSUME ExecCC PROVE TypeOK'
  <2>1. <<>> \in Seq(Kinds)
    BY EmptySeq
  <2>2. level + 1 \in Levels
    BY <1>4 DEF ExecCC, Running, TypeOK
  <2>3. counted' \in [Levels -> Nat] /\ record' \in [Levels -> Seq(Kinds)]
    BY <1>4, <2>1, <2>2 DEF ExecCC, TypeOK
  <2> QED
    BY <1>4, <2>2, <2>3 DEF ExecCC, flags, TypeOK
<1>5. ASSUME NEW printed \in BOOLEAN, End(printed) PROVE TypeOK'
  <2> DEFINE out   == IF printed THEN Output ELSE <<>>
             given == record[level] \o out
  <2>1. out \in Seq(Kinds)
    BY OutputShort, EmptySeq
  <2>2. level \in Levels
    BY <1>5 DEF End, TypeOK
  <2>3. answers \o out \in Seq(Kinds) /\ given \in Seq(Kinds)
    BY <2>1, <2>2, ConcatProperties DEF TypeOK
  <2>4. level # 1 => record[level - 1] \o given \in Seq(Kinds)
    BY <2>2, <2>3, ConcatProperties DEF TypeOK
  <2>5. answers' \in Seq(Kinds)
    BY <1>5, <2>3 DEF End
  <2>6. record' \in [Levels -> Seq(Kinds)]
    <3>1. CASE level = 1
      <4>1. record' = [record EXCEPT ![1] = given]
        BY <1>5, <3>1 DEF End, Joined
      <4> HIDE DEF given
      <4> QED
        BY <4>1, <2>3 DEF TypeOK
    <3>2. CASE level # 1
      <4>1. record' = [record EXCEPT ![level] = <<>>, ![level - 1] = @ \o given]
        BY <1>5, <3>2 DEF End, Joined
      <4>2. record' = [record EXCEPT ![level] = <<>>, ![level - 1] = record[level - 1] \o given]
        <5> HIDE DEF given
        <5> QED BY <4>1, <2>2, <3>2 DEF TypeOK
      <4>3. <<>> \in Seq(Kinds)
        BY EmptySeq
      <4> HIDE DEF given
      <4> QED
        BY <4>2, <4>3, <2>2, <2>4, <3>2 DEF TypeOK
    <3> QED
      BY <3>1, <3>2
  <2>7. respondedTo' \in BOOLEAN /\ deferred' \in BOOLEAN /\ level' \in Levels \cup {0}
    BY <1>5, <2>2 DEF End, TypeOK, DeferralFailed
  <2>8. warned' \in {"none", "unanswered", "unfilled"}
    BY <1>5 DEF End, Warning, TypeOK
  <2> QED
    BY <1>5, <2>5, <2>6, <2>7, <2>8 DEF End, TypeOK
<1>6. CASE UNCHANGED vars
  BY <1>6 DEF vars, TypeOK
<1> QED
  BY <1>1, <1>2, <1>3, <1>4, <1>5, <1>6 DEF Next

(* The types of the state hold however runs nest and calls fail (engine.go *)
(* execCC, interactions.go).                                               *)
THEOREM TypeCorrect == Spec => []TypeOK
<1> QED
  BY TypeInit, TypeNext, PTL DEF Spec

-----------------------------------------------------------------------------
(* Before the interaction is acknowledged nothing has been answered. *)
OpenInv == ~respondedTo => answers = <<>> /\ ~interaction.acked /\ ~deferred

OneInv == OneResponse /\ OpenInv

LEMMA OneInit == Init => OneInv
<1> SUFFICES ASSUME Init PROVE OneInv
  OBVIOUS
<1>1. DOMAIN answers = {}
  BY EmptySeq, LenProperties DEF Init
<1>2. interaction.mode # "none" => interaction.acked
  BY StartableType DEF Init, Startable
<1> QED
  BY <1>1, <1>2 DEF Init, OneInv, OneResponse, OpenInv

(* An answer of the kind k, given while k is allowed. *)
LEMMA OneAppend ==
  ASSUME TypeOK, OneInv, NEW k \in Kinds,
         answers' = Append(answers, k), interaction' = interaction,
         respondedTo', k \in Responses => ~respondedTo
  PROVE  OneInv'
<1>1. answers \in Seq(Kinds)
  BY DEF TypeOK
<1>2. /\ Len(answers') = Len(answers) + 1
      /\ DOMAIN answers' = 1 .. Len(answers) + 1
      /\ \A i \in 1 .. Len(answers) : answers'[i] = answers[i]
      /\ answers'[Len(answers) + 1] = k
      /\ DOMAIN answers = 1 .. Len(answers)
  BY <1>1, AppendProperties, LenProperties
<1>3. ASSUME NEW i \in DOMAIN answers', answers'[i] \in Responses
      PROVE  i = 1 /\ ~interaction'.acked
  <2>1. CASE i \in DOMAIN answers
    BY <2>1, <1>2, <1>3 DEF OneInv, OneResponse
  <2>2. CASE i = Len(answers) + 1
    <3>1. ~respondedTo
      BY <2>2, <1>2, <1>3
    <3>2. answers = <<>> /\ ~interaction.acked
      BY <3>1 DEF OneInv, OpenInv
    <3> QED
      BY <3>2, <2>2
  <2> QED
    BY <1>2, <1>3, <2>1, <2>2, LenProperties, <1>1
<1> QED
  BY <1>3 DEF OneInv, OneResponse, OpenInv

LEMMA OneNext == TypeOK /\ OneInv /\ [Next]_vars => OneInv'
<1> SUFFICES ASSUME TypeOK, OneInv, [Next]_vars PROVE OneInv'
  OBVIOUS
<1>a. ASSUME Refused, UNCHANGED <<interaction, deferred>> PROVE OneInv'
  BY <1>a DEF Refused, OneInv, OneResponse, OpenInv
<1>b. ASSUME NEW k \in Responses, Respond(k), ~respondedTo, UNCHANGED interaction PROVE OneInv'
  BY <1>b, OneAppend DEF Respond, Answer, Kinds
<1>c. "message" \in Responses /\ "update" \in Responses /\ "modal" \in Responses
  BY DEF Responses
<1>1. ASSUME NEW refused \in BOOLEAN, SendResponse(refused) PROVE OneInv'
  <2>1. CASE ~respondedTo
    BY <2>1, <1>1, <1>a, <1>b, <1>c DEF SendResponse, TakesResponse
  <2>2. CASE respondedTo
    <3>1. "followup" \in Kinds /\ "followup" \notin Responses
      BY DEF Kinds, Responses
    <3> QED
      BY <2>2, <1>1, <3>1, OneAppend DEF SendResponse, TakesResponse, Answer
  <2> QED
    BY <2>1, <2>2
<1>2. ASSUME NEW refused \in BOOLEAN, UpdateMessage(refused) PROVE OneInv'
  BY <1>2, <1>a, <1>b, <1>c DEF UpdateMessage
<1>3. ASSUME NEW refused \in BOOLEAN, SendModal(refused) PROVE OneInv'
  BY <1>3, <1>a, <1>b, <1>c DEF SendModal
<1>4. ASSUME ExecCC PROVE OneInv'
  BY <1>4 DEF ExecCC, flags, OneInv, OneResponse, OpenInv
<1>5. ASSUME NEW printed \in BOOLEAN, End(printed) PROVE OneInv'
  <2>1. CASE printed /\ Output # <<>>
    <3>1. PICK k \in Kinds : Output = <<k>>
      BY <2>1, OutputShort
    <3>2. answers' = Append(answers, k)
      BY <1>5, <2>1, <3>1, ConcatOne DEF End, TypeOK
    <3>3. k \in Responses => ~respondedTo
      BY <3>1, <2>1 DEF Output, Responses
    <3> QED
      BY <1>5, <2>1, <3>2, <3>3, OneAppend DEF End
  <2>2. CASE ~(printed /\ Output # <<>>)
    <3>1. answers' = answers
      BY <1>5, <2>2, ConcatEmptySeq DEF End, TypeOK
    <3>2. ~respondedTo' => ~respondedTo
      BY <1>5 DEF End
    <3>3. ~deferred => ~deferred'
      BY <1>5 DEF End
    <3> QED
      BY <1>5, <3>1, <3>2, <3>3 DEF End, OneInv, OneResponse, OpenInv
  <2> QED
    BY <2>1, <2>2
<1>6. CASE UNCHANGED vars
  BY <1>6 DEF vars, OneInv, OneResponse, OpenInv
<1> QED
  BY <1>1, <1>2, <1>3, <1>4, <1>5, <1>6 DEF Next

(* An interaction gets one response at most, before anything else, and     *)
(* none when a deferral or an earlier run has taken it (interactions.go:   *)
(* "an interaction takes one response; the rest are followups").           *)
THEOREM RespondsOnce == Spec => []OneResponse
<1>1. OneInv => OneResponse
  BY DEF OneInv
<1> QED
  BY TypeInit, TypeNext, OneInit, OneNext, <1>1, PTL DEF Spec

-----------------------------------------------------------------------------
(* The flags say whether something is shown, all the time. *)
ShownInv ==
  /\ Shown <=> respondedTo /\ (deferred => interaction.mode = "update")
  /\ interaction.mode # "none" => interaction.acked
  /\ level = 0 => warned = Warning(respondedTo, deferred)

LEMMA ShownInit == Init => ShownInv
<1> SUFFICES ASSUME Init PROVE ShownInv
  OBVIOUS
<1>1. DOMAIN answers = {}
  BY DEF Init
<1>2. interaction.mode # "none" => interaction.acked
  BY StartableType DEF Init, Startable
<1>3. interaction.acked \in BOOLEAN
  BY StartableType DEF Init, Startable, Interactions
<1>4. level # 0
  BY DEF Init
<1>5. ~\E i \in DOMAIN answers : answers[i] \in Responses \cup {"deferred_edit"}
  BY <1>1
<1>6. respondedTo = interaction.acked /\ deferred = (interaction.mode # "none")
  BY DEF Init
<1>7. Shown <=> respondedTo /\ (deferred => interaction.mode = "update")
  BY <1>2, <1>3, <1>5, <1>6 DEF Shown
<1> QED
  BY <1>2, <1>4, <1>7 DEF ShownInv

LEMMA ShownAppend ==
  ASSUME TypeOK, NEW k \in Kinds, answers' = Append(answers, k), interaction' = interaction
  PROVE  Shown' <=> Shown \/ k \in Responses \cup {"deferred_edit"}
<1>1. answers \in Seq(Kinds)
  BY DEF TypeOK
<1>2. /\ DOMAIN answers = 1 .. Len(answers)
      /\ DOMAIN answers' = 1 .. Len(answers) + 1
      /\ \A i \in 1 .. Len(answers) : answers'[i] = answers[i]
      /\ answers'[Len(answers) + 1] = k
      /\ Len(answers) \in Nat
  BY <1>1, AppendProperties, LenProperties
<1>3. (\E i \in DOMAIN answers' : answers'[i] \in Responses \cup {"deferred_edit"})
        <=> \/ \E i \in DOMAIN answers : answers[i] \in Responses \cup {"deferred_edit"}
            \/ k \in Responses \cup {"deferred_edit"}
  BY <1>2
<1> QED
  BY <1>3 DEF Shown

LEMMA ShownNext == TypeOK /\ OneInv /\ ShownInv /\ [Next]_vars => ShownInv'
<1> SUFFICES ASSUME TypeOK, OneInv, ShownInv, [Next]_vars PROVE ShownInv'
  OBVIOUS
<1>o. ~respondedTo => ~deferred
  BY DEF OneInv, OpenInv
<1>a. ASSUME UNCHANGED <<interaction, respondedTo, deferred, answers, warned>>,
             level' = 0 => level = 0
      PROVE  ShownInv'
  BY <1>a DEF ShownInv, Shown, Warning
<1>b. ASSUME NEW k \in Responses, Respond(k), ~respondedTo,
             UNCHANGED <<interaction, deferred, level, warned>>, level # 0
      PROVE  ShownInv'
  <2>1. Shown'
    BY <1>b, ShownAppend DEF Respond, Answer, Kinds
  <2> QED
    BY <1>b, <1>o, <2>1 DEF Respond, ShownInv
<1>c. "message" \in Responses /\ "update" \in Responses /\ "modal" \in Responses
  BY DEF Responses
<1>1. ASSUME NEW refused \in BOOLEAN, SendResponse(refused) PROVE ShownInv'
  <2>1. CASE ~respondedTo
    BY <2>1, <1>1, <1>a, <1>b, <1>c DEF SendResponse, TakesResponse, Refused, CountResponse, Running
  <2>2. CASE respondedTo
    <3>1. "followup" \in Kinds /\ "followup" \notin Responses \cup {"deferred_edit"}
      BY DEF Kinds, Responses
    <3>2. Shown' <=> Shown
      BY <2>2, <1>1, <3>1, ShownAppend DEF SendResponse, TakesResponse, Answer
    <3> QED
      BY <2>2, <1>1, <3>2 DEF SendResponse, TakesResponse, Running, ShownInv
  <2> QED
    BY <2>1, <2>2
<1>2. ASSUME NEW refused \in BOOLEAN, UpdateMessage(refused) PROVE ShownInv'
  BY <1>2, <1>a, <1>b, <1>c DEF UpdateMessage, Refused, CountResponse, Running
<1>3. ASSUME NEW refused \in BOOLEAN, SendModal(refused) PROVE ShownInv'
  BY <1>3, <1>a, <1>b, <1>c DEF SendModal, Refused, CountResponse, Running
<1>4. ASSUME ExecCC PROVE ShownInv'
  BY <1>4, <1>a DEF ExecCC, flags, Running, TypeOK
<1>5. ASSUME NEW printed \in BOOLEAN, End(printed) PROVE ShownInv'
  <2>1. level' = 0 => warned' = Warning(respondedTo, deferred)'
    <3>1. level' = 0 => level = 1
      BY <1>5 DEF End, TypeOK
    <3>2. interaction' = interaction
      BY <1>5 DEF End
    <3> QED
      BY <1>5, <3>1, <3>2 DEF End, Warning
  <2>2. CASE printed /\ Output # <<>>
    <3>1. PICK k \in Kinds : Output = <<k>>
      BY <2>2, OutputShort
    <3>2. answers' = Append(answers, k)
      BY <1>5, <2>2, <3>1, ConcatOne DEF End, TypeOK
    <3>3. Shown' <=> Shown \/ k \in Responses \cup {"deferred_edit"}
      BY <1>5, <3>2, ShownAppend DEF End
    <3>4. k = IF ~respondedTo THEN "message"
              ELSE IF deferred THEN "deferred_edit" ELSE "followup"
      BY <2>2, <3>1 DEF Output
    <3>5. ~DeferralFailed
      BY <2>2, <1>o DEF Output, DeferralFailed
    <3>6. respondedTo' /\ ~deferred' /\ interaction' = interaction
      BY <1>5, <2>2, <3>5 DEF End
    <3>7. Shown'
      BY <3>3, <3>4 DEF ShownInv, Responses
    <3> QED
      BY <2>1, <3>6, <3>7 DEF ShownInv
  <2>3. CASE ~(printed /\ Output # <<>>)
    <3>1. answers' = answers /\ interaction' = interaction
      BY <1>5, <2>3, ConcatEmptySeq DEF End, TypeOK
    <3>2. printed => respondedTo /\ DeferralFailed
      BY <2>3 DEF Output
    <3>3. respondedTo' = respondedTo /\ deferred' = deferred
      BY <1>5, <3>2 DEF End, TypeOK
    <3>4. Shown' <=> Shown
      BY <3>1 DEF Shown
    <3> QED
      BY <2>1, <3>1, <3>3, <3>4 DEF ShownInv
  <2> QED
    BY <2>2, <2>3
<1>6. CASE UNCHANGED vars
  BY <1>6, <1>a DEF vars
<1> QED
  BY <1>1, <1>2, <1>3, <1>4, <1>5, <1>6 DEF Next

(* An interaction's run ends with a warning exactly when nothing answers   *)
(* the member: no response, or a deferral that no output filled            *)
(* (interactions.go warnUnanswered).                                       *)
THEOREM WarnsExactly == Spec => []WarnsWhenNothingIsShown
<1>1. TypeOK /\ ShownInv => WarnsWhenNothingIsShown
  BY DEF TypeOK, ShownInv, WarnsWhenNothingIsShown, Warning
<1> QED
  BY TypeInit, TypeNext, OneInit, OneNext, ShownInit, ShownNext, <1>1, PTL DEF Spec

-----------------------------------------------------------------------------
USE DEF Discord!Phases, Discord!Responses

LEMMA DiscordInit == Init => Discord!Init
BY DEF Init, Discord!Init, Phase

(* A first response closes an interaction that was open.  *)
LEMMA DiscordRespond ==
  ASSUME OpenInv, NEW k \in Responses, ~respondedTo, respondedTo',
         answers' = Append(answers, k), ~deferred'
  PROVE  Discord!Next
<1>1. Phase = "open" /\ Phase' = "answered"
  BY DEF Phase, DeferralFailed
<1> QED
  BY <1>1 DEF Discord!Next, Discord!Respond, Responses

LEMMA DiscordStep == TypeOK /\ OneInv /\ [Next]_vars => [Discord!Next]_<<Phase, answers>>
<1> SUFFICES ASSUME TypeOK, OneInv, [Next]_vars
             PROVE  Discord!Next \/ (Phase' = Phase /\ answers' = answers)
  OBVIOUS
<1>a. OpenInv
  BY DEF OneInv
<1>b. ASSUME UNCHANGED <<interaction, respondedTo, deferred>> PROVE Phase' = Phase
  BY <1>b DEF Phase, DeferralFailed
<1>c. "message" \in Responses /\ "update" \in Responses /\ "modal" \in Responses
  BY DEF Responses
<1>d. ASSUME NEW k \in Responses, Respond(k), ~respondedTo, UNCHANGED deferred
      PROVE  Discord!Next
  <2>1. ~deferred'
    BY <1>a, <1>d DEF OpenInv
  <2> QED
    BY <1>a, <1>d, <2>1, DiscordRespond DEF Respond, Answer
<1>1. ASSUME NEW refused \in BOOLEAN, SendResponse(refused)
      PROVE  Discord!Next \/ (Phase' = Phase /\ answers' = answers)
  <2>1. CASE ~respondedTo
    BY <2>1, <1>1, <1>b, <1>c, <1>d DEF SendResponse, TakesResponse, Refused
  <2>2. CASE respondedTo
    <3>1. Phase # "open" /\ Phase' = Phase
      BY <2>2, <1>1, <1>b DEF SendResponse, TakesResponse, Phase
    <3> QED
      BY <2>2, <1>1, <3>1 DEF SendResponse, TakesResponse, Answer, Discord!Next, Discord!Followup
  <2> QED
    BY <2>1, <2>2
<1>2. ASSUME NEW refused \in BOOLEAN, UpdateMessage(refused)
      PROVE  Discord!Next \/ (Phase' = Phase /\ answers' = answers)
  BY <1>2, <1>b, <1>c, <1>d DEF UpdateMessage, Refused
<1>3. ASSUME NEW refused \in BOOLEAN, SendModal(refused)
      PROVE  Discord!Next \/ (Phase' = Phase /\ answers' = answers)
  BY <1>3, <1>b, <1>c, <1>d DEF SendModal, Refused
<1>4. ASSUME ExecCC PROVE Phase' = Phase /\ answers' = answers
  BY <1>4, <1>b DEF ExecCC, flags
<1>5. ASSUME NEW printed \in BOOLEAN, End(printed)
      PROVE  Discord!Next \/ (Phase' = Phase /\ answers' = answers)
  <2>1. CASE ~printed
    <3>1. answers' = answers
      BY <1>5, <2>1, ConcatEmptySeq DEF End, TypeOK
    <3>2. UNCHANGED <<interaction, respondedTo, deferred>>
      BY <1>5, <2>1 DEF End, TypeOK
    <3> QED
      BY <3>1, <3>2, <1>b
  <2>2. CASE printed /\ ~respondedTo
    <3>1. Output = <<"message">>
      BY <2>2 DEF Output
    <3>2. answers' = Append(answers, "message")
      <4>1. answers' = answers \o <<"message">>
        BY <1>5, <2>2, <3>1 DEF End
      <4>2. "message" \in Kinds
        BY DEF Kinds, Responses
      <4> QED
        BY <4>1, <4>2, ConcatOne DEF TypeOK
    <3>3. respondedTo' /\ ~deferred'
      BY <1>5, <2>2, <1>a DEF End, OpenInv
    <3> QED
      BY <2>2, <3>2, <3>3, <1>a, <1>c, DiscordRespond
  <2>3. CASE printed /\ respondedTo /\ DeferralFailed
    <3>1. Output = <<>>
      BY <2>3 DEF Output
    <3>2. answers' = answers
      BY <1>5, <2>3, <3>1, ConcatEmptySeq DEF End, TypeOK
    <3>3. UNCHANGED <<interaction, respondedTo, deferred>>
      BY <1>5, <2>3 DEF End, TypeOK
    <3> QED
      BY <3>2, <3>3, <1>b
  <2>4. CASE printed /\ respondedTo /\ ~DeferralFailed /\ deferred
    <3>1. Output = <<"deferred_edit">>
      BY <2>4 DEF Output
    <3>2. answers' = Append(answers, "deferred_edit")
      <4>1. answers' = answers \o <<"deferred_edit">>
        BY <1>5, <2>4, <3>1 DEF End
      <4>2. "deferred_edit" \in Kinds
        BY DEF Kinds
      <4> QED
        BY <4>1, <4>2, ConcatOne DEF TypeOK
    <3>3. respondedTo' /\ ~deferred'
      BY <1>5, <2>4 DEF End
    <3>4. Phase = "deferred" /\ Phase' = "answered"
      BY <2>4, <3>3 DEF Phase, DeferralFailed
    <3> QED
      BY <3>2, <3>4 DEF Discord!Next, Discord!Fill
  <2>5. CASE printed /\ respondedTo /\ ~DeferralFailed /\ ~deferred
    <3>1. Output = <<"followup">>
      BY <2>5 DEF Output
    <3>2. answers' = Append(answers, "followup")
      <4>1. answers' = answers \o <<"followup">>
        BY <1>5, <2>5, <3>1 DEF End
      <4>2. "followup" \in Kinds
        BY DEF Kinds
      <4> QED
        BY <4>1, <4>2, ConcatOne DEF TypeOK
    <3>3. respondedTo' /\ ~deferred'
      BY <1>5, <2>5 DEF End
    <3>4. Phase = "answered" /\ Phase' = "answered"
      BY <2>5, <3>3 DEF Phase, DeferralFailed
    <3> QED
      BY <3>2, <3>4 DEF Discord!Next, Discord!Followup
  <2> QED
    BY <2>1, <2>2, <2>3, <2>4, <2>5
<1>6. CASE UNCHANGED vars
  BY <1>6, <1>b DEF vars
<1> QED
  BY <1>1, <1>2, <1>3, <1>4, <1>5, <1>6 DEF Next

(* The emulator's runs implement what Discord takes: whatever they call,   *)
(* refused or not, however nested, the answers are a response first,    *)
(* one filling of a deferral, followups only once acknowledged.            *)
THEOREM ImplementsDiscord == Spec => GivesWhatDiscordTakes
<1> QED
  BY TypeInit, TypeNext, OneInit, OneNext, DiscordInit, DiscordStep, PTL
  DEF Spec, GivesWhatDiscordTakes, Discord!Spec

-----------------------------------------------------------------------------
(* The records of the runs that have ended are empty, their caller's holds *)
(* them; so that the lists one after the other are the answers.            *)
EndedAreEmpty == \A l \in Levels : l > level /\ l > 1 => record[l] = <<>>

LEMMA OrderInit == Init => EndedAreEmpty /\ RecordInOrder
<1> SUFFICES ASSUME Init PROVE EndedAreEmpty /\ RecordInOrder
  OBVIOUS
<1>1. record = [l \in Levels |-> <<>>] /\ level = 1 /\ answers = <<>>
  BY DEF Init
<1>2. record \in [Levels -> Seq(Kinds)] /\ \A l \in Levels : record[l] = <<>>
  BY <1>1, EmptySeq
<1>3. PICK f : Flattens(f, record, MaxExecCCDepth + 1, Kinds) /\ FlattenSeq(record) = f[MaxExecCCDepth + 1]
  BY <1>2, FlattenIs
<1>4. f[MaxExecCCDepth + 1] = f[1]
  <2>1. EmptyAbove(record, 1, MaxExecCCDepth + 1)
    BY <1>2 DEF EmptyAbove
  <2> QED
    BY <2>1, <1>2, <1>3, EmptyFrom
<1>5. f[1] = <<>>
  BY <1>2, <1>3 DEF Flattens
<1> QED
  BY <1>1, <1>2, <1>3, <1>4, <1>5 DEF EndedAreEmpty, RecordInOrder

LEMMA ConcatThree ==
  ASSUME NEW s \in Seq(Kinds), NEW t \in Seq(Kinds), NEW u \in Seq(Kinds)
  PROVE  (s \o t) \o u = s \o (t \o u)
BY ConcatAssociative

(* What a run adds to its own list comes last.                             *)
LEMMA OrderAdds ==
  ASSUME TypeOK, EndedAreEmpty, RecordInOrder, level \in Levels, NEW more \in Seq(Kinds),
         record' \in [Levels -> Seq(Kinds)],
         \A l \in Levels : record'[l] = IF l = level THEN record[l] \o more ELSE record[l]
  PROVE  FlattenSeq(record') = answers \o more
<1>1. record \in [Levels -> Seq(Kinds)] /\ level \in 1 .. MaxExecCCDepth + 1
  BY DEF TypeOK
<1>2. SameBelow(record, record', level)
  BY <1>1 DEF SameBelow
<1>3. EmptyAbove(record, level, MaxExecCCDepth + 1) /\ EmptyAbove(record', level, MaxExecCCDepth + 1)
  BY <1>1 DEF EndedAreEmpty, EmptyAbove
<1>4. PICK p \in Seq(Kinds) : FlattenSeq(record) = p \o record[level] /\ FlattenSeq(record') = p \o record'[level]
  <2> DEFINE n == MaxExecCCDepth + 1
             s == record
             t == record'
  <2>1. n \in Nat \ {0} /\ s \in [1 .. n -> Seq(Kinds)] /\ t \in [1 .. n -> Seq(Kinds)] /\ level \in 1 .. n
    BY <1>1
  <2>2. SameBelow(s, t, level) /\ EmptyAbove(s, level, n) /\ EmptyAbove(t, level, n)
    BY <1>2, <1>3
  <2> HIDE DEF n, s, t
  <2>3. DifferAt(s, t, level, Kinds)
    BY <2>1, <2>2, FlattenAt
  <2> QED
    BY <2>3 DEF DifferAt, s, t
<1>5. record[level] \in Seq(Kinds) /\ record'[level] = record[level] \o more
  BY <1>1
<1>6. (p \o record[level]) \o more = p \o (record[level] \o more)
  BY <1>5, ConcatThree
<1> QED
  BY <1>4, <1>5, <1>6 DEF RecordInOrder

LEMMA OrderAnswer ==
  ASSUME TypeOK, EndedAreEmpty, RecordInOrder, level \in Levels, level' = level, NEW k \in Kinds, Answer(k)
  PROVE  (EndedAreEmpty /\ RecordInOrder)'
<1>1. <<k>> \in Seq(Kinds)
  BY EmptySeq
<1>2. answers' = answers \o <<k>>
  BY AppendIsConcat DEF Answer, TypeOK
<1>3. record' = [record EXCEPT ![level] = Append(record[level], k)]
  BY DEF Answer
<1>4. record[level] \in Seq(Kinds) /\ Append(record[level], k) = record[level] \o <<k>>
  BY AppendIsConcat DEF TypeOK
<1>5. record[level] \o <<k>> \in Seq(Kinds)
  BY <1>1, <1>4, ConcatProperties
<1>6. record' \in [Levels -> Seq(Kinds)]
  BY <1>3, <1>4, <1>5 DEF TypeOK
<1>7. \A l \in Levels : record'[l] = IF l = level THEN record[l] \o <<k>> ELSE record[l]
  BY <1>3, <1>4 DEF TypeOK
<1>8. FlattenSeq(record') = answers \o <<k>>
  BY <1>1, <1>6, <1>7, OrderAdds
<1>9. EndedAreEmpty'
  <2> SUFFICES ASSUME NEW l \in Levels, l > level', l > 1 PROVE record'[l] = <<>>
    BY DEF EndedAreEmpty
  <2>1. record[l] = <<>> /\ l # level
    BY DEF EndedAreEmpty
  <2> QED
    BY <1>7, <2>1
<1> QED
  BY <1>2, <1>8, <1>9 DEF RecordInOrder

LEMMA OrderNext == TypeOK /\ TypeOK' /\ EndedAreEmpty /\ RecordInOrder /\ [Next]_vars
                   => (EndedAreEmpty /\ RecordInOrder)'
<1> SUFFICES ASSUME TypeOK, TypeOK', EndedAreEmpty, RecordInOrder, [Next]_vars
             PROVE  (EndedAreEmpty /\ RecordInOrder)'
  OBVIOUS
<1>a. ASSUME UNCHANGED <<level, record, answers>> PROVE (EndedAreEmpty /\ RecordInOrder)'
  BY <1>a DEF EndedAreEmpty, RecordInOrder
<1>b. Running => level \in Levels
  BY DEF Running, TypeOK
<1>c. \A k \in Responses : k \in Kinds
  BY DEF Kinds
<1>1. ASSUME NEW refused \in BOOLEAN, SendResponse(refused) PROVE (EndedAreEmpty /\ RecordInOrder)'
  <2>1. Running /\ UNCHANGED level
    BY <1>1 DEF SendResponse, CountResponse
  <2>2. \/ Refused
        \/ \E k \in {"message", "followup"} : Answer(k)
    BY <1>1 DEF SendResponse, Respond
  <2>3. {"message", "followup"} \subseteq Kinds
    BY DEF Kinds, Responses
  <2> QED
    BY <2>1, <2>2, <2>3, <1>a, <1>b, OrderAnswer DEF Refused
<1>2. ASSUME NEW refused \in BOOLEAN, UpdateMessage(refused) PROVE (EndedAreEmpty /\ RecordInOrder)'
  <2>1. Running /\ UNCHANGED level
    BY <1>2 DEF UpdateMessage, CountResponse
  <2>2. Refused \/ Answer("update")
    BY <1>2 DEF UpdateMessage, Respond
  <2>3. "update" \in Kinds
    BY DEF Kinds, Responses
  <2> QED
    BY <2>1, <2>2, <2>3, <1>a, <1>b, OrderAnswer DEF Refused
<1>3. ASSUME NEW refused \in BOOLEAN, SendModal(refused) PROVE (EndedAreEmpty /\ RecordInOrder)'
  <2>1. Running /\ UNCHANGED level
    BY <1>3 DEF SendModal, CountResponse
  <2>2. Refused \/ Answer("modal")
    BY <1>3 DEF SendModal, Respond
  <2>3. "modal" \in Kinds
    BY DEF Kinds, Responses
  <2> QED
    BY <2>1, <2>2, <2>3, <1>a, <1>b, OrderAnswer DEF Refused
<1>4. CASE ExecCC
  <2>1. level \in Levels /\ level + 1 \in Levels /\ level' = level + 1 /\ answers' = answers
    BY <1>4, <1>b DEF ExecCC
  <2>2. record[level + 1] = <<>>
    BY <2>1 DEF EndedAreEmpty
  <2>3. record' = record
    BY <1>4, <2>2 DEF ExecCC, TypeOK
  <2> QED
    BY <2>1, <2>3 DEF EndedAreEmpty, RecordInOrder
<1>5. ASSUME NEW printed \in BOOLEAN, End(printed) PROVE (EndedAreEmpty /\ RecordInOrder)'
  <2> DEFINE out == IF printed THEN Output ELSE <<>>
  <2>1. out \in Seq(Kinds)
    BY OutputShort, EmptySeq
  <2>2. /\ level \in Levels /\ level' = level - 1
        /\ answers' = answers \o out
        /\ record' = Joined(record[level] \o out)
    BY <1>5 DEF End, TypeOK
  <2>t. record \in [Levels -> Seq(Kinds)] /\ record' \in [Levels -> Seq(Kinds)]
    BY DEF TypeOK
  <2> HIDE DEF out
  <2>3. CASE level = 1
    <3>1. record' = [record EXCEPT ![1] = record[1] \o out]
      BY <2>2, <2>3 DEF Joined
    <3>2. \A l \in Levels : record'[l] = IF l = level THEN record[l] \o out ELSE record[l]
      BY <2>2, <2>3, <2>t, <3>1
    <3>3. FlattenSeq(record') = answers \o out
      BY <2>1, <2>2, <2>t, <3>2, OrderAdds
    <3>4. EndedAreEmpty'
      BY <2>2, <2>3, <3>2 DEF EndedAreEmpty
    <3> QED
      BY <2>2, <3>3, <3>4 DEF RecordInOrder
  <2>4. CASE level # 1
    <3> DEFINE up == level - 1
    <3>1. up \in 1 .. (MaxExecCCDepth + 1) - 1 /\ up + 1 = level /\ up # level /\ up \in Levels
      BY <2>2, <2>4
    <3>2. record' = [record EXCEPT ![level] = <<>>, ![up] = @ \o (record[level] \o out)]
      BY <2>2, <2>4 DEF Joined
    <3> HIDE DEF up
    <3>3. /\ record'[level] = <<>>
          /\ record'[up] = record[up] \o (record[level] \o out)
          /\ \A l \in Levels : l # level /\ l # up => record'[l] = record[l]
      BY <2>2, <2>t, <3>1, <3>2
    <3>4. SameBelow(record, record', up)
      BY <3>1, <3>3 DEF SameBelow
    <3>5. EmptyAbove(record, up + 1, MaxExecCCDepth + 1) /\ EmptyAbove(record', up + 1, MaxExecCCDepth + 1)
      BY <2>2, <3>1, <3>3 DEF EndedAreEmpty, EmptyAbove
    <3>6. PICK p \in Seq(Kinds) :
            /\ FlattenSeq(record) = (p \o record[up]) \o record[up + 1]
            /\ FlattenSeq(record') = (p \o record'[up]) \o record'[up + 1]
      <4> DEFINE n == MaxExecCCDepth + 1
                 s == record
                 t == record'
      <4>1. n \in Nat \ {0} /\ s \in [1 .. n -> Seq(Kinds)] /\ t \in [1 .. n -> Seq(Kinds)] /\ up \in 1 .. n - 1
        BY <2>t, <3>1
      <4>2. SameBelow(s, t, up) /\ EmptyAbove(s, up + 1, n) /\ EmptyAbove(t, up + 1, n)
        BY <3>4, <3>5
      <4> HIDE DEF n, s, t
      <4>3. DifferAtTwo(s, t, up, Kinds)
        BY <4>1, <4>2, FlattenAtTwo
      <4> QED
        BY <4>3 DEF DifferAtTwo, s, t
    <3> DEFINE a == record[up]
               b == record[level]
    <3>7. a \in Seq(Kinds) /\ b \in Seq(Kinds)
      BY <2>2, <2>t, <3>1
    <3>8. answers = (p \o a) \o b
      BY <3>1, <3>6 DEF RecordInOrder
    <3>9. FlattenSeq(record') = (p \o (a \o (b \o out))) \o <<>>
      BY <3>1, <3>3, <3>6
    <3> HIDE DEF a, b
    <3>10. /\ b \o out \in Seq(Kinds) /\ p \o a \in Seq(Kinds)
           /\ a \o (b \o out) \in Seq(Kinds) /\ p \o (a \o (b \o out)) \in Seq(Kinds)
      BY <2>1, <3>7, ConcatProperties
    <3>11. (p \o (a \o (b \o out))) \o <<>> = p \o (a \o (b \o out))
      BY <3>10, ConcatEmptySeq
    <3>12. p \o (a \o (b \o out)) = (p \o a) \o (b \o out)
      BY <3>7, <3>10, ConcatThree
    <3>13. (p \o a) \o (b \o out) = ((p \o a) \o b) \o out
      <4> DEFINE pa == p \o a
      <4>1. pa \in Seq(Kinds)
        BY <3>10
      <4> HIDE DEF pa
      <4>2. (pa \o b) \o out = pa \o (b \o out)
        BY <2>1, <3>7, <4>1, ConcatThree
      <4> QED
        BY <4>2 DEF pa
    <3>14. FlattenSeq(record') = answers \o out
      BY <3>8, <3>9, <3>11, <3>12, <3>13
    <3>15. EndedAreEmpty'
      <4> SUFFICES ASSUME NEW l \in Levels, l > level', l > 1 PROVE record'[l] = <<>>
        BY DEF EndedAreEmpty
      <4>1. CASE l = level
        BY <3>3, <4>1
      <4>2. CASE l # level
        <5>1. l > level /\ l # up
          BY <2>2, <3>1, <4>2
        <5> QED
          BY <3>3, <4>2, <5>1 DEF EndedAreEmpty
      <4> QED
        BY <4>1, <4>2
    <3> QED
      BY <2>2, <3>14, <3>15 DEF RecordInOrder
  <2> QED
    BY <2>3, <2>4
<1>6. CASE UNCHANGED vars
  BY <1>6, <1>a DEF vars
<1> QED
  BY <1>1, <1>2, <1>3, <1>4, <1>5, <1>6 DEF Next

(* However deep the runs nest, the record of the interaction's own run is  *)
(* in the end every answer Discord was given, in the order given.          *)
THEOREM RecordKeepsOrder == Spec => []RecordInOrder
<1> QED
  BY TypeInit, TypeNext, OrderInit, OrderNext, PTL DEF Spec

-----------------------------------------------------------------------------
(* TemplateLexer.                                                          *)
-----------------------------------------------------------------------------
(* Positions.                                                              *)
LEMMA Greatest ==
  ASSUME NEW n \in Nat, NEW T \in SUBSET (0 .. n), T # {}
  PROVE  \E x \in T : \A y \in T : y <= x
<1> DEFINE S == {i \in 0 .. n : n - i \in T}
<1>1. S \in SUBSET Nat /\ S # {}
  <2>1. PICK t : t \in T
    OBVIOUS
  <2>2. n - t \in 0 .. n /\ n - (n - t) = t
    BY <2>1
  <2> QED BY <2>1, <2>2
<1>2. PICK x \in S : \A y \in S : x <= y
  <2> HIDE DEF S
  <2> QED BY <1>1, Least
<1>3. ASSUME NEW y \in T PROVE y <= n - x
  <2>1. n - y \in 0 .. n /\ n - (n - y) = y
    OBVIOUS
  <2> QED BY <1>2, <2>1
<1> QED BY <1>2, <1>3

Source == input \in Seq(STRING \ {"eof"})

LEMMA AtIs ==
  ASSUME Source
  PROVE  /\ Len(input) \in Nat
         /\ \A p \in 1 .. Len(input) : At(p) = input[p] /\ At(p) \in STRING /\ At(p) # "eof"
         /\ \A p \in Int : p > Len(input) => At(p) = "eof"
BY DEF Source, At

LEMMA Delims ==
  /\ LeftDelim # RightDelim
  /\ LeftDelim \notin Spaces \cup {"eof", "-", "/*", "*/", "nl", "text", "error", "EOF"}
  /\ RightDelim \notin Spaces \cup {"eof", "-", "/*", "*/", "nl", "text", "error", "EOF"}
  /\ "nl" \in Spaces /\ Spaces \cap {"-", "/*", "*/", "eof"} = {}
<1>2. LeftDelim # RightDelim
  BY Zenon DEF LeftDelim, RightDelim
<1>3. LeftDelim \notin Spaces \cup {"eof", "-", "/*", "*/", "nl", "text", "error", "EOF"}
  BY Zenon DEF LeftDelim, Spaces
<1>4. RightDelim \notin Spaces \cup {"eof", "-", "/*", "*/", "nl", "text", "error", "EOF"}
  BY Zenon DEF RightDelim, Spaces
<1>5. "nl" \in Spaces
  BY Zenon DEF Spaces
<1>6. "-" \notin Spaces /\ "/*" \notin Spaces /\ "*/" \notin Spaces /\ "eof" \notin Spaces
  BY Zenon DEF Spaces
<1> QED BY <1>2, <1>3, <1>4, <1>5, <1>6

LEMMA FirstInIs ==
  ASSUME Source, NEW p \in 1 .. Len(input) + 1, NEW S
  PROVE  /\ FirstIn(p, S) \in p .. Len(input) + 1
         /\ FirstIn(p, S) <= Len(input) => At(FirstIn(p, S)) \in S
         /\ \A q \in p .. FirstIn(p, S) - 1 : At(q) \notin S
<1> DEFINE found == {q \in p .. Len(input) : input[q] \in S}
<1>1. Len(input) \in Nat /\ \A q \in 1 .. Len(input) : At(q) = input[q]
  BY AtIs
<1>2. CASE found = {}
  <2>1. FirstIn(p, S) = Len(input) + 1
    BY <1>2 DEF FirstIn
  <2>2. ASSUME NEW q \in p .. Len(input) PROVE At(q) \notin S
    BY <1>1, <1>2
  <2> QED BY <1>1, <2>1, <2>2
<1>3. CASE found # {}
  <2>1. found \in SUBSET Nat
    BY <1>1
  <2>2. \E x \in found : \A y \in found : x <= y
    <3> HIDE DEF found
    <3> QED BY <1>3, <2>1, Least
  <2>3. FirstIn(p, S) = CHOOSE q \in found : \A o \in found : q <= o
    BY <1>3 DEF FirstIn
  <2> DEFINE x == FirstIn(p, S)
  <2>4. x \in found /\ \A o \in found : x <= o
    <3> HIDE DEF found
    <3> QED BY <2>2, <2>3
  <2> HIDE DEF x
  <2>5. x \in p .. Len(input) /\ At(x) \in S
    BY <1>1, <2>4
  <2>6. ASSUME NEW q \in p .. x - 1 PROVE At(q) \notin S
    <3>1. q \in p .. Len(input) /\ At(q) = input[q] /\ ~(x <= q)
      BY <1>1, <2>5
    <3> QED BY <2>4, <3>1
  <2> QED BY <1>1, <2>5, <2>6 DEF x
<1> QED BY <1>2, <1>3

LEMMA FirstNotInIs ==
  ASSUME Source, NEW p \in 1 .. Len(input) + 1, NEW S
  PROVE  /\ FirstNotIn(p, S) \in p .. Len(input) + 1
         /\ \A q \in p .. FirstNotIn(p, S) - 1 : At(q) \in S
         /\ At(p) \in S /\ p <= Len(input) => FirstNotIn(p, S) > p
<1> DEFINE found == {q \in p .. Len(input) : input[q] \notin S}
<1>1. Len(input) \in Nat /\ \A q \in 1 .. Len(input) : At(q) = input[q]
  BY AtIs
<1>2. CASE found = {}
  <2>1. FirstNotIn(p, S) = Len(input) + 1
    BY <1>2 DEF FirstNotIn
  <2>2. ASSUME NEW q \in p .. Len(input) PROVE At(q) \in S
    BY <1>1, <1>2
  <2> QED BY <1>1, <2>1, <2>2
<1>3. CASE found # {}
  <2>1. found \in SUBSET Nat
    BY <1>1
  <2>2. \E x \in found : \A y \in found : x <= y
    <3> HIDE DEF found
    <3> QED BY <1>3, <2>1, Least
  <2>3. FirstNotIn(p, S) = CHOOSE q \in found : \A o \in found : q <= o
    BY <1>3 DEF FirstNotIn
  <2> DEFINE x == FirstNotIn(p, S)
  <2>4. x \in found /\ \A o \in found : x <= o
    <3> HIDE DEF found
    <3> QED BY <2>2, <2>3
  <2> HIDE DEF x
  <2>5. x \in p .. Len(input) /\ At(x) \notin S
    BY <1>1, <2>4
  <2>6. ASSUME NEW q \in p .. x - 1 PROVE At(q) \in S
    <3>1. q \in p .. Len(input) /\ At(q) = input[q] /\ ~(x <= q)
      BY <1>1, <2>5
    <3> QED BY <2>4, <3>1
  <2> QED BY <1>1, <2>5, <2>6 DEF x
<1> QED BY <1>2, <1>3

LEMMA TrimmedEndIs ==
  ASSUME Source, NEW p \in 1 .. Len(input) + 1, NEW x \in p .. Len(input) + 1
  PROVE  TrimmedEnd(p, x) \in p .. x /\ AllSpaces(TrimmedEnd(p, x), x - 1)
<1> DEFINE kept == {q \in p .. x - 1 : input[q] \notin Spaces}
<1>1. Len(input) \in Nat /\ \A q \in 1 .. Len(input) : At(q) = input[q]
  BY AtIs
<1>2. \A q \in p .. x - 1 : q \in 1 .. Len(input) /\ At(q) = input[q]
  BY <1>1
<1>3. CASE kept = {}
  <2>1. TrimmedEnd(p, x) = p
    BY <1>3 DEF TrimmedEnd
  <2>2. \A q \in p .. x - 1 : At(q) \in Spaces
    BY <1>2, <1>3
  <2> QED BY <1>1, <2>1, <2>2 DEF AllSpaces
<1>4. CASE kept # {}
  <2>1. kept \in SUBSET (0 .. Len(input))
    BY <1>1
  <2>2. \E k \in kept : \A y \in kept : y <= k
    <3> HIDE DEF kept
    <3> QED BY <1>1, <1>4, <2>1, Greatest
  <2>3. TrimmedEnd(p, x) = 1 + CHOOSE k \in kept : \A o \in kept : o <= k
    BY <1>4 DEF TrimmedEnd
  <2>4. PICK k : TrimmedEnd(p, x) = 1 + k /\ k \in kept /\ \A o \in kept : o <= k
    <3> HIDE DEF kept
    <3> QED BY <2>2, <2>3
  <2>5. ASSUME NEW q \in k + 1 .. x - 1 PROVE At(q) \in Spaces
    <3>1. q \in p .. x - 1 /\ ~(q <= k)
      BY <1>1, <2>4
    <3> QED BY <1>2, <2>4, <3>1
  <2> QED BY <1>1, <2>4, <2>5 DEF AllSpaces
<1> QED BY <1>3, <1>4

-----------------------------------------------------------------------------
(* Newlines.                                                               *)
LEMMA NewlinesAdd ==
  \A a, b, c \in Nat : a <= b /\ b <= c =>
    Newlines(a, b) \in Nat /\ Newlines(b, c) \in Nat /\ Newlines(a, c) = Newlines(a, b) + Newlines(b, c)
<1> SUFFICES ASSUME NEW a \in Nat, NEW b \in Nat, NEW c \in Nat, a <= b, b <= c
             PROVE  /\ Newlines(a, b) \in Nat /\ Newlines(b, c) \in Nat
                    /\ Newlines(a, c) = Newlines(a, b) + Newlines(b, c)
  OBVIOUS
<1> DEFINE A == {p \in a .. b - 1 : At(p) = "nl"}
           B == {p \in b .. c - 1 : At(p) = "nl"}
           C == {p \in a .. c - 1 : At(p) = "nl"}
<1>1. /\ IsFiniteSet(a .. b - 1) /\ IsFiniteSet(b .. c - 1)
      /\ A \in SUBSET (a .. b - 1) /\ B \in SUBSET (b .. c - 1)
  BY FS_Interval
<1>2. C = A \cup B /\ A \cap B = {}
  OBVIOUS
<1>3. Newlines(a, b) = Cardinality(A) /\ Newlines(b, c) = Cardinality(B) /\ Newlines(a, c) = Cardinality(C)
  BY DEF Newlines
<1> HIDE DEF A, B, C
<1>4. IsFiniteSet(A) /\ IsFiniteSet(B)
  BY <1>1, FS_Subset
<1>5. /\ Cardinality(A) \in Nat /\ Cardinality(B) \in Nat /\ Cardinality(A \cap B) = 0
      /\ Cardinality(A \cup B) = Cardinality(A) + Cardinality(B) - Cardinality(A \cap B)
  BY <1>2, <1>4, FS_CardinalityType, FS_Union, FS_EmptySet
<1> QED BY <1>2, <1>3, <1>5

LEMMA NoNewline ==
  ASSUME NEW p \in Nat, At(p) # "nl"
  PROVE  Newlines(p, p + 1) = 0
<1>1. {q \in p .. (p + 1) - 1 : At(q) = "nl"} = {}
  BY p .. (p + 1) - 1 = {p}
<1> QED BY <1>1, FS_EmptySet DEF Newlines
-----------------------------------------------------------------------------
(* The invariant, of the list of items q, the lexer standing at x in line l *)
(* of the source.  Pending is what it has passed since the last item.      *)
LexTypes ==
  /\ Source /\ pos \in 1 .. Len(input) + 1 /\ start = pos /\ line \in Nat
  /\ parenDepth \in Nat /\ insideAction \in BOOLEAN /\ \E S : items \in Seq(S)

LastTo(q) == IF q = <<>> THEN 1 ELSE q[Len(q)].to

Pending(q, x) ==
  LastTo(q) \in 1 .. x /\ \A p \in LastTo(q) .. x - 1 : MayGo(p, LastTo(q), x)

Drops(q) ==
  \A i \in 1 .. Len(q) :
    LET from == IF i = 1 THEN 1 ELSE q[i - 1].to
    IN  \A p \in from .. q[i].from - 1 : MayGo(p, from, q[i].from)

EndTypes == {"EOF", "error"}
EndsIn(q) == q # <<>> /\ q[Len(q)].typ \in EndTypes

LineAt(q, x, l) ==
  ~EndsIn(q) /\ (q = <<>> \/ q[Len(q)].typ # "text" \/ x <= Len(input)) => l = 1 + Newlines(1, x)

LineOf(it) ==
  it.typ \notin EndTypes /\ ~(it.typ = "text" /\ it.to > Len(input)) => it.line = 1 + Newlines(1, it.to)

Faithful(q, x, l) ==
  Pending(q, x) /\ Drops(q) /\ LineAt(q, x, l) /\ \A i \in 1 .. Len(q) : LineOf(q[i])

LexInv == LexTypes /\ Faithful(items, pos, line)

(* The source does not change, so that what is said of it is not primed.   *)
LEMMA InvNext ==
  ASSUME input' = input
  PROVE  LexInv' <=> LexTypes' /\ Faithful(items', pos', line')
BY DEF LexInv, Faithful, Pending, Drops, LineAt, LineOf, EndsIn, LastTo, MayGo, Comment, TrimsLeft, TrimsRight,
       AllSpaces, HasLeftTrimMarker, HasRightTrimMarker, Newlines, At

LEMMA FaithfulItems ==
  ASSUME LexInv
  PROVE  ItemsAreFaithful
<1>1. DropsOnlyMarked
  BY DEF LexInv, Faithful, Drops, DropsOnlyMarked
<1>2. LinesAreRight
  BY DEF LexInv, Faithful, LineAt, LineOf, EndsIn, EndTypes, LinesAreRight, Ended
<1> QED BY <1>1, <1>2 DEF ItemsAreFaithful
-----------------------------------------------------------------------------
(* An item that goes to the parser, after which the lexer stands at x, in   *)
(* line l.                                                                  *)
GoodItem(it, x, l) ==
  /\ it.from \in Nat /\ LastTo(items) <= it.from /\ it.to \in 1 .. x /\ x \in 1 .. Len(input) + 1
  /\ \A p \in LastTo(items) .. it.from - 1 : MayGo(p, LastTo(items), it.from)
  /\ \A p \in it.to .. x - 1 : MayGo(p, it.to, x)
  /\ LineOf(it)
  /\ it.typ \notin EndTypes /\ (it.typ # "text" \/ x <= Len(input)) => l = 1 + Newlines(1, x)

MovesOn == pos < pos' \/ Ended'

LEMMA Emitted ==
  ASSUME LexInv, NEW it, UNCHANGED input, start' = pos', items' = Append(items, it),
         GoodItem(it, pos', line'), line' \in Nat, parenDepth' \in Nat, insideAction' \in BOOLEAN,
         pos < pos' \/ it.typ \in EndTypes
  PROVE  LexInv' /\ MovesOn
<1> DEFINE q == Append(items, it)
           x == pos'
<1>1. Source /\ Len(input) \in Nat /\ Len(items) \in Nat
  BY AtIs DEF LexInv, LexTypes
<1>2. /\ \E S : q \in Seq(S)
      /\ Len(q) = Len(items) + 1 /\ q # <<>> /\ q[Len(q)] = it
      /\ \A i \in 1 .. Len(items) : q[i] = items[i]
  <2>1. PICK S : items \in Seq(S)
    BY DEF LexInv, LexTypes
  <2>2. items \in Seq(S \cup {it}) /\ it \in S \cup {it}
    BY <2>1
  <2> QED BY <2>2
<1>3. items = <<>> <=> Len(items) = 0
  BY DEF LexInv, LexTypes
<1> HIDE DEF q
<1>4. x \in 1 .. Len(input) + 1 /\ it.from \in Nat /\ it.to \in 1 .. x
  BY <1>1 DEF GoodItem
<1>5. LastTo(q) = it.to
  BY <1>2 DEF LastTo
<1>6. Pending(q, x)
  BY <1>4, <1>5 DEF Pending, GoodItem
<1>7. Drops(q)
  <2> SUFFICES ASSUME NEW i \in 1 .. Len(q)
               PROVE  LET from == IF i = 1 THEN 1 ELSE q[i - 1].to
                      IN  \A p \in from .. q[i].from - 1 : MayGo(p, from, q[i].from)
    BY DEF Drops
  <2>1. CASE i \in 1 .. Len(items)
    <3>1. q[i] = items[i] /\ (i # 1 => q[i - 1] = items[i - 1])
      BY <1>1, <1>2, <2>1
    <3> QED BY <2>1, <3>1 DEF LexInv, Faithful, Drops
  <2>2. CASE i = Len(items) + 1
    <3>1. q[i] = it /\ (IF i = 1 THEN 1 ELSE q[i - 1].to) = LastTo(items)
      BY <1>1, <1>2, <1>3, <2>2 DEF LastTo
    <3> QED BY <3>1 DEF GoodItem
  <2> QED BY <1>1, <1>2, <2>1, <2>2
<1>8. LineAt(q, x, line')
  BY <1>2 DEF LineAt, EndsIn, GoodItem
<1>9. ASSUME NEW i \in 1 .. Len(q) PROVE LineOf(q[i])
  <2>1. CASE i \in 1 .. Len(items)
    BY <1>2, <2>1 DEF LexInv, Faithful
  <2>2. CASE i = Len(items) + 1
    BY <1>2, <2>2 DEF GoodItem
  <2> QED BY <1>1, <1>2, <2>1, <2>2
<1>10. Faithful(items', pos', line')
  BY <1>6, <1>7, <1>8, <1>9 DEF Faithful, q
<1>11. LexTypes'
  BY <1>1, <1>2, <1>4 DEF LexTypes, Source, q
<1>12. MovesOn
  BY <1>2 DEF MovesOn, Ended, EndTypes, q
<1> QED BY <1>10, <1>11, <1>12, InvNext

LEMMA ItemIs ==
  ASSUME NEW from, NEW to, NEW typ, NEW ln, NEW it, it = Item(typ, from, to, ln)
  PROVE  it.typ = typ /\ it.from = from /\ it.to = to /\ it.line = ln
BY DEF Item

LEMMA Standing ==
  ASSUME LexInv
  PROVE  /\ Len(input) \in Nat /\ pos \in 1 .. Len(input) + 1 /\ start = pos /\ line \in Nat /\ Source
         /\ parenDepth \in Nat /\ insideAction \in BOOLEAN
         /\ LastTo(items) \in 1 .. pos
         /\ \A p \in LastTo(items) .. pos - 1 : MayGo(p, LastTo(items), pos)
         /\ ~Ended /\ pos <= Len(input) => line = 1 + Newlines(1, pos)
         /\ At(pos) # "eof" => pos <= Len(input)
<1>1. Len(input) \in Nat /\ (At(pos) # "eof" => pos <= Len(input))
  BY AtIs DEF LexInv, LexTypes
<1>2. ~Ended => ~EndsIn(items)
  BY DEF Ended, EndsIn, EndTypes
<1> QED BY <1>1, <1>2 DEF LexInv, LexTypes, Faithful, Pending, LineAt

(* Lines are counted as far as the lexer goes.                              *)
LEMMA LinesCounted ==
  ASSUME LexInv, ~Ended, pos <= Len(input), NEW x \in pos .. Len(input) + 1
  PROVE  /\ line + Newlines(pos, x) = 1 + Newlines(1, x) /\ Newlines(pos, x) \in Nat
         /\ line + Newlines(pos, x) \in Nat
<1>1. Len(input) \in Nat /\ pos \in 1 .. Len(input) + 1 /\ line = 1 + Newlines(1, pos)
  BY Standing
<1>2. /\ Newlines(1, pos) \in Nat /\ Newlines(pos, x) \in Nat
      /\ Newlines(1, x) = Newlines(1, pos) + Newlines(pos, x)
  <2>1. 1 \in Nat /\ pos \in Nat /\ x \in Nat /\ 1 <= pos /\ pos <= x
    BY <1>1
  <2> QED BY ONLY <2>1, NewlinesAdd
<1> QED BY <1>1, <1>2

(* An item scanned rune by rune, from where the lexer stands.               *)
LEMMA ScansGood ==
  ASSUME LexInv, ~Ended, pos <= Len(input), NEW typ, NEW x \in pos + 1 .. Len(input) + 1,
         EmitTo(typ, x), UNCHANGED <<input, insideAction>>, parenDepth' \in Nat
  PROVE  LexInv' /\ MovesOn
<1> DEFINE l == line + Newlines(pos, x)
           it == Item(typ, pos, x, l)
<1>1. /\ Len(input) \in Nat /\ pos \in 1 .. Len(input) + 1 /\ start = pos /\ Source /\ x \in pos .. Len(input) + 1
      /\ insideAction \in BOOLEAN
  BY Standing
<1>2. l \in Nat /\ l = 1 + Newlines(1, x)
  BY <1>1, LinesCounted
<1>3. items' = Append(items, it) /\ pos' = x /\ start' = x /\ line' = l
  BY <1>1 DEF EmitTo
<1> HIDE DEF l
<1>4. it.typ = typ /\ it.from = pos /\ it.to = x /\ it.line = l
  <2> HIDE DEF it
  <2>1. it = Item(typ, pos, x, l)
    BY DEF it
  <2> QED BY <1>1, <1>2, <2>1, ItemIs
<1> HIDE DEF it
<1>5. GoodItem(it, x, l)
  BY <1>1, <1>2, <1>4, Standing DEF GoodItem, LineOf
<1> QED BY <1>1, <1>2, <1>3, <1>5, Emitted

LEMMA ErrorGood ==
  ASSUME LexInv, LexError
  PROVE  LexInv' /\ MovesOn
<1> DEFINE it == Item("error", pos, pos, line)
<1>1. /\ Len(input) \in Nat /\ pos \in 1 .. Len(input) + 1 /\ start = pos /\ Source /\ line \in Nat
      /\ insideAction \in BOOLEAN /\ parenDepth \in Nat
  BY Standing
<1>2. items' = Append(items, it) /\ UNCHANGED <<input, pos, start, line, parenDepth, insideAction>>
  BY <1>1 DEF LexError
<1>3. it.typ = "error" /\ it.from = pos /\ it.to = pos /\ it.line = line
  <2>1. pos \in pos .. Len(input) + 1
    BY <1>1
  <2> HIDE DEF it
  <2>2. it = Item("error", pos, pos, line)
    BY DEF it
  <2> QED BY <1>1, <2>1, <2>2, ItemIs
<1> HIDE DEF it
<1>4. GoodItem(it, pos, line)
  BY <1>1, <1>3, Standing DEF GoodItem, LineOf, EndTypes
<1> QED BY <1>1, <1>2, <1>3, <1>4, Emitted DEF EndTypes
-----------------------------------------------------------------------------
(* Delimiters.                                                              *)
LEMMA MayGoMore ==
  ASSUME NEW p \in Nat, NEW from \in Nat, NEW a \in Nat, NEW b \in Nat, a <= b, MayGo(p, from, a)
  PROVE  MayGo(p, from, b)
<1>1. p .. a - 1 \subseteq p .. b - 1
  OBVIOUS
<1> QED BY <1>1 DEF MayGo

LEMMA RightDelimIs ==
  ASSUME Source, NEW p \in 1 .. Len(input) + 1, AtRightDelim(p),
         NEW d, d = FirstIn(p, {RightDelim}), NEW a, a = AfterRightDelim(p)
  PROVE  /\ d \in {p, p + 2} /\ d <= Len(input) /\ At(d) = RightDelim /\ a \in d + 1 .. Len(input) + 1
         /\ d = p + 2 => HasRightTrimMarker(p)
         /\ \A q \in (p .. d - 1) \cup (d + 1 .. a - 1) : TrimsRight(p, q)
<1>1. /\ Len(input) \in Nat /\ \A q \in Int : q > Len(input) => At(q) = "eof"
      /\ d \in p .. Len(input) + 1 /\ (d <= Len(input) => At(d) = RightDelim)
      /\ \A q \in p .. d - 1 : At(q) # RightDelim
  BY AtIs, FirstInIs
<1>2. RightDelim \notin Spaces \cup {"-", "eof"} /\ "eof" \notin Spaces
  BY Delims
<1>3. CASE At(p) = RightDelim
  <2>1. a = p + 1
    BY <1>2, <1>3 DEF AfterRightDelim, HasRightTrimMarker
  <2>2. p <= Len(input)
    BY <1>1, <1>2, <1>3
  <2>3. d = p
    <3>1. ~(p \in p .. d - 1)
      BY <1>1, <1>3
    <3> QED BY <1>1, <3>1
  <2>4. \A q : q \notin p .. d - 1 /\ q \notin d + 1 .. a - 1
    BY <1>1, <2>1, <2>3
  <2>5. a \in d + 1 .. Len(input) + 1
    BY <1>1, <2>1, <2>2, <2>3
  <2>6. \A q \in (p .. d - 1) \cup (d + 1 .. a - 1) : FALSE
    BY <2>4
  <2>7. d # p + 2 /\ d \in {p, p + 2} /\ d <= Len(input)
    BY <2>2, <2>3
  <2> QED BY <1>3, <2>3, <2>5, <2>6, <2>7
<1>4. CASE At(p) # RightDelim
  <2>1. HasRightTrimMarker(p) /\ At(p + 2) = RightDelim /\ a = FirstNotIn(p + 3, Spaces)
    BY <1>4 DEF AtRightDelim, AfterRightDelim
  <2>2. At(p) \in Spaces /\ At(p + 1) = "-" /\ p + 2 <= Len(input)
    BY <1>1, <1>2, <2>1 DEF HasRightTrimMarker
  <2>3. d = p + 2
    <3>1. d # p /\ d # p + 1
      BY <1>1, <1>2, <1>4, <2>2
    <3>2. ~(p + 2 \in p .. d - 1)
      BY <1>1, <2>1
    <3> QED BY <1>1, <2>2, <3>1, <3>2
  <2>4. a \in p + 3 .. Len(input) + 1 /\ \A q \in p + 3 .. a - 1 : At(q) \in Spaces
    <3>1. p + 3 \in 1 .. Len(input) + 1
      BY <1>1, <2>2
    <3> QED BY <2>1, <3>1, FirstNotInIs
  <2>5. ASSUME NEW q \in (p .. d - 1) \cup (d + 1 .. a - 1) PROVE TrimsRight(p, q)
    <3>1. CASE q \in p .. d - 1
      BY <1>1, <2>1, <2>3, <3>1 DEF TrimsRight
    <3>2. CASE q \in d + 1 .. a - 1
      <4>1. q > p + 2 /\ AllSpaces(p + 3, q)
        BY <1>1, <2>3, <2>4, <3>2 DEF AllSpaces
      <4> QED BY <2>1, <4>1 DEF TrimsRight
    <3> QED BY <3>1, <3>2
  <2>6. d <= Len(input) /\ At(d) = RightDelim /\ a \in d + 1 .. Len(input) + 1
    BY <1>1, <2>1, <2>2, <2>3, <2>4
  <2> QED BY <2>1, <2>3, <2>5, <2>6
<1> QED BY <1>3, <1>4

LEMMA LeftDelimIs ==
  ASSUME Source, pos \in 1 .. Len(input), At(pos) = LeftDelim
  PROVE  /\ AfterLeftDelim \in pos + 1 .. Len(input) + 1 /\ AfterLeftDelim \in {pos + 1, pos + 3}
         /\ AfterLeftDelim = pos + 3 => HasLeftTrimMarker(pos + 1)
         /\ \A q \in pos + 1 .. AfterLeftDelim - 1 : TrimsLeft(pos, q) /\ At(q) # "*/"
<1>1. Len(input) \in Nat /\ \A q \in Int : q > Len(input) => At(q) = "eof"
  BY AtIs
<1>2. CASE HasLeftTrimMarker(pos + 1)
  <2>1. At(pos + 1) = "-" /\ At(pos + 2) \in Spaces /\ AfterLeftDelim = pos + 3
    BY <1>2 DEF HasLeftTrimMarker, AfterLeftDelim
  <2>2. pos + 2 <= Len(input)
    BY <1>1, <2>1, Delims
  <2>3. ASSUME NEW q \in pos + 1 .. pos + 2 PROVE TrimsLeft(pos, q) /\ At(q) # "*/"
    <3>1. q = pos + 1 \/ q = pos + 2
      OBVIOUS
    <3>2. At(q) # "*/"
      BY <2>1, <3>1, Delims
    <3> QED BY <1>2, <3>2 DEF TrimsLeft
  <2> QED BY <1>1, <1>2, <2>1, <2>2, <2>3
<1>3. CASE ~HasLeftTrimMarker(pos + 1)
  BY <1>1, <1>3 DEF AfterLeftDelim
<1> QED BY <1>2, <1>3

LEMMA RightDelimGood ==
  ASSUME LexInv, LexRightDelim
  PROVE  LexInv' /\ MovesOn
<1>1. CASE parenDepth # 0
  BY <1>1, ErrorGood DEF LexRightDelim
<1>2. CASE parenDepth = 0
  <2> DEFINE d  == FirstIn(pos, {RightDelim})
             a  == AfterRightDelim(pos)
             it == Item(RightDelim, d, d + 1, line + Newlines(pos, d))
             l  == line + Newlines(pos, a)
  <2>1. /\ Len(input) \in Nat /\ pos \in 1 .. Len(input) + 1 /\ Source /\ parenDepth \in Nat /\ ~Ended
        /\ AtRightDelim(pos)
    BY Standing DEF LexRightDelim
  <2>2. /\ items' = Append(items, it) /\ pos' = a /\ start' = a /\ line' = l /\ insideAction' = FALSE
        /\ UNCHANGED <<input, parenDepth>>
    BY <1>2 DEF LexRightDelim
  <2>3. /\ d \in {pos, pos + 2} /\ d <= Len(input) /\ At(d) = RightDelim /\ a \in d + 1 .. Len(input) + 1
        /\ \A q \in (pos .. d - 1) \cup (d + 1 .. a - 1) : TrimsRight(pos, q)
    <3> HIDE DEF d, a
    <3>1. d = FirstIn(pos, {RightDelim}) /\ a = AfterRightDelim(pos)
      BY DEF d, a
    <3> QED BY <2>1, <3>1, RightDelimIs
  <2> HIDE DEF d, a
  <2>4. pos <= Len(input) /\ d \in pos .. Len(input) + 1 /\ a \in pos .. Len(input) + 1 /\ d + 1 \in d .. Len(input) + 1
        /\ d \in Nat /\ a \in Nat /\ d + 1 \in Nat /\ d \in 1 .. Len(input) + 1
    BY <2>1, <2>3
  <2>5. /\ line + Newlines(pos, d) = 1 + Newlines(1, d) /\ line + Newlines(pos, d) \in Nat
        /\ l = 1 + Newlines(1, a) /\ l \in Nat
    BY <2>1, <2>4, LinesCounted
  <2>6. /\ it.typ = RightDelim /\ it.from = d /\ it.to = d + 1
        /\ it.line = line + Newlines(pos, d)
    <3> HIDE DEF it
    <3>1. it = Item(RightDelim, d, d + 1, line + Newlines(pos, d))
      BY DEF it
    <3> QED BY <2>1, <2>4, <2>5, <3>1, ItemIs, Delims
  <2> HIDE DEF it, l
  <2>7. it.line = 1 + Newlines(1, d + 1)
    <3>1. Newlines(d, d + 1) = 0
      BY <2>3, <2>4, NoNewline, Delims
    <3>2. /\ Newlines(1, d) \in Nat /\ Newlines(d, d + 1) \in Nat
          /\ Newlines(1, d + 1) = Newlines(1, d) + Newlines(d, d + 1)
      <4>1. 1 \in Nat /\ d \in Nat /\ d + 1 \in Nat /\ 1 <= d /\ d <= d + 1
        BY <2>4
      <4>2. \A b, c \in Nat : 1 <= b /\ b <= c =>
              Newlines(1, b) \in Nat /\ Newlines(b, c) \in Nat /\ Newlines(1, c) = Newlines(1, b) + Newlines(b, c)
        BY NewlinesAdd
      <4> QED BY ONLY <4>1, <4>2
    <3> QED BY <2>5, <2>6, <3>1, <3>2
  <2>8. ASSUME NEW p \in LastTo(items) .. d - 1 PROVE MayGo(p, LastTo(items), d)
    <3>1. LastTo(items) \in 1 .. pos
      BY Standing
    <3>2. CASE p < pos
      <4>1. MayGo(p, LastTo(items), pos)
        BY <3>1, <3>2, Standing
      <4>2. p \in Nat /\ LastTo(items) \in Nat /\ pos \in Nat /\ pos <= d
        BY <2>1, <2>4, <3>1
      <4> QED BY <2>4, <4>1, <4>2, MayGoMore
    <3>3. CASE p >= pos
      <4>1. TrimsRight(pos, p) /\ pos \in 1 .. Len(input)
        BY <2>1, <2>3, <2>4, <3>1, <3>3
      <4> QED BY <4>1 DEF MayGo
    <3> QED BY <2>1, <3>1, <3>2, <3>3
  <2>9. ASSUME NEW p \in d + 1 .. a - 1 PROVE MayGo(p, d + 1, a)
    <3>1. TrimsRight(pos, p) /\ pos \in 1 .. Len(input)
      BY <2>1, <2>3, <2>4
    <3> QED BY <3>1 DEF MayGo
  <2>10. GoodItem(it, a, l)
    <3>1. it.from \in Nat /\ LastTo(items) <= d /\ it.to \in 1 .. a /\ a \in 1 .. Len(input) + 1
      BY <2>1, <2>3, <2>4, <2>6, Standing
    <3> QED BY <2>5, <2>6, <2>7, <2>8, <2>9, <3>1 DEF GoodItem, LineOf
  <2>11. pos < a
    BY <2>1, <2>3
  <2> QED BY <2>1, <2>2, <2>5, <2>10, <2>11, Emitted
<1> QED BY <1>1, <1>2

LEMMA LeftDelimGood ==
  ASSUME LexInv, LexLeftDelim
  PROVE  LexInv' /\ MovesOn
<1> DEFINE a  == AfterLeftDelim
           it == Item(LeftDelim, pos, pos + 1, line)
           l  == line + Newlines(pos, a)
<1>1. /\ Len(input) \in Nat /\ pos \in 1 .. Len(input) /\ Source /\ ~Ended /\ At(pos) = LeftDelim /\ line \in Nat
  BY Standing, Delims DEF LexLeftDelim
<1>2. /\ items' = Append(items, it) /\ pos' = a /\ start' = a /\ line' = l /\ insideAction' = TRUE
      /\ parenDepth' = 0 /\ UNCHANGED input
  BY DEF LexLeftDelim
<1>3. a \in pos + 1 .. Len(input) + 1 /\ \A q \in pos + 1 .. a - 1 : TrimsLeft(pos, q)
  BY <1>1, LeftDelimIs
<1> HIDE DEF a
<1>4. /\ a \in pos .. Len(input) + 1 /\ pos + 1 \in pos .. Len(input) + 1 /\ pos \in 1 .. Len(input) + 1
      /\ pos <= Len(input)
  BY <1>1, <1>3
<1>5. l = 1 + Newlines(1, a) /\ l \in Nat
  BY <1>1, <1>4, LinesCounted
<1>6. it.typ = LeftDelim /\ it.from = pos /\ it.to = pos + 1 /\ it.line = line
  BY <1>1, <1>4, ItemIs, Delims
<1> HIDE DEF it, l
<1>7. it.line = 1 + Newlines(1, pos + 1)
  <2>1. line + Newlines(pos, pos + 1) = 1 + Newlines(1, pos + 1)
    BY <1>1, <1>4, LinesCounted
  <2>2. Newlines(pos, pos + 1) = 0
    BY <1>1, NoNewline, Delims
  <2> QED BY <1>1, <1>6, <2>1, <2>2
<1>8. ASSUME NEW p \in pos + 1 .. a - 1 PROVE MayGo(p, pos + 1, a)
  BY <1>1, <1>3 DEF MayGo
<1>9. GoodItem(it, a, l)
  <2>1. /\ it.from \in Nat /\ LastTo(items) <= pos /\ it.to \in 1 .. a /\ a \in 1 .. Len(input) + 1
        /\ \A p \in LastTo(items) .. pos - 1 : MayGo(p, LastTo(items), pos)
    BY <1>1, <1>3, <1>6, Standing
  <2> QED BY <1>5, <1>6, <1>7, <1>8, <2>1 DEF GoodItem, LineOf
<1>10. pos < a
  BY <1>1, <1>3
<1> QED BY <1>2, <1>5, <1>9, <1>10, Emitted
-----------------------------------------------------------------------------
(* What is passed over without an item: a text that is all spaces, or a     *)
(* comment.                                                                 *)
LEMMA Passed ==
  ASSUME LexInv, ~Ended, pos <= Len(input), NEW x \in pos + 1 .. Len(input) + 1,
         UNCHANGED <<input, parenDepth, insideAction, items>>,
         pos' = x, start' = x, line' = line + Newlines(pos, x),
         \A p \in pos .. x - 1 : MayGo(p, LastTo(items), x)
  PROVE  LexInv' /\ MovesOn
<1> DEFINE l == line + Newlines(pos, x)
<1>1. /\ Len(input) \in Nat /\ pos \in 1 .. Len(input) + 1 /\ Source
      /\ parenDepth \in Nat /\ insideAction \in BOOLEAN /\ LastTo(items) \in 1 .. pos
      /\ \A p \in LastTo(items) .. pos - 1 : MayGo(p, LastTo(items), pos)
  BY Standing
<1>2. l \in Nat /\ l = 1 + Newlines(1, x)
  BY <1>1, LinesCounted
<1> HIDE DEF l
<1>3. ASSUME NEW p \in LastTo(items) .. x - 1 PROVE MayGo(p, LastTo(items), x)
  <2>1. CASE p < pos
    <3>1. MayGo(p, LastTo(items), pos)
      BY <1>1, <2>1
    <3>2. p \in Nat /\ LastTo(items) \in Nat /\ pos \in Nat /\ x \in Nat /\ pos <= x
      BY <1>1
    <3> QED BY <3>1, <3>2, MayGoMore
  <2>2. CASE p >= pos
    BY <1>1, <2>2
  <2> QED BY <1>1, <2>1, <2>2
<1>4. Pending(items, x)
  BY <1>1, <1>3 DEF Pending
<1>5. Faithful(items, x, l)
  BY <1>2, <1>4 DEF LexInv, Faithful, LineAt
<1>6. LexTypes'
  BY <1>1, <1>2 DEF LexInv, LexTypes, Source, l
<1>7. items' = items /\ pos' = x /\ line' = l
  BY DEF l
<1>8. Faithful(items', pos', line')
  BY <1>5, <1>7
<1>9. MovesOn
  BY <1>1 DEF MovesOn
<1> QED BY <1>6, <1>8, <1>9, InvNext

LEMMA TextGood ==
  ASSUME LexInv, LexText
  PROVE  LexInv' /\ MovesOn
<1> DEFINE x    == FirstIn(pos, {LeftDelim})
           stop == IF HasLeftTrimMarker(x + 1) THEN TrimmedEnd(pos, x) ELSE x
<1>1. /\ Len(input) \in Nat /\ pos \in 1 .. Len(input) + 1 /\ Source /\ ~Ended /\ line \in Nat /\ start = pos
      /\ parenDepth \in Nat /\ insideAction \in BOOLEAN /\ At(pos) # LeftDelim
  BY Standing DEF LexText
<1>2. /\ x \in pos .. Len(input) + 1
      /\ x > Len(input) => x = Len(input) + 1
      /\ x <= Len(input) => At(x) = LeftDelim /\ x > pos
  <2>1. x \in pos .. Len(input) + 1 /\ (x <= Len(input) => At(x) \in {LeftDelim})
    BY <1>1, FirstInIs
  <2> HIDE DEF x
  <2> QED BY <1>1, <2>1
<1>3. /\ UNCHANGED <<input, parenDepth, insideAction>>
      /\ IF x > Len(input)
         THEN /\ items' = Append(items, Item(IF x > pos THEN "text" ELSE "EOF", pos, x, line))
              /\ pos' = x /\ start' = x /\ line' = line
         ELSE /\ items' = IF stop > pos
                          THEN Append(items, Item("text", pos, stop, line + Newlines(pos, stop)))
                          ELSE items
              /\ pos' = x /\ start' = x
              /\ line' = line + Newlines(pos, x)
  BY <1>1 DEF LexText
<1> HIDE DEF x
<1>4. CASE x > Len(input)
  <2> DEFINE typ == IF x > pos THEN "text" ELSE "EOF"
             it  == Item(typ, pos, x, line)
  <2>1. items' = Append(items, it) /\ pos' = x /\ start' = x /\ line' = line
    BY <1>3, <1>4
  <2>2. it.typ = typ /\ it.from = pos /\ it.to = x
    BY ItemIs
  <2> HIDE DEF it
  <2>3. LineOf(it) /\ ~(it.typ \notin EndTypes /\ (it.typ # "text" \/ x <= Len(input)))
        /\ (pos < x \/ it.typ \in EndTypes)
    BY <1>1, <1>2, <1>4, <2>2 DEF LineOf, EndTypes
  <2>4. GoodItem(it, x, line)
    <3>1. /\ it.from \in Nat /\ LastTo(items) <= it.from /\ it.to \in 1 .. x /\ x \in 1 .. Len(input) + 1
          /\ \A p \in LastTo(items) .. pos - 1 : MayGo(p, LastTo(items), pos)
      BY <1>1, <1>2, <2>2, Standing
    <3>2. \A p \in it.to .. x - 1 : FALSE
      BY <1>1, <1>2, <2>2
    <3> HIDE DEF typ
    <3> QED BY <2>2, <2>3, <3>1, <3>2 DEF GoodItem
  <2> QED BY <1>1, <1>3, <2>1, <2>3, <2>4, Emitted
<1>5. CASE x <= Len(input)
  <2>0. ~(x > Len(input)) /\ pos <= Len(input) /\ x \in pos + 1 .. Len(input) + 1 /\ At(x) = LeftDelim
        /\ x \in 1 .. Len(input) /\ x \in pos .. Len(input) + 1
    BY <1>1, <1>2, <1>5
  <2>1. stop \in pos .. x /\ \A p \in stop .. x - 1 : TrimsLeft(x, p)
    <3>1. CASE HasLeftTrimMarker(x + 1)
      <4>1. TrimmedEnd(pos, x) \in pos .. x /\ AllSpaces(TrimmedEnd(pos, x), x - 1)
        BY <1>1, <1>2, TrimmedEndIs
      <4>2. stop = TrimmedEnd(pos, x)
        BY <3>1
      <4> HIDE DEF stop
      <4>3. ASSUME NEW p \in stop .. x - 1 PROVE TrimsLeft(x, p)
        <5>1. p < x /\ AllSpaces(p, x - 1)
          BY <1>1, <1>2, <4>1, <4>2 DEF AllSpaces
        <5> QED BY <2>0, <3>1, <5>1 DEF TrimsLeft
      <4> QED BY <4>1, <4>2, <4>3
    <3>2. CASE ~HasLeftTrimMarker(x + 1)
      <4>1. stop = x
        BY <3>2
      <4> HIDE DEF stop
      <4> QED BY <1>1, <1>2, <4>1
    <3> QED BY <3>1, <3>2
  <2>2. /\ items' = IF stop > pos
                    THEN Append(items, Item("text", pos, stop, line + Newlines(pos, stop)))
                    ELSE items
        /\ pos' = x /\ start' = x /\ line' = line + Newlines(pos, x)
    BY <1>3, <2>0
  <2> HIDE DEF stop
  <2>3. CASE stop > pos
    <3> DEFINE it == Item("text", pos, stop, line + Newlines(pos, stop))
               l  == line + Newlines(pos, x)
    <3>1. items' = Append(items, it) /\ line' = l
      BY <2>2, <2>3
    <3>2. it.typ = "text" /\ it.from = pos /\ it.to = stop /\ it.line = line + Newlines(pos, stop)
      BY ItemIs
    <3>3. /\ it.line = 1 + Newlines(1, stop) /\ l = 1 + Newlines(1, x) /\ l \in Nat
      <4>1. stop \in pos .. Len(input) + 1 /\ x \in pos .. Len(input) + 1
        BY <1>1, <1>2, <2>1
      <4> QED BY <1>1, <2>0, <3>2, <4>1, LinesCounted
    <3> HIDE DEF it, l
    <3>4. /\ it.from \in Nat /\ LastTo(items) <= it.from /\ it.to \in 1 .. x /\ x \in 1 .. Len(input) + 1
          /\ \A p \in LastTo(items) .. pos - 1 : MayGo(p, LastTo(items), pos)
      BY <1>1, <1>2, <2>1, <3>2, Standing
    <3>5. \A p \in it.to .. x - 1 : MayGo(p, it.to, x)
      BY <2>0, <2>1, <3>2 DEF MayGo
    <3>6. GoodItem(it, x, l)
      BY <3>2, <3>3, <3>4, <3>5 DEF GoodItem, LineOf
    <3> QED BY <1>1, <1>3, <2>0, <2>2, <3>1, <3>3, <3>6, Emitted
  <2>4. CASE ~(stop > pos)
    <3>1. stop = pos
      BY <1>1, <2>1, <2>4
    <3>2. \A p \in pos .. x - 1 : MayGo(p, LastTo(items), x)
      BY <2>0, <2>1, <3>1 DEF MayGo
    <3> QED BY <1>1, <1>3, <2>0, <2>2, <2>4, <3>2, Passed
  <2> QED BY <2>3, <2>4
<1> QED BY <1>1, <1>2, <1>4, <1>5

LEMMA CommentGood ==
  ASSUME LexInv, LexComment
  PROVE  LexInv' /\ MovesOn
<1> DEFINE o     == AfterLeftDelim
           close == FirstIn(o + 1, {"*/"})
           after == AfterRightDelim(close + 1)
           r     == FirstIn(close + 1, {RightDelim})
<1>1. /\ Len(input) \in Nat /\ pos \in 1 .. Len(input) /\ Source /\ ~Ended /\ At(pos) = LeftDelim /\ At(o) = "/*"
  BY Standing, Delims DEF LexComment
<1>2. CASE close > Len(input) \/ after = 0
  BY <1>2, ErrorGood DEF LexComment
<1>3. CASE ~(close > Len(input) \/ after = 0)
  <2>1. /\ pos' = after /\ start' = after /\ line' = line + Newlines(pos, after)
        /\ UNCHANGED <<input, parenDepth, insideAction, items>>
    BY <1>3 DEF LexComment
  <2>2. /\ o \in {pos + 1, pos + 3} /\ o \in pos + 1 .. Len(input)
        /\ o = pos + 3 => HasLeftTrimMarker(pos + 1)
    <3>1. o \in pos + 1 .. Len(input) + 1 /\ o \in {pos + 1, pos + 3} /\ (o = pos + 3 => HasLeftTrimMarker(pos + 1))
      BY <1>1, LeftDelimIs
    <3> HIDE DEF o
    <3>2. o <= Len(input)
      BY <1>1, <3>1, AtIs
    <3> QED BY <1>1, <3>1, <3>2
  <2> HIDE DEF o
  <2>3. /\ close \in o + 1 .. Len(input) /\ At(close) = "*/"
        /\ \A q \in o + 1 .. close - 1 : At(q) # "*/"
    <3>1. o + 1 \in 1 .. Len(input) + 1
      BY <1>1, <2>2
    <3>2. /\ close \in o + 1 .. Len(input) + 1 /\ (close <= Len(input) => At(close) \in {"*/"})
          /\ \A q \in o + 1 .. close - 1 : At(q) \notin {"*/"}
      BY <1>1, <3>1, FirstInIs
    <3> HIDE DEF close
    <3> QED BY <1>1, <1>3, <3>2
  <2> HIDE DEF close
  <2>4. close + 1 \in 1 .. Len(input) + 1
    BY <1>1, <2>2, <2>3
  <2>5. /\ r \in {close + 1, close + 3} /\ r <= Len(input) /\ At(r) = RightDelim /\ after \in r + 1 .. Len(input) + 1
        /\ r = close + 3 => HasRightTrimMarker(close + 1)
        /\ \A q \in r + 1 .. after - 1 : TrimsRight(close + 1, q)
    <3>1. AtRightDelim(close + 1)
      BY <1>3 DEF AtRightDelim
    <3> HIDE DEF r, after
    <3>2. r = FirstIn(close + 1, {RightDelim}) /\ after = AfterRightDelim(close + 1)
      BY DEF r, after
    <3> DEFINE p == close + 1
    <3>3. /\ r \in {p, p + 2} /\ r <= Len(input) /\ At(r) = RightDelim /\ after \in r + 1 .. Len(input) + 1
          /\ r = p + 2 => HasRightTrimMarker(p)
          /\ \A q \in (p .. r - 1) \cup (r + 1 .. after - 1) : TrimsRight(p, q)
      <4> HIDE DEF p
      <4>1. p \in 1 .. Len(input) + 1 /\ r = FirstIn(p, {RightDelim}) /\ after = AfterRightDelim(p) /\ AtRightDelim(p)
        BY <2>4, <3>1, <3>2 DEF p
      <4> QED BY <1>1, <4>1, RightDelimIs
    <3>4. p + 2 = close + 3
      BY <1>1, <2>3, <2>2
    <3> QED BY <3>3, <3>4
  <2> HIDE DEF after, r
  <2>6. Comment(pos, r)
    <3>1. o \in {pos + 1, pos + 3} /\ close \in {r - 1, r - 3} /\ o < close
      BY <1>1, <2>2, <2>3, <2>5
    <3>2. o = pos + 3 => HasLeftTrimMarker(pos + 1)
      BY <2>2
    <3>3. close = r - 3 => HasRightTrimMarker(close + 1)
      BY <1>1, <2>2, <2>3, <2>5
    <3> QED BY <1>1, <2>3, <2>5, <3>1, <3>2, <3>3 DEF Comment
  <2>7. /\ pos <= Len(input) /\ after \in pos + 1 .. Len(input) + 1 /\ close + 1 \in 1 .. Len(input)
        /\ LastTo(items) \in 1 .. pos /\ r \in pos .. after - 1
    BY <1>1, <2>2, <2>3, <2>5, Standing
  <2>8. ASSUME NEW p \in pos .. after - 1 PROVE MayGo(p, LastTo(items), after)
    <3>1. CASE p <= r
      <4>1. pos \in LastTo(items) .. p /\ r \in p .. after - 1
        BY <1>1, <2>7, <3>1
      <4> QED BY <2>6, <4>1 DEF MayGo
    <3>2. CASE p > r
      <4>1. TrimsRight(close + 1, p)
        BY <1>1, <2>5, <2>7, <3>2
      <4> QED BY <2>7, <4>1 DEF MayGo
    <3> QED BY <1>1, <2>7, <3>1, <3>2
  <2> QED BY <1>1, <2>1, <2>7, <2>8, Passed
<1> QED BY <1>2, <1>3
-----------------------------------------------------------------------------
(* Inside an action.                                                        *)
LEMMA NotTheEnd ==
  /\ "eof" \notin Spaces /\ "eof" \notin {"=", "|"} \cup OtherPrintable
  /\ "eof" \notin AlphaNumeric /\ "eof" \notin Digits \cup {"+", "-", "."}
  /\ "eof" # "\"" /\ "eof" # "'"
<1>1. "eof" \notin Spaces
  BY Zenon DEF Spaces
<1>2. "eof" \notin {"=", "|"} \cup OtherPrintable
  BY Zenon DEF OtherPrintable, LeftDelim, RightDelim
<1>3. "eof" \notin AlphaNumeric
  <2>1. "eof" \notin Names
    BY Zenon, NamesAssumption
  <2>2. "eof" \notin Keywords /\ "eof" \notin Bools /\ "eof" \notin Digits
    BY Zenon DEF Keywords, Bools, Digits
  <2> QED BY Zenon, <2>1, <2>2 DEF AlphaNumeric
<1>4. "eof" \notin Digits \cup {"+", "-", "."}
  BY Zenon DEF Digits
<1>5. "eof" # "\"" /\ "eof" # "'"
  BY Zenon
<1> QED BY Zenon, <1>1, <1>2, <1>3, <1>4, <1>5

LEMMA InAction ==
  ASSUME LexInv, NEW chars, "eof" \notin chars, Inside(chars)
  PROVE  /\ ~Ended /\ Len(input) \in Nat /\ pos \in 1 .. Len(input) /\ Source /\ parenDepth \in Nat
         /\ At(pos) \in chars
         /\ pos + 1 \in 1 .. Len(input) + 1 /\ pos + 1 \in pos + 1 .. Len(input) + 1
BY Standing DEF Inside

LEMMA ScannedGood ==
  ASSUME LexInv, ~Ended, pos <= Len(input), NEW typ, NEW x \in pos + 1 .. Len(input) + 1, Scanned(typ, x)
  PROVE  LexInv' /\ MovesOn
<1>1. EmitTo(typ, x) /\ UNCHANGED <<input, insideAction>> /\ parenDepth' \in Nat
  BY Standing DEF Scanned
<1> QED BY <1>1, ScansGood

LEMMA SpaceGood ==
  ASSUME LexInv, LexSpace
  PROVE  LexInv' /\ MovesOn
<1> DEFINE x == FirstNotIn(pos, Spaces)
<1>1. /\ ~Ended /\ Len(input) \in Nat /\ pos \in 1 .. Len(input) /\ Source /\ At(pos) \in Spaces
  BY NotTheEnd, InAction DEF LexSpace
<1>2. Scanned(" ", x)
  BY DEF LexSpace
<1>3. PICK typ : Scanned(typ, x)
  <2> HIDE DEF x
  <2> QED BY Zenon, <1>2
<1>4. x \in pos + 1 .. Len(input) + 1
  BY <1>1, FirstNotInIs
<1> HIDE DEF x
<1> QED BY <1>1, <1>3, <1>4, ScannedGood

LEMMA SymbolGood ==
  ASSUME LexInv, LexSymbol
  PROVE  LexInv' /\ MovesOn
<1>1. CASE Inside({"=", "|"} \cup OtherPrintable) /\ Scanned(At(pos), pos + 1)
  <2>1. PICK typ : Scanned(typ, pos + 1)
    BY Zenon, <1>1
  <2>2. ~Ended /\ pos <= Len(input) /\ pos + 1 \in pos + 1 .. Len(input) + 1
    <3> DEFINE chars == {"=", "|"} \cup OtherPrintable
    <3>1. "eof" \notin chars /\ Inside(chars)
      BY Zenon, <1>1, NotTheEnd
    <3> HIDE DEF chars
    <3> QED BY <3>1, InAction
  <2> QED BY <2>1, <2>2, ScannedGood
<1>2. CASE Inside({":"}) /\ IF At(pos + 1) = "=" THEN Scanned(":=", pos + 2) ELSE LexError
  <2>1. ~Ended /\ Len(input) \in Nat /\ pos \in 1 .. Len(input) /\ Source
    BY <1>2, InAction
  <2>2. CASE At(pos + 1) = "="
    <3>1. Scanned(":=", pos + 2)
      BY <1>2, <2>2
    <3>2. pos + 2 \in pos + 1 .. Len(input) + 1
      BY <2>1, <2>2, AtIs
    <3> QED BY <2>1, <3>1, <3>2, ScannedGood
  <2>3. CASE At(pos + 1) # "="
    BY <1>2, <2>3, ErrorGood
  <2> QED BY <2>2, <2>3
<1>3. CASE Inside({"eof", "unprintable"}) /\ LexError
  BY <1>3, ErrorGood
<1> QED BY <1>1, <1>2, <1>3 DEF LexSymbol

LEMMA ParenGood ==
  ASSUME LexInv, LexParen
  PROVE  LexInv' /\ MovesOn
<1>1. CASE Inside({"("}) /\ EmitTo("(", pos + 1) /\ parenDepth' = parenDepth + 1 /\ UNCHANGED <<input, insideAction>>
  <2>1. ~Ended /\ pos <= Len(input) /\ parenDepth \in Nat /\ pos + 1 \in pos + 1 .. Len(input) + 1
    BY <1>1, InAction
  <2> QED BY <1>1, <2>1, ScansGood
<1>2. CASE /\ Inside({")"})
           /\ IF parenDepth = 0
              THEN LexError
              ELSE /\ EmitTo(")", pos + 1)
                   /\ parenDepth' = parenDepth - 1 /\ UNCHANGED <<input, insideAction>>
  <2>1. ~Ended /\ pos <= Len(input) /\ parenDepth \in Nat /\ pos + 1 \in pos + 1 .. Len(input) + 1
    BY <1>2, InAction
  <2>2. CASE parenDepth = 0
    BY <1>2, <2>2, ErrorGood
  <2>3. CASE parenDepth # 0
    BY <1>2, <2>1, <2>3, ScansGood
  <2> QED BY <2>2, <2>3
<1> QED BY <1>1, <1>2 DEF LexParen

LEMMA IdentifierGood ==
  ASSUME LexInv, LexIdentifier
  PROVE  LexInv' /\ MovesOn
<1> DEFINE end == FirstNotIn(pos, AlphaNumeric)
<1>1. /\ ~Ended /\ Len(input) \in Nat /\ pos \in 1 .. Len(input) /\ Source /\ At(pos) \in AlphaNumeric
  <2>1. "eof" \notin AlphaNumeric \ Digits /\ Inside(AlphaNumeric \ Digits)
    BY NotTheEnd DEF LexIdentifier
  <2> QED BY <2>1, InAction
<1>2. LexError \/ \E typ : Scanned(typ, end)
  BY Zenon DEF LexIdentifier
<1>3. end \in pos + 1 .. Len(input) + 1
  BY <1>1, FirstNotInIs
<1> HIDE DEF end
<1> QED BY <1>1, <1>2, <1>3, ScannedGood, ErrorGood

LEMMA FieldGood ==
  ASSUME LexInv, LexFieldOrVariable
  PROVE  LexInv' /\ MovesOn
<1> DEFINE end == IF AtTerminator(pos + 1) THEN pos + 1 ELSE FirstNotIn(pos + 1, AlphaNumeric)
<1>1. /\ ~Ended /\ Len(input) \in Nat /\ pos \in 1 .. Len(input) /\ Source /\ pos + 1 \in 1 .. Len(input) + 1
  BY InAction DEF LexFieldOrVariable
<1>2. LexError \/ \E typ : Scanned(typ, end)
  BY Zenon DEF LexFieldOrVariable
<1>3. end \in pos + 1 .. Len(input) + 1
  BY <1>1, FirstNotInIs
<1> HIDE DEF end
<1> QED BY <1>1, <1>2, <1>3, ScannedGood, ErrorGood

LEMMA NumberGood ==
  ASSUME LexInv, LexNumber
  PROVE  LexInv' /\ MovesOn
<1> DEFINE signed == IF At(pos) \in {"+", "-"} THEN pos + 1 ELSE pos
           whole  == FirstNotIn(signed, Digits)
           end    == IF At(whole) = "." THEN FirstNotIn(whole + 1, Digits) ELSE whole
<1>1. /\ ~Ended /\ Len(input) \in Nat /\ pos \in 1 .. Len(input) /\ Source
      /\ At(pos) \in Digits \cup {"+", "-", "."}
  BY NotTheEnd, InAction DEF LexNumber
<1>2. LexError \/ \E typ : Scanned(typ, end)
  BY Zenon DEF LexNumber
<1>3. end \in pos + 1 .. Len(input) + 1
  <2>1. /\ signed \in pos .. Len(input) + 1 /\ signed \in 1 .. Len(input) + 1
        /\ signed = pos => At(pos) \in Digits \cup {"."}
    BY <1>1
  <2> HIDE DEF signed
  <2>2. /\ whole \in signed .. Len(input) + 1
        /\ signed = pos /\ At(pos) \in Digits => whole > pos
    BY <1>1, <2>1, FirstNotInIs
  <2> HIDE DEF whole
  <2>3. whole \in pos .. Len(input) + 1 /\ (whole = pos => At(whole) = ".")
    BY <1>1, <2>1, <2>2
  <2>4. CASE At(whole) = "."
    <3>1. whole + 1 \in 1 .. Len(input) + 1
      BY <1>1, <2>3, <2>4, AtIs
    <3>2. FirstNotIn(whole + 1, Digits) \in whole + 1 .. Len(input) + 1
      BY <1>1, <3>1, FirstNotInIs
    <3> QED BY <1>1, <2>3, <2>4, <3>2
  <2>5. CASE At(whole) # "."
    BY <1>1, <2>3, <2>5
  <2> QED BY <2>4, <2>5
<1> HIDE DEF end
<1> QED BY <1>1, <1>2, <1>3, ScannedGood, ErrorGood

LEMMA QuotedGood ==
  ASSUME LexInv, NEW mark, mark # "eof", NEW typ, LexQuoted(mark, typ)
  PROVE  LexInv' /\ MovesOn
<1> DEFINE escaped[p \in pos .. Len(input)] ==
             p > pos + 1 /\ At(p - 1) = "\\" /\ ~escaped[p - 1]
           ends == {p \in pos + 1 .. Len(input) : At(p) = "nl" \/ (At(p) = mark /\ ~escaped[p])}
           end  == CHOOSE p \in ends : \A o \in ends : p <= o
<1>1. /\ ~Ended /\ Len(input) \in Nat /\ pos \in 1 .. Len(input)
  BY InAction DEF LexQuoted
<1>2. IF ends = {} \/ At(end) = "nl" THEN LexError ELSE Scanned(typ, end + 1)
  BY Zenon DEF LexQuoted
<1>3. ends \in SUBSET (pos + 1 .. Len(input))
  OBVIOUS
<1> HIDE DEF ends
<1>4. CASE ends = {}
  BY <1>2, <1>4, ErrorGood
<1>5. CASE ends # {}
  <2>1. \E p \in ends : \A o \in ends : p <= o
    <3>1. ends \in SUBSET Nat
      BY <1>1, <1>3
    <3> QED BY <1>5, <3>1, Least
  <2>2. end \in ends
    BY <2>1
  <2> HIDE DEF end
  <2>3. end + 1 \in pos + 1 .. Len(input) + 1
    BY <1>1, <1>3, <2>2
  <2>4. LexError \/ Scanned(typ, end + 1)
    BY <1>2
  <2> QED BY <1>1, <2>3, <2>4, ErrorGood, ScannedGood
<1> QED BY <1>4, <1>5

LEMMA RawQuoteGood ==
  ASSUME LexInv, LexRawQuote
  PROVE  LexInv' /\ MovesOn
<1> DEFINE end == FirstIn(pos + 1, {"backquote"})
<1>1. /\ ~Ended /\ Len(input) \in Nat /\ pos \in 1 .. Len(input) /\ Source /\ pos + 1 \in 1 .. Len(input) + 1
  BY InAction DEF LexRawQuote
<1>2. end \in pos + 1 .. Len(input) + 1
  BY <1>1, FirstInIs
<1>3. IF end > Len(input) THEN LexError ELSE Scanned("string", end + 1)
  BY DEF LexRawQuote
<1> HIDE DEF end
<1>4. CASE end > Len(input)
  BY <1>3, <1>4, ErrorGood
<1>5. CASE ~(end > Len(input))
  <2>1. end + 1 \in pos + 1 .. Len(input) + 1
    BY <1>1, <1>2, <1>5
  <2> QED BY <1>1, <1>3, <1>5, <2>1, ScannedGood
<1> QED BY <1>4, <1>5

-----------------------------------------------------------------------------
(* The lexer.                                                               *)
LEMMA LexInit ==
  ASSUME NEW source \in Seq(STRING \ {"eof"}), StartLexing(source)
  PROVE  LexInv
<1>1. /\ input = source /\ items = <<>> /\ pos = 1 /\ start = 1 /\ line = 1 /\ parenDepth = 0
      /\ insideAction = FALSE /\ Len(input) \in Nat
  BY DEF StartLexing
<1>2. LexTypes
  <2>1. items \in Seq({})
    BY <1>1
  <2>2. pos \in 1 .. Len(input) + 1 /\ Source
    BY <1>1 DEF Source
  <2> QED BY <1>1, <2>1, <2>2 DEF LexTypes
<1>3. Newlines(1, 1) = 0
  <2>1. {p \in 1 .. 1 - 1 : At(p) = "nl"} = {}
    OBVIOUS
  <2> QED BY <2>1, FS_EmptySet DEF Newlines
<1>4. Faithful(items, pos, line)
  BY <1>1, <1>3 DEF Faithful, Pending, LastTo, Drops, LineAt, EndsIn
<1> QED BY <1>2, <1>4 DEF LexInv

LEMMA ItemGood ==
  ASSUME LexInv, NextItem
  PROVE  LexInv' /\ MovesOn
<1>1. CASE LexQuote
  BY <1>1, NotTheEnd, QuotedGood DEF LexQuote
<1>2. CASE LexChar
  BY <1>2, NotTheEnd, QuotedGood DEF LexChar
<1> QED BY <1>1, <1>2, TextGood, LeftDelimGood, CommentGood, RightDelimGood, SpaceGood, SymbolGood, ParenGood,
           IdentifierGood, FieldGood, NumberGood, RawQuoteGood DEF NextItem

LEMMA LexStays ==
  ASSUME LexInv, UNCHANGED lexer
  PROVE  LexInv'
<1>1. input' = input /\ items' = items /\ pos' = pos /\ line' = line
  BY DEF lexer
<1>2. LexTypes'
  BY DEF lexer, LexInv, LexTypes, Source
<1>3. Faithful(items', pos', line')
  BY <1>1 DEF LexInv
<1> QED BY <1>1, <1>2, <1>3, InvNext

LEMMA LexInvHolds == LexerSpec => []LexInv
<1>1. (\E source \in Seq(STRING \ {"eof"}) : StartLexing(source)) => LexInv
  BY LexInit
<1>2. LexInv /\ [NextItem]_lexer => LexInv'
  BY ItemGood, LexStays
<1> QED BY <1>1, <1>2, PTL DEF LexerSpec

(* Whatever the source, of any length: between two items nothing is lost    *)
(* but comments, trim markers and what these trim, and every item has the   *)
(* line at its end (lex.go lexText, lexComment, lexRightDelim).             *)
THEOREM NothingIsLost == LexerSpec => []ItemsAreFaithful
<1>1. LexInv => ItemsAreFaithful
  BY FaithfulItems
<1> QED BY <1>1, LexInvHolds, PTL

(* Every state function moves on in the source or ends the scan: the loop   *)
(* of nextItem cannot spin on the same place (lex.go nextItem).             *)
THEOREM ScanMovesOn == LexerSpec => [][pos < pos' \/ Ended']_lexer
<1>1. LexInv /\ [NextItem]_lexer => [pos < pos' \/ Ended']_lexer
  BY ItemGood DEF MovesOn
<1> QED BY <1>1, LexInvHolds, PTL DEF LexerSpec
=============================================================================
