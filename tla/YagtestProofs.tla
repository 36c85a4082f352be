--------------------------- MODULE YagtestProofs ---------------------------
(***************************************************************************)
(* Proofs about TestSession and ShownMessages, for any project, edits and  *)
(* commands.                                                               *)
(***************************************************************************)
EXTENDS TestSession, ShownMessages, SequenceTheorems, FiniteSetTheorems, WellFoundedInduction, TLAPS

-----------------------------------------------------------------------------
(* Lists.                                                                  *)
\* A function on 1 .. n is a list.
LEMMA ListFrom ==
  ASSUME NEW n \in Nat, NEW S, NEW q \in [1 .. n -> S]
  PROVE  IsList(q) /\ Len(q) = n /\ DOMAIN q = 1 .. n
<1>1. DOMAIN q = 1 .. n /\ q \in Seq(S) /\ Len(q) = n
  OBVIOUS
<1> DEFINE R == Range(q)
<1>2. q \in [1 .. n -> R]
  <2>1. \A i \in 1 .. n : q[i] \in R
    BY <1>1 DEF Range
  <2> HIDE DEF R
  <2> QED BY <2>1
<1> HIDE DEF R
<1>3. q \in Seq(R)
  BY <1>2
<1> QED BY <1>1, <1>3 DEF IsList, R

\* A sequence over any set is a list.
LEMMA ListIn ==
  ASSUME NEW S, NEW q \in Seq(S)
  PROVE  IsList(q)
<1>1. Len(q) \in Nat /\ q \in [1 .. Len(q) -> S]
  BY LenProperties
<1> QED BY <1>1, ListFrom

\* A list has a length, and its range is what stands at its places.
LEMMA ListIs ==
  ASSUME NEW q, IsList(q)
  PROVE  /\ Len(q) \in Nat /\ DOMAIN q = 1 .. Len(q)
         /\ \A i \in 1 .. Len(q) : q[i] \in Range(q)
         /\ \A x \in Range(q) : \E i \in 1 .. Len(q) : q[i] = x
         /\ q = <<>> <=> Len(q) = 0
<1>1. q \in Seq(Range(q))
  BY DEF IsList
<1>2. Len(q) \in Nat /\ DOMAIN q = 1 .. Len(q)
  BY <1>1, LenProperties
<1>3. q = <<>> <=> Len(q) = 0
  BY <1>1, EmptySeq
<1> QED BY <1>2, <1>3 DEF Range

\* The empty list.
LEMMA ListEmpty == IsList(<<>>) /\ Range(<<>>) = {}
BY DEF IsList, Range

\* A list with a first member, and the rest of it.
LEMMA ListHead ==
  ASSUME NEW q, IsList(q), q # <<>>
  PROVE  /\ Head(q) = q[1] /\ IsList(Tail(q)) /\ Len(Tail(q)) = Len(q) - 1
         /\ \A i \in 1 .. Len(Tail(q)) : Tail(q)[i] = q[i + 1]
         /\ Range(q) = {Head(q)} \cup Range(Tail(q))
<1>1. q \in Seq(Range(q)) /\ Len(q) \in Nat /\ Len(q) # 0 /\ DOMAIN q = 1 .. Len(q)
  BY ListIs DEF IsList
<1>2. Head(q) = q[1]
  BY <1>1
<1>3. /\ Tail(q) \in Seq(Range(q)) /\ Len(Tail(q)) = Len(q) - 1 /\ Len(Tail(q)) \in Nat
      /\ \A i \in 1 .. Len(Tail(q)) : Tail(q)[i] = q[i + 1]
  BY <1>1, HeadTailProperties
<1>4. DOMAIN Tail(q) = 1 .. Len(Tail(q))
  BY <1>3
<1>5. IsList(Tail(q))
  BY <1>3, ListIn
<1>6. Range(q) = {q[1]} \cup Range(Tail(q))
  <2>1. ASSUME NEW i \in 1 .. Len(q) PROVE q[i] \in {q[1]} \cup Range(Tail(q))
    <3>1. CASE i = 1
      BY <3>1
    <3>2. CASE i # 1
      <4>1. i - 1 \in 1 .. Len(Tail(q)) /\ (i - 1) + 1 = i
        BY <1>1, <1>3, <3>2
      <4>2. Tail(q)[i - 1] = q[i]
        BY <1>3, <4>1
      <4> QED BY <1>4, <4>1, <4>2 DEF Range
    <3> QED BY <3>1, <3>2
  <2>2. ASSUME NEW i \in 1 .. Len(Tail(q)) PROVE Tail(q)[i] \in Range(q)
    <3>1. i + 1 \in 1 .. Len(q)
      BY <1>1, <1>3
    <3> QED BY <1>1, <1>3, <3>1 DEF Range
  <2>3. 1 \in 1 .. Len(q)
    BY <1>1
  <2> QED BY <1>1, <1>4, <2>1, <2>2, <2>3 DEF Range
<1> QED BY <1>2, <1>3, <1>5, <1>6

\* Two lists, one after the other.
LEMMA ListConcat ==
  ASSUME NEW q, NEW l, IsList(q), IsList(l)
  PROVE  /\ IsList(q \o l) /\ Len(q \o l) = Len(q) + Len(l)
         /\ \A i \in 1 .. Len(q) : (q \o l)[i] = q[i]
         /\ \A i \in 1 .. Len(l) : (q \o l)[Len(q) + i] = l[i]
         /\ Range(q \o l) = Range(q) \cup Range(l)
<1> DEFINE A == Range(q) \cup Range(l)
<1>1. q \in Seq(A) /\ l \in Seq(A) /\ Len(q) \in Nat /\ Len(l) \in Nat
  <2>1. q \in Seq(Range(q)) /\ l \in Seq(Range(l))
    BY DEF IsList
  <2> HIDE DEF A
  <2>2. Range(q) \subseteq A /\ Range(l) \subseteq A
    BY DEF A
  <2> QED BY <2>1, <2>2, ListIs
<1>2. /\ q \o l \in Seq(A) /\ Len(q \o l) = Len(q) + Len(l)
      /\ \A i \in 1 .. Len(q) + Len(l) : (q \o l)[i] = IF i <= Len(q) THEN q[i] ELSE l[i - Len(q)]
  <2> HIDE DEF A
  <2> QED BY <1>1, ConcatProperties
<1>3. \A i \in 1 .. Len(q) : (q \o l)[i] = q[i]
  BY <1>1, <1>2
<1>4. \A i \in 1 .. Len(l) : (q \o l)[Len(q) + i] = l[i]
  <2>1. ASSUME NEW i \in 1 .. Len(l) PROVE (q \o l)[Len(q) + i] = l[i]
    <3>1. Len(q) + i \in 1 .. Len(q) + Len(l) /\ ~(Len(q) + i <= Len(q)) /\ (Len(q) + i) - Len(q) = i
      BY <1>1
    <3> QED BY <1>2, <3>1
  <2> QED BY <2>1
<1> HIDE DEF A
<1>5. DOMAIN (q \o l) = 1 .. Len(q) + Len(l) /\ DOMAIN q = 1 .. Len(q) /\ DOMAIN l = 1 .. Len(l)
  BY <1>1, <1>2, ListIs
<1>6. Range(q \o l) = Range(q) \cup Range(l)
  <2>1. ASSUME NEW i \in 1 .. Len(q) + Len(l) PROVE (q \o l)[i] \in Range(q) \cup Range(l)
    <3>1. CASE i <= Len(q)
      <4>1. i \in 1 .. Len(q)
        BY <1>1, <3>1
      <4> QED BY <1>3, <1>5, <4>1 DEF Range
    <3>2. CASE ~(i <= Len(q))
      <4>1. i - Len(q) \in 1 .. Len(l) /\ Len(q) + (i - Len(q)) = i
        BY <1>1, <3>2
      <4> QED BY <1>4, <1>5, <4>1 DEF Range
    <3> QED BY <3>1, <3>2
  <2>2. ASSUME NEW i \in 1 .. Len(q) PROVE q[i] \in Range(q \o l)
    <3>1. i \in 1 .. Len(q) + Len(l)
      BY <1>1
    <3> QED BY <1>3, <1>5, <3>1 DEF Range
  <2>3. ASSUME NEW i \in 1 .. Len(l) PROVE l[i] \in Range(q \o l)
    <3>1. Len(q) + i \in 1 .. Len(q) + Len(l)
      BY <1>1
    <3> QED BY <1>4, <1>5, <3>1 DEF Range
  <2> QED BY <1>5, <2>1, <2>2, <2>3 DEF Range
<1>7. IsList(q \o l)
  BY <1>2, ListIn
<1> QED BY <1>2, <1>3, <1>4, <1>6, <1>7

-----------------------------------------------------------------------------
(* What there is, and what a session is.                                   *)
IsPath(p)   == IsList(p) /\ Range(p) \subseteq File
IsPaths(ps) == IsList(ps) /\ \A p \in Range(ps) : IsPath(p)

IsRecord(s) ==
  s = [kind |-> s.kind, config |-> s.config, paths |-> s.paths, todo |-> s.todo, phase |-> s.phase,
       listed |-> s.listed, unread |-> s.unread, tests |-> s.tests, done |-> s.done, bad |-> s.bad, code |-> s.code,
       ran |-> s.ran, read |-> s.read, began |-> s.began]

IsSession(s) ==
  /\ IsRecord(s)
  /\ IsPaths(s.paths) /\ IsPaths(s.todo)
  /\ IsList(s.unread) /\ Range(s.unread) \subseteq File
  /\ IsList(s.tests) /\ \A t \in Range(s.tests) : t.file \in File
  /\ s.done \in Nat /\ (s.phase = "load" => s.done = 0) /\ (s.phase = "run" => s.done <= Len(s.tests))
  /\ \A r \in s.ran : r.test.file \in File

OneByName(sn) == \A s, z \in sn : s.name = z.name => s = z

TypeInv ==
  /\ files = [f \in File |-> [at |-> files[f].at, suite |-> files[f].suite]]
  /\ \A f \in File : files[f].suite = NoSuite \/ IsSuite(files[f].suite)
  /\ snaps = [q \in SnapshotFiles |-> snaps[q]]
  /\ \A q \in SnapshotFiles : OneByName(snaps[q])
  /\ \A c \in may : IsPaths(c.paths)
  /\ IsSession(session)

(* The tests of a file, as a session gets them.                            *)
LoadedTests(f) ==
  LET loaded == LoadTestFile(files[f].suite)
  IN  [i \in DOMAIN loaded.tests |-> [loaded.tests[i] EXCEPT !.file = f]]

\* Merging in the defaults leaves a test its fields.
LEMMA MergedIs ==
  ASSUME NEW test, NEW suite
  PROVE  DOMAIN Merged(test, suite) = DOMAIN test
BY DEF Merged

\* The tests of a file are a list of that file; one that expects no run takes no snapshot.
LEMMA LoadedIs ==
  ASSUME NEW f \in File, IsSuite(files[f].suite)
  PROVE  /\ IsList(LoadedTests(f))
         /\ \A t \in Range(LoadedTests(f)) : t.file = f
         /\ LoadTestFile(files[f].suite).ok =>
              \A t \in Range(LoadedTests(f)) : t.expected.no_trigger => ~t.snapshot
<1> DEFINE suite == files[f].suite
           loaded == LoadTestFile(suite)
           n == Len(suite.tests)
<1>1. IsList(suite.tests) /\ n \in Nat /\ DOMAIN suite.tests = 1 .. n /\ (suite.suite \/ n = 1)
  <2> HIDE DEF suite
  <2>1. IsSuite(suite)
    BY DEF suite
  <2> QED BY <2>1, ListIs DEF IsSuite
<1>2. ASSUME NEW i \in 1 .. n
      PROVE  {"file", "snapshot", "expected"} \subseteq DOMAIN suite.tests[i]
  <2> HIDE DEF suite
  <2>1. IsSuite(suite) /\ suite.tests[i] \in Range(suite.tests)
    BY <1>1, ListIs DEF suite
  <2> QED BY <2>1 DEF IsSuite
<1>3. /\ DOMAIN loaded.tests = 1 .. n
      /\ \A i \in 1 .. n : loaded.tests[i] = Merged(suite.tests[i], suite)
  <2> HIDE DEF suite, n
  <2>1. CASE suite.suite
    BY <1>1, <2>1 DEF LoadTestFile, LoadTestSuite
  <2>2. CASE ~suite.suite
    <3>1. loaded.tests = <<Merged(suite.tests[1], suite)>> /\ n = 1
      BY <1>1, <2>2 DEF LoadTestFile, LoadTestCase
    <3> QED BY <3>1
  <2> QED BY <2>1, <2>2
<1>4. \A i \in 1 .. n : DOMAIN loaded.tests[i] = DOMAIN suite.tests[i]
  <2> HIDE DEF loaded, n, suite
  <2> QED BY <1>3, MergedIs
<1> DEFINE l == LoadedTests(f)
<1>5. l = [i \in 1 .. n |-> [loaded.tests[i] EXCEPT !.file = f]]
  <2>1. l = [i \in DOMAIN loaded.tests |-> [loaded.tests[i] EXCEPT !.file = f]]
    BY DEF LoadedTests
  <2> HIDE DEF l, loaded, n
  <2> QED BY <1>3, <2>1
<1>6. loaded.ok => \A i \in 1 .. n : loaded.tests[i].expected.no_trigger => ~loaded.tests[i].snapshot
  <2>1. SUFFICES ASSUME loaded.ok, NEW i \in 1 .. n PROVE ValidateNoTrigger(loaded.tests[i])
    BY DEF ValidateNoTrigger
  <2>2. loaded.tests[i] = Merged(suite.tests[i], suite)
    <3> HIDE DEF loaded, suite, n
    <3> QED BY <1>3
  <2>3. CASE suite.suite
    <3> HIDE DEF suite, n
    <3>1. loaded = LoadTestSuite(suite)
      BY <2>3 DEF LoadTestFile
    <3>2. LoadTestSuite(suite).ok => \A j \in DOMAIN suite.tests : ValidateNoTrigger(Merged(suite.tests[j], suite))
      BY DEF LoadTestSuite
    <3>3. loaded.ok
      BY <2>1
    <3> HIDE DEF loaded
    <3> QED BY <1>1, <2>2, <3>1, <3>2, <3>3
  <2>4. CASE ~suite.suite
    <3> HIDE DEF suite, n
    <3>1. loaded = LoadTestCase(suite) /\ n = 1 /\ i = 1
      BY <1>1, <2>4 DEF LoadTestFile
    <3>2. LoadTestCase(suite).ok => ValidateNoTrigger(Merged(suite.tests[1], suite))
      BY DEF LoadTestCase
    <3>3. loaded.ok
      BY <2>1
    <3> HIDE DEF loaded
    <3> QED BY <2>2, <3>1, <3>2, <3>3
  <2> QED BY <2>3, <2>4
<1> HIDE DEF l, loaded, n, suite
<1>7. n \in Nat /\ IsList(l) /\ DOMAIN l = 1 .. n
  <2> DEFINE S == {[loaded.tests[i] EXCEPT !.file = f] : i \in 1 .. n}
  <2>1. l \in [1 .. n -> S]
    BY <1>5
  <2> HIDE DEF S
  <2> QED BY <1>1, <2>1, ListFrom
<1>8. ASSUME NEW i \in 1 .. n
      PROVE  /\ l[i].file = f
             /\ l[i].snapshot = loaded.tests[i].snapshot /\ l[i].expected = loaded.tests[i].expected
  <2>1. l[i] = [loaded.tests[i] EXCEPT !.file = f]
    BY <1>5
  <2>2. {"file", "snapshot", "expected"} \subseteq DOMAIN loaded.tests[i]
    BY <1>2, <1>4
  <2> QED BY <2>1, <2>2
<1> QED BY <1>6, <1>7, <1>8 DEF Range, l, loaded, suite

-----------------------------------------------------------------------------
(* What each step makes of the session.                                    *)
Unmoved(z, s) ==
  /\ z.kind = s.kind /\ z.config = s.config /\ z.paths = s.paths /\ z.began = s.began

\* No session.
LEMMA IdleIs ==
  /\ IsSession(Idle) /\ Idle.kind = "none" /\ Idle.todo = <<>> /\ Idle.tests = <<>> /\ Idle.unread = <<>>
  /\ Idle.paths = <<>> /\ Idle.phase = "path" /\ Idle.ran = {} /\ Idle.read = {} /\ Idle.done = 0 /\ Idle.code = 0
  /\ Idle.began = 0 /\ Idle.bad = FALSE
<1>1. IsList(<<>>) /\ Range(<<>>) = {} /\ Len(<<>>) = 0
  BY ListEmpty
<1> QED BY <1>1 DEF Idle, IsSession, IsRecord, IsPaths

\* A session that begins has run and read nothing.
LEMMA BeginIs ==
  ASSUME NEW c, IsPaths(c.paths), NEW z, z = Begin(c)
  PROVE  /\ IsSession(z) /\ z.kind = c.kind /\ z.config = c.config /\ z.paths = c.paths /\ z.todo = c.paths
         /\ z.phase = "path" /\ z.unread = <<>> /\ z.tests = <<>> /\ z.done = 0 /\ z.code = 0
         /\ z.ran = {} /\ z.read = {} /\ z.began = now
<1>1. IsList(<<>>) /\ Range(<<>>) = {} /\ Len(<<>>) = 0
  BY ListEmpty
<1>2. /\ IsRecord(z) /\ z.kind = c.kind /\ z.config = c.config /\ z.paths = c.paths /\ z.todo = c.paths
      /\ z.phase = "path" /\ z.unread = <<>> /\ z.tests = <<>> /\ z.done = 0 /\ z.code = 0
      /\ z.ran = {} /\ z.read = {} /\ z.began = now
  BY DEF Begin, Idle, IsRecord
<1>3. IsSession(z)
  BY <1>1, <1>2 DEF IsSession
<1> QED BY <1>2, <1>3

\* What PathDone changes of a session.
LEMMA PathDoneIs ==
  ASSUME NEW s, IsSession(s), NEW code, NEW z, z = PathDone(s, code)
  PROVE  /\ IsSession(z) /\ Unmoved(z, s) /\ z.phase = "path"
         /\ z.code = IF code = 0 THEN s.code ELSE code
         /\ z.todo = IF code # 0 /\ s.config.stop THEN <<>> ELSE s.todo
         /\ z.unread = s.unread /\ z.tests = s.tests /\ z.done = s.done /\ z.bad = s.bad
         /\ z.ran = s.ran /\ z.read = s.read /\ z.listed = s.listed
<1>1. IsPaths(<<>>)
  BY ListEmpty DEF IsPaths
<1>2. IsRecord(s)
  BY DEF IsSession
<1>3. /\ IsRecord(z) /\ Unmoved(z, s) /\ z.phase = "path"
      /\ z.code = IF code = 0 THEN s.code ELSE code
      /\ z.todo = IF code # 0 /\ s.config.stop THEN <<>> ELSE s.todo
      /\ z.unread = s.unread /\ z.tests = s.tests /\ z.done = s.done /\ z.bad = s.bad
      /\ z.ran = s.ran /\ z.read = s.read /\ z.listed = s.listed
  BY <1>2 DEF PathDone, IsRecord, Unmoved
<1>4. IsSession(z)
  BY <1>1, <1>3 DEF IsSession, Unmoved
<1> QED BY <1>3, <1>4

\* What TakePath finds of a path's files, and what it notes.
ThereOf(p)   == {f \in Range(p) : files[f].suite # NoSuite}
ListingOf(p) == [f \in ThereOf(p) |-> files[f].at]
AbsentOf(p)  == {<<f, files[f].at>> : f \in Range(p) \ ThereOf(p)}

\* What TakePath changes of a session.
LEMMA TakePathIs ==
  ASSUME TypeInv, TakePath
  PROVE  /\ IsSession(session') /\ Unmoved(session', session) /\ IsPath(Head(session.todo))
         /\ session.phase = "path" /\ session.todo # <<>>
         /\ session'.phase = "load" /\ session'.todo = Tail(session.todo)
         /\ session'.listed = ListingOf(Head(session.todo))
         /\ session'.unread = Head(session.todo) /\ session'.tests = <<>> /\ session'.done = 0
         /\ session'.bad = FALSE /\ session'.code = session.code /\ session'.ran = session.ran
         /\ session'.read = session.read \cup AbsentOf(Head(session.todo))
<1>1. IsSession(session) /\ session.todo # <<>>
  BY DEF TypeInv, TakePath
<1> DEFINE p == Head(session.todo)
<1>2. IsPath(p) /\ IsPaths(Tail(session.todo))
  <2>1. /\ IsList(session.todo) /\ \A q \in Range(session.todo) : IsPath(q)
    BY <1>1 DEF IsSession, IsPaths
  <2> HIDE DEF p
  <2>2. p = Head(session.todo)
    BY DEF p
  <2> QED BY <1>1, <2>1, <2>2, ListHead DEF IsPaths
<1> DEFINE l == ListingOf(p)
           a == AbsentOf(p)
<1>3. session' = [session EXCEPT !.phase = "load", !.todo = Tail(@), !.listed = l, !.unread = p,
                                 !.read = @ \cup a, !.tests = <<>>, !.done = 0, !.bad = FALSE]
  BY DEF TakePath, ListingOf, AbsentOf, ThereOf
<1>4. IsList(<<>>) /\ Range(<<>>) = {} /\ Len(<<>>) = 0
  BY ListEmpty
<1>5. session.phase = "path"
  BY DEF TakePath, Working
<1> HIDE DEF p, l, a
<1>6. IsList(p) /\ Range(p) \subseteq File
  BY <1>2 DEF IsPath
<1>8. /\ IsRecord(session') /\ Unmoved(session', session)
      /\ session'.phase = "load" /\ session'.todo = Tail(session.todo) /\ session'.listed = l
      /\ session'.unread = p /\ session'.tests = <<>> /\ session'.done = 0
      /\ session'.bad = FALSE /\ session'.code = session.code /\ session'.ran = session.ran
      /\ session'.read = session.read \cup a
  <2>1. IsRecord(session)
    BY <1>1 DEF IsSession
  <2> QED BY <1>3, <2>1 DEF IsRecord, Unmoved
<1>7. IsSession(session')
  BY <1>1, <1>2, <1>4, <1>6, <1>8 DEF IsSession, Unmoved
<1> QED BY <1>1, <1>2, <1>5, <1>7, <1>8 DEF p, l, a

\* A file that was not there is passed over; one that is gone by now or does not load
\* ends its path with code 1; one that loads adds its tests.
LEMMA LoadFileIs ==
  ASSUME TypeInv, LoadFile, NEW f, f = Head(session.unread)
  PROVE  /\ IsSession(session') /\ Unmoved(session', session) /\ f \in File
         /\ session.phase = "load" /\ session.unread # <<>> /\ session.kind # "none"
         /\ session'.unread = Tail(session.unread) /\ session'.ran = session.ran /\ session'.done = session.done
         /\ session'.bad = session.bad /\ session'.listed = session.listed
         /\ \/ /\ session'.phase = "path" /\ session'.code = 1 /\ session'.tests = session.tests
               /\ session'.todo \in {session.todo, <<>>} /\ f \in DOMAIN session.listed
               /\ \/ files[f].suite = NoSuite /\ session'.read = session.read \cup {<<f, session.listed[f]>>}
                  \/ /\ files[f].suite # NoSuite /\ ~LoadTestFile(files[f].suite).ok
                     /\ session'.read = session.read \cup {<<f, files[f].at>>}
            \/ /\ session'.phase = "load" /\ session'.code = session.code /\ session'.todo = session.todo
               /\ \/ /\ f \notin DOMAIN session.listed
                     /\ session'.tests = session.tests /\ session'.read = session.read
                  \/ /\ f \in DOMAIN session.listed /\ files[f].suite # NoSuite /\ LoadTestFile(files[f].suite).ok
                     /\ session'.tests = session.tests \o LoadedTests(f)
                     /\ session'.read = session.read \cup {<<f, files[f].at>>}
<1> DEFINE s == [session EXCEPT !.unread = Tail(@)]
           ReadAt(at) == [s EXCEPT !.read = @ \cup {<<f, at>>}]
           ok == LoadTestFile(files[f].suite).ok
           l == LoadedTests(f)
<1>1. IsSession(session) /\ session.unread # <<>> /\ IsList(session.unread) /\ session.phase = "load" /\ session.kind # "none"
  BY DEF TypeInv, LoadFile, Working, IsSession
<1>2. /\ f \in Range(session.unread) /\ IsList(Tail(session.unread)) /\ Range(Tail(session.unread)) \subseteq File
      /\ f \in File
  <2>1. Range(session.unread) \subseteq File
    BY <1>1 DEF IsSession
  <2> QED BY <1>1, <2>1, ListHead
<1>3. /\ IsSession(s) /\ Unmoved(s, session) /\ s.phase = "load" /\ s.unread = Tail(session.unread)
      /\ s.ran = session.ran /\ s.done = session.done /\ s.tests = session.tests /\ s.code = session.code
      /\ s.read = session.read /\ s.todo = session.todo /\ s.bad = session.bad
      /\ s.listed = session.listed
  <2> DEFINE u == Tail(session.unread)
  <2>1. IsRecord(session)
    BY <1>1 DEF IsSession
  <2>2. s = [session EXCEPT !.unread = u]
    OBVIOUS
  <2> HIDE DEF s, u
  <2>3. /\ IsRecord(s) /\ Unmoved(s, session) /\ s.phase = session.phase /\ s.unread = u
        /\ s.ran = session.ran /\ s.done = session.done /\ s.tests = session.tests /\ s.code = session.code
        /\ s.read = session.read /\ s.todo = session.todo /\ s.bad = session.bad /\ s.listed = session.listed
    BY <2>1, <2>2 DEF IsRecord, Unmoved
  <2>4. IsSession(s)
    BY <1>1, <1>2, <2>3 DEF IsSession, Unmoved, u
  <2> QED BY <1>1, <2>3, <2>4 DEF u
<1>9. session' = CASE f \notin DOMAIN session.listed -> s
                   [] f \in DOMAIN session.listed /\ files[f].suite = NoSuite -> PathDone(ReadAt(session.listed[f]), 1)
                   [] f \in DOMAIN session.listed /\ files[f].suite # NoSuite /\ ~ok -> PathDone(ReadAt(files[f].at), 1)
                   [] OTHER -> [ReadAt(files[f].at) EXCEPT !.tests = @ \o l]
  BY DEF LoadFile, LoadedTests
<1> HIDE DEF s, ok, l
<1>4. ASSUME NEW at
      PROVE  /\ IsSession(ReadAt(at)) /\ Unmoved(ReadAt(at), session) /\ ReadAt(at).phase = "load"
             /\ ReadAt(at).unread = Tail(session.unread) /\ ReadAt(at).ran = session.ran
             /\ ReadAt(at).done = session.done /\ ReadAt(at).tests = session.tests /\ ReadAt(at).code = session.code
             /\ ReadAt(at).read = session.read \cup {<<f, at>>} /\ ReadAt(at).todo = session.todo
             /\ ReadAt(at).bad = session.bad /\ ReadAt(at).listed = session.listed
  <2> DEFINE z == ReadAt(at)
             r == session.read \cup {<<f, at>>}
  <2>1. z = [s EXCEPT !.read = r]
    BY <1>3
  <2> HIDE DEF ReadAt, z, r
  <2>2. IsRecord(s)
    BY <1>3 DEF IsSession
  <2>3. /\ IsRecord(z) /\ Unmoved(z, s) /\ z.phase = s.phase /\ z.unread = s.unread
        /\ z.ran = s.ran /\ z.done = s.done /\ z.tests = s.tests /\ z.code = s.code
        /\ z.read = r /\ z.todo = s.todo /\ z.bad = s.bad /\ z.listed = s.listed
    BY <2>1, <2>2 DEF IsRecord, Unmoved
  <2>4. IsSession(z)
    BY <1>3, <2>3 DEF IsSession, Unmoved
  <2> QED BY <1>3, <2>3, <2>4 DEF z, r, Unmoved
<1> HIDE DEF ReadAt
<1>5. CASE session' = s /\ f \notin DOMAIN session.listed
  BY <1>1, <1>2, <1>3, <1>5
<1>6. ASSUME NEW at, session' = PathDone(ReadAt(at), 1)
      PROVE  /\ IsSession(session') /\ Unmoved(session', session) /\ session'.phase = "path"
             /\ session'.code = 1 /\ session'.todo \in {<<>>, session.todo}
             /\ session'.unread = Tail(session.unread) /\ session'.tests = session.tests
             /\ session'.done = session.done /\ session'.ran = session.ran /\ session'.bad = session.bad
             /\ session'.read = session.read \cup {<<f, at>>} /\ session'.listed = session.listed
  <2> DEFINE z == ReadAt(at)
  <2>1. /\ IsSession(z) /\ Unmoved(z, session) /\ z.unread = Tail(session.unread) /\ z.ran = session.ran
        /\ z.done = session.done /\ z.tests = session.tests /\ z.code = session.code
        /\ z.read = session.read \cup {<<f, at>>} /\ z.todo = session.todo
        /\ z.bad = session.bad /\ z.listed = session.listed
    BY <1>4
  <2>2. session' = PathDone(z, 1)
    BY <1>6
  <2> HIDE DEF z
  <2>3. /\ IsSession(session') /\ Unmoved(session', z) /\ session'.phase = "path"
        /\ session'.code = 1 /\ session'.todo \in {<<>>, z.todo}
        /\ session'.unread = z.unread /\ session'.tests = z.tests /\ session'.done = z.done
        /\ session'.ran = z.ran /\ session'.read = z.read /\ session'.bad = z.bad /\ session'.listed = z.listed
    BY <2>1, <2>2, PathDoneIs
  <2> QED BY <2>1, <2>3 DEF Unmoved
<1>7. CASE /\ session' = PathDone(ReadAt(session.listed[f]), 1)
           /\ f \in DOMAIN session.listed /\ files[f].suite = NoSuite
  BY <1>1, <1>2, <1>6, <1>7
<1>8. CASE /\ session' = PathDone(ReadAt(files[f].at), 1)
           /\ f \in DOMAIN session.listed /\ files[f].suite # NoSuite /\ ~ok
  BY <1>1, <1>2, <1>6, <1>8 DEF ok
<1>10. CASE /\ session' = [ReadAt(files[f].at) EXCEPT !.tests = @ \o l]
            /\ f \in DOMAIN session.listed /\ files[f].suite # NoSuite /\ ok
  <2> DEFINE z == ReadAt(files[f].at)
             q == z.tests \o l
  <2>1. /\ IsSession(z) /\ Unmoved(z, session) /\ z.phase = "load" /\ z.unread = Tail(session.unread)
        /\ z.ran = session.ran /\ z.done = session.done /\ z.tests = session.tests /\ z.code = session.code
        /\ z.read = session.read \cup {<<f, files[f].at>>} /\ z.todo = session.todo
        /\ z.bad = session.bad /\ z.listed = session.listed
    BY <1>4
  <2>2. session' = [z EXCEPT !.tests = q]
    BY <1>10
  <2> HIDE DEF z
  <2>3. IsSuite(files[f].suite)
    BY <1>2, <1>10 DEF TypeInv
  <2>4. IsList(l) /\ \A t \in Range(l) : t.file = f
    BY <1>2, <2>3, LoadedIs DEF l
  <2>5. IsList(z.tests) /\ z.done = 0 /\ \A t \in Range(z.tests) : t.file \in File
    BY <2>1 DEF IsSession
  <2>6. IsList(q) /\ Len(q) = Len(z.tests) + Len(l) /\ Range(q) = Range(z.tests) \cup Range(l)
    BY <2>4, <2>5, ListConcat
  <2>7. q = session.tests \o l
    BY <2>1
  <2> HIDE DEF q
  <2>8. \A t \in Range(q) : t.file \in File
    BY <1>2, <2>4, <2>5, <2>6, ListIs
  <2>9. /\ IsRecord(session') /\ Unmoved(session', z)
        /\ session'.phase = "load" /\ session'.unread = z.unread /\ session'.ran = z.ran /\ session'.done = z.done
        /\ session'.tests = q /\ session'.code = z.code /\ session'.read = z.read /\ session'.todo = z.todo
        /\ session'.bad = z.bad /\ session'.listed = z.listed
    <3>1. IsRecord(z)
      BY <2>1 DEF IsSession
    <3> QED BY <2>1, <2>2, <3>1 DEF IsRecord, Unmoved
  <2>10. IsSession(session')
    BY <2>1, <2>6, <2>8, <2>9 DEF IsSession, Unmoved
  <2> QED BY <1>1, <1>2, <1>10, <2>1, <2>7, <2>9, <2>10 DEF Unmoved, ok, l
<1>11. \/ session' = s /\ f \notin DOMAIN session.listed
       \/ /\ session' = PathDone(ReadAt(session.listed[f]), 1)
          /\ f \in DOMAIN session.listed /\ files[f].suite = NoSuite
       \/ /\ session' = PathDone(ReadAt(files[f].at), 1)
          /\ f \in DOMAIN session.listed /\ files[f].suite # NoSuite /\ ~ok
       \/ /\ session' = [ReadAt(files[f].at) EXCEPT !.tests = @ \o l]
          /\ f \in DOMAIN session.listed /\ files[f].suite # NoSuite /\ ok
  BY <1>9
<1> QED BY <1>5, <1>7, <1>8, <1>10, <1>11

-----------------------------------------------------------------------------
(* RunTest and CheckSnapshot.                                              *)

\* The run of a test gets as far as the checks, and is refused as the test expects.
Reaches(t, tpl) ==
  /\ t.setup # "fails" /\ ValidateHeader(tpl.header) /\ SetTrigger(t, tpl.header).error = ""
  /\ ~t.expected.no_trigger /\ ~(t.expected.error = "" /\ tpl.does[t.context.exec_data].error # "")
RefusedRight(t, tpl) ==
  /\ t.setup # "fails" /\ ValidateHeader(tpl.header) /\ SetTrigger(t, tpl.header).error = "mismatch"
  /\ t.expected.no_trigger

Record(name, saved) == [name |-> name, saved |-> saved]
Has1(sn, name) == \E s \in sn : s.name = name

\* What checkSnapshot says and writes, case by case.
LEMMA CheckSnapshotIs ==
  ASSUME NEW config, NEW duplicates, NEW readable, NEW sn, NEW t, NEW effects,
         NEW c, c = CheckSnapshot(config, duplicates, readable, sn, t, effects),
         NEW looks, looks = (t \notin duplicates /\ readable)
  PROVE  /\ ~looks => ~c.passes /\ c.snaps = sn
         /\ looks /\ config.update =>
              c.passes /\ c.snaps = WriteSnapshot(sn, t.name, TakeSnapshot(effects))
         /\ looks /\ ~config.update /\ ~Has1(sn, t.name) /\ config.ci => ~c.passes /\ c.snaps = sn
         /\ looks /\ ~config.update /\ ~Has1(sn, t.name) /\ ~config.ci =>
              c.passes /\ c.snaps = WriteSnapshot(sn, t.name, TakeSnapshot(effects))
         /\ looks /\ ~config.update /\ Has1(sn, t.name) =>
              c.snaps = sn /\ (c.passes <=> Record(t.name, TakeSnapshot(effects)) \in sn)
<1> DEFINE saved == {s \in sn : s.name = t.name}
           got == TakeSnapshot(effects)
           w == WriteSnapshot(sn, t.name, got)
           in == [name |-> t.name, saved |-> got] \in saved
<1>1. c = CASE ~looks -> [passes |-> FALSE, wrote |-> FALSE, snaps |-> sn]
            [] looks /\ saved = {} /\ config.ci /\ ~config.update -> [passes |-> FALSE, wrote |-> FALSE, snaps |-> sn]
            [] looks /\ ((saved = {} /\ ~config.ci) \/ config.update) -> [passes |-> TRUE, wrote |-> TRUE, snaps |-> w]
            [] OTHER -> [passes |-> in, wrote |-> FALSE, snaps |-> sn]
  BY DEF CheckSnapshot
<1>2. saved = {} <=> ~Has1(sn, t.name)
  BY DEF Has1
<1>3. in <=> Record(t.name, got) \in sn
  BY DEF Record
<1> HIDE DEF saved, got, w, in
<1>4. CASE ~looks
  <2>1. c = [passes |-> FALSE, wrote |-> FALSE, snaps |-> sn]
    BY <1>1, <1>4
  <2> QED BY <1>4, <2>1
<1>5. CASE looks /\ config.update
  <2>1. c = [passes |-> TRUE, wrote |-> TRUE, snaps |-> w]
    BY <1>1, <1>5
  <2> QED BY <1>5, <2>1 DEF w, got
<1>6. CASE looks /\ ~config.update /\ saved = {} /\ config.ci
  <2>1. c = [passes |-> FALSE, wrote |-> FALSE, snaps |-> sn]
    BY <1>1, <1>6
  <2> QED BY <1>2, <1>6, <2>1
<1>7. CASE looks /\ ~config.update /\ saved = {} /\ ~config.ci
  <2>1. c = [passes |-> TRUE, wrote |-> TRUE, snaps |-> w]
    BY <1>1, <1>7
  <2> QED BY <1>2, <1>7, <2>1 DEF w, got
<1>8. CASE looks /\ ~config.update /\ saved # {}
  <2>1. c = [passes |-> in, wrote |-> FALSE, snaps |-> sn]
    BY <1>1, <1>8
  <2>2. c.snaps = sn /\ (c.passes <=> in)
    <3> HIDE <1>1
    <3> QED BY <2>1
  <2> QED BY <1>2, <1>3, <1>8, <2>2 DEF got
<1> QED BY <1>4, <1>5, <1>6, <1>7, <1>8

\* A test that ended without a run.
LEMMA EndedIs ==
  ASSUME NEW error, NEW sn, NEW r, r = Ended(error, sn)
  PROVE  r.snaps = sn /\ (r.passed <=> error = "") /\ ~r.began
<1> DEFINE b == error = ""
           f == FALSE
<1>1. r = [passed |-> b, began |-> f, made |-> NothingMade, seen |-> NoContext, wrote |-> f, snaps |-> sn]
  BY DEF Ended
<1> HIDE DEF b, f
<1>2. r.passed = b /\ r.began = f /\ r.snaps = sn
  BY <1>1
<1> QED BY <1>2 DEF b, f

\* What RunTest says and writes, for a test that gets to its checks and for one that does not.
LEMMA RunTestIs ==
  ASSUME NEW config, NEW duplicates, NEW readable, NEW sn, NEW t, NEW tpl,
         NEW effects, effects = tpl.does[t.context.exec_data],
         NEW r, r = RunTest(config, duplicates, readable, sn, t, tpl),
         NEW c, c = CheckSnapshot(config, duplicates, readable, sn, t, effects)
  PROVE  /\ Reaches(t, tpl) => r.began /\ r.made = effects
         /\ Reaches(t, tpl) /\ t.snapshot => r.snaps = c.snaps /\ (r.passed <=> Failures(t, effects) = {} /\ c.passes)
         /\ Reaches(t, tpl) /\ ~t.snapshot => r.snaps = sn /\ (r.passed <=> Failures(t, effects) = {})
         /\ ~Reaches(t, tpl) => r.snaps = sn /\ (r.passed <=> RefusedRight(t, tpl)) /\ (r.passed => ~r.began)
<1> DEFINE trigger == SetTrigger(t, tpl.header)
           e == t.expected
           fails == Failures(t, effects)
<1>1. CASE t.setup = "fails" \/ ~ValidateHeader(tpl.header)
  <2>1. r = Ended("refused", sn)
    BY <1>1 DEF RunTest
  <2>2. r.snaps = sn /\ ~r.passed
    <3>1. "refused" # ""
      BY Zenon
    <3> QED BY <2>1, <3>1, EndedIs
  <2>3. ~Reaches(t, tpl) /\ ~RefusedRight(t, tpl)
    BY <1>1 DEF Reaches, RefusedRight
  <2> QED BY <2>2, <2>3
<1>2. CASE ~(t.setup = "fails" \/ ~ValidateHeader(tpl.header))
  <2>1. r = RunTriggered(config, duplicates, readable, sn, t, effects, trigger)
    BY <1>2 DEF RunTest
  <2>2. Reaches(t, tpl) <=> trigger.error = "" /\ ~e.no_trigger /\ ~(e.error = "" /\ effects.error # "")
    BY <1>2 DEF Reaches
  <2>3. RefusedRight(t, tpl) <=> trigger.error = "mismatch" /\ e.no_trigger
    BY <1>2 DEF RefusedRight
  <2> HIDE DEF trigger, fails
  <2>4. CASE trigger.error # ""
    <3> DEFINE x == IF ~(e.no_trigger /\ trigger.error = "mismatch") THEN trigger.error ELSE ""
    <3>1. r = Ended(x, sn)
      BY <2>1, <2>4 DEF RunTriggered
    <3>2. x = "" <=> e.no_trigger /\ trigger.error = "mismatch"
      BY <2>4
    <3> HIDE DEF x
    <3>3. r.snaps = sn /\ (r.passed <=> x = "") /\ ~r.began
      BY <3>1, EndedIs
    <3> QED BY <2>2, <2>3, <2>4, <3>2, <3>3
  <2>5. CASE trigger.error = "" /\ e.no_trigger
    <3>1. r = Ended("triggered", sn)
      BY <2>1, <2>5 DEF RunTriggered
    <3>2. r.snaps = sn /\ ~r.passed
      <4>1. "triggered" # ""
        BY Zenon
      <4> QED BY <3>1, <4>1, EndedIs
    <3> QED BY <2>2, <2>3, <2>5, <3>2
  <2>6. CASE trigger.error = "" /\ ~e.no_trigger /\ e.error = "" /\ effects.error # ""
    <3>1. r = Ran(FALSE, effects, trigger.ctx, FALSE, sn)
      BY <2>1, <2>6 DEF RunTriggered
    <3>2. r.snaps = sn /\ ~r.passed
      BY <3>1 DEF Ran
    <3> QED BY <2>2, <2>3, <2>6, <3>2
  <2>7. CASE trigger.error = "" /\ ~e.no_trigger /\ ~(e.error = "" /\ effects.error # "")
    <3> DEFINE sp == IF t.snapshot THEN c ELSE [passes |-> TRUE, wrote |-> FALSE, snaps |-> sn]
               p == fails = {} /\ sp.passes
    <3>1. r = Ran(p, effects, trigger.ctx, sp.wrote, sp.snaps)
      BY <2>1, <2>7 DEF RunTriggered, fails
    <3>2. (t.snapshot => sp.snaps = c.snaps /\ (p <=> fails = {} /\ c.passes)) /\ (~t.snapshot => sp.snaps = sn /\ (p <=> fails = {}))
      OBVIOUS
    <3> HIDE DEF p, sp
    <3>3. r.snaps = sp.snaps /\ (r.passed <=> p) /\ r.began /\ r.made = effects
      BY <3>1 DEF Ran
    <3> QED BY <2>2, <2>7, <3>2, <3>3 DEF fails
  <2> QED BY <2>4, <2>5, <2>6, <2>7
<1> QED BY <1>1, <1>2

\* What a test that passes says of its run.
RunsAsSaid(t, effects) ==
  /\ effects.error = t.expected.error /\ t.expected.output \in {"", effects.output}
  /\ t.expected.warning = "" \/ t.expected.warning \in effects.warnings \cup effects.failedChildren
  /\ effects.failedChildren \subseteq {t.expected.warning}
  /\ \A a \in t.assertions : AssertionPasses(effects, a)

\* A run without failures is as its test says.
LEMMA NoFailures ==
  ASSUME NEW t, NEW effects, Failures(t, effects) = {}, ~(t.expected.error = "" /\ effects.error # "")
  PROVE  RunsAsSaid(t, effects)
<1> DEFINE bad == {b \in t.assertions : ~AssertionPasses(effects, b)}
           A == {a.of : a \in bad}
           E == IF t.expected.error \in {"", effects.error} THEN {} ELSE {"error"}
           O == IF OutputPasses(effects.output, t.expected) THEN {} ELSE {"output"}
           W == IF WarningsPass(effects, t.expected) /\ ChildrenPass(effects, t.expected) THEN {} ELSE {"warning"}
<1>1. ((A \cup E) \cup O) \cup W = {}
  BY DEF Failures
<1>2. A = {} /\ E = {} /\ O = {} /\ W = {}
  <2> HIDE DEF A, E, O, W
  <2> QED BY <1>1
<1>3. bad = {}
  <2> HIDE DEF bad
  <2> QED BY <1>2
<1>4. \A a \in t.assertions : AssertionPasses(effects, a)
  BY <1>3
<1> HIDE DEF A, bad
<1>5. effects.error = t.expected.error
  BY <1>2
<1>6. OutputPasses(effects.output, t.expected)
  <2> HIDE DEF W, E
  <2> QED BY <1>2
<1>7. WarningsPass(effects, t.expected) /\ ChildrenPass(effects, t.expected)
  <2> HIDE DEF E, O
  <2> QED BY <1>2
<1> HIDE DEF E, O, W
<1> QED BY <1>4, <1>5, <1>6, <1>7 DEF RunsAsSaid, OutputPasses, WarningsPass, ChildrenPass

\* A test is a duplicate where its file and name stand at two places.
LEMMA DuplicateIs ==
  ASSUME NEW q, IsList(q), NEW t
  PROVE  t \in DuplicateNames(q) <=>
           /\ t \in Range(q)
           /\ \E i, j \in 1 .. Len(q) : /\ i # j /\ q[i].file = t.file /\ q[i].name = t.name
                                        /\ q[j].file = t.file /\ q[j].name = t.name
<1>1. Len(q) \in Nat /\ DOMAIN q = 1 .. Len(q)
  BY ListIs
<1> DEFINE I == {i \in DOMAIN q : q[i].file = t.file /\ q[i].name = t.name}
<1>2. t \in DuplicateNames(q) <=> t \in Range(q) /\ Cardinality(I) > 1
  BY DEF DuplicateNames
<1>3. IsFiniteSet(I) /\ Cardinality(I) \in Nat
  <2>1. IsFiniteSet(1 .. Len(q)) /\ I \subseteq 1 .. Len(q)
    BY <1>1, FS_Interval
  <2> HIDE DEF I
  <2> QED BY <2>1, FS_Subset, FS_CardinalityType
<1>4. Cardinality(I) > 1 <=> \E i, j \in I : i # j
  <2> HIDE DEF I
  <2>1. Cardinality(I) = 0 <=> I = {}
    BY <1>3, FS_EmptySet
  <2>2. Cardinality(I) = 1 <=> \E x : I = {x}
    BY <1>3, FS_Singleton
  <2> QED BY <1>3, <2>1, <2>2
<1> QED BY <1>1, <1>2, <1>4

\* What BeginTests changes of a session.
LEMMA BeginTestsIs ==
  ASSUME TypeInv, BeginTests
  PROVE  /\ IsSession(session') /\ Unmoved(session', session)
         /\ session.phase = "load" /\ session.unread = <<>> /\ session.kind # "none"
         /\ session'.unread = session.unread /\ session'.ran = session.ran /\ session'.done = session.done
         /\ session'.tests = session.tests /\ session'.read = session.read /\ session'.bad = session.bad
         /\ \/ /\ session.tests = <<>> /\ session'.phase = "path" /\ session'.code = 1
               /\ session'.todo \in {session.todo, <<>>}
            \/ /\ session.tests # <<>> /\ session'.phase = "run" /\ session'.code = session.code
               /\ session'.todo = session.todo
<1>1. /\ IsSession(session) /\ IsRecord(session) /\ session.phase = "load" /\ session.unread = <<>>
      /\ session.kind # "none"
  BY DEF TypeInv, BeginTests, Working, IsSession
<1>2. CASE session.tests = <<>>
  <2>1. session' = PathDone(session, 1)
    BY <1>2 DEF BeginTests
  <2> QED BY <1>1, <1>2, <2>1, PathDoneIs
<1>3. CASE session.tests # <<>>
  <2>1. session' = [session EXCEPT !.phase = "run"]
    BY <1>3 DEF BeginTests
  <2>2. /\ IsRecord(session') /\ Unmoved(session', session)
        /\ session'.unread = session.unread /\ session'.ran = session.ran /\ session'.done = session.done
        /\ session'.tests = session.tests /\ session'.read = session.read /\ session'.phase = "run"
        /\ session'.code = session.code /\ session'.todo = session.todo /\ session'.bad = session.bad
    BY <1>1, <2>1 DEF IsRecord, Unmoved
  <2>3. IsSession(session')
    <3>1. Len(session.tests) \in Nat /\ session.done = 0
      BY <1>1, ListIs DEF IsSession
    <3> QED BY <1>1, <2>2, <3>1 DEF IsSession, Unmoved
  <2> QED BY <1>1, <1>3, <2>2, <2>3
<1> QED BY <1>2, <1>3

TestResult(t, r) == [test |-> t, began |-> r.began, made |-> r.made, seen |-> r.seen]

\* What RunNext changes of a session and of the snapshots.
LEMMA RunNextIs ==
  ASSUME TypeInv, RunNext,
         NEW t, t = session.tests[session.done + 1], NEW r, r = RunOf(t)
  PROVE  /\ IsSession(session') /\ Unmoved(session', session)
         /\ session.phase = "run" /\ session'.phase = "run" /\ session.kind # "none"
         /\ session.done + 1 \in 1 .. Len(session.tests) /\ t \in Range(session.tests) /\ t.file \in File
         /\ session'.done = session.done + 1 /\ session'.tests = session.tests /\ session'.unread = session.unread
         /\ session'.todo = session.todo /\ session'.code = session.code /\ (session'.bad <=> session.bad \/ ~r.passed)
         /\ session'.ran = session.ran \cup {TestResult(t, r)}
         /\ session'.read = session.read \cup {<<"template", template.at>>}
         /\ snaps' = [snaps EXCEPT ![SnapshotPath[t.file]] = r.snaps]
<1>1. IsSession(session) /\ IsRecord(session) /\ session.phase = "run" /\ MoreToRun /\ session.kind # "none"
  BY DEF TypeInv, RunNext, Working, IsSession
<1>2. session' = AfterTest(session, t, r) /\ snaps' = [snaps EXCEPT ![SnapshotPath[t.file]] = r.snaps]
  BY DEF RunNext
<1>3. /\ IsList(session.tests) /\ session.done \in Nat
      /\ \A u \in Range(session.tests) : u.file \in File
  BY <1>1 DEF IsSession
<1>4. /\ session.done + 1 \in 1 .. Len(session.tests) /\ t \in Range(session.tests) /\ t.file \in File
  <2>1. Len(session.tests) \in Nat /\ session.done < Len(session.tests)
    BY <1>1, <1>3, ListIs DEF MoreToRun
  <2> QED BY <1>3, <2>1, ListIs
<1>5. /\ IsRecord(session') /\ Unmoved(session', session) /\ session'.phase = session.phase
      /\ session'.done = session.done + 1 /\ session'.tests = session.tests /\ session'.unread = session.unread
      /\ session'.todo = session.todo /\ session'.code = session.code /\ (session'.bad <=> session.bad \/ ~r.passed)
      /\ session'.ran = session.ran \cup {TestResult(t, r)}
      /\ session'.read = session.read \cup {<<"template", template.at>>}
  <2> DEFINE b == session.bad \/ ~r.passed
             n == session.ran \cup {TestResult(t, r)}
             d == session.read \cup {<<"template", template.at>>}
  <2>1. session' = [session EXCEPT !.done = session.done + 1, !.bad = b, !.read = d, !.ran = n]
    BY <1>2 DEF AfterTest, TestResult
  <2> HIDE DEF b, n, d
  <2>2. /\ IsRecord(session') /\ Unmoved(session', session) /\ session'.phase = session.phase
        /\ session'.done = session.done + 1 /\ session'.tests = session.tests /\ session'.unread = session.unread
        /\ session'.todo = session.todo /\ session'.code = session.code /\ session'.bad = b
        /\ session'.ran = n /\ session'.read = d
    BY <1>1, <2>1 DEF IsRecord, Unmoved
  <2> QED BY <2>2 DEF b, n, d
<1>6. TestResult(t, r).test = t
  BY DEF TestResult
<1>7. IsSession(session')
  <2>1. \A x \in session'.ran : x.test.file \in File
    BY <1>1, <1>4, <1>5, <1>6 DEF IsSession
  <2>2. session'.done \in Nat /\ session'.done <= Len(session'.tests)
    BY <1>3, <1>4, <1>5, ListIs
  <2> QED BY <1>1, <1>5, <2>1, <2>2 DEF IsSession, Unmoved
<1> QED BY <1>1, <1>2, <1>4, <1>5, <1>7

\* A report is green only if all tests were run, none failed, and CI finds no stale snapshot.
LEMMA ReportIs ==
  ASSUME TypeInv, Report
  PROVE  /\ IsSession(session') /\ Unmoved(session', session)
         /\ session.phase = "run" /\ session'.phase = "path" /\ session.kind # "none"
         /\ session'.done = session.done /\ session'.tests = session.tests /\ session'.unread = session.unread
         /\ session'.ran = session.ran /\ session'.read = session.read /\ session'.bad = session.bad
         /\ snaps' = IF Prunes(session.config) THEN PrunedOf(TestFiles) ELSE snaps
         /\ \/ /\ session'.code = session.code /\ session'.todo = session.todo /\ ~session.bad
               /\ session.done = Len(session.tests)
               /\ session.config.ci /\ ~Prunes(session.config) => ~StaleSnapshots
               /\ Prunes(session.config) => ~CannotRead
            \/ /\ session'.code = 1 /\ session'.todo \in {session.todo, <<>>}
               /\ session.bad \/ CannotRead \/ (session.config.ci /\ StaleSnapshots)
<1> DEFINE prunes == Prunes(session.config)
           failed == \/ session.bad
                     \/ CannotRead /\ (prunes \/ session.config.ci)
                     \/ ~prunes /\ session.config.ci /\ StaleSnapshots
           code == IF failed THEN 1 ELSE 0
<1>1. IsSession(session) /\ session.phase = "run" /\ ~MoreToRun /\ session.kind # "none"
  BY DEF TypeInv, Report, Working
<1>2. session' = PathDone(session, code) /\ snaps' = IF Prunes(session.config) THEN PrunedOf(TestFiles) ELSE snaps
  BY DEF Report
<1>3. /\ IsSession(session') /\ Unmoved(session', session) /\ session'.phase = "path"
      /\ session'.code = IF code = 0 THEN session.code ELSE code
      /\ session'.todo = IF code # 0 /\ session.config.stop THEN <<>> ELSE session.todo
      /\ session'.unread = session.unread /\ session'.tests = session.tests /\ session'.done = session.done
      /\ session'.ran = session.ran /\ session'.read = session.read /\ session'.bad = session.bad
  <2> HIDE DEF code
  <2> QED BY <1>1, <1>2, PathDoneIs
<1>4. CASE failed
  <2>1. code = 1
    BY <1>4
  <2> HIDE DEF code
  <2> QED BY <1>1, <1>2, <1>3, <1>4, <2>1
<1>5. CASE ~failed
  <2>1. code = 0
    BY <1>5
  <2>2. session.done = Len(session.tests)
    BY <1>1, <1>5, ListIs DEF MoreToRun, IsSession
  <2> HIDE DEF code
  <2> QED BY <1>1, <1>2, <1>3, <1>5, <2>1, <2>2
<1> QED BY <1>4, <1>5

\* What ShowRun changes of a session.
LEMMA ShowRunIs ==
  ASSUME TypeInv, ShowRun
  PROVE  /\ IsSession(session') /\ Unmoved(session', session) /\ session.kind = "watch"
         /\ session'.phase = "watching" /\ session'.ran = {} /\ session'.tests = <<>> /\ session'.code = session.code
         /\ session'.todo = session.todo /\ session'.unread = session.unread /\ session'.read = {}
<1>1. IsSession(session) /\ IsRecord(session) /\ session.kind = "watch"
  BY DEF TypeInv, ShowRun, IsSession
<1>2. session' = [session EXCEPT !.phase = "watching", !.tests = <<>>, !.ran = {}, !.read = {}]
  BY DEF ShowRun
<1>3. IsList(<<>>) /\ Range(<<>>) = {}
  BY ListEmpty
<1>4. /\ IsRecord(session') /\ Unmoved(session', session)
      /\ session'.phase = "watching" /\ session'.ran = {} /\ session'.tests = <<>> /\ session'.code = session.code
      /\ session'.todo = session.todo /\ session'.unread = session.unread /\ session'.read = {}
      /\ session'.done = session.done
  BY <1>1, <1>2 DEF IsRecord, Unmoved
<1>5. IsSession(session')
  BY <1>1, <1>3, <1>4 DEF IsSession, Unmoved
<1> QED BY <1>1, <1>4, <1>5

\* A session that begins, of a command or of a watcher.
Begins(c) == session' = Begin(c) /\ IsPaths(c.paths)

\* A command begins its session.
LEMMA GivenIs ==
  ASSUME TypeInv, NEW kind, Given(kind)
  PROVE  session.kind = "none" /\ \E c \in may : c.kind = kind /\ Begins(c)
BY DEF TypeInv, Given, Begins

\* A watcher that wakes up begins its session again.
LEMMA WakeIs ==
  ASSUME TypeInv, Wake
  PROVE  Begins(session)
BY DEF TypeInv, Wake, Begins, IsSession

\* What a run of a test makes, and what is saved of it.
Effects(t)  == template.does[t.context.exec_data]
Recorded(t) == Record(t.name, TakeSnapshot(Effects(t)))

\* writeSnapshot replaces what has the name, and that only.
LEMMA WriteIs ==
  ASSUME NEW sn, NEW name, NEW saved, NEW w, w = WriteSnapshot(sn, name, saved)
  PROVE  /\ \A s : s \in w <=> (s \in sn /\ s.name # name) \/ s = Record(name, saved)
         /\ Record(name, saved).name = name /\ Record(name, saved).saved = saved
         /\ OneByName(sn) => OneByName(w)
<1>1. w = {s \in sn : s.name # name} \cup {Record(name, saved)}
  BY DEF WriteSnapshot, Record
<1>2. Record(name, saved).name = name /\ Record(name, saved).saved = saved
  BY DEF Record
<1> QED BY <1>1, <1>2 DEF OneByName

Looks(t) == t \notin DuplicateNames(session.tests) /\ SnapshotPath[t.file] \notin unreadable

\* A test writes its snapshot or leaves the file alone.
LEMMA ThisRunIs ==
  ASSUME NEW t, NEW r, r = RunOf(t), NEW sn, sn = snaps[SnapshotPath[t.file]]
  PROVE  /\ \/ r.snaps = sn
            \/ /\ r.snaps = WriteSnapshot(sn, t.name, TakeSnapshot(Effects(t)))
               /\ Reaches(t, template) /\ t.snapshot /\ Looks(t)
               /\ session.config.update \/ (~Has1(sn, t.name) /\ ~session.config.ci)
         /\ r.passed => /\ Reaches(t, template) \/ RefusedRight(t, template)
                        /\ Reaches(t, template) <=> r.began
         /\ r.passed /\ r.began =>
              /\ r.made = Effects(t) /\ RunsAsSaid(t, r.made)
              /\ t.snapshot => Looks(t) /\ Recorded(t) \in r.snaps
<1> DEFINE effects == Effects(t)
           dup == DuplicateNames(session.tests)
           rd == SnapshotPath[t.file] \notin unreadable
           looks == Looks(t)
           c == CheckSnapshot(session.config, dup, rd, sn, t, effects)
           w == WriteSnapshot(sn, t.name, TakeSnapshot(effects))
<1>1. /\ Reaches(t, template) => r.began /\ r.made = effects
      /\ Reaches(t, template) /\ t.snapshot => r.snaps = c.snaps /\ (r.passed <=> Failures(t, effects) = {} /\ c.passes)
      /\ Reaches(t, template) /\ ~t.snapshot => r.snaps = sn /\ (r.passed <=> Failures(t, effects) = {})
      /\ ~Reaches(t, template) => r.snaps = sn /\ (r.passed <=> RefusedRight(t, template)) /\ (r.passed => ~r.began)
  <2>1. r = RunTest(session.config, dup, rd, sn, t, template) /\ effects = template.does[t.context.exec_data]
    BY DEF RunOf, Effects
  <2> HIDE DEF effects, dup, rd
  <2> QED BY <2>1, RunTestIs
<1>2. /\ ~looks => ~c.passes /\ c.snaps = sn
      /\ looks /\ session.config.update => c.passes /\ c.snaps = w
      /\ looks /\ ~session.config.update /\ ~Has1(sn, t.name) /\ session.config.ci => ~c.passes /\ c.snaps = sn
      /\ looks /\ ~session.config.update /\ ~Has1(sn, t.name) /\ ~session.config.ci => c.passes /\ c.snaps = w
      /\ looks /\ ~session.config.update /\ Has1(sn, t.name) =>
           c.snaps = sn /\ (c.passes <=> Record(t.name, TakeSnapshot(effects)) \in sn)
  <2>1. looks = (t \notin dup /\ rd)
    BY DEF Looks
  <2> HIDE DEF effects, dup, rd, looks
  <2> QED BY <2>1, CheckSnapshotIs
<1>3. Recorded(t) \in w /\ Recorded(t) = Record(t.name, TakeSnapshot(effects))
  <2>1. Recorded(t) = Record(t.name, TakeSnapshot(effects))
    BY DEF Recorded
  <2> HIDE DEF effects
  <2> QED BY <2>1, WriteIs
<1>4. Reaches(t, template) => ~(t.expected.error = "" /\ effects.error # "")
  BY DEF Reaches, Effects
<1>5. Reaches(t, template) /\ Failures(t, effects) = {} => RunsAsSaid(t, effects)
  <2> HIDE DEF effects
  <2> QED BY <1>4, NoFailures
<1> HIDE DEF effects, dup, rd, looks, c, w
<1>6. \/ r.snaps = sn
      \/ r.snaps = w /\ Reaches(t, template) /\ t.snapshot /\ looks
         /\ (session.config.update \/ (~Has1(sn, t.name) /\ ~session.config.ci))
  BY <1>1, <1>2
<1>7. r.passed => (Reaches(t, template) \/ RefusedRight(t, template)) /\ (Reaches(t, template) <=> r.began)
  BY <1>1
<1>8. ASSUME r.passed, r.began
      PROVE  /\ r.made = effects /\ RunsAsSaid(t, r.made)
             /\ t.snapshot => looks /\ Recorded(t) \in r.snaps
  BY <1>1, <1>2, <1>3, <1>5, <1>8
<1> QED BY <1>6, <1>7, <1>8 DEF effects, looks, w

\* PruneSnapshots only removes snapshots.
LEMMA PrunedIs ==
  ASSUME NEW done, NEW z, z = PrunedOf(done)
  PROVE  /\ z = [p \in SnapshotFiles |-> z[p]]
         /\ \A p \in SnapshotFiles : \A s :
              s \in z[p] <=> s \in snaps[p] /\ \A f \in done : SnapshotPath[f] = p => s \notin StaleOf(f)
         /\ \A p \in SnapshotFiles : z[p] \subseteq snaps[p]
BY DEF PrunedOf

IsSnaps(sn) == sn = [q \in SnapshotFiles |-> sn[q]] /\ \A q \in SnapshotFiles : OneByName(sn[q])

\* A write that is cut off leaves some of the names.
LEMMA WriteCutIs ==
  ASSUME NEW before, IsSnaps(before), NEW p \in SnapshotFiles, NEW entries, OneByName(entries),
         WriteCut(before, p, entries)
  PROVE  IsSnaps(snaps')
<1>1. ASSUME NEW rest, OneByName(rest), snaps' = [before EXCEPT ![p] = rest]
      PROVE  IsSnaps(snaps')
  <2>1. before = [q \in SnapshotFiles |-> before[q]] /\ \A q \in SnapshotFiles : OneByName(before[q])
    BY DEF IsSnaps
  <2>2. snaps' = [q \in SnapshotFiles |-> IF q = p THEN rest ELSE before[q]]
    BY <1>1, <2>1
  <2>3. \A q \in SnapshotFiles : OneByName(snaps'[q])
    BY <1>1, <2>1, <2>2
  <2>4. snaps' = [q \in SnapshotFiles |-> snaps'[q]]
    BY <2>2
  <2> QED BY <2>3, <2>4 DEF IsSnaps
<1>2. OneByName(NoneSaved) /\ \A whole \in SUBSET entries : OneByName(whole)
  BY DEF OneByName, NoneSaved
<1>3. ASSUME NEW whole \in SUBSET entries, NEW s \in entries \ whole, NEW x
      PROVE  OneByName(whole \cup {[name |-> s.name, saved |-> x]})
  BY DEF OneByName
<1>4. CASE snaps' = [before EXCEPT ![p] = NoneSaved]
  BY <1>1, <1>2, <1>4
<1>5. CASE \E whole \in SUBSET entries : snaps' = [before EXCEPT ![p] = whole]
  BY <1>1, <1>2, <1>5
<1>6. CASE \E whole \in SUBSET entries : \E s \in entries \ whole, cut \in CutShort :
             snaps' = [before EXCEPT ![p] = whole \cup {[name |-> s.name, saved |-> FirstFields(s.saved, cut)]}]
  BY <1>1, <1>3, <1>6
<1> QED BY <1>4, <1>5, <1>6 DEF WriteCut

\* Snapshots whose writing or pruning is cut off still have one of a name.
LEMMA CutIs ==
  ASSUME TypeInv, CutOffInATest \/ CutOffInAPrune
  PROVE  IsSnaps(snaps')
<1>1. IsSnaps(snaps) /\ IsSession(session)
  BY DEF TypeInv, IsSnaps
<1>2. ASSUME NEW done
      PROVE  IsSnaps(PrunedOf(done))
  <2> DEFINE z == PrunedOf(done)
  <2>1. z = [p \in SnapshotFiles |-> z[p]] /\ \A p \in SnapshotFiles : z[p] \subseteq snaps[p]
    BY PrunedIs
  <2> HIDE DEF z
  <2>2. \A p \in SnapshotFiles : OneByName(z[p])
    BY <1>1, <2>1 DEF IsSnaps, OneByName
  <2> QED BY <2>1, <2>2 DEF IsSnaps, z
<1>3. CASE CutOffInATest
  <2> DEFINE t == session.tests[session.done + 1]
             p == SnapshotPath[t.file]
  <2>1. WriteCut(snaps, p, RunOf(t).snaps) /\ session.phase = "run" /\ MoreToRun
    BY <1>3 DEF CutOffInATest, Working
  <2>2. t.file \in File
    <3>1. IsList(session.tests) /\ session.done \in Nat /\ \A u \in Range(session.tests) : u.file \in File
      BY <1>1 DEF IsSession
    <3>2. Len(session.tests) \in Nat /\ session.done < Len(session.tests)
      BY <2>1, <3>1, ListIs DEF MoreToRun
    <3> QED BY <3>1, <3>2, ListIs
  <2>3. p \in SnapshotFiles
    BY <2>2 DEF SnapshotFiles
  <2>4. \/ RunOf(t).snaps = snaps[p]
        \/ RunOf(t).snaps = WriteSnapshot(snaps[p], t.name, TakeSnapshot(Effects(t)))
    <3> HIDE DEF t
    <3> QED BY ThisRunIs
  <2> HIDE DEF t, p
  <2>5. OneByName(RunOf(t).snaps)
    BY <1>1, <2>3, <2>4, WriteIs DEF IsSnaps
  <2> QED BY <1>1, <2>1, <2>3, <2>5, WriteCutIs
<1>4. CASE CutOffInAPrune
  <2>1. PICK done \in SUBSET TestFiles :
          \/ snaps' = PrunedOf(done)
          \/ \E f \in TestFiles \ done, p \in SnapshotFiles : WriteCut(PrunedOf(done), p, PrunedOf(done \cup {f})[p])
    BY <1>4 DEF CutOffInAPrune
  <2>2. CASE snaps' = PrunedOf(done)
    BY <1>2, <2>2
  <2>3. ASSUME NEW f \in TestFiles \ done, NEW p \in SnapshotFiles,
               WriteCut(PrunedOf(done), p, PrunedOf(done \cup {f})[p])
        PROVE  IsSnaps(snaps')
    <3>1. IsSnaps(PrunedOf(done)) /\ OneByName(PrunedOf(done \cup {f})[p])
      BY <1>2 DEF IsSnaps
    <3> QED BY <2>3, <3>1, WriteCutIs
  <2> QED BY <2>1, <2>2, <2>3
<1> QED BY <1>3, <1>4

\* The steps, by what they change.
Edits   == \E f \in File : EditFile(f)
Resting == session' = session /\ snaps' = snaps
Quits   == session' = Idle /\ snaps' = snaps
CutsOff == session' = Idle /\ blessed' = {} /\ IsSnaps(snaps')

\* Every step is one of these.
LEMMA StepIs ==
  ASSUME TypeInv, [Next]_vars
  PROVE  \/ Resting
         \/ Quits
         \/ CutsOff
         \/ snaps' = snaps /\ \E c \in may \cup {session} : Begins(c)
         \/ snaps' = snaps /\ (TakePath \/ LoadFile \/ BeginTests \/ ShowRun)
         \/ RunNext
         \/ Report
<1>1. CASE Edits \/ EditTemplate
  BY <1>1 DEF Edits, EditFile, EditTemplate, Edited, Resting
<1>2. CASE StartTest \/ StartWatch
  <2>1. \E c \in may : Begins(c)
    BY <1>2, GivenIs DEF StartTest, StartWatch
  <2> QED BY <1>2, <2>1 DEF StartTest, StartWatch
<1>3. CASE Interrupt \/ Exit
  BY <1>3, CutIs DEF Interrupt, Exit, Quits, CutsOff
<1>4. CASE Wake
  <2>1. snaps' = snaps
    BY <1>4 DEF Wake
  <2> QED BY <1>4, <2>1, WakeIs
<1>5. CASE TakePath \/ LoadFile \/ BeginTests \/ ShowRun
  BY <1>5 DEF TakePath, LoadFile, BeginTests, ShowRun
<1>6. CASE vars' = vars
  BY <1>6 DEF vars, Resting
<1> QED BY <1>1, <1>2, <1>3, <1>4, <1>5, <1>6 DEF Next, Step, Edits

\* The invariant of types holds at first, and every step keeps it.
LEMMA TypeInit == Init => TypeInv
<1> SUFFICES ASSUME Init PROVE TypeInv
  OBVIOUS
<1>1. PICK p \in Projects : /\ files = [f \in File |-> [at |-> 0, suite |-> p.files[f]]]
                            /\ snaps = p.snaps /\ may = p.may
  BY DEF Init
<1>2. /\ \A f \in File : p.files[f] = NoSuite \/ IsSuite(p.files[f])
      /\ p.snaps \in [SnapshotFiles -> {p.snaps[q] : q \in SnapshotFiles}]
      /\ \A q \in SnapshotFiles : \A s, z \in p.snaps[q] : s.name = z.name => s = z
      /\ \A c \in p.may : IsPaths(c.paths)
  BY ProjectsAssumption DEF IsPaths, IsPath
<1>3. files = [f \in File |-> [at |-> files[f].at, suite |-> files[f].suite]]
  BY <1>1
<1>4. \A f \in File : files[f].suite = NoSuite \/ IsSuite(files[f].suite)
  BY <1>1, <1>2
<1>5. snaps = [q \in SnapshotFiles |-> snaps[q]] /\ \A q \in SnapshotFiles : OneByName(snaps[q])
  BY <1>1, <1>2 DEF OneByName
<1>6. IsSession(session)
  BY IdleIs DEF Init
<1> QED BY <1>1, <1>2, <1>3, <1>4, <1>5, <1>6 DEF TypeInv

LEMMA TypeNext == TypeInv /\ [Next]_vars => TypeInv'
<1> SUFFICES ASSUME TypeInv, [Next]_vars PROVE TypeInv'
  OBVIOUS
<1> USE DEF TypeInv
<1>1. /\ files' = [f \in File |-> [at |-> files'[f].at, suite |-> files'[f].suite]]
      /\ \A f \in File : files'[f].suite = NoSuite \/ IsSuite(files'[f].suite)
  <2>1. CASE files' = files
    BY <2>1
  <2>2. ASSUME NEW g \in File, EditFile(g)
        PROVE  /\ files' = [f \in File |-> [at |-> files'[f].at, suite |-> files'[f].suite]]
               /\ \A f \in File : files'[f].suite = NoSuite \/ IsSuite(files'[f].suite)
    <3>1. PICK s \in Writes \cup {NoSuite} : files' = [files EXCEPT ![g] = [at |-> now + 1, suite |-> s]]
      BY <2>2 DEF EditFile
    <3>2. s = NoSuite \/ IsSuite(s)
      BY ProjectsAssumption
    <3>3. DOMAIN files = File
      OBVIOUS
    <3>4. files' = [f \in File |-> IF f = g THEN [at |-> now + 1, suite |-> s] ELSE files[f]]
      BY <3>1, <3>3
    <3>5. \A f \in File : files'[f] = [at |-> files'[f].at, suite |-> files'[f].suite]
      BY <3>4
    <3>6. \A f \in File : files'[f].suite = NoSuite \/ IsSuite(files'[f].suite)
      BY <3>2, <3>4
    <3> QED BY <3>4, <3>5, <3>6
  <2>3. files' = files \/ \E g \in File : EditFile(g)
    BY DEF Next, Step, EditTemplate, StartTest, StartWatch, Interrupt, TakePath, LoadFile, BeginTests, RunNext,
           Report, Exit, ShowRun, Wake, vars
  <2> QED BY <2>1, <2>2, <2>3
<1>2. may' = may
  BY DEF Next, Step, EditFile, EditTemplate, Edited, StartTest, StartWatch, Interrupt, TakePath, LoadFile, BeginTests, RunNext,
         Report, Exit, ShowRun, Wake, vars
<1>3. /\ snaps' = [q \in SnapshotFiles |-> snaps'[q]] /\ (\A q \in SnapshotFiles : OneByName(snaps'[q]))
      /\ IsSession(session')
  <2>1. CASE Resting
    BY <2>1 DEF Resting
  <2>2. CASE Quits
    BY <2>2, IdleIs DEF Quits
  <2>7. CASE CutsOff
    BY <2>7, IdleIs DEF CutsOff, IsSnaps
  <2>3. CASE snaps' = snaps /\ \E c \in may \cup {session} : Begins(c)
    BY <2>3, BeginIs DEF Begins
  <2>4. CASE snaps' = snaps /\ (TakePath \/ LoadFile \/ BeginTests \/ ShowRun)
    BY <2>4, TakePathIs, LoadFileIs, BeginTestsIs, ShowRunIs
  <2>5. CASE RunNext
    <3> DEFINE t == session.tests[session.done + 1]
               r == RunOf(t)
               p == SnapshotPath[t.file]
    <3>1. /\ IsSession(session') /\ p \in SnapshotFiles
          /\ snaps' = [snaps EXCEPT ![p] = r.snaps]
      <4>1. /\ IsSession(session') /\ t.file \in File
            /\ snaps' = [snaps EXCEPT ![SnapshotPath[t.file]] = r.snaps]
        BY <2>5, RunNextIs
      <4> HIDE DEF t, r
      <4> QED BY <4>1 DEF SnapshotFiles
    <3> HIDE DEF t, r
    <3>2. OneByName(r.snaps)
      <4>1. \/ r.snaps = snaps[p]
            \/ r.snaps = WriteSnapshot(snaps[p], t.name, TakeSnapshot(Effects(t)))
        BY ThisRunIs DEF r
      <4> HIDE DEF p
      <4> QED BY <3>1, <4>1, WriteIs
    <3> HIDE DEF p
    <3> QED BY <3>1, <3>2
  <2>6. CASE Report
    <3> DEFINE z == PrunedOf(TestFiles)
    <3>1. IsSession(session') /\ snaps' = IF Prunes(session.config) THEN z ELSE snaps
      BY <2>6, ReportIs
    <3>2. /\ z = [q \in SnapshotFiles |-> z[q]]
          /\ \A q \in SnapshotFiles : z[q] \subseteq snaps[q]
      BY PrunedIs
    <3> HIDE DEF z
    <3>3. \A q \in SnapshotFiles : OneByName(z[q])
      BY <3>2 DEF OneByName
    <3> QED BY <3>1, <3>2, <3>3
  <2> QED BY <2>1, <2>2, <2>3, <2>4, <2>5, <2>6, <2>7, StepIs
<1> QED BY <1>1, <1>2, <1>3

\* A session is a list of paths, of files to read and of tests, each of a test file, and as
\* many tests were run as there are; a snapshot file holds one snapshot of a name.
THEOREM SessionsKeepTypes == Spec => []TypeInv
<1> QED BY TypeInit, TypeNext, PTL DEF Spec

-----------------------------------------------------------------------------
(* A session keeps to the files of its paths.                              *)
SessionFiles ==
  {r.test.file : r \in session.ran} \cup TestFiles \cup Range(session.unread)
    \cup UNION {Range(p) : p \in Range(session.todo)}
AllGiven == UNION {GivenFiles(c.paths) : c \in may}
GivenInv == SessionFiles \subseteq GivenFiles(session.paths) /\ GivenFiles(session.paths) \subseteq AllGiven

\* The commands stay as they are.
LEMMA MayStays == [Next]_vars => may' = may
BY DEF Next, Step, EditFile, EditTemplate, Edited, StartTest, StartWatch, Interrupt, TakePath, LoadFile, BeginTests, RunNext,
       Report, Exit, ShowRun, Wake, vars

\* A session that begins has its paths before it.
LEMMA GivenFresh ==
  ASSUME session'.ran = {}, session'.tests = <<>>, session'.unread = <<>>, session'.todo \in {session'.paths, <<>>},
         may' = may, GivenFiles(session'.paths) \subseteq AllGiven
  PROVE  GivenInv'
<1>1. TestFiles' = {} /\ Range(session'.unread) = {}
  BY ListEmpty DEF TestFiles
<1>2. \A p \in Range(session'.todo) : Range(p) \subseteq GivenFiles(session'.paths)
  <2>1. CASE session'.todo = session'.paths
    BY <2>1 DEF GivenFiles, Range
  <2>2. CASE session'.todo = <<>>
    BY <2>2, ListEmpty
  <2> QED BY <2>1, <2>2
<1>3. AllGiven' = AllGiven /\ GivenFiles(session.paths)' = GivenFiles(session'.paths)
  BY DEF AllGiven, GivenFiles
<1> QED BY <1>1, <1>2, <1>3 DEF GivenInv, SessionFiles

\* A step leaves the paths, and takes its files from where they were.
LEMMA GivenKept ==
  ASSUME GivenInv, session'.paths = session.paths, SessionFiles' \subseteq SessionFiles, may' = may
  PROVE  GivenInv'
BY DEF GivenInv, AllGiven, GivenFiles

LEMMA GivenNext == TypeInv /\ GivenInv /\ [Next]_vars => GivenInv'
<1> SUFFICES ASSUME TypeInv, GivenInv, [Next]_vars PROVE GivenInv'
  OBVIOUS
<1>0. may' = may
  BY MayStays
<1>1. CASE Resting
  BY <1>0, <1>1 DEF Resting, GivenInv, SessionFiles, TestFiles, AllGiven, GivenFiles
<1>2. CASE Quits \/ CutsOff
  <2>1. GivenFiles(<<>>) = {}
    BY DEF GivenFiles
  <2> QED BY <1>0, <1>2, <2>1, IdleIs, GivenFresh DEF Quits, CutsOff
<1>3. CASE \E c \in may \cup {session} : Begins(c)
  <2>1. \A c \in may \cup {session} : GivenFiles(c.paths) \subseteq AllGiven
    BY DEF GivenInv, AllGiven
  <2> QED BY <1>0, <1>3, <2>1, BeginIs, GivenFresh DEF Begins
<1>4. IsSession(session) /\ Range(<<>>) = {}
  BY ListEmpty DEF TypeInv
<1>5. CASE TakePath
  <2>1. /\ session'.paths = session.paths /\ session'.ran = session.ran /\ session'.tests = <<>> /\ session.todo # <<>>
        /\ session'.unread = Head(session.todo) /\ session'.todo = Tail(session.todo)
    BY <1>5, TakePathIs DEF Unmoved
  <2>2. TestFiles' = {}
    BY <1>4, <2>1 DEF TestFiles
  <2>3. Range(session.todo) = {Head(session.todo)} \cup Range(Tail(session.todo))
    BY <1>4, <2>1, ListHead DEF IsSession, IsPaths
  <2>4. SessionFiles' \subseteq SessionFiles
    BY <2>1, <2>2, <2>3 DEF SessionFiles
  <2> QED BY <1>0, <2>1, <2>4, GivenKept
<1>6. CASE LoadFile
  <2> DEFINE f == Head(session.unread)
  <2>1. /\ session'.paths = session.paths /\ session'.ran = session.ran /\ f \in File /\ session.unread # <<>>
        /\ session'.unread = Tail(session.unread) /\ session'.todo \in {session.todo, <<>>}
        /\ \/ session'.tests = session.tests
           \/ files[f].suite # NoSuite /\ session'.tests = session.tests \o LoadedTests(f)
    BY <1>6, LoadFileIs DEF Unmoved
  <2>2. Range(session.unread) = {f} \cup Range(Tail(session.unread))
    BY <1>4, <2>1, ListHead DEF IsSession
  <2> HIDE DEF f
  <2>3. TestFiles' \subseteq TestFiles \cup {f}
    <3>1. CASE session'.tests = session.tests
      BY <3>1 DEF TestFiles
    <3>2. CASE files[f].suite # NoSuite /\ session'.tests = session.tests \o LoadedTests(f)
      <4>1. IsList(LoadedTests(f)) /\ \A t \in Range(LoadedTests(f)) : t.file = f
        BY <2>1, <3>2, LoadedIs DEF TypeInv
      <4>2. Range(session'.tests) = Range(session.tests) \cup Range(LoadedTests(f))
        BY <1>4, <3>2, <4>1, ListConcat DEF IsSession
      <4> QED BY <4>1, <4>2 DEF TestFiles
    <3> QED BY <2>1, <3>1, <3>2
  <2>4. Range(session'.todo) \subseteq Range(session.todo)
    BY <1>4, <2>1
  <2>5. SessionFiles' \subseteq SessionFiles
    BY <2>1, <2>2, <2>3, <2>4 DEF SessionFiles
  <2> QED BY <1>0, <2>1, <2>5, GivenKept
<1>7. ASSUME session'.paths = session.paths, session'.ran = session.ran, session'.unread = session.unread,
             session'.tests = session.tests, session'.todo \in {session.todo, <<>>}
      PROVE  GivenInv'
  <2>1. SessionFiles' \subseteq SessionFiles
    BY <1>4, <1>7 DEF SessionFiles, TestFiles
  <2> QED BY <1>0, <1>7, <2>1, GivenKept
<1>8. CASE BeginTests \/ Report
  <2>1. /\ session'.paths = session.paths /\ session'.ran = session.ran /\ session'.unread = session.unread
        /\ session'.tests = session.tests /\ session'.todo \in {session.todo, <<>>}
    BY <1>8, BeginTestsIs, ReportIs DEF Unmoved
  <2> QED BY <1>7, <2>1
<1>9. CASE ShowRun
  <2>1. /\ session'.paths = session.paths /\ session'.ran = {} /\ session'.tests = <<>>
        /\ session'.todo = session.todo /\ session'.unread = session.unread
    BY <1>9, ShowRunIs DEF Unmoved
  <2>2. SessionFiles' \subseteq SessionFiles
    BY <1>4, <2>1 DEF SessionFiles, TestFiles
  <2> QED BY <1>0, <2>1, <2>2, GivenKept
<1>10. CASE RunNext
  <2> DEFINE t == session.tests[session.done + 1]
             x == TestResult(t, RunOf(t))
  <2>1. /\ session'.paths = session.paths /\ t \in Range(session.tests)
        /\ session'.tests = session.tests /\ session'.unread = session.unread /\ session'.todo = session.todo
        /\ session'.ran = session.ran \cup {x}
    BY <1>10, RunNextIs DEF Unmoved
  <2>2. x.test = t
    BY DEF TestResult
  <2> HIDE DEF t, x
  <2>3. SessionFiles' \subseteq SessionFiles
    BY <2>1, <2>2 DEF SessionFiles, TestFiles
  <2> QED BY <1>0, <2>1, <2>3, GivenKept
<1> QED BY <1>1, <1>2, <1>3, <1>5, <1>6, <1>8, <1>9, <1>10, StepIs

\* A session loads and runs tests of the files it was given only.
LEMMA FilesAreGiven == Spec => []GivenInv
<1>1. Init => GivenInv
  <2> SUFFICES ASSUME Init PROVE GivenInv
    OBVIOUS
  <2>1. session = Idle
    BY DEF Init
  <2>2. GivenFiles(<<>>) = {}
    BY DEF GivenFiles
  <2> QED BY <2>1, <2>2, IdleIs, ListEmpty DEF GivenInv, SessionFiles, TestFiles
<1> QED BY <1>1, GivenNext, SessionsKeepTypes, PTL DEF Spec

-----------------------------------------------------------------------------
(* A green session has checked what it was given.                          *)
Green == session.code = 0 /\ (session.phase = "run" => ~session.bad)

\* The tests of the path that were run.
Done == {session.tests[i] : i \in 1 .. session.done}

RanAsSaid ==
  Green => \A r \in session.ran : IF r.test.expected.no_trigger THEN ~r.began ELSE r.began /\ RunsAsSaid(r.test, r.made)

\* Where a path's files are in no other path, and so are the tests of the path.
ApartFrom(ran, fs) == \A r \in ran : r.test.file \notin fs
Apart ==
  OnePathEach(session.paths) =>
    /\ OnePathEach(session.todo)
    /\ \A p \in Range(session.todo) :
         /\ ApartFrom(session.ran, Range(p))
         /\ Range(p) \cap Range(session.unread) = {} /\ Range(p) \cap TestFiles = {}
    /\ \A r \in session.ran : r.test \in Done \/ (r.test.file \notin Range(session.unread) /\ r.test.file \notin TestFiles)

Rewritable == Prunes(session.config) => OnePathEach(session.paths) /\ OwnSnapshots(GivenFiles(session.paths))
SavedOf(f) == snaps[SnapshotPath[f]]
SavedIsMade(r) ==
  /\ \A s \in SavedOf(r.test.file) : s.name = r.test.name => s.saved = TakeSnapshot(r.made)
  /\ ~Prunes(session.config) => Has1(SavedOf(r.test.file), r.test.name)
SavedInv ==
  Green /\ Rewritable => \A r \in session.ran : r.began /\ r.test.snapshot => SavedIsMade(r)

DoneRan == session.phase = "run" => \A t \in Done : \E r \in session.ran : r.test = t
Clean(f) == \A s \in SavedOf(f) : \E q \in session.ran : q.test.file = f /\ q.test.snapshot /\ q.test.name = s.name
Cleaned == IF Prunes(session.config) THEN OwnSnapshots(GivenFiles(session.paths)) ELSE session.config.ci
CleanInv ==
  Green /\ Cleaned =>
    \A r \in session.ran : Clean(r.test.file) \/ (session.phase = "run" /\ r.test \in Done)

GreenInv == RanAsSaid /\ Apart /\ SavedInv /\ DoneRan /\ CleanInv

\* The first path has no file of the paths after it.
LEMMA OnePathTail ==
  ASSUME NEW q, IsPaths(q), OnePathEach(q), q # <<>>
  PROVE  /\ OnePathEach(Tail(q))
         /\ \A p \in Range(Tail(q)) : Range(p) \cap Range(Head(q)) = {}
<1>1. /\ Len(q) \in Nat /\ DOMAIN q = 1 .. Len(q) /\ Len(q) # 0
      /\ Head(q) = q[1] /\ IsList(Tail(q)) /\ Len(Tail(q)) = Len(q) - 1
      /\ \A i \in 1 .. Len(Tail(q)) : Tail(q)[i] = q[i + 1]
  BY ListIs, ListHead DEF IsPaths
<1> DEFINE l == Tail(q)
<1>2. DOMAIN l = 1 .. Len(l) /\ \A p \in Range(l) : \E i \in 1 .. Len(l) : l[i] = p
  BY <1>1, ListIs
<1> HIDE DEF l
<1>3. ASSUME NEW i \in DOMAIN l, NEW j \in DOMAIN l, i # j
      PROVE  Range(l[i]) \cap Range(l[j]) = {}
  <2>1. i + 1 \in DOMAIN q /\ j + 1 \in DOMAIN q /\ i + 1 # j + 1 /\ l[i] = q[i + 1] /\ l[j] = q[j + 1]
    BY <1>1, <1>2, <1>3 DEF l
  <2> QED BY <2>1 DEF OnePathEach
<1>4. ASSUME NEW p \in Range(l) PROVE Range(p) \cap Range(Head(q)) = {}
  <2>1. PICK i \in 1 .. Len(l) : l[i] = p
    BY <1>2
  <2>2. i + 1 \in DOMAIN q /\ 1 \in DOMAIN q /\ i + 1 # 1 /\ p = q[i + 1] /\ Head(q) = q[1]
    BY <1>1, <1>2, <2>1 DEF l
  <2> QED BY <2>2 DEF OnePathEach
<1> QED BY <1>3, <1>4 DEF OnePathEach, l

\* A new session has run nothing.
LEMMA GreenFresh ==
  ASSUME session'.ran = {}, session'.done = 0, session'.tests = <<>>, session'.unread = <<>>,
         session'.todo \in {session'.paths, <<>>}
  PROVE  GreenInv'
<1>1. Done' = {} /\ TestFiles' = {}
  BY ListEmpty DEF Done, TestFiles
<1>2. OnePathEach(<<>>)
  BY DEF OnePathEach
<1>3. Apart'
  BY <1>1, <1>2, ListEmpty DEF Apart, ApartFrom
<1> QED BY <1>1, <1>3 DEF GreenInv, RanAsSaid, SavedInv, DoneRan, CleanInv

LEMMA NoneDone == session.done = 0 => Done = {}
BY DEF Done

LEMMA PrimedSame ==
  ASSUME Unmoved(session', session)
  PROVE  /\ Rewritable' <=> Rewritable
         /\ Cleaned' <=> Cleaned
         /\ OnePathEach(session'.paths) <=> OnePathEach(session.paths)
BY DEF Unmoved, Rewritable, Cleaned

\* Each action keeps the invariant.
LEMMA GreenTakePath ==
  ASSUME TypeInv, GreenInv, TakePath, snaps' = snaps
  PROVE  GreenInv'
<1>1. /\ Unmoved(session', session) /\ session.phase = "path" /\ session.todo # <<>> /\ IsPaths(session.todo)
      /\ session'.phase = "load" /\ session'.todo = Tail(session.todo)
      /\ session'.unread = Head(session.todo) /\ session'.tests = <<>> /\ session'.done = 0
      /\ session'.code = session.code /\ session'.ran = session.ran
  BY TakePathIs DEF TypeInv, IsSession
<1>2. Green' => Green
  BY <1>1 DEF Green
<1>3. Done' = {} /\ TestFiles' = {}
  BY <1>1, ListEmpty DEF Done, TestFiles
<1>4. Apart'
  <2>1. ASSUME OnePathEach(session.paths)
        PROVE  /\ OnePathEach(session'.todo)
               /\ \A p \in Range(session'.todo) :
                    ApartFrom(session.ran, Range(p)) /\ Range(p) \cap Range(session'.unread) = {}
               /\ ApartFrom(session.ran, Range(session'.unread))
    <3>1. /\ OnePathEach(session.todo) /\ \A p \in Range(session.todo) : ApartFrom(session.ran, Range(p))
      BY <2>1 DEF GreenInv, Apart
    <3>2. Range(session.todo) = {Head(session.todo)} \cup Range(Tail(session.todo))
      BY <1>1, ListHead DEF IsPaths
    <3>3. /\ OnePathEach(Tail(session.todo))
          /\ \A p \in Range(Tail(session.todo)) : Range(p) \cap Range(Head(session.todo)) = {}
      BY <1>1, <3>1, OnePathTail
    <3> QED BY <1>1, <3>1, <3>2, <3>3
  <2> QED BY <1>1, <1>3, <2>1 DEF Apart, ApartFrom, Unmoved
<1>5. RanAsSaid' /\ SavedInv' /\ DoneRan'
  BY <1>1, <1>2, PrimedSame DEF GreenInv, RanAsSaid, SavedInv, SavedIsMade, SavedOf, DoneRan, Has1, Unmoved
<1>6. CleanInv'
  BY <1>1, <1>2, PrimedSame DEF GreenInv, CleanInv, Clean, SavedOf, Unmoved
<1> QED BY <1>4, <1>5, <1>6 DEF GreenInv

LEMMA GreenLoadFile ==
  ASSUME TypeInv, GreenInv, LoadFile, snaps' = snaps
  PROVE  GreenInv'
<1> DEFINE f == Head(session.unread)
<1>1. /\ IsSession(session) /\ Unmoved(session', session) /\ session.phase = "load" /\ f \in File
      /\ session.unread # <<>> /\ session'.unread = Tail(session.unread) /\ session'.ran = session.ran
      /\ session'.done = session.done /\ session.done = 0
      /\ \/ session'.phase = "path" /\ session'.code = 1 /\ session'.tests = session.tests
            /\ session'.todo \in {session.todo, <<>>}
         \/ session'.phase = "load" /\ session'.code = session.code /\ session'.todo = session.todo
            /\ \/ session'.tests = session.tests
               \/ files[f].suite # NoSuite /\ session'.tests = session.tests \o LoadedTests(f)
  BY LoadFileIs DEF TypeInv, IsSession
<1>2. Green' => Green /\ session'.phase = "load"
  BY <1>1 DEF Green
<1>3. Done' = {} /\ Done = {}
  BY <1>1 DEF Done
<1> HIDE DEF f
<1>4. f \in Range(session.unread) /\ Range(session'.unread) \subseteq Range(session.unread)
  BY <1>1, ListHead DEF IsSession, f
<1>5. TestFiles' \subseteq TestFiles \cup {f}
  <2>1. CASE session'.tests = session.tests
    BY <2>1 DEF TestFiles
  <2>2. CASE files[f].suite # NoSuite /\ session'.tests = session.tests \o LoadedTests(f)
    <3>1. IsList(LoadedTests(f)) /\ \A t \in Range(LoadedTests(f)) : t.file = f
      BY <1>1, <2>2, LoadedIs DEF TypeInv
    <3>2. Range(session'.tests) = Range(session.tests) \cup Range(LoadedTests(f))
      BY <1>1, <2>2, <3>1, ListConcat DEF IsSession
    <3> QED BY <3>1, <3>2 DEF TestFiles
  <2> QED BY <1>1, <2>1, <2>2
<1>6. session'.todo \in {session.todo, <<>>}
  BY <1>1
<1>7. Apart'
  <2>1. OnePathEach(<<>>) /\ Range(<<>>) = {}
    BY ListEmpty DEF OnePathEach
  <2>2. Range(session'.todo) \subseteq Range(session.todo) /\ (OnePathEach(session.todo) => OnePathEach(session'.todo))
    BY <1>6, <2>1
  <2> QED BY <1>1, <1>3, <1>4, <1>5, <2>2 DEF GreenInv, Apart, ApartFrom, Unmoved
<1>8. RanAsSaid' /\ SavedInv' /\ DoneRan'
  BY <1>1, <1>2, <1>3, PrimedSame DEF GreenInv, RanAsSaid, SavedInv, SavedIsMade, SavedOf, DoneRan, Has1, Unmoved
<1>9. CleanInv'
  BY <1>1, <1>2, <1>3, PrimedSame DEF GreenInv, CleanInv, Clean, SavedOf, Unmoved
<1> QED BY <1>7, <1>8, <1>9 DEF GreenInv

LEMMA GreenBeginTests ==
  ASSUME TypeInv, GreenInv, BeginTests, snaps' = snaps
  PROVE  GreenInv'
<1>1. /\ Unmoved(session', session) /\ session.phase = "load" /\ session.done = 0
      /\ session'.unread = session.unread /\ session'.ran = session.ran /\ session'.done = session.done
      /\ session'.tests = session.tests
      /\ \/ session'.phase = "path" /\ session'.code = 1
         \/ session'.phase = "run" /\ session'.code = session.code
      /\ session'.todo \in {session.todo, <<>>}
  BY BeginTestsIs DEF TypeInv, IsSession
<1>2. Green' => Green
  BY <1>1 DEF Green
<1>3. Done' = {} /\ Done = {}
  BY <1>1 DEF Done
<1>4. TestFiles' = TestFiles
  BY <1>1 DEF TestFiles
<1>7. Apart'
  <2>1. OnePathEach(<<>>) /\ Range(<<>>) = {}
    BY ListEmpty DEF OnePathEach
  <2>2. Range(session'.todo) \subseteq Range(session.todo) /\ (OnePathEach(session.todo) => OnePathEach(session'.todo))
    BY <1>1, <2>1
  <2> QED BY <1>1, <1>3, <1>4, <2>2 DEF GreenInv, Apart, ApartFrom, Unmoved
<1>8. RanAsSaid' /\ SavedInv' /\ DoneRan'
  BY <1>1, <1>2, <1>3, PrimedSame DEF GreenInv, RanAsSaid, SavedInv, SavedIsMade, SavedOf, DoneRan, Has1, Unmoved
<1>9. CleanInv'
  BY <1>1, <1>2, <1>3, PrimedSame DEF GreenInv, CleanInv, Clean, SavedOf, Unmoved
<1> QED BY <1>7, <1>8, <1>9 DEF GreenInv

LEMMA GreenShowRun ==
  ASSUME TypeInv, GreenInv, ShowRun, snaps' = snaps
  PROVE  GreenInv'
<1>1. /\ Unmoved(session', session) /\ session'.phase = "watching" /\ session'.ran = {} /\ session'.tests = <<>>
      /\ session'.todo = session.todo /\ session'.unread = session.unread
  BY ShowRunIs
<1>2. TestFiles' = {}
  BY <1>1, ListEmpty DEF TestFiles
<1>3. Apart'
  BY <1>1, <1>2 DEF GreenInv, Apart, ApartFrom, Unmoved
<1> QED BY <1>1, <1>3 DEF GreenInv, RanAsSaid, SavedInv, DoneRan, CleanInv

LEMMA GreenRunNext ==
  ASSUME TypeInv, GivenInv, GreenInv, RunNext
  PROVE  GreenInv'
<1> DEFINE t == session.tests[session.done + 1]
           r == RunOf(t)
           x == TestResult(t, r)
           p == SnapshotPath[t.file]
           sn == snaps[p]
<1>1. /\ IsSession(session) /\ Unmoved(session', session) /\ session.phase = "run" /\ session'.phase = "run"
      /\ session.done + 1 \in 1 .. Len(session.tests) /\ t \in Range(session.tests) /\ t.file \in File
      /\ session'.done = session.done + 1 /\ session'.tests = session.tests /\ session'.unread = session.unread
      /\ session'.todo = session.todo /\ session'.code = session.code /\ (session'.bad <=> session.bad \/ ~r.passed)
      /\ session'.ran = session.ran \cup {x} /\ snaps' = [snaps EXCEPT ![p] = r.snaps]
  BY RunNextIs DEF TypeInv
<1>2. x.test = t /\ x.began = r.began /\ x.made = r.made
  BY DEF TestResult
<1>3. /\ \/ r.snaps = sn
         \/ /\ r.snaps = WriteSnapshot(sn, t.name, TakeSnapshot(Effects(t)))
            /\ t.snapshot /\ Looks(t)
            /\ session.config.update \/ (~Has1(sn, t.name) /\ ~session.config.ci)
      /\ r.passed => Reaches(t, template) \/ RefusedRight(t, template)
      /\ r.passed => (Reaches(t, template) <=> r.began)
      /\ r.passed /\ r.began =>
           /\ r.made = Effects(t) /\ RunsAsSaid(t, r.made)
           /\ t.snapshot => Looks(t) /\ Recorded(t) \in r.snaps
  BY ThisRunIs
<1>20. \A f \in File : SnapshotPath[f] \in SnapshotFiles
  BY DEF SnapshotFiles
<1>4. \A f \in File : SnapshotPath[f] # p => SavedOf(f)' = SavedOf(f)
  BY <1>1, <1>20 DEF TypeInv, SavedOf
<1>5. \A f : SnapshotPath[f] = p => SavedOf(f)' = r.snaps /\ SavedOf(f) = sn
  <2>1. p \in SnapshotFiles
    BY <1>1, <1>20
  <2> QED BY <1>1, <2>1 DEF TypeInv, SavedOf
<1>6. session.done \in Nat /\ Len(session.tests) \in Nat /\ IsList(session.tests)
  BY <1>1, ListIs DEF IsSession
<1>7. Done' = Done \cup {t}
  <2>1. Done' = {session.tests[i] : i \in 1 .. session.done + 1}
    BY <1>1 DEF Done
  <2>2. 1 .. session.done + 1 = (1 .. session.done) \cup {session.done + 1}
    BY <1>6
  <2> QED BY <2>1, <2>2 DEF Done
<1>8. Green' => Green /\ r.passed
  BY <1>1 DEF Green
<1>9. TestFiles' = TestFiles /\ t.file \in TestFiles
  BY <1>1 DEF TestFiles
<1>10. \A q \in session.ran : q.test.file \in File
  BY <1>1 DEF IsSession
<1>11. Reaches(t, template) => ~t.expected.no_trigger
  BY DEF Reaches
<1>12. RefusedRight(t, template) => t.expected.no_trigger
  BY DEF RefusedRight
<1> DEFINE w == WriteSnapshot(sn, t.name, TakeSnapshot(Effects(t)))
<1>13. /\ \A s : s \in w <=> (s \in sn /\ s.name # t.name) \/ s = Recorded(t)
       /\ Recorded(t).name = t.name /\ Recorded(t).saved = TakeSnapshot(Effects(t))
  BY WriteIs DEF Recorded
<1>14. OneByName(r.snaps)
  <2>1. OneByName(sn)
    BY <1>1, <1>20 DEF TypeInv
  <2> HIDE DEF sn
  <2> QED BY <1>3, <2>1, WriteIs
<1>21. ASSUME OwnSnapshots(GivenFiles(session.paths)), NEW q \in session.ran, SnapshotPath[q.test.file] = p
       PROVE  q.test.file = t.file
  <2>1. q.test.file \in GivenFiles(session.paths)
    BY DEF GivenInv, SessionFiles
  <2>2. t.file \in GivenFiles(session.paths)
    BY <1>9 DEF GivenInv, SessionFiles
  <2> HIDE DEF t
  <2> QED BY <1>21, <2>1, <2>2 DEF OwnSnapshots
<1>22. SnapshotPath[t.file] = p
  OBVIOUS
<1> HIDE DEF t, r, x, p
<1>15. RanAsSaid'
  BY <1>1, <1>2, <1>3, <1>8, <1>11, <1>12 DEF GreenInv, RanAsSaid
<1>16. Apart'
  <2>1. ASSUME OnePathEach(session.paths)
        PROVE  /\ OnePathEach(session'.todo)
               /\ \A path \in Range(session'.todo) :
                    /\ ApartFrom(session'.ran, Range(path))
                    /\ Range(path) \cap Range(session'.unread) = {} /\ Range(path) \cap TestFiles' = {}
               /\ \A q \in session'.ran : q.test \in Done' \/ (q.test.file \notin Range(session'.unread) /\ q.test.file \notin TestFiles')
    <3>1. /\ OnePathEach(session.todo)
          /\ \A path \in Range(session.todo) :
               /\ ApartFrom(session.ran, Range(path))
               /\ Range(path) \cap Range(session.unread) = {} /\ Range(path) \cap TestFiles = {}
          /\ \A q \in session.ran : q.test \in Done \/ (q.test.file \notin Range(session.unread) /\ q.test.file \notin TestFiles)
      BY <2>1 DEF GreenInv, Apart
    <3> QED BY <1>1, <1>2, <1>7, <1>9, <3>1 DEF ApartFrom
  <2> QED BY <1>1, <2>1 DEF Apart, ApartFrom, Unmoved
<1>17. SavedInv'
  <2> SUFFICES ASSUME Green', Rewritable', NEW q \in session'.ran, q.began, q.test.snapshot PROVE SavedIsMade(q)'
    BY DEF SavedInv
  <2>1. Green /\ Rewritable /\ r.passed /\ (Prunes(session.config)' <=> Prunes(session.config))
    BY <1>1, <1>8, PrimedSame DEF Unmoved
  <2>2. CASE q = x
    <3>1. Recorded(t) \in r.snaps /\ r.made = Effects(t)
      BY <1>2, <1>3, <2>1, <2>2
    <3>2. \A s \in r.snaps : s.name = t.name => s = Recorded(t)
      BY <1>13, <1>14, <3>1 DEF OneByName
    <3> DEFINE f == q.test.file
    <3>3. q.test = t /\ q.made = Effects(t)
      BY <1>2, <2>2, <3>1
    <3>4. SnapshotPath[f] = p
      BY <1>22, <3>3
    <3>5. SavedOf(f)' = r.snaps
      BY <1>5, <3>4
    <3>6. SavedIsMade(q)' <=>
            /\ \A s \in SavedOf(f)' : s.name = q.test.name => s.saved = TakeSnapshot(q.made)
            /\ ~Prunes(session.config) => Has1(SavedOf(f)', q.test.name)
      BY <2>1 DEF SavedIsMade
    <3> HIDE DEF f
    <3> QED BY <1>13, <3>1, <3>2, <3>3, <3>5, <3>6 DEF Has1
  <2>3. CASE q \in session.ran
    <3> DEFINE f == q.test.file
               same == SnapshotPath[f] = p
    <3>1. /\ \A s \in SavedOf(f) : s.name = q.test.name => s.saved = TakeSnapshot(q.made)
          /\ ~Prunes(session.config) => Has1(SavedOf(f), q.test.name)
      BY <2>1, <2>3 DEF GreenInv, SavedInv, SavedIsMade
    <3>6. (same => SavedOf(f)' = r.snaps /\ SavedOf(f) = sn) /\ (~same => SavedOf(f)' = SavedOf(f))
      BY <1>4, <1>5, <1>10, <2>3
    <3>7. q.test.file = f /\ (SavedIsMade(q)' <=>
             /\ \A s \in SavedOf(f)' : s.name = q.test.name => s.saved = TakeSnapshot(q.made)
             /\ ~Prunes(session.config) => Has1(SavedOf(f)', q.test.name))
      BY <2>1 DEF SavedIsMade
    <3> HIDE DEF f, sn, w
    <3>2. CASE ~same
      BY <3>1, <3>2, <3>6, <3>7
    <3>3. CASE same /\ r.snaps = sn
      BY <3>1, <3>3, <3>6, <3>7
    <3>4. CASE same /\ r.snaps = w /\ q.test.name # t.name
      <4>1. \A s : s.name = q.test.name => (s \in r.snaps <=> s \in sn)
        BY <1>13, <3>4 DEF w
      <4> QED BY <3>1, <3>4, <3>6, <3>7, <4>1 DEF Has1
    <3>5. CASE same /\ q.test.name = t.name /\ r.snaps # sn
      <4>1. t.snapshot /\ Looks(t) /\ (session.config.update \/ ~Has1(sn, t.name))
        BY <1>3, <3>5 DEF sn
      <4>2. Prunes(session.config)
        BY <3>1, <3>5, <3>6, <4>1 DEF Prunes
      <4>3. OnePathEach(session.paths) /\ q.test.file = t.file
        BY <1>21, <2>1, <2>3, <3>5, <3>7, <4>2 DEF Rewritable
      <4>4. q.test \in Done
        BY <1>9, <2>3, <4>3 DEF GreenInv, Apart
      <4>5. PICK i \in 1 .. session.done : session.tests[i] = q.test
        BY <4>4 DEF Done
      <4> DEFINE j == session.done + 1
      <4>6. i \in 1 .. Len(session.tests) /\ j \in 1 .. Len(session.tests) /\ i # j
        BY <1>1, <1>6
      <4>7. session.tests[j] = t
        BY DEF t
      <4> HIDE DEF j
      <4>8. t \in DuplicateNames(session.tests)
        BY <1>1, <1>6, <3>5, <4>3, <4>5, <4>6, <4>7, DuplicateIs
      <4> QED BY <4>1, <4>8 DEF Looks
    <3>8. r.snaps = sn \/ r.snaps = w
      BY <1>3 DEF w, sn
    <3> QED BY <3>2, <3>3, <3>4, <3>5, <3>8
  <2> QED BY <1>1, <2>2, <2>3
<1>18. DoneRan'
  BY <1>1, <1>2, <1>7 DEF GreenInv, DoneRan
<1>19. CleanInv'
  <2> SUFFICES ASSUME Green', Cleaned', NEW q \in session'.ran
               PROVE  Clean(q.test.file)' \/ q.test \in Done'
    BY <1>1 DEF CleanInv
  <2>3. Green /\ Cleaned
    BY <1>1, <1>8, PrimedSame
  <2>1. q.test = t \/ (q \in session.ran /\ (Clean(q.test.file) \/ q.test \in Done))
    BY <1>1, <1>2, <2>3 DEF GreenInv, CleanInv, Unmoved
  <2>2. ASSUME q \in session.ran, Clean(q.test.file) PROVE Clean(q.test.file)'
    <3> DEFINE f == q.test.file
               same == SnapshotPath[f] = p
    <3>1. \A s \in SavedOf(f) :
            \E y \in session'.ran : y.test.file = f /\ y.test.snapshot /\ y.test.name = s.name
      BY <1>1, <2>2 DEF Clean
    <3>2. CASE SavedOf(f)' = SavedOf(f)
      BY <3>1, <3>2 DEF Clean
    <3>3. CASE same /\ r.snaps # sn
      <4>1. x \in session'.ran
        BY <1>1
      <4>2. r.snaps = w /\ t.snapshot /\ (session.config.update \/ ~session.config.ci)
        BY <1>3, <3>3
      <4>3. OwnSnapshots(GivenFiles(session.paths))
        BY <2>3, <4>2 DEF Cleaned, Prunes
      <4>4. f = t.file
        BY <1>21, <2>2, <3>3, <4>3
      <4>5. SavedOf(f)' = w /\ SavedOf(f) = sn
        BY <1>5, <3>3, <4>2
      <4> HIDE DEF w, sn, f
      <4>6. \A s \in w : s \in sn \/ s.name = t.name
        BY <1>13 DEF w, sn
      <4>7. Clean(f)'
        BY <1>2, <3>1, <4>1, <4>2, <4>4, <4>5, <4>6 DEF Clean
      <4> QED BY <4>7 DEF f
    <3>4. SavedOf(f)' = SavedOf(f) \/ (same /\ r.snaps # sn)
      BY <1>4, <1>5, <1>10, <2>2
    <3> QED BY <3>2, <3>3, <3>4
  <2> QED BY <1>7, <2>1, <2>2
<1> QED BY <1>15, <1>16, <1>17, <1>18, <1>19 DEF GreenInv

LEMMA GreenReport ==
  ASSUME TypeInv, GreenInv, Report
  PROVE  GreenInv'
<1>1. /\ IsSession(session) /\ Unmoved(session', session) /\ session.phase = "run" /\ session'.phase = "path"
      /\ session'.done = session.done /\ session'.tests = session.tests /\ session'.unread = session.unread
      /\ session'.ran = session.ran
      /\ snaps' = IF Prunes(session.config) THEN PrunedOf(TestFiles) ELSE snaps
      /\ \/ /\ session'.code = session.code /\ session'.todo = session.todo /\ ~session.bad
            /\ session.done = Len(session.tests)
            /\ session.config.ci /\ ~Prunes(session.config) => ~StaleSnapshots
         \/ session'.code = 1 /\ session'.todo \in {session.todo, <<>>}
  BY ReportIs DEF TypeInv
<1>2. Green' => /\ Green /\ session.done = Len(session.tests)
                /\ session.config.ci /\ ~Prunes(session.config) => ~StaleSnapshots
  BY <1>1 DEF Green
<1>3. Done' = Done /\ TestFiles' = TestFiles
  BY <1>1 DEF Done, TestFiles
<1>4. \A q \in session.ran : q.test.file \in File
  BY <1>1 DEF IsSession
<1>10. \A f \in File : SnapshotPath[f] \in SnapshotFiles
  BY DEF SnapshotFiles
<1>5. \A f \in File : SavedOf(f)' \subseteq SavedOf(f)
  BY <1>1, <1>10, PrunedIs DEF SavedOf
<1>6. Apart'
  <2>1. OnePathEach(<<>>) /\ Range(<<>>) = {}
    BY ListEmpty DEF OnePathEach
  <2>2. Range(session'.todo) \subseteq Range(session.todo) /\ (OnePathEach(session.todo) => OnePathEach(session'.todo))
    BY <1>1, <2>1
  <2> QED BY <1>1, <1>3, <2>2 DEF GreenInv, Apart, ApartFrom, Unmoved
<1>7. RanAsSaid' /\ DoneRan'
  BY <1>1, <1>2 DEF GreenInv, RanAsSaid, DoneRan
<1>8. SavedInv'
  <2> SUFFICES ASSUME Green', Rewritable', NEW q \in session.ran, q.began, q.test.snapshot PROVE SavedIsMade(q)'
    BY <1>1 DEF SavedInv
  <2>1. Green /\ Rewritable /\ (Prunes(session.config)' <=> Prunes(session.config))
    BY <1>1, <1>2, PrimedSame DEF Unmoved
  <2>2. SavedIsMade(q)
    BY <2>1 DEF GreenInv, SavedInv
  <2>3. ~Prunes(session.config) => snaps' = snaps
    BY <1>1
  <2> QED BY <1>1, <1>4, <1>5, <2>1, <2>2, <2>3 DEF SavedIsMade, SavedOf
<1>9. CleanInv'
  <2> SUFFICES ASSUME Green', Cleaned', NEW q \in session.ran
               PROVE  Clean(q.test.file)'
    BY <1>1 DEF CleanInv
  <2>0. PICK f : f = q.test.file
    OBVIOUS
  <2>1. f \in File /\ SavedOf(f)' \subseteq SavedOf(f)
    BY <1>4, <1>5, <2>0
  <2>2. Clean(f) \/ q.test \in Done
    BY <1>1, <1>2, <2>0, PrimedSame DEF GreenInv, CleanInv, Unmoved
  <2>3. CASE Clean(f)
    <3> QED BY <1>1, <2>0, <2>1, <2>3 DEF Clean
  <2>4. CASE q.test \in Done
    <3>1. PICK i \in 1 .. session.done : session.tests[i] = q.test
      BY <2>4 DEF Done
    <3>2. Len(session.tests) \in Nat /\ IsList(session.tests) /\ session.done = Len(session.tests)
      BY <1>1, <1>2, ListIs DEF IsSession
    <3>3. f \in TestFiles
      BY <2>0, <3>1, <3>2, ListIs DEF TestFiles
    <3>4. \A s \in SavedOf(f)' : s \notin StaleOf(f) /\ s \in SavedOf(f)
      <4>1. CASE Prunes(session.config)
        <5>1. snaps' = PrunedOf(TestFiles) /\ SnapshotPath[f] \in SnapshotFiles
          BY <1>1, <1>10, <2>1, <4>1
        <5> QED BY <3>3, <5>1, PrunedIs DEF SavedOf
      <4>2. CASE ~Prunes(session.config)
        <5>1. snaps' = snaps /\ ~StaleSnapshots
          BY <1>1, <1>2, <4>2, PrimedSame DEF Unmoved, Cleaned
        <5> QED BY <3>3, <5>1 DEF StaleSnapshots, SavedOf
      <4> QED BY <4>1, <4>2
    <3>5. ASSUME NEW s \in SavedOf(f)'
          PROVE  \E y \in session.ran : y.test.file = f /\ y.test.snapshot /\ y.test.name = s.name
      <4>1. PICK u \in Range(session.tests) : u.file = f /\ u.snapshot /\ u.name = s.name
        BY <3>4 DEF StaleOf, Stale, SavedOf
      <4>2. u \in Done
        BY <3>2, <4>1, ListIs DEF Done
      <4> QED BY <1>1, <4>1, <4>2 DEF GreenInv, DoneRan
    <3> QED BY <1>1, <2>0, <3>5 DEF Clean
  <2> QED BY <2>2, <2>3, <2>4
<1> QED BY <1>6, <1>7, <1>8, <1>9 DEF GreenInv

LEMMA GreenNext == TypeInv /\ GivenInv /\ GreenInv /\ [Next]_vars => GreenInv'
<1> SUFFICES ASSUME TypeInv, GivenInv, GreenInv, [Next]_vars PROVE GreenInv'
  OBVIOUS
<1>1. CASE Resting
  BY <1>1 DEF Resting, GreenInv, RanAsSaid, Green, Apart, ApartFrom, SavedInv, SavedIsMade, SavedOf, Rewritable, DoneRan, Done,
              CleanInv, Cleaned, Clean, TestFiles, Has1
<1>2. CASE Quits \/ CutsOff
  BY <1>2, IdleIs, GreenFresh DEF Quits, CutsOff
<1>3. CASE snaps' = snaps /\ \E c \in may \cup {session} : Begins(c)
  BY <1>3, BeginIs, GreenFresh DEF Begins
<1>4. CASE snaps' = snaps /\ (TakePath \/ LoadFile \/ BeginTests \/ ShowRun)
  BY <1>4, GreenTakePath, GreenLoadFile, GreenBeginTests, GreenShowRun
<1> QED BY <1>1, <1>2, <1>3, <1>4, GreenRunNext, GreenReport, StepIs

\* A green session has checked what its tests say: whatever the project, its paths and the
\* edits, a session that exits with 0 has run its tests as they say, and what is saved under
\* the name of one is what its run made; where it rewrites snapshots, this goes for files
\* that are given once and share no snapshot file.
THEOREM GreenHasChecked == Spec => []GreenMeansChecked
<1>1. Init => GreenInv
  <2> SUFFICES ASSUME Init PROVE GreenInv
    OBVIOUS
  <2>1. session = Idle
    BY DEF Init
  <2> QED BY <2>1, IdleIs, ListEmpty DEF GreenInv, RanAsSaid, Green, Apart, ApartFrom, SavedInv, DoneRan, Done, CleanInv,
                                     OnePathEach
<1>2. GreenInv => GreenMeansChecked
  BY DEF GreenInv, GreenMeansChecked, Finished, Working, Green, RanAsSaid, RunsAsSaid, SavedInv, SavedIsMade, Rewritable, CleanInv,
         Cleaned, Clean, SavedOf
<1> QED BY <1>1, <1>2, SessionsKeepTypes, FilesAreGiven, GreenNext, PTL DEF Spec

\* A set of naturals has a least one.
LEMMA Least ==
  ASSUME NEW T \in SUBSET Nat, T # {}
  PROVE  \E x \in T : \A y \in T : x <= y
<1> DEFINE R == OpToRel(<, Nat)
<1>1. IsWellFoundedOn(R, Nat)
  BY NatLessThanWellFounded
<1>2. \E x \in T : \A y \in T : ~ (<<y, x>> \in R)
  <2> HIDE DEF R
  <2> QED BY <1>1, WFMin
<1>3. \A x, y \in Nat : <<y, x>> \in R <=> y < x
  BY DEF OpToRel
<1>4. PICK x \in T : \A y \in T : ~ (<<y, x>> \in R)
  BY <1>2
<1>5. ASSUME NEW y \in T PROVE x <= y
  <2> HIDE DEF R
  <2>1. x \in Nat /\ y \in Nat
    OBVIOUS
  <2>2. ~ (y < x)
    BY <2>1, <1>3, <1>4
  <2> QED BY <2>1, <2>2
<1> QED
  BY <1>4, <1>5

-----------------------------------------------------------------------------
(* A path as its files are now, and what a green update leaves of it.      *)

\* The tests of the first n files of a list, one after the other.
Chain(fs, n, q) ==
  \E c : /\ c[0] = <<>> /\ c[n] = q
         /\ \A i \in 1 .. n : c[i] = IF files[fs[i]].suite = NoSuite THEN c[i - 1] ELSE c[i - 1] \o LoadedTests(fs[i])
Whole(q) ==
  /\ IsList(q)
  /\ \A t \in Range(q) :
       /\ t.file \in File \cap AllGiven
       /\ t \in Range(LoadedTests(t.file)) /\ Range(LoadedTests(t.file)) \subseteq Range(q)
FileLoads(f) == files[f].suite # NoSuite => LoadTestFile(files[f].suite).ok

\* No two files that may be given share a snapshot file.
OwnFiles == OwnSnapshots(AllGiven)

\* A test that passes and whose snapshot is what it makes.
Settled(t, q) ==
  \/ RefusedRight(t, template)
  \/ /\ Reaches(t, template) /\ Failures(t, Effects(t)) = {}
     /\ t.snapshot => t \notin DuplicateNames(q) /\ SnapshotPath[t.file] \notin unreadable /\ Recorded(t) \in SavedOf(t.file)
SettledBy(p, q) ==
  /\ Whole(q) /\ q # <<>> /\ Chain(p, Len(p), q)
  /\ \A i \in 1 .. Len(p) : FileLoads(p[i])
  /\ \A t \in Range(q) : Settled(t, q) /\ SnapshotPath[t.file] \notin unreadable /\ Stale(q, t.file, SavedOf(t.file)) = {}
PathSettled(p) == \E q : SettledBy(p, q)

\* The tests of the files are one list: by induction along it.
LEMMA ChainIsOne ==
  ASSUME NEW fs, NEW n \in Nat, NEW q, NEW l, Chain(fs, n, q), Chain(fs, n, l)
  PROVE  q = l
<1>1. PICK c : /\ c[0] = <<>> /\ c[n] = q
               /\ \A i \in 1 .. n : c[i] = IF files[fs[i]].suite = NoSuite THEN c[i - 1] ELSE c[i - 1] \o LoadedTests(fs[i])
  BY DEF Chain
<1>2. PICK d : /\ d[0] = <<>> /\ d[n] = l
               /\ \A i \in 1 .. n : d[i] = IF files[fs[i]].suite = NoSuite THEN d[i - 1] ELSE d[i - 1] \o LoadedTests(fs[i])
  BY DEF Chain
<1> DEFINE D == {i \in 0 .. n : c[i] # d[i]}
<1>3. ASSUME D # {} PROVE FALSE
  <2>1. D \in SUBSET Nat
    OBVIOUS
  <2> HIDE DEF D
  <2>2. PICK i \in D : \A j \in D : i <= j
    BY <1>3, <2>1, Least
  <2>3. i \in 0 .. n /\ c[i] # d[i]
    BY <2>2 DEF D
  <2>4. i \in 1 .. n /\ i - 1 \in 0 .. n /\ i - 1 \notin D
    BY <1>1, <1>2, <2>2, <2>3
  <2>5. c[i - 1] = d[i - 1]
    BY <2>4 DEF D
  <2> QED BY <1>1, <1>2, <2>3, <2>4, <2>5
<1>4. n \in 0 .. n
  OBVIOUS
<1> QED BY <1>1, <1>2, <1>3, <1>4

LEMMA ChainEmpty ==
  ASSUME NEW fs PROVE Chain(fs, 0, <<>>)
<1> DEFINE c == [i \in 0 .. 0 |-> <<>>]
<1>1. c[0] = <<>> /\ \A i \in 1 .. 0 : FALSE
  OBVIOUS
<1> HIDE DEF c
<1> QED BY <1>1 DEF Chain

\* The tests of one more file.
LEMMA ChainMore ==
  ASSUME NEW fs, NEW n \in Nat, NEW q, Chain(fs, n, q),
         NEW l, l = IF files[fs[n + 1]].suite = NoSuite THEN q ELSE q \o LoadedTests(fs[n + 1])
  PROVE  Chain(fs, n + 1, l)
<1>1. PICK c : /\ c[0] = <<>> /\ c[n] = q
               /\ \A i \in 1 .. n : c[i] = IF files[fs[i]].suite = NoSuite THEN c[i - 1] ELSE c[i - 1] \o LoadedTests(fs[i])
  BY DEF Chain
<1> DEFINE d == [i \in 0 .. n + 1 |-> IF i <= n THEN c[i] ELSE l]
<1>2. d[0] = <<>> /\ d[n + 1] = l /\ d[n] = q /\ \A i \in 1 .. n : d[i] = c[i] /\ d[i - 1] = c[i - 1]
  BY <1>1
<1> HIDE DEF d
<1>3. ASSUME NEW i \in 1 .. n + 1
      PROVE  d[i] = IF files[fs[i]].suite = NoSuite THEN d[i - 1] ELSE d[i - 1] \o LoadedTests(fs[i])
  <2>1. CASE i \in 1 .. n
    BY <1>1, <1>2, <2>1
  <2>2. CASE i = n + 1
    <3>1. i - 1 = n
      BY <2>2
    <3> QED BY <1>2, <2>2, <3>1
  <2> QED BY <2>1, <2>2
<1> QED BY <1>2, <1>3 DEF Chain

LEMMA WholeMore ==
  ASSUME TypeInv, NEW q, Whole(q), NEW f \in File \cap AllGiven, files[f].suite # NoSuite
  PROVE  Whole(q \o LoadedTests(f))
<1> DEFINE l == LoadedTests(f)
<1>1. IsList(l) /\ \A t \in Range(l) : t.file = f
  BY LoadedIs DEF TypeInv
<1> HIDE DEF l
<1>2. IsList(q \o l) /\ Range(q \o l) = Range(q) \cup Range(l)
  BY <1>1, ListConcat DEF Whole
<1> QED BY <1>1, <1>2 DEF Whole, l

\* Two tests of a list with the same name are the same, unless the name is a duplicate.
LEMMA OneOfName ==
  ASSUME NEW q, IsList(q), NEW t \in Range(q), NEW u \in Range(q), t.file = u.file, t.name = u.name,
         t \notin DuplicateNames(q)
  PROVE  t = u
<1>1. PICK i \in 1 .. Len(q) : q[i] = t
  BY ListIs
<1>2. PICK j \in 1 .. Len(q) : q[j] = u
  BY ListIs
<1> QED BY <1>1, <1>2, DuplicateIs

\* A settled test passes, whoever runs it.
LEMMA SettledPasses ==
  ASSUME TypeInv, NEW t, t.file \in File, Settled(t, session.tests), NEW r, r = RunOf(t)
  PROVE  r.passed
<1> DEFINE effects == Effects(t)
           dup == DuplicateNames(session.tests)
           rd == SnapshotPath[t.file] \notin unreadable
           looks == Looks(t)
           sn == SavedOf(t.file)
           c == CheckSnapshot(session.config, dup, rd, sn, t, effects)
<1>1. /\ Reaches(t, template) /\ t.snapshot => (r.passed <=> Failures(t, effects) = {} /\ c.passes)
      /\ Reaches(t, template) /\ ~t.snapshot => (r.passed <=> Failures(t, effects) = {})
      /\ ~Reaches(t, template) => (r.passed <=> RefusedRight(t, template))
  <2>1. r = RunTest(session.config, dup, rd, sn, t, template) /\ effects = template.does[t.context.exec_data]
    BY DEF RunOf, Effects, SavedOf
  <2> HIDE DEF effects, dup, rd, sn
  <2> QED BY <2>1, RunTestIs
<1>2. /\ looks /\ session.config.update => c.passes
      /\ looks /\ ~session.config.update /\ Has1(sn, t.name) =>
           (c.passes <=> Record(t.name, TakeSnapshot(effects)) \in sn)
  <2>1. looks = (t \notin dup /\ rd)
    BY DEF Looks
  <2> HIDE DEF effects, dup, rd, sn, looks
  <2> QED BY <2>1, CheckSnapshotIs
<1>3. Recorded(t) = Record(t.name, TakeSnapshot(effects)) /\ Recorded(t).name = t.name
  BY DEF Recorded, Record
<1>4. RefusedRight(t, template) => ~Reaches(t, template)
  BY DEF RefusedRight, Reaches
<1>5. RefusedRight(t, template) \/ (Reaches(t, template) /\ Failures(t, effects) = {}
                                    /\ (t.snapshot => looks /\ Recorded(t) \in sn))
  BY DEF Settled, Looks
<1> HIDE DEF effects, dup, c, rd, sn, looks
<1>6. Recorded(t) \in sn => Has1(sn, t.name)
  BY <1>3 DEF Has1
<1> QED BY <1>1, <1>2, <1>3, <1>4, <1>5, <1>6

\* While no file and no template is edited, the files hold the same tests.
Fixed == files' = files /\ template' = template /\ may' = may /\ unreadable' = unreadable

LEMMA SameFiles ==
  ASSUME Fixed
  PROVE  /\ \A q : Whole(q)' <=> Whole(q)
         /\ \A fs, n, q : Chain(fs, n, q)' <=> Chain(fs, n, q)
         /\ \A f : FileLoads(f)' <=> FileLoads(f)
         /\ \A t : Effects(t)' = Effects(t) /\ Recorded(t)' = Recorded(t)
<1>1. \A f : LoadedTests(f)' = LoadedTests(f)
  BY DEF LoadedTests, Fixed
<1>2. \A t : Effects(t)' = Effects(t)
  BY DEF Effects, Fixed
<1>3. AllGiven' = AllGiven
  BY DEF AllGiven, Fixed
<1> QED BY <1>1, <1>2, <1>3 DEF Whole, Chain, FileLoads, Recorded, Fixed

\* What is settled stays so while nothing is edited or saved.
LEMMA SameSettled ==
  ASSUME Fixed, snaps' = snaps
  PROVE  /\ \A p : PathSettled(p)' <=> PathSettled(p)
         /\ \A t, q : Settled(t, q)' <=> Settled(t, q)
<1>1. \A t, q : Settled(t, q)' <=> Settled(t, q)
  BY SameFiles DEF Settled, SavedOf, Fixed
<1>2. \A p, q : SettledBy(p, q)' <=> SettledBy(p, q)
  BY <1>1, SameFiles DEF SettledBy, SavedOf, Fixed
<1> QED BY <1>1, <1>2 DEF PathSettled

\* What is saved of a file changes, and nothing that its tests have settled does.
SavedOn(q) ==
  \A f \in {t.file : t \in Range(q)} :
    /\ \A t \in Range(q) : t.file = f /\ t.snapshot /\ Recorded(t) \in SavedOf(f) => Recorded(t) \in SavedOf(f)'
    /\ \A s \in SavedOf(f)' : s \in SavedOf(f) \/ \E t \in Range(q) : t.file = f /\ t.snapshot /\ t.name = s.name

LEMMA SavedOnKeeps ==
  ASSUME Fixed, NEW q, Whole(q), SavedOn(q)
  PROVE  /\ \A t \in Range(q) : Settled(t, q) => Settled(t, q)'
         /\ \A t \in Range(q) : Stale(q, t.file, SavedOf(t.file)) = {} => Stale(q, t.file, SavedOf(t.file))' = {}
<1>1. \A t \in Range(q) : t.file \in File
  BY DEF Whole
<1>2. ASSUME NEW t \in Range(q), Settled(t, q) PROVE Settled(t, q)'
  <2>1. t.snapshot /\ Recorded(t) \in SavedOf(t.file) => Recorded(t) \in SavedOf(t.file)'
    BY DEF SavedOn
  <2> QED BY <1>2, <2>1, SameFiles DEF Settled, Fixed
<1>3. ASSUME NEW t \in Range(q), Stale(q, t.file, SavedOf(t.file)) = {}
      PROVE  Stale(q, t.file, SavedOf(t.file)') = {}
  BY <1>1, <1>3 DEF Stale, SavedOn
<1> QED BY <1>2, <1>3

\* The tests of a file are the same in every path.
LEMMA RunSaves ==
  ASSUME TypeInv, OwnFiles, RunNext, Whole(session.tests), NEW q, Whole(q)
  PROVE  SavedOn(q)
<1> DEFINE t == session.tests[session.done + 1]
           r == RunOf(t)
           p == SnapshotPath[t.file]
           sn == snaps[p]
           w == WriteSnapshot(sn, t.name, TakeSnapshot(Effects(t)))
<1>1. t \in Range(session.tests) /\ t.file \in File /\ snaps' = [snaps EXCEPT ![p] = r.snaps]
  BY RunNextIs
<1>2. \/ r.snaps = sn
      \/ r.snaps = w /\ t.snapshot /\ t \notin DuplicateNames(session.tests)
  BY ThisRunIs DEF Looks
<1>3. /\ \A s : s \in w <=> (s \in sn /\ s.name # t.name) \/ s = Recorded(t)
      /\ Recorded(t).name = t.name
  BY WriteIs DEF Recorded
<1>10. \A f \in File : SnapshotPath[f] \in SnapshotFiles
  BY DEF SnapshotFiles
<1>4. \A f \in File : SnapshotPath[f] # p => SavedOf(f)' = SavedOf(f)
  BY <1>1, <1>10 DEF TypeInv, SavedOf
<1>5. \A f : SnapshotPath[f] = p => SavedOf(f)' = r.snaps /\ SavedOf(f) = sn
  <2>1. p \in SnapshotFiles
    BY <1>1, <1>10
  <2> QED BY <1>1, <2>1 DEF TypeInv, SavedOf
<1>6. \A u : Recorded(u).name = u.name
  BY DEF Recorded, Record
<1>11. \A f \in AllGiven : SnapshotPath[f] = p => f = t.file
  <2>1. t.file \in AllGiven
    BY <1>1 DEF Whole
  <2> QED BY <2>1 DEF OwnFiles, OwnSnapshots
<1> HIDE DEF r, w, t, p, sn
<1> SUFFICES ASSUME NEW f \in {u.file : u \in Range(q)}
             PROVE  /\ \A u \in Range(q) : u.file = f /\ u.snapshot /\ Recorded(u) \in SavedOf(f) => Recorded(u) \in SavedOf(f)'
                    /\ \A s \in SavedOf(f)' : s \in SavedOf(f) \/ \E u \in Range(q) : u.file = f /\ u.snapshot /\ u.name = s.name
  BY DEF SavedOn
<1>7. CASE SavedOf(f)' = SavedOf(f)
  BY <1>7
<1>9. f \in File \cap AllGiven
  BY DEF Whole
<1>8. CASE SnapshotPath[f] = p /\ r.snaps = w /\ t.snapshot /\ t \notin DuplicateNames(session.tests)
  <2>0. f = t.file
    BY <1>8, <1>9, <1>11
  <2>1. PICK v \in Range(q) : v.file = f
    OBVIOUS
  <2>2. t \in Range(q)
    BY <1>1, <2>0, <2>1 DEF Whole
  <2>3. ASSUME NEW u \in Range(q), u.file = f, Recorded(u) \in sn PROVE Recorded(u) \in w
    <3>1. u \in Range(session.tests)
      BY <1>1, <2>0, <2>3 DEF Whole
    <3>2. CASE u.name = t.name
      <4>1. IsList(session.tests) /\ u.file = t.file
        BY <2>0, <2>3 DEF Whole
      <4>2. t = u
        BY <1>1, <1>8, <3>1, <3>2, <4>1, OneOfName
      <4> QED BY <1>3, <4>2
    <3>3. CASE u.name # t.name
      BY <1>3, <1>6, <2>3, <3>3
    <3> QED BY <3>2, <3>3
  <2>4. \A s \in w : s \in sn \/ s.name = t.name
    BY <1>3
  <2>5. SavedOf(f)' = w /\ SavedOf(f) = sn
    BY <1>5, <1>8
  <2> QED BY <1>8, <2>0, <2>2, <2>3, <2>4, <2>5
<1> QED BY <1>2, <1>4, <1>5, <1>7, <1>8, <1>9

LEMMA ReportSaves ==
  ASSUME TypeInv, OwnFiles, Report, Whole(session.tests), NEW q, Whole(q)
  PROVE  SavedOn(q)
<1>1. snaps' = IF Prunes(session.config) THEN PrunedOf(TestFiles) ELSE snaps
  BY ReportIs
<1>2. CASE snaps' = snaps
  BY <1>2 DEF SavedOn, SavedOf
<1>3. CASE snaps' = PrunedOf(TestFiles)
  <2> SUFFICES ASSUME NEW f \in {u.file : u \in Range(q)}
               PROVE  /\ \A u \in Range(q) : u.file = f /\ u.snapshot /\ Recorded(u) \in SavedOf(f) => Recorded(u) \in SavedOf(f)'
                      /\ SavedOf(f)' \subseteq SavedOf(f)
    BY DEF SavedOn
  <2>1. f \in File \cap AllGiven
    BY DEF Whole
  <2>2. \A s : s \in SavedOf(f)' <=>
                 s \in SavedOf(f) /\ \A g \in TestFiles : SnapshotPath[g] = SnapshotPath[f] => s \notin StaleOf(g)
    <3>1. SnapshotPath[f] \in SnapshotFiles
      BY <2>1 DEF SnapshotFiles
    <3> QED BY <1>3, <3>1, PrunedIs DEF SavedOf
  <2>3. ASSUME NEW g \in TestFiles, SnapshotPath[g] = SnapshotPath[f], NEW u \in Range(q), u.file = f, u.snapshot
        PROVE  Recorded(u) \notin StaleOf(g)
    <3>1. PICK v \in Range(session.tests) : v.file = g
      BY DEF TestFiles
    <3>2. g = f
      BY <2>1, <2>3, <3>1 DEF Whole, OwnFiles, OwnSnapshots
    <3>3. u \in Range(session.tests)
      BY <2>3, <3>1, <3>2 DEF Whole
    <3>4. Recorded(u).name = u.name
      BY DEF Recorded, Record
    <3> QED BY <2>3, <3>2, <3>3, <3>4 DEF StaleOf, Stale
  <2> QED BY <2>2, <2>3
<1> QED BY <1>1, <1>2, <1>3

\* What is settled stays so while a session of the files as they are runs and reports.
LEMMA PathKept ==
  ASSUME TypeInv, OwnFiles, RunNext \/ Report, Whole(session.tests), NEW p, PathSettled(p)
  PROVE  PathSettled(p)'
<1>1. PICK q : SettledBy(p, q)
  BY DEF PathSettled
<1>2. Fixed
  BY DEF RunNext, Report, Fixed
<1>3. Whole(q)
  BY <1>1 DEF SettledBy
<1>4. SavedOn(q)
  BY <1>3, RunSaves, ReportSaves
<1>5. SettledBy(p, q)'
  BY <1>1, <1>2, <1>3, <1>4, SameFiles, SavedOnKeeps DEF SettledBy, Fixed
<1> QED BY <1>5 DEF PathSettled

-----------------------------------------------------------------------------
(* After a green update a session of the same paths is green.              *)

\* A path is being read, or was: its first files are, and their tests are the session's.
Reading(p) ==
  /\ session.phase = "load" =>
       \A f \in Range(session.unread) : f \in DOMAIN session.listed <=> files[f].suite # NoSuite
  /\ \E m \in 0 .. Len(p) :
       /\ Len(session.unread) = Len(p) - m
       /\ \A i \in 1 .. Len(session.unread) : session.unread[i] = p[m + i]
       /\ Chain(p, m, session.tests)
       /\ \A i \in 1 .. m : FileLoads(p[i])
Current == session.phase \in {"load", "run"}

Stamps ==
  /\ now \in Nat /\ session.began \in Nat /\ session.began <= now
  /\ \A b \in blessed : b.at \in Nat /\ b.at <= now
BlessedInv ==
  \A b \in blessed : b.at = now =>
    /\ session.kind = "none" \/ session.began = now
    /\ \A p \in Range(b.paths) : PathSettled(p)
ReadingInv ==
  session.began = now /\ Current =>
    /\ Whole(session.tests) /\ (session.phase = "run" => session.unread = <<>> /\ session.tests # <<>>)
    /\ \E p \in Range(session.paths) : Reading(p)
UpdatedInv ==
  session.began = now /\ session.config.update /\ Green =>
    /\ \A p \in Range(session.paths) : p \in Range(session.todo) \/ PathSettled(p) \/ (Current /\ Reading(p))
    /\ session.phase = "run" => \A t \in Done : Settled(t, session.tests)
Blessed == \E b \in blessed : b.at = now /\ b.paths = session.paths
StaysGreen ==
  session.began = now /\ Blessed => session.code = 0 /\ (Current => ~session.bad)

UpdInv ==
  /\ Stamps /\ BlessedInv /\ ReadingInv /\ UpdatedInv /\ StaysGreen
  /\ Range(session.todo) \subseteq Range(session.paths)

SessionMoves == TakePath \/ LoadFile \/ BeginTests \/ ShowRun \/ RunNext \/ Report

\* What every step of a session keeps.
LEMMA WorkIs ==
  ASSUME TypeInv, GivenInv, OwnFiles, UpdInv, SessionMoves
  PROVE  /\ Fixed /\ now' = now /\ blessed' = blessed
         /\ Unmoved(session', session) /\ session.kind # "none"
         /\ session.began = now => \A p : PathSettled(p) => PathSettled(p)'
         /\ Stamps' /\ BlessedInv' /\ (Blessed' <=> Blessed)
<1>1. Fixed /\ now' = now /\ blessed' = blessed
  BY DEF SessionMoves, TakePath, LoadFile, BeginTests, ShowRun, RunNext, Report, Fixed
<1>2. Unmoved(session', session)
  BY TakePathIs, LoadFileIs, BeginTestsIs, ShowRunIs, RunNextIs, ReportIs DEF SessionMoves
<1>3. session.kind # "none"
  BY DEF SessionMoves, TakePath, LoadFile, BeginTests, ShowRun, RunNext, Report, Working, Finished
<1>4. ASSUME session.began = now, NEW p, PathSettled(p) PROVE PathSettled(p)'
  <2>1. CASE TakePath \/ LoadFile \/ BeginTests \/ ShowRun
    <3>1. snaps' = snaps
      BY <2>1 DEF TakePath, LoadFile, BeginTests, ShowRun
    <3> QED BY <1>1, <1>4, <3>1, SameSettled
  <2>2. CASE RunNext \/ Report
    <3>1. Whole(session.tests)
      BY <1>4, <2>2 DEF UpdInv, ReadingInv, Current, RunNext, Report, Working
    <3> QED BY <1>4, <2>2, <3>1, PathKept
  <2> QED BY <2>1, <2>2 DEF SessionMoves
<1>5. Stamps' /\ (Blessed' <=> Blessed)
  BY <1>1, <1>2 DEF UpdInv, Stamps, Unmoved, Blessed
<1>6. BlessedInv'
  BY <1>1, <1>2, <1>3, <1>4 DEF UpdInv, BlessedInv, Unmoved
<1> QED BY <1>1, <1>2, <1>3, <1>4, <1>5, <1>6

\* Each action keeps the invariant.
LEMMA UpdTakePath ==
  ASSUME TypeInv, GivenInv, OwnFiles, UpdInv, TakePath
  PROVE  UpdInv'
<1>0. PICK h : h = Head(session.todo)
  OBVIOUS
<1>1. /\ Unmoved(session', session) /\ session.phase = "path" /\ session.todo # <<>> /\ IsPaths(session.todo)
      /\ session'.phase = "load" /\ session'.todo = Tail(session.todo) /\ session'.listed = ListingOf(h)
      /\ session'.unread = h /\ session'.tests = <<>> /\ session'.done = 0 /\ session'.bad = FALSE
      /\ session'.code = session.code /\ IsPath(h)
  BY <1>0, TakePathIs DEF TypeInv, IsSession
<1>2. /\ Fixed /\ now' = now /\ blessed' = blessed
      /\ session.began = now => \A p : PathSettled(p) => PathSettled(p)'
      /\ Stamps' /\ BlessedInv' /\ (Blessed' <=> Blessed)
  BY WorkIs DEF SessionMoves
<1>3. Range(session.todo) = {h} \cup Range(Tail(session.todo))
  BY <1>0, <1>1, ListHead DEF IsPaths
<1>4. Range(session'.todo) \subseteq Range(session'.paths) /\ h \in Range(session'.paths)
  BY <1>1, <1>3 DEF UpdInv, Unmoved
<1>5. Reading(h)'
  <2>1. Chain(h, 0, <<>>)'
    BY <1>2, ChainEmpty, SameFiles
  <2>2. Len(h) \in Nat
    BY <1>1, ListIs DEF IsPath
  <2>3. /\ 0 \in 0 .. Len(h) /\ Len(session'.unread) = Len(h) - 0
        /\ \A i \in 1 .. Len(session'.unread) : session'.unread[i] = h[0 + i]
        /\ \A i \in 1 .. 0 : FileLoads(h[i])'
    BY <1>1, <2>2
  <2>4. \A f \in Range(h) : f \in DOMAIN ListingOf(h) <=> files'[f].suite # NoSuite
    BY <1>2 DEF ListingOf, ThereOf, Fixed
  <2> QED BY <1>1, <2>1, <2>3, <2>4 DEF Reading
<1>6. Whole(<<>>)'
  BY ListEmpty DEF Whole
<1>7. ReadingInv'
  BY <1>1, <1>4, <1>5, <1>6 DEF ReadingInv
<1>8. UpdatedInv'
  <2> SUFFICES ASSUME session.began = now, session.config.update, Green', NEW p \in Range(session.paths)
               PROVE  p \in Range(session'.todo) \/ PathSettled(p)' \/ (Current' /\ Reading(p)')
    BY <1>1, <1>2 DEF UpdatedInv, Unmoved
  <2>1. Green
    BY <1>1 DEF Green
  <2>2. p \in Range(session.todo) \/ PathSettled(p)
    BY <1>1, <2>1 DEF UpdInv, UpdatedInv, Current
  <2> QED BY <1>1, <1>2, <1>3, <1>5, <2>2 DEF Current
<1>9. StaysGreen'
  BY <1>1, <1>2 DEF UpdInv, StaysGreen, Unmoved
<1> QED BY <1>2, <1>4, <1>7, <1>8, <1>9 DEF UpdInv

\* A file is read on.
LEMMA ReadsOn ==
  ASSUME TypeInv, LoadFile, session'.phase = "load", NEW p, IsPath(p), Reading(p)
  PROVE  Reading(p)'
<1> DEFINE f == Head(session.unread)
<1>1. /\ IsList(session.unread) /\ session.unread # <<>> /\ session'.unread = Tail(session.unread)
      /\ session.phase = "load" /\ session'.listed = session.listed
      /\ \/ f \notin DOMAIN session.listed /\ session'.tests = session.tests
         \/ /\ files[f].suite # NoSuite /\ LoadTestFile(files[f].suite).ok
            /\ session'.tests = session.tests \o LoadedTests(f)
  BY LoadFileIs DEF TypeInv, IsSession
<1>2. Fixed
  BY DEF LoadFile, Fixed
<1>3. PICK m \in 0 .. Len(p) :
         /\ Len(session.unread) = Len(p) - m
         /\ \A i \in 1 .. Len(session.unread) : session.unread[i] = p[m + i]
         /\ Chain(p, m, session.tests)
         /\ \A i \in 1 .. m : FileLoads(p[i])
  BY DEF Reading
<1>4. /\ Len(p) \in Nat /\ Len(session.unread) \in Nat /\ Len(session.unread) # 0 /\ m + 1 \in 0 .. Len(p)
      /\ Len(Tail(session.unread)) = Len(session.unread) - 1
      /\ \A i \in 1 .. Len(Tail(session.unread)) : Tail(session.unread)[i] = session.unread[i + 1]
      /\ f = session.unread[1] /\ Range(session.unread) = {f} \cup Range(Tail(session.unread))
  <2>1. Len(p) \in Nat
    BY ListIs DEF IsPath
  <2> QED BY <1>1, <1>3, <2>1, ListIs, ListHead
<1>5. f = p[m + 1]
  BY <1>3, <1>4
<1>12. f \in DOMAIN session.listed <=> files[f].suite # NoSuite
  BY <1>1, <1>4 DEF Reading
<1> HIDE DEF f
<1>6. Chain(p, m + 1, session'.tests)
  <2>1. session'.tests = IF files[p[m + 1]].suite = NoSuite THEN session.tests
                         ELSE session.tests \o LoadedTests(p[m + 1])
    BY <1>1, <1>5, <1>12
  <2>2. m \in Nat
    BY <1>4
  <2> QED BY <1>3, <2>1, <2>2, ChainMore
<1>7. FileLoads(f)
  BY <1>1, <1>12 DEF FileLoads
<1>8. \A i \in 1 .. m + 1 : FileLoads(p[i])
  BY <1>3, <1>4, <1>5, <1>7
<1>9. /\ Len(session'.unread) = Len(p) - (m + 1)
      /\ \A i \in 1 .. Len(session'.unread) : session'.unread[i] = p[(m + 1) + i]
  <2>1. Len(session'.unread) = Len(p) - (m + 1)
    BY <1>1, <1>3, <1>4
  <2>2. ASSUME NEW i \in 1 .. Len(session'.unread) PROVE session'.unread[i] = p[(m + 1) + i]
    <3>1. i + 1 \in 1 .. Len(session.unread) /\ m + (i + 1) = (m + 1) + i
      BY <1>1, <1>4
    <3> QED BY <1>1, <1>3, <1>4, <3>1
  <2> QED BY <2>1, <2>2
<1>10. (\A q : Chain(p, m + 1, q)' <=> Chain(p, m + 1, q)) /\ \A i \in 1 .. m + 1 : FileLoads(p[i])'
  BY <1>2, <1>6, <1>8, SameFiles
<1>11. \A g \in Range(session'.unread) : g \in DOMAIN session'.listed <=> files'[g].suite # NoSuite
  BY <1>1, <1>2, <1>4 DEF Reading, Fixed
<1> QED BY <1>4, <1>6, <1>9, <1>10, <1>11 DEF Reading

LEMMA PathsAre ==
  ASSUME TypeInv, NEW p \in Range(session.paths)
  PROVE  IsPath(p) /\ Len(p) \in Nat /\ DOMAIN p = 1 .. Len(p)
BY ListIs DEF TypeInv, IsSession, IsPaths, IsPath

\* What a session is reading, where what it reads is settled.
LEMMA ReadSettled ==
  ASSUME TypeInv, NEW p, IsPath(p), Reading(p), session.unread = <<>>, NEW q, SettledBy(p, q)
  PROVE  session.tests = q
<1>1. PICK m \in 0 .. Len(p) : Len(session.unread) = Len(p) - m /\ Chain(p, m, session.tests)
  BY DEF Reading
<1>2. Len(p) \in Nat /\ Len(session.unread) = 0
  BY ListIs, ListEmpty DEF IsPath
<1>3. m = Len(p)
  BY <1>1, <1>2
<1> QED BY <1>1, <1>2, <1>3, ChainIsOne DEF SettledBy

LEMMA UpdLoadFile ==
  ASSUME TypeInv, GivenInv, OwnFiles, UpdInv, LoadFile
  PROVE  UpdInv'
<1>0. PICK f : f = Head(session.unread)
  OBVIOUS
<1>1. /\ Unmoved(session', session) /\ f \in File /\ session.phase = "load" /\ session.unread # <<>>
      /\ session'.bad = session.bad /\ IsList(session.unread)
      /\ \/ /\ session'.phase = "path" /\ session'.code = 1 /\ session'.todo \in {session.todo, <<>>}
            /\ f \in DOMAIN session.listed
            /\ files[f].suite = NoSuite \/ ~LoadTestFile(files[f].suite).ok
         \/ /\ session'.phase = "load" /\ session'.code = session.code /\ session'.todo = session.todo
            /\ \/ session'.tests = session.tests
               \/ files[f].suite # NoSuite /\ session'.tests = session.tests \o LoadedTests(f)
  BY <1>0, LoadFileIs DEF TypeInv, IsSession
<1>2. /\ Fixed /\ now' = now /\ blessed' = blessed
      /\ session.began = now => \A p : PathSettled(p) => PathSettled(p)'
      /\ Stamps' /\ BlessedInv' /\ (Blessed' <=> Blessed)
  BY WorkIs DEF SessionMoves
<1>3. Range(session'.todo) \subseteq Range(session'.paths)
  BY <1>1, ListEmpty DEF UpdInv, Unmoved
<1>7. f \in Range(session.unread) /\ f \in AllGiven
  BY <1>0, <1>1, ListHead DEF GivenInv, SessionFiles
<1>4. ReadingInv'
  <2> SUFFICES ASSUME session.began = now, session'.phase = "load"
               PROVE  Whole(session.tests)' /\ \E p \in Range(session.paths) : Reading(p)'
    BY <1>1, <1>2 DEF ReadingInv, Current, Unmoved
  <2>1. Whole(session.tests) /\ \E p \in Range(session.paths) : Reading(p)
    BY <1>1 DEF UpdInv, ReadingInv, Current
  <2>2. \E p \in Range(session.paths) : Reading(p)'
    BY <2>1, ReadsOn, PathsAre
  <2>3. Whole(session'.tests)
    BY <1>1, <1>7, <2>1, WholeMore
  <2> QED BY <1>2, <2>2, <2>3, SameFiles
<1>5. UpdatedInv'
  <2> SUFFICES ASSUME session.began = now, session.config.update, Green', NEW p \in Range(session.paths)
               PROVE  p \in Range(session'.todo) \/ PathSettled(p)' \/ (Current' /\ Reading(p)')
    BY <1>1, <1>2 DEF UpdatedInv, Unmoved
  <2>1. Green /\ session'.phase = "load"
    BY <1>1 DEF Green
  <2>2. p \in Range(session.todo) \/ PathSettled(p) \/ Reading(p)
    BY <2>1 DEF UpdInv, UpdatedInv
  <2> QED BY <1>1, <1>2, <2>1, <2>2, ReadsOn, PathsAre DEF Current
<1>6. StaysGreen'
  <2> SUFFICES ASSUME session.began = now, Blessed PROVE session'.code = 0 /\ ~session'.bad
    BY <1>1, <1>2 DEF StaysGreen, Unmoved
  <2>1. session.code = 0 /\ ~session.bad
    BY <1>1 DEF UpdInv, StaysGreen, Current
  <2>2. PICK p \in Range(session.paths) : Reading(p)
    BY <1>1 DEF UpdInv, ReadingInv, Current
  <2>3. PathSettled(p)
    BY DEF UpdInv, BlessedInv, Blessed
  <2>4. FileLoads(f)
    <3>1. PICK m \in 0 .. Len(p) :
             /\ Len(session.unread) = Len(p) - m
             /\ \A i \in 1 .. Len(session.unread) : session.unread[i] = p[m + i]
      BY <2>2 DEF Reading
    <3>2. Len(p) \in Nat /\ Len(session.unread) \in Nat /\ Len(session.unread) # 0 /\ f = session.unread[1]
      BY <1>0, <1>1, PathsAre, ListIs, ListHead
    <3>3. m + 1 \in 1 .. Len(p) /\ f = p[m + 1]
      BY <3>1, <3>2
    <3> QED BY <2>3, <3>3 DEF PathSettled, SettledBy
  <2>5. f \in DOMAIN session.listed <=> files[f].suite # NoSuite
    BY <1>1, <1>7, <2>2 DEF Reading
  <2> QED BY <1>1, <2>1, <2>4, <2>5 DEF FileLoads
<1> QED BY <1>2, <1>3, <1>4, <1>5, <1>6 DEF UpdInv

LEMMA UpdBeginTests ==
  ASSUME TypeInv, GivenInv, OwnFiles, UpdInv, BeginTests
  PROVE  UpdInv'
<1>1. /\ Unmoved(session', session) /\ session.phase = "load" /\ session.unread = <<>> /\ session.done = 0
      /\ session'.unread = session.unread /\ session'.done = session.done
      /\ session'.tests = session.tests /\ session'.bad = session.bad
      /\ \/ session.tests = <<>> /\ session'.phase = "path" /\ session'.code = 1 /\ session'.todo \in {session.todo, <<>>}
         \/ /\ session.tests # <<>> /\ session'.phase = "run" /\ session'.code = session.code
            /\ session'.todo = session.todo
  BY BeginTestsIs DEF TypeInv, IsSession
<1>2. /\ Fixed /\ now' = now /\ blessed' = blessed
      /\ session.began = now => \A p : PathSettled(p) => PathSettled(p)'
      /\ Stamps' /\ BlessedInv' /\ (Blessed' <=> Blessed)
  BY WorkIs DEF SessionMoves
<1>3. Range(session'.todo) \subseteq Range(session'.paths)
  BY <1>1, ListEmpty DEF UpdInv, Unmoved
<1>4. session'.phase = "run" => \A p : Reading(p) => Reading(p)'
  BY <1>1, <1>2, SameFiles DEF Reading
<1>5. ReadingInv'
  <2> SUFFICES ASSUME session.began = now, session'.phase = "run"
               PROVE  Whole(session.tests)' /\ \E p \in Range(session.paths) : Reading(p)'
    BY <1>1, <1>2 DEF ReadingInv, Current, Unmoved
  <2>1. Whole(session.tests) /\ \E p \in Range(session.paths) : Reading(p)
    BY <1>1 DEF UpdInv, ReadingInv, Current
  <2> QED BY <1>1, <1>2, <1>4, <2>1, SameFiles
<1>6. UpdatedInv'
  <2>1. Done' = {}
    BY <1>1 DEF Done
  <2> SUFFICES ASSUME session.began = now, session.config.update, Green', NEW p \in Range(session.paths)
               PROVE  p \in Range(session'.todo) \/ PathSettled(p)' \/ (Current' /\ Reading(p)')
    BY <1>1, <1>2, <2>1 DEF UpdatedInv, Unmoved
  <2>2. Green /\ session'.phase = "run"
    BY <1>1 DEF Green
  <2>3. p \in Range(session.todo) \/ PathSettled(p) \/ Reading(p)
    BY <2>2 DEF UpdInv, UpdatedInv
  <2> QED BY <1>1, <1>2, <1>4, <2>2, <2>3 DEF Current
<1>7. StaysGreen'
  <2> SUFFICES ASSUME session.began = now, Blessed PROVE session'.code = 0 /\ ~session'.bad
    BY <1>1, <1>2 DEF StaysGreen, Unmoved
  <2>1. session.code = 0 /\ ~session.bad
    BY <1>1 DEF UpdInv, StaysGreen, Current
  <2>2. PICK p \in Range(session.paths) : Reading(p)
    BY <1>1 DEF UpdInv, ReadingInv, Current
  <2>3. PathSettled(p)
    BY DEF UpdInv, BlessedInv, Blessed
  <2>4. session.tests # <<>>
    BY <1>1, <2>2, <2>3, ReadSettled, PathsAre DEF PathSettled, SettledBy
  <2> QED BY <1>1, <2>1, <2>4
<1> QED BY <1>2, <1>3, <1>5, <1>6, <1>7 DEF UpdInv

LEMMA UpdShowRun ==
  ASSUME TypeInv, GivenInv, OwnFiles, UpdInv, ShowRun
  PROVE  UpdInv'
<1>1. /\ Unmoved(session', session) /\ session'.phase = "watching" /\ session'.code = session.code
      /\ session'.todo = session.todo /\ session.phase = "path"
  BY ShowRunIs DEF ShowRun, Finished, Working
<1>2. /\ now' = now /\ blessed' = blessed
      /\ session.began = now => \A p : PathSettled(p) => PathSettled(p)'
      /\ Stamps' /\ BlessedInv' /\ (Blessed' <=> Blessed)
  BY WorkIs DEF SessionMoves
<1>3. ReadingInv'
  BY <1>1 DEF ReadingInv, Current
<1>4. UpdatedInv'
  BY <1>1, <1>2 DEF UpdInv, UpdatedInv, Unmoved, Green, Current
<1>5. StaysGreen'
  BY <1>1, <1>2 DEF UpdInv, StaysGreen, Unmoved, Current
<1> QED BY <1>1, <1>2, <1>3, <1>4, <1>5 DEF UpdInv, Unmoved

LEMMA UpdRunNext ==
  ASSUME TypeInv, GivenInv, OwnFiles, UpdInv, RunNext
  PROVE  UpdInv'
<1>0. PICK t : t = session.tests[session.done + 1]
  OBVIOUS
<1>x. PICK r : r = RunOf(t)
  OBVIOUS
<1>1. /\ Unmoved(session', session) /\ session.phase = "run" /\ session'.phase = "run" /\ session.done \in Nat
      /\ session.done + 1 \in 1 .. Len(session.tests) /\ t \in Range(session.tests) /\ t.file \in File
      /\ session'.done = session.done + 1 /\ session'.tests = session.tests /\ session'.unread = session.unread
      /\ session'.todo = session.todo /\ session'.code = session.code /\ (session'.bad <=> session.bad \/ ~r.passed)
      /\ snaps' = [snaps EXCEPT ![SnapshotPath[t.file]] = r.snaps]
  BY <1>0, <1>x, RunNextIs DEF TypeInv, IsSession
<1>2. /\ Fixed /\ now' = now /\ blessed' = blessed
      /\ session.began = now => \A p : PathSettled(p) => PathSettled(p)'
      /\ Stamps' /\ BlessedInv' /\ (Blessed' <=> Blessed)
  BY WorkIs DEF SessionMoves
<1>3. \A p : Reading(p) => Reading(p)'
  BY <1>1, <1>2, SameFiles DEF Reading
<1>4. session.began = now => Whole(session.tests) /\ session.unread = <<>> /\ session.tests # <<>> /\ \E p \in Range(session.paths) : Reading(p)
  BY <1>1 DEF UpdInv, ReadingInv, Current
<1>5. ReadingInv'
  BY <1>1, <1>2, <1>3, <1>4, SameFiles DEF ReadingInv, Unmoved
<1>6. Done' = Done \cup {t}
  <2>1. Done' = {session.tests[i] : i \in 1 .. session.done + 1}
    BY <1>1 DEF Done
  <2>2. 1 .. session.done + 1 = (1 .. session.done) \cup {session.done + 1}
    BY <1>1
  <2> QED BY <1>0, <2>1, <2>2 DEF Done
<1>7. UpdatedInv'
  <2> SUFFICES ASSUME session.began = now, session.config.update, Green'
               PROVE  /\ \A p \in Range(session.paths) : p \in Range(session'.todo) \/ PathSettled(p)' \/ Reading(p)'
                      /\ \A u \in Done' : Settled(u, session.tests)'
    BY <1>1, <1>2 DEF UpdatedInv, Unmoved, Current
  <2>1. Green /\ r.passed
    BY <1>1 DEF Green
  <2>2. /\ \A p \in Range(session.paths) : p \in Range(session.todo) \/ PathSettled(p) \/ Reading(p)
        /\ \A u \in Done : Settled(u, session.tests)
    BY <1>1, <2>1 DEF UpdInv, UpdatedInv
  <2>3. \A u \in Range(session.tests) : Settled(u, session.tests) => Settled(u, session.tests)'
    <3>1. SavedOn(session.tests)
      BY <1>4, RunSaves
    <3>2. \A q : q = session.tests => \A u \in Range(q) : Settled(u, q) => Settled(u, q)'
      BY <1>2, <1>4, <3>1, SavedOnKeeps
    <3> QED BY <1>1, <3>2 DEF Settled
  <2>4. \A u \in Done : u \in Range(session.tests)
    BY <1>1, <1>4, ListIs DEF Done, Whole
  <2>5. Settled(t, session.tests)'
    <3>1. SavedOf(t.file)' = r.snaps
      <4>1. SnapshotPath[t.file] \in SnapshotFiles
        BY <1>1 DEF SnapshotFiles
      <4> QED BY <1>1, <4>1 DEF TypeInv, SavedOf
    <3>2. /\ Reaches(t, template) \/ RefusedRight(t, template)
          /\ Reaches(t, template) /\ t.snapshot => Failures(t, Effects(t)) = {}
          /\ Reaches(t, template) /\ ~t.snapshot => Failures(t, Effects(t)) = {}
          /\ Reaches(t, template) /\ t.snapshot => Looks(t) /\ Recorded(t) \in r.snaps
      <4>1. /\ Reaches(t, template) \/ RefusedRight(t, template)
            /\ Reaches(t, template) => r.began
            /\ r.began /\ t.snapshot => Looks(t) /\ Recorded(t) \in r.snaps
        BY <1>x, <2>1, ThisRunIs
      <4>2. Reaches(t, template) => Failures(t, Effects(t)) = {}
        BY <1>x, <2>1, RunTestIs DEF RunOf, Effects
      <4> QED BY <4>1, <4>2
    <3> QED BY <1>1, <1>2, <3>1, <3>2, SameFiles DEF Settled, Looks, Fixed
  <2> QED BY <1>1, <1>2, <1>3, <1>6, <2>2, <2>3, <2>4, <2>5
<1>8. StaysGreen'
  <2> SUFFICES ASSUME session.began = now, Blessed PROVE session'.code = 0 /\ ~session'.bad
    BY <1>1, <1>2 DEF StaysGreen, Unmoved
  <2>1. session.code = 0 /\ ~session.bad
    BY <1>1 DEF UpdInv, StaysGreen, Current
  <2>2. PICK p \in Range(session.paths) : Reading(p)
    BY <1>4
  <2>3. PICK q : SettledBy(p, q)
    BY DEF UpdInv, BlessedInv, Blessed, PathSettled
  <2>4. session.tests = q
    BY <1>4, <2>2, <2>3, ReadSettled, PathsAre
  <2>5. Settled(t, session.tests)
    BY <1>1, <2>3, <2>4 DEF SettledBy
  <2>6. r.passed
    BY <1>x, <1>1, <2>5, SettledPasses
  <2> QED BY <1>1, <2>1, <2>6
<1> QED BY <1>1, <1>2, <1>5, <1>7, <1>8 DEF UpdInv, Unmoved

LEMMA UpdReport ==
  ASSUME TypeInv, GivenInv, OwnFiles, UpdInv, Report
  PROVE  UpdInv'
<1>1. /\ Unmoved(session', session) /\ session.phase = "run" /\ session'.phase = "path" /\ IsSession(session)
      /\ session'.done = session.done /\ session'.tests = session.tests /\ session'.unread = session.unread
      /\ snaps' = IF Prunes(session.config) THEN PrunedOf(TestFiles) ELSE snaps
      /\ \/ /\ session'.code = session.code /\ session'.todo = session.todo /\ ~session.bad
            /\ session.done = Len(session.tests) /\ (Prunes(session.config) => ~CannotRead)
         \/ /\ session'.code = 1 /\ session'.todo \in {session.todo, <<>>}
            /\ session.bad \/ CannotRead \/ (session.config.ci /\ StaleSnapshots)
  BY ReportIs DEF TypeInv
<1>2. /\ Fixed /\ now' = now /\ blessed' = blessed
      /\ session.began = now => \A p : PathSettled(p) => PathSettled(p)'
      /\ Stamps' /\ BlessedInv' /\ (Blessed' <=> Blessed)
  BY WorkIs DEF SessionMoves
<1>3. Range(session'.todo) \subseteq Range(session'.paths)
  BY <1>1, ListEmpty DEF UpdInv, Unmoved
<1>4. session.began = now => Whole(session.tests) /\ session.unread = <<>> /\ session.tests # <<>> /\ \E p \in Range(session.paths) : Reading(p)
  BY <1>1 DEF UpdInv, ReadingInv, Current
<1>5. ReadingInv'
  BY <1>1 DEF ReadingInv, Current
<1>6. UpdatedInv'
  <2> SUFFICES ASSUME session.began = now, session.config.update, Green', NEW p \in Range(session.paths)
               PROVE  p \in Range(session'.todo) \/ PathSettled(p)'
    BY <1>1, <1>2 DEF UpdatedInv, Unmoved
  <2>1. Green /\ session.done = Len(session.tests) /\ session'.todo = session.todo
    BY <1>1 DEF Green
  <2>2. /\ p \in Range(session.todo) \/ PathSettled(p) \/ Reading(p)
        /\ \A u \in Done : Settled(u, session.tests)
    BY <1>1, <2>1 DEF UpdInv, UpdatedInv
  <2>3. ASSUME Reading(p) PROVE PathSettled(p)'
    <3>1. PICK q : q = session.tests
      OBVIOUS
    <3>2. Whole(q) /\ IsList(q) /\ Len(q) \in Nat
      BY <1>4, <3>1, ListIs DEF Whole
    <3>3. PICK m \in 0 .. Len(p) :
             /\ Len(session.unread) = Len(p) - m /\ Chain(p, m, q)
             /\ \A i \in 1 .. m : FileLoads(p[i])
      BY <2>3, <3>1 DEF Reading
    <3>4. m = Len(p)
      BY <1>4, <3>3, PathsAre, ListEmpty
    <3>5. SavedOn(q)
      BY <1>4, <3>1, <3>2, ReportSaves
    <3>6. \A u \in Range(q) : Settled(u, q)
      <4>1. \A u \in Range(q) : u \in Done
        BY <2>1, <3>1, <3>2, ListIs DEF Done
      <4> QED BY <2>2, <3>1, <4>1
    <3>7. \A u \in Range(q) : Settled(u, q)'
      BY <1>2, <3>2, <3>5, <3>6, SavedOnKeeps
    <3>8. snaps' = PrunedOf(TestFiles) /\ Prunes(session.config)
      BY <1>1 DEF Prunes
    <3>9. ASSUME NEW u \in Range(q)
          PROVE  Stale(q, u.file, SavedOf(u.file)') = {} /\ SnapshotPath[u.file] \notin unreadable'
      <4>1. SnapshotPath[u.file] \in SnapshotFiles /\ u.file \in TestFiles
        BY <3>1, <3>2 DEF Whole, TestFiles, SnapshotFiles
      <4>2. \A s \in SavedOf(u.file)' : s \in SavedOf(u.file) /\ s \notin StaleOf(u.file)
        BY <3>8, <4>1, PrunedIs DEF SavedOf
      <4>3. ~CannotRead
        BY <1>1, <2>1, <3>8 DEF Green
      <4>4. Stale(q, u.file, SavedOf(u.file)') = {}
        BY <3>1, <4>2 DEF StaleOf, Stale, SavedOf
      <4> QED BY <1>2, <4>1, <4>3, <4>4 DEF CannotRead, Fixed
    <3>10. Whole(q)' /\ Chain(p, m, q)' /\ \A i \in 1 .. m : FileLoads(p[i])'
      BY <1>2, <3>2, <3>3, SameFiles
    <3>11. q # <<>>
      BY <1>4, <3>1
    <3> QED BY <3>4, <3>7, <3>9, <3>10, <3>11 DEF PathSettled, SettledBy
  <2> QED BY <1>2, <2>1, <2>2, <2>3
<1>7. StaysGreen'
  <2> SUFFICES ASSUME session.began = now, Blessed PROVE session'.code = 0
    BY <1>1, <1>2 DEF StaysGreen, Unmoved, Current
  <2>1. session.code = 0 /\ ~session.bad
    BY <1>1 DEF UpdInv, StaysGreen, Current
  <2>2. PICK p \in Range(session.paths) : Reading(p)
    BY <1>4
  <2>3. PICK q : SettledBy(p, q)
    BY DEF UpdInv, BlessedInv, Blessed, PathSettled
  <2>4. session.tests = q
    BY <1>4, <2>2, <2>3, ReadSettled, PathsAre
  <2>5. ~StaleSnapshots /\ ~CannotRead
    BY <2>3, <2>4 DEF StaleSnapshots, CannotRead, TestFiles, SettledBy, StaleOf, SavedOf
  <2> QED BY <1>1, <2>1, <2>5
<1> QED BY <1>2, <1>3, <1>5, <1>6, <1>7 DEF UpdInv

\* A session that begins.
LEMMA UpdBegins ==
  ASSUME UpdInv, now' = now, Fixed, snaps' = snaps, blessed' = blessed,
         NEW c, Begins(c), session.kind = "none" \/ session.began = now \/ ~\E b \in blessed : b.at = now
  PROVE  UpdInv'
<1>1. /\ session'.config = c.config /\ session'.paths = c.paths /\ session'.todo = c.paths
      /\ session'.phase = "path" /\ session'.code = 0 /\ session'.began = now
  BY BeginIs DEF Begins
<1>2. Stamps' /\ ReadingInv' /\ UpdatedInv' /\ StaysGreen' /\ Range(session'.todo) \subseteq Range(session'.paths)
  BY <1>1 DEF UpdInv, Stamps, ReadingInv, UpdatedInv, StaysGreen, Current
<1>3. BlessedInv'
  BY <1>1, SameSettled DEF UpdInv, BlessedInv
<1> QED BY <1>2, <1>3 DEF UpdInv

LEMMA IdleUpd ==
  ASSUME session' = Idle, Stamps'
  PROVE  /\ Range(session'.todo) \subseteq Range(session'.paths) /\ ReadingInv' /\ UpdatedInv' /\ StaysGreen'
BY IdleIs, ListEmpty DEF ReadingInv, UpdatedInv, StaysGreen, Current

\* An edit leaves nothing blessed.
LEMMA UpdEdit ==
  ASSUME UpdInv, now' = now + 1, session' = session, blessed' = blessed
  PROVE  UpdInv'
<1>1. Stamps' /\ session'.began # now' /\ \A b \in blessed' : b.at # now'
  BY DEF UpdInv, Stamps
<1> QED BY <1>1 DEF UpdInv, BlessedInv, ReadingInv, UpdatedInv, StaysGreen

\* A green update is blessed when all of its paths are settled.
LEMMA UpdExit ==
  ASSUME UpdInv, Exit
  PROVE  UpdInv'
<1>1. /\ Fixed /\ snaps' = snaps /\ now' = now /\ session' = Idle
      /\ session.phase = "path" /\ session.todo = <<>>
  BY DEF Exit, Finished, Working, Fixed
<1>2. PICK bs : /\ bs = blessed' /\ blessed \subseteq bs
                /\ \A b \in bs : \/ b \in blessed
                                 \/ /\ b.at = now /\ b.paths = session.paths /\ session.config.update
                                    /\ session.code = 0 /\ session.began = now
  BY DEF Exit
<1>3. ASSUME NEW b \in bs, b.at = now, NEW p \in Range(b.paths)
      PROVE  PathSettled(p)
  <2>1. CASE b \in blessed
    BY <1>3, <2>1 DEF UpdInv, BlessedInv
  <2>2. CASE b.paths = session.paths /\ session.config.update /\ session.code = 0 /\ session.began = now
    BY <1>1, <1>3, <2>2, ListEmpty DEF UpdInv, UpdatedInv, Green, Current
  <2> QED BY <1>2, <2>1, <2>2
<1>4. Idle.kind = "none" /\ Idle.began = 0
  BY IdleIs
<1>5. Stamps'
  BY <1>1, <1>2, <1>4 DEF UpdInv, Stamps
<1>6. BlessedInv'
  BY <1>1, <1>2, <1>3, <1>4, SameSettled DEF BlessedInv
<1> QED BY <1>1, <1>5, <1>6, IdleUpd DEF UpdInv

LEMMA UpdNext == TypeInv /\ GivenInv /\ OwnFiles /\ UpdInv /\ [Next]_vars => UpdInv'
<1> SUFFICES ASSUME TypeInv, GivenInv, OwnFiles, UpdInv, [Next]_vars PROVE UpdInv'
  OBVIOUS
<1>1. CASE Edits \/ EditTemplate
  <2>1. now' = now + 1 /\ session' = session /\ blessed' = blessed
    BY <1>1 DEF Edits, EditFile, EditTemplate, Edited
  <2> QED BY <2>1, UpdEdit
<1>2. CASE StartTest \/ StartWatch
  <2>1. session.kind = "none" /\ \E c \in may : Begins(c)
    BY <1>2, GivenIs DEF StartTest, StartWatch
  <2>2. now' = now /\ Fixed /\ snaps' = snaps /\ blessed' = blessed
    BY <1>2 DEF StartTest, StartWatch, Given, Fixed
  <2> QED BY <2>1, <2>2, UpdBegins
<1>3. CASE Wake
  <2>1. now' = now /\ Fixed /\ snaps' = snaps /\ blessed' = blessed
    BY <1>3 DEF Wake, Fixed
  <2>2. session.began = now \/ session.kind = "none" \/ ~\E b \in blessed : b.at = now
    BY DEF UpdInv, BlessedInv
  <2> QED BY <1>3, <2>1, <2>2, WakeIs, UpdBegins
<1>4. CASE Interrupt
  <2>1. /\ now' = now /\ files' = files /\ template' = template /\ may' = may /\ session' = Idle
        /\ blessed' = {} \/ (snaps' = snaps /\ unreadable' = unreadable /\ blessed' = blessed)
    BY <1>4 DEF Interrupt
  <2>2. Idle.kind = "none" /\ Idle.began = 0
    BY IdleIs
  <2>3. CASE blessed' = {}
    <3>1. Stamps' /\ BlessedInv'
      BY <2>1, <2>2, <2>3 DEF UpdInv, Stamps, BlessedInv
    <3> QED BY <2>1, <3>1, IdleUpd DEF UpdInv
  <2>4. CASE Fixed /\ snaps' = snaps /\ blessed' = blessed
    <3>1. Stamps' /\ BlessedInv'
      BY <2>1, <2>2, <2>4, SameSettled DEF UpdInv, Stamps, BlessedInv
    <3> QED BY <2>1, <3>1, IdleUpd DEF UpdInv
  <2> QED BY <2>1, <2>3, <2>4 DEF Fixed
<1>5. CASE vars' = vars
  <2>1. /\ Fixed /\ snaps' = snaps /\ now' = now /\ session' = session /\ blessed' = blessed
    BY <1>5 DEF vars, Fixed
  <2>2. \A p : Reading(p)' <=> Reading(p)
    BY <2>1, SameFiles DEF Reading, Fixed
  <2>3. \A t : Settled(t, session.tests)' <=> Settled(t, session.tests)
    BY <2>1, SameFiles DEF Settled, SavedOf, Fixed
  <2> QED BY <2>1, <2>2, <2>3, SameFiles, SameSettled DEF UpdInv, Stamps, BlessedInv, ReadingInv, UpdatedInv, StaysGreen,
                                                           Current, Green, Done, Blessed
<1> QED BY <1>1, <1>2, <1>3, <1>4, <1>5, UpdTakePath, UpdLoadFile, UpdBeginTests, UpdShowRun, UpdRunNext, UpdReport, UpdExit
        DEF Next, Step, Edits

\* A green -update-snapshots session leaves the snapshots as any later session of the same
\* paths wants them, CI among them, until something is edited or a write is cut off; no two
\* of the files that may be given share a snapshot file.
THEOREM UpdateThenGreen == Spec => []UpdatedIsGreen
<1>1. Init => UpdInv
  <2> SUFFICES ASSUME Init PROVE UpdInv
    OBVIOUS
  <2>1. session = Idle /\ now = 0 /\ blessed = {}
    BY DEF Init
  <2> QED BY <2>1, IdleIs, ListEmpty DEF UpdInv, Stamps, BlessedInv, ReadingInv, UpdatedInv, StaysGreen, Current
<1>2. [Next]_vars => (OwnFiles' <=> OwnFiles)
  BY MayStays DEF OwnFiles, AllGiven
<1>3. (OwnFiles => UpdInv) => UpdatedIsGreen
  BY DEF OwnFiles, AllGiven, UpdInv, StaysGreen, UpdatedIsGreen, Blessed
<1> QED BY <1>1, <1>2, <1>3, SessionsKeepTypes, FilesAreGiven, UpdNext, PTL DEF Spec

-----------------------------------------------------------------------------
(* The watcher.                                                            *)

\* Something that was read since the scan is what the scan found, unless it was edited.
ReadSince(r) ==
  \/ r[1] = "template" /\ (<<"template", template.at>> \in watch.last => r[2] = template.at)
  \/ r[1] \in File /\ (<<r[1], files[r[1]].at>> \in watch.last => r[2] = files[r[1]].at)
WatchInv ==
  /\ watch = [last |-> watch.last, shown |-> watch.shown]
  /\ now \in Nat /\ template.at \in Nat /\ template.at <= now
  /\ \A f \in File : files[f].at \in Nat /\ files[f].at <= now
  /\ \A m \in watch.last : m[2] \in Nat /\ m[2] <= now
  /\ \A f \in File : <<f, files[f].at>> \in watch.last => files[f].suite # NoSuite
  /\ session.phase = "watching" => session.kind = "watch"
  /\ session.kind = "watch" => \A r \in session.read : ReadSince(r)
  /\ session.phase = "watching" => \A r \in watch.shown : ReadSince(r)

LEMMA ScanIs ==
  ASSUME WatchInv, NEW m \in ScanMtimes
  PROVE  m[2] \in Nat /\ m[2] <= now
<1>1. CASE m = <<"template", template.at>>
  BY <1>1 DEF WatchInv
<1>2. CASE \E f \in File : m = <<f, files[f].at>>
  BY <1>2 DEF WatchInv
<1> QED BY <1>1, <1>2 DEF ScanMtimes

\* The session moves, nothing else.
LEMMA WatchWork ==
  ASSUME WatchInv, now' = now, files' = files, template' = template, watch' = watch,
         session'.kind = session.kind \/ session'.read = {},
         session'.phase # "watching",
         \A r \in session'.read : \/ r \in session.read
                                  \/ r = <<"template", template.at>>
                                  \/ \E f \in File : r = <<f, files[f].at>> \/ (r[1] = f /\ files[f].suite = NoSuite)
  PROVE  WatchInv'
<1>1. ASSUME session'.kind = "watch", NEW r \in session'.read PROVE ReadSince(r)'
  <2>1. CASE r \in session.read
    BY <1>1, <2>1 DEF WatchInv, ReadSince
  <2>2. CASE r = <<"template", template.at>>
    BY <2>2 DEF ReadSince
  <2>3. CASE \E f \in File : r = <<f, files[f].at>>
    BY <2>3 DEF ReadSince
  <2>4. CASE \E f \in File : r[1] = f /\ files[f].suite = NoSuite
    BY <2>4 DEF ReadSince, WatchInv
  <2> QED BY <1>1, <2>1, <2>2, <2>3, <2>4
<1> QED BY <1>1 DEF WatchInv

LEMMA WatchNext == TypeInv /\ WatchInv /\ [Next]_vars => WatchInv'
<1> SUFFICES ASSUME TypeInv, WatchInv, [Next]_vars PROVE WatchInv'
  OBVIOUS
<1>1. ASSUME now' = now + 1, session' = session, watch' = watch,
             template' = template \/ template'.at = now + 1,
             \A f \in File : files'[f] = files[f] \/ files'[f].at = now + 1
      PROVE  WatchInv'
  <2>1. now + 1 \in Nat /\ \A m \in watch.last : m[2] # now + 1
    BY DEF WatchInv
  <2>2. ASSUME NEW r, ReadSince(r) PROVE ReadSince(r)'
    <3>1. CASE r[1] = "template" /\ (<<"template", template.at>> \in watch.last => r[2] = template.at)
      <4>1. <<"template", now + 1>> \notin watch.last
        BY <2>1
      <4> QED BY <1>1, <3>1, <4>1 DEF ReadSince
    <3>2. CASE r[1] \in File /\ (<<r[1], files[r[1]].at>> \in watch.last => r[2] = files[r[1]].at)
      <4>1. <<r[1], now + 1>> \notin watch.last
        BY <2>1
      <4> QED BY <1>1, <3>2, <4>1 DEF ReadSince
    <3> QED BY <2>2, <3>1, <3>2 DEF ReadSince
  <2>3. /\ now' \in Nat /\ template'.at \in Nat /\ template'.at <= now'
        /\ \A f \in File : files'[f].at \in Nat /\ files'[f].at <= now'
        /\ \A m \in watch.last : m[2] \in Nat /\ m[2] <= now'
    BY <1>1 DEF WatchInv
  <2>4. \A f \in File : <<f, files'[f].at>> \in watch.last => files'[f].suite # NoSuite
    <3>1. ASSUME NEW f \in File, files'[f].at = now + 1 PROVE <<f, files'[f].at>> \notin watch.last
      BY <2>1, <3>1
    <3> QED BY <1>1, <3>1 DEF WatchInv
  <2> QED BY <1>1, <2>2, <2>3, <2>4 DEF WatchInv
<1>2. CASE Edits
  <2>1. PICK g \in File : EditFile(g)
    BY <1>2 DEF Edits
  <2>2. PICK s : files' = [files EXCEPT ![g] = [at |-> now + 1, suite |-> s]]
    BY <2>1 DEF EditFile
  <2>3. \A f \in File : files'[f] = files[f] \/ files'[f].at = now + 1
    BY <2>2 DEF TypeInv
  <2> QED BY <1>1, <2>1, <2>3 DEF EditFile, Edited
<1>3. CASE EditTemplate
  <2>1. template'.at = now + 1
    BY <1>3 DEF EditTemplate
  <2> QED BY <1>1, <1>3, <2>1 DEF EditTemplate, Edited
<1>4. CASE StartTest
  <2>1. PICK c : Begins(c)
    BY <1>4, GivenIs DEF StartTest
  <2>2. session'.phase = "path" /\ session'.read = {}
    BY <2>1, BeginIs DEF Begins
  <2> QED BY <1>4, <2>2, WatchWork DEF StartTest
<1>5. CASE StartWatch \/ Wake
  <2>1. PICK c : Begins(c)
    BY <1>5, GivenIs, WakeIs DEF StartWatch
  <2>2. session'.phase = "path" /\ session'.read = {}
    BY <2>1, BeginIs DEF Begins
  <2>3. /\ now' = now /\ files' = files /\ template' = template
        /\ watch'.last = ScanMtimes /\ watch' = [last |-> watch'.last, shown |-> watch'.shown]
    <3>1. CASE StartWatch
      BY <3>1 DEF StartWatch
    <3>2. CASE Wake
      BY <3>2 DEF Wake, WatchInv
    <3> QED BY <1>5, <3>1, <3>2
  <2>4. \A m \in watch'.last : m[2] \in Nat /\ m[2] <= now
    BY <2>3, ScanIs
  <2>5. \A f \in File : <<f, files[f].at>> \in ScanMtimes => files[f].suite # NoSuite
    BY ProjectsAssumption DEF ScanMtimes
  <2> QED BY <2>2, <2>3, <2>4, <2>5 DEF WatchInv
<1>6. CASE Interrupt \/ Exit
  <2>1. session' = Idle /\ now' = now /\ files' = files /\ template' = template /\ watch' = watch
    BY <1>6 DEF Interrupt, Exit
  <2> QED BY <2>1, IdleIs, WatchWork
<1>7. CASE TakePath \/ LoadFile \/ BeginTests \/ RunNext \/ Report
  <2>1. now' = now /\ files' = files /\ template' = template /\ watch' = watch
    BY <1>7 DEF TakePath, LoadFile, BeginTests, RunNext, Report
  <2>2. session'.kind = session.kind /\ session'.phase # "watching"
    BY <1>7, TakePathIs, LoadFileIs, BeginTestsIs, RunNextIs, ReportIs DEF Unmoved
  <2>3. \A r \in session'.read :
          \/ r \in session.read
          \/ r = <<"template", template.at>>
          \/ \E f \in File : r = <<f, files[f].at>> \/ (r[1] = f /\ files[f].suite = NoSuite)
    <3>1. CASE TakePath
      <4>1. /\ session'.read = session.read \cup AbsentOf(Head(session.todo))
            /\ Range(Head(session.todo)) \subseteq File
        BY <3>1, TakePathIs DEF IsPath
      <4> QED BY <4>1 DEF AbsentOf
    <3>2. CASE LoadFile
      <4> DEFINE f == Head(session.unread)
      <4>1. /\ f \in File
            /\ \/ session'.read = session.read
               \/ session'.read = session.read \cup {<<f, files[f].at>>}
               \/ files[f].suite = NoSuite /\ session'.read = session.read \cup {<<f, session.listed[f]>>}
        BY <3>2, LoadFileIs
      <4> HIDE DEF f
      <4> QED BY <4>1
    <3>3. CASE BeginTests \/ RunNext \/ Report
      BY <3>3, BeginTestsIs, RunNextIs, ReportIs
    <3> QED BY <1>7, <3>1, <3>2, <3>3
  <2> QED BY <2>1, <2>2, <2>3, WatchWork
<1>8. CASE ShowRun
  <2>1. session.kind = "watch" /\ session'.kind = "watch" /\ session'.read = {}
    BY <1>8, ShowRunIs DEF Unmoved
  <2>2. /\ now' = now /\ files' = files /\ template' = template
        /\ watch'.last = watch.last /\ watch'.shown = session.read
        /\ watch' = [last |-> watch'.last, shown |-> watch'.shown]
    BY <1>8 DEF ShowRun, WatchInv
  <2> QED BY <2>1, <2>2 DEF WatchInv, ReadSince
<1>9. CASE vars' = vars
  BY <1>9 DEF vars, WatchInv, ReadSince
<1> QED BY <1>2, <1>3, <1>4, <1>5, <1>6, <1>7, <1>8, <1>9 DEF Next, Step, Edits

\* A watcher that finds nothing changed since its scan has shown the files as they are,
\* however the edits fall into its scan and its rerun.
THEOREM WatcherSleepsWell == Spec => []SleepsOnWhatIsThere
<1>1. Init => WatchInv
  <2> SUFFICES ASSUME Init PROVE WatchInv
    OBVIOUS
  <2>1. PICK p \in Projects : /\ files = [f \in File |-> [at |-> 0, suite |-> p.files[f]]]
                              /\ template = [at |-> 0, header |-> p.template.header, does |-> p.template.does]
    BY DEF Init
  <2>2. session = Idle /\ now = 0 /\ watch = [last |-> {}, shown |-> {}]
    BY DEF Init
  <2> QED BY <2>1, <2>2, IdleIs DEF WatchInv
<1>2. WatchInv => SleepsOnWhatIsThere
  <2> SUFFICES ASSUME WatchInv, session.phase = "watching", watch.last = ScanMtimes, NEW r \in watch.shown
               PROVE  IF r[1] = "template" THEN r[2] = template.at
                      ELSE r[2] = files[r[1]].at \/ (files[r[1]].suite = NoSuite /\ \A m \in watch.last : m[1] # r[1])
    BY DEF SleepsOnWhatIsThere, ShowsWhatIsThere, ChangedFile
  <2>1. ReadSince(r)
    BY DEF WatchInv
  <2>2. "template" \notin File
    BY ProjectsAssumption
  <2>3. CASE r[1] = "template"
    BY <2>1, <2>2, <2>3 DEF ReadSince, ScanMtimes
  <2>4. CASE r[1] \in File /\ files[r[1]].suite # NoSuite
    BY <2>1, <2>2, <2>4 DEF ReadSince, ScanMtimes
  <2>5. CASE r[1] \in File /\ files[r[1]].suite = NoSuite
    BY <2>2, <2>5 DEF ScanMtimes
  <2> QED BY <2>1, <2>3, <2>4, <2>5 DEF ReadSince
<1> QED BY <1>1, <1>2, SessionsKeepTypes, WatchNext, PTL DEF Spec
-----------------------------------------------------------------------------
(* Messages: whom they ping.                                               *)

\* complexMessage adds a key after the other: the function of the model is one.
LEMMA KeysAddedIs ==
  ASSUME NEW values, NEW pairs, Len(pairs) \in Nat
  PROVE  LET a == KeysAdded(values, pairs)
         IN  /\ a[0] = [error |-> FALSE, made |-> values, m |-> [EmptyMessage EXCEPT !.mentions = UsersOnly]]
             /\ \A n \in 1 .. Len(pairs) : a[n] = AddKey(a[n - 1], pairs[n])
<1> PICK first : first = [error |-> FALSE, made |-> values, m |-> [EmptyMessage EXCEPT !.mentions = UsersOnly]]
  OBVIOUS
<1> DEFINE Is1(f, n) == f = [k \in 0 .. n |-> IF k = 0 THEN first ELSE AddKey(f[k - 1], pairs[k])]
<1> DEFINE Bad == {n \in Nat : ~ \E f : Is1(f, n)}
<1>1. ASSUME Bad # {} PROVE FALSE
  <2>1. PICK n \in Bad : \A k \in Bad : n <= k
    BY <1>1, Least
  <2>2. n \in Nat /\ ~ \E f : Is1(f, n)
    OBVIOUS
  <2>3. CASE n = 0
    <3> DEFINE f == [k \in 0 .. 0 |-> first]
    <3>1. Is1(f, n)
      BY <2>3
    <3> QED BY <3>1, <2>2
  <2>4. CASE n # 0
    <3>1. n - 1 \in Nat /\ n - 1 \notin Bad
      <4>1. n - 1 \in Nat /\ ~ (n <= n - 1)
        BY <2>2, <2>4
      <4> HIDE DEF Bad
      <4> QED BY <4>1, <2>1
    <3>2. PICK f : Is1(f, n - 1)
      BY <3>1
    <3> DEFINE g == [k \in 0 .. n |-> IF k = n THEN AddKey(f[n - 1], pairs[n]) ELSE f[k]]
    <3>3. \A k \in 0 .. n : g[k] = IF k = 0 THEN first ELSE AddKey(g[k - 1], pairs[k])
      <4> SUFFICES ASSUME NEW k \in 0 .. n PROVE g[k] = IF k = 0 THEN first ELSE AddKey(g[k - 1], pairs[k])
        OBVIOUS
      <4>1. CASE k = n
        <5>1. n - 1 \in 0 .. n /\ n - 1 # n
          BY <2>2, <2>4
        <5>2. g[k - 1] = f[n - 1] /\ g[k] = AddKey(f[n - 1], pairs[n])
          BY <4>1, <5>1
        <5> QED BY <5>2, <4>1, <2>4
      <4>2. CASE k # n
        <5>1. k \in 0 .. n - 1
          BY <4>2, <2>2
        <5>2. g[k] = f[k]
          BY <4>2
        <5>3. k # 0 => k - 1 \in 0 .. n /\ k - 1 # n /\ g[k - 1] = f[k - 1]
          BY <5>1, <2>2
        <5>4. f[k] = IF k = 0 THEN first ELSE AddKey(f[k - 1], pairs[k])
          <6> HIDE DEF g, Bad
          <6> QED BY <3>2, <5>1
        <5> QED BY <5>2, <5>3, <5>4
      <4> QED BY <4>1, <4>2
    <3>4. Is1(g, n)
      BY <3>3
    <3> QED BY <3>4, <2>2
  <2> QED BY <2>3, <2>4
<1>2. \E f : Is1(f, Len(pairs))
  BY <1>1
<1> DEFINE added == CHOOSE f : Is1(f, Len(pairs))
<1>3. Is1(added, Len(pairs))
  BY <1>2
<1>4. KeysAdded(values, pairs) = added
  BY DEF KeysAdded
<1>5. /\ added[0] = first
      /\ \A n \in 1 .. Len(pairs) : added[n] = AddKey(added[n - 1], pairs[n])
  <2> HIDE DEF added
  <2>1. \A k \in 0 .. Len(pairs) : added[k] = IF k = 0 THEN first ELSE AddKey(added[k - 1], pairs[k])
    <3> PICK len : len = Len(pairs)
      OBVIOUS
    <3>1. added = [k \in 0 .. len |-> IF k = 0 THEN first ELSE AddKey(added[k - 1], pairs[k])]
      BY <1>3
    <3> HIDE DEF Is1, Bad
    <3> SUFFICES ASSUME NEW k \in 0 .. len PROVE added[k] = IF k = 0 THEN first ELSE AddKey(added[k - 1], pairs[k])
      OBVIOUS
    <3> QED BY <3>1
  <2> HIDE DEF Is1, Bad
  <2>0. 0 \in 0 .. Len(pairs)
    OBVIOUS
  <2>2. added[0] = first
    BY <2>0, <2>1, Zenon
  <2>3. ASSUME NEW n \in 1 .. Len(pairs) PROVE added[n] = AddKey(added[n - 1], pairs[n])
    BY <2>1
  <2> QED BY <2>2, <2>3
<1> HIDE DEF added
<1> QED BY <1>4, <1>5

\* What complexMessage has by then: a message with all its fields.
MessageFields == {"content", "embeds", "rows", "form", "file", "other", "mentions", "reply", "asked"}
IsBuilt(b) == DOMAIN b = {"error", "made", "m"} /\ DOMAIN b.m = MessageFields
MentionsOf(p) == IF p.shape = "nil" THEN Nobody ELSE AllowedMentions(p.mentions)

\* The empty message.
LEMMA EmptyIs == DOMAIN EmptyMessage = MessageFields /\ EmptyMessage.mentions = Nobody /\ EmptyMessage.reply = ""
<1>1. DOMAIN EmptyMessage = MessageFields
  BY DEF EmptyMessage, MessageFields
<1>2. EmptyMessage.mentions = Nobody /\ EmptyMessage.reply = ""
  BY DEF EmptyMessage
<1> QED BY <1>1, <1>2

\* A message, without an error.
LEMMA BuiltIs ==
  ASSUME NEW values, NEW m, DOMAIN m = MessageFields
  PROVE  LET b == [error |-> FALSE, made |-> values, m |-> m] IN IsBuilt(b) /\ b.m = m
BY DEF IsBuilt

\* A list of components does not touch whom the message pings.
LEMMA AddingIs ==
  ASSUME NEW m, DOMAIN m = MessageFields, NEW rows, NEW list
  PROVE  DOMAIN Adding(m, rows, list) = MessageFields /\ Adding(m, rows, list).mentions = m.mentions
BY DEF Adding, MessageFields

\* Nor does a list in the place of another.
LEMMA ReplacedIs ==
  ASSUME NEW m, DOMAIN m = MessageFields, NEW values, NEW rows, NEW list
  PROVE  IsBuilt(Replaced(m, values, rows, list)) /\ Replaced(m, values, rows, list).m.mentions = m.mentions
BY DEF Replaced, MessageFields, IsBuilt

\* Nor the key components, however it is given.
LEMMA ComponentsAre ==
  ASSUME NEW acc, IsBuilt(acc), NEW p, p.shape \in {"one", "list", "rows"}
  PROVE  IsBuilt(Components(acc, p)) /\ Components(acc, p).m.mentions = acc.m.mentions
<1>1. DOMAIN acc.m = MessageFields
  BY DEF IsBuilt
<1>2. CASE p.shape = "one"
  <2> PICK flat : flat = Each(acc.made, p.list, Entry)
    OBVIOUS
  <2>1. Components(acc, p) = OneComponent(acc.m, flat)
    BY <1>2 DEF Components
  <2>2. IsBuilt(OneComponent(acc.m, flat)) /\ OneComponent(acc.m, flat).m.mentions = acc.m.mentions
    BY <1>1, AddingIs DEF OneComponent, IsBuilt
  <2> QED BY <2>1, <2>2
<1>3. CASE p.shape = "list"
  <2> PICK flat : flat = Each(acc.made, p.list, Entry)
    OBVIOUS
  <2>1. Components(acc, p) = FlatList(acc, flat)
    BY <1>3 DEF Components
  <2>2. IsBuilt([acc EXCEPT !.error = TRUE]) /\ [acc EXCEPT !.error = TRUE].m.mentions = acc.m.mentions
    BY DEF IsBuilt
  <2>3. IsBuilt(FlatList(acc, flat)) /\ FlatList(acc, flat).m.mentions = acc.m.mentions
    BY <1>1, <2>2, ReplacedIs DEF FlatList
  <2> QED BY <2>1, <2>3
<1>4. CASE p.shape = "rows"
  <2> PICK own : own = EachRow(acc.made, p.rows)
    OBVIOUS
  <2>1. Components(acc, p) = OwnRows(acc, own)
    BY <1>4 DEF Components
  <2>2. IsBuilt([acc EXCEPT !.error = TRUE]) /\ [acc EXCEPT !.error = TRUE].m.mentions = acc.m.mentions
    BY DEF IsBuilt
  <2>3. IsBuilt(OwnRows(acc, own)) /\ OwnRows(acc, own).m.mentions = acc.m.mentions
    BY <1>1, <2>2, ReplacedIs DEF OwnRows, OwnRowsOf
  <2> QED BY <2>1, <2>3
<1> QED BY <1>2, <1>3, <1>4

\* Nor buttons and menus.
LEMMA ListedIs ==
  ASSUME NEW acc, IsBuilt(acc), NEW r
  PROVE  IsBuilt(Listed(acc, r)) /\ Listed(acc, r).m.mentions = acc.m.mentions
<1>1. DOMAIN acc.m = MessageFields
  BY DEF IsBuilt
<1> QED BY <1>1, AddingIs DEF Listed, IsBuilt

\* Of the keys, allowed_mentions alone says whom the message pings.
LEMMA AddKeyIs ==
  ASSUME NEW acc, IsBuilt(acc), NEW p, p.shape \in {"nil", "one", "list", "rows"}
  PROVE  /\ IsBuilt(AddKey(acc, p))
         /\ acc.error => AddKey(acc, p) = acc
         /\ p.key # "allowed_mentions" => AddKey(acc, p).m.mentions = acc.m.mentions
         /\ p.key = "allowed_mentions" => AddKey(acc, p).error \/ AddKey(acc, p).m.mentions = MentionsOf(p)
<1>1. DOMAIN acc = {"error", "made", "m"} /\ DOMAIN acc.m = MessageFields
  BY DEF IsBuilt
<1>2. CASE acc.error
  BY <1>2 DEF AddKey, OtherKeys
<1>3. CASE ~acc.error /\ p.key = "allowed_mentions"
  <2>1. AddKey(acc, p) = MentionsKey(acc, p)
    BY <1>3 DEF AddKey, OtherKeys
  <2>2. /\ IsBuilt(MentionsKey(acc, p))
        /\ MentionsKey(acc, p).error \/ MentionsKey(acc, p).m.mentions = MentionsOf(p)
    BY <1>1 DEF MentionsKey, MentionsOf, IsBuilt, MessageFields
  <2> QED BY <2>1, <2>2, <1>3
<1>4. CASE ~acc.error /\ p.key # "allowed_mentions"
  <2> DEFINE Same(b) == IsBuilt(b) /\ b.m.mentions = acc.m.mentions
  <2> SUFFICES Same(AddKey(acc, p))
    BY <1>4
  <2>1. CASE p.key = "content"
    <3>1. AddKey(acc, p) = [acc EXCEPT !.m.content = p.text]
      BY <1>4, <2>1 DEF AddKey, OtherKeys
    <3> QED BY <3>1, <1>1 DEF IsBuilt, MessageFields
  <2>2. CASE p.key = "reply"
    <3>1. AddKey(acc, p) = [acc EXCEPT !.m.reply = p.reply, !.error = p.reply = "bad"]
      BY <1>4, <2>2 DEF AddKey, OtherKeys
    <3> QED BY <3>1, <1>1 DEF IsBuilt, MessageFields
  <2>3. CASE p.key = "file"
    <3>1. AddKey(acc, p) = [acc EXCEPT !.m.file = TRUE, !.error = p.text.size > MaxFile]
      BY <1>4, <2>3 DEF AddKey, OtherKeys
    <3> QED BY <3>1, <1>1 DEF IsBuilt, MessageFields
  <2>4. CASE p.key = "sticker"
    <3>1. AddKey(acc, p) = [acc EXCEPT !.m.other = p.shape # "nil"]
      BY <1>4, <2>4 DEF AddKey, OtherKeys
    <3> QED BY <3>1, <1>1 DEF IsBuilt, MessageFields
  <2>5. CASE p.key \in OtherKeys \/ (p.shape = "nil" /\ p.key \in {"embed", "components", "buttons", "menus"})
    <3>1. AddKey(acc, p) = acc
      BY <1>4, <2>5 DEF AddKey, OtherKeys
    <3> QED BY <3>1
  <2>6. CASE p.shape # "nil" /\ p.key = "embed"
    <3>1. AddKey(acc, p) = [acc EXCEPT !.m = Embeds(acc.m, p)]
      BY <1>4, <2>6 DEF AddKey, OtherKeys
    <3> QED BY <3>1, <1>1 DEF IsBuilt, MessageFields, Embeds
  <2>7. CASE p.shape # "nil" /\ p.key = "components"
    <3>1. AddKey(acc, p) = Components(acc, p)
      BY <1>4, <2>7 DEF AddKey, OtherKeys
    <3> QED BY <2>7, <3>1, ComponentsAre
  <2>8. CASE p.shape # "nil" /\ p.key = "buttons"
    <3>1. AddKey(acc, p) = Buttons(acc, p)
      BY <1>4, <2>8 DEF AddKey, OtherKeys
    <3> QED BY <3>1, ListedIs DEF Buttons
  <2>9. CASE p.shape # "nil" /\ p.key = "menus"
    <3>1. AddKey(acc, p) = Menus(acc, p)
      BY <1>4, <2>9 DEF AddKey, OtherKeys
    <3> QED BY <3>1, ListedIs DEF Menus
  <2>10. CASE p.key \notin OtherKeys \cup {"content", "reply", "file", "sticker", "embed", "components", "buttons", "menus"}
    <3>1. AddKey(acc, p) = [acc EXCEPT !.error = TRUE]
      BY <1>4, <2>10 DEF AddKey, OtherKeys
    <3> QED BY <3>1, <1>1 DEF IsBuilt, MessageFields
  <2> QED BY <2>1, <2>2, <2>3, <2>4, <2>5, <2>6, <2>7, <2>8, <2>9, <2>10
<1> QED BY <1>2, <1>3, <1>4

\* Whom the last allowed_mentions among the first n keys lets a message ping.
Allows(p) == p.key = "allowed_mentions"
LetBy(pairs, n, mentions) ==
  \/ mentions = UsersOnly /\ \A i \in 1 .. n : ~Allows(pairs[i])
  \/ \E i \in 1 .. n : /\ Allows(pairs[i]) /\ mentions = MentionsOf(pairs[i])
                       /\ \A j \in i + 1 .. n : ~Allows(pairs[j])

\* After n keys, without an error: by induction along the keys.
LEMMA KeysAre ==
  ASSUME NEW values, NEW pairs, IsList(pairs), \A p \in Range(pairs) : p.shape \in {"nil", "one", "list", "rows"},
         NEW n \in 0 .. Len(pairs)
  PROVE  LET a == KeysAdded(values, pairs)[n] IN IsBuilt(a) /\ (a.error \/ LetBy(pairs, n, a.m.mentions))
<1> PICK a : a = KeysAdded(values, pairs)
  OBVIOUS
<1>1. Len(pairs) \in Nat /\ \A i \in 1 .. Len(pairs) : pairs[i].shape \in {"nil", "one", "list", "rows"}
  BY ListIs
<1>2. /\ a[0] = [error |-> FALSE, made |-> values, m |-> [EmptyMessage EXCEPT !.mentions = UsersOnly]]
      /\ \A i \in 1 .. Len(pairs) : a[i] = AddKey(a[i - 1], pairs[i])
  BY <1>1, KeysAddedIs
<1> DEFINE Good(i) == IsBuilt(a[i]) /\ (a[i].error \/ LetBy(pairs, i, a[i].m.mentions))
<1> DEFINE Bad == {i \in 0 .. Len(pairs) : ~Good(i)}
<1>3. Good(0)
  <2>1. a[0] = [error |-> FALSE, made |-> values, m |-> [EmptyMessage EXCEPT !.mentions = UsersOnly]]
    BY <1>2
  <2>2. IsBuilt(a[0]) /\ a[0].m.mentions = UsersOnly
    <3> PICK m : m = [EmptyMessage EXCEPT !.mentions = UsersOnly]
      OBVIOUS
    <3>1. DOMAIN m = MessageFields /\ m.mentions = UsersOnly
      BY EmptyIs DEF MessageFields
    <3>2. IsBuilt(a[0])
      BY <2>1, <3>1, BuiltIs
    <3>3. a[0].m = m
      BY <2>1
    <3> QED BY <3>1, <3>2, <3>3
  <2>3. LetBy(pairs, 0, UsersOnly)
    BY DEF LetBy
  <2> QED BY <2>2, <2>3
<1>4. ASSUME NEW i \in 1 .. Len(pairs), Good(i - 1) PROVE Good(i)
  <2>1. /\ IsBuilt(a[i])
        /\ a[i - 1].error => a[i] = a[i - 1]
        /\ ~Allows(pairs[i]) => a[i].m.mentions = a[i - 1].m.mentions
        /\ Allows(pairs[i]) => a[i].error \/ a[i].m.mentions = MentionsOf(pairs[i])
    <3>1. IsBuilt(a[i - 1]) /\ a[i] = AddKey(a[i - 1], pairs[i]) /\ pairs[i].shape \in {"nil", "one", "list", "rows"}
      BY <1>1, <1>2, <1>4
    <3> QED BY <3>1, AddKeyIs DEF Allows
  <2>2. CASE a[i - 1].error
    BY <2>1, <2>2
  <2>3. CASE ~a[i - 1].error /\ Allows(pairs[i])
    <3>1. i \in 1 .. i /\ \A j \in i + 1 .. i : ~Allows(pairs[j])
      BY <1>1
    <3> QED BY <2>1, <2>3, <3>1 DEF LetBy
  <2>4. CASE ~a[i - 1].error /\ ~Allows(pairs[i])
    <3>1. LetBy(pairs, i - 1, a[i].m.mentions)
      BY <1>4, <2>1, <2>4
    <3> PICK mn : mn = a[i].m.mentions
      OBVIOUS
    <3>2. LetBy(pairs, i, mn)
      <4>1. CASE mn = UsersOnly /\ \A k \in 1 .. i - 1 : ~Allows(pairs[k])
        <5>1. \A k \in 1 .. i : k \in 1 .. i - 1 \/ k = i
          BY <1>1
        <5> QED BY <4>1, <5>1, <2>4 DEF LetBy
      <4>2. ASSUME NEW k \in 1 .. i - 1, Allows(pairs[k]), mn = MentionsOf(pairs[k]),
                   \A j \in k + 1 .. i - 1 : ~Allows(pairs[j])
            PROVE  LetBy(pairs, i, mn)
        <5>1. k \in 1 .. i /\ \A j \in k + 1 .. i : j \in k + 1 .. i - 1 \/ j = i
          BY <1>1
        <5> QED BY <4>2, <5>1, <2>4 DEF LetBy
      <4> QED BY <3>1, <4>1, <4>2 DEF LetBy
    <3> QED BY <2>1, <3>2
  <2> QED BY <2>2, <2>3, <2>4
<1>5. ASSUME Bad # {} PROVE FALSE
  <2>1. Bad \in SUBSET Nat
    BY <1>1
  <2>2. PICK i \in Bad : \A k \in Bad : i <= k
    <3> HIDE DEF Bad
    <3> QED BY <1>5, <2>1, Least
  <2>3. i \in 0 .. Len(pairs) /\ ~Good(i)
    OBVIOUS
  <2>4. i # 0
    BY <1>3, <2>3
  <2>5. i \in 1 .. Len(pairs) /\ i - 1 \in 0 .. Len(pairs) /\ ~(i <= i - 1)
    BY <2>3, <2>4, <1>1
  <2>6. i - 1 \notin Bad
    <3> HIDE DEF Bad
    <3> QED BY <2>2, <2>5
  <2>7. Good(i - 1)
    <3> HIDE DEF Good
    <3> QED BY <2>5, <2>6
  <2> QED BY <1>4, <2>3, <2>5, <2>7
<1>6. Good(n)
  BY <1>5
<1> QED BY <1>6

\* complexMessage as a whole, which lets users alone be pinged, or nobody, if it says nothing.
LEMMA ComplexMessageIs ==
  ASSUME NEW values, NEW pairs, IsList(pairs), \A p \in Range(pairs) : p.shape \in {"nil", "one", "list", "rows"},
         NEW b, b = ComplexMessage(values, pairs)
  PROVE  IsBuilt(b) /\ (b.error \/ LetBy(pairs, Len(pairs), b.m.mentions) \/ b.m.mentions = Nobody)
<1>1. CASE pairs = <<>>
  <2>1. b = [error |-> FALSE, made |-> values, m |-> EmptyMessage]
    BY <1>1 DEF ComplexMessage
  <2> QED BY <2>1, EmptyIs, BuiltIs
<1>2. CASE pairs # <<>>
  <2> PICK a : a = KeysAdded(values, pairs)[Len(pairs)]
    OBVIOUS
  <2>1. IsBuilt(a) /\ (a.error \/ LetBy(pairs, Len(pairs), a.m.mentions))
    <3>1. Len(pairs) \in 0 .. Len(pairs)
      BY ListIs
    <3> QED BY <3>1, KeysAre
  <2>2. b = Built(a)
    BY <1>2 DEF ComplexMessage
  <2>3. CASE a.error
    <3>1. b = [a EXCEPT !.m = EmptyMessage]
      BY <2>2, <2>3 DEF Built
    <3> QED BY <2>1, <2>3, <3>1 DEF IsBuilt, MessageFields, EmptyMessage
  <2>4. CASE ~a.error
    <3>1. DOMAIN b = {"error", "made", "m"} /\ b.m = a.m
      BY <2>2, <2>4 DEF Built, Finish
    <3> QED BY <2>1, <2>4, <3>1 DEF IsBuilt
  <2> QED BY <2>3, <2>4
<1> QED BY <1>1, <1>2

\* The one last among the keys is the one the property speaks of.
LEMMA LastOfKeys ==
  ASSUME NEW c, IsList(c.input.pairs), NEW mentions, LetBy(c.input.pairs, Len(c.input.pairs), mentions)
  PROVE  \/ mentions = UsersOnly /\ LastMentions(c) = {}
         \/ \E p \in LastMentions(c) : mentions = MentionsOf(p)
<1> PICK pairs : pairs = c.input.pairs
  OBVIOUS
<1> DEFINE MentionKeys == {i \in DOMAIN pairs : pairs[i].key = "allowed_mentions"}
<1>1. Len(pairs) \in Nat /\ DOMAIN pairs = 1 .. Len(pairs)
  BY ListIs
<1>2. LastMentions(c) = {pairs[i] : i \in {k \in MentionKeys : \A j \in MentionKeys : j <= k}}
  BY DEF LastMentions
<1>3. CASE mentions = UsersOnly /\ \A i \in 1 .. Len(pairs) : ~Allows(pairs[i])
  <2>1. MentionKeys = {}
    BY <1>1, <1>3 DEF Allows
  <2>2. LastMentions(c) = {}
    <3> HIDE DEF MentionKeys
    <3> QED BY <1>2, <2>1
  <2> QED BY <1>3, <2>2
<1>4. ASSUME NEW i \in 1 .. Len(pairs), Allows(pairs[i]), mentions = MentionsOf(pairs[i]),
             \A j \in i + 1 .. Len(pairs) : ~Allows(pairs[j])
      PROVE  \E p \in LastMentions(c) : mentions = MentionsOf(p)
  <2>1. i \in MentionKeys
    BY <1>1, <1>4 DEF Allows
  <2>2. ASSUME NEW j \in MentionKeys PROVE j <= i
    <3>1. j \in 1 .. Len(pairs) /\ Allows(pairs[j])
      BY <1>1 DEF Allows
    <3> QED BY <1>1, <1>4, <3>1
  <2>3. pairs[i] \in LastMentions(c)
    <3> HIDE DEF MentionKeys
    <3> QED BY <1>2, <2>1, <2>2
  <2> QED BY <2>3, <1>4
<1> QED BY <1>3, <1>4 DEF LetBy

\* What the argument of a call lets its message ping.
LetByInput(c, mentions) ==
  CASE c.input.as = "text" \/ c.input.as = "embeds" -> mentions = UsersOnly
    [] c.input.as = "data" -> mentions = Nobody
    [] c.input.as = "message" -> \/ mentions = Nobody
                                 \/ mentions = UsersOnly /\ LastMentions(c) = {}
                                 \/ \E p \in LastMentions(c) : mentions = MentionsOf(p)

IsACall(c) ==
  /\ c.fn = "end" => \A m \in c.text.mentions : m \in {Everyone, User(m.id), RoleOf(m.id)}
  /\ c.fn \in {"sendMessage", "sendMessageNoEscape", "editMessage"} =>
       /\ c.input.as \in {"text", "embeds", "message", "data"}
       /\ c.input.as = "message" =>
            /\ IsList(c.input.pairs)
            /\ \A p \in Range(c.input.pairs) : p.shape \in {"nil", "one", "list", "rows"}

\* What parseMessageInput makes of the argument.
LEMMA InputIs ==
  ASSUME NEW c, IsACall(c), c.fn \in {"sendMessage", "sendMessageNoEscape", "editMessage"},
         NEW input \in ParseMessageInput(c.input)
  PROVE  input.error \/ (LetByInput(c, input.m.mentions) /\ (c.input.as # "message" => input.m.reply = ""))
<1> PICK built : built = InputOf(c.input)
  OBVIOUS
<1>1. input = [built EXCEPT !.m.embeds = Valid(@)]
  BY DEF ParseMessageInput
<1>2. IsBuilt(built) => input.error = built.error /\ input.m.mentions = built.m.mentions /\ input.m.reply = built.m.reply
  BY <1>1 DEF IsBuilt, MessageFields
<1>3. CASE c.input.as = "text"
  <2>1. built = Plainly([EmptyMessage EXCEPT !.mentions = UsersOnly, !.content = c.input.text])
    BY <1>3 DEF InputOf
  <2>2. IsBuilt(built) /\ built.m.mentions = UsersOnly /\ built.m.reply = ""
    <3> PICK m : m = [EmptyMessage EXCEPT !.mentions = UsersOnly, !.content = c.input.text]
      OBVIOUS
    <3>1. DOMAIN m = MessageFields /\ m.mentions = UsersOnly /\ m.reply = ""
      BY EmptyIs DEF MessageFields
    <3>2. built = [error |-> FALSE, made |-> made, m |-> m]
      BY <2>1 DEF Plainly
    <3>3. IsBuilt(built)
      BY <3>1, <3>2, BuiltIs
    <3>4. built.m = m
      BY <3>2
    <3> QED BY <3>1, <3>3, <3>4
  <2> QED BY <1>2, <1>3, <2>2 DEF LetByInput
<1>4. CASE c.input.as = "embeds"
  <2>1. built = Plainly([EmptyMessage EXCEPT !.mentions = UsersOnly, !.embeds = ListOf(c.input.embeds)])
    BY <1>4 DEF InputOf
  <2>2. IsBuilt(built) /\ built.m.mentions = UsersOnly /\ built.m.reply = ""
    <3> PICK m : m = [EmptyMessage EXCEPT !.mentions = UsersOnly, !.embeds = ListOf(c.input.embeds)]
      OBVIOUS
    <3>1. DOMAIN m = MessageFields /\ m.mentions = UsersOnly /\ m.reply = ""
      BY EmptyIs DEF MessageFields
    <3>2. built = [error |-> FALSE, made |-> made, m |-> m]
      BY <2>1 DEF Plainly
    <3>3. IsBuilt(built)
      BY <3>1, <3>2, BuiltIs
    <3>4. built.m = m
      BY <3>2
    <3> QED BY <3>1, <3>3, <3>4
  <2> QED BY <1>2, <1>4, <2>2 DEF LetByInput
<1>5. CASE c.input.as = "data"
  <2>1. built = Plainly([EmptyMessage EXCEPT !.form = made[c.input.at].fields])
    BY <1>5 DEF InputOf
  <2>2. IsBuilt(built) /\ built.m.mentions = Nobody /\ built.m.reply = ""
    <3> PICK m : m = [EmptyMessage EXCEPT !.form = made[c.input.at].fields]
      OBVIOUS
    <3>1. DOMAIN m = MessageFields /\ m.mentions = Nobody /\ m.reply = ""
      BY EmptyIs DEF MessageFields
    <3>2. built = [error |-> FALSE, made |-> made, m |-> m]
      BY <2>1 DEF Plainly
    <3>3. IsBuilt(built)
      BY <3>1, <3>2, BuiltIs
    <3>4. built.m = m
      BY <3>2
    <3> QED BY <3>1, <3>3, <3>4
  <2> QED BY <1>2, <1>5, <2>2 DEF LetByInput
<1>6. CASE c.input.as = "message"
  <2>1. built = ComplexMessage(made, c.input.pairs)
    BY <1>6 DEF InputOf
  <2>2. /\ IsList(c.input.pairs)
        /\ \A p \in Range(c.input.pairs) : p.shape \in {"nil", "one", "list", "rows"}
    BY <1>6 DEF IsACall
  <2>3. IsBuilt(built) /\ (built.error \/ LetBy(c.input.pairs, Len(c.input.pairs), built.m.mentions) \/ built.m.mentions = Nobody)
    BY <2>1, <2>2, ComplexMessageIs
  <2>4. built.error \/ LetByInput(c, built.m.mentions)
    BY <1>6, <2>2, <2>3, LastOfKeys DEF LetByInput
  <2> QED BY <1>2, <1>6, <2>3, <2>4
<1> QED BY <1>3, <1>4, <1>5, <1>6 DEF IsACall

\* What the property says of one message.
Permitted(m) ==
  \A ping \in m.pings :
    \/ /\ ping \in m.content.mentions /\ CallAllows(m.call, ping)
       /\ command.mayMention \/ ping.of = "user" \/ (ping.of = "role" /\ ping.id \in Mentionable)
    \/ /\ ping = User(Author) /\ m.call.fn # "end"
       /\ m.call.fn = "sendMessageNoEscape" \/ \E p \in LastMentions(m.call) : p.shape # "nil" /\ p.mentions.replied

\* Who is pinged is mentioned, and one of those whom allowed mentions name; or is replied to.
LEMMA PingIs ==
  ASSUME NEW mentions, NEW allowed, NEW free \in BOOLEAN, NEW replied, NEW ping \in Pings(mentions, allowed, free, replied)
  PROVE  \/ /\ ping \in mentions
            /\ free \/ ping.of = "user" \/ (ping.of = "role" /\ ping.id \in Mentionable)
            /\ \/ ping.of = "everyone" /\ "everyone" \in allowed.parse
               \/ ping.of = "user" /\ ("users" \in allowed.parse \/ ping.id \in allowed.users)
               \/ ping.of = "role" /\ ("roles" \in allowed.parse \/ ping.id \in allowed.roles)
         \/ allowed.replied /\ replied # 0 /\ ping = User(replied)
BY DEF Pings, PingsOf

\* Users only, and nobody.
LEMMA UsersOnlyIs ==
  /\ UsersOnly.parse = {"users"} /\ UsersOnly.users = {} /\ UsersOnly.roles = {} /\ ~UsersOnly.replied
  /\ Nobody.parse = {} /\ Nobody.users = {} /\ Nobody.roles = {} /\ ~Nobody.replied
BY DEF UsersOnly, Nobody

\* What allowed_mentions says: kinds, and of the users and roles it lists the first.
LEMMA MentionsOfIs ==
  ASSUME NEW p
  PROVE  LET a == MentionsOf(p)
         IN  \/ p.shape = "nil" /\ a = Nobody
             \/ /\ p.shape # "nil" /\ a.parse = Range(p.mentions.parse) /\ a.replied = p.mentions.replied
                /\ a.users \subseteq Range(p.mentions.users) /\ a.roles \subseteq Range(p.mentions.roles)
<1>1. ASSUME NEW ids PROVE FirstListed(ids) \subseteq Range(ids)
  BY DEF FirstListed, Range
<1>2. AllowedMentions(p.mentions) =
        [parse |-> Range(p.mentions.parse), users |-> FirstListed(p.mentions.users),
         roles |-> FirstListed(p.mentions.roles), replied |-> p.mentions.replied]
  BY DEF AllowedMentions
<1> PICK v : v = p.mentions
  OBVIOUS
<1>3. /\ AllowedMentions(v).parse = Range(v.parse) /\ AllowedMentions(v).replied = v.replied
      /\ AllowedMentions(v).users = FirstListed(v.users) /\ AllowedMentions(v).roles = FirstListed(v.roles)
  BY <1>2
<1> QED BY <1>1, <1>3 DEF MentionsOf

\* A message that is sent.
LEMMA SentIsPermitted ==
  ASSUME command.mayMention \in BOOLEAN, NEW c, IsACall(c), c.fn \in {"sendMessage", "sendMessageNoEscape"},
         NEW input \in ParseMessageInput(c.input), ~input.error, NEW values
  PROVE  Permitted(Showing(c, values, input.m, PingsOfSend(c, input.m)))
<1> PICK m : m = Showing(c, values, input.m, PingsOfSend(c, input.m))
  OBVIOUS
<1>1. m.call = c /\ m.content = input.m.content /\ m.pings = PingsOfSend(c, input.m)
  BY DEF Showing
<1>2. LetByInput(c, input.m.mentions) /\ (c.input.as # "message" => input.m.reply = "")
  BY InputIs
<1> SUFFICES ASSUME NEW ping \in PingsOfSend(c, input.m)
             PROVE  \/ /\ ping \in input.m.content.mentions /\ CallAllows(c, ping)
                       /\ command.mayMention \/ ping.of = "user" \/ (ping.of = "role" /\ ping.id \in Mentionable)
                    \/ /\ ping = User(Author) /\ c.fn # "end"
                       /\ c.fn = "sendMessageNoEscape" \/ \E p \in LastMentions(c) : p.shape # "nil" /\ p.mentions.replied
  BY <1>1 DEF Permitted
<1> PICK replied : replied = RepliedTo(input.m.reply)
  OBVIOUS
<1>3. replied # 0 => replied = Author /\ input.m.reply = "trigger"
  BY DEF RepliedTo
<1>4. CASE c.fn = "sendMessageNoEscape"
  <2>1. ping \in Pings(input.m.content.mentions, NoEscape, command.mayMention, replied)
    BY <1>4 DEF PingsOfSend
  <2>2. CallAllows(c, ping)
    BY <1>4 DEF CallAllows
  <2> QED BY <1>3, <1>4, <2>1, <2>2, PingIs
<1>5. CASE c.fn = "sendMessage"
  <2> PICK allowed : allowed = input.m.mentions
    OBVIOUS
  <2>1. ping \in Pings(input.m.content.mentions, allowed, command.mayMention, replied)
    BY <1>5 DEF PingsOfSend
  <2>2. LetByInput(c, allowed)
    BY <1>2
  <2>3. allowed # Nobody
    BY <2>1, PingIs, UsersOnlyIs
  <2>4. CASE allowed = UsersOnly
    <3>1. /\ ping \in input.m.content.mentions /\ ping.of = "user"
      BY <2>1, <2>4, PingIs, UsersOnlyIs
    <3>2. c.input.as \in {"text", "embeds"} \/ (c.input.as = "message" /\ LastMentions(c) = {})
             \/ (c.input.as = "message" /\ \E p \in LastMentions(c) : allowed = MentionsOf(p))
      BY <1>5, <2>2, <2>3 DEF LetByInput, IsACall
    <3>3. CASE c.input.as \in {"text", "embeds"} \/ (c.input.as = "message" /\ LastMentions(c) = {})
      <4>1. CallAllows(c, ping)
        BY <1>5, <3>1, <3>3 DEF CallAllows
      <4> QED BY <3>1, <4>1
    <3>4. ASSUME c.input.as = "message", NEW p \in LastMentions(c), allowed = MentionsOf(p)
          PROVE  CallAllows(c, ping)
      <4>1. p.shape # "nil" /\ "users" \in Range(p.mentions.parse)
        BY <2>3, <2>4, <3>4, MentionsOfIs, UsersOnlyIs
      <4> QED BY <1>5, <3>1, <3>4, <4>1 DEF CallAllows
    <3> QED BY <3>1, <3>2, <3>3, <3>4
  <2>5. ASSUME c.input.as = "message", NEW p \in LastMentions(c), allowed = MentionsOf(p)
        PROVE  \/ /\ ping \in input.m.content.mentions /\ CallAllows(c, ping)
                  /\ command.mayMention \/ ping.of = "user" \/ (ping.of = "role" /\ ping.id \in Mentionable)
               \/ ping = User(Author) /\ p.shape # "nil" /\ p.mentions.replied
    <3>1. /\ p.shape # "nil" /\ allowed.parse = Range(p.mentions.parse) /\ allowed.replied = p.mentions.replied
          /\ allowed.users \subseteq Range(p.mentions.users) /\ allowed.roles \subseteq Range(p.mentions.roles)
      BY <2>3, <2>5, MentionsOfIs
    <3>2. CASE allowed.replied /\ replied # 0 /\ ping = User(replied)
      BY <1>3, <3>1, <3>2
    <3>3. CASE /\ ping \in input.m.content.mentions
               /\ command.mayMention \/ ping.of = "user" \/ (ping.of = "role" /\ ping.id \in Mentionable)
               /\ \/ ping.of = "everyone" /\ "everyone" \in allowed.parse
                  \/ ping.of = "user" /\ ("users" \in allowed.parse \/ ping.id \in allowed.users)
                  \/ ping.of = "role" /\ ("roles" \in allowed.parse \/ ping.id \in allowed.roles)
      <4> DEFINE kind == [everyone |-> "everyone", user |-> "users", role |-> "roles"]
      <4>1. /\ ping.of = "everyone" => kind[ping.of] = "everyone"
            /\ ping.of = "user" => kind[ping.of] = "users"
            /\ ping.of = "role" => kind[ping.of] = "roles"
        OBVIOUS
      <4>2. \/ kind[ping.of] \in Range(p.mentions.parse)
            \/ ping.of = "user" /\ ping.id \in Range(p.mentions.users)
            \/ ping.of = "role" /\ ping.id \in Range(p.mentions.roles)
        <5> HIDE DEF kind
        <5> QED BY <3>1, <3>3, <4>1
      <4>3. CallAllows(c, ping)
        <5>1. LastMentions(c) # {}
          BY <2>5
        <5> QED BY <1>5, <2>5, <3>1, <4>2, <5>1 DEF CallAllows
      <4> QED BY <3>3, <4>3
    <3> QED BY <2>1, <3>2, <3>3, PingIs
  <2> QED BY <1>5, <2>2, <2>3, <2>4, <2>5 DEF LetByInput, IsACall
<1> QED BY <1>4, <1>5

\* The response pings users, and whom mentionEveryone and mentionRole named.
LEMMA RespondedIsPermitted ==
  ASSUME command.mayMention \in BOOLEAN, NEW c, IsACall(c), c.fn = "end", NEW values,
         \A m \in mentioned : m = Everyone \/ m = RoleOf(m.id), NEW sent, sent = [EmptyMessage EXCEPT !.content = c.text]
  PROVE  Permitted(Showing(c, values, sent, Pings(c.text.mentions, ResponseMentions(mentioned), command.mayMention, 0)))
<1> PICK allowed : allowed = ResponseMentions(mentioned)
  OBVIOUS
<1> PICK m : m = Showing(c, values, sent, Pings(c.text.mentions, allowed, command.mayMention, 0))
  OBVIOUS
<1>1. sent.content = c.text
  BY EmptyIs DEF MessageFields
<1>2. m.call = c /\ m.content = c.text /\ m.pings = Pings(c.text.mentions, allowed, command.mayMention, 0)
  BY <1>1 DEF Showing
<1>3. /\ allowed.parse = {"users"} \cup (IF Everyone \in mentioned THEN {"everyone"} ELSE {})
      /\ allowed.users = {} /\ ~allowed.replied
      /\ allowed.roles = {x.id : x \in {r \in mentioned : r.of = "role"}}
  BY DEF ResponseMentions, UsersOnly, Nobody
<1> SUFFICES ASSUME NEW ping \in m.pings
             PROVE  /\ ping \in c.text.mentions /\ CallAllows(c, ping)
                    /\ command.mayMention \/ ping.of = "user" \/ (ping.of = "role" /\ ping.id \in Mentionable)
  BY <1>2 DEF Permitted
<1>4. /\ ping \in c.text.mentions
      /\ command.mayMention \/ ping.of = "user" \/ (ping.of = "role" /\ ping.id \in Mentionable)
      /\ \/ ping.of = "everyone" /\ "everyone" \in allowed.parse
         \/ ping.of = "user" /\ ("users" \in allowed.parse \/ ping.id \in allowed.users)
         \/ ping.of = "role" /\ ("roles" \in allowed.parse \/ ping.id \in allowed.roles)
  BY <1>2, <1>3, PingIs
<1>5. ping \in {Everyone, User(ping.id), RoleOf(ping.id)}
  BY <1>4 DEF IsACall
<1>6. ping.of = "user" \/ ping \in mentioned
  <2>1. CASE ping.of = "everyone" /\ "everyone" \in allowed.parse
    <3>1. Everyone \in mentioned
      BY <1>3, <2>1
    <3>2. ping = Everyone
      BY <1>5, <2>1 DEF User, RoleOf
    <3> QED BY <3>1, <3>2
  <2>2. CASE ping.of = "role" /\ ping.id \in allowed.roles
    <3>1. PICK r \in mentioned : r.of = "role" /\ r.id = ping.id
      BY <1>3, <2>2
    <3>2. r = RoleOf(r.id)
      BY <3>1 DEF Everyone
    <3>3. ping = RoleOf(ping.id)
      BY <1>5, <2>2 DEF User, Everyone
    <3> QED BY <3>1, <3>2, <3>3
  <2> QED BY <1>3, <1>4, <2>1, <2>2
<1>7. CallAllows(c, ping)
  BY <1>6 DEF CallAllows
<1> QED BY <1>4, <1>7

\* The calls whose messages ping.
Pinging == {"end", "sendMessage", "sendMessageNoEscape"}

\* What was permitted stays so: whom the response may ping only grows.
LEMMA PermittedStays ==
  ASSUME mentioned \subseteq mentioned', command' = command, NEW m, Permitted(m),
         m.pings = {} \/ (IsACall(m.call) /\ m.call.fn \in Pinging)
  PROVE  Permitted(m)'
<1>1. CASE m.pings = {}
  BY <1>1 DEF Permitted
<1>2. CASE IsACall(m.call) /\ m.call.fn \in Pinging
  <2> PICK c : c = m.call
    OBVIOUS
  <2>1. ASSUME NEW ping, CallAllows(c, ping) PROVE CallAllows(c, ping)'
    <3>1. CASE c.fn = "end"
      BY <2>1, <3>1 DEF CallAllows
    <3>2. CASE c.fn = "sendMessageNoEscape"
      BY <2>1, <3>2 DEF CallAllows
    <3>3. CASE c.fn = "sendMessage"
      <4>1. CASE c.input.as = "data"
        BY <2>1, <3>3, <4>1 DEF CallAllows
      <4>2. CASE c.input.as \in {"text", "embeds"}
        BY <2>1, <3>3, <4>2 DEF CallAllows
      <4>3. CASE c.input.as = "message"
        BY <2>1, <3>3, <4>3 DEF CallAllows
      <4> QED BY <1>2, <3>3, <4>1, <4>2, <4>3 DEF IsACall
    <3> QED BY <1>2, <3>1, <3>2, <3>3 DEF Pinging
  <2> QED BY <2>1 DEF Permitted
<1> QED BY <1>1, <1>2

\* The inductive invariant: a list of permitted messages, and whom the response may ping
\* are everyone and roles.
PingInv ==
  /\ command.kind \in DOMAIN ShownCalls /\ command.mayMention \in BOOLEAN /\ called \in Nat
  /\ \A m \in mentioned : m = Everyone \/ m = RoleOf(m.id)
  /\ IsList(shown)
  /\ \A m \in Range(shown) : Permitted(m) /\ (m.pings = {} \/ (IsACall(m.call) /\ m.call.fn \in Pinging))

\* It holds before the first call.
LEMMA PingInvInit == ShownInit => PingInv
BY DEF ShownInit, PingInv, IsList, Range

\* A call of the command is one its assumption speaks of.
LEMMA CallsAre ==
  ASSUME PingInv, called < Len(Calls), NEW c \in Calls[called + 1]
  PROVE  IsACall(c) /\ Len(Calls) \in Nat
<1> PICK calls : calls = ShownCalls[command.kind]
  OBVIOUS
<1>1. calls = Calls /\ command.kind \in DOMAIN ShownCalls /\ called \in Nat
  BY DEF Calls, PingInv
<1>2. IsList(calls)
  BY <1>1, CallsAssumption
<1>3. Len(calls) \in Nat /\ \A i \in 1 .. Len(calls) : calls[i] \in Range(calls)
  BY <1>2, ListIs
<1>4. called + 1 \in 1 .. Len(calls)
  BY <1>1, <1>3
<1>5. c \in UNION Range(calls)
  BY <1>1, <1>3, <1>4
<1> QED BY <1>1, <1>3, <1>5, CallsAssumption DEF IsACall

\* One more message, or one in the place of another.
LEMMA OneMore ==
  ASSUME NEW list, IsList(list), NEW m
  PROVE  IsList(Append(list, m)) /\ Range(Append(list, m)) \subseteq Range(list) \cup {m}
<1>1. list \in Seq(Range(list) \cup {m}) /\ Len(list) \in Nat /\ DOMAIN list = 1 .. Len(list)
  <2>1. list \in Seq(Range(list))
    BY DEF IsList
  <2> QED BY <2>1, ListIs
<1> PICK more : more = Append(list, m)
  OBVIOUS
<1>2. /\ more \in Seq(Range(list) \cup {m}) /\ DOMAIN more = 1 .. Len(list) + 1
      /\ \A n \in 1 .. Len(list) + 1 : more[n] = IF n = Len(list) + 1 THEN m ELSE list[n]
  BY <1>1
<1>3. IsList(more)
  BY <1>2, ListIn
<1>4. ASSUME NEW x \in Range(more) PROVE x \in Range(list) \cup {m}
  <2>1. PICK n \in DOMAIN more : x = more[n]
    BY DEF Range
  <2>2. CASE n = Len(list) + 1
    BY <1>2, <2>1, <2>2
  <2>3. CASE n # Len(list) + 1
    <3>1. n \in 1 .. Len(list) /\ x = list[n]
      BY <1>1, <1>2, <2>1, <2>3
    <3> QED BY <3>1, ListIs
  <2> QED BY <2>2, <2>3
<1> QED BY <1>3, <1>4

\* The same of a message that is edited.
LEMMA OneReplaced ==
  ASSUME NEW list, IsList(list), NEW m, NEW n \in DOMAIN list
  PROVE  IsList([list EXCEPT ![n] = m]) /\ Range([list EXCEPT ![n] = m]) \subseteq Range(list) \cup {m}
<1>1. list \in Seq(Range(list) \cup {m}) /\ Len(list) \in Nat /\ DOMAIN list = 1 .. Len(list)
  <2>1. list \in Seq(Range(list))
    BY DEF IsList
  <2> QED BY <2>1, ListIs
<1> PICK new : new = [list EXCEPT ![n] = m]
  OBVIOUS
<1>2. /\ DOMAIN new = 1 .. Len(list) /\ \A k \in 1 .. Len(list) : new[k] = IF k = n THEN m ELSE list[k]
  BY <1>1
<1>3. new \in [1 .. Len(list) -> Range(list) \cup {m}]
  <2>1. new = [k \in 1 .. Len(list) |-> new[k]]
    BY <1>1, <1>2
  <2>2. \A k \in 1 .. Len(list) : list[k] \in Range(list)
    BY ListIs
  <2>3. \A k \in 1 .. Len(list) : new[k] \in Range(list) \cup {m}
    BY <1>2, <2>2
  <2> QED BY <2>1, <2>3
<1>4. IsList(new)
  <2> PICK S : S = Range(list) \cup {m}
    OBVIOUS
  <2>1. new \in [1 .. Len(list) -> S]
    BY <1>3
  <2>2. new \in Seq(S)
    BY <1>1, <2>1
  <2> QED BY <2>2, ListIn
<1>5. Range(new) \subseteq Range(list) \cup {m}
  BY <1>3 DEF Range
<1> QED BY <1>4, <1>5

\* What a step shows: one message, in the place of another or not, or none.
ShowsAtMost(m) ==
  \/ shown' = shown
  \/ shown' = Append(shown, m)
  \/ \E n \in DOMAIN shown : shown' = [shown EXCEPT ![n] = m]

\* Showing a permitted message keeps it.
LEMMA PingInvShows ==
  ASSUME PingInv, mentioned \subseteq mentioned', \A x \in mentioned' : x = Everyone \/ x = RoleOf(x.id),
         command' = command, called' \in Nat,
         NEW m, Permitted(m), m.pings = {} \/ (IsACall(m.call) /\ m.call.fn \in Pinging), ShowsAtMost(m)
  PROVE  PingInv'
<1>1. IsList(shown) /\ command.kind \in DOMAIN ShownCalls /\ command.mayMention \in BOOLEAN
  BY DEF PingInv
<1>2. /\ IsList(shown') /\ Range(shown') \subseteq Range(shown) \cup {m}
  <2>1. CASE shown' = shown
    BY <1>1, <2>1
  <2>2. CASE shown' = Append(shown, m)
    BY <1>1, <2>2, OneMore
  <2>3. ASSUME NEW n \in DOMAIN shown, shown' = [shown EXCEPT ![n] = m]
        PROVE  IsList(shown') /\ Range(shown') \subseteq Range(shown) \cup {m}
    BY <1>1, <2>3, OneReplaced
  <2> QED BY <2>1, <2>2, <2>3 DEF ShowsAtMost
<1>3. ASSUME NEW x \in Range(shown')
      PROVE  Permitted(x)' /\ (x.pings = {} \/ (IsACall(x.call) /\ x.call.fn \in Pinging))
  <2>1. Permitted(x) /\ (x.pings = {} \/ (IsACall(x.call) /\ x.call.fn \in Pinging))
    BY <1>2, <1>3 DEF PingInv
  <2> QED BY <2>1, PermittedStays
<1>4. IsList(shown)' /\ Range(shown)' = Range(shown')
  BY <1>2 DEF IsList, Range
<1>5. \A x \in Range(shown)' : Permitted(x)' /\ (x.pings = {} \/ (IsACall(x.call) /\ x.call.fn \in Pinging))
  BY <1>3, <1>4
<1>6. /\ (command.kind \in DOMAIN ShownCalls)' /\ (command.mayMention \in BOOLEAN)'
      /\ \A x \in mentioned' : x = Everyone \/ x = RoleOf(x.id)
  BY <1>1
<1> QED BY <1>4, <1>5, <1>6 DEF PingInv, Pinging, IsACall

\* A step that leaves the messages and the response's mentions alone keeps it.
LEMMA PingInvKept ==
  ASSUME PingInv, mentioned \subseteq mentioned', \A x \in mentioned' : x = Everyone \/ x = RoleOf(x.id),
         command' = command, called' \in Nat, shown' = shown
  PROVE  PingInv'
<1> PICK m : m = [pings |-> {}]
  OBVIOUS
<1>1. m.pings = {} /\ Permitted(m) /\ ShowsAtMost(m)
  BY DEF Permitted, ShowsAtMost
<1> QED BY <1>1, PingInvShows

\* Each call keeps it.
LEMMA PingInvNext ==
  ASSUME PingInv, [ShownNext]_shownVars
  PROVE  PingInv'
<1>0. /\ IsList(shown) /\ called \in Nat /\ command.mayMention \in BOOLEAN
      /\ \A x \in mentioned : x = Everyone \/ x = RoleOf(x.id)
  BY DEF PingInv
<1>1. CASE UNCHANGED shownVars
  <2>1. mentioned' = mentioned /\ command' = command /\ called' = called /\ shown' = shown
    BY <1>1 DEF shownVars
  <2> QED BY <1>0, <2>1, PingInvKept
<1>2. CASE ShownNext
  <2>1. called < Len(Calls) /\ command' = command
    BY <1>2 DEF ShownNext
  <2>2. PICK c \in Calls[called + 1] :
          /\ called' = IF c.fn = "end" THEN Len(Calls) ELSE called + 1
          /\ \/ SendMessage(c) \/ EditMessage(c) \/ GetMessage(c) \/ LetPing(c)
             \/ c.fn \in Makers /\ MakeValue(c)
             \/ SendModal(c) \/ Respond(c)
    BY <1>2 DEF ShownNext
  <2>3. IsACall(c) /\ called' \in Nat
    BY <1>0, <2>1, <2>2, CallsAre
  <2>4. CASE SendMessage(c)
    <3>1. mentioned' = mentioned /\ c.fn \in {"sendMessage", "sendMessageNoEscape"}
      BY <2>4 DEF SendMessage
    <3>2. PICK input \in ParseMessageInput(c.input) :
            shown' = IF ~input.error /\ Takes(input.made, input.m)
                     THEN Append(shown, Showing(c, input.made, input.m, PingsOfSend(c, input.m))) ELSE shown
      BY <2>4 DEF SendMessage
    <3>3. CASE ~input.error /\ Takes(input.made, input.m)
      <4> PICK m : m = Showing(c, input.made, input.m, PingsOfSend(c, input.m))
        OBVIOUS
      <4>1. shown' = Append(shown, m)
        BY <3>2, <3>3
      <4>2. Permitted(m)
        BY <1>0, <2>3, <3>1, <3>3, SentIsPermitted
      <4>3. m.call = c /\ c.fn \in Pinging
        BY <3>1 DEF Showing, Pinging
      <4> QED BY <1>0, <2>1, <2>3, <3>1, <4>1, <4>2, <4>3, PingInvShows DEF ShowsAtMost
    <3>4. CASE ~(~input.error /\ Takes(input.made, input.m))
      BY <1>0, <2>1, <2>3, <3>1, <3>2, <3>4, PingInvKept
    <3> QED BY <3>3, <3>4
  <2>5. CASE EditMessage(c)
    <3>1. mentioned' = mentioned
      BY <2>5 DEF EditMessage
    <3>2. PICK input \in ParseMessageInput(c.input) :
            IF input.error \/ c.message \notin DOMAIN shown THEN UNCHANGED shown
            ELSE \E m \in {EditedTo(shown[c.message], input.m)} :
                   shown' = IF Takes(input.made, m)
                            THEN [shown EXCEPT ![c.message] = Showing(c, input.made, m, {})] ELSE shown
      BY <2>5 DEF EditMessage
    <3>3. CASE input.error \/ c.message \notin DOMAIN shown
      BY <1>0, <2>1, <2>3, <3>1, <3>2, <3>3, PingInvKept
    <3>4. CASE ~(input.error \/ c.message \notin DOMAIN shown)
      <4>1. PICK m : shown' = IF Takes(input.made, m)
                              THEN [shown EXCEPT ![c.message] = Showing(c, input.made, m, {})] ELSE shown
        BY <3>2, <3>4
      <4> PICK s : s = Showing(c, input.made, m, {})
        OBVIOUS
      <4>2. s.pings = {}
        BY DEF Showing
      <4>3. Permitted(s)
        BY <4>2 DEF Permitted
      <4>4. ShowsAtMost(s)
        BY <3>4, <4>1 DEF ShowsAtMost
      <4> QED BY <1>0, <2>1, <2>3, <3>1, <4>2, <4>3, <4>4, PingInvShows
    <3> QED BY <3>3, <3>4
  <2>6. CASE GetMessage(c) \/ (c.fn \in Makers /\ MakeValue(c)) \/ SendModal(c)
    <3>1. shown' = shown /\ mentioned' = mentioned
      <4>1. CASE GetMessage(c)
        BY <4>1 DEF GetMessage
      <4>2. CASE MakeValue(c)
        BY <4>2 DEF MakeValue
      <4>3. CASE SendModal(c)
        BY <4>3 DEF SendModal
      <4> QED BY <2>6, <4>1, <4>2, <4>3
    <3> QED BY <1>0, <2>1, <2>3, <3>1, PingInvKept
  <2>7. CASE LetPing(c)
    <3> PICK role : role = FindRole(c.role, c.accept)
      OBVIOUS
    <3>1. /\ shown' = shown
          /\ mentioned' = mentioned \cup (IF c.fn = "mentionEveryone" THEN {Everyone}
                                          ELSE IF role = 0 THEN {} ELSE {RoleOf(role)})
      BY <2>7 DEF LetPing
    <3>2. RoleOf(role) = RoleOf(RoleOf(role).id)
      BY DEF RoleOf
    <3>3. mentioned \subseteq mentioned' /\ \A x \in mentioned' : x = Everyone \/ x = RoleOf(x.id)
      BY <1>0, <3>1, <3>2
    <3> QED BY <1>0, <2>1, <2>3, <3>1, <3>3, PingInvKept
  <2>8. CASE Respond(c)
    <3> PICK sent : sent = [EmptyMessage EXCEPT !.content = c.text]
      OBVIOUS
    <3> PICK m : m = Showing(c, made, sent, Pings(c.text.mentions, ResponseMentions(mentioned), command.mayMention, 0))
      OBVIOUS
    <3>1. mentioned' = mentioned /\ c.fn = "end" /\ (shown' = Append(shown, m) \/ shown' = shown)
      BY <2>8 DEF Respond
    <3>2. Permitted(m)
      BY <1>0, <2>3, <3>1, RespondedIsPermitted
    <3>3. m.call = c /\ c.fn \in Pinging
      BY <3>1 DEF Showing, Pinging
    <3> QED BY <1>0, <2>1, <2>3, <3>1, <3>2, <3>3, PingInvShows DEF ShowsAtMost
  <2> QED BY <2>2, <2>4, <2>5, <2>6, <2>7, <2>8
<1> QED BY <1>1, <1>2

\* It says what the property says.
LEMMA PingInvSays == PingInv => PingsOnlyTheAllowed
<1> SUFFICES ASSUME PingInv, NEW n \in DOMAIN shown PROVE Permitted(shown[n])
  BY DEF PingsOnlyTheAllowed, Permitted
<1>1. shown[n] \in Range(shown)
  BY DEF Range
<1> QED BY <1>1 DEF PingInv

\* Whatever a command builds, sends and edits, with whatever limits and roles, no message
\* of it pings anybody its author did not let it ping.
THEOREM PingsWhomItMay == ShownSpec => []PingsOnlyTheAllowed
<1>1. ShownInit => PingInv
  BY PingInvInit
<1>2. PingInv /\ [ShownNext]_shownVars => PingInv'
  BY PingInvNext
<1>3. PingInv => PingsOnlyTheAllowed
  BY PingInvSays
<1> QED BY <1>1, <1>2, <1>3, PTL DEF ShownSpec

=============================================================================
