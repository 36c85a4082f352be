---------------------------- MODULE MockDBProofs ----------------------------
(* What holds of the database for any users, keys, entries and numbers.    *)
EXTENDS MockDB, FiniteSetTheorems, WellFoundedInduction, TLAPS

-----------------------------------------------------------------------------
(* Numbers.                                                                *)

(* The sum of two numbers is one. *)
LEMMA PlusNumber ==
  ASSUME NEW a \in ValueNum, NEW b \in ValueNum
  PROVE  Plus(a, b) \in ValueNum
BY DEF ValueNum, Plus

(* What is written of a value is a number, and a mark or a text.           *)
Values == Amounts \cup Texts
RawOf(v) == IF v \in Texts THEN v ELSE Number

LEMMA WrittenIs ==
  ASSUME NEW v \in Values
  PROVE  /\ ToFloat64(v) \in ValueNum
         /\ RawOf(v) \in Texts \cup {Number}
         /\ v \in Amounts => v \notin Texts /\ ToFloat64(v) = v /\ RawOf(v) = Number
BY TextsAssumption, NumbersAssumption DEF ToFloat64, Values, RawOf

(* pgCompare is a strict weak order in which only equal numbers tie. *)
LEMMA BelowOrders ==
  ASSUME NEW a \in ValueNum, NEW b \in ValueNum, NEW c \in ValueNum
  PROVE  /\ ~Below(a, a)
         /\ a # b => Below(a, b) \/ Below(b, a)
         /\ ~(Below(a, b) /\ Below(b, a))
         /\ Below(a, b) /\ Below(b, c) => Below(a, c)
BY NaNAssumption DEF ValueNum, Below

(* A last second is a second, or Never. *)
LEMMA DeadlineSecond ==
  ASSUME now \in Nat \ {0}, NEW ttl \in Int
  PROVE  Deadline(ttl) \in Nat
BY DEF Deadline, Never

-----------------------------------------------------------------------------
(* Types.                                                                  *)

(* A row that is stored is a row, and a row is no marker. *)
LEMMA StoredRow ==
  ASSUME TypeOK, NEW e \in Stored
  PROVE  /\ e \in Entries /\ rows[e] \in Row
         /\ rows[e].id \in Nat /\ rows[e].num \in ValueNum /\ rows[e].expires \in Nat
         /\ rows[e].raw \in Texts \cup {Number}
BY DEF TypeOK, Stored, Row

LEMMA RowIsNoMarker == \A row \in Row : row # NoRow
BY MarkersAssumption DEF Row

LEMMA SetTyped ==
  ASSUME TypeOK, NEW e \in Entries, NEW v \in Values, NEW ttl \in Ttls,
         SetWithExpiry(e, v, ttl)
  PROVE  TypeOK'
<1>1. ToFloat64(v) \in ValueNum /\ RawOf(v) \in Texts \cup {Number} /\ ttl \in Int
  BY WrittenIs, NumbersAssumption
<1>2. Deadline(ttl) \in Nat
  BY <1>1, DeadlineSecond DEF TypeOK
<1>3. (IF rows[e] = NoRow THEN nextID ELSE rows[e].id) \in Nat
  BY StoredRow DEF TypeOK, Stored
<1>4. rows' \in [Entries -> Row \cup {NoRow}]
  BY <1>1, <1>2, <1>3 DEF TypeOK, SetWithExpiry, Write, Row, RawOf
<1> QED
  BY <1>4 DEF TypeOK, SetWithExpiry

LEMMA IncrTyped ==
  ASSUME TypeOK, NEW e \in Entries, NEW v \in Amounts, Incr(e, v)
  PROVE  TypeOK'
<1>1. v \in ValueNum
  BY NumbersAssumption
<1>2. CASE IncrNew(e, v)
  <2>1. [id |-> nextID, raw |-> Number, num |-> v, expires |-> Never] \in Row
    BY <1>1 DEF TypeOK, Row, Never
  <2> QED
    BY <1>2, <2>1 DEF TypeOK, IncrNew, Write
<1>3. CASE IncrStored(e, v)
  <2>1. e \in Stored /\ rows[e] \in Row
    BY <1>3, StoredRow DEF IncrStored
  <2>2. Plus(rows[e].num, v) \in ValueNum
    BY <1>1, <2>1, PlusNumber DEF Row
  <2>3. /\ [rows[e] EXCEPT !.num = v, !.expires = Never] \in Row
        /\ [rows[e] EXCEPT !.num = Plus(@, v)] \in Row
    BY <1>1, <2>1, <2>2 DEF Row, Never
  <2> QED
    BY <1>3, <2>3 DEF TypeOK, IncrStored, Write
<1> QED
  BY <1>2, <1>3 DEF Incr

LEMMA DeleteTyped ==
  ASSUME TypeOK, NEW S, Delete(S)
  PROVE  TypeOK'
BY DEF TypeOK, Delete

(* Every step is a write of one entry, a delete of some, or time.          *)
LEMMA Steps ==
  ASSUME Next
  PROVE  \/ \E e \in Entries, v \in Values, ttl \in Ttls : SetWithExpiry(e, v, ttl)
         \/ \E e \in Entries, v \in Amounts : Incr(e, v)
         \/ \E S : Delete(S)
         \/ Tick
BY DEF Next, Del, DelByID, DelMultiple, Values

(* The state has its type (internal/state/db.go MockDB).                   *)
THEOREM TypeCorrect == Spec => []TypeOK
<1>1. Init => TypeOK
  BY DEF Init, TypeOK
<1>2. TypeOK /\ [Next]_vars => TypeOK'
  <2> SUFFICES ASSUME TypeOK, [Next]_vars PROVE TypeOK'
    OBVIOUS
  <2>1. CASE \E e \in Entries, v \in Values, ttl \in Ttls : SetWithExpiry(e, v, ttl)
    BY <2>1, SetTyped
  <2>2. CASE \E e \in Entries, v \in Amounts : Incr(e, v)
    BY <2>2, IncrTyped
  <2>3. CASE \E S : Delete(S)
    BY <2>3, DeleteTyped
  <2>4. CASE Tick
    BY <2>4 DEF TypeOK, Tick
  <2>5. CASE UNCHANGED vars
    BY <2>5 DEF TypeOK, vars
  <2> QED
    BY <2>1, <2>2, <2>3, <2>4, <2>5, Steps
<1> QED
  BY <1>1, <1>2, PTL DEF Spec

-----------------------------------------------------------------------------
(* Ids.  A write either keeps the entry's id or takes nextID, which no     *)
(* stored entry has.                                                       *)
KeepsId(e)  == e \in Stored /\ nextID' = nextID /\ rows'[e].id = rows[e].id
TakesId(e)  == e \notin Stored /\ nextID' = nextID + 1 /\ rows'[e].id = nextID
WritesOne(e) ==
  /\ rows'[e] # NoRow
  /\ \A f \in Entries : f # e => rows'[f] = rows[f]
  /\ KeepsId(e) \/ TakesId(e)

LEMMA SetWritesOne ==
  ASSUME TypeOK, NEW e \in Entries, NEW v \in Values, NEW ttl \in Ttls,
         SetWithExpiry(e, v, ttl)
  PROVE  WritesOne(e)
<1> DEFINE row == [id |-> IF rows[e] = NoRow THEN nextID ELSE rows[e].id,
                   raw |-> RawOf(v), num |-> ToFloat64(v), expires |-> Deadline(ttl)]
<1>1. row \in Row
  <2>1. ToFloat64(v) \in ValueNum /\ RawOf(v) \in Texts \cup {Number} /\ ttl \in Int
    BY WrittenIs, NumbersAssumption
  <2>2. Deadline(ttl) \in Nat
    BY <2>1, DeadlineSecond DEF TypeOK
  <2>3. (IF rows[e] = NoRow THEN nextID ELSE rows[e].id) \in Nat
    BY StoredRow DEF TypeOK, Stored
  <2> QED
    BY <2>1, <2>2, <2>3 DEF Row
<1>2. rows'[e] = row /\ \A f \in Entries : f # e => rows'[f] = rows[f]
  BY DEF SetWithExpiry, Write, TypeOK, RawOf
<1>3. row # NoRow
  BY <1>1, RowIsNoMarker
<1>4. KeepsId(e) \/ TakesId(e)
  BY <1>2 DEF SetWithExpiry, KeepsId, TakesId, Stored
<1> QED
  BY <1>2, <1>3, <1>4 DEF WritesOne

LEMMA IncrWritesOne ==
  ASSUME TypeOK, NEW e \in Entries, NEW v \in Amounts, Incr(e, v)
  PROVE  WritesOne(e)
<1>1. rows'[e] # NoRow
  <2>1. CASE IncrNew(e, v)
    <3>1. rows'[e] = [id |-> nextID, raw |-> Number, num |-> v, expires |-> Never]
      BY <2>1 DEF IncrNew, Write, TypeOK
    <3>2. rows'[e] \in Row
      BY <3>1, NumbersAssumption DEF TypeOK, Row, Never
    <3> QED
      BY <3>2, RowIsNoMarker
  <2>2. CASE IncrStored(e, v)
    <3>1. rows[e] \in Row
      BY <2>2, StoredRow DEF IncrStored
    <3>2. Plus(rows[e].num, v) \in ValueNum /\ v \in ValueNum
      BY <3>1, PlusNumber, NumbersAssumption DEF Row
    <3>3. rows'[e] \in Row
      BY <2>2, <3>1, <3>2 DEF IncrStored, Write, TypeOK, Row, Never
    <3> QED
      BY <3>3, RowIsNoMarker
  <2> QED
    BY <2>1, <2>2 DEF Incr
<1>2. \A f \in Entries : f # e => rows'[f] = rows[f]
  BY DEF Incr, IncrNew, IncrStored, Write, TypeOK
<1>3. CASE IncrNew(e, v)
  BY <1>1, <1>2, <1>3 DEF IncrNew, Write, TypeOK, WritesOne, TakesId, Stored
<1>4. CASE IncrStored(e, v)
  <2>1. e \in Stored /\ rows[e] \in Row
    BY <1>4, StoredRow DEF IncrStored
  <2>2. rows'[e].id = rows[e].id
    BY <1>4, <2>1 DEF IncrStored, Write, TypeOK, Row
  <2> QED
    BY <1>1, <1>2, <1>4, <2>1, <2>2 DEF IncrStored, WritesOne, KeepsId
<1> QED
  BY <1>3, <1>4 DEF Incr

LEMMA WritingOneKeepsIds ==
  ASSUME TypeOK, IdsUnique, NEW e \in Entries, WritesOne(e)
  PROVE  IdsUnique'
<1>1. Stored' = Stored \cup {e}
  BY DEF WritesOne, Stored
<1>2. \A f \in Stored : f # e => rows'[f] = rows[f]
  BY DEF WritesOne, Stored
<1>3. \A f \in Stored : rows[f].id < nextID /\ rows[f].id \in Nat
  BY StoredRow DEF IdsUnique
<1>4. nextID \in Nat
  BY DEF TypeOK
<1>5. CASE KeepsId(e)
  BY <1>1, <1>2, <1>3, <1>4, <1>5 DEF KeepsId, IdsUnique
<1>6. CASE TakesId(e)
  BY <1>1, <1>2, <1>3, <1>4, <1>6 DEF TakesId, IdsUnique
<1> QED
  BY <1>5, <1>6 DEF WritesOne

(* Two entries never have one id, deleted and expired rows or not          *)
(* (db.go's nextID).                                                       *)
THEOREM IdsStayUnique == Spec => []IdsUnique
<1>1. Init => IdsUnique
  BY DEF Init, IdsUnique, Stored
<1>2. TypeOK /\ IdsUnique /\ [Next]_vars => IdsUnique'
  <2> SUFFICES ASSUME TypeOK, IdsUnique, [Next]_vars PROVE IdsUnique'
    OBVIOUS
  <2>1. CASE \E e \in Entries, v \in Values, ttl \in Ttls : SetWithExpiry(e, v, ttl)
    BY <2>1, SetWritesOne, WritingOneKeepsIds
  <2>2. CASE \E e \in Entries, v \in Amounts : Incr(e, v)
    BY <2>2, IncrWritesOne, WritingOneKeepsIds
  <2>3. CASE \E S : Delete(S)
    BY <2>3 DEF Delete, IdsUnique, Stored
  <2>4. CASE Tick
    BY <2>4 DEF Tick, IdsUnique, Stored
  <2>5. CASE UNCHANGED vars
    BY <2>5 DEF vars, IdsUnique, Stored
  <2> QED
    BY <2>1, <2>2, <2>3, <2>4, <2>5, Steps
<1> QED
  BY <1>1, <1>2, TypeCorrect, PTL DEF Spec

LEMMA TypedIsOrdered == TypeOK /\ IdsUnique => OrderIsTotal
<1> SUFFICES ASSUME TypeOK, IdsUnique,
                    NEW e \in Stored, NEW f \in Stored, NEW g \in Stored
             PROVE  /\ ~Ascends(e, e)
                    /\ e # f => Ascends(e, f) \/ Ascends(f, e)
                    /\ Ascends(e, f) /\ Ascends(f, g) => Ascends(e, g)
  BY DEF OrderIsTotal
<1> DEFINE a == rows[e].num
           b == rows[f].num
           c == rows[g].num
<1>1. a \in ValueNum /\ b \in ValueNum /\ c \in ValueNum
  BY StoredRow
<1>2. rows[e].id \in Nat /\ rows[f].id \in Nat /\ rows[g].id \in Nat
  BY StoredRow
<1>3. ~Ascends(e, e)
  BY <1>1, <1>2, BelowOrders DEF Ascends
<1>4. e # f => Ascends(e, f) \/ Ascends(f, e)
  <2>1. e # f => rows[e].id < rows[f].id \/ rows[f].id < rows[e].id
    BY <1>2 DEF IdsUnique
  <2> QED
    BY <2>1, <1>1, BelowOrders DEF Ascends
<1>5. Ascends(e, f) /\ Ascends(f, g) => Ascends(e, g)
  <2> SUFFICES ASSUME Ascends(e, f), Ascends(f, g) PROVE Ascends(e, g)
    OBVIOUS
  <2>1. CASE Below(a, b) /\ Below(b, c)
    BY <1>1, <2>1, BelowOrders DEF Ascends
  <2>2. CASE Below(a, b) /\ b = c
    BY <2>2 DEF Ascends
  <2>3. CASE a = b /\ Below(b, c)
    BY <2>3 DEF Ascends
  <2>4. CASE a = b /\ b = c
    <3>1. rows[e].id < rows[f].id /\ rows[f].id < rows[g].id
      BY <2>4, <1>1, BelowOrders DEF Ascends
    <3>2. ~Below(c, a)
      BY <2>4, <1>1, BelowOrders
    <3> QED
      BY <3>1, <3>2, <1>2 DEF Ascends
  <2>5. (Below(a, b) \/ a = b) /\ (Below(b, c) \/ b = c)
    BY <1>1, BelowOrders DEF Ascends
  <2> QED
    BY <2>1, <2>2, <2>3, <2>4, <2>5
<1> QED
  BY <1>3, <1>4, <1>5

(* The lists' order is total, whatever the numbers (db.go sortByValueNum   *)
(* and pgCompare): a consequence of unique ids.                            *)
THEOREM ListsAreOrdered == Spec => []OrderIsTotal
<1> QED
  BY TypedIsOrdered, TypeCorrect, IdsStayUnique, PTL

-----------------------------------------------------------------------------
(* The refinement.  What is seen of an entry: its value, its count and its *)
(* last second; and its raw value, which outlives them.                    *)
Seen    == [e \in Entries |-> Get(e)]
Counted == [e \in Entries |-> IF e \in Live THEN rows[e].num ELSE NoRow]
Until   == [e \in Entries |-> IF e \in Live THEN rows[e].expires ELSE Never]
Kept    == [e \in Entries |-> IF e \in Stored THEN rows[e].raw ELSE NoRow]

LEMMA ReadIsNoMarker ==
  ASSUME TypeOK, NEW e \in Entries
  PROVE  /\ Get(e) = NoRow <=> e \notin Live
         /\ Counted[e] = NoRow <=> e \notin Live
         /\ Kept[e] = NoRow <=> e \notin Stored
         /\ Kept[e] \in Texts <=> e \in Stored /\ rows[e].raw # Number
BY StoredRow, MarkersAssumption DEF Get, View, Counted, Kept, Live

(* A write of one entry shows at that entry only. *)
LEMMA WriteSeen ==
  ASSUME TypeOK, TypeOK', NEW e \in Entries, NEW raw, NEW num, NEW expires, now' = now,
         rows'[e] # NoRow,
         rows'[e].raw = raw, rows'[e].num = num, rows'[e].expires = expires,
         expires = Never \/ ~(now > expires),
         \A f \in Entries : f # e => rows'[f] = rows[f]
  PROVE  /\ Seen' = [Seen EXCEPT ![e] = IF raw = Number THEN num ELSE raw]
         /\ Counted' = [Counted EXCEPT ![e] = num]
         /\ Until' = [Until EXCEPT ![e] = expires]
         /\ Kept' = [Kept EXCEPT ![e] = raw]
<1>1. e \in Live' /\ e \in Stored'
  BY DEF Live, Stored, Expired
<1>2. \A f \in Entries : f # e => (f \in Live' <=> f \in Live) /\ (f \in Stored' <=> f \in Stored)
  BY DEF Live, Stored, Expired
<1>3. \A f \in Entries : Seen'[f] = IF f = e THEN (IF raw = Number THEN num ELSE raw) ELSE Seen[f]
  BY <1>1, <1>2 DEF Seen, Get, View
<1>4. \A f \in Entries : Until'[f] = IF f = e THEN expires ELSE Until[f]
  BY <1>1, <1>2 DEF Until
<1>5. \A f \in Entries : Counted'[f] = IF f = e THEN num ELSE Counted[f]
  BY <1>1, <1>2 DEF Counted
<1>6. \A f \in Entries : Kept'[f] = IF f = e THEN raw ELSE Kept[f]
  BY <1>1, <1>2 DEF Kept
<1> QED
  BY <1>3, <1>4, <1>5, <1>6 DEF Seen, Until, Counted, Kept

LEMMA SetPuts ==
  ASSUME TypeOK, TypeOK', NEW e \in Entries, NEW v \in Values, NEW ttl \in Ttls,
         SetWithExpiry(e, v, ttl)
  PROVE  Store!Put(e, v, ttl)
<1>1. /\ rows'[e].raw = RawOf(v)
      /\ rows'[e].num = ToFloat64(v) /\ rows'[e].expires = Deadline(ttl)
      /\ \A f \in Entries : f # e => rows'[f] = rows[f]
      /\ now' = now
  BY DEF SetWithExpiry, Write, TypeOK, RawOf
<1>2. rows'[e] # NoRow
  BY SetWritesOne DEF WritesOne
<1>3. Deadline(ttl) = Never \/ ~(now > Deadline(ttl))
  BY NumbersAssumption DEF Deadline, TypeOK
<1>4. /\ Seen' = [Seen EXCEPT ![e] = IF RawOf(v) = Number THEN ToFloat64(v) ELSE RawOf(v)]
      /\ Counted' = [Counted EXCEPT ![e] = ToFloat64(v)]
      /\ Until' = [Until EXCEPT ![e] = Deadline(ttl)]
      /\ Kept' = [Kept EXCEPT ![e] = RawOf(v)]
  BY <1>1, <1>2, <1>3, WriteSeen
<1>5. (IF RawOf(v) = Number THEN ToFloat64(v) ELSE RawOf(v)) = v
  BY MarkersAssumption DEF RawOf, ToFloat64
<1> QED
  BY <1>1, <1>4, <1>5 DEF Store!Put, Store!ToFloat64, ToFloat64, RawOf, Seen, Counted, Until, Kept, Deadline, Never

(* What is left of an entry by dbIncr: its raw value; and its last second, *)
(* if it has not passed.                                                   *)
LEMMA IncrLeaves ==
  ASSUME TypeOK, NEW e \in Entries, NEW v \in Amounts, Incr(e, v)
  PROVE  /\ rows'[e].raw = IF e \in Stored THEN rows[e].raw ELSE Number
         /\ rows'[e].num = IF e \in Live THEN Plus(rows[e].num, v) ELSE v
         /\ rows'[e].expires = IF e \in Live THEN rows[e].expires ELSE Never
<1>1. CASE e \in Stored
  <2>1. rows[e] \in Row /\ rows[e] # NoRow /\ (e \in Live <=> ~Expired(e))
    BY <1>1, StoredRow DEF Live, Stored
  <2>2. IncrStored(e, v)
    BY <2>1 DEF Incr, IncrNew
  <2>3. rows'[e] = IF Expired(e) THEN [rows[e] EXCEPT !.num = v, !.expires = Never]
                                 ELSE [rows[e] EXCEPT !.num = Plus(@, v)]
    BY <2>2 DEF IncrStored, Write, TypeOK
  <2> QED
    BY <1>1, <2>1, <2>3 DEF Row
<1>2. CASE e \notin Stored
  <2>1. rows'[e] = [id |-> nextID, raw |-> Number, num |-> v, expires |-> Never]
    BY <1>2 DEF Incr, IncrNew, IncrStored, Write, TypeOK, Stored
  <2> QED
    BY <1>2, <2>1 DEF Live
<1> QED
  BY <1>1, <1>2

LEMMA IncrAdds ==
  ASSUME TypeOK, TypeOK', NEW e \in Entries, NEW v \in Amounts, Incr(e, v)
  PROVE  Store!Add(e, v)
<1> DEFINE raw     == IF e \in Stored THEN rows[e].raw ELSE Number
           total   == IF e \in Live THEN Plus(rows[e].num, v) ELSE v
           expires == IF e \in Live THEN rows[e].expires ELSE Never
<1>1. /\ rows'[e] # NoRow
      /\ \A f \in Entries : f # e => rows'[f] = rows[f]
      /\ now' = now
  BY IncrWritesOne DEF WritesOne, Incr, IncrNew, IncrStored
<1>2. rows'[e].raw = raw /\ rows'[e].num = total /\ rows'[e].expires = expires
  BY IncrLeaves
<1>3. expires = Never \/ ~(now > expires)
  BY DEF Live, Expired
<1> HIDE DEF raw, total, expires
<1>4. /\ Seen' = [Seen EXCEPT ![e] = IF raw = Number THEN total ELSE raw]
      /\ Counted' = [Counted EXCEPT ![e] = total]
      /\ Until' = [Until EXCEPT ![e] = expires]
      /\ Kept' = [Kept EXCEPT ![e] = raw]
  BY <1>1, <1>2, <1>3, WriteSeen
<1>5. Until[e] = expires
  BY DEF Until, expires
<1>6. Until' = Until
  BY <1>4, <1>5 DEF Until
<1>7. total = IF Counted[e] = NoRow THEN v ELSE Plus(Counted[e], v)
  BY ReadIsNoMarker DEF Counted, total
<1>8. raw = IF Kept[e] = NoRow THEN Number ELSE Kept[e]
  BY ReadIsNoMarker DEF Kept, raw
<1>9. (IF raw = Number THEN total ELSE raw) = IF Kept[e] \in Texts THEN Kept[e] ELSE total
  BY <1>8, ReadIsNoMarker, MarkersAssumption DEF Kept, raw
<1> QED
  BY <1>1, <1>4, <1>6, <1>7, <1>8, <1>9 DEF Store!Add, Store!Plus, Plus, Seen, Counted, Until, Kept

LEMMA DeleteRemoves ==
  ASSUME TypeOK, NEW S, Delete(S)
  PROVE  Store!Remove(S \cap Entries)
<1>1. \A e \in Entries : e \in Live' <=> e \in Live /\ e \notin S
  BY DEF Live, Stored, Expired, Delete
<1>2. \A e \in Entries : e \notin S => rows'[e] = rows[e]
  BY DEF Delete
<1>3. Seen' = [e \in Entries |-> IF e \in S \cap Entries THEN NoRow ELSE Seen[e]]
  BY <1>1, <1>2 DEF Seen, Get, View
<1>4. Until' = [e \in Entries |-> IF e \in S \cap Entries THEN 0 ELSE Until[e]]
  BY <1>1, <1>2 DEF Until, Never
<1>5. Counted' = [e \in Entries |-> IF e \in S \cap Entries THEN NoRow ELSE Counted[e]]
  BY <1>1, <1>2 DEF Counted
<1>6. Kept' = [e \in Entries |-> IF e \in S \cap Entries THEN NoRow ELSE Kept[e]]
  BY <1>2 DEF Kept, Stored, Delete
<1> QED
  BY <1>3, <1>4, <1>5, <1>6 DEF Store!Remove, Seen, Counted, Until, Kept, Delete

LEMMA TickPasses ==
  ASSUME TypeOK, Tick
  PROVE  Store!Pass
<1> DEFINE gone == {e \in Entries : Until[e] # 0 /\ Until[e] < now + 1}
<1>1. \A e \in Entries : e \in Live' <=> e \in Live /\ e \notin gone
  <2> SUFFICES ASSUME NEW e \in Entries
               PROVE  e \in Live' <=> e \in Live /\ e \notin gone
    OBVIOUS
  <2>1. CASE e \in Stored
    <3>1. rows[e].expires \in Nat /\ now \in Nat
      BY <2>1, StoredRow DEF TypeOK
    <3>2. e \in Stored' /\ rows' = rows /\ now' = now + 1
      BY <2>1 DEF Tick, Stored
    <3> QED
      BY <2>1, <3>1, <3>2 DEF Live, Expired, Until, Never
  <2>2. CASE e \notin Stored
    BY <2>2 DEF Live, Stored, Tick
  <2> QED
    BY <2>1, <2>2
<1>2. Seen' = [e \in Entries |-> IF e \in gone THEN NoRow ELSE Seen[e]]
  BY <1>1 DEF Seen, Get, View, Tick
<1>3. Until' = [e \in Entries |-> IF e \in gone THEN 0 ELSE Until[e]]
  BY <1>1 DEF Until, Never, Tick
<1>4. Counted' = [e \in Entries |-> IF e \in gone THEN NoRow ELSE Counted[e]]
  BY <1>1 DEF Counted, Tick
<1>5. Kept' = Kept
  BY DEF Kept, Stored, Tick
<1> QED
  BY <1>2, <1>3, <1>4, <1>5 DEF Store!Pass, Seen, Counted, Until, Kept, Tick

(* The database is an ExpiringStore (db.go Get, SetWithExpiry, Incr and    *)
(* the deletes): every step of it is one of the store's.  Of an entry that *)
(* has expired and is still stored nothing shows but the text it was set   *)
(* to, and that only once dbIncr has given the name a number again.        *)
THEOREM ActsAsExpiringStore == Spec => IsExpiringStore
<1>1. Init => Store!Init
  BY DEF Init, Store!Init, Get, Live, Stored, Never, Seen, Counted, Until, Kept
<1>2. TypeOK /\ TypeOK' /\ [Next]_vars => [Store!Next]_<<Seen, Counted, Until, Kept, now>>
  <2> SUFFICES ASSUME TypeOK, TypeOK', [Next]_vars
               PROVE  [Store!Next]_<<Seen, Counted, Until, Kept, now>>
    OBVIOUS
  <2>1. CASE \E e \in Entries, v \in Values, ttl \in Ttls : SetWithExpiry(e, v, ttl)
    BY <2>1, SetPuts DEF Store!Next, Values
  <2>2. CASE \E e \in Entries, v \in Amounts : Incr(e, v)
    BY <2>2, IncrAdds DEF Store!Next
  <2>3. CASE \E S : Delete(S)
    <3>1. PICK S : Delete(S)
      BY <2>3
    <3>2. S \cap Entries \in SUBSET Entries
      OBVIOUS
    <3> QED
      BY <3>1, <3>2, DeleteRemoves DEF Store!Next
  <2>4. CASE Tick
    BY <2>4, TickPasses DEF Store!Next
  <2>5. CASE UNCHANGED vars
    BY <2>5 DEF vars, Seen, Counted, Until, Kept, Get, View, Live, Stored, Expired
  <2> QED
    BY <2>1, <2>2, <2>3, <2>4, <2>5, Steps
<1> QED
  BY <1>1, <1>2, TypeCorrect, PTL DEF Spec, IsExpiringStore, Store!Spec, Seen, Counted, Until, Kept

-----------------------------------------------------------------------------
(* Places in a list.                                                       *)

(* Finitely many entries are stored: a step stores one more, at most.      *)
FinitelyMany == IsFiniteSet(Stored)

LEMMA StoredStaysFinite == TypeOK /\ FinitelyMany /\ [Next]_vars => FinitelyMany'
<1> SUFFICES ASSUME TypeOK, FinitelyMany, [Next]_vars PROVE FinitelyMany'
  OBVIOUS
<1>a. ASSUME NEW e \in Entries, WritesOne(e) PROVE FinitelyMany'
  <2>1. Stored' = Stored \cup {e}
    BY <1>a DEF WritesOne, Stored
  <2> QED
    BY <2>1, FS_AddElement DEF FinitelyMany
<1>1. CASE \E e \in Entries, v \in Values, ttl \in Ttls : SetWithExpiry(e, v, ttl)
  BY <1>1, <1>a, SetWritesOne
<1>2. CASE \E e \in Entries, v \in Amounts : Incr(e, v)
  BY <1>2, <1>a, IncrWritesOne
<1>3. CASE \E S : Delete(S)
  <2>1. Stored' \in SUBSET Stored
    BY <1>3 DEF Delete, Stored, TypeOK
  <2> QED
    BY <2>1, FS_Subset DEF FinitelyMany
<1>4. CASE Tick \/ UNCHANGED vars
  BY <1>4 DEF Tick, vars, FinitelyMany, Stored
<1> QED
  BY <1>1, <1>2, <1>3, <1>4, Steps

THEOREM FewAreStored == Spec => []FinitelyMany
<1>1. Init => FinitelyMany
  <2> SUFFICES ASSUME Init PROVE Stored = {}
    BY FS_EmptySet DEF FinitelyMany
  <2> QED
    BY DEF Init, Stored
<1> QED
  BY <1>1, StoredStaysFinite, TypeCorrect, PTL DEF Spec

(* A list's order: no two of S are at one place.                           *)
Orders(by, asc, S) ==
  \A e, f, g \in S :
    /\ ~Before(by, asc, e, e)
    /\ e # f => Before(by, asc, e, f) \/ Before(by, asc, f, e)
    /\ Before(by, asc, e, f) /\ Before(by, asc, f, g) => Before(by, asc, e, g)

LEMMA ListsHaveOrders ==
  ASSUME TypeOK, IdsUnique, NEW S \in SUBSET Stored, NEW by \in {"id", "num"}, NEW asc \in BOOLEAN
  PROVE  Orders(by, asc, S)
<1> SUFFICES ASSUME NEW e \in S, NEW f \in S, NEW g \in S
             PROVE  /\ ~Before(by, asc, e, e)
                    /\ e # f => Before(by, asc, e, f) \/ Before(by, asc, f, e)
                    /\ Before(by, asc, e, f) /\ Before(by, asc, f, g) => Before(by, asc, e, g)
  BY DEF Orders
<1>1. e \in Stored /\ f \in Stored /\ g \in Stored
  OBVIOUS
<1>2. CASE by = "id"
  <2>1. rows[e].id \in Nat /\ rows[f].id \in Nat /\ rows[g].id \in Nat /\ (rows[e].id = rows[f].id => e = f)
    BY <1>1, StoredRow DEF IdsUnique
  <2> QED
    BY <1>2, <2>1 DEF Before, ById
<1>3. CASE by # "id"
  <2>1. \A x, y, z \in Stored : /\ ~Ascends(x, x)
                                /\ x # y => Ascends(x, y) \/ Ascends(y, x)
                                /\ Ascends(x, y) /\ Ascends(y, z) => Ascends(x, z)
    BY TypedIsOrdered DEF OrderIsTotal
  <2> HIDE DEF Ascends
  <2>2. \A x, y : Before(by, asc, x, y) <=> IF asc THEN Ascends(x, y) ELSE Ascends(y, x)
    BY <1>3 DEF Before
  <2> QED
    BY <1>1, <2>1, <2>2
<1> QED
  BY <1>2, <1>3

(* Places are numbers from 1 to the size of the list, and rise with the    *)
(* order.                                                                  *)
LEMMA PlaceInList ==
  ASSUME NEW S, IsFiniteSet(S), NEW by, NEW asc, Orders(by, asc, S), NEW e \in S
  PROVE  /\ Place(S, by, asc, e) \in 1 .. Cardinality(S)
         /\ Cardinality(S) \in Nat
         /\ \A f \in S : Before(by, asc, f, e) => Place(S, by, asc, f) < Place(S, by, asc, e)
<1> DEFINE Ahead(x) == {f \in S : Before(by, asc, f, x)}
<1>1. ASSUME NEW x \in S
      PROVE  IsFiniteSet(Ahead(x)) /\ Cardinality(Ahead(x)) \in Nat /\ Place(S, by, asc, x) = 1 + Cardinality(Ahead(x))
  <2>1. Ahead(x) \in SUBSET S
    OBVIOUS
  <2>2. Place(S, by, asc, x) = 1 + Cardinality(Ahead(x))
    BY DEF Place
  <2> HIDE DEF Ahead
  <2> QED
    BY <2>1, <2>2, FS_Subset, FS_CardinalityType
<1>2. Cardinality(S) \in Nat /\ Cardinality(Ahead(e)) < Cardinality(S)
  <2>1. Ahead(e) \in SUBSET S /\ Ahead(e) # S
    BY DEF Orders
  <2> HIDE DEF Ahead
  <2>2. Cardinality(S) \in Nat
    BY FS_CardinalityType
  <2> QED
    BY <1>1, <2>1, <2>2, FS_Subset
<1>3. ASSUME NEW f \in S, Before(by, asc, f, e)
      PROVE  Cardinality(Ahead(f)) < Cardinality(Ahead(e))
  <2>1. Ahead(f) \in SUBSET Ahead(e)
    BY <1>3 DEF Orders
  <2>2. f \in Ahead(e) /\ f \notin Ahead(f)
    BY <1>3 DEF Orders
  <2> HIDE DEF Ahead
  <2> QED
    BY <1>1, <2>1, <2>2, FS_Subset
<1> HIDE DEF Ahead
<1>4. Place(S, by, asc, e) \in 1 .. Cardinality(S)
  BY <1>1, <1>2
<1>5. ASSUME NEW f \in S, Before(by, asc, f, e) PROVE Place(S, by, asc, f) < Place(S, by, asc, e)
  BY <1>1, <1>3, <1>5
<1> QED
  BY <1>2, <1>4, <1>5

LEMMA PlacesDiffer ==
  ASSUME NEW S, IsFiniteSet(S), NEW by, NEW asc, Orders(by, asc, S), NEW e \in S, NEW f \in S,
         Place(S, by, asc, e) = Place(S, by, asc, f)
  PROVE  e = f
<1>1. e # f => Before(by, asc, e, f) \/ Before(by, asc, f, e)
  BY DEF Orders
<1>2. Place(S, by, asc, e) \in Nat
  BY PlaceInList
<1>3. ~Before(by, asc, e, f)
  BY <1>2, PlaceInList
<1>4. ~Before(by, asc, f, e)
  BY <1>2, PlaceInList
<1> QED
  BY <1>1, <1>3, <1>4

(* A list that is not empty has a first.                                   *)
LEMMA HasAFirst ==
  ASSUME NEW S, IsFiniteSet(S), NEW by, NEW asc, Orders(by, asc, S), S # {}
  PROVE  \E e \in S : Place(S, by, asc, e) = 1
<1> DEFINE T == {Place(S, by, asc, e) : e \in S}
           R == OpToRel(<, Nat)
<1>1. T \subseteq Nat /\ T # {}
  <2>1. \A e \in S : Place(S, by, asc, e) \in Nat
    BY PlaceInList
  <2> QED
    BY <2>1
<1>2. IsWellFoundedOn(R, Nat)
  BY NatLessThanWellFounded
<1>3. PICK x \in T : \A y \in T : ~ (<<y, x>> \in R)
  <2> HIDE DEF R, T
  <2> QED
    BY <1>1, <1>2, WFMin
<1>4. \A m, n \in Nat : <<m, n>> \in R <=> m < n
  BY DEF OpToRel
<1>5. PICK e \in S : x = Place(S, by, asc, e)
  OBVIOUS
<1>6. {f \in S : Before(by, asc, f, e)} = {}
  <2> SUFFICES ASSUME NEW f \in S, Before(by, asc, f, e) PROVE FALSE
    OBVIOUS
  <2>1. Place(S, by, asc, f) < Place(S, by, asc, e)
    BY PlaceInList
  <2>2. Place(S, by, asc, f) \in T /\ Place(S, by, asc, f) \in Nat /\ x \in Nat
    BY <1>1
  <2> HIDE DEF R, T
  <2> QED
    BY <1>3, <1>4, <1>5, <2>1, <2>2
<1>7. Place(S, by, asc, e) = 1 + 0
  BY <1>6, FS_EmptySet DEF Place
<1> QED
  BY <1>7

-----------------------------------------------------------------------------
(* What the queries say of one state.                                      *)

LEMMA Limits ==
  ASSUME NEW amount \in Nat
  PROVE  /\ ListLimit(amount) = DeleteLimit(amount)
         /\ ListLimit(amount) \in Nat \ {0}
         /\ ListLimit(0) = MaxAmount /\ ListLimit(1) = 1
BY BoundsAssumption DEF ListLimit, DeleteLimit

(* What a query lists is finite and in order, whichever.                   *)
LEMMA Listed ==
  ASSUME TypeOK, IdsUnique, FinitelyMany, NEW S \in SUBSET Stored
  PROVE  /\ IsFiniteSet(S)
         /\ \A by \in {"id", "num"}, asc \in BOOLEAN : Orders(by, asc, S)
<1>1. IsFiniteSet(S)
  BY FS_Subset DEF FinitelyMany
<1> QED
  BY <1>1, ListsHaveOrders

(* With any user, a query lists what dbTopEntries does; with one, what     *)
(* dbGetPattern does.                                                      *)
LEMMA SameList ==
  ASSUME NEW q \in Queries
  PROVE  /\ Matched(q) \cap Live \in SUBSET Stored /\ Matched(q) \in SUBSET Stored
         /\ q.user = AnyUser => Matched(q) \cap Live = {e \in Live : e[2] \in q.keys}
         /\ q.user # AnyUser => Matched(q) \cap Live = {e \in Live : e[1] = q.user /\ e[2] \in q.keys}
BY DEF Matched, Live

(* What the functions of templates list: the pages of the database's, in   *)
(* the order a query says.                                                 *)
LEMMA InOrderIs ==
  ASSUME NEW q \in Queries, NEW amount, NEW skip
  PROVE  InOrder(q, amount, skip)
           = Page({e \in Live : e[2] \in q.keys}, "num", q.asc, ListLimit(amount), skip)
<1>1. q.asc = TRUE \/ q.asc = FALSE
  BY DEF Queries
<1> QED
  BY <1>1 DEF InOrder, DbTopEntries, DbBottomEntries, TopEntries

(* The order of a query makes no difference to a count, and the rank of    *)
(* another user's entry is none.                                           *)
LEMMA CountIs ==
  ASSUME NEW q \in Queries
  PROVE  DbCount(q.user, q.keys) = Cardinality(Matched(q) \cap Live)
BY DEF DbCount, Count, Matched

LEMMA RankIs ==
  ASSUME NEW q \in Queries, NEW e \in Entries
  PROVE  DbRank(q, e) = Rank(q, e)
<1>1. CASE q.user \notin {AnyUser, e[1]}
  <2>1. e \notin Matched(q)
    BY <1>1 DEF Matched
  <2>2. Rank(q, e) = 0
    BY <2>1 DEF Rank
  <2> QED
    BY <1>1, <2>2 DEF DbRank
<1>2. CASE q.user \in {AnyUser, e[1]}
  BY <1>2 DEF DbRank
<1> QED
  BY <1>1, <1>2

LEMMA LookupsDo ==
  ASSUME TypeOK, IdsUnique, FinitelyMany
  PROVE  LookupsAgree
<1> SUFFICES ASSUME NEW q \in Queries, NEW e \in Entries
             PROVE  LET rank  == DbRank(q, e)
                        count == DbCount(q.user, q.keys)
                    IN  /\ rank # 0 <=> Get(e) # NoRow /\ e \in Matched(q)
                        /\ rank <= count
                        /\ rank # 0 /\ q.user = AnyUser =>
                             /\ InOrder(q, 1, rank - 1) = {e}
                             /\ rank <= MaxAmount <=> e \in InOrder(q, 0, 0)
                        /\ rank # 0 /\ q.user # AnyUser /\ count <= MaxAmount =>
                             e \in DbGetPattern(q.user, q.keys, 0, 0) \cap DbGetPatternReverse(q.user, q.keys, 0, 0)
  BY DEF LookupsAgree
<1> DEFINE S == Matched(q) \cap Live
           rank == DbRank(q, e)
           count == DbCount(q.user, q.keys)
           at == Place(S, "num", q.asc, e)
<1>1. q.asc \in BOOLEAN
  BY DEF Queries
<1>2. IsFiniteSet(S) /\ \A by \in {"id", "num"}, asc \in BOOLEAN : Orders(by, asc, S)
  BY SameList, Listed
<1>3. Cardinality(S) \in Nat /\ count = Cardinality(S)
  BY <1>2, CountIs, FS_CardinalityType
<1>4. e \in S => at \in 1 .. Cardinality(S)
  <2> HIDE DEF S
  <2> QED
    BY <1>1, <1>2, PlaceInList
<1>5. rank = IF e \in S THEN at ELSE 0
  BY RankIs DEF Rank
<1>6. Get(e) # NoRow <=> e \in Live
  BY ReadIsNoMarker
<1>7. rank # 0 <=> e \in S
  <2> HIDE DEF S, rank
  <2> QED
    BY <1>3, <1>4, <1>5
<1>8. rank # 0 <=> Get(e) # NoRow /\ e \in Matched(q)
  BY <1>6, <1>7
<1>9. rank <= count
  <2> HIDE DEF S, rank, count
  <2> QED
    BY <1>3, <1>4, <1>5
<1>10. ASSUME rank # 0, q.user = AnyUser
       PROVE  /\ InOrder(q, 1, rank - 1) = {e}
              /\ rank <= MaxAmount <=> e \in InOrder(q, 0, 0)
  <2>1. S = {f \in Live : f[2] \in q.keys}
    BY <1>10, SameList
  <2>2. InOrder(q, 1, rank - 1) = Page(S, "num", q.asc, ListLimit(1), rank - 1)
    BY <2>1, InOrderIs
  <2>3. InOrder(q, 0, 0) = Page(S, "num", q.asc, ListLimit(0), 0)
    BY <2>1, InOrderIs
  <2> HIDE DEF S, rank
  <2>4. e \in S /\ rank = at /\ rank \in 1 .. Cardinality(S)
    BY <1>4, <1>5, <1>7, <1>10
  <2>5. \A f \in S : Place(S, "num", q.asc, f) \in 1 .. Cardinality(S)
    BY <1>1, <1>2, PlaceInList
  <2>6. Page(S, "num", q.asc, 1, rank - 1) = {f \in S : Place(S, "num", q.asc, f) = rank}
    <3>1. \A f \in S : LET i == Place(S, "num", q.asc, f)
                       IN  (rank - 1 < i /\ (1 > 0 => i <= (rank - 1) + 1)) <=> i = rank
      BY <1>3, <2>4, <2>5
    <3> QED
      BY <3>1 DEF Page
  <2>7. \A f \in S : Place(S, "num", q.asc, f) = rank <=> f = e
    BY <1>1, <1>2, <2>4, PlacesDiffer
  <2>8. InOrder(q, 1, rank - 1) = {e}
    BY <2>2, <2>4, <2>6, <2>7, Limits
  <2>9. e \in Page(S, "num", q.asc, MaxAmount, 0) <=> rank <= MaxAmount
    BY <1>3, <2>4, BoundsAssumption DEF Page
  <2> QED
    BY <2>3, <2>8, <2>9, Limits
<1>11. ASSUME rank # 0, q.user # AnyUser, count <= MaxAmount
       PROVE  e \in DbGetPattern(q.user, q.keys, 0, 0) \cap DbGetPatternReverse(q.user, q.keys, 0, 0)
  <2>1. S = {f \in Live : f[1] = q.user /\ f[2] \in q.keys}
    BY <1>11, SameList
  <2>2. /\ DbGetPattern(q.user, q.keys, 0, 0) = Page(S, "id", TRUE, ListLimit(0), 0)
        /\ DbGetPatternReverse(q.user, q.keys, 0, 0) = Page(S, "id", FALSE, ListLimit(0), 0)
    BY <2>1 DEF GetPattern, DbGetPattern, DbGetPatternReverse
  <2>3. e \in S
    BY <1>7, <1>11
  <2> HIDE DEF S, rank, count
  <2>4. \A asc \in BOOLEAN : Place(S, "id", asc, e) \in 1 .. Cardinality(S)
    BY <1>2, <2>3, PlaceInList
  <2>5. \A asc \in BOOLEAN : e \in Page(S, "id", asc, MaxAmount, 0)
    BY <1>3, <1>11, <2>3, <2>4, BoundsAssumption DEF Page
  <2> QED
    BY <2>2, <2>5, Limits
<1> QED
  BY <1>8, <1>9, <1>10, <1>11

LEMMA DeletesDo ==
  ASSUME TypeOK, IdsUnique, FinitelyMany
  PROVE  DeletesWhatIsListed
<1> SUFFICES ASSUME NEW q \in Queries
             PROVE  /\ Matched(q) # {} => Deleted(q, 0, 0) # {}
                    /\ q.user = AnyUser /\ Matched(q) \subseteq Live =>
                         \A amount \in {0, 1, MaxAmount + 1}, skip \in 0 .. MaxSkip :
                           Deleted(q, amount, skip) = InOrder(q, amount, skip)
  BY DEF DeletesWhatIsListed
<1> DEFINE S == Matched(q)
<1>1. q.asc \in BOOLEAN
  BY DEF Queries
<1>2. IsFiniteSet(S) /\ Orders("num", q.asc, S)
  BY <1>1, SameList, Listed
<1>3. ASSUME S # {} PROVE Deleted(q, 0, 0) # {}
  <2>1. Deleted(q, 0, 0) = Page(S, "num", q.asc, MaxAmount, 0)
    BY Limits DEF Deleted
  <2> HIDE DEF S
  <2>2. PICK e \in S : Place(S, "num", q.asc, e) = 1
    BY <1>2, <1>3, HasAFirst
  <2>3. e \in Page(S, "num", q.asc, MaxAmount, 0)
    BY <2>2, BoundsAssumption DEF Page
  <2> QED
    BY <2>1, <2>3
<1>4. ASSUME q.user = AnyUser, S \subseteq Live,
             NEW amount \in {0, 1, MaxAmount + 1}, NEW skip \in 0 .. MaxSkip
      PROVE  Deleted(q, amount, skip) = InOrder(q, amount, skip)
  <2>1. S = {f \in Live : f[2] \in q.keys}
    BY <1>4, SameList
  <2>2. ListLimit(amount) = DeleteLimit(amount)
    <3>1. amount \in Nat
      BY BoundsAssumption
    <3> QED
      BY <3>1, Limits
  <2> QED
    BY <2>1, <2>2, InOrderIs DEF Deleted
<1> QED
  BY <1>3, <1>4

(* The functions that list, rank, count and delete agree (database.go      *)
(* DbGetPattern to DbDelMultiple): each counts the entries for itself,     *)
(* over one order; as many entries as there may be.                        *)
THEOREM FunctionsAgree == Spec => []QueriesAgree
<1>1. TypeOK /\ IdsUnique /\ FinitelyMany => QueriesAgree
  BY TypedIsOrdered, LookupsDo, DeletesDo DEF QueriesAgree
<1> QED
  BY <1>1, TypeCorrect, IdsStayUnique, FewAreStored, PTL
=============================================================================
