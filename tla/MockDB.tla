------------------------------ MODULE MockDB --------------------------------
(***************************************************************************)
(* The emulator's database (internal/state/db.go) as the template          *)
(* functions use it (internal/funcs/database.go).  A lock makes each       *)
(* function one step.  An entry is its id, its raw value, its value_num    *)
(* and its last second; its size and times of writing are left out, and so *)
(* are refusals (a value too large to store, a negative amount or skip).   *)
(* A raw number is only a mark, Number: reading it gives value_num.  What  *)
(* is no number, text or dict, is a member of Texts.  A pattern is the set *)
(* of keys it matches.                                                     *)
(*                                                                         *)
(* Deleted and expired are not the same: an expired entry keeps its id and *)
(* its row until somebody writes or deletes it.                            *)
(***************************************************************************)
EXTENDS ValueNums, FiniteSets

CONSTANTS
  Users, Keys,
  Entries,           \* the names commands use, of Users \X Keys
  Patterns,          \* sets of keys
  Amounts, Ttls,     \* numbers written or added, seconds given
  Number, NoRow, AnyUser,
  MaxAmount,         \* entries one call lists or deletes: 100 in the code
  MaxSkip,           \* bounds: what is skipped, ids, seconds, sums
  MaxId, MaxNow, MaxNum

ASSUME EntriesAssumption == Entries \subseteq Users \X Keys /\ Patterns \subseteq SUBSET Keys
ASSUME NumbersAssumption == Amounts \subseteq ValueNum /\ Ttls \subseteq Int
ASSUME MarkersAssumption ==
  /\ NoRow \notin [id : Nat, raw : Texts \cup {Number}, num : ValueNum, expires : Nat]
                  \cup ValueNum \cup Texts \cup {Number}
  /\ Number \notin Texts
ASSUME BoundsAssumption ==
  /\ MaxAmount \in Nat \ {0}
  /\ MaxSkip \in Nat /\ MaxId \in Nat /\ MaxNow \in Nat \ {0} /\ MaxNum \in Nat

VARIABLES
  rows,    \* entries and valueNums
  nextID,
  now      \* the clock's second

vars == <<rows, nextID, now>>

Row == [id : Nat, raw : Texts \cup {Number}, num : ValueNum, expires : Nat]

TypeOK ==
  /\ rows \in [Entries -> Row \cup {NoRow}]
  /\ nextID \in Nat \ {0}
  /\ now \in Nat \ {0}

Init ==
  /\ rows = [e \in Entries |-> NoRow]
  /\ nextID = 1
  /\ now = 1

-----------------------------------------------------------------------------
(* An entry's last second, for good without one; seconds count from 1.     *)
Never == 0

Deadline(ttl) == IF ttl > 0 THEN now + ttl ELSE Never

(* What is stored, and what of it can be read.                             *)
Stored     == {e \in Entries : rows[e] # NoRow}
Expired(e) == rows[e].expires # Never /\ now > rows[e].expires
Live       == {e \in Stored : ~Expired(e)}

(* A query: a user or any, the keys its pattern matches, `reverse`.        *)
Queries == [user : Users \cup {AnyUser}, keys : Patterns, asc : BOOLEAN]
Matched(q) ==
  {e \in Stored : (q.user = AnyUser \/ e[1] = q.user) /\ e[2] \in q.keys}

(* sortByValueNum's order, "value_num DESC, id DESC" or ascending, and     *)
(* GetPattern's, by id.                                                    *)
Ascends(e, f) ==
  LET a == rows[e].num
      b == rows[f].num
  IN  Below(a, b) \/ (~Below(b, a) /\ rows[e].id < rows[f].id)

ById(e, f) == rows[e].id < rows[f].id

Before(by, asc, e, f) ==
  LET a == IF asc THEN e ELSE f
      b == IF asc THEN f ELSE e
  IN  IF by = "id" THEN ById(a, b) ELSE Ascends(a, b)

(* A list is the set of its entries: the place of each in it is the number *)
(* of entries before it, and one, as the order is total (OrderIsTotal).    *)
Place(S, by, asc, e) == 1 + Cardinality({f \in S : Before(by, asc, f, e)})
Page(S, by, asc, limit, skip) ==
  {e \in S : LET i == Place(S, by, asc, e)
             IN  skip < i /\ (limit > 0 => i <= skip + limit)}

ListLimit(amount)   == IF amount > MaxAmount \/ amount <= 0 THEN MaxAmount ELSE amount
DeleteLimit(amount) == IF amount > MaxAmount \/ amount = 0 THEN MaxAmount ELSE amount

-----------------------------------------------------------------------------
(* The functions that read, first the database's, then the template's.  A  *)
(* raw value that is no number reads as it is.                             *)
View(e) == IF rows[e].raw = Number THEN rows[e].num ELSE rows[e].raw

Get(e) == IF e \in Live THEN View(e) ELSE NoRow

GetPattern(u, keys, limit, skip, desc) ==
  Page({e \in Live : e[1] = u /\ e[2] \in keys}, "id", ~desc, limit, skip)

TopEntries(keys, limit, skip, asc) == Page({e \in Live : e[2] \in keys}, "num", asc, limit, skip)

(* A plausible slip: entries that have expired hold their places.          *)
RankExpiredToo(q, e) ==
  IF e \in Matched(q) \cap Live THEN Place(Matched(q), "num", q.asc, e) ELSE 0

Rank(q, e) ==
  LET listed == Matched(q) \cap Live
  IN  IF e \in listed THEN Place(listed, "num", q.asc, e) ELSE 0

Count(q) == Cardinality(Matched(q) \cap Live)

DbGetPattern(u, keys, amount, skip)        == GetPattern(u, keys, ListLimit(amount), skip, FALSE)
DbGetPatternReverse(u, keys, amount, skip) == GetPattern(u, keys, ListLimit(amount), skip, TRUE)
DbTopEntries(keys, amount, skip)           == TopEntries(keys, ListLimit(amount), skip, FALSE)
DbBottomEntries(keys, amount, skip)        == TopEntries(keys, ListLimit(amount), skip, TRUE)

(* A query for another user than the one asked about is not made.          *)
DbRank(q, e) == IF q.user \notin {AnyUser, e[1]} THEN 0 ELSE Rank(q, e)

(* The argument is a user, a pattern, a query or none; its order is not    *)
(* looked at.                                                              *)
DbCount(user, keys) == Count([user |-> user, keys |-> keys, asc |-> FALSE])

-----------------------------------------------------------------------------
(* The functions that write.                                               *)
Write(e, row) == rows' = [rows EXCEPT ![e] = row]

(* dbSet and dbSetExpire: an entry that is stored, expired or not, keeps   *)
(* its id.                                                                 *)
SetWithExpiry(e, v, ttl) ==
  /\ Write(e, [id |-> IF rows[e] = NoRow THEN nextID ELSE rows[e].id,
               raw |-> IF v \in Texts THEN v ELSE Number,
               num |-> ToFloat64(v), expires |-> Deadline(ttl)])
  /\ nextID' = IF rows[e] = NoRow THEN nextID + 1 ELSE nextID
  /\ UNCHANGED now

(* dbIncr, of a new entry and of a stored one: an expired one starts again *)
(* at the amount and loses its limit.  The raw value stays in both.        *)
IncrNew(e, v) ==
  /\ rows[e] = NoRow
  /\ Write(e, [id |-> nextID, raw |-> Number, num |-> v, expires |-> Never])
  /\ nextID' = nextID + 1
  /\ UNCHANGED now

(* A plausible slip: an expired entry counts on.                           *)
IncrStoredCountingOn(e, v) ==
  /\ e \in Stored
  /\ Plus(rows[e].num, v) \in -MaxNum .. MaxNum \cup {NaN}
  /\ Write(e, [rows[e] EXCEPT !.num = Plus(@, v),
                              !.expires = IF Expired(e) THEN Never ELSE @])
  /\ UNCHANGED <<nextID, now>>

IncrStored(e, v) ==
  /\ e \in Stored
  /\ Plus(rows[e].num, v) \in -MaxNum .. MaxNum \cup {NaN}
  /\ Write(e, IF Expired(e) THEN [rows[e] EXCEPT !.num = v, !.expires = Never]
                            ELSE [rows[e] EXCEPT !.num = Plus(@, v)])
  /\ UNCHANGED <<nextID, now>>

Incr(e, v) == IncrNew(e, v) \/ IncrStored(e, v)

Delete(S) ==
  /\ rows' = [e \in Entries |-> IF e \in S THEN NoRow ELSE rows[e]]
  /\ UNCHANGED <<nextID, now>>

Del(e) == e \in Stored /\ Delete({e})

DelByID(u, id) == \E e \in Stored : e[1] = u /\ rows[e].id = id /\ Delete({e})

(* A plausible slip: entries that have expired are passed over.            *)
DeletedOfLive(q, amount, skip) ==
  Page(Matched(q) \cap Live, "num", q.asc, DeleteLimit(amount), skip)

(* dbDelMultiple, expired entries included.                                *)
Deleted(q, amount, skip) ==
  Page(Matched(q), "num", q.asc, DeleteLimit(amount), skip)

DelMultiple(q, amount, skip) == Delete(Deleted(q, amount, skip))

Tick ==
  /\ now < MaxNow
  /\ now' = now + 1
  /\ UNCHANGED <<rows, nextID>>

-----------------------------------------------------------------------------
(* The bounds: an id is left for a new entry, and a last second will pass. *)
IdLeft(e)     == e \in Stored \/ nextID <= MaxId
WillPass(ttl) == now + ttl < MaxNow \/ ttl <= 0

Next ==
  \/ \E e \in Entries, v \in Amounts \cup Texts, ttl \in Ttls :
       IdLeft(e) /\ WillPass(ttl) /\ SetWithExpiry(e, v, ttl)
  \/ \E e \in Entries, v \in Amounts : IdLeft(e) /\ Incr(e, v)
  \/ \E e \in Entries : Del(e)
  \/ \E u \in Users, id \in 1 .. MaxId : DelByID(u, id)
  \/ \E q \in Queries, amount \in {0, 1, MaxAmount + 1}, skip \in 0 .. MaxSkip :
       DelMultiple(q, amount, skip)
  \/ Tick

Spec == Init /\ [][Next]_vars

-----------------------------------------------------------------------------
(* No two stored entries have one id: every write that makes an entry, in  *)
(* three functions, takes a new one, and an entry never changes its own.   *)
IdsUnique ==
  /\ \A e, f \in Stored : rows[e].id = rows[f].id => e = f
  /\ \A e \in Stored : rows[e].id < nextID

(* The order of the lists is total, NaN and equal numbers included, so     *)
(* that neither the map's random order nor an unstable sort shows in a     *)
(* list, and a list and its reverse are each other's.                      *)
OrderIsTotal ==
  \A e, f, g \in Stored :
    /\ ~Ascends(e, e)
    /\ e # f => Ascends(e, f) \/ Ascends(f, e)
    /\ Ascends(e, f) /\ Ascends(f, g) => Ascends(e, g)

(* dbTopEntries or dbBottomEntries, as a query's `reverse` says.           *)
InOrder(q, amount, skip) ==
  IF q.asc THEN DbBottomEntries(q.keys, amount, skip) ELSE DbTopEntries(q.keys, amount, skip)

(* An entry that can be read has a rank, the rank is its place in the list *)
(* of the same pattern (page by page), and the ranks run up to the count.  *)
LookupsAgree ==
  \A q \in Queries, e \in Entries :
    LET rank  == DbRank(q, e)
        count == DbCount(q.user, q.keys)
    IN  /\ rank # 0 <=> Get(e) # NoRow /\ e \in Matched(q)
        /\ rank <= count
        /\ rank # 0 /\ q.user = AnyUser =>
             /\ InOrder(q, 1, rank - 1) = {e}
             /\ rank <= MaxAmount <=> e \in InOrder(q, 0, 0)
        /\ rank # 0 /\ q.user # AnyUser /\ count <= MaxAmount =>
             e \in DbGetPattern(q.user, q.keys, 0, 0) \cap DbGetPatternReverse(q.user, q.keys, 0, 0)

(* dbDelMultiple deletes what dbTopEntries or dbBottomEntries of the same  *)
(* arguments lists as long as nothing it selects has expired; and repeated *)
(* until it deletes nothing it leaves nothing, the expired included.       *)
DeletesWhatIsListed ==
  \A q \in Queries :
    /\ Matched(q) # {} => Deleted(q, 0, 0) # {}
    /\ q.user = AnyUser /\ Matched(q) \subseteq Live =>
         \A amount \in {0, 1, MaxAmount + 1}, skip \in 0 .. MaxSkip :
           Deleted(q, amount, skip) = InOrder(q, amount, skip)

(* The functions agree on what there is: get, rank, count, lists and bulk  *)
(* deletes (database.go), each of which decides for itself what it sees,   *)
(* over an order that leaves none of them a choice.                        *)
QueriesAgree == OrderIsTotal /\ LookupsAgree /\ DeletesWhatIsListed

(* Seen from outside, the database is an ExpiringStore: a name whose entry *)
(* has expired holds nothing, reads as nothing and counts again from       *)
(* nothing (db.go Get, SetWithExpiry, Incr and the deletes).  What is      *)
(* still stored of it shows in one way: a text it was set to is read again *)
(* when dbIncr has given it a number.                                      *)
Store == INSTANCE ExpiringStore
  WITH None  <- NoRow,
       value <- [e \in Entries |-> Get(e)],
       count <- [e \in Entries |-> IF e \in Live THEN rows[e].num ELSE NoRow],
       until <- [e \in Entries |-> IF e \in Live THEN rows[e].expires ELSE Never],
       kept  <- [e \in Entries |-> IF e \in Stored THEN rows[e].raw ELSE NoRow]

IsExpiringStore == Store!Spec
=============================================================================
