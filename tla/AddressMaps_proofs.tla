------------------------- MODULE AddressMaps_proofs -------------------------
(* What the operations of the two containers over addresses do, for every  *)
(* content and range.  insertRange and removeRange leave a RangeList       *)
(* disjoint, covering what it covered with the range added or removed.     *)
(* Database::setPropertyRange raises its flags on the addresses of its     *)
(* range and changes no property of any other address, whatever split      *)
(* points the map already has.                                             *)
EXTENDS RangeList, PropertyMap, WellFoundedInduction, TLAPS

(* In a disjoint list, the two searches in the tree find every range that  *)
(* meets [first, last] and no other: ranges before the last one that       *)
(* starts at or before first also end before it.                           *)
LEMMA TouchedMeets ==
  ASSUME NEW R \in SUBSET Ranges, Disjoint(R),
         NEW first \in Nat, NEW last \in Nat, first <= last
  PROVE  Touched(R, first, last) = {r \in R : r.first <= last /\ r.last >= first}
<1>1. ASSUME NEW r \in R PROVE r.first \in Nat /\ r.last \in Nat /\ r.first <= r.last
  BY DEF Ranges
<1>2. ASSUME NEW r \in R, r.first <= last, r.last >= first
      PROVE  r \in Touched(R, first, last)
  <2>1. CASE r.first > first
    BY <1>2, <2>1 DEF Touched
  <2>2. CASE r.first <= first
    <3>1. ASSUME NEW s \in R, s.first <= first PROVE s.first <= r.first
      BY <1>1, <1>2, <2>2, <3>1 DEF Disjoint
    <3> QED BY <1>2, <2>2, <3>1 DEF Touched
  <2> QED BY <1>1, <2>1, <2>2
<1>3. ASSUME NEW r \in Touched(R, first, last)
      PROVE  r \in R /\ r.first <= last /\ r.last >= first
  BY <1>1 DEF Touched
<1> QED BY <1>2, <1>3

(* The range that insertRange inserts is the union of [first, last] and of *)
(* the ranges it erased.                                                   *)
LEMMA GrownCovers ==
  ASSUME NEW R \in SUBSET Ranges, Disjoint(R),
         NEW first \in Nat, NEW last \in Nat, first <= last,
         NEW T, T = {r \in R : r.first <= last /\ r.last >= first},
         NEW g, g = Grown(T, first, last)
  PROVE  /\ g \in Ranges
         /\ g.first <= first /\ last <= g.last
         /\ g.first .. g.last = (first .. last) \cup Bytes(T)
         /\ \A r \in R \ T : r.last < g.first \/ g.last < r.first
<1>1. ASSUME NEW r \in R PROVE r.first \in Nat /\ r.last \in Nat /\ r.first <= r.last
  BY DEF Ranges
<1> DEFINE before == {r \in T : r.first < first}
           after == {r \in T : r.last > last}
<1>2. /\ before = {} => g.first = first
      /\ before # {} => \E r \in before : g.first = r.first
  BY DEF Grown
<1>3. /\ after = {} => g.last = last
      /\ after # {} => \E r \in after : g.last = r.last
  BY DEF Grown
<1>4. DOMAIN g = {"first", "last"} /\ g = [first |-> g.first, last |-> g.last]
  BY DEF Grown
<1>5. T \subseteq R
  OBVIOUS
<1>6. /\ g.first \in Nat /\ g.last \in Nat
      /\ g.first <= first /\ last <= g.last
  BY <1>1, <1>2, <1>3, <1>5
<1>7. ASSUME NEW r \in T PROVE g.first <= r.first /\ r.last <= g.last
  <2>1. g.first <= r.first
    <3>1. CASE before = {}
      BY <1>1, <1>5, <1>6, <3>1
    <3>2. CASE before # {}
      <4>1. PICK b \in before : g.first = b.first
        BY <1>2, <3>2
      <4> QED BY <1>1, <1>5, <4>1 DEF Disjoint
    <3> QED BY <3>1, <3>2
  <2>2. r.last <= g.last
    <3>1. CASE after = {}
      BY <1>1, <1>5, <1>6, <3>1
    <3>2. CASE after # {}
      <4>1. PICK a \in after : g.last = a.last
        BY <1>3, <3>2
      <4> QED BY <1>1, <1>5, <4>1 DEF Disjoint
    <3> QED BY <3>1, <3>2
  <2> QED BY <2>1, <2>2
<1>8. g.first .. g.last = (first .. last) \cup Bytes(T)
  <2>1. ASSUME NEW n \in g.first .. g.last PROVE n \in (first .. last) \cup Bytes(T)
    <3>1. n \in Nat /\ g.first <= n /\ n <= g.last
      BY <1>6
    <3>2. CASE n < first
      <4>1. before # {}
        BY <1>2, <3>1, <3>2
      <4>2. PICK b \in before : g.first = b.first
        BY <1>2, <4>1
      <4>3. n \in b.first .. b.last
        BY <1>1, <1>5, <3>1, <3>2, <4>2
      <4> QED BY <4>2, <4>3 DEF Bytes
    <3>3. CASE n > last
      <4>1. after # {}
        BY <1>3, <3>1, <3>3
      <4>2. PICK a \in after : g.last = a.last
        BY <1>3, <4>1
      <4>3. n \in a.first .. a.last
        BY <1>1, <1>5, <3>1, <3>3, <4>2
      <4> QED BY <4>2, <4>3 DEF Bytes
    <3>4. CASE first <= n /\ n <= last
      BY <3>1, <3>4
    <3> QED BY <3>1, <3>2, <3>3, <3>4
  <2>2. ASSUME NEW n \in first .. last PROVE n \in g.first .. g.last
    BY <1>6
  <2>3. ASSUME NEW n \in Bytes(T) PROVE n \in g.first .. g.last
    <3>1. PICK r \in T : n \in r.first .. r.last
      BY DEF Bytes
    <3> QED BY <1>1, <1>5, <1>6, <1>7, <3>1
  <2> QED BY <2>1, <2>2, <2>3
<1>9. ASSUME NEW r \in R \ T PROVE r.last < g.first \/ g.last < r.first
  <2>1. r.first \in Nat /\ r.last \in Nat /\ r.first <= r.last
    BY <1>1
  <2>2. CASE r.first > last
    <3>1. CASE after = {}
      BY <1>3, <2>2, <3>1
    <3>2. CASE after # {}
      <4>1. PICK a \in after : g.last = a.last
        BY <1>3, <3>2
      <4>2. a \in R /\ a # r /\ a.first <= last /\ a.first \in Nat /\ a.last \in Nat
        BY <1>1, <1>5, <4>1
      <4> QED BY <2>1, <2>2, <4>1, <4>2 DEF Disjoint
    <3> QED BY <3>1, <3>2
  <2>3. CASE r.last < first
    <3>1. CASE before = {}
      BY <1>2, <2>3, <3>1
    <3>2. CASE before # {}
      <4>1. PICK b \in before : g.first = b.first
        BY <1>2, <3>2
      <4>2. b \in R /\ b # r /\ b.last >= first /\ b.first \in Nat /\ b.last \in Nat
        BY <1>1, <1>5, <4>1
      <4> QED BY <2>1, <2>3, <4>1, <4>2 DEF Disjoint
    <3> QED BY <3>1, <3>2
  <2> QED BY <2>1, <2>2, <2>3
<1> QED BY <1>4, <1>6, <1>8, <1>9 DEF Ranges

(* insertRange keeps the list disjoint and adds the bytes of the range,    *)
(* whatever ranges it meets, contains or lies in.                          *)
THEOREM InsertRangeCovers ==
  ASSUME NEW R \in SUBSET Ranges, Disjoint(R),
         NEW first \in Nat, NEW last \in Nat, first <= last
  PROVE  /\ InsertRange(R, first, last) \in SUBSET Ranges
         /\ Disjoint(InsertRange(R, first, last))
         /\ Bytes(InsertRange(R, first, last)) = Bytes(R) \cup (first .. last)
<1>1. PICK T : T = {r \in R : r.first <= last /\ r.last >= first}
  OBVIOUS
<1>2. PICK g : g = Grown(T, first, last)
  OBVIOUS
<1>3. InsertRange(R, first, last) = (R \ T) \cup {g}
  <2>1. Touched(R, first, last) = T
    BY <1>1, TouchedMeets
  <2> QED BY <1>2, <2>1 DEF InsertRange
<1>4. /\ g \in Ranges
      /\ g.first .. g.last = (first .. last) \cup Bytes(T)
      /\ \A r \in R \ T : r.last < g.first \/ g.last < r.first
  BY <1>1, <1>2, GrownCovers
<1>5. (R \ T) \cup {g} \in SUBSET Ranges
  BY <1>4
<1>6. Disjoint((R \ T) \cup {g})
  BY <1>4 DEF Disjoint
<1>7. Bytes((R \ T) \cup {g}) = Bytes(R \ T) \cup (g.first .. g.last)
  BY DEF Bytes
<1>8. Bytes(R) = Bytes(R \ T) \cup Bytes(T)
  <2>1. R = (R \ T) \cup T
    BY <1>1
  <2> QED BY <2>1 DEF Bytes
<1> QED BY <1>3, <1>4, <1>5, <1>6, <1>7, <1>8

(* removeRange keeps the list disjoint and removes exactly the bytes of    *)
(* the range, splitting a range that contains it.                          *)
THEOREM RemoveRangeCovers ==
  ASSUME NEW R \in SUBSET Ranges, Disjoint(R),
         NEW first \in Nat, NEW last \in Nat, first <= last
  PROVE  /\ RemoveRange(R, first, last) \in SUBSET Ranges
         /\ Disjoint(RemoveRange(R, first, last))
         /\ Bytes(RemoveRange(R, first, last)) = Bytes(R) \ (first .. last)
<1>1. PICK T : T = {r \in R : r.first <= last /\ r.last >= first}
  OBVIOUS
<1> DEFINE Before == {[first |-> r.first, last |-> first - 1] : r \in {t \in T : t.first < first}}
           After == {[first |-> last + 1, last |-> r.last] : r \in {t \in T : t.last > last}}
           New == (R \ T) \cup Before \cup After
<1>2. RemoveRange(R, first, last) = New
  BY <1>1, TouchedMeets DEF RemoveRange
<1>3. ASSUME NEW r \in R PROVE r.first \in Nat /\ r.last \in Nat /\ r.first <= r.last
  BY DEF Ranges
<1>4. ASSUME NEW r \in R \ T PROVE r.last < first \/ r.first > last
  BY <1>1, <1>3
<1>5. ASSUME NEW b \in Before
      PROVE  \E r \in T : r.first < first /\ b = [first |-> r.first, last |-> first - 1]
  OBVIOUS
<1>6. ASSUME NEW a \in After
      PROVE  \E r \in T : r.last > last /\ a = [first |-> last + 1, last |-> r.last]
  OBVIOUS
<1>7. New \in SUBSET Ranges
  <2>1. ASSUME NEW b \in Before PROVE b \in Ranges
    BY <1>1, <1>3, <1>5 DEF Ranges
  <2>2. ASSUME NEW a \in After PROVE a \in Ranges
    BY <1>1, <1>3, <1>6 DEF Ranges
  <2> QED BY <2>1, <2>2
<1>8. Disjoint(New)
  <2> SUFFICES ASSUME NEW p \in New, NEW q \in New, p # q
               PROVE  p.last < q.first \/ q.last < p.first
    BY DEF Disjoint
  <2>1. \A n \in New : \E r \in R :
          \/ n = r /\ r \notin T
          \/ r \in T /\ r.first < first /\ n = [first |-> r.first, last |-> first - 1]
          \/ r \in T /\ r.last > last /\ n = [first |-> last + 1, last |-> r.last]
    BY <1>1, <1>5, <1>6
  <2>2. PICK r \in R :
          \/ p = r /\ r \notin T
          \/ r \in T /\ r.first < first /\ p = [first |-> r.first, last |-> first - 1]
          \/ r \in T /\ r.last > last /\ p = [first |-> last + 1, last |-> r.last]
    BY <2>1
  <2>3. PICK s \in R :
          \/ q = s /\ s \notin T
          \/ s \in T /\ s.first < first /\ q = [first |-> s.first, last |-> first - 1]
          \/ s \in T /\ s.last > last /\ q = [first |-> last + 1, last |-> s.last]
    BY <2>1
  <2>4. CASE r # s
    BY <1>1, <1>3, <2>2, <2>3, <2>4 DEF Disjoint
  <2>5. CASE r = s
    BY <1>1, <1>3, <2>2, <2>3, <2>5
  <2> QED BY <2>4, <2>5
<1>9. Bytes(New) = Bytes(R) \ (first .. last)
  <2>1. ASSUME NEW n \in Bytes(New) PROVE n \in Bytes(R) /\ n \notin first .. last
    <3>1. PICK p \in New : n \in p.first .. p.last
      BY DEF Bytes
    <3>2. CASE p \in R \ T
      BY <1>3, <1>4, <3>1, <3>2 DEF Bytes
    <3>3. CASE p \in Before
      <4>1. PICK r \in T : r.first < first /\ p = [first |-> r.first, last |-> first - 1]
        BY <1>5, <3>3
      <4>2. r \in R /\ n \in r.first .. r.last /\ n \notin first .. last
        BY <1>1, <1>3, <3>1, <4>1
      <4> QED BY <4>2 DEF Bytes
    <3>4. CASE p \in After
      <4>1. PICK r \in T : r.last > last /\ p = [first |-> last + 1, last |-> r.last]
        BY <1>6, <3>4
      <4>2. r \in R /\ n \in r.first .. r.last /\ n \notin first .. last
        BY <1>1, <1>3, <3>1, <4>1
      <4> QED BY <4>2 DEF Bytes
    <3> QED BY <3>2, <3>3, <3>4
  <2>2. ASSUME NEW n \in Bytes(R), n \notin first .. last PROVE n \in Bytes(New)
    <3>1. PICK r \in R : n \in r.first .. r.last
      BY DEF Bytes
    <3>2. CASE r \notin T
      BY <3>1, <3>2 DEF Bytes
    <3>3. CASE r \in T /\ n < first
      <4>1. [first |-> r.first, last |-> first - 1] \in Before
        BY <1>3, <3>1, <3>3
      <4>2. n \in r.first .. first - 1
        BY <1>3, <3>1, <3>3
      <4>3. \E p \in New : n \in p.first .. p.last
        <5>1. PICK p : p = [first |-> r.first, last |-> first - 1]
          OBVIOUS
        <5>2. p \in New /\ n \in p.first .. p.last
          BY <4>1, <4>2, <5>1
        <5> QED BY <5>2
      <4> QED BY <4>3 DEF Bytes
    <3>4. CASE r \in T /\ n > last
      <4>1. [first |-> last + 1, last |-> r.last] \in After
        BY <1>3, <3>1, <3>4
      <4>2. n \in last + 1 .. r.last
        BY <1>3, <3>1, <3>4
      <4>3. \E p \in New : n \in p.first .. p.last
        <5>1. PICK p : p = [first |-> last + 1, last |-> r.last]
          OBVIOUS
        <5>2. p \in New /\ n \in p.first .. p.last
          BY <4>1, <4>2, <5>1
        <5> QED BY <5>2
      <4> QED BY <4>3 DEF Bytes
    <3> QED BY <1>3, <2>2, <3>1, <3>2, <3>3, <3>4
  <2> QED BY <2>1, <2>2
<1> HIDE DEF New
<1> QED BY <1>2, <1>7, <1>8, <1>9
-----------------------------------------------------------------------------
(* The property map.                                                       *)

LEMMA LargestBelow ==
  ASSUME NEW S \in SUBSET Nat, NEW p \in Nat, S # {}, \A q \in S : q <= p
  PROVE  \E q \in S : \A r \in S : r <= q
<1> DEFINE T == {p - q : q \in S}
<1>1. /\ \A t \in T : t \in Nat
      /\ T # {}
  <2>1. ASSUME NEW t \in T PROVE t \in Nat
    <3>1. PICK q \in S : t = p - q
      OBVIOUS
    <3>2. q \in Nat /\ q <= p
      OBVIOUS
    <3> QED BY <3>1, <3>2
  <2>2. PICK q \in S : TRUE
    OBVIOUS
  <2>3. p - q \in T
    OBVIOUS
  <2> QED BY <2>1, <2>3
<1>2. PICK t \in T : \A u \in T : t <= u
  <2>1. PICK t \in T : \A u \in T : ~(<<u, t>> \in OpToRel(<, Nat))
    <3>1. T \subseteq Nat
      BY <1>1
    <3> HIDE DEF T
    <3> QED BY <1>1, <3>1, WFMin, NatLessThanWellFounded, Zenon
  <2>2. ASSUME NEW u \in T PROVE ~(u < t)
    BY <1>1, <2>1, Zenon DEF OpToRel
  <2> HIDE DEF T
  <2> QED BY <1>1, <2>2
<1>3. PICK q \in S : t = p - q
  OBVIOUS
<1>4. ASSUME NEW r \in S PROVE r <= q
  <2>1. p - r \in T
    OBVIOUS
  <2>2. p - q <= p - r
    BY <1>2, <1>3, <2>1
  <2> QED BY <2>2
<1> QED BY <1>4

(* The split point that decides the flags of p.                            *)
LEMMA ValueAtSplit ==
  ASSUME NEW map, DOMAIN map \subseteq Nat, NEW p \in Nat,
         NEW q \in DOMAIN map, q <= p,
         \A r \in DOMAIN map : r <= p => r <= q
  PROVE  GetValue(map, p) = map[q]
<1>1. q \in Below(map, p) /\ \A r \in Below(map, p) : r <= q
  BY DEF Below
<1>2. ASSUME NEW s \in Below(map, p), \A r \in Below(map, p) : r <= s
      PROVE  s = q
  BY <1>1, <1>2 DEF Below
<1>3. (CHOOSE s \in Below(map, p) : \A r \in Below(map, p) : r <= s) = q
  BY <1>1, <1>2
<1> QED BY <1>1, <1>3 DEF GetValue

LEMMA ValueBeforeAll ==
  ASSUME NEW map, NEW p, \A r \in DOMAIN map : ~(r <= p)
  PROVE  GetValue(map, p) = {}
BY DEF GetValue, Below

LEMMA SplitPoint ==
  ASSUME NEW map, DOMAIN map \subseteq Nat, NEW p \in Nat
  PROVE  \/ \A r \in DOMAIN map : ~(r <= p)
         \/ \E q \in DOMAIN map : q <= p /\ \A r \in DOMAIN map : r <= p => r <= q
<1>1. CASE Below(map, p) = {}
  BY <1>1 DEF Below
<1>2. CASE Below(map, p) # {}
  <2>1. Below(map, p) \in SUBSET Nat /\ \A q \in Below(map, p) : q <= p
    BY DEF Below
  <2>2. PICK q \in Below(map, p) : \A r \in Below(map, p) : r <= q
    BY <1>2, <2>1, LargestBelow
  <2> QED BY <2>2 DEF Below
<1> QED BY <1>1, <1>2

(* split changes no address's flags.                                       *)
LEMMA SplitKeeps ==
  ASSUME NEW map, DOMAIN map \subseteq Nat, NEW s \in Nat, NEW p \in Nat
  PROVE  /\ DOMAIN Split(map, s) = DOMAIN map \cup {s}
         /\ GetValue(Split(map, s), p) = GetValue(map, p)
<1>1. PICK parts : parts = Split(map, s)
  OBVIOUS
<1>2. /\ DOMAIN parts = DOMAIN map \cup {s}
      /\ \A q \in DOMAIN map : parts[q] = map[q]
      /\ s \notin DOMAIN map => parts[s] = GetValue(map, s)
  BY <1>1 DEF Split
<1>3. DOMAIN parts \subseteq Nat
  BY <1>2
<1>4. GetValue(parts, p) = GetValue(map, p)
  <2>1. CASE s \in DOMAIN map \/ s > p
    <3>1. CASE \A r \in DOMAIN map : ~(r <= p)
      <4>1. \A r \in DOMAIN parts : ~(r <= p)
        BY <1>2, <2>1, <3>1
      <4> QED BY <3>1, <4>1, ValueBeforeAll
    <3>2. CASE \E q \in DOMAIN map : q <= p /\ \A r \in DOMAIN map : r <= p => r <= q
      <4>1. PICK q \in DOMAIN map : q <= p /\ \A r \in DOMAIN map : r <= p => r <= q
        BY <3>2
      <4>2. GetValue(map, p) = map[q]
        BY <4>1, ValueAtSplit
      <4>3. q \in DOMAIN parts /\ \A r \in DOMAIN parts : r <= p => r <= q
        BY <1>2, <2>1, <4>1
      <4>4. GetValue(parts, p) = parts[q]
        BY <1>3, <4>1, <4>3, ValueAtSplit
      <4> QED BY <1>2, <4>2, <4>4
    <3> QED BY <3>1, <3>2, SplitPoint
  <2>2. CASE s \notin DOMAIN map /\ s <= p
    <3>1. CASE \E q \in DOMAIN map : q <= p /\ q > s
      <4>1. PICK q \in DOMAIN map : q <= p /\ \A r \in DOMAIN map : r <= p => r <= q
        BY <3>1, SplitPoint
      <4>2. GetValue(map, p) = map[q]
        BY <4>1, ValueAtSplit
      <4>3. s <= q
        BY <3>1, <4>1
      <4>4. q \in DOMAIN parts /\ \A r \in DOMAIN parts : r <= p => r <= q
        BY <1>2, <4>1, <4>3
      <4>5. GetValue(parts, p) = parts[q]
        BY <1>3, <4>1, <4>4, ValueAtSplit
      <4> QED BY <1>2, <4>2, <4>5
    <3>2. CASE \A q \in DOMAIN map : q <= p => q <= s
      <4>1. s \in DOMAIN parts /\ \A r \in DOMAIN parts : r <= p => r <= s
        BY <1>2, <3>2
      <4>2. GetValue(parts, p) = GetValue(map, s)
        BY <1>2, <1>3, <2>2, <4>1, ValueAtSplit
      <4>3. CASE \A r \in DOMAIN map : ~(r <= s)
        <5>1. \A r \in DOMAIN map : ~(r <= p)
          BY <3>2, <4>3
        <5> QED BY <4>2, <4>3, <5>1, ValueBeforeAll
      <4>4. CASE \E q \in DOMAIN map : q <= s /\ \A r \in DOMAIN map : r <= s => r <= q
        <5>1. PICK q \in DOMAIN map : q <= s /\ \A r \in DOMAIN map : r <= s => r <= q
          BY <4>4
        <5>2. q <= p /\ \A r \in DOMAIN map : r <= p => r <= q
          BY <2>2, <3>2, <5>1
        <5>3. GetValue(map, s) = map[q]
          BY <5>1, ValueAtSplit
        <5>4. GetValue(map, p) = map[q]
          BY <5>2, ValueAtSplit
        <5> QED BY <4>2, <5>3, <5>4
      <4> QED BY <4>3, <4>4, SplitPoint
    <3> QED BY <3>1, <3>2
  <2> QED BY <2>1, <2>2
<1> QED BY <1>1, <1>2, <1>4

(* Both ends of the range are split points, so raising the flags of the    *)
(* points inside it raises those of its addresses and of no other.         *)
LEMMA RaisedBetweenSplits ==
  ASSUME NEW map, DOMAIN map \subseteq Nat,
         NEW first \in Nat, NEW last \in Nat, first <= last,
         first \in DOMAIN map, last + 1 \in DOMAIN map,
         NEW flags, NEW p \in Nat
  PROVE  /\ DOMAIN Raised(map, flags, first, last) = DOMAIN map
         /\ first <= p /\ p <= last =>
              GetValue(Raised(map, flags, first, last), p) = GetValue(map, p) \cup flags
         /\ ~(first <= p /\ p <= last) =>
              GetValue(Raised(map, flags, first, last), p) = GetValue(map, p)
<1> DEFINE raised == Raised(map, flags, first, last)
<1>1. /\ DOMAIN raised = DOMAIN map
      /\ \A q \in DOMAIN map :
           raised[q] = IF first <= q /\ q <= last THEN map[q] \cup flags ELSE map[q]
  BY DEF Raised
<1> HIDE DEF raised
<1>2. CASE \A r \in DOMAIN map : ~(r <= p)
  <2>1. ~(first <= p)
    BY <1>2
  <2> QED BY <1>1, <1>2, <2>1, ValueBeforeAll DEF raised
<1>3. CASE \E q \in DOMAIN map : q <= p /\ \A r \in DOMAIN map : r <= p => r <= q
  <2>1. PICK q \in DOMAIN map : q <= p /\ \A r \in DOMAIN map : r <= p => r <= q
    BY <1>3
  <2>2. GetValue(map, p) = map[q]
    BY <2>1, ValueAtSplit
  <2>3. GetValue(raised, p) = raised[q]
    BY <1>1, <2>1, ValueAtSplit
  <2>4. (first <= q /\ q <= last) <=> (first <= p /\ p <= last)
    BY <2>1
  <2> QED BY <1>1, <2>2, <2>3, <2>4 DEF raised
<1> QED BY <1>2, <1>3, SplitPoint DEF raised

(* setPropertyRange, for every map, range and set of flags.                *)
THEOREM PropertyRangeRaised ==
  ASSUME NEW map, DOMAIN map \subseteq Nat,
         NEW first \in Nat, NEW last \in Nat, first <= last, NEW flags,
         NEW p \in Nat
  PROVE  /\ first <= p /\ p <= last =>
              GetValue(SetPropertyRange(map, flags, first, last), p)
                = GetValue(map, p) \cup flags
         /\ ~(first <= p /\ p <= last) =>
              GetValue(SetPropertyRange(map, flags, first, last), p) = GetValue(map, p)
<1>1. PICK left : left = Split(map, first)
  OBVIOUS
<1>2. PICK parts : parts = Split(left, last + 1)
  OBVIOUS
<1>3. SetPropertyRange(map, flags, first, last) = Raised(parts, flags, first, last)
  BY <1>1, <1>2 DEF SetPropertyRange
<1>4. last + 1 \in Nat
  OBVIOUS
<1>5. DOMAIN left = DOMAIN map \cup {first} /\ GetValue(left, p) = GetValue(map, p)
  BY <1>1, SplitKeeps
<1>6. DOMAIN left \subseteq Nat
  BY <1>5
<1>7. DOMAIN parts = DOMAIN left \cup {last + 1} /\ GetValue(parts, p) = GetValue(left, p)
  BY <1>2, <1>4, <1>6, SplitKeeps
<1>8. /\ DOMAIN parts \subseteq Nat
      /\ first \in DOMAIN parts /\ last + 1 \in DOMAIN parts
  BY <1>4, <1>5, <1>6, <1>7
<1>9. /\ DOMAIN Raised(parts, flags, first, last) = DOMAIN parts
      /\ first <= p /\ p <= last =>
           GetValue(Raised(parts, flags, first, last), p) = GetValue(parts, p) \cup flags
      /\ ~(first <= p /\ p <= last) =>
           GetValue(Raised(parts, flags, first, last), p) = GetValue(parts, p)
  BY <1>8, RaisedBetweenSplits
<1> QED BY <1>3, <1>5, <1>7, <1>9

(* Split and Raised put no other flags into a map than those it is given.  *)
LEMMA ValueIsFlags ==
  ASSUME NEW map, DOMAIN map \subseteq Nat, NEW F,
         \A q \in DOMAIN map : map[q] \in SUBSET F, NEW p \in Nat
  PROVE  GetValue(map, p) \in SUBSET F
<1>1. CASE \A r \in DOMAIN map : ~(r <= p)
  BY <1>1, ValueBeforeAll
<1>2. CASE \E q \in DOMAIN map : q <= p /\ \A r \in DOMAIN map : r <= p => r <= q
  <2>1. PICK q \in DOMAIN map : q <= p /\ \A r \in DOMAIN map : r <= p => r <= q
    BY <1>2
  <2> QED BY <2>1, ValueAtSplit
<1> QED BY <1>1, <1>2, SplitPoint

LEMMA SplitIsFlags ==
  ASSUME NEW map, DOMAIN map \subseteq Nat, NEW F,
         \A q \in DOMAIN map : map[q] \in SUBSET F, NEW s \in Nat
  PROVE  /\ DOMAIN Split(map, s) \subseteq Nat
         /\ \A q \in DOMAIN Split(map, s) : Split(map, s)[q] \in SUBSET F
<1>1. GetValue(map, s) \in SUBSET F
  BY ValueIsFlags
<1> QED BY <1>1 DEF Split

LEMMA RaisedIsFlags ==
  ASSUME NEW map, NEW F, \A q \in DOMAIN map : map[q] \in SUBSET F,
         NEW first, NEW last, NEW flags \in SUBSET F
  PROVE  /\ DOMAIN Raised(map, flags, first, last) = DOMAIN map
         /\ \A q \in DOMAIN map : Raised(map, flags, first, last)[q] \in SUBSET F
BY DEF Raised

LEMMA PropertyRangeIsFlags ==
  ASSUME NEW map, DOMAIN map \subseteq Nat, NEW F,
         \A q \in DOMAIN map : map[q] \in SUBSET F,
         NEW first \in Nat, NEW last \in Nat, NEW flags \in SUBSET F
  PROVE  /\ DOMAIN SetPropertyRange(map, flags, first, last) \subseteq Nat
         /\ \A q \in DOMAIN SetPropertyRange(map, flags, first, last) :
              SetPropertyRange(map, flags, first, last)[q] \in SUBSET F
<1>1. PICK left : left = Split(map, first)
  OBVIOUS
<1>2. PICK end \in Nat : end = last + 1
  OBVIOUS
<1>3. PICK parts : parts = Split(left, end)
  OBVIOUS
<1>4. SetPropertyRange(map, flags, first, last) = Raised(parts, flags, first, last)
  BY <1>1, <1>2, <1>3 DEF SetPropertyRange
<1>5. DOMAIN left \subseteq Nat /\ \A q \in DOMAIN left : left[q] \in SUBSET F
  BY <1>1, SplitIsFlags
<1>6. DOMAIN parts \subseteq Nat /\ \A q \in DOMAIN parts : parts[q] \in SUBSET F
  BY <1>5, <1>3, SplitIsFlags
<1>7. /\ DOMAIN Raised(parts, flags, first, last) = DOMAIN parts
      /\ \A q \in DOMAIN parts : Raised(parts, flags, first, last)[q] \in SUBSET F
  BY <1>6, RaisedIsFlags
<1> QED BY <1>4, <1>6, <1>7
=============================================================================
