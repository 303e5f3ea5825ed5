-------------------------- MODULE TokenQueue_proofs --------------------------
(***************************************************************************)
(* Proofs about the two queues of EmitPrettyPrint, for queues of any size  *)
(* however often they wrap around and are expanded: that scanqueue refers  *)
(* to the tokens of tokqueue whose size is not known, that no text waits   *)
(* with no reference, that the queues are expanded only with one, that     *)
(* tokens are printed in the order they came in, that the printer is       *)
(* clean between two functions, and that no line is broken in a group that *)
(* was measured to fit on it.                                              *)
(*                                                                         *)
(* Slots of a circular array come first, then the sequence of tokens it    *)
(* stands for, what each operation does to that sequence, the invariant    *)
(* QInv over it, and what follows; then how the groups that wait nest; and *)
(* last what the sizes of the tokens say of the layout, UnitInv.           *)
(***************************************************************************)
EXTENDS EmitPrettyPrint_proofs, SequenceTheorems
-----------------------------------------------------------------------------
(* The indices of a circular array of m slots: Slot(l, m, i) is the i-th   *)
(* from the left end l, and all of them are less than a turn away.         *)
LEMMA Wraps ==
  ASSUME NEW m \in Nat \ {0}, NEW a \in Int, -m <= a, a < 2 * m
  PROVE  a % m = IF a < 0 THEN a + m ELSE IF a < m THEN a ELSE a - m
<1>1. a < 0 => a % m = a + m
  OBVIOUS
<1>2. 0 <= a /\ a < m => a % m = a
  OBVIOUS
<1>3. m <= a => a % m = a - m
  OBVIOUS
<1> QED BY <1>1, <1>2, <1>3

Slot(l, m, i) == (l + i - 1) % m

LEMMA SlotIs ==
  ASSUME NEW m \in Nat \ {0}, NEW l \in 0 .. m - 1, NEW i \in 0 .. m
  PROVE  Slot(l, m, i) = IF l + i - 1 < 0 THEN m - 1
                         ELSE IF l + i - 1 < m THEN l + i - 1 ELSE l + i - 1 - m
<1> DEFINE a == l + i - 1
<1>1. a \in Int /\ -m <= a /\ a < 2 * m /\ (a < 0 => a + m = m - 1)
  OBVIOUS
<1> HIDE DEF a
<1>2. a % m = IF a < 0 THEN a + m ELSE IF a < m THEN a ELSE a - m
  BY <1>1, Wraps
<1> QED BY <1>1, <1>2 DEF a, Slot

LEMMA SlotRange ==
  ASSUME NEW m \in Nat \ {0}, NEW l \in 0 .. m - 1, NEW i \in 0 .. m
  PROVE  Slot(l, m, i) \in 0 .. m - 1 /\ Slot(l, m, 1) = l
<1>1. 1 \in 0 .. m
  OBVIOUS
<1>2. Slot(l, m, i) \in 0 .. m - 1
  <2> DEFINE s == Slot(l, m, i)
  <2>1. s = IF l + i - 1 < 0 THEN m - 1
            ELSE IF l + i - 1 < m THEN l + i - 1 ELSE l + i - 1 - m
    BY SlotIs
  <2> HIDE DEF s
  <2>2. s \in 0 .. m - 1
    BY <2>1
  <2> QED BY <2>2 DEF s
<1>3. Slot(l, m, 1) = l
  BY <1>1, SlotIs
<1> QED BY <1>2, <1>3

LEMMA SlotsApart ==
  ASSUME NEW m \in Nat \ {0}, NEW l \in 0 .. m - 1,
         NEW i \in 0 .. m, NEW j \in 0 .. m, Slot(l, m, i) = Slot(l, m, j)
  PROVE  i = j \/ (i = 0 /\ j = m) \/ (i = m /\ j = 0)
<1> DEFINE s == Slot(l, m, i)
           t == Slot(l, m, j)
<1>1. /\ s = IF l + i - 1 < 0 THEN m - 1
             ELSE IF l + i - 1 < m THEN l + i - 1 ELSE l + i - 1 - m
      /\ t = IF l + j - 1 < 0 THEN m - 1
             ELSE IF l + j - 1 < m THEN l + j - 1 ELSE l + j - 1 - m
  BY SlotIs
<1>2. s = t
  OBVIOUS
<1> HIDE DEF s, t
<1> QED BY <1>1, <1>2

LEMMA NextSlot ==
  ASSUME NEW m \in Nat \ {0}, NEW l \in 0 .. m - 1, NEW i \in 0 .. m - 1
  PROVE  /\ (Slot(l, m, i) + 1) % m = Slot(l, m, i + 1)
         /\ Slot((l + 1) % m, m, i) = Slot(l, m, i + 1)
         /\ (l + 1) % m \in 0 .. m - 1
<1>1. \A r \in 0 .. m - 1 : (r + 1) % m = IF r + 1 < m THEN r + 1 ELSE 0
  <2>1. SUFFICES ASSUME NEW r \in 0 .. m - 1
                 PROVE  (r + 1) % m = IF r + 1 < m THEN r + 1 ELSE 0
    OBVIOUS
  <2>2. r + 1 < m => (r + 1) % m = r + 1
    OBVIOUS
  <2>3. m % m = 0
    OBVIOUS
  <2> QED BY <2>2, <2>3
<1>2. i \in 0 .. m /\ i + 1 \in 0 .. m
  OBVIOUS
<1>3. Slot(l, m, i) \in 0 .. m - 1
  BY <1>2, SlotRange
<1>4. (Slot(l, m, i) + 1) % m = Slot(l, m, i + 1)
  <2> DEFINE s == Slot(l, m, i)
             t == Slot(l, m, i + 1)
  <2>1. /\ s = IF l + i - 1 < 0 THEN m - 1
                ELSE IF l + i - 1 < m THEN l + i - 1 ELSE l + i - 1 - m
        /\ t = IF l + i < m THEN l + i ELSE l + i - m
    BY <1>2, SlotIs
  <2>2. (s + 1) % m = IF s + 1 < m THEN s + 1 ELSE 0
    BY <1>1, <1>3
  <2>3. s \in Int
    BY <1>3
  <2> HIDE DEF s, t
  <2>4. (IF s + 1 < m THEN s + 1 ELSE 0) = t
    BY <2>1, <2>3
  <2> QED BY <2>2, <2>4 DEF s, t
<1>5. (l + 1) % m = IF l + 1 < m THEN l + 1 ELSE 0
  BY <1>1
<1>6. (l + 1) % m \in 0 .. m - 1
  BY <1>5
<1>7. Slot((l + 1) % m, m, i) = Slot(l, m, i + 1)
  <2> DEFINE k == (l + 1) % m
             s == Slot(k, m, i)
             t == Slot(l, m, i + 1)
  <2>1. k = (IF l + 1 < m THEN l + 1 ELSE 0) /\ k \in 0 .. m - 1
    BY <1>5, <1>6
  <2> HIDE DEF k
  <2>2. /\ s = IF k + i - 1 < 0 THEN m - 1
                ELSE IF k + i - 1 < m THEN k + i - 1 ELSE k + i - 1 - m
        /\ t = IF l + i < m THEN l + i ELSE l + i - m
    BY <1>2, <2>1, SlotIs
  <2> HIDE DEF s, t
  <2>3. s = t
    BY <2>1, <2>2
  <2> QED BY <2>3 DEF s, t, k
<1> QED BY <1>4, <1>6, <1>7

LEMMA PreviousSlot ==
  ASSUME NEW m \in Nat \ {0}, NEW l \in 0 .. m - 1, NEW i \in 1 .. m
  PROVE  (Slot(l, m, i) + m - 1) % m = Slot(l, m, i - 1)
<1>1. i \in 0 .. m /\ i - 1 \in 0 .. m
  OBVIOUS
<1>2. Slot(l, m, i) \in 0 .. m - 1
  BY <1>1, SlotRange
<1>3. \A r \in 0 .. m - 1 : (r + m - 1) % m = IF r = 0 THEN m - 1 ELSE r - 1
  <2>1. SUFFICES ASSUME NEW r \in 0 .. m - 1
                 PROVE  (r + m - 1) % m = IF r = 0 THEN m - 1 ELSE r - 1
    OBVIOUS
  <2> DEFINE a == r + m - 1
  <2>2. a \in Int /\ -m <= a /\ a < 2 * m /\ 0 <= a
        /\ (a < m <=> r = 0) /\ (r = 0 => a = m - 1) /\ a - m = r - 1
    OBVIOUS
  <2> HIDE DEF a
  <2>3. a % m = IF a < 0 THEN a + m ELSE IF a < m THEN a ELSE a - m
    BY <2>2, Wraps
  <2>4. a % m = IF r = 0 THEN m - 1 ELSE r - 1
    BY <2>2, <2>3
  <2> QED BY <2>4 DEF a
<1> DEFINE s == Slot(l, m, i)
           t == Slot(l, m, i - 1)
<1>4. /\ s = IF l + i - 1 < m THEN l + i - 1 ELSE l + i - 1 - m
      /\ t = IF l + i - 2 < 0 THEN m - 1
             ELSE IF l + i - 2 < m THEN l + i - 2 ELSE l + i - 2 - m
  BY <1>1, SlotIs
<1>5. (s + m - 1) % m = IF s = 0 THEN m - 1 ELSE s - 1
  BY <1>2, <1>3
<1>6. s \in Int
  BY <1>2
<1> HIDE DEF s, t
<1>7. (IF s = 0 THEN m - 1 ELSE s - 1) = t
  BY <1>4, <1>6
<1> QED BY <1>5, <1>7 DEF s, t

(* The number of slots from l to r, and the place of a slot.               *)
LEMMA SlotPlace ==
  ASSUME NEW m \in Nat \ {0}, NEW l \in 0 .. m - 1, NEW i \in 1 .. m
  PROVE  /\ (Slot(l, m, i) - l) % m = i - 1
         /\ (Slot(l, m, i) + m - l) % m = i - 1
<1> DEFINE s == Slot(l, m, i)
           a == s - l
           b == s + m - l
<1>1. i \in 0 .. m /\ s \in 0 .. m - 1
      /\ s = IF l + i - 1 < m THEN l + i - 1 ELSE l + i - 1 - m
  BY SlotRange, SlotIs
<1> HIDE DEF s
<1>2. a \in Int /\ -m <= a /\ a < 2 * m /\ a < m
      /\ b \in Int /\ -m <= b /\ b < 2 * m /\ 0 <= b
      /\ (IF a < 0 THEN a + m ELSE a) = i - 1
      /\ (IF b < m THEN b ELSE b - m) = i - 1
  BY <1>1
<1> HIDE DEF a, b
<1>3. a % m = IF a < 0 THEN a + m ELSE IF a < m THEN a ELSE a - m
  BY <1>2, Wraps
<1>4. b % m = IF b < 0 THEN b + m ELSE IF b < m THEN b ELSE b - m
  BY <1>2, Wraps
<1>5. a % m = i - 1 /\ b % m = i - 1
  BY <1>2, <1>3, <1>4
<1> QED BY <1>5 DEF a, b, s

Count(l, m, r) == (r + 1 - l) % m

LEMMA SlotCount ==
  ASSUME NEW m \in Nat \ {0}, NEW l \in 0 .. m - 1, NEW r \in 0 .. m - 1
  PROVE  /\ Count(l, m, r) \in 0 .. m - 1
         /\ r = Slot(l, m, Count(l, m, r))
         /\ \A n \in 0 .. m - 1 : r = Slot(l, m, n) => Count(l, m, r) = n
         /\ l = (r + 1) % m <=> Count(l, m, r) = 0
<1> DEFINE a == r + 1 - l
           h == a % m
<1>1. a \in Int /\ -m <= a /\ a < 2 * m
  OBVIOUS
<1>2. h = IF a < 0 THEN a + m ELSE IF a < m THEN a ELSE a - m
  <2> HIDE DEF a
  <2> QED BY <1>1, Wraps
<1> HIDE DEF h
<1>3. h \in 0 .. m - 1
  BY <1>2
<1>4. Slot(l, m, h) = r
  BY <1>2, <1>3, SlotIs
<1>5. \A n \in 0 .. m - 1 : r = Slot(l, m, n) => h = n
  BY <1>3, <1>4, SlotsApart
<1>6. (r + 1) % m = IF r + 1 < m THEN r + 1 ELSE 0
  <2>1. r + 1 < m => (r + 1) % m = r + 1
    OBVIOUS
  <2>2. m % m = 0
    OBVIOUS
  <2> QED BY <2>1, <2>2
<1>7. l = (r + 1) % m <=> h = 0
  BY <1>2, <1>6
<1>8. Count(l, m, r) = h
  BY DEF Count, h
<1> QED BY <1>3, <1>4, <1>5, <1>7, <1>8
-----------------------------------------------------------------------------
(* A queue q that holds the sequence s, all its slots at most.             *)
Spans(q, S, s) ==
  /\ Queue(q, S)
  /\ s \in Seq(S) /\ Len(s) <= q.max
  /\ q.right = Slot(q.left, q.max, Len(s))
  /\ \A i \in 1 .. Len(s) : q.cache[Slot(q.left, q.max, i)] = s[i]

Holds(q, S, s) == Spans(q, S, s) /\ Len(s) < q.max

(* The same with a constant for every size.                                *)
Spread(q, S, s, m, l, n) ==
  /\ q.max = m /\ q.left = l /\ Len(s) = n
  /\ q.right = Slot(l, m, n) /\ q.right \in 0 .. m - 1
  /\ q.cache \in [0 .. m - 1 -> S]
  /\ s \in Seq(S) /\ DOMAIN s = 1 .. n
  /\ \A i \in 1 .. n : /\ q.cache[Slot(l, m, i)] = s[i]
                      /\ Slot(l, m, i) \in 0 .. m - 1

LEMMA SpansParts ==
  ASSUME NEW S, NEW q, NEW s, Spans(q, S, s)
  PROVE  \E m \in Nat \ {0} : \E l \in 0 .. m - 1, n \in 0 .. m :
           Spread(q, S, s, m, l, n)
<1>1. PICK m \in Nat \ {0} : q.max = m
  BY QueueParts DEF Spans
<1>2. PICK l \in 0 .. m - 1 : q.left = l
  BY <1>1, QueueParts DEF Spans
<1>3. q.right \in 0 .. m - 1 /\ q.cache \in [0 .. m - 1 -> S]
  BY <1>1, QueueParts DEF Spans
<1>4. PICK n \in 0 .. m : Len(s) = n
  BY <1>1 DEF Spans
<1>5. s \in Seq(S) /\ DOMAIN s = 1 .. n
  BY <1>4 DEF Spans
<1>6. \A i \in 1 .. n : i \in 0 .. m
  OBVIOUS
<1>7. \A i \in 1 .. n : /\ q.cache[Slot(l, m, i)] = s[i]
                        /\ Slot(l, m, i) \in 0 .. m - 1
  BY <1>1, <1>2, <1>4, <1>6, SlotRange DEF Spans
<1>8. q.right = Slot(l, m, n)
  BY <1>1, <1>2, <1>4 DEF Spans
<1>9. Spread(q, S, s, m, l, n)
  BY <1>1, <1>2, <1>3, <1>4, <1>5, <1>7, <1>8 DEF Spread
<1> QED BY <1>1, <1>2, <1>4, <1>9

(* Any queue holds its elements, and what a queue holds are its elements.  *)
LEMMA HoldsElements ==
  ASSUME NEW S, NEW q, Queue(q, S)
  PROVE  Holds(q, S, Elements(q)) /\ Len(Elements(q)) = Held(q)
<1>1. PICK m \in Nat \ {0} : q.max = m
  BY QueueParts
<1>2. PICK l \in 0 .. m - 1 : q.left = l
  BY <1>1, QueueParts
<1>3. PICK r \in 0 .. m - 1 : q.right = r
  BY <1>1, QueueParts
<1>4. q.cache \in [0 .. m - 1 -> S]
  BY <1>1, QueueParts
<1> DEFINE h == Count(l, m, r)
<1>13. Held(q) = h
  BY <1>1, <1>2, <1>3 DEF Held, Count
<1>14. h \in 0 .. m - 1 /\ r = Slot(l, m, h)
  BY SlotCount
<1> HIDE DEF h
<1>5. PICK n \in 0 .. m - 1 : Held(q) = n /\ r = Slot(l, m, n)
  BY <1>13, <1>14
<1>6. Elements(q) = [i \in 1 .. n |-> q.cache[Slot(l, m, i)]]
  BY <1>1, <1>2, <1>5 DEF Elements, Slot
<1>7. \A i \in 1 .. n : i \in 0 .. m
  OBVIOUS
<1>8. \A i \in 1 .. n : q.cache[Slot(l, m, i)] \in S
  BY <1>4, <1>7, SlotRange
<1>9. Elements(q) \in Seq(S) /\ Len(Elements(q)) = n
  BY <1>6, <1>8
<1>10. \A i \in 1 .. n : q.cache[Slot(q.left, q.max, i)] = Elements(q)[i]
  BY <1>1, <1>2, <1>6
<1>11. n <= m /\ n < m
  OBVIOUS
<1> QED BY <1>1, <1>2, <1>3, <1>5, <1>9, <1>10, <1>11 DEF Holds, Spans

LEMMA ElementsHeld ==
  ASSUME NEW S, NEW q, NEW s, Holds(q, S, s)
  PROVE  /\ Elements(q) = s /\ Held(q) = Len(s)
         /\ IsEmpty(q) <=> Len(s) = 0
         /\ Len(s) > 0 => Top(q) = s[Len(s)] /\ Bottom(q) = s[1]
<1>1. PICK m \in Nat \ {0} : \E l \in 0 .. m - 1, n \in 0 .. m :
        Spread(q, S, s, m, l, n)
  <2>1. Spans(q, S, s)
    BY DEF Holds
  <2> QED BY <2>1, SpansParts
<1>2. PICK l \in 0 .. m - 1, n \in 0 .. m :
           /\ q.max = m /\ q.left = l /\ Len(s) = n
           /\ q.right = Slot(l, m, n) /\ q.right \in 0 .. m - 1
           /\ s \in Seq(S) /\ DOMAIN s = 1 .. n
           /\ \A i \in 1 .. n : q.cache[Slot(l, m, i)] = s[i]
  BY <1>1 DEF Spread
<1>3. n \in 0 .. m - 1
  BY <1>2 DEF Holds
<1>4. PICK r \in 0 .. m - 1 : q.right = r
  BY <1>2
<1>5. Held(q) = n /\ (IsEmpty(q) <=> n = 0)
  <2> DEFINE h == Count(l, m, r)
  <2>1. Held(q) = h
    BY <1>2, <1>4 DEF Held, Count
  <2>2. IsEmpty(q) <=> l = (r + 1) % m
    BY <1>2, <1>4 DEF IsEmpty
  <2>3. r = Slot(l, m, n)
    BY <1>2, <1>4
  <2>4. \A k \in 0 .. m - 1 : r = Slot(l, m, k) => h = k
    BY SlotCount
  <2>5. l = (r + 1) % m <=> h = 0
    BY SlotCount
  <2> HIDE DEF h
  <2>6. h = n
    BY <1>3, <2>3, <2>4
  <2> QED BY <2>1, <2>2, <2>5, <2>6
<1>6. Elements(q) = [i \in 1 .. n |-> q.cache[Slot(l, m, i)]]
  BY <1>2, <1>5 DEF Elements, Slot
<1>7. Elements(q) = [i \in 1 .. n |-> s[i]]
  BY <1>2, <1>6
<1>8. Elements(q) = s
  BY <1>2, <1>7
<1>9. ASSUME n > 0 PROVE Top(q) = s[n] /\ Bottom(q) = s[1]
  <2>1. 1 \in 1 .. n /\ n \in 1 .. n /\ 0 \in 0 .. m
    BY <1>9
  <2>2. Slot(l, m, 1) = l
    BY <2>1, SlotRange
  <2> QED BY <1>2, <2>1, <2>2 DEF Top, Bottom
<1> QED BY <1>2, <1>5, <1>8, <1>9
-----------------------------------------------------------------------------
(* The operations of a circular queue are those of a sequence.             *)
LEMMA PushedHolds ==
  ASSUME NEW S, NEW q, NEW s, Holds(q, S, s), NEW x \in S
  PROVE  /\ Spans(Pushed(q, x), S, Append(s, x))
         /\ Pushed(q, x).max = q.max /\ Pushed(q, x).left = q.left
         /\ IsEmpty(Pushed(q, x)) <=> Len(s) + 1 = q.max
<1> DEFINE p == Pushed(q, x)
<1>1. Spans(q, S, s) /\ Len(s) < q.max
  BY DEF Holds
<1>2. PICK m \in Nat \ {0} : \E l \in 0 .. m - 1, n \in 0 .. m :
        Spread(q, S, s, m, l, n)
  BY <1>1, SpansParts
<1>3. PICK l \in 0 .. m - 1, n \in 0 .. m :
           /\ q.max = m /\ q.left = l /\ Len(s) = n
           /\ q.right = Slot(l, m, n)
           /\ q.cache \in [0 .. m - 1 -> S]
           /\ s \in Seq(S) /\ DOMAIN s = 1 .. n
           /\ \A i \in 1 .. n : /\ q.cache[Slot(l, m, i)] = s[i]
                               /\ Slot(l, m, i) \in 0 .. m - 1
  BY <1>2 DEF Spread
<1>4. n \in 0 .. m - 1 /\ n + 1 \in 0 .. m
  BY <1>1, <1>3
<1> DEFINE r == Slot(l, m, n + 1)
<1>5. (q.right + 1) % q.max = r /\ r \in 0 .. m - 1
  <2>1. (Slot(l, m, n) + 1) % m = r
    BY <1>4, NextSlot
  <2>2. r \in 0 .. m - 1
    BY <1>4, SlotRange
  <2> HIDE DEF r
  <2> QED BY <1>3, <2>1, <2>2
<1>6. /\ p.max = m /\ p.left = l /\ p.right = r
      /\ p.cache = [q.cache EXCEPT ![r] = x]
  BY <1>3, <1>5 DEF Pushed, QueueOf
<1>7. Queue(p, S)
  <2>1. Queue(q, S)
    BY <1>1 DEF Spans
  <2> QED BY <2>1, PushedType
<1>8. ASSUME NEW i \in 1 .. n PROVE Slot(l, m, i) # r
  <2>1. i \in 0 .. m /\ i # n + 1 /\ i # 0 /\ n + 1 # 0
    OBVIOUS
  <2> QED BY <1>4, <2>1, SlotsApart
<1> HIDE DEF r, p
<1>9. /\ Append(s, x) \in Seq(S) /\ Len(Append(s, x)) = n + 1
      /\ \A i \in 1 .. n : Append(s, x)[i] = s[i]
      /\ Append(s, x)[n + 1] = x
  BY <1>3
<1>10. \A i \in 1 .. n + 1 : p.cache[Slot(l, m, i)] = Append(s, x)[i]
  <2>1. SUFFICES ASSUME NEW i \in 1 .. n + 1
                 PROVE  p.cache[Slot(l, m, i)] = Append(s, x)[i]
    OBVIOUS
  <2>2. CASE i = n + 1
    BY <1>3, <1>5, <1>6, <1>9, <2>2 DEF r
  <2>3. CASE i # n + 1
    <3>1. i \in 1 .. n
      BY <2>3
    <3> QED BY <1>3, <1>5, <1>6, <1>8, <1>9, <3>1
  <2> QED BY <2>2, <2>3
<1>11. Spans(p, S, Append(s, x))
  BY <1>4, <1>6, <1>7, <1>9, <1>10 DEF Spans, r
<1>12. IsEmpty(p) <=> n + 1 = m
  <2>1. CASE n + 1 = m
    <3>1. r = Slot(l, m, m)
      BY <2>1 DEF r
    <3>2. (r + 1) % m = l
      <4>1. Slot(l, m, m) = IF l - 1 < 0 THEN m - 1 ELSE l - 1
        <5>1. m \in 0 .. m
          OBVIOUS
        <5>2. Slot(l, m, m) = IF l + m - 1 < 0 THEN m - 1
                 ELSE IF l + m - 1 < m THEN l + m - 1 ELSE l + m - 1 - m
          BY <5>1, SlotIs
        <5> QED BY <5>2
      <4>2. (r = m - 1 /\ l = 0) \/ (r = l - 1 /\ l > 0)
        <5>1. CASE l = 0
          <6>1. l - 1 < 0
            BY <5>1
          <6>2. r = m - 1
            BY <3>1, <4>1, <6>1
          <6> QED BY <5>1, <6>2
        <5>2. CASE l > 0
          <6>1. ~(l - 1 < 0)
            BY <5>2
          <6> QED BY <3>1, <4>1, <5>2, <6>1
        <5> QED BY <5>1, <5>2
      <4>3. m % m = 0 /\ l % m = l
        OBVIOUS
      <4> QED BY <4>2, <4>3
    <3> QED BY <1>6, <2>1, <3>2 DEF IsEmpty
  <2>2. CASE n + 1 # m
    <3>1. n + 1 \in 0 .. m - 1
      BY <1>4, <2>2
    <3>2. Count(l, m, r) = n + 1
      BY <1>5, <3>1, SlotCount DEF r
    <3>3. l # (r + 1) % m
      BY <1>5, <3>2, SlotCount
    <3> QED BY <1>6, <2>2, <3>3 DEF IsEmpty
  <2> QED BY <2>1, <2>2
<1> QED BY <1>3, <1>6, <1>11, <1>12 DEF p

LEMMA PoppedHolds ==
  ASSUME NEW S, NEW q, NEW s, Holds(q, S, s), Len(s) > 0, NEW b \in S
  PROVE  /\ Holds(Popped(q, b), S, SubSeq(s, 1, Len(s) - 1))
         /\ Popped(q, b).max = q.max /\ Popped(q, b).left = q.left
<1> DEFINE p == Popped(q, b)
<1>1. Spans(q, S, s) /\ Len(s) < q.max
  BY DEF Holds
<1>2. PICK m \in Nat \ {0} : \E l \in 0 .. m - 1, n \in 0 .. m :
        Spread(q, S, s, m, l, n)
  BY <1>1, SpansParts
<1>3. PICK l \in 0 .. m - 1, n \in 0 .. m :
           /\ q.max = m /\ q.left = l /\ Len(s) = n
           /\ q.right = Slot(l, m, n)
           /\ q.cache \in [0 .. m - 1 -> S]
           /\ s \in Seq(S) /\ DOMAIN s = 1 .. n
           /\ \A i \in 1 .. n : /\ q.cache[Slot(l, m, i)] = s[i]
                               /\ Slot(l, m, i) \in 0 .. m - 1
  BY <1>2 DEF Spread
<1>4. n \in 1 .. m /\ n - 1 \in 0 .. m /\ n - 1 < m
  BY <1>1, <1>3
<1> DEFINE r == Slot(l, m, n)
<1>5. (q.right + q.max - 1) % q.max = Slot(l, m, n - 1)
  BY <1>3, <1>4, PreviousSlot
<1>6. /\ p.max = m /\ p.left = l /\ p.right = Slot(l, m, n - 1)
      /\ p.cache = [q.cache EXCEPT ![r] = b]
  BY <1>3, <1>5 DEF Popped, QueueOf
<1>7. Queue(p, S)
  <2>1. Queue(q, S)
    BY <1>1 DEF Spans
  <2> QED BY <2>1, PoppedType
<1>8. ASSUME NEW i \in 1 .. n - 1 PROVE Slot(l, m, i) # r
  <2>1. i \in 0 .. m /\ i # n /\ i # 0 /\ n # 0
    OBVIOUS
  <2> QED BY <2>1, SlotsApart
<1> HIDE DEF r, p
<1>9. /\ SubSeq(s, 1, n - 1) \in Seq(S) /\ Len(SubSeq(s, 1, n - 1)) = n - 1
      /\ \A i \in 1 .. n - 1 : SubSeq(s, 1, n - 1)[i] = s[i]
  BY <1>3, <1>4
<1>10. \A i \in 1 .. n - 1 : p.cache[Slot(l, m, i)] = SubSeq(s, 1, n - 1)[i]
  <2>1. SUFFICES ASSUME NEW i \in 1 .. n - 1
                 PROVE  p.cache[Slot(l, m, i)] = SubSeq(s, 1, n - 1)[i]
    OBVIOUS
  <2>2. i \in 1 .. n
    OBVIOUS
  <2> QED BY <1>3, <1>6, <1>8, <1>9, <2>2
<1>11. Spans(p, S, SubSeq(s, 1, n - 1))
  BY <1>4, <1>6, <1>7, <1>9, <1>10 DEF Spans
<1> QED BY <1>3, <1>4, <1>6, <1>9, <1>11 DEF p, Holds

LEMMA BottomPoppedHolds ==
  ASSUME NEW S, NEW q, NEW s, Holds(q, S, s), Len(s) > 0, NEW b \in S
  PROVE  /\ Holds(BottomPopped(q, b), S, Tail(s))
         /\ BottomPopped(q, b).max = q.max
         /\ BottomPopped(q, b).left = (q.left + 1) % q.max
<1> DEFINE p == BottomPopped(q, b)
<1>1. Spans(q, S, s) /\ Len(s) < q.max
  BY DEF Holds
<1>2. PICK m \in Nat \ {0} : \E l \in 0 .. m - 1, n \in 0 .. m :
        Spread(q, S, s, m, l, n)
  BY <1>1, SpansParts
<1>3. PICK l \in 0 .. m - 1, n \in 0 .. m :
           /\ q.max = m /\ q.left = l /\ Len(s) = n
           /\ q.right = Slot(l, m, n)
           /\ q.cache \in [0 .. m - 1 -> S]
           /\ s \in Seq(S) /\ DOMAIN s = 1 .. n
           /\ \A i \in 1 .. n : /\ q.cache[Slot(l, m, i)] = s[i]
                               /\ Slot(l, m, i) \in 0 .. m - 1
  BY <1>2 DEF Spread
<1>4. n \in 1 .. m /\ n - 1 \in 0 .. m - 1 /\ n - 1 \in 0 .. m /\ n - 1 < m
  BY <1>1, <1>3
<1> DEFINE k == (l + 1) % m
<1>5. /\ k \in 0 .. m - 1
      /\ \A i \in 0 .. m - 1 : Slot(k, m, i) = Slot(l, m, i + 1)
  BY NextSlot
<1> HIDE DEF k
<1>6. /\ p.max = m /\ p.left = k /\ p.right = Slot(l, m, n)
      /\ p.cache = [q.cache EXCEPT ![l] = b]
  BY <1>3 DEF BottomPopped, QueueOf, k
<1>7. Queue(p, S)
  <2>1. Queue(q, S)
    BY <1>1 DEF Spans
  <2> QED BY <2>1, BottomPoppedType
<1>8. ASSUME NEW i \in 1 .. n - 1 PROVE Slot(l, m, i + 1) # l
  <2>1. i + 1 \in 0 .. m /\ 1 \in 0 .. m /\ i + 1 # 1 /\ i + 1 # 0 /\ 1 # 0
    OBVIOUS
  <2>2. Slot(l, m, 1) = l
    BY <2>1, SlotRange
  <2>3. Slot(l, m, i + 1) # Slot(l, m, 1)
    BY <2>1, SlotsApart
  <2> QED BY <2>2, <2>3
<1> HIDE DEF p
<1>9. /\ Tail(s) \in Seq(S) /\ Len(Tail(s)) = n - 1
      /\ \A i \in 1 .. n - 1 : Tail(s)[i] = s[i + 1]
  BY <1>3, <1>4
<1>10. \A i \in 1 .. n - 1 : p.cache[Slot(k, m, i)] = Tail(s)[i]
  <2>1. SUFFICES ASSUME NEW i \in 1 .. n - 1
                 PROVE  p.cache[Slot(k, m, i)] = Tail(s)[i]
    OBVIOUS
  <2>2. i + 1 \in 1 .. n /\ i \in 0 .. m - 1
    OBVIOUS
  <2>3. Slot(k, m, i) = Slot(l, m, i + 1)
    BY <1>5, <2>2
  <2>4. Slot(l, m, i + 1) \in 0 .. m - 1 /\ q.cache[Slot(l, m, i + 1)] = s[i + 1]
    BY <1>3, <2>2
  <2> QED BY <1>3, <1>6, <1>8, <1>9, <2>3, <2>4
<1>11. p.right = Slot(k, m, n - 1)
  <2>1. Slot(k, m, n - 1) = Slot(l, m, n - 1 + 1)
    BY <1>4, <1>5
  <2>2. n - 1 + 1 = n
    OBVIOUS
  <2> QED BY <1>6, <2>1, <2>2
<1>12. Spans(p, S, Tail(s))
  BY <1>4, <1>6, <1>7, <1>9, <1>10, <1>11 DEF Spans
<1> QED BY <1>3, <1>4, <1>6, <1>9, <1>12 DEF p, Holds, k

Sized(t, size) == [t EXCEPT !.size = size]

Resize(s, i, size) == [s EXCEPT ![i] = Sized(s[i], size)]

LEMMA ResizedHolds ==
  ASSUME NEW q, NEW s, Spans(q, Tokens, s), NEW i \in 1 .. Len(s),
         NEW size \in Int,
         NEW p, p = Resized(q, Slot(q.left, q.max, i), size)
  PROVE  /\ Spans(p, Tokens, Resize(s, i, size))
         /\ p.max = q.max /\ p.left = q.left /\ p.right = q.right
<1> DEFINE z == [s EXCEPT ![i] = Sized(s[i], size)]
<1>1. PICK m \in Nat \ {0} : \E l \in 0 .. m - 1, n \in 0 .. m :
        Spread(q, Tokens, s, m, l, n)
  BY SpansParts
<1>2. PICK l \in 0 .. m - 1, n \in 0 .. m :
           /\ q.max = m /\ q.left = l /\ Len(s) = n
           /\ q.right = Slot(l, m, n)
           /\ q.cache \in [0 .. m - 1 -> Tokens]
           /\ s \in Seq(Tokens) /\ DOMAIN s = 1 .. n
           /\ \A j \in 1 .. n : /\ q.cache[Slot(l, m, j)] = s[j]
                               /\ Slot(l, m, j) \in 0 .. m - 1
  BY <1>1 DEF Spread
<1> DEFINE r == Slot(l, m, i)
<1>3. i \in 1 .. n /\ r \in 0 .. m - 1 /\ q.cache[r] = s[i]
  BY <1>2
<1>4. /\ p.max = m /\ p.left = l /\ p.right = Slot(l, m, n)
      /\ p.cache = [q.cache EXCEPT ![r] = Sized(s[i], size)]
  BY <1>2, <1>3 DEF Resized, QueueOf, Sized
<1>5. Queue(p, Tokens)
  BY <1>2, <1>3, ResizedType DEF Spans
<1>6. ASSUME NEW j \in 1 .. n, j # i PROVE Slot(l, m, j) # r
  <2>1. i \in 0 .. m /\ j \in 0 .. m /\ i # 0 /\ j # 0
    BY <1>3
  <2> QED BY <1>6, <2>1, SlotsApart
<1>7. s[i] \in Tokens
  BY <1>2, <1>3
<1>8. Sized(s[i], size) \in Tokens
  BY <1>7 DEF Sized, Tokens
<1>9. z \in Seq(Tokens) /\ Len(z) = n /\ DOMAIN z = 1 .. n
  BY <1>2, <1>3, <1>8
<1>10. \A j \in 1 .. n : p.cache[Slot(l, m, j)] = z[j]
  <2>1. SUFFICES ASSUME NEW j \in 1 .. n PROVE p.cache[Slot(l, m, j)] = z[j]
    OBVIOUS
  <2>2. CASE j = i
    BY <1>2, <1>3, <1>4, <2>2
  <2>3. CASE j # i
    BY <1>2, <1>4, <1>6, <2>3
  <2> QED BY <2>2, <2>3
<1> HIDE DEF z
<1>11. Spans(p, Tokens, z)
  BY <1>4, <1>5, <1>9, <1>10 DEF Spans
<1> QED BY <1>2, <1>4, <1>11 DEF z, Resize

LEMMA ExpandedHolds ==
  ASSUME NEW S, NEW q, NEW s, Spans(q, S, s), Len(s) > 0,
         NEW more \in Nat \ {0}, NEW b \in S
  PROVE  /\ Holds(Expanded(q, more, b), S, s)
         /\ Expanded(q, more, b).max = q.max + more
         /\ Expanded(q, more, b).left = 0
<1> DEFINE p == Expanded(q, more, b)
<1>1. PICK m \in Nat \ {0} : \E l \in 0 .. m - 1, n \in 0 .. m :
        Spread(q, S, s, m, l, n)
  BY SpansParts
<1>2. PICK l \in 0 .. m - 1, n \in 0 .. m :
           /\ q.max = m /\ q.left = l /\ Len(s) = n
           /\ q.right = Slot(l, m, n)
           /\ q.cache \in [0 .. m - 1 -> S]
           /\ s \in Seq(S) /\ DOMAIN s = 1 .. n
           /\ \A i \in 1 .. n : q.cache[Slot(l, m, i)] = s[i]
  BY <1>1 DEF Spread
<1>3. n \in 1 .. m
  BY <1>2
<1>4. ((q.right - q.left) % q.max) + 1 = n
  <2>1. (Slot(l, m, n) - l) % m = n - 1
    BY <1>3, SlotPlace
  <2>2. n - 1 + 1 = n
    OBVIOUS
  <2>3. (q.right - q.left) % q.max = n - 1
    BY <1>2, <2>1
  <2> QED BY <2>2, <2>3
<1>5. /\ p.max = m + more /\ p.left = 0 /\ p.right = n - 1
      /\ p.cache = [i \in 0 .. m + more - 1 |->
                      IF i < n THEN q.cache[(l + i) % m] ELSE b]
  BY <1>2, <1>4 DEF Expanded, QueueOf
<1>6. Queue(p, S)
  BY ExpandedType DEF Spans
<1>7. \A i \in 1 .. m : (l + (i - 1)) % m = Slot(l, m, i)
  <2>1. \A i \in 1 .. m : l + (i - 1) = l + i - 1
    OBVIOUS
  <2> QED BY <2>1 DEF Slot
<1> HIDE DEF p
<1>8. PICK big \in Nat \ {0} : big = m + more /\ big > m
  OBVIOUS
<1>9. \A i \in 1 .. n : Slot(0, big, i) = i - 1
  <2>1. SUFFICES ASSUME NEW i \in 1 .. n PROVE Slot(0, big, i) = i - 1
    OBVIOUS
  <2>2. i \in 0 .. big /\ 0 \in 0 .. big - 1 /\ ~(0 + i - 1 < 0) /\ 0 + i - 1 < big
        /\ 0 + i - 1 = i - 1
    BY <1>8
  <2> QED BY <2>2, SlotIs
<1>10. \A i \in 1 .. n : p.cache[Slot(0, big, i)] = s[i]
  <2>1. SUFFICES ASSUME NEW i \in 1 .. n PROVE p.cache[Slot(0, big, i)] = s[i]
    OBVIOUS
  <2>2. i - 1 \in 0 .. big - 1 /\ i - 1 < n /\ i \in 1 .. m
    BY <1>8
  <2>3. p.cache[i - 1] = q.cache[(l + (i - 1)) % m]
    BY <1>5, <1>8, <2>2
  <2> QED BY <1>2, <1>7, <1>9, <2>2, <2>3
<1>11. p.right = Slot(0, big, n)
  BY <1>3, <1>5, <1>9
<1>12. Spans(p, S, s) /\ Len(s) < p.max
  <2>1. p.max = big /\ p.left = 0
    BY <1>5, <1>8
  <2>2. Len(s) <= big /\ Len(s) < big /\ s \in Seq(S)
    BY <1>2, <1>8
  <2>3. p.right = Slot(p.left, p.max, Len(s))
    BY <1>2, <1>11, <2>1
  <2>4. \A i \in 1 .. Len(s) : p.cache[Slot(p.left, p.max, i)] = s[i]
    BY <1>2, <1>10, <2>1
  <2> QED BY <1>6, <2>1, <2>2, <2>3, <2>4 DEF Spans
<1> QED BY <1>2, <1>5, <1>12 DEF p, Holds
-----------------------------------------------------------------------------
(* The two queues together: tokqueue holds the tokens s, and scanqueue the *)
(* slots of those at the positions o, which are the ones that have no size *)
(* yet, in their order.                                                    *)
Unsized(s) == {i \in 1 .. Len(s) : s[i].size < 0}

LastOpen(s, i) == i \in Unsized(s) /\ \A j \in Unsized(s) : j <= i

FirstOpen(s, i) == i \in Unsized(s) /\ \A j \in Unsized(s) : i <= j

SlotsOf(q, o) == [k \in DOMAIN o |-> Slot(q.left, q.max, o[k])]

Slots(l, m, h, o) == [k \in 1 .. h |-> Slot(l, m, o[k])]

Ascends(o) == \A k, l \in DOMAIN o : k <= l => l - k <= o[l] - o[k]

OpenAt(s, o) ==
  /\ o \in Seq(1 .. Len(s)) /\ Ascends(o)
  /\ Unsized(s) = {o[k] : k \in DOMAIN o}

Refers(both, s, o) ==
  /\ Paired(both)
  /\ Holds(both[1], Tokens, s)
  /\ OpenAt(s, o)
  /\ Holds(both[2], 0 .. both[1].max - 1, SlotsOf(both[1], o))

Coupled(both, s) == \E o : Refers(both, s, o)

(* The positions alone.                                                    *)
LEMMA OpenAtParts ==
  ASSUME NEW s \in Seq(Tokens), NEW o, OpenAt(s, o)
  PROVE  \E n \in Nat, h \in Nat :
           /\ Len(s) = n /\ Len(o) = h /\ h <= n
           /\ DOMAIN s = 1 .. n /\ DOMAIN o = 1 .. h
           /\ \A k \in 1 .. h : o[k] \in 1 .. n
           /\ \A k, l \in 1 .. h : k <= l => l - k <= o[l] - o[k]
<1>1. PICK n \in Nat : Len(s) = n
  OBVIOUS
<1>2. o \in Seq(1 .. n)
  BY <1>1 DEF OpenAt
<1>3. PICK h \in Nat : Len(o) = h
  BY <1>2
<1>4. DOMAIN o = 1 .. h /\ \A k \in 1 .. h : o[k] \in 1 .. n
  BY <1>2, <1>3
<1>5. \A k, l \in 1 .. h : k <= l => l - k <= o[l] - o[k]
  BY <1>4 DEF OpenAt, Ascends
<1>6. h <= n
  <2>1. CASE h = 0
    BY <2>1
  <2>2. CASE h > 0
    <3>1. 1 \in 1 .. h /\ h \in 1 .. h
      BY <2>2
    <3>2. PICK a \in 1 .. n : o[1] = a
      BY <1>4, <3>1
    <3>3. PICK b \in 1 .. n : o[h] = b
      BY <1>4, <3>1
    <3>4. h - 1 <= b - a
      BY <1>3, <1>5, <3>1, <3>2, <3>3, <2>2
    <3> QED BY <1>1, <1>3, <3>2, <3>3, <3>4
  <2> QED BY <2>1, <2>2
<1>7. DOMAIN s = 1 .. n
  BY <1>1
<1> QED BY <1>1, <1>3, <1>4, <1>5, <1>6, <1>7

LEMMA OpenEnds ==
  ASSUME NEW s \in Seq(Tokens), NEW o, OpenAt(s, o), Len(o) > 0
  PROVE  LastOpen(s, o[Len(o)]) /\ FirstOpen(s, o[1])
<1>1. PICK n \in Nat, h \in Nat :
           /\ Len(s) = n /\ Len(o) = h /\ h <= n
           /\ DOMAIN s = 1 .. n /\ DOMAIN o = 1 .. h
           /\ \A k \in 1 .. h : o[k] \in 1 .. n
           /\ \A k, l \in 1 .. h : k <= l => l - k <= o[l] - o[k]
  BY OpenAtParts
<1>2. 1 \in 1 .. h /\ h \in 1 .. h
  BY <1>1
<1>3. Unsized(s) = {o[k] : k \in 1 .. h}
  BY <1>1 DEF OpenAt
<1>4. ASSUME NEW k \in 1 .. h PROVE o[1] <= o[k] /\ o[k] <= o[h]
  <2>1. PICK a \in 1 .. n, b \in 1 .. n, c \in 1 .. n :
          o[1] = a /\ o[k] = b /\ o[h] = c
    BY <1>1, <1>2
  <2>2. 1 <= k /\ k <= h
    BY <1>1
  <2>3. k - 1 <= b - a
    BY <1>1, <1>2, <2>1, <2>2
  <2>4. h - k <= c - b
    BY <1>1, <1>2, <2>1, <2>2
  <2>5. a \in Int /\ b \in Int /\ c \in Int /\ k \in Int /\ h \in Int
    BY <1>1, <2>1
  <2>6. a <= b /\ b <= c
    BY <2>2, <2>3, <2>4, <2>5
  <2> QED BY <2>1, <2>6
<1> QED BY <1>1, <1>2, <1>3, <1>4 DEF LastOpen, FirstOpen

LEMMA NoneOpen ==
  ASSUME NEW s \in Seq(Tokens), NEW o, OpenAt(s, o)
  PROVE  Unsized(s) = {} <=> Len(o) = 0
<1>1. PICK n \in Nat, h \in Nat :
           Len(s) = n /\ Len(o) = h /\ DOMAIN o = 1 .. h
  BY OpenAtParts
<1>2. Unsized(s) = {o[k] : k \in 1 .. h}
  BY <1>1 DEF OpenAt
<1>3. h = 0 => Unsized(s) = {}
  BY <1>2
<1>4. h # 0 => o[1] \in Unsized(s)
  BY <1>2
<1> QED BY <1>1, <1>3, <1>4

LEMMA ResizeTokens ==
  ASSUME NEW s \in Seq(Tokens), NEW i \in 1 .. Len(s), NEW size \in Int
  PROVE  /\ Resize(s, i, size) \in Seq(Tokens)
         /\ Len(Resize(s, i, size)) = Len(s)
         /\ \A j \in 1 .. Len(s) :
              /\ j # i => Resize(s, i, size)[j] = s[j]
              /\ Resize(s, i, size)[j].class = s[j].class
              /\ Resize(s, i, size)[j].num = s[j].num
              /\ Resize(s, i, size)[j].bump = s[j].bump
              /\ Resize(s, i, size)[j].line = s[j].line
         /\ Resize(s, i, size)[i].size = size
<1>0. s[i] \in Tokens
  OBVIOUS
<1>1. Sized(s[i], size) \in Tokens
  BY <1>0 DEF Sized, Tokens
<1>2. /\ Resize(s, i, size) \in Seq(Tokens)
      /\ Len(Resize(s, i, size)) = Len(s)
      /\ \A j \in 1 .. Len(s) : j # i => Resize(s, i, size)[j] = s[j]
      /\ Resize(s, i, size)[i] = Sized(s[i], size)
  BY <1>1 DEF Resize
<1>3. /\ Sized(s[i], size).class = s[i].class /\ Sized(s[i], size).size = size
      /\ Sized(s[i], size).num = s[i].num /\ Sized(s[i], size).bump = s[i].bump
      /\ Sized(s[i], size).line = s[i].line
  BY <1>0 DEF Sized, Tokens
<1> QED BY <1>2, <1>3

LEMMA ResizeOpen ==
  ASSUME NEW s \in Seq(Tokens), NEW i \in 1 .. Len(s), NEW size \in Int
  PROVE  Unsized(Resize(s, i, size)) =
           IF size < 0 THEN Unsized(s) \cup {i} ELSE Unsized(s) \ {i}
BY ResizeTokens DEF Unsized

(* The same with a constant for every size.                                *)
Laid(both, s, o, m, l, n, h) ==
  /\ h <= n
  /\ both[1].max = m /\ both[1].left = l /\ m > 1
  /\ both[2].max = m
  /\ s \in Seq(Tokens) /\ Len(s) = n /\ DOMAIN s = 1 .. n
  /\ Len(o) = h /\ DOMAIN o = 1 .. h
  /\ \A k \in 1 .. h : o[k] \in 1 .. n
  /\ both[1].right = Slot(l, m, n)
  /\ SlotsOf(both[1], o) = Slots(l, m, h, o)
  /\ SlotsOf(both[1], o) \in Seq(0 .. m - 1)
  /\ Len(SlotsOf(both[1], o)) = h
  /\ Spans(both[1], Tokens, s)
  /\ Holds(both[2], 0 .. m - 1, Slots(l, m, h, o))

LEMMA RefersParts ==
  ASSUME NEW both, NEW s, NEW o, Refers(both, s, o)
  PROVE  \E m \in Nat \ {0} :
           \E l \in 0 .. m - 1, n \in 0 .. m - 1, h \in 0 .. m - 1 :
             Laid(both, s, o, m, l, n, h)
<1>1. /\ Paired(both) /\ Holds(both[1], Tokens, s) /\ OpenAt(s, o)
      /\ Holds(both[2], 0 .. both[1].max - 1, SlotsOf(both[1], o))
  BY DEF Refers
<1>2. /\ Spans(both[1], Tokens, s) /\ Len(s) < both[1].max /\ s \in Seq(Tokens)
      /\ both[1].right = Slot(both[1].left, both[1].max, Len(s))
  BY <1>1 DEF Holds, Spans
<1>3. PICK m \in Nat \ {0} : both[1].max = m
  BY <1>1, QueueParts DEF Holds, Spans
<1>4. PICK l \in 0 .. m - 1 : both[1].left = l
  BY <1>1, <1>3, QueueParts DEF Holds, Spans
<1>5. m > 1 /\ both[2].max = m
  BY <1>1, <1>3, PairedParts
<1>6. PICK n \in Nat, h \in Nat :
           /\ Len(s) = n /\ Len(o) = h /\ h <= n
           /\ DOMAIN s = 1 .. n /\ DOMAIN o = 1 .. h
           /\ \A k \in 1 .. h : o[k] \in 1 .. n
  BY <1>1, <1>2, OpenAtParts
<1>7. n \in 0 .. m - 1 /\ h \in 0 .. m - 1 /\ h <= n
  BY <1>2, <1>3, <1>6
<1>8. SlotsOf(both[1], o) = Slots(l, m, h, o)
  BY <1>3, <1>4, <1>6 DEF SlotsOf, Slots
<1>9. \A k \in 1 .. h : Slot(l, m, o[k]) \in 0 .. m - 1
  <2>1. SUFFICES ASSUME NEW k \in 1 .. h PROVE Slot(l, m, o[k]) \in 0 .. m - 1
    OBVIOUS
  <2>2. o[k] \in 0 .. m
    <3>1. PICK a \in 1 .. n : o[k] = a
      BY <1>6
    <3>2. a \in 0 .. m
      BY <1>7, <3>1
    <3> QED BY <3>1, <3>2
  <2> QED BY <2>2, SlotRange
<1>10. SlotsOf(both[1], o) \in Seq(0 .. m - 1) /\ Len(SlotsOf(both[1], o)) = h
  BY <1>6, <1>8, <1>9 DEF Slots
<1>11. both[1].right = Slot(l, m, n)
  BY <1>2, <1>3, <1>4, <1>6
<1>12. Holds(both[2], 0 .. m - 1, Slots(l, m, h, o))
  BY <1>1, <1>3, <1>8
<1>13. Laid(both, s, o, m, l, n, h)
  BY <1>2, <1>3, <1>4, <1>5, <1>6, <1>7, <1>8, <1>10, <1>11, <1>12 DEF Laid
<1> QED BY <1>3, <1>4, <1>7, <1>13

(* What the queues tell of the tokens they hold.                           *)
LEMMA CoupledTells ==
  ASSUME NEW both, NEW s, Coupled(both, s)
  PROVE  /\ s \in Seq(Tokens) /\ Len(s) < both[1].max
         /\ Elements(both[1]) = s /\ Held(both[1]) = Len(s)
         /\ IsEmpty(both[1]) <=> Len(s) = 0
         /\ Len(s) > 0 => Bottom(both[1]) = s[1]
         /\ IsEmpty(both[2]) <=> Unsized(s) = {}
         /\ \A i : LastOpen(s, i) =>
              /\ Top(both[2]) = Slot(both[1].left, both[1].max, i)
              /\ both[1].cache[Top(both[2])] = s[i]
         /\ \A i : FirstOpen(s, i) =>
              Bottom(both[2]) = Slot(both[1].left, both[1].max, i)
         /\ Unsized(s) # {} => (\E i : LastOpen(s, i)) /\ (\E i : FirstOpen(s, i))
<1>1. PICK o : Refers(both, s, o)
  BY DEF Coupled
<1>2. PICK m \in Nat \ {0} :
        \E l \in 0 .. m - 1, n \in 0 .. m - 1, h \in 0 .. m - 1 :
          Laid(both, s, o, m, l, n, h)
  BY <1>1, RefersParts
<1>16. PICK l \in 0 .. m - 1, n \in 0 .. m - 1, h \in 0 .. m - 1 :
        Laid(both, s, o, m, l, n, h)
  BY <1>2
<1>3. /\ h <= n
      /\ both[1].max = m /\ both[1].left = l
      /\ s \in Seq(Tokens) /\ Len(s) = n
      /\ Len(o) = h /\ DOMAIN o = 1 .. h
      /\ Spans(both[1], Tokens, s)
      /\ Holds(both[2], 0 .. m - 1, Slots(l, m, h, o))
  BY <1>16 DEF Laid
<1> DEFINE r == Slots(l, m, h, o)
<1>4. /\ Holds(both[1], Tokens, s) /\ OpenAt(s, o) /\ n < m
      /\ h \in Nat /\ Len(r) = h
  <2>1. Holds(both[1], Tokens, s) /\ OpenAt(s, o)
    BY <1>1 DEF Refers
  <2> QED BY <1>3, <2>1 DEF Slots
<1>5. /\ Elements(both[1]) = s /\ Held(both[1]) = Len(s)
      /\ IsEmpty(both[1]) <=> Len(s) = 0
      /\ Len(s) > 0 => Bottom(both[1]) = s[1]
  BY <1>4, ElementsHeld
<1>6. (IsEmpty(both[2]) <=> h = 0) /\
      (h > 0 => Top(both[2]) = r[h] /\ Bottom(both[2]) = r[1])
  <2> HIDE DEF r
  <2>1. Holds(both[2], 0 .. m - 1, r)
    BY <1>3 DEF r
  <2> QED BY <1>4, <2>1, ElementsHeld
<1>7. Unsized(s) = {} <=> h = 0
  BY <1>3, <1>4, NoneOpen
<1>8. h > 0 => LastOpen(s, o[h]) /\ FirstOpen(s, o[1])
  BY <1>3, <1>4, OpenEnds
<1>9. \A i, j : /\ LastOpen(s, i) /\ LastOpen(s, j) => i = j
                /\ FirstOpen(s, i) /\ FirstOpen(s, j) => i = j
  <2>1. Unsized(s) \subseteq Int
    BY <1>3 DEF Unsized
  <2> QED BY <2>1 DEF LastOpen, FirstOpen
<1>10. ASSUME NEW i, LastOpen(s, i)
       PROVE  /\ Top(both[2]) = Slot(l, m, i)
              /\ both[1].cache[Top(both[2])] = s[i]
  <2>1. h > 0
    BY <1>4, <1>7, <1>10 DEF LastOpen
  <2>2. i = o[h] /\ h \in 1 .. h
    BY <1>4, <1>8, <1>9, <1>10, <2>1
  <2>3. Top(both[2]) = Slot(l, m, i)
    BY <1>6, <2>1, <2>2 DEF Slots
  <2>4. i \in 1 .. Len(s)
    BY <1>10 DEF LastOpen, Unsized
  <2> QED BY <1>3, <2>3, <2>4 DEF Spans
<1>11. ASSUME NEW i, FirstOpen(s, i)
       PROVE  Bottom(both[2]) = Slot(l, m, i)
  <2>1. h > 0
    BY <1>4, <1>7, <1>11 DEF FirstOpen
  <2>2. i = o[1] /\ 1 \in 1 .. h
    BY <1>4, <1>8, <1>9, <1>11, <2>1
  <2> QED BY <1>6, <2>1, <2>2 DEF Slots
<1>12. Unsized(s) # {} => (\E i : LastOpen(s, i)) /\ (\E i : FirstOpen(s, i))
  <2>1. Unsized(s) # {} => h > 0
    BY <1>4, <1>7
  <2> QED BY <1>8, <2>1
<1>13. (IsEmpty(both[2]) <=> Unsized(s) = {}) /\ Len(s) < both[1].max /\ s \in Seq(Tokens)
  BY <1>3, <1>4, <1>6, <1>7
<1> QED BY <1>3, <1>5, <1>10, <1>11, <1>12, <1>13
-----------------------------------------------------------------------------
(* The operations of scan and advanceleft on both queues.                  *)
LEMMA ShorterOpen ==
  ASSUME NEW s \in Seq(Tokens), NEW o, OpenAt(s, o), Len(o) > 0, NEW size \in Nat
  PROVE  /\ OpenAt(Resize(s, o[Len(o)], size), SubSeq(o, 1, Len(o) - 1))
         /\ OpenAt(Resize(s, o[1], size), Tail(o))
<1>1. PICK n \in Nat, h \in Nat :
           /\ Len(s) = n /\ Len(o) = h /\ h <= n
           /\ DOMAIN s = 1 .. n /\ DOMAIN o = 1 .. h
           /\ \A k \in 1 .. h : o[k] \in 1 .. n
           /\ \A k, l \in 1 .. h : k <= l => l - k <= o[l] - o[k]
  BY OpenAtParts
<1>2. 1 \in 1 .. h /\ h \in 1 .. h
  BY <1>1
<1>3. Unsized(s) = {o[k] : k \in 1 .. h} /\ o \in Seq(1 .. n)
  BY <1>1 DEF OpenAt
<1>4. \A k, l \in 1 .. h : o[k] = o[l] => k = l
  <2>1. SUFFICES ASSUME NEW k \in 1 .. h, NEW l \in 1 .. h, o[k] = o[l], k <= l
                 PROVE  k = l
    BY <1>1
  <2>2. PICK a \in Int : o[k] = a
    BY <1>1
  <2>3. l - k <= a - a
    BY <1>1, <2>1, <2>2
  <2> QED BY <1>1, <2>1, <2>2, <2>3
<1>5. /\ Unsized(Resize(s, o[h], size)) = Unsized(s) \ {o[h]}
      /\ Unsized(Resize(s, o[1], size)) = Unsized(s) \ {o[1]}
      /\ Len(Resize(s, o[h], size)) = n /\ Len(Resize(s, o[1], size)) = n
  <2>1. size \in Int /\ ~(size < 0)
    OBVIOUS
  <2>2. \A i \in 1 .. Len(s) : /\ Unsized(Resize(s, i, size)) = Unsized(s) \ {i}
                               /\ Len(Resize(s, i, size)) = Len(s)
    BY <2>1, ResizeOpen, ResizeTokens
  <2> QED BY <1>1, <1>2, <2>2
<1>6. OpenAt(Resize(s, o[h], size), SubSeq(o, 1, h - 1))
  <2> DEFINE p == SubSeq(o, 1, h - 1)
  <2>0. 1 \in 1 .. Len(o) + 1 /\ h - 1 \in 1 - 1 .. Len(o)
    BY <1>1, <1>2
  <2>6. /\ p \in Seq(1 .. n) /\ Len(p) = (h - 1) - 1 + 1
        /\ \A k \in 1 .. (h - 1) - 1 + 1 : p[k] = o[1 + k - 1]
    BY <1>3, <2>0, SubSeqProperties
  <2> HIDE DEF p
  <2>7. Len(p) = h - 1 /\ DOMAIN p = 1 .. h - 1
    BY <1>1, <2>6
  <2>8. ASSUME NEW k \in 1 .. h - 1 PROVE p[k] = o[k] /\ k \in 1 .. h
    BY <1>1, <2>6
  <2>1. /\ p \in Seq(1 .. n) /\ DOMAIN p = 1 .. h - 1
        /\ \A k \in 1 .. h - 1 : p[k] = o[k] /\ k \in 1 .. h
    BY <2>6, <2>7, <2>8
  <2>2. Ascends(p)
    BY <1>1, <2>1 DEF Ascends
  <2>3. Unsized(s) \ {o[h]} = {o[k] : k \in 1 .. h - 1}
    <3>1. \A k \in 1 .. h - 1 : k \in 1 .. h /\ k # h
      BY <1>1
    <3>2. \A k \in 1 .. h : k \in 1 .. h - 1 \/ k = h
      BY <1>1
    <3> QED BY <1>2, <1>3, <1>4, <3>1, <3>2
  <2>4. Unsized(s) \ {o[h]} = {p[k] : k \in 1 .. h - 1}
    BY <2>1, <2>3
  <2>5. OpenAt(Resize(s, o[h], size), p)
    BY <1>5, <2>1, <2>2, <2>4 DEF OpenAt
  <2> QED BY <2>5 DEF p
<1>7. OpenAt(Resize(s, o[1], size), Tail(o))
  <2> DEFINE p == Tail(o)
  <2>1. /\ p \in Seq(1 .. n) /\ DOMAIN p = 1 .. h - 1
        /\ \A k \in 1 .. h - 1 : p[k] = o[k + 1] /\ k + 1 \in 1 .. h
    BY <1>1, <1>2, <1>3
  <2> HIDE DEF p
  <2>2. Ascends(p)
    <3>1. SUFFICES ASSUME NEW k \in 1 .. h - 1, NEW l \in 1 .. h - 1, k <= l
                   PROVE  l - k <= p[l] - p[k]
      BY <2>1 DEF Ascends
    <3>2. PICK i \in 1 .. h, j \in 1 .. h : i = k + 1 /\ j = l + 1 /\ i <= j
      BY <2>1, <3>1
    <3>3. j - i <= o[j] - o[i]
      BY <1>1, <3>2
    <3>4. j - i = l - k
      BY <3>2
    <3>5. p[l] = o[j] /\ p[k] = o[i]
      BY <2>1, <3>2
    <3> QED BY <3>3, <3>4, <3>5
  <2>3. Unsized(s) \ {o[1]} = {o[k + 1] : k \in 1 .. h - 1}
    <3>1. \A k \in 1 .. h - 1 : k + 1 \in 1 .. h /\ k + 1 # 1
      BY <1>1
    <3>2. \A k \in 1 .. h : k = 1 \/ \E j \in 1 .. h - 1 : k = j + 1
      <4>1. \A k \in 1 .. h : k = 1 \/ (k - 1 \in 1 .. h - 1 /\ k = (k - 1) + 1)
        BY <1>1
      <4> QED BY <4>1
    <3>3. \A k \in 1 .. h - 1 : o[k + 1] \in Unsized(s) /\ o[k + 1] # o[1]
      BY <1>2, <1>3, <1>4, <3>1
    <3>4. \A x \in Unsized(s) : x = o[1] \/ \E j \in 1 .. h - 1 : x = o[j + 1]
      BY <1>3, <3>2
    <3> QED BY <3>3, <3>4, Zenon
  <2>4. Unsized(s) \ {o[1]} = {p[k] : k \in 1 .. h - 1}
    <3>1. {o[k + 1] : k \in 1 .. h - 1} = {p[k] : k \in 1 .. h - 1}
      BY <2>1, Zenon
    <3> QED BY <2>3, <3>1
  <2>5. OpenAt(Resize(s, o[1], size), p)
    BY <1>5, <2>1, <2>2, <2>4 DEF OpenAt
  <2> QED BY <2>5 DEF p
<1> QED BY <1>1, <1>6, <1>7

LEMMA SeqIsFcn ==
  ASSUME NEW T, NEW x \in Seq(T)
  PROVE  x = [k \in 1 .. Len(x) |-> x[k]]
OBVIOUS

LEMMA SlotsLength ==
  ASSUME NEW l, NEW m, NEW o, NEW h \in Nat
  PROVE  Len(Slots(l, m, h, o)) = h
<1> DEFINE r == Slots(l, m, h, o)
           T == {Slot(l, m, o[k]) : k \in 1 .. h}
<1>1. r \in Seq(T) /\ Len(r) = h
  BY DEF Slots
<1> QED BY <1>1

LEMMA SlotsShort ==
  ASSUME NEW l, NEW m, NEW q, q.left = l, q.max = m,
         NEW n \in Nat, NEW o \in Seq(1 .. n), NEW h \in Nat \ {0}, Len(o) = h
  PROVE  /\ SlotsOf(q, SubSeq(o, 1, h - 1)) = SubSeq(Slots(l, m, h, o), 1, h - 1)
         /\ SlotsOf(q, Tail(o)) = Tail(Slots(l, m, h, o))
<1> DEFINE r == Slots(l, m, h, o)
           T == {Slot(l, m, o[k]) : k \in 1 .. h}
<1>0. h \in Nat \ {0} /\ DOMAIN o = 1 .. h
  OBVIOUS
<1>1. r \in Seq(T) /\ Len(r) = h
  BY <1>0 DEF Slots
<1>2. \A k \in 1 .. h : r[k] = Slot(l, m, o[k])
  BY DEF Slots
<1> HIDE DEF r, T
<1>3. SubSeq(r, 1, h - 1) = [k \in 1 .. h - 1 |-> r[k]]
      /\ Tail(r) = [k \in 1 .. h - 1 |-> r[k + 1]]
  <2> DEFINE a == SubSeq(r, 1, h - 1)
             b == Tail(r)
  <2>1. /\ a \in Seq(T) /\ Len(a) = h - 1
        /\ \A k \in 1 .. h - 1 : a[k] = r[k]
    BY <1>0, <1>1
  <2>2. /\ b \in Seq(T) /\ Len(b) = h - 1
        /\ \A k \in 1 .. h - 1 : b[k] = r[k + 1]
    BY <1>0, <1>1
  <2> HIDE DEF a, b
  <2>3. a = [k \in 1 .. h - 1 |-> a[k]] /\ b = [k \in 1 .. h - 1 |-> b[k]]
    BY <2>1, <2>2, SeqIsFcn
  <2>4. a = [k \in 1 .. h - 1 |-> r[k]] /\ b = [k \in 1 .. h - 1 |-> r[k + 1]]
    BY <2>1, <2>2, <2>3
  <2> QED BY <2>4 DEF a, b
<1>4. /\ DOMAIN SubSeq(o, 1, h - 1) = 1 .. h - 1
      /\ \A k \in 1 .. h - 1 : SubSeq(o, 1, h - 1)[k] = o[k]
      /\ DOMAIN Tail(o) = 1 .. h - 1
      /\ \A k \in 1 .. h - 1 : Tail(o)[k] = o[k + 1]
  BY <1>0
<1>5. \A k \in 1 .. h - 1 : k \in 1 .. h /\ k + 1 \in 1 .. h
  BY <1>0
<1>6. SlotsOf(q, SubSeq(o, 1, h - 1)) = [k \in 1 .. h - 1 |-> r[k]]
  BY <1>2, <1>4, <1>5 DEF SlotsOf
<1>7. SlotsOf(q, Tail(o)) = [k \in 1 .. h - 1 |-> r[k + 1]]
  BY <1>2, <1>4, <1>5 DEF SlotsOf
<1> QED BY <1>1, <1>3, <1>6, <1>7 DEF r

(* A reference from the top, and the size of its token.                    *)
LEMMA CommittedCoupled ==
  ASSUME NEW both, NEW s, Coupled(both, s), rightotal \in Int,
         NEW i, LastOpen(s, i), s[i].size + rightotal >= 0
  PROVE  /\ Coupled(Committed(both), Resize(s, i, s[i].size + rightotal))
         /\ Committed(both)[1].max = both[1].max
<1> DEFINE size == s[i].size + rightotal
           ref == Top(both[2])
           toks == Resized(both[1], ref, size)
           refs == Popped(both[2], BlankRef)
<1>1. PICK o : Refers(both, s, o)
  BY DEF Coupled
<1>2. PICK m \in Nat \ {0} :
        \E l \in 0 .. m - 1, n \in 0 .. m - 1, h \in 0 .. m - 1 :
          Laid(both, s, o, m, l, n, h)
  BY <1>1, RefersParts
<1>3. PICK l \in 0 .. m - 1, n \in 0 .. m - 1, h \in 0 .. m - 1 :
        Laid(both, s, o, m, l, n, h)
  BY <1>2
<1>4. /\ s \in Seq(Tokens) /\ Len(s) = n /\ DOMAIN s = 1 .. n
      /\ Len(o) = h /\ DOMAIN o = 1 .. h
      /\ \A k \in 1 .. h : o[k] \in 1 .. n
      /\ Spans(both[1], Tokens, s) /\ both[1].max = m /\ both[1].left = l
      /\ Holds(both[2], 0 .. m - 1, Slots(l, m, h, o))
  BY <1>3 DEF Laid
<1>5. OpenAt(s, o) /\ Paired(both)
  BY <1>1 DEF Refers
<1>6. i \in 1 .. Len(s) /\ i \in 1 .. n /\ i \in Unsized(s)
  BY <1>4 DEF LastOpen, Unsized
<1>7. h > 0 /\ h \in Nat \ {0} /\ Len(o) > 0
  BY <1>4, <1>5, <1>6, NoneOpen
<1>8. i = o[h]
  <2>1. LastOpen(s, o[h])
    BY <1>4, <1>5, <1>7, OpenEnds
  <2>2. Unsized(s) \subseteq Int
    BY <1>4 DEF Unsized
  <2> QED BY <2>1, <2>2 DEF LastOpen
<1>9. s[i] \in Tokens
  BY <1>4, <1>6
<1>10. size \in Nat /\ size \in Int
  BY <1>9 DEF Tokens
<1>11. ref = Slot(both[1].left, both[1].max, i) /\ both[1].cache[ref] = s[i]
  BY CoupledTells
<1>12. Committed(both) = <<toks, refs>>
  BY <1>11 DEF Committed
<1>13. Paired(Committed(both))
  BY <1>5, CommittedPaired
<1>14. Spans(toks, Tokens, Resize(s, i, size))
       /\ toks.max = m /\ toks.left = l
  <2> DEFINE q == both[1]
  <2>1. toks = Resized(q, Slot(q.left, q.max, i), size)
    BY <1>11
  <2>3. Spans(q, Tokens, s) /\ q.max = m /\ q.left = l
    BY <1>4
  <2> HIDE DEF size, toks, q
  <2>2. Spans(toks, Tokens, Resize(s, i, size)) /\ toks.max = q.max /\ toks.left = q.left
    BY <1>6, <1>10, <2>1, <2>3, ResizedHolds
  <2> QED BY <2>2, <2>3
<1> HIDE DEF size, ref
<1>15. Len(Resize(s, i, size)) = n /\ n < m
  <2>0. s \in Seq(Tokens) /\ i \in 1 .. Len(s) /\ size \in Int
    BY <1>4, <1>6, <1>10
  <2>1. Len(Resize(s, i, size)) = Len(s)
    BY <2>0, ResizeTokens
  <2> QED BY <1>4, <2>1
<1>16. Holds(toks, Tokens, Resize(s, i, size))
  BY <1>14, <1>15 DEF Holds
<1> DEFINE p == SubSeq(o, 1, h - 1)
<1>17. OpenAt(Resize(s, i, size), p)
  BY <1>4, <1>5, <1>7, <1>8, <1>10, ShorterOpen
<1>18. \A k \in 1 .. h : Slot(l, m, o[k]) \in 0 .. m - 1
  <2>1. \A a \in 1 .. n : a \in 0 .. m
    OBVIOUS
  <2>2. \A a \in 1 .. n : Slot(l, m, a) \in 0 .. m - 1
    BY <2>1, SlotRange
  <2> QED BY <1>4, <2>2
<1>19. Holds(refs, 0 .. m - 1, SlotsOf(toks, p))
  <2> DEFINE r == Slots(l, m, h, o)
  <2>1. o \in Seq(1 .. n)
    BY <1>4, <1>5 DEF OpenAt
  <2> HIDE DEF toks
  <2>6. n \in Nat /\ toks.left = l /\ toks.max = m
        /\ DOMAIN o = 1 .. h /\ Len(o) = h /\ h \in Nat \ {0}
    BY <1>4, <1>7, <1>14
  <2>7. SlotsOf(toks, SubSeq(o, 1, h - 1)) = SubSeq(Slots(l, m, h, o), 1, h - 1)
    BY <2>1, <2>6, <1>7, SlotsShort
  <2>2. SlotsOf(toks, p) = SubSeq(r, 1, h - 1) /\ Len(r) = h
    BY <2>6, <2>7, SlotsLength
  <2>3. BlankRef \in 0 .. m - 1
    BY DEF BlankRef
  <2>4. Holds(both[2], 0 .. m - 1, r)
    BY <1>4
  <2> HIDE DEF r
  <2>5. Holds(refs, 0 .. m - 1, SubSeq(r, 1, Len(r) - 1))
    BY <1>7, <2>2, <2>3, <2>4, PoppedHolds
  <2> QED BY <2>2, <2>5
<1> HIDE DEF p, toks, refs
<1>20. Refers(Committed(both), Resize(s, i, size), p)
  BY <1>12, <1>13, <1>14, <1>16, <1>17, <1>19 DEF Refers
<1>21. Committed(both)[1].max = both[1].max
  BY <1>4, <1>12, <1>14
<1> QED BY <1>20, <1>21 DEF Coupled, size

(* A reference from the bottom, whose token is to break the line.          *)
LEMMA ForcedCoupled ==
  ASSUME NEW s, Coupled(<<tokqueue, scanqueue>>, s), NEW i, FirstOpen(s, i)
  PROVE  Coupled(<<Resized(tokqueue, Bottom(scanqueue), HardBreak),
                   BottomPopped(scanqueue, BlankRef)>>,
                 Resize(s, i, HardBreak))
<1> DEFINE both == <<tokqueue, scanqueue>>
           size == HardBreak
           ref == Bottom(scanqueue)
           toks == Resized(tokqueue, ref, size)
           refs == BottomPopped(scanqueue, BlankRef)
<1>1. PICK o : Refers(both, s, o)
  BY DEF Coupled
<1>2. PICK m \in Nat \ {0} :
        \E l \in 0 .. m - 1, n \in 0 .. m - 1, h \in 0 .. m - 1 :
          Laid(both, s, o, m, l, n, h)
  BY <1>1, RefersParts
<1>3. PICK l \in 0 .. m - 1, n \in 0 .. m - 1, h \in 0 .. m - 1 :
        Laid(both, s, o, m, l, n, h)
  BY <1>2
<1>4. /\ s \in Seq(Tokens) /\ Len(s) = n /\ DOMAIN s = 1 .. n
      /\ Len(o) = h /\ DOMAIN o = 1 .. h
      /\ \A k \in 1 .. h : o[k] \in 1 .. n
      /\ Spans(tokqueue, Tokens, s) /\ tokqueue.max = m /\ tokqueue.left = l
      /\ Holds(scanqueue, 0 .. m - 1, Slots(l, m, h, o))
      /\ m > 1 /\ scanqueue.max = m
  BY <1>3 DEF Laid
<1>5. OpenAt(s, o) /\ Paired(both)
  BY <1>1 DEF Refers
<1>6. i \in 1 .. Len(s) /\ i \in 1 .. n /\ i \in Unsized(s)
  BY <1>4 DEF FirstOpen, Unsized
<1>7. h > 0 /\ h \in Nat \ {0} /\ Len(o) > 0
  BY <1>4, <1>5, <1>6, NoneOpen
<1>8. i = o[1]
  <2>1. FirstOpen(s, o[1])
    BY <1>4, <1>5, <1>7, OpenEnds
  <2>2. Unsized(s) \subseteq Int
    BY <1>4 DEF Unsized
  <2> QED BY <2>1, <2>2 DEF FirstOpen
<1>10. size \in Nat /\ size \in Int
  BY Assumed
<1>11. ref = Slot(tokqueue.left, tokqueue.max, i)
  BY CoupledTells
<1>14. Spans(toks, Tokens, Resize(s, i, size))
       /\ toks.max = m /\ toks.left = l
  <2>1. toks = Resized(tokqueue, Slot(tokqueue.left, tokqueue.max, i), size)
    BY <1>11
  <2> HIDE DEF size, toks
  <2>2. Spans(toks, Tokens, Resize(s, i, size))
        /\ toks.max = tokqueue.max /\ toks.left = tokqueue.left
    BY <1>4, <1>6, <1>10, <2>1, ResizedHolds
  <2> QED BY <1>4, <2>2
<1> HIDE DEF size, ref
<1>15. Len(Resize(s, i, size)) = n /\ n < m
  <2>0. s \in Seq(Tokens) /\ i \in 1 .. Len(s) /\ size \in Int
    BY <1>4, <1>6, <1>10
  <2>1. Len(Resize(s, i, size)) = Len(s)
    BY <2>0, ResizeTokens
  <2> QED BY <1>4, <2>1
<1>16. Holds(toks, Tokens, Resize(s, i, size))
  BY <1>14, <1>15 DEF Holds
<1> DEFINE p == Tail(o)
<1>17. OpenAt(Resize(s, i, size), p)
  BY <1>4, <1>5, <1>7, <1>8, <1>10, ShorterOpen
<1>18. \A k \in 1 .. h : Slot(l, m, o[k]) \in 0 .. m - 1
  <2>1. \A a \in 1 .. n : a \in 0 .. m
    OBVIOUS
  <2>2. \A a \in 1 .. n : Slot(l, m, a) \in 0 .. m - 1
    BY <2>1, SlotRange
  <2> QED BY <1>4, <2>2
<1>19. Holds(refs, 0 .. m - 1, SlotsOf(toks, p)) /\ refs.max = m
  <2> DEFINE r == Slots(l, m, h, o)
  <2>1. o \in Seq(1 .. n)
    BY <1>4, <1>5 DEF OpenAt
  <2> HIDE DEF toks
  <2>6. n \in Nat /\ toks.left = l /\ toks.max = m
        /\ DOMAIN o = 1 .. h /\ Len(o) = h /\ h \in Nat \ {0}
    BY <1>4, <1>7, <1>14
  <2>9. ASSUME NEW q, q.left = l, q.max = m
        PROVE  SlotsOf(q, Tail(o)) = Tail(Slots(l, m, h, o))
    BY <2>1, <2>6, <2>9, SlotsShort, SMTT(30)
  <2>7. SlotsOf(toks, Tail(o)) = Tail(Slots(l, m, h, o))
    BY <2>6, <2>9
  <2>2. SlotsOf(toks, p) = Tail(r) /\ Len(r) = h
    BY <2>6, <2>7, SlotsLength
  <2>3. BlankRef \in 0 .. m - 1
    BY DEF BlankRef
  <2>4. Holds(scanqueue, 0 .. m - 1, r)
    BY <1>4
  <2> HIDE DEF r
  <2>5. Holds(refs, 0 .. m - 1, Tail(r)) /\ refs.max = scanqueue.max
    BY <1>7, <2>2, <2>3, <2>4, BottomPoppedHolds
  <2> QED BY <1>4, <2>2, <2>5
<1> HIDE DEF p, toks, refs
<1>13. Paired(<<toks, refs>>)
  BY <1>4, <1>14, <1>16, <1>19 DEF Paired, Holds, Spans
<1>20. Refers(<<toks, refs>>, Resize(s, i, size), p)
  BY <1>13, <1>14, <1>16, <1>17, <1>19 DEF Refers
<1> QED BY <1>20 DEF Coupled, size, toks, refs, ref
(* The token on top gets no size yet, and a reference.                     *)
LEMMA LongerOpen ==
  ASSUME NEW s \in Seq(Tokens), NEW o, OpenAt(s, o), NEW n \in Nat \ {0},
         Len(s) = n, n \notin Unsized(s), NEW size \in Int, size < 0
  PROVE  OpenAt(Resize(s, n, size), Append(o, n)) /\ Len(o) < n
<1>1. PICK k \in Nat, h \in Nat :
           /\ Len(s) = k /\ Len(o) = h /\ h <= k
           /\ DOMAIN s = 1 .. k /\ DOMAIN o = 1 .. h
           /\ \A i \in 1 .. h : o[i] \in 1 .. k
           /\ \A i, j \in 1 .. h : i <= j => j - i <= o[j] - o[i]
  BY OpenAtParts
<1>2. k = n /\ n \in 1 .. n
  BY <1>1
<1>3. Unsized(s) = {o[i] : i \in 1 .. h} /\ o \in Seq(1 .. n)
  BY <1>1, <1>2 DEF OpenAt
<1>4. \A i \in 1 .. h : o[i] \in 1 .. n - 1
  <2>1. SUFFICES ASSUME NEW i \in 1 .. h PROVE o[i] \in 1 .. n - 1
    OBVIOUS
  <2>2. o[i] \in 1 .. n /\ o[i] # n
    BY <1>1, <1>2, <1>3
  <2> QED BY <2>2
<1>5. Unsized(Resize(s, n, size)) = Unsized(s) \cup {n} /\ Len(Resize(s, n, size)) = n
  <2>1. n \in 1 .. Len(s)
    BY <1>1, <1>2
  <2> QED BY <2>1, ResizeOpen, ResizeTokens
<1> DEFINE p == Append(o, n)
<1>6. /\ p \in Seq(1 .. n) /\ DOMAIN p = 1 .. h + 1
      /\ \A i \in 1 .. h : p[i] = o[i] /\ i \in 1 .. h + 1
      /\ p[h + 1] = n
  BY <1>1, <1>2, <1>3
<1> HIDE DEF p
<1>7. \A i \in 1 .. h : h + 1 - i <= n - o[i]
  <2>1. SUFFICES ASSUME NEW i \in 1 .. h PROVE h + 1 - i <= n - o[i]
    OBVIOUS
  <2>2. h \in 1 .. h
    BY <1>1, <2>1
  <2>3. PICK a \in 1 .. n - 1 : o[i] = a
    BY <1>4
  <2>4. PICK b \in 1 .. n - 1 : o[h] = b
    BY <1>4, <2>2
  <2>5. h - i <= b - a
    BY <1>1, <2>2, <2>3, <2>4
  <2> QED BY <1>1, <2>3, <2>4, <2>5
<1>8. Ascends(p)
  <2>1. SUFFICES ASSUME NEW i \in 1 .. h + 1, NEW j \in 1 .. h + 1, i <= j
                 PROVE  j - i <= p[j] - p[i]
    BY <1>6 DEF Ascends
  <2>2. CASE j = h + 1 /\ i = h + 1
    BY <1>1, <1>6, <2>2
  <2>3. CASE j = h + 1 /\ i # h + 1
    <3>1. i \in 1 .. h
      BY <1>1, <2>3
    <3>2. p[j] = n /\ p[i] = o[i]
      BY <1>6, <2>3, <3>1
    <3>3. h + 1 - i <= n - o[i]
      BY <1>7, <3>1
    <3> QED BY <2>3, <3>2, <3>3
  <2>4. CASE j # h + 1
    <3>1. i \in 1 .. h /\ j \in 1 .. h
      BY <1>1, <2>1, <2>4
    <3> QED BY <1>1, <1>6, <2>1, <3>1
  <2> QED BY <2>2, <2>3, <2>4
<1>9. Unsized(s) \cup {n} = {p[i] : i \in 1 .. h + 1}
  <2>1. \A i \in 1 .. h + 1 : i \in 1 .. h \/ i = h + 1
    BY <1>1
  <2>2. h + 1 \in 1 .. h + 1
    BY <1>1
  <2>3. \A x \in Unsized(s) : \E i \in 1 .. h + 1 : x = p[i]
    BY <1>3, <1>6
  <2>4. \A i \in 1 .. h + 1 : p[i] \in Unsized(s) \cup {n}
    BY <1>3, <1>6, <2>1
  <2> QED BY <1>6, <2>2, <2>3, <2>4
<1>10. OpenAt(Resize(s, n, size), p)
  BY <1>5, <1>6, <1>8, <1>9 DEF OpenAt
<1>11. h < n
  <2>1. CASE h = 0
    BY <2>1
  <2>2. CASE h # 0
    <3>1. h \in 1 .. h /\ 1 \in 1 .. h
      BY <1>1, <2>2
    <3>2. h + 1 - 1 <= n - o[1] /\ o[1] \in 1 .. n - 1
      BY <1>4, <1>7, <3>1
    <3> QED BY <1>1, <3>2
  <2> QED BY <2>1, <2>2
<1> QED BY <1>1, <1>10, <1>11 DEF p

LEMMA SlotsLong ==
  ASSUME NEW l, NEW m, NEW q, q.left = l, q.max = m,
         NEW n \in Nat, NEW o \in Seq(1 .. n), NEW h \in Nat, Len(o) = h
  PROVE  SlotsOf(q, Append(o, n)) = Append(Slots(l, m, h, o), Slot(l, m, n))
<1> DEFINE r == Slots(l, m, h, o)
           T == {Slot(l, m, o[k]) : k \in 1 .. h} \cup {Slot(l, m, n)}
           a == Append(r, Slot(l, m, n))
<1>1. r \in Seq(T) /\ Len(r) = h /\ \A k \in 1 .. h : r[k] = Slot(l, m, o[k])
  BY DEF Slots
<1>2. Slot(l, m, n) \in T
  OBVIOUS
<1> HIDE DEF r, T
<1>3. /\ a \in Seq(T) /\ Len(a) = h + 1 /\ a[h + 1] = Slot(l, m, n)
      /\ \A k \in 1 .. h : a[k] = r[k]
  BY <1>1, <1>2
<1>4. /\ DOMAIN Append(o, n) = 1 .. h + 1 /\ Append(o, n)[h + 1] = n
      /\ \A k \in 1 .. h : Append(o, n)[k] = o[k]
  OBVIOUS
<1> HIDE DEF a
<1>5. \A k \in 1 .. h + 1 : k \in 1 .. h \/ k = h + 1
  OBVIOUS
<1>6. \A k \in 1 .. h + 1 : a[k] = Slot(l, m, Append(o, n)[k])
  BY <1>1, <1>3, <1>4, <1>5
<1>7. a = [k \in 1 .. h + 1 |-> a[k]]
  BY <1>3, SeqIsFcn
<1>8. SlotsOf(q, Append(o, n)) = [k \in 1 .. h + 1 |-> a[k]]
  BY <1>4, <1>6 DEF SlotsOf
<1> QED BY <1>7, <1>8 DEF a, r

LEMMA UncommittedCoupled ==
  ASSUME NEW both, NEW s, Coupled(both, s), NEW n, n = Len(s), n > 0,
         s[n].size >= 0, NEW right \in Int, right > 0
  PROVE  /\ Coupled(Uncommitted(both, right), Resize(s, n, -right))
         /\ Uncommitted(both, right)[1].max = both[1].max
<1> DEFINE size == -right
           toks == Resized(both[1], both[1].right, size)
           refs == Pushed(both[2], both[1].right)
<1>1. PICK o : Refers(both, s, o)
  BY DEF Coupled
<1>2. PICK m \in Nat \ {0} :
        \E l \in 0 .. m - 1, k \in 0 .. m - 1, h \in 0 .. m - 1 :
          Laid(both, s, o, m, l, k, h)
  BY <1>1, RefersParts
<1>3. PICK l \in 0 .. m - 1, k \in 0 .. m - 1, h \in 0 .. m - 1 :
        Laid(both, s, o, m, l, k, h)
  BY <1>2
<1>4. /\ s \in Seq(Tokens) /\ Len(s) = n /\ DOMAIN s = 1 .. n
      /\ Len(o) = h /\ n \in 0 .. m - 1 /\ k = n
      /\ Spans(both[1], Tokens, s) /\ both[1].max = m /\ both[1].left = l
      /\ both[1].right = Slot(l, m, n)
      /\ Holds(both[2], 0 .. m - 1, Slots(l, m, h, o)) /\ both[2].max = m
  BY <1>3 DEF Laid
<1>5. OpenAt(s, o) /\ Paired(both)
  BY <1>1 DEF Refers
<1>6. n \in 1 .. Len(s) /\ n \in Nat \ {0} /\ n \in 0 .. m /\ n < m /\ h \in Nat
  BY <1>4
<1>7. n \notin Unsized(s)
  <2>1. s[n] \in Tokens
    BY <1>4, <1>6
  <2> QED BY <2>1 DEF Unsized, Tokens
<1>10. size \in Int /\ size < 0
  OBVIOUS
<1>12. Uncommitted(both, right) = <<toks, refs>>
  BY DEF Uncommitted
<1>13. Paired(Uncommitted(both, right))
  BY <1>5, UncommittedPaired
<1>14. Spans(toks, Tokens, Resize(s, n, size))
       /\ toks.max = m /\ toks.left = l
  <2>1. toks = Resized(both[1], Slot(both[1].left, both[1].max, n), size)
    BY <1>4
  <2> HIDE DEF size, toks
  <2>2. Spans(toks, Tokens, Resize(s, n, size))
        /\ toks.max = both[1].max /\ toks.left = both[1].left
    BY <1>4, <1>6, <1>10, <2>1, ResizedHolds
  <2> QED BY <1>4, <2>2
<1> HIDE DEF size, toks, refs
<1>15. Len(Resize(s, n, size)) = n
  <2>1. Len(Resize(s, n, size)) = Len(s)
    BY <1>4, <1>6, <1>10, ResizeTokens
  <2> QED BY <1>4, <2>1
<1>16. Holds(toks, Tokens, Resize(s, n, size))
  BY <1>6, <1>14, <1>15 DEF Holds
<1> DEFINE p == Append(o, n)
<1>17. OpenAt(Resize(s, n, size), p) /\ h < n
  <2>1. OpenAt(Resize(s, n, size), p) /\ Len(o) < n
    BY <1>4, <1>5, <1>6, <1>7, <1>10, LongerOpen
  <2> QED BY <1>4, <2>1
<1>18. Slot(l, m, n) \in 0 .. m - 1
  BY <1>6, SlotRange
<1>19. Holds(refs, 0 .. m - 1, SlotsOf(toks, p))
  <2> DEFINE r == Slots(l, m, h, o)
             x == Slot(l, m, n)
  <2>1. o \in Seq(1 .. n)
    BY <1>4, <1>5 DEF OpenAt
  <2>2. \A q : q.left = l /\ q.max = m => SlotsOf(q, Append(o, n)) = Append(Slots(l, m, h, o), Slot(l, m, n))
    BY <1>4, <1>6, <2>1, SlotsLong
  <2>3. SlotsOf(toks, p) = Append(r, x)
    BY <1>14, <2>2
  <2>4. Len(r) = h
    BY <1>6, SlotsLength
  <2>5. Holds(both[2], 0 .. m - 1, r) /\ x \in 0 .. m - 1 /\ refs = Pushed(both[2], x)
    BY <1>4, <1>18 DEF refs
  <2> HIDE DEF r, x
  <2>6. Spans(refs, 0 .. m - 1, Append(r, x)) /\ refs.max = both[2].max
    BY <2>5, PushedHolds
  <2>7. Len(Append(r, x)) = h + 1
    <3>1. r \in Seq(0 .. m - 1)
      BY <2>5 DEF Holds, Spans
    <3> QED BY <2>4, <3>1
  <2>8. Len(Append(r, x)) < refs.max
    BY <1>4, <1>6, <1>17, <2>6, <2>7
  <2> QED BY <2>3, <2>6, <2>8 DEF Holds
<1> HIDE DEF p
<1>20. Refers(Uncommitted(both, right), Resize(s, n, size), p)
  BY <1>12, <1>13, <1>14, <1>16, <1>17, <1>19 DEF Refers
<1>21. Uncommitted(both, right)[1].max = both[1].max
  BY <1>4, <1>12, <1>14
<1> QED BY <1>20, <1>21 DEF Coupled, size

(* The leftmost token leaves; it has a size.                               *)
LEMMA ShiftedOpen ==
  ASSUME NEW s \in Seq(Tokens), NEW o, OpenAt(s, o), Len(s) > 0, s[1].size >= 0
  PROVE  OpenAt(Tail(s), [k \in DOMAIN o |-> o[k] - 1])
<1>1. PICK n \in Nat, h \in Nat :
           /\ Len(s) = n /\ Len(o) = h /\ h <= n
           /\ DOMAIN s = 1 .. n /\ DOMAIN o = 1 .. h
           /\ \A i \in 1 .. h : o[i] \in 1 .. n
           /\ \A i, j \in 1 .. h : i <= j => j - i <= o[j] - o[i]
  BY OpenAtParts
<1> DEFINE p == [k \in 1 .. h |-> o[k] - 1]
           t == Tail(s)
<1>2. n > 0 /\ t \in Seq(Tokens) /\ Len(t) = n - 1
      /\ \A i \in 1 .. n - 1 : t[i] = s[i + 1]
  BY <1>1
<1>3. Unsized(s) = {o[i] : i \in 1 .. h}
  BY <1>1 DEF OpenAt
<1>4. 1 \notin Unsized(s)
  <2>1. s[1] \in Tokens
    BY <1>1, <1>2
  <2> QED BY <2>1 DEF Unsized, Tokens
<1>5. \A i \in 1 .. h : o[i] \in 2 .. n
  <2>1. SUFFICES ASSUME NEW i \in 1 .. h PROVE o[i] \in 2 .. n
    OBVIOUS
  <2>2. o[i] \in 1 .. n /\ o[i] # 1
    BY <1>1, <1>3, <1>4
  <2> QED BY <2>2
<1>6. p \in Seq(1 .. n - 1) /\ DOMAIN p = 1 .. h
      /\ \A i \in 1 .. h : p[i] = o[i] - 1
  <2>1. \A i \in 1 .. h : o[i] - 1 \in 1 .. n - 1
    BY <1>5
  <2> QED BY <2>1
<1> HIDE DEF t
<1>7. Unsized(t) = {i \in 1 .. n - 1 : i + 1 \in Unsized(s)}
  <2>1. \A i \in 1 .. n - 1 : i + 1 \in 1 .. n
    OBVIOUS
  <2>2. \A i \in 1 .. n - 1 : t[i].size < 0 <=> i + 1 \in Unsized(s)
    BY <1>1, <1>2, <2>1 DEF Unsized
  <2> QED BY <1>2, <2>2 DEF Unsized
<1> HIDE DEF p
<1>8. Unsized(t) = {p[i] : i \in 1 .. h}
  <2>1. \A i \in 1 .. h : p[i] \in Unsized(t)
    <3>1. SUFFICES ASSUME NEW i \in 1 .. h PROVE p[i] \in Unsized(t)
      OBVIOUS
    <3>2. PICK a \in 2 .. n : o[i] = a
      BY <1>5
    <3>3. a - 1 \in 1 .. n - 1 /\ (a - 1) + 1 = a /\ p[i] = a - 1
      BY <1>6, <3>2
    <3>4. a \in Unsized(s)
      BY <1>3, <3>2
    <3> QED BY <1>7, <3>3, <3>4
  <2>2. \A x \in Unsized(t) : \E i \in 1 .. h : x = p[i]
    <3>1. SUFFICES ASSUME NEW x \in 1 .. n - 1, x + 1 \in Unsized(s)
                   PROVE  \E i \in 1 .. h : x = p[i]
      BY <1>7
    <3>2. PICK i \in 1 .. h : x + 1 = o[i]
      BY <1>3, <3>1
    <3>3. p[i] = (x + 1) - 1
      BY <1>6, <3>2
    <3>4. x = p[i]
      BY <3>3
    <3> QED BY <3>4
  <2> QED BY <2>1, <2>2
<1>9. Ascends(p)
  <2>1. SUFFICES ASSUME NEW i \in 1 .. h, NEW j \in 1 .. h, i <= j
                 PROVE  j - i <= p[j] - p[i]
    BY <1>6 DEF Ascends
  <2>2. PICK a \in 2 .. n : o[i] = a
    BY <1>5
  <2>3. PICK b \in 2 .. n : o[j] = b
    BY <1>5
  <2>4. j - i <= b - a /\ p[i] = a - 1 /\ p[j] = b - 1
    BY <1>1, <1>6, <2>1, <2>2, <2>3
  <2> QED BY <2>2, <2>3, <2>4
<1>10. OpenAt(t, p)
  BY <1>2, <1>6, <1>8, <1>9 DEF OpenAt
<1> QED BY <1>1, <1>10 DEF t, p

LEMMA LetGoCoupled ==
  ASSUME NEW s, Coupled(<<tokqueue, scanqueue>>, s), Len(s) > 0, s[1].size >= 0
  PROVE  Coupled(<<BottomPopped(tokqueue, BlankToken), scanqueue>>, Tail(s))
<1> DEFINE both == <<tokqueue, scanqueue>>
           toks == BottomPopped(tokqueue, BlankToken)
<1>1. PICK o : Refers(both, s, o)
  BY DEF Coupled
<1>2. PICK m \in Nat \ {0} :
        \E l \in 0 .. m - 1, n \in 0 .. m - 1, h \in 0 .. m - 1 :
          Laid(both, s, o, m, l, n, h)
  BY <1>1, RefersParts
<1>3. PICK l \in 0 .. m - 1, n \in 0 .. m - 1, h \in 0 .. m - 1 :
        Laid(both, s, o, m, l, n, h)
  BY <1>2
<1>4. /\ s \in Seq(Tokens) /\ Len(s) = n /\ DOMAIN s = 1 .. n
      /\ Len(o) = h /\ DOMAIN o = 1 .. h
      /\ Spans(tokqueue, Tokens, s) /\ tokqueue.max = m /\ tokqueue.left = l
      /\ Holds(scanqueue, 0 .. m - 1, Slots(l, m, h, o))
      /\ m > 1 /\ scanqueue.max = m
  BY <1>3 DEF Laid
<1>5. OpenAt(s, o) /\ Paired(both) /\ Holds(tokqueue, Tokens, s)
  BY <1>1 DEF Refers
<1>6. Holds(toks, Tokens, Tail(s)) /\ toks.max = m /\ toks.left = (l + 1) % m
  BY <1>4, <1>5, BlankIsToken, BottomPoppedHolds
<1> DEFINE p == [k \in DOMAIN o |-> o[k] - 1]
<1>7. OpenAt(Tail(s), p)
  BY <1>4, <1>5, ShiftedOpen
<1>8. \A k \in 1 .. h : Slot((l + 1) % m, m, o[k] - 1) = Slot(l, m, o[k])
  <2>1. SUFFICES ASSUME NEW k \in 1 .. h
                 PROVE  Slot((l + 1) % m, m, o[k] - 1) = Slot(l, m, o[k])
    OBVIOUS
  <2>2. PICK a \in 1 .. n : o[k] = a
    BY <1>3 DEF Laid
  <2>3. PICK b \in 0 .. m - 1 : b = a - 1 /\ b + 1 = a
    OBVIOUS
  <2>4. Slot((l + 1) % m, m, b) = Slot(l, m, b + 1)
    BY NextSlot
  <2> QED BY <2>2, <2>3, <2>4
<1> HIDE DEF toks
<1>9. SlotsOf(toks, p) = Slots(l, m, h, o)
  <2>1. DOMAIN p = 1 .. h /\ \A k \in 1 .. h : p[k] = o[k] - 1
    BY <1>4
  <2> HIDE DEF p
  <2> QED BY <1>6, <1>8, <2>1 DEF SlotsOf, Slots
<1>10. Paired(<<toks, scanqueue>>)
  BY <1>4, <1>6 DEF Paired, Holds, Spans
<1> HIDE DEF p
<1>11. Refers(<<toks, scanqueue>>, Tail(s), p)
  BY <1>4, <1>6, <1>7, <1>9, <1>10 DEF Refers
<1> QED BY <1>11 DEF Coupled, toks

(* The token that is queued, and the queues that expand when it fills them.*)
LEMMA RebasedHolds ==
  ASSUME NEW m \in Nat \ {0}, NEW q, NEW r, q.max = m, NEW l \in 0 .. m - 1,
         Holds(q, 0 .. m - 1, r)
  PROVE  /\ Holds(Rebased(q, l, m), 0 .. m - 1,
                  [k \in DOMAIN r |-> (r[k] + m - l) % m])
         /\ Rebased(q, l, m).max = m
<1> DEFINE S == 0 .. m - 1
           z == [k \in DOMAIN r |-> (r[k] + m - l) % m]
           p == Rebased(q, l, m)
<1>1. Spans(q, S, r) /\ Queue(q, S) /\ Len(r) < m
  BY DEF Holds, Spans
<1>2. PICK m2 \in Nat \ {0} : \E i \in 0 .. m2 - 1, n \in 0 .. m2 :
        Spread(q, S, r, m2, i, n)
  BY <1>1, SpansParts
<1>3. PICK i \in 0 .. m2 - 1, n \in 0 .. m2 : Spread(q, S, r, m2, i, n)
  BY <1>2
<1>4. /\ m2 = m /\ q.left = i /\ Len(r) = n /\ q.right = Slot(i, m, n)
      /\ q.cache \in [0 .. m - 1 -> S] /\ r \in Seq(S) /\ DOMAIN r = 1 .. n
      /\ \A k \in 1 .. n : /\ q.cache[Slot(i, m, k)] = r[k]
                           /\ Slot(i, m, k) \in 0 .. m - 1
  BY <1>3 DEF Spread
<1>5. /\ p.max = m /\ p.left = i /\ p.right = Slot(i, m, n)
      /\ p.cache = [k \in 0 .. m - 1 |-> (q.cache[k] + m - l) % m]
  BY <1>4 DEF Rebased, QueueOf
<1>6. Queue(p, S)
  BY <1>1, RebasedType
<1> HIDE DEF p
<1>7. \A k \in 1 .. n : p.cache[Slot(i, m, k)] = z[k]
  BY <1>4, <1>5
<1>8. \A a \in S : (a + m - l) % m \in S
  <2>1. SUFFICES ASSUME NEW a \in S PROVE (a + m - l) % m \in 0 .. m - 1
    OBVIOUS
  <2>2. a + m - l \in Int
    OBVIOUS
  <2> QED BY <2>2, ModRange
<1>9. z \in Seq(S) /\ Len(z) = n
  <2>1. \A k \in 1 .. n : r[k] \in S
    BY <1>4
  <2>2. \A k \in 1 .. n : (r[k] + m - l) % m \in S
    BY <1>8, <2>1
  <2> HIDE DEF S
  <2> QED BY <1>4, <2>2
<1> HIDE DEF z, S
<1>10. Spans(p, S, z)
  BY <1>1, <1>4, <1>5, <1>6, <1>7, <1>9 DEF Spans
<1>11. Holds(p, S, z)
  BY <1>1, <1>4, <1>5, <1>9, <1>10 DEF Holds
<1> QED BY <1>5, <1>11 DEF z, S, p

LEMMA HoldsWider ==
  ASSUME NEW S, NEW T, S \subseteq T, NEW q, NEW s, Holds(q, S, s)
  PROVE  Holds(q, T, s)
<1>1. Queue(q, T)
  BY Widened DEF Holds, Spans
<1>2. s \in Seq(T)
  BY DEF Holds, Spans
<1> QED BY <1>1, <1>2 DEF Holds, Spans

LEMMA AppendOpen ==
  ASSUME NEW s \in Seq(Tokens), NEW t \in Tokens, t.size >= 0
  PROVE  /\ Unsized(Append(s, t)) = Unsized(s)
         /\ \A o : OpenAt(s, o) => OpenAt(Append(s, t), o)
<1>1. PICK n \in Nat : Len(s) = n
  OBVIOUS
<1>2. /\ Append(s, t) \in Seq(Tokens) /\ Len(Append(s, t)) = n + 1
      /\ \A i \in 1 .. n : Append(s, t)[i] = s[i]
      /\ Append(s, t)[n + 1] = t
  BY <1>1
<1>3. t.size \in Int /\ ~(t.size < 0)
  BY DEF Tokens
<1>4. Unsized(Append(s, t)) = Unsized(s)
  <2>1. \A i : i \in 1 .. n + 1 <=> (i \in 1 .. n \/ i = n + 1)
    OBVIOUS
  <2> QED BY <1>1, <1>2, <1>3, <2>1 DEF Unsized
<1>5. ASSUME NEW o, OpenAt(s, o) PROVE OpenAt(Append(s, t), o)
  <2>1. o \in Seq(1 .. n) /\ Ascends(o) /\ Unsized(s) = {o[k] : k \in DOMAIN o}
    BY <1>1, <1>5 DEF OpenAt
  <2>2. o \in Seq(1 .. n + 1)
    BY <2>1
  <2> QED BY <1>2, <1>4, <2>1, <2>2 DEF OpenAt
<1> QED BY <1>4, <1>5

LEMMA QueuedCoupled ==
  ASSUME NEW s, Coupled(<<tokqueue, scanqueue>>, s), NEW t \in Tokens,
         t.size >= 0, Unsized(s) = {} => Len(s) + 1 < tokqueue.max
  PROVE  /\ Coupled(Queued(t), Append(s, t))
         /\ Queued(t)[1].max \in {tokqueue.max, tokqueue.max + Expansion}
         /\ Queued(t)[1].max # tokqueue.max => Unsized(s) # {}
<1> DEFINE both == <<tokqueue, scanqueue>>
           full == Pushed(tokqueue, t)
           z == Append(s, t)
<1>1. PICK o : Refers(both, s, o)
  BY DEF Coupled
<1>2. PICK m \in Nat \ {0} :
        \E l \in 0 .. m - 1, n \in 0 .. m - 1, h \in 0 .. m - 1 :
          Laid(both, s, o, m, l, n, h)
  BY <1>1, RefersParts
<1>3. PICK l \in 0 .. m - 1, n \in 0 .. m - 1, h \in 0 .. m - 1 :
        Laid(both, s, o, m, l, n, h)
  BY <1>2
<1>4. /\ s \in Seq(Tokens) /\ Len(s) = n /\ h <= n
      /\ Len(o) = h /\ DOMAIN o = 1 .. h
      /\ \A k \in 1 .. h : o[k] \in 1 .. n
      /\ tokqueue.max = m /\ tokqueue.left = l
      /\ Holds(scanqueue, 0 .. m - 1, Slots(l, m, h, o)) /\ scanqueue.max = m
      /\ m > 1
  BY <1>3 DEF Laid
<1>5. OpenAt(s, o) /\ Paired(both) /\ Holds(tokqueue, Tokens, s)
  BY <1>1 DEF Refers
<1>6. /\ Spans(full, Tokens, z) /\ full.max = m /\ full.left = l
      /\ IsEmpty(full) <=> n + 1 = m
  BY <1>4, <1>5, PushedHolds
<1>7. Len(z) = n + 1 /\ OpenAt(z, o) /\ Paired(Queued(t))
  BY <1>4, <1>5, AppendOpen, QueuedPaired
<1>8. ASSUME ~IsEmpty(full)
      PROVE  /\ Coupled(Queued(t), z) /\ Queued(t)[1].max = m
  <2>1. Queued(t) = <<full, scanqueue>>
    BY <1>8 DEF Queued
  <2> HIDE DEF full, z
  <2>2. Holds(full, Tokens, z)
    BY <1>4, <1>6, <1>7, <1>8 DEF Holds
  <2>3. SlotsOf(full, o) = Slots(l, m, h, o)
    BY <1>4, <1>6 DEF SlotsOf, Slots
  <2>4. Refers(Queued(t), z, o)
    BY <1>4, <1>6, <1>7, <2>1, <2>2, <2>3 DEF Refers
  <2> QED BY <1>6, <2>1, <2>4 DEF Coupled
<1>9. ASSUME IsEmpty(full)
      PROVE  /\ Coupled(Queued(t), z) /\ Queued(t)[1].max = m + Expansion
             /\ Unsized(s) # {}
  <2> DEFINE rebased == Rebased(scanqueue, l, m)
             toks == Expanded(full, Expansion, BlankToken)
             refs == Expanded(rebased, Expansion, BlankRef)
             r == Slots(l, m, h, o)
             v == [k \in DOMAIN r |-> (r[k] + m - l) % m]
             S == 0 .. m - 1
  <2>1. Queued(t) = <<toks, refs>>
    BY <1>6, <1>9 DEF Queued
  <2>2. Unsized(s) # {} /\ h > 0
    <3>1. ~(n + 1 < m)
      BY <1>6, <1>9
    <3>2. Unsized(s) # {}
      BY <1>4, <3>1
    <3> QED BY <1>4, <1>5, <3>2, NoneOpen
  <2>3. Expansion \in Nat \ {0}
    <3>1. Expansion > 0
      BY PrinterAssumption
    <3> QED BY <3>1, Assumed
  <2>4. /\ Holds(toks, Tokens, z) /\ toks.max = m + Expansion /\ toks.left = 0
    <3> HIDE DEF full, z
    <3> QED BY <1>4, <1>6, <1>7, <2>3, BlankIsToken, ExpandedHolds, SMTT(30)
  <2>5. Holds(rebased, S, v) /\ rebased.max = m
    BY <1>4, RebasedHolds
  <2>6. DOMAIN r = 1 .. h /\ \A k \in 1 .. h : r[k] = Slot(l, m, o[k])
    BY DEF Slots
  <2>7. \A k \in 1 .. h : v[k] = o[k] - 1
    <3>1. SUFFICES ASSUME NEW k \in 1 .. h PROVE v[k] = o[k] - 1
      OBVIOUS
    <3>2. PICK a \in 1 .. n : o[k] = a
      BY <1>4
    <3>3. a \in 1 .. m
      OBVIOUS
    <3>4. (Slot(l, m, a) + m - l) % m = a - 1
      BY <3>3, SlotPlace
    <3> QED BY <2>6, <3>2, <3>4
  <2>8. DOMAIN v = 1 .. h /\ Len(v) = h
    <3>1. DOMAIN v = 1 .. h
      BY <2>6
    <3>2. v \in Seq(S)
      BY <2>5 DEF Holds, Spans
    <3> HIDE DEF v, S
    <3> QED BY <1>4, <3>1, <3>2
  <2> HIDE DEF r, v, rebased, toks, full, z
  <2>9. Holds(refs, S, v) /\ refs.max = m + Expansion
    <3>1. Spans(rebased, S, v) /\ Len(v) > 0 /\ BlankRef \in S
      BY <2>2, <2>5, <2>8 DEF Holds, BlankRef
    <3> HIDE DEF S
    <3> QED BY <2>3, <2>5, <3>1, ExpandedHolds
  <2> HIDE DEF refs
  <2>10. SlotsOf(toks, o) = v
    <3>1. PICK big \in Nat \ {0} : big = m + Expansion /\ big > m
      BY <2>3
    <3>2. \A k \in 1 .. h : Slot(0, big, o[k]) = o[k] - 1
      <4>1. SUFFICES ASSUME NEW k \in 1 .. h PROVE Slot(0, big, o[k]) = o[k] - 1
        OBVIOUS
      <4>2. PICK a \in 1 .. n : o[k] = a
        BY <1>4
      <4>3. a \in 0 .. big /\ 0 \in 0 .. big - 1 /\ ~(0 + a - 1 < 0)
            /\ 0 + a - 1 < big /\ 0 + a - 1 = a - 1
        BY <3>1
      <4>4. Slot(0, big, a) = a - 1
        BY <4>3, SlotIs
      <4> QED BY <4>2, <4>4
    <3>3. SlotsOf(toks, o) = [k \in 1 .. h |-> Slot(0, big, o[k])]
      BY <1>4, <2>4, <3>1 DEF SlotsOf
    <3>4. SlotsOf(toks, o) = [k \in 1 .. h |-> v[k]]
      BY <2>7, <3>2, <3>3
    <3>5. v = [k \in 1 .. h |-> v[k]]
      <4>1. v \in Seq(S)
        BY <2>5 DEF Holds, Spans
      <4> HIDE DEF S
      <4> QED BY <2>8, <4>1, SeqIsFcn
    <3> QED BY <3>4, <3>5
  <2>11. Holds(refs, 0 .. toks.max - 1, v)
    <3>1. S \subseteq 0 .. toks.max - 1
      BY <2>3, <2>4
    <3> HIDE DEF S
    <3> QED BY <2>9, <3>1, HoldsWider
  <2>12. Refers(Queued(t), z, o)
    BY <1>7, <2>1, <2>4, <2>10, <2>11 DEF Refers
  <2> QED BY <2>1, <2>2, <2>4, <2>12 DEF Coupled
<1> HIDE DEF full, z
<1> QED BY <1>4, <1>8, <1>9 DEF z

-----------------------------------------------------------------------------
(* The invariant, part by part.  The tokens that wait: the ones with no    *)
(* size are groups and white space, minus a width taken in before them,    *)
(* and scanqueue refers to them.                                           *)
Waiting == Elements(tokqueue)

Sizeless(s, right) ==
  \A i \in Unsized(s) :
    s[i].class \in Begins \cup {"tokenbreak"} /\ s[i].size >= -right

QueuesHold ==
  /\ Coupled(<<tokqueue, scanqueue>>, Waiting)
  /\ tokqueue.max >= QueueSize
  /\ rightotal >= 1
  /\ Sizeless(Waiting, rightotal)

(* The phases: advanceleft is called when every size is known, the test    *)
(* of the loop when one is not; in between what waits with no reference is *)
(* quiet, and less than what fills the queue.                              *)
AllQuiet(s) == \A i \in 1 .. Len(s) : s[i].class \in Quiet

PhasesHold ==
  /\ phase = "advance" => Unsized(Waiting) = {}
  /\ phase = "force" => Unsized(Waiting) # {}
  /\ (phase = "idle" /\ Unsized(Waiting) = {}) =>
       Len(Waiting) <= quiet /\ AllQuiet(Waiting)
  /\ phase = "flush" => todo = <<>> /\ nesting = <<>> /\ needbreak
  /\ (nesting = <<>> /\ ~needbreak) =>
       todo = <<>> /\ phase = "idle" /\ Len(Waiting) = 0

(* The tokens a call has yet to queue: at most one of them is quiet, and   *)
(* text finds a group or white space before it that no text or end of a    *)
(* group has let go; so does the next call when needbreak is not set.      *)
QuietFits(s, q) ==
  /\ q <= MaxQuiet
  /\ \A i \in DOMAIN s : s[i].class \in Quiet =>
       /\ q < MaxQuiet \/ \E j \in DOMAIN s : j < i /\ s[j].class \notin Quiet
       /\ \A j \in DOMAIN s : j # i => s[j].class \notin Quiet

Feeds(t) == t.class \in Begins \cup {"tokenbreak"}

Starves(t) == t.class \in Ends \cup {"tokenstring"}

Hungry(s, last, i) == IF i = Len(s) + 1 THEN last ELSE s[i].class = "tokenstring"

FedInside(s, i) ==
  \E j \in 1 .. i - 1 :
    Feeds(s[j]) /\ \A k \in j + 1 .. i - 1 : ~Starves(s[k])

FedBefore(s, i) == \A k \in 1 .. i - 1 : ~Starves(s[k])

Fed(s, last, open) ==
  \A i \in 1 .. Len(s) + 1 :
    Hungry(s, last, i) => FedInside(s, i) \/ (open /\ FedBefore(s, i))

CallsHold ==
  /\ nesting # <<>> => nesting[1] = "function"
  /\ \A i \in DOMAIN todo : todo[i] \in AllContents
  /\ QuietFits(todo, quiet)
  /\ Fed(todo, ~needbreak /\ nesting # <<>>,
         phase = "idle" /\ Unsized(Waiting) # {})

QInv == QueuesHold /\ PhasesHold /\ CallsHold

(* What a call may queue, token by token.                                  *)
LEMMA ContentsAreTokens ==
  ASSUME NEW t \in AllContents
  PROVE  /\ t \in Tokens /\ t.size >= 0
         /\ Content(t) = t
         /\ t.class # "tokenstring" => t.size = 0
<1>1. /\ 0 \in Nat /\ 1 \in Nat /\ HardBreak \in Nat /\ IndentIncrement \in Nat
      /\ Texts \subseteq Nat /\ Gaps \subseteq Nat /\ Bumps \subseteq Nat
      /\ Margins \subseteq Nat
  BY Assumed
<1>2. ASSUME NEW c \in Begins \cup Ends \cup {"end_indent", "ignore"},
             t = Delimiter(c)
      PROVE  t \in Tokens /\ t.size = 0
  <2>1. c \in Classes
    BY DEF Classes, Quiet
  <2> QED BY <1>2, <2>1, TokenTypes DEF Delimiter, Token
<1>3. ASSUME NEW n \in Texts \cup {0, 1}, t = String(n)
      PROVE  t \in Tokens /\ t.size >= 0 /\ t.class = "tokenstring"
  <2>1. n \in Nat
    BY <1>1
  <2> QED BY <1>3, <2>1, TokenTypes DEF String, Token
<1>4. ASSUME NEW num \in Gaps \cup {0, 1}, NEW bump \in Bumps \cup {0},
             t = Space(num, bump)
      PROVE  t \in Tokens /\ t.size = 0
  <2>1. num \in Nat /\ bump \in Nat
    BY <1>1
  <2> QED BY <1>4, <2>1, TokenTypes DEF Space, Token
<1>5. ASSUME NEW i \in Margins, t = LineAt(i)
      PROVE  t \in Tokens /\ t.size = 0
  <2>1. i \in Nat
    BY <1>1
  <2> QED BY <1>5, <2>1, TokenTypes DEF LineAt, Token
<1>6. ASSUME t \in {Indent, Line}
      PROVE  t \in Tokens /\ t.size = 0
  <2>1. Indent \in Tokens /\ Line \in Tokens
    BY TokenTypes
  <2>2. Indent.size = 0 /\ Line.size = 0
    BY DEF Indent, Line, Token
  <2> QED BY <1>6, <2>1, <2>2
<1>7. t \in Tokens /\ t.size >= 0 /\ (t.class # "tokenstring" => t.size = 0)
  <2>1. \/ t \in {Delimiter(c) : c \in Begins \cup Ends \cup {"end_indent", "ignore"}}
        \/ t \in {String(n) : n \in Texts \cup {0, 1}}
        \/ t \in {Space(num, bump) : num \in Gaps \cup {0, 1}, bump \in Bumps \cup {0}}
        \/ t \in {Indent, Line}
        \/ t \in {LineAt(i) : i \in Margins}
    BY DEF AllContents
  <2> QED BY <1>2, <1>3, <1>4, <1>5, <1>6, <2>1
<1>8. Content(t) = t
  <2>1. (IF t.class = "tokenstring" THEN t.size ELSE 0) = t.size
    BY <1>7
  <2>2. Content(t) = [t EXCEPT !.size = t.size]
    BY <2>1 DEF Content
  <2> QED BY <1>7, <2>2 DEF Tokens
<1> QED BY <1>7, <1>8

LEMMA FedTail ==
  ASSUME NEW s \in Seq(Tokens), Len(s) > 0, NEW last, NEW open,
         Fed(s, last, open)
  PROVE  /\ Head(s).class = "tokenstring" => open
         /\ Fed(Tail(s), last, Feeds(Head(s)) \/ (open /\ ~Starves(Head(s))))
<1> DEFINE t == Tail(s)
           now == Feeds(Head(s)) \/ (open /\ ~Starves(Head(s)))
<1>1. PICK n \in Nat : Len(s) = n + 1
  <2>1. Len(s) - 1 \in Nat /\ Len(s) = (Len(s) - 1) + 1
    OBVIOUS
  <2> QED BY <2>1
<1>2. /\ Len(t) = n /\ Head(s) = s[1]
      /\ \A k \in 1 .. n : t[k] = s[k + 1]
  BY <1>1
<1>3. Head(s).class = "tokenstring" => open
  <2>1. 1 \in 1 .. Len(s) + 1 /\ 1 # Len(s) + 1 /\ 1 .. 1 - 1 = {}
    BY <1>1
  <2> QED BY <1>2, <2>1 DEF Fed, Hungry, FedInside
<1> HIDE DEF t
<1>4. ASSUME NEW i \in 1 .. n + 1, Hungry(t, last, i)
      PROVE  FedInside(t, i) \/ (now /\ FedBefore(t, i))
  <2>1. i + 1 \in 1 .. Len(s) + 1 /\ (i + 1 = Len(s) + 1 <=> i = n + 1)
    BY <1>1
  <2>2. Hungry(s, last, i + 1)
    <3>1. CASE i = n + 1
      BY <1>1, <1>2, <1>4, <2>1, <3>1 DEF Hungry
    <3>2. CASE i # n + 1
      <4>1. i \in 1 .. n
        BY <3>2
      <4>2. t[i] = s[i + 1]
        BY <1>2, <4>1
      <4> QED BY <1>1, <1>2, <1>4, <2>1, <3>2, <4>2 DEF Hungry
    <3> QED BY <3>1, <3>2
  <2>3. FedInside(s, i + 1) \/ (open /\ FedBefore(s, i + 1))
    BY <2>1, <2>2 DEF Fed
  <2>4. \A k \in 1 .. i - 1 : k + 1 \in 1 .. i /\ k \in 1 .. n /\ t[k] = s[k + 1]
    BY <1>2
  <2>5. (i + 1) - 1 = i /\ 1 \in 1 .. i
    OBVIOUS
  <2>6. CASE open /\ FedBefore(s, i + 1)
    <3>1. \A k \in 1 .. i : ~Starves(s[k])
      BY <2>5, <2>6 DEF FedBefore
    <3>2. FedBefore(t, i)
      BY <2>4, <3>1 DEF FedBefore
    <3>3. ~Starves(Head(s))
      BY <1>2, <2>5, <3>1
    <3> QED BY <2>6, <3>2, <3>3
  <2>7. CASE FedInside(s, i + 1)
    <3>1. PICK j \in 1 .. i :
            Feeds(s[j]) /\ \A k \in j + 1 .. i : ~Starves(s[k])
      BY <2>5, <2>7 DEF FedInside
    <3>2. CASE j = 1
      <4>1. \A k \in 1 .. i - 1 : k + 1 \in j + 1 .. i
        BY <3>2
      <4>2. FedBefore(t, i)
        BY <2>4, <3>1, <4>1 DEF FedBefore
      <4> QED BY <1>2, <3>1, <3>2, <4>2
    <3>3. CASE j # 1
      <4>1. PICK k \in 1 .. i - 1 : j = k + 1
        <5>1. j - 1 \in 1 .. i - 1 /\ j = (j - 1) + 1
          BY <3>1, <3>3
        <5> QED BY <5>1
      <4>2. Feeds(t[k])
        BY <2>4, <3>1, <4>1
      <4>3. \A q \in k + 1 .. i - 1 : q \in 1 .. i - 1 /\ q + 1 \in j + 1 .. i
        BY <4>1
      <4>4. \A q \in k + 1 .. i - 1 : ~Starves(t[q])
        BY <2>4, <3>1, <4>3
      <4> QED BY <4>2, <4>4 DEF FedInside
    <3> QED BY <3>2, <3>3
  <2> QED BY <2>3, <2>6, <2>7
<1>5. Fed(t, last, now)
  BY <1>2, <1>4 DEF Fed
<1> QED BY <1>3, <1>5 DEF t

LEMMA QuietTail ==
  ASSUME NEW s \in Seq(Tokens), Len(s) > 0, NEW q \in Nat, QuietFits(s, q)
  PROVE  QuietFits(Tail(s), IF Head(s).class \in Quiet THEN q + 1 ELSE 0)
<1> DEFINE t == Tail(s)
<1>1. PICK n \in Nat : Len(s) = n + 1
  <2>1. Len(s) - 1 \in Nat /\ Len(s) = (Len(s) - 1) + 1
    OBVIOUS
  <2> QED BY <2>1
<1>2. /\ DOMAIN s = 1 .. n + 1 /\ DOMAIN t = 1 .. n /\ Head(s) = s[1]
      /\ \A k \in 1 .. n : t[k] = s[k + 1]
  BY <1>1
<1>3. \A k \in 1 .. n : k + 1 \in 1 .. n + 1 /\ k + 1 # 1
  OBVIOUS
<1>4. 1 \in 1 .. n + 1 /\ q \in Nat
      /\ MaxQuiet \in Nat /\ 0 < MaxQuiet /\ 0 <= MaxQuiet
  BY PrinterAssumption
<1> HIDE DEF t
<1>5. \A i, j \in 1 .. n : t[i].class \in Quiet /\ t[j].class \in Quiet => i = j
  <2>1. SUFFICES ASSUME NEW i \in 1 .. n, NEW j \in 1 .. n,
                        t[i].class \in Quiet, t[j].class \in Quiet, i # j
                 PROVE  FALSE
    OBVIOUS
  <2>2. i + 1 # j + 1 /\ i + 1 \in 1 .. n + 1 /\ j + 1 \in 1 .. n + 1
    BY <1>3, <2>1
  <2> QED BY <1>2, <2>1, <2>2 DEF QuietFits
<1>6. CASE Head(s).class \in Quiet
  <2>1. q < MaxQuiet
    <3>1. ~\E j \in DOMAIN s : j < 1
      BY <1>2
    <3> QED BY <1>2, <1>4, <1>6, <3>1 DEF QuietFits
  <2>2. \A k \in 1 .. n : t[k].class \notin Quiet
    BY <1>2, <1>3, <1>4, <1>6 DEF QuietFits
  <2>3. q + 1 <= MaxQuiet
    BY <1>4, <2>1
  <2> QED BY <1>2, <1>6, <2>2, <2>3 DEF QuietFits, t
<1>7. CASE Head(s).class \notin Quiet
  BY <1>2, <1>4, <1>5, <1>7 DEF QuietFits, t
<1> QED BY <1>6, <1>7

(* What scan does to the tokens that wait.                                 *)
Settles(s, z, i) == LastOpen(s, i) /\ z = Resize(s, i, s[i].size + rightotal)

SettlesBreak(s, z) ==
  \/ \E i : Settles(s, z, i) /\ s[i].class = "tokenbreak"
  \/ z = s /\ \A i : LastOpen(s, i) => s[i].class # "tokenbreak"

SettlesLast(s, z) ==
  \/ \E i : Settles(s, z, i)
  \/ z = s /\ Unsized(s) = {}

LEMMA ToScan ==
  ASSUME IInv, QInv, NEW C, Scanning(C)
  PROVE  LET t == Head(todo)
         IN /\ t \in AllContents /\ t \in Tokens /\ t.size >= 0
            /\ t.class \in C /\ todo \in Seq(Tokens) /\ Len(todo) > 0
            /\ Tail(todo) \in Seq(Tokens)
            /\ \A i \in DOMAIN Tail(todo) : Tail(todo)[i] \in AllContents
            /\ phase = "idle"
            /\ Waiting \in Seq(Tokens) /\ Coupled(<<tokqueue, scanqueue>>, Waiting)
            /\ Coupled(Queued(t), Append(Waiting, t))
            /\ Unsized(Append(Waiting, t)) = Unsized(Waiting)
            /\ IsEmpty(Queued(t)[2]) <=> Unsized(Waiting) = {}
            /\ Queued(t)[1].max >= QueueSize
            /\ Queued(t)[1].max # tokqueue.max => Unsized(Waiting) # {}
<1> DEFINE t == Head(todo)
<1>1. todo \in Seq(Tokens) /\ todo # <<>> /\ t.class \in C /\ phase = "idle"
  BY DEF Scanning, IInv, CallsOK
<1>2. Len(todo) > 0 /\ 1 \in DOMAIN todo /\ t = todo[1]
      /\ Tail(todo) \in Seq(Tokens)
      /\ \A i \in DOMAIN Tail(todo) : i + 1 \in DOMAIN todo /\ Tail(todo)[i] = todo[i + 1]
  BY <1>1
<1>3. t \in AllContents /\ \A i \in DOMAIN Tail(todo) : Tail(todo)[i] \in AllContents
  BY <1>2 DEF QInv, CallsHold
<1>4. t \in Tokens /\ t.size >= 0
  BY <1>3, ContentsAreTokens
<1>5. Coupled(<<tokqueue, scanqueue>>, Waiting) /\ tokqueue.max >= QueueSize
  BY DEF QInv, QueuesHold
<1>6. Waiting \in Seq(Tokens) /\ Len(Waiting) \in Nat /\ tokqueue.max \in Nat
  <2>1. Paired(<<tokqueue, scanqueue>>)
    BY DEF IInv, QueuesOK
  <2>2. tokqueue.max \in Nat
    BY <2>1, PairedParts
  <2>3. Waiting \in Seq(Tokens)
    BY <1>5, CoupledTells
  <2> QED BY <2>2, <2>3
<1>7. Unsized(Waiting) = {} => Len(Waiting) + 1 < tokqueue.max
  <2>1. SUFFICES ASSUME Unsized(Waiting) = {} PROVE Len(Waiting) + 1 < tokqueue.max
    OBVIOUS
  <2>2. Len(Waiting) <= quiet
    BY <1>1, <2>1 DEF QInv, PhasesHold
  <2>3. quiet <= MaxQuiet /\ quiet \in Nat
    BY DEF QInv, CallsHold, QuietFits, IInv, CallsOK
  <2>4. MaxQuiet < QueueSize - 1 /\ MaxQuiet \in Nat /\ QueueSize \in Nat
    BY PrinterAssumption
  <2> QED BY <1>5, <1>6, <2>2, <2>3, <2>4
<1>8. /\ Coupled(Queued(t), Append(Waiting, t))
      /\ Queued(t)[1].max \in {tokqueue.max, tokqueue.max + Expansion}
      /\ Queued(t)[1].max # tokqueue.max => Unsized(Waiting) # {}
  BY <1>4, <1>5, <1>7, QueuedCoupled
<1>9. Unsized(Append(Waiting, t)) = Unsized(Waiting)
  BY <1>4, <1>6, AppendOpen
<1>10. IsEmpty(Queued(t)[2]) <=> Unsized(Waiting) = {}
  BY <1>8, <1>9, CoupledTells
<1>11. Queued(t)[1].max >= QueueSize
  BY <1>5, <1>6, <1>8, Assumed
<1> QED BY <1>1, <1>2, <1>3, <1>4, <1>5, <1>6, <1>8, <1>9, <1>10, <1>11

LEMMA SizelessSettles ==
  ASSUME NEW s \in Seq(Tokens), rightotal \in Int, Sizeless(s, rightotal),
         NEW i, LastOpen(s, i)
  PROVE  /\ i \in 1 .. Len(s) /\ s[i] \in Tokens /\ s[i].size + rightotal \in Nat
         /\ Unsized(Resize(s, i, s[i].size + rightotal)) = Unsized(s) \ {i}
         /\ Sizeless(Resize(s, i, s[i].size + rightotal), rightotal)
         /\ Resize(s, i, s[i].size + rightotal) \in Seq(Tokens)
         /\ Len(Resize(s, i, s[i].size + rightotal)) = Len(s)
<1>1. i \in 1 .. Len(s) /\ i \in Unsized(s)
  BY DEF LastOpen, Unsized
<1>2. s[i] \in Tokens
  BY <1>1
<1>3. s[i].size \in Int /\ s[i].size >= -rightotal
  BY <1>1, <1>2 DEF Sizeless, Tokens
<1> DEFINE size == s[i].size + rightotal
           z == Resize(s, i, size)
<1>4. size \in Nat /\ size \in Int /\ ~(size < 0)
  BY <1>3
<1> HIDE DEF size
<1>5. /\ z \in Seq(Tokens) /\ Len(z) = Len(s)
      /\ \A j \in 1 .. Len(s) : (j # i => z[j] = s[j])
      /\ Unsized(z) = Unsized(s) \ {i}
  <2>1. /\ z \in Seq(Tokens) /\ Len(z) = Len(s)
        /\ \A j \in 1 .. Len(s) : (j # i => z[j] = s[j])
    BY <1>1, <1>4, ResizeTokens
  <2>2. Unsized(z) = Unsized(s) \ {i}
    BY <1>1, <1>4, ResizeOpen
  <2> QED BY <2>1, <2>2
<1>6. Sizeless(z, rightotal)
  BY <1>5 DEF Sizeless, Unsized
<1> QED BY <1>1, <1>2, <1>4, <1>5, <1>6 DEF size

(* A commit, or none.                                                      *)
LEMMA CommitsSettle ==
  ASSUME NEW both, NEW s, Coupled(both, s), rightotal \in Int,
         Sizeless(s, rightotal)
  PROVE  /\ LET inner == IF BreakOnTop(both) THEN Committed(both) ELSE both
            IN \E z : /\ SettlesBreak(s, z) /\ Coupled(inner, z)
                      /\ Sizeless(z, rightotal)
                      /\ inner[1].max = both[1].max
         /\ LET group == IF IsEmpty(both[2]) THEN both ELSE Committed(both)
            IN \E z : /\ SettlesLast(s, z) /\ Coupled(group, z)
                      /\ Sizeless(z, rightotal)
                      /\ group[1].max = both[1].max
<1>1. /\ s \in Seq(Tokens)
      /\ IsEmpty(both[2]) <=> Unsized(s) = {}
      /\ \A i : LastOpen(s, i) => both[1].cache[Top(both[2])] = s[i]
      /\ Unsized(s) # {} => \E i : LastOpen(s, i)
  BY CoupledTells
<1>2. ASSUME NEW i, LastOpen(s, i)
      PROVE  LET z == Resize(s, i, s[i].size + rightotal)
             IN /\ Settles(s, z, i) /\ Coupled(Committed(both), z)
                /\ Sizeless(z, rightotal)
                /\ Committed(both)[1].max = both[1].max
  <2>1. /\ s[i].size + rightotal \in Nat
        /\ Sizeless(Resize(s, i, s[i].size + rightotal), rightotal)
    BY <1>1, <1>2, SizelessSettles
  <2>2. s[i].size + rightotal >= 0
    BY <2>1
  <2>3. /\ Coupled(Committed(both), Resize(s, i, s[i].size + rightotal))
        /\ Committed(both)[1].max = both[1].max
    BY <1>2, <2>2, CommittedCoupled
  <2> QED BY <1>2, <2>1, <2>3 DEF Settles
<1>3. \A i : LastOpen(s, i) => i \in Unsized(s)
  BY DEF LastOpen
<1>4. CASE Unsized(s) = {}
  <2>1. ~BreakOnTop(both)
    BY <1>1, <1>4 DEF BreakOnTop
  <2> QED BY <1>1, <1>3, <1>4, <2>1 DEF SettlesBreak, SettlesLast
<1>5. CASE Unsized(s) # {}
  <2>1. PICK i : LastOpen(s, i)
    BY <1>1, <1>5
  <2>2. \A j : LastOpen(s, j) => j = i
    <3>1. Unsized(s) \subseteq Int
      BY <1>1 DEF Unsized
    <3> QED BY <2>1, <3>1 DEF LastOpen
  <2>3. BreakOnTop(both) <=> s[i].class = "tokenbreak"
    BY <1>1, <1>5, <2>1 DEF BreakOnTop
  <2>4. CASE s[i].class = "tokenbreak"
    BY <1>1, <1>2, <1>5, <2>1, <2>3, <2>4 DEF SettlesBreak, SettlesLast
  <2>5. CASE s[i].class # "tokenbreak"
    BY <1>1, <1>2, <1>5, <2>1, <2>2, <2>3, <2>5 DEF SettlesBreak, SettlesLast
  <2> QED BY <2>4, <2>5
<1> QED BY <1>4, <1>5

LEMMA OpensLast ==
  ASSUME NEW s \in Seq(Tokens), NEW n, n = Len(s), n > 0,
         NEW right \in Int, right > 0
  PROVE  /\ Resize(s, n, -right) \in Seq(Tokens)
         /\ Len(Resize(s, n, -right)) = n
         /\ Unsized(Resize(s, n, -right)) = Unsized(s) \cup {n}
         /\ \A j \in 1 .. n : j # n => Resize(s, n, -right)[j] = s[j]
         /\ Resize(s, n, -right)[n].class = s[n].class
         /\ Resize(s, n, -right)[n].size = -right
<1>1. n \in 1 .. Len(s) /\ -right \in Int /\ -right < 0
  OBVIOUS
<1> DEFINE size == -right
<1> HIDE DEF size
<1>2. size \in Int /\ size < 0
  BY <1>1 DEF size
<1>3. /\ Resize(s, n, size) \in Seq(Tokens) /\ Len(Resize(s, n, size)) = n
      /\ \A j \in 1 .. n : j # n => Resize(s, n, size)[j] = s[j]
      /\ Resize(s, n, size)[n].class = s[n].class
      /\ Resize(s, n, size)[n].size = size
  BY <1>1, <1>2, ResizeTokens
<1>4. Unsized(Resize(s, n, size)) = Unsized(s) \cup {n}
  BY <1>1, <1>2, ResizeOpen
<1> QED BY <1>3, <1>4 DEF size

LEMMA UncommittedOpens ==
  ASSUME NEW both, NEW z, Coupled(both, z), NEW n, n = Len(z), n > 0,
         z[n].size >= 0, z[n].class \in Begins \cup {"tokenbreak"},
         NEW right \in Nat \ {0}, NEW more \in Nat,
         Sizeless(z, right)
  PROVE  /\ Coupled(Uncommitted(both, right), Resize(z, n, -right))
         /\ Uncommitted(both, right)[1].max = both[1].max
         /\ Sizeless(Resize(z, n, -right), right + more)
         /\ Unsized(Resize(z, n, -right)) # {}
<1>1. right \in Int /\ right > 0
  OBVIOUS
<1>2. z \in Seq(Tokens)
  BY CoupledTells
<1>3. /\ Coupled(Uncommitted(both, right), Resize(z, n, -right))
      /\ Uncommitted(both, right)[1].max = both[1].max
  BY <1>1, UncommittedCoupled
<1> DEFINE w == Resize(z, n, -right)
<1>4. /\ w \in Seq(Tokens) /\ Len(w) = n
      /\ Unsized(w) = Unsized(z) \cup {n}
      /\ \A j \in 1 .. n : j # n => w[j] = z[j]
      /\ w[n].class = z[n].class /\ w[n].size = -right
  BY <1>1, <1>2, OpensLast
<1> HIDE DEF w
<1>5. Sizeless(w, right + more)
  <2>1. SUFFICES ASSUME NEW i \in Unsized(w)
                 PROVE  /\ w[i].class \in Begins \cup {"tokenbreak"}
                        /\ w[i].size >= -(right + more)
    BY DEF Sizeless
  <2>2. CASE i = n
    BY <1>4, <2>2
  <2>3. CASE i # n
    <3>1. i \in Unsized(z) /\ i \in 1 .. n
      BY <1>4, <2>1, <2>3 DEF Unsized
    <3>2. z[i].class \in Begins \cup {"tokenbreak"} /\ z[i].size >= -right
      BY <3>1 DEF Sizeless
    <3>3. z[i] \in Tokens
      BY <1>2, <3>1
    <3>4. z[i].size \in Int
      BY <3>3 DEF Tokens
    <3> QED BY <1>4, <2>3, <3>1, <3>2, <3>4
  <2> QED BY <2>2, <2>3
<1> QED BY <1>3, <1>4, <1>5 DEF w

(* The scans, and what they leave waiting.                                 *)
Right == IF Unsized(Waiting) = {} THEN 1 ELSE rightotal

LEMMA RightIs ==
  ASSUME IInv, QInv
  PROVE  /\ rightotal \in Nat \ {0} /\ Right \in Nat \ {0}
         /\ Waiting \in Seq(Tokens) /\ Len(Waiting) \in Nat
         /\ Sizeless(Waiting, Right) /\ Sizeless(Waiting, rightotal)
<1>1. rightotal \in Int /\ rightotal >= 1
  BY DEF IInv, QueuesOK, QInv, QueuesHold
<1>2. Sizeless(Waiting, rightotal)
  BY DEF QInv, QueuesHold
<1>3. Waiting \in Seq(Tokens)
  BY CoupledTells DEF QInv, QueuesHold
<1>4. Right \in Nat \ {0} /\ Sizeless(Waiting, Right)
  BY <1>1, <1>2 DEF Right, Sizeless
<1> QED BY <1>1, <1>2, <1>3, <1>4

LEMMA AppendSizeless ==
  ASSUME NEW s \in Seq(Tokens), NEW t \in Tokens, t.size >= 0,
         NEW right, Sizeless(s, right)
  PROVE  /\ Sizeless(Append(s, t), right)
         /\ Append(s, t) \in Seq(Tokens) /\ Len(Append(s, t)) = Len(s) + 1
         /\ Append(s, t)[Len(s) + 1] = t
         /\ \A i \in 1 .. Len(s) : Append(s, t)[i] = s[i]
<1>1. Unsized(Append(s, t)) = Unsized(s)
  BY AppendOpen
<1>2. \A i \in Unsized(s) : Append(s, t)[i] = s[i]
  BY DEF Unsized
<1>3. Sizeless(Append(s, t), right)
  BY <1>1, <1>2 DEF Sizeless
<1>4. /\ Append(s, t) \in Seq(Tokens) /\ Len(Append(s, t)) = Len(s) + 1
      /\ Append(s, t)[Len(s) + 1] = t
      /\ \A i \in 1 .. Len(s) : Append(s, t)[i] = s[i]
  OBVIOUS
<1> QED BY <1>3, <1>4

LEMMA ScanBeginTokens ==
  ASSUME IInv, QInv, ScanBegin
  PROVE  LET t == Head(todo)
         IN /\ t \in Tokens /\ t.size >= 0 /\ t.class \in Begins
            /\ Waiting' = Resize(Append(Waiting, t), Len(Waiting) + 1, -Right)
            /\ rightotal' = Right
            /\ QueuesHold' /\ Unsized(Waiting)' # {}
            /\ phase = "idle" /\ phase' = "idle"
            /\ tokqueue'.max # tokqueue.max => Unsized(Waiting) # {}
<1> DEFINE t == Head(todo)
           both == Queued(t)
           z == Append(Waiting, t)
           w == Resize(z, Len(Waiting) + 1, -Right)
<1>1. Scanning(Begins) /\ phase' = phase
  BY DEF ScanBegin
<1>2. /\ t \in Tokens /\ t.size >= 0 /\ t.class \in Begins /\ phase = "idle"
      /\ Coupled(both, z)
      /\ IsEmpty(both[2]) <=> Unsized(Waiting) = {}
      /\ both[1].max >= QueueSize
      /\ both[1].max # tokqueue.max => Unsized(Waiting) # {}
  BY <1>1, ToScan
<1>3. /\ Right \in Nat \ {0} /\ Waiting \in Seq(Tokens) /\ Len(Waiting) \in Nat
      /\ Sizeless(Waiting, Right)
  BY RightIs
<1>4. /\ Sizeless(z, Right) /\ Len(z) = Len(Waiting) + 1
      /\ z[Len(Waiting) + 1] = t
  BY <1>2, <1>3, AppendSizeless
<1>5. tokqueue' = Uncommitted(both, Right)[1] /\ scanqueue' = Uncommitted(both, Right)[2]
      /\ rightotal' = Right
  BY <1>2 DEF ScanBegin, SetQueues, Right
<1> HIDE DEF t, both, z
<1>6. /\ Coupled(Uncommitted(both, Right), w)
      /\ Uncommitted(both, Right)[1].max = both[1].max
      /\ Sizeless(w, Right + 0) /\ Unsized(w) # {}
  <2>1. 0 \in Nat /\ Len(Waiting) + 1 > 0
        /\ t.class \in Begins \cup {"tokenbreak"}
    BY <1>2, <1>3
  <2> QED BY <1>2, <1>3, <1>4, <2>1, UncommittedOpens
<1>7. Right + 0 = Right /\ Right >= 1
  BY <1>3
<1> HIDE DEF w
<1>8. Uncommitted(both, Right) = <<tokqueue', scanqueue'>>
  BY <1>5 DEF Uncommitted
<1>9. Waiting' = w
  BY <1>5, <1>6, CoupledTells DEF Waiting
<1>10. QueuesHold'
  BY <1>2, <1>5, <1>6, <1>7, <1>8, <1>9 DEF QueuesHold
<1> QED BY <1>1, <1>2, <1>5, <1>6, <1>9, <1>10 DEF w, z, t

LEMMA ScanBreakTokens ==
  ASSUME IInv, QInv, ScanBreak
  PROVE  LET t == Head(todo)
         IN /\ t \in Tokens /\ t.size >= 0 /\ t.class = "tokenbreak"
            /\ \E z : /\ SettlesBreak(Append(Waiting, t), z)
                      /\ Waiting' = Resize(z, Len(Waiting) + 1, -Right)
            /\ rightotal' = Right + t.num
            /\ QueuesHold' /\ Unsized(Waiting)' # {}
            /\ phase = "idle" /\ phase' = "idle"
            /\ tokqueue'.max # tokqueue.max => Unsized(Waiting) # {}
<1> DEFINE t == Head(todo)
           n == Len(Waiting) + 1
           both == Queued(t)
           y == Append(Waiting, t)
           inner == IF BreakOnTop(both) THEN Committed(both) ELSE both
<1>1. Scanning({"tokenbreak"}) /\ phase' = phase
  BY DEF ScanBreak
<1>2. /\ t \in Tokens /\ t.size >= 0 /\ t.class = "tokenbreak" /\ phase = "idle"
      /\ Coupled(both, y) /\ Unsized(y) = Unsized(Waiting)
      /\ IsEmpty(both[2]) <=> Unsized(Waiting) = {}
      /\ both[1].max >= QueueSize
      /\ both[1].max # tokqueue.max => Unsized(Waiting) # {}
  BY <1>1, ToScan
<1>3. /\ Right \in Nat \ {0} /\ Waiting \in Seq(Tokens) /\ Len(Waiting) \in Nat
      /\ Sizeless(Waiting, rightotal) /\ rightotal \in Int /\ t.num \in Nat
  BY <1>2, RightIs DEF Tokens
<1>4. /\ Sizeless(y, rightotal) /\ Len(y) = n /\ y \in Seq(Tokens)
      /\ y[n] = t
  BY <1>2, <1>3, AppendSizeless
<1>5. tokqueue' = Uncommitted(inner, Right)[1] /\ scanqueue' = Uncommitted(inner, Right)[2]
      /\ rightotal' = Right + t.num
  BY <1>2 DEF ScanBreak, SetQueues, Right
<1>6. PICK z : /\ SettlesBreak(y, z) /\ Coupled(inner, z)
               /\ Sizeless(z, rightotal)
               /\ inner[1].max = both[1].max
  BY <1>2, <1>3, <1>4, CommitsSettle
<1>7. /\ Len(z) = n /\ n > 0 /\ n \in Nat /\ z[n].size >= 0
      /\ z[n].class \in Begins \cup {"tokenbreak"} /\ Sizeless(z, Right)
  <2>1. n > 0 /\ n \in Nat /\ n \in 1 .. n
    BY <1>3
  <2>2. ASSUME z = y PROVE Len(z) = n /\ z[n] = t
    BY <1>4, <2>2
  <2>3. ASSUME NEW i, Settles(y, z, i) PROVE Len(z) = n /\ z[n] = t
    <3>1. LastOpen(y, i) /\ i \in Unsized(Waiting)
      BY <1>2, <2>3 DEF Settles, LastOpen
    <3>2. i # n /\ i \in 1 .. Len(y)
      BY <1>3, <1>4, <3>1 DEF Unsized
    <3>3. z = Resize(y, i, y[i].size + rightotal) /\ y[i].size + rightotal \in Int
      <4>1. z = Resize(y, i, y[i].size + rightotal)
        BY <2>3 DEF Settles
      <4>2. LastOpen(y, i)
        BY <3>1
      <4> HIDE DEF y
      <4>3. y[i].size + rightotal \in Nat
        BY <1>3, <1>4, <4>2, SizelessSettles
      <4> QED BY <4>1, <4>3
    <3>4. Len(z) = Len(y) /\ \A j \in 1 .. Len(y) : j # i => z[j] = y[j]
      BY <1>4, <3>2, <3>3, ResizeTokens
    <3> QED BY <1>4, <2>1, <3>2, <3>4
  <2>4. Len(z) = n /\ z[n] = t
    BY <1>6, <2>2, <2>3 DEF SettlesBreak
  <2>5. Sizeless(z, Right)
    <3>1. CASE Unsized(Waiting) # {}
      BY <1>6, <3>1 DEF Right
    <3>2. CASE Unsized(Waiting) = {}
      <4>1. \A i : ~LastOpen(y, i)
        BY <1>2, <3>2 DEF LastOpen
      <4>2. z = y
        BY <1>6, <4>1 DEF SettlesBreak, Settles
      <4> QED BY <1>2, <3>2, <4>2 DEF Sizeless
    <3> QED BY <3>1, <3>2
  <2> QED BY <1>2, <2>1, <2>4, <2>5
<1> DEFINE w == Resize(z, n, -Right)
<1> HIDE DEF t, both, y, inner, n
<1>8. /\ Coupled(Uncommitted(inner, Right), w)
      /\ Uncommitted(inner, Right)[1].max = inner[1].max
      /\ Sizeless(w, Right + t.num) /\ Unsized(w) # {}
  BY <1>3, <1>6, <1>7, UncommittedOpens
<1>9. Right + t.num >= 1
  BY <1>3
<1> HIDE DEF w
<1>10. Uncommitted(inner, Right) = <<tokqueue', scanqueue'>>
  BY <1>5 DEF Uncommitted
<1>11. Waiting' = w
  BY <1>5, <1>8, CoupledTells DEF Waiting
<1>12. QueuesHold'
  BY <1>2, <1>5, <1>6, <1>8, <1>9, <1>10, <1>11 DEF QueuesHold
<1>13. tokqueue'.max # tokqueue.max => Unsized(Waiting) # {}
  BY <1>2, <1>5, <1>6, <1>8
<1> QED BY <1>1, <1>2, <1>5, <1>6, <1>8, <1>11, <1>12, <1>13 DEF w, y, t, n

LEMMA ScanEndTokens ==
  ASSUME IInv, QInv, ScanEnd
  PROVE  LET t == Head(todo)
         IN /\ t \in Tokens /\ t.size >= 0 /\ t.class \in Ends
            /\ \E z : /\ SettlesBreak(Append(Waiting, t), z)
                      /\ SettlesLast(z, Waiting')
            /\ rightotal' = rightotal
            /\ QueuesHold'
            /\ phase = "idle"
            /\ phase' = IF Unsized(Waiting)' = {} /\ Unsized(Waiting) # {}
                        THEN "advance" ELSE "idle"
            /\ tokqueue'.max # tokqueue.max => Unsized(Waiting) # {}
<1> DEFINE t == Head(todo)
           both == Queued(t)
           y == Append(Waiting, t)
           inner == IF BreakOnTop(both) THEN Committed(both) ELSE both
           group == IF IsEmpty(inner[2]) THEN inner ELSE Committed(inner)
<1>1. Scanning(Ends)
  BY DEF ScanEnd
<1>2. /\ t \in Tokens /\ t.size >= 0 /\ t.class \in Ends /\ phase = "idle"
      /\ Coupled(both, y) /\ Unsized(y) = Unsized(Waiting)
      /\ IsEmpty(both[2]) <=> Unsized(Waiting) = {}
      /\ both[1].max >= QueueSize
      /\ both[1].max # tokqueue.max => Unsized(Waiting) # {}
  BY <1>1, ToScan
<1>3. /\ Waiting \in Seq(Tokens) /\ rightotal \in Int /\ rightotal >= 1
      /\ Sizeless(Waiting, rightotal)
  BY RightIs
<1>4. Sizeless(y, rightotal)
  BY <1>2, <1>3, AppendSizeless
<1>5. /\ tokqueue' = group[1] /\ scanqueue' = group[2] /\ rightotal' = rightotal
      /\ phase' = IF IsEmpty(group[2]) /\ ~IsEmpty(both[2]) THEN "advance" ELSE "idle"
  BY DEF ScanEnd, SetQueues
<1> HIDE DEF t, both, y
<1>6. PICK z : /\ SettlesBreak(y, z) /\ Coupled(inner, z)
               /\ Sizeless(z, rightotal)
               /\ inner[1].max = both[1].max
  BY <1>2, <1>3, <1>4, CommitsSettle
<1> HIDE DEF inner
<1>7. PICK w : /\ SettlesLast(z, w) /\ Coupled(group, w)
               /\ Sizeless(w, rightotal)
               /\ group[1].max = inner[1].max
  BY <1>3, <1>6, CommitsSettle
<1>8. /\ Elements(group[1]) = w
      /\ IsEmpty(group[2]) <=> Unsized(w) = {}
  BY <1>7, CoupledTells
<1>9. group = <<tokqueue', scanqueue'>>
  <2>1. both = <<both[1], both[2]>>
    BY DEF both, Queued
  <2>2. inner = <<inner[1], inner[2]>>
    <3>1. CASE BreakOnTop(both)
      <4>1. inner = Committed(both)
        BY <3>1 DEF inner
      <4> QED BY <4>1 DEF Committed
    <3>2. CASE ~BreakOnTop(both)
      <4>1. inner = both
        BY <3>2 DEF inner
      <4> QED BY <2>1, <4>1
    <3> QED BY <3>1, <3>2
  <2>3. CASE IsEmpty(inner[2])
    <3>1. group = inner
      BY <2>3
    <3> QED BY <1>5, <2>2, <3>1
  <2>4. CASE ~IsEmpty(inner[2])
    <3>1. group = Committed(inner)
      BY <2>4
    <3>2. Committed(inner) = <<Committed(inner)[1], Committed(inner)[2]>>
      BY DEF Committed
    <3> QED BY <1>5, <3>1, <3>2
  <2> QED BY <2>3, <2>4
<1> HIDE DEF group
<1>10. Waiting' = w
  BY <1>5, <1>8 DEF Waiting
<1>11. Unsized(Waiting)' = Unsized(w)
  BY <1>10 DEF Unsized
<1>12. QueuesHold'
  BY <1>2, <1>3, <1>5, <1>6, <1>7, <1>9, <1>10 DEF QueuesHold
<1> QED BY <1>1, <1>2, <1>5, <1>6, <1>7, <1>8, <1>10, <1>11, <1>12 DEF y, t

LEMMA ScanOtherTokens ==
  ASSUME IInv, QInv, ScanQuiet \/ ScanString
  PROVE  LET t == Head(todo)
         IN /\ t \in Tokens /\ t.size >= 0
            /\ t.class \in {"begin_indent", "end_indent", "ignore", "tokenstring"}
            /\ Waiting' = Append(Waiting, t)
            /\ Unsized(Waiting)' = Unsized(Waiting)
            /\ t.class = "tokenstring" => Unsized(Waiting) # {}
            /\ rightotal' = rightotal + (IF t.class = "tokenstring" THEN t.size ELSE 0)
            /\ QueuesHold'
            /\ phase = "idle"
            /\ phase' = IF t.class = "tokenstring" THEN "force" ELSE "idle"
            /\ tokqueue'.max # tokqueue.max => Unsized(Waiting) # {}
<1> DEFINE t == Head(todo)
           both == Queued(t)
           y == Append(Waiting, t)
           C == {"begin_indent", "end_indent", "ignore", "tokenstring"}
<1>1. Scanning(C)
  BY DEF ScanQuiet, ScanString, Scanning
<1>2. /\ t \in Tokens /\ t.size >= 0 /\ t.class \in C /\ phase = "idle"
      /\ Coupled(both, y) /\ Unsized(y) = Unsized(Waiting)
      /\ IsEmpty(both[2]) <=> Unsized(Waiting) = {}
      /\ both[1].max >= QueueSize
      /\ both[1].max # tokqueue.max => Unsized(Waiting) # {}
      /\ todo \in Seq(Tokens) /\ Len(todo) > 0
  BY <1>1, ToScan
<1>3. /\ Waiting \in Seq(Tokens) /\ rightotal \in Int /\ rightotal >= 1
      /\ Sizeless(Waiting, rightotal)
  BY RightIs
<1>4. Sizeless(y, rightotal)
  BY <1>2, <1>3, AppendSizeless
<1>5. t.class = "tokenstring" => Unsized(Waiting) # {}
  <2>1. Fed(todo, ~needbreak /\ nesting # <<>>,
            phase = "idle" /\ Unsized(Waiting) # {})
    BY DEF QInv, CallsHold
  <2> QED BY <1>2, <2>1, FedTail
<1>6. /\ tokqueue' = both[1] /\ scanqueue' = both[2]
      /\ rightotal' = rightotal + (IF t.class = "tokenstring" THEN t.size ELSE 0)
      /\ phase' = IF t.class = "tokenstring" THEN "force" ELSE "idle"
  <2>1. CASE ScanQuiet
    <3>1. t.class # "tokenstring"
      BY <2>1 DEF ScanQuiet, Scanning
    <3> QED BY <1>2, <1>3, <2>1, <3>1 DEF ScanQuiet, SetQueues
  <2>2. CASE ScanString
    <3>1. t.class = "tokenstring"
      BY <2>2 DEF ScanString, Scanning
    <3> QED BY <1>2, <1>5, <2>2, <3>1 DEF ScanString, SetQueues
  <2> QED BY <2>1, <2>2
<1>7. t.size \in Nat
  BY <1>2 DEF Tokens
<1>8. both = <<tokqueue', scanqueue'>>
  BY <1>6 DEF Queued
<1> HIDE DEF t, both, y
<1>9. Waiting' = y
  BY <1>2, <1>6, CoupledTells DEF Waiting
<1>10. Unsized(Waiting)' = Unsized(y)
  BY <1>9 DEF Unsized
<1>11. rightotal' \in Int /\ rightotal' >= 1 /\ rightotal' >= rightotal
  BY <1>3, <1>6, <1>7
<1>12. Sizeless(y, rightotal')
  <2>1. y \in Seq(Tokens)
    BY <1>2, CoupledTells
  <2>2. \A i \in Unsized(y) : y[i].size \in Int
    <3>1. \A i \in Unsized(y) : y[i] \in Tokens
      BY <2>1 DEF Unsized
    <3> QED BY <3>1 DEF Tokens
  <2> QED BY <1>3, <1>4, <1>11, <2>2 DEF Sizeless
<1>13. QueuesHold'
  BY <1>2, <1>6, <1>8, <1>9, <1>11, <1>12 DEF QueuesHold
<1> QED BY <1>1, <1>2, <1>5, <1>6, <1>9, <1>10, <1>13 DEF y, t

(* The earliest token with no size, when text does not fit.                *)
LEMMA ForceTokens ==
  ASSUME IInv, QInv, ForceBreak
  PROVE  /\ \E i : FirstOpen(Waiting, i) /\ Waiting' = Resize(Waiting, i, HardBreak)
         /\ QueuesHold' /\ phase = "force" /\ phase' = "forced"
         /\ rightotal' = rightotal
<1>1. /\ tokqueue' = Resized(tokqueue, Bottom(scanqueue), HardBreak)
      /\ scanqueue' = BottomPopped(scanqueue, BlankRef)
      /\ rightotal' = rightotal /\ phase = "force" /\ phase' = "forced"
  BY DEF ForceBreak
<1>2. Coupled(<<tokqueue, scanqueue>>, Waiting) /\ Unsized(Waiting) # {}
  BY <1>1 DEF QInv, QueuesHold, PhasesHold
<1>3. PICK i : FirstOpen(Waiting, i)
  BY <1>2, CoupledTells
<1> DEFINE w == Resize(Waiting, i, HardBreak)
<1>4. Coupled(<<tokqueue', scanqueue'>>, w)
  BY <1>1, <1>2, <1>3, ForcedCoupled
<1>5. Waiting \in Seq(Tokens) /\ HardBreak \in Int /\ ~(HardBreak < 0)
      /\ i \in 1 .. Len(Waiting)
  <2>1. HardBreak \in Nat
    BY Assumed
  <2> QED BY <1>2, <1>3, <2>1, CoupledTells DEF FirstOpen, Unsized
<1>6. /\ Unsized(w) = Unsized(Waiting) \ {i}
      /\ \A j \in 1 .. Len(Waiting) : j # i => w[j] = Waiting[j]
  BY <1>5, ResizeTokens, ResizeOpen
<1> HIDE DEF w
<1>7. Sizeless(w, rightotal)
  BY <1>6 DEF Sizeless, Unsized, QInv, QueuesHold
<1>8. Waiting' = w
  BY <1>4, CoupledTells DEF Waiting
<1>9. tokqueue'.max = tokqueue.max
  BY <1>1 DEF Resized, QueueOf
<1>10. QueuesHold'
  BY <1>1, <1>4, <1>7, <1>8, <1>9 DEF QueuesHold, QInv
<1> QED BY <1>1, <1>3, <1>8, <1>10 DEF w

LEMMA LetGoTokens ==
  ASSUME IInv, QInv, NEW C, LetGo(C)
  PROVE  /\ Len(Waiting) > 0 /\ Waiting[1].size >= 0 /\ Waiting[1].class \in C
         /\ Leftmost = Waiting[1]
         /\ Waiting' = Tail(Waiting)
         /\ QueuesHold'
         /\ phase \in {"advance", "forced", "flush"}
         /\ UNCHANGED <<scanqueue, rightotal, calls, phase>>
<1>1. /\ tokqueue' = BottomPopped(tokqueue, BlankToken)
      /\ UNCHANGED <<scanqueue, rightotal, calls, phase>>
      /\ phase \in {"advance", "forced", "flush"}
      /\ ~IsEmpty(tokqueue) /\ Leftmost.size >= 0 /\ Leftmost.class \in C
  BY DEF LetGo, CanLetGo
<1>2. Coupled(<<tokqueue, scanqueue>>, Waiting)
  BY DEF QInv, QueuesHold
<1>3. /\ Len(Waiting) > 0 /\ Leftmost = Waiting[1] /\ Waiting \in Seq(Tokens)
  <2>1. Waiting \in Seq(Tokens) /\ (IsEmpty(tokqueue) <=> Len(Waiting) = 0)
        /\ (Len(Waiting) > 0 => Bottom(tokqueue) = Waiting[1])
    BY <1>2, CoupledTells
  <2> QED BY <1>1, <2>1 DEF Leftmost
<1>4. Coupled(<<tokqueue', scanqueue'>>, Tail(Waiting))
  BY <1>1, <1>2, <1>3, LetGoCoupled
<1>5. Waiting' = Tail(Waiting)
  BY <1>4, CoupledTells DEF Waiting
<1>6. Sizeless(Tail(Waiting), rightotal)
  <2>1. SUFFICES ASSUME NEW i \in Unsized(Tail(Waiting))
                 PROVE  /\ Tail(Waiting)[i].class \in Begins \cup {"tokenbreak"}
                        /\ Tail(Waiting)[i].size >= -rightotal
    BY DEF Sizeless
  <2>2. /\ i \in 1 .. Len(Waiting) - 1 /\ Tail(Waiting)[i].size < 0
        /\ Tail(Waiting)[i] = Waiting[i + 1]
    BY <1>3, <2>1 DEF Unsized
  <2>3. i + 1 \in Unsized(Waiting)
    BY <1>3, <2>2 DEF Unsized
  <2> QED BY <2>2, <2>3 DEF Sizeless, QInv, QueuesHold
<1>7. tokqueue'.max = tokqueue.max
  BY <1>1 DEF BottomPopped, QueueOf
<1>8. QueuesHold'
  BY <1>1, <1>4, <1>5, <1>6, <1>7 DEF QueuesHold, QInv
<1> QED BY <1>1, <1>3, <1>5, <1>8

(* Two queues just cleared.                                                *)
LEMMA EmptiedCoupled ==
  ASSUME NEW n \in Nat, n > 1
  PROVE  Coupled(<<Emptied(n, BlankToken), Emptied(n, BlankRef)>>, <<>>)
<1> DEFINE both == <<Emptied(n, BlankToken), Emptied(n, BlankRef)>>
<1>1. Paired(both)
  BY EmptyPaired
<1>2. /\ Queue(both[1], Tokens) /\ Queue(both[2], 0 .. both[1].max - 1)
      /\ both[1].max = n /\ both[2].max = n
  BY <1>1, PairedParts DEF Emptied, QueueOf
<1>3. /\ both[1].left = 1 /\ both[1].right = 0
      /\ both[2].left = 1 /\ both[2].right = 0
  BY DEF Emptied, QueueOf
<1>4. Slot(1, n, 0) = 0
  BY DEF Slot
<1>5. Len(<<>>) = 0 /\ DOMAIN <<>> = {} /\ (\A S : <<>> \in Seq(S))
  BY EmptySequence
<1> HIDE DEF both
<1>6. /\ Holds(both[1], Tokens, <<>>)
      /\ Holds(both[2], 0 .. both[1].max - 1, <<>>)
  BY <1>2, <1>3, <1>4, <1>5 DEF Holds, Spans
<1>7. SlotsOf(both[1], <<>>) = <<>>
  BY <1>5 DEF SlotsOf
<1>8. OpenAt(<<>>, <<>>)
  BY <1>5 DEF OpenAt, Ascends, Unsized
<1>9. Refers(both, <<>>, <<>>)
  BY <1>1, <1>6, <1>7, <1>8 DEF Refers
<1> QED BY <1>9 DEF Coupled, both
(* Sequences of tokens, made one token at a time.                          *)
LEMMA FedMore ==
  ASSUME NEW s, NEW last, NEW a, NEW b, a => b, Fed(s, last, a)
  PROVE  Fed(s, last, b)
BY DEF Fed

LEMMA FedNil ==
  ASSUME NEW last, NEW open, last => open
  PROVE  Fed(<<>>, last, open)
<1>1. Len(<<>>) = 0
  BY EmptySequence
<1>2. SUFFICES ASSUME NEW i \in 1 .. Len(<<>>) + 1, Hungry(<<>>, last, i)
               PROVE  open /\ FedBefore(<<>>, i)
  BY DEF Fed
<1>3. i = 1 /\ i = Len(<<>>) + 1 /\ 1 .. i - 1 = {}
  BY <1>1, <1>2
<1> QED BY <1>2, <1>3 DEF Hungry, FedBefore

(* The token that is put before a sequence.                                *)
LEMMA Consed ==
  ASSUME NEW S, NEW s \in Seq(S), NEW t \in S
  PROVE  /\ <<t>> \o s \in Seq(S)
         /\ \E n \in Nat : /\ Len(s) = n /\ DOMAIN s = 1 .. n
                           /\ Len(<<t>> \o s) = n + 1 /\ DOMAIN (<<t>> \o s) = 1 .. n + 1
                           /\ \A k \in 1 .. n : (<<t>> \o s)[k + 1] = s[k]
         /\ (<<t>> \o s)[1] = t
<1>1. <<t>> \in Seq(S) /\ Len(<<t>>) = 1 /\ <<t>>[1] = t
  OBVIOUS
<1> DEFINE one == <<t>>
<1> HIDE DEF one
<1>2. one \in Seq(S) /\ Len(one) = 1 /\ one[1] = t
  BY <1>1 DEF one
<1>3. /\ one \o s \in Seq(S) /\ Len(one \o s) = Len(one) + Len(s)
      /\ \A i \in 1 .. Len(one) + Len(s) :
           (one \o s)[i] = IF i <= Len(one) THEN one[i] ELSE s[i - Len(one)]
  BY <1>2, ConcatProperties
<1>4. Len(s) \in Nat
  OBVIOUS
<1>5. Len(one \o s) = Len(s) + 1
  BY <1>2, <1>3, <1>4
<1>6. (one \o s)[1] = t
  <2>1. 1 \in 1 .. Len(one) + Len(s) /\ 1 <= Len(one)
    BY <1>2, <1>4
  <2> QED BY <1>2, <1>3, <2>1
<1>7. ASSUME NEW k \in 1 .. Len(s)
      PROVE  (one \o s)[k + 1] = s[k]
  <2>1. /\ k + 1 \in 1 .. Len(one) + Len(s) /\ ~(k + 1 <= Len(one))
        /\ k + 1 - Len(one) = k
    BY <1>2, <1>4
  <2> QED BY <1>3, <2>1
<1>8. DOMAIN s = 1 .. Len(s) /\ DOMAIN (one \o s) = 1 .. Len(s) + 1
  BY <1>3, <1>5
<1> QED BY <1>3, <1>4, <1>5, <1>6, <1>7, <1>8 DEF one

LEMMA Triple ==
  ASSUME NEW a, NEW b, NEW c
  PROVE  <<a, b, c>> = <<a>> \o (<<b>> \o <<c>>)
<1> DEFINE S == {a, b, c}
<1>1. a \in S /\ b \in S /\ c \in S
  OBVIOUS
<1>2. <<c>> \in Seq(S) /\ Len(<<c>>) = 1 /\ <<c>>[1] = c
      /\ <<a, b, c>> \in Seq(S) /\ Len(<<a, b, c>>) = 3
      /\ <<a, b, c>>[1] = a /\ <<a, b, c>>[2] = b /\ <<a, b, c>>[3] = c
  BY <1>1
<1> HIDE DEF S
<1> DEFINE r == <<b>> \o <<c>>
           z == <<a>> \o r
           w == <<a, b, c>>
<1>3. PICK n \in Nat : /\ Len(<<c>>) = n /\ Len(r) = n + 1
                       /\ \A k \in 1 .. n : r[k + 1] = <<c>>[k]
  <2>1. \E n \in Nat : /\ Len(<<c>>) = n /\ DOMAIN <<c>> = 1 .. n
                       /\ Len(r) = n + 1 /\ DOMAIN r = 1 .. n + 1
                       /\ \A k \in 1 .. n : r[k + 1] = <<c>>[k]
    BY <1>1, <1>2, Consed
  <2> HIDE DEF r
  <2> QED BY <2>1
<1>4. n = 1 /\ r \in Seq(S) /\ r[1] = b
  BY <1>1, <1>2, <1>3, Consed
<1>5. Len(r) = 2 /\ r[2] = c
  <2>1. 1 \in 1 .. n /\ n + 1 = 2 /\ 1 + 1 = 2
    BY <1>4
  <2>2. r[1 + 1] = <<c>>[1]
    BY <1>3, <2>1
  <2> QED BY <1>2, <1>3, <2>1, <2>2
<1> HIDE DEF r
<1>6. PICK m \in Nat : /\ Len(r) = m /\ Len(z) = m + 1
                       /\ \A k \in 1 .. m : z[k + 1] = r[k]
  <2>1. \E m \in Nat : /\ Len(r) = m /\ DOMAIN r = 1 .. m
                       /\ Len(z) = m + 1 /\ DOMAIN z = 1 .. m + 1
                       /\ \A k \in 1 .. m : z[k + 1] = r[k]
    BY <1>1, <1>4, Consed
  <2> HIDE DEF z
  <2> QED BY <2>1
<1>7. m = 2 /\ z \in Seq(S) /\ z[1] = a
  <2>1. m = 2
    BY <1>5, <1>6
  <2>2. z \in Seq(S) /\ z[1] = a
    BY <1>1, <1>4, Consed
  <2> QED BY <2>1, <2>2
<1> HIDE DEF z
<1>8. Len(z) = 3 /\ z[2] = b /\ z[3] = c
  <2>1. 1 \in 1 .. m /\ 2 \in 1 .. m /\ m + 1 = 3 /\ 1 + 1 = 2 /\ 2 + 1 = 3
    BY <1>7
  <2>2. z[1 + 1] = r[1] /\ z[2 + 1] = r[2]
    BY <1>6, <2>1
  <2> QED BY <1>4, <1>5, <1>6, <2>1, <2>2
<1>9. w \in Seq(S) /\ Len(w) = 3 /\ w[1] = a /\ w[2] = b /\ w[3] = c
  BY <1>2
<1> HIDE DEF w
<1>10. Len(w) = Len(z) /\ \A i \in 1 .. Len(z) : w[i] = z[i]
  <2>1. \A i \in 1 .. 3 : i = 1 \/ i = 2 \/ i = 3
    OBVIOUS
  <2> QED BY <1>7, <1>8, <1>9, <2>1
<1>11. w = z
  BY <1>7, <1>9, <1>10, SeqEqual
<1> QED BY <1>11 DEF w, z, r

LEMMA FedCons ==
  ASSUME NEW s \in Seq(Tokens), NEW t \in Tokens, NEW last, NEW open,
         t.class = "tokenstring" => open,
         Fed(s, last, Feeds(t) \/ (open /\ ~Starves(t)))
  PROVE  Fed(<<t>> \o s, last, open)
<1> DEFINE z == <<t>> \o s
           now == Feeds(t) \/ (open /\ ~Starves(t))
<1>1. PICK n \in Nat : /\ Len(s) = n /\ Len(z) = n + 1
                       /\ \A k \in 1 .. n : z[k + 1] = s[k]
  BY Consed
<1>2. z[1] = t
  BY Consed
<1> HIDE DEF z
<1>3. SUFFICES ASSUME NEW i \in 1 .. n + 2, Hungry(z, last, i)
               PROVE  FedInside(z, i) \/ (open /\ FedBefore(z, i))
  <2>1. Len(z) + 1 = n + 2
    BY <1>1
  <2> QED BY <2>1 DEF Fed, z
<1>4. CASE i = 1
  <2>1. i # Len(z) + 1 /\ 1 .. i - 1 = {}
    BY <1>1, <1>4
  <2> QED BY <1>2, <1>3, <1>4, <2>1 DEF Hungry, FedBefore
<1>5. CASE i # 1
  <2>1. PICK p \in 1 .. n + 1 : i = p + 1
    <3>1. i - 1 \in 1 .. n + 1 /\ i = (i - 1) + 1
      BY <1>3, <1>5
    <3> QED BY <3>1
  <2>2. Hungry(s, last, p)
    <3>1. CASE p = n + 1
      BY <1>1, <1>3, <2>1, <3>1 DEF Hungry
    <3>2. CASE p # n + 1
      <4>1. p \in 1 .. n /\ z[i] = s[p]
        BY <1>1, <2>1, <3>2
      <4> QED BY <1>1, <1>3, <2>1, <3>2, <4>1 DEF Hungry
    <3> QED BY <3>1, <3>2
  <2>3. FedInside(s, p) \/ (now /\ FedBefore(s, p))
    <3>1. p \in 1 .. Len(s) + 1
      BY <1>1
    <3> QED BY <2>2, <3>1 DEF Fed
  <2>4. i - 1 = p /\ 1 \in 1 .. p
        /\ \A k \in 2 .. p : k - 1 \in 1 .. n /\ k - 1 \in 1 .. p - 1 /\ z[k] = s[k - 1]
    <3>1. i - 1 = p /\ 1 \in 1 .. p
      BY <2>1
    <3>2. \A k \in 2 .. p : k - 1 \in 1 .. n /\ k - 1 \in 1 .. p - 1 /\ (k - 1) + 1 = k
      OBVIOUS
    <3> QED BY <1>1, <3>1, <3>2
  <2>5. CASE FedInside(s, p)
    <3>1. PICK j \in 1 .. p - 1 :
            Feeds(s[j]) /\ \A k \in j + 1 .. p - 1 : ~Starves(s[k])
      BY <2>5 DEF FedInside
    <3>2. j + 1 \in 1 .. p /\ j + 1 \in 2 .. p /\ (j + 1) - 1 = j
          /\ \A k \in (j + 1) + 1 .. p : k \in 2 .. p /\ k - 1 \in j + 1 .. p - 1
      OBVIOUS
    <3>3. Feeds(z[j + 1]) /\ \A k \in (j + 1) + 1 .. p : ~Starves(z[k])
      BY <2>4, <3>1, <3>2
    <3>4. FedInside(z, i)
      BY <2>4, <3>2, <3>3 DEF FedInside
    <3> QED BY <3>4
  <2>6. CASE now /\ FedBefore(s, p)
    <3>1. \A k \in 2 .. p : ~Starves(z[k])
      BY <2>4, <2>6 DEF FedBefore
    <3>2. CASE Feeds(t)
      <4>1. Feeds(z[1]) /\ \A k \in 1 + 1 .. p : ~Starves(z[k])
        BY <1>2, <3>1, <3>2
      <4> QED BY <2>4, <4>1 DEF FedInside
    <3>3. CASE open /\ ~Starves(t)
      <4>1. \A k \in 1 .. p : k = 1 \/ k \in 2 .. p
        OBVIOUS
      <4>2. \A k \in 1 .. p : ~Starves(z[k])
        BY <1>2, <3>1, <3>3, <4>1
      <4> QED BY <2>4, <3>3, <4>2 DEF FedBefore
    <3> QED BY <2>6, <3>2, <3>3
  <2> QED BY <2>3, <2>5, <2>6
<1> QED BY <1>4, <1>5

LEMMA QuietCons ==
  ASSUME NEW s \in Seq(Tokens), NEW t \in Tokens, NEW q \in Nat, q <= MaxQuiet,
         \/ t.class \notin Quiet /\ QuietFits(s, 0)
         \/ q < MaxQuiet /\ \A k \in DOMAIN s : s[k].class \notin Quiet
  PROVE  QuietFits(<<t>> \o s, q)
<1> DEFINE z == <<t>> \o s
<1>1. PICK n \in Nat : /\ DOMAIN s = 1 .. n /\ DOMAIN z = 1 .. n + 1
                       /\ \A k \in 1 .. n : z[k + 1] = s[k]
  <2>1. \E n \in Nat : /\ Len(s) = n /\ DOMAIN s = 1 .. n
                       /\ Len(z) = n + 1 /\ DOMAIN z = 1 .. n + 1
                       /\ \A k \in 1 .. n : z[k + 1] = s[k]
    BY Consed
  <2> HIDE DEF z
  <2> QED BY <2>1
<1>2. z[1] = t
  BY Consed
<1>3. \A k \in 1 .. n + 1 : k = 1 \/ (k - 1 \in 1 .. n /\ z[k] = s[k - 1])
  <2>1. \A k \in 1 .. n + 1 : k = 1 \/ (k - 1 \in 1 .. n /\ (k - 1) + 1 = k)
    OBVIOUS
  <2> QED BY <1>1, <2>1
<1>4. 1 \in 1 .. n + 1
  OBVIOUS
<1> HIDE DEF z
<1>5. CASE t.class \notin Quiet /\ QuietFits(s, 0)
  <2>1. ASSUME NEW i \in 1 .. n + 1, z[i].class \in Quiet
        PROVE  /\ \E j \in 1 .. n + 1 : j < i /\ z[j].class \notin Quiet
               /\ \A j \in 1 .. n + 1 : j # i => z[j].class \notin Quiet
    <3>1. i # 1 /\ i - 1 \in 1 .. n /\ s[i - 1].class \in Quiet /\ 1 < i
      BY <1>2, <1>3, <1>5, <2>1
    <3>2. \A j \in 1 .. n : j # i - 1 => s[j].class \notin Quiet
      BY <1>1, <1>5, <3>1 DEF QuietFits
    <3>3. ASSUME NEW j \in 1 .. n + 1, j # i
          PROVE  z[j].class \notin Quiet
      <4>1. j - 1 # i - 1
        BY <3>3
      <4> QED BY <1>2, <1>3, <1>5, <3>2, <4>1
    <3> QED BY <1>2, <1>4, <1>5, <3>1, <3>3
  <2> QED BY <1>1, <2>1 DEF QuietFits, z
<1>6. CASE q < MaxQuiet /\ \A k \in DOMAIN s : s[k].class \notin Quiet
  <2>1. \A i \in 1 .. n + 1 : z[i].class \in Quiet => i = 1
    BY <1>1, <1>3, <1>6
  <2> QED BY <1>1, <1>6, <2>1 DEF QuietFits, z
<1> QED BY <1>5, <1>6

(* What a call may queue, at a moment when `open' tells whether a token of *)
(* no size waits.                                                          *)
Callable(s, last, open, q) ==
  /\ s \in Seq(Tokens) /\ \A i \in DOMAIN s : s[i] \in AllContents
  /\ QuietFits(s, q)
  /\ Fed(s, last, open)

LEMMA CallableNil ==
  ASSUME NEW last, NEW open, last => open, NEW q, q <= MaxQuiet
  PROVE  Callable(<<>>, last, open, q)
BY EmptySequence, FedNil DEF Callable, QuietFits

LEMMA CallableCons ==
  ASSUME NEW t \in AllContents, NEW last, NEW open, NEW q \in Nat, q <= MaxQuiet,
         t.class = "tokenstring" => open,
         NEW s, Callable(s, last, Feeds(t) \/ (open /\ ~Starves(t)), 0),
         \/ t.class \notin Quiet
         \/ q < MaxQuiet /\ \A k \in DOMAIN s : s[k].class \notin Quiet
  PROVE  Callable(<<t>> \o s, last, open, q)
<1>1. t \in Tokens /\ s \in Seq(Tokens)
  BY ContentsAreTokens DEF Callable
<1>2. Fed(<<t>> \o s, last, open)
  BY <1>1, FedCons DEF Callable
<1>3. QuietFits(<<t>> \o s, q)
  BY <1>1, QuietCons DEF Callable
<1>4. /\ <<t>> \o s \in Seq(Tokens)
      /\ \A i \in DOMAIN (<<t>> \o s) : (<<t>> \o s)[i] \in AllContents
  <2> DEFINE z == <<t>> \o s
  <2>1. z \in Seq(Tokens) /\ z[1] = t
    BY <1>1, Consed
  <2>2. PICK n \in Nat : /\ DOMAIN s = 1 .. n /\ DOMAIN z = 1 .. n + 1
                         /\ \A k \in 1 .. n : z[k + 1] = s[k]
    BY <1>1, Consed
  <2> HIDE DEF z
  <2>3. \A k \in 1 .. n + 1 : k = 1 \/ (k - 1 \in 1 .. n /\ (k - 1) + 1 = k)
    OBVIOUS
  <2>4. \A k \in 1 .. n : s[k] \in AllContents
    BY <2>2 DEF Callable
  <2>5. \A k \in 1 .. n + 1 : z[k] \in AllContents
    BY <2>1, <2>2, <2>3, <2>4
  <2> QED BY <2>1, <2>2, <2>5 DEF z
<1> QED BY <1>2, <1>3, <1>4 DEF Callable

LEMMA CallableOne ==
  ASSUME NEW t \in AllContents, NEW last, NEW open, NEW q \in Nat, q <= MaxQuiet,
         t.class = "tokenstring" => open,
         last => (Feeds(t) \/ (open /\ ~Starves(t))),
         t.class \in Quiet => q < MaxQuiet
  PROVE  Callable(<<t>>, last, open, q)
<1>1. 0 <= MaxQuiet
  BY PrinterAssumption
<1>2. Callable(<<>>, last, Feeds(t) \/ (open /\ ~Starves(t)), 0)
  BY <1>1, CallableNil
<1>3. \A k \in DOMAIN <<>> : <<>>[k].class \notin Quiet
  BY EmptySequence
<1>4. Callable(<<t>> \o <<>>, last, open, q)
  BY <1>2, <1>3, CallableCons
<1>5. <<t>> \o <<>> = <<t>>
  BY ConcatEmptySeq, ContentsAreTokens
<1> QED BY <1>4, <1>5

LEMMA CallableAny ==
  ASSUME NEW s, NEW last, NEW b, NEW q \in Nat, NEW p \in Nat, p <= q,
         Callable(s, last, FALSE, q)
  PROVE  Callable(s, last, b, p)
<1>1. Fed(s, last, b)
  BY DEF Callable, Fed
<1>2. MaxQuiet \in Nat
  BY PrinterAssumption
<1>3. QuietFits(s, p)
  BY <1>2 DEF Callable, QuietFits
<1> QED BY <1>1, <1>3 DEF Callable

LEMMA CallableOpen ==
  ASSUME NEW s, NEW last, NEW b, b, NEW q \in Nat, NEW p \in Nat, p <= q,
         Callable(s, last, TRUE, q)
  PROVE  Callable(s, last, b, p)
<1>1. Fed(s, last, b)
  BY DEF Callable, Fed
<1>2. MaxQuiet \in Nat
  BY PrinterAssumption
<1>3. QuietFits(s, p)
  BY <1>2 DEF Callable, QuietFits
<1> QED BY <1>1, <1>3 DEF Callable

(* The tokens of AllContents, and what each does to text after it.         *)
LEMMA ContentKinds ==
  /\ \A c \in Begins \cup Ends \cup {"end_indent", "ignore"} :
       Delimiter(c) \in AllContents /\ Delimiter(c).class = c
  /\ \A n \in Texts \cup {0, 1} :
       String(n) \in AllContents /\ String(n).class = "tokenstring"
  /\ \A num \in Gaps \cup {0, 1}, bump \in Bumps \cup {0} :
       Space(num, bump) \in AllContents /\ Space(num, bump).class = "tokenbreak"
  /\ Indent \in AllContents /\ Indent.class = "begin_indent"
  /\ Line \in AllContents /\ Line.class = "tokenbreak"
  /\ \A i \in Margins : LineAt(i) \in AllContents /\ LineAt(i).class = "tokenbreak"
<1>1. /\ \A c : Delimiter(c).class = c
      /\ \A n : String(n).class = "tokenstring"
      /\ \A num, bump : Space(num, bump).class = "tokenbreak"
      /\ Indent.class = "begin_indent"
      /\ Line.class = "tokenbreak"
      /\ \A i : LineAt(i).class = "tokenbreak"
  BY DEF Delimiter, String, Space, Indent, Line, LineAt, Token
<1>2. /\ \A c \in Begins \cup Ends \cup {"end_indent", "ignore"} : Delimiter(c) \in AllContents
      /\ \A n \in Texts \cup {0, 1} : String(n) \in AllContents
      /\ \A num \in Gaps \cup {0, 1}, bump \in Bumps \cup {0} : Space(num, bump) \in AllContents
      /\ Indent \in AllContents /\ Line \in AllContents
      /\ \A i \in Margins : LineAt(i) \in AllContents
  BY DEF AllContents
<1> QED BY <1>1, <1>2

LEMMA ClassRoles ==
  /\ \A t : t.class \in Begins \cup {"tokenbreak"} =>
       Feeds(t) /\ ~Starves(t) /\ t.class \notin Quiet /\ t.class # "tokenstring"
  /\ \A t : t.class \in Ends =>
       ~Feeds(t) /\ Starves(t) /\ t.class \in Quiet /\ t.class # "tokenstring"
  /\ \A t : t.class \in {"begin_indent", "end_indent", "ignore"} =>
       ~Feeds(t) /\ ~Starves(t) /\ t.class \in Quiet /\ t.class # "tokenstring"
  /\ \A t : t.class = "tokenstring" =>
       ~Feeds(t) /\ Starves(t) /\ t.class \notin Quiet
BY DEF Feeds, Starves, Quiet, Begins, Ends

(* When a call starts.                                                     *)
LEMMA WhenReady ==
  ASSUME IInv, QInv, Ready
  PROVE  /\ quiet \in Nat /\ quiet <= MaxQuiet
         /\ needbreak \in BOOLEAN /\ nesting \in Seq(Kinds)
         /\ (~needbreak /\ nesting # <<>>) => Unsized(Waiting) # {}
         /\ nesting # <<>> => nesting[1] = "function"
<1>1. Fed(<<>>, ~needbreak /\ nesting # <<>>, Unsized(Waiting) # {})
  BY DEF Ready, QInv, CallsHold
<1>2. Len(<<>>) = 0
  BY EmptySequence
<1>3. 1 \in 1 .. Len(<<>>) + 1 /\ 1 = Len(<<>>) + 1 /\ 1 .. 1 - 1 = {}
  BY <1>2
<1>4. (~needbreak /\ nesting # <<>>) => Unsized(Waiting) # {}
  BY <1>1, <1>3 DEF Fed, Hungry, FedInside
<1> QED BY <1>4 DEF IInv, CallsOK, QInv, CallsHold, QuietFits

LEMMA Separated ==
  ASSUME IInv, QInv, Ready, nesting # <<>>, NEW s, NEW last,
         Callable(s, last, TRUE, quiet)
  PROVE  Callable(Separator \o s, last, Unsized(Waiting) # {}, quiet)
<1> DEFINE full == Unsized(Waiting) # {}
<1>1. /\ quiet \in Nat /\ quiet <= MaxQuiet /\ needbreak \in BOOLEAN
      /\ ~needbreak => full
  BY WhenReady
<1>2. s \in Seq(Tokens)
  BY DEF Callable
<1> HIDE DEF full
<1>3. CASE needbreak
  <2> DEFINE t == Space(0, 0)
  <2>1. t \in AllContents /\ t.class = "tokenbreak"
    BY ContentKinds
  <2> HIDE DEF t
  <2>2. Feeds(t) /\ t.class \notin Quiet /\ t.class # "tokenstring"
    BY <2>1, ClassRoles
  <2> DEFINE now == Feeds(t) \/ (full /\ ~Starves(t))
  <2>20. now /\ 0 \in Nat /\ 0 <= quiet
    BY <1>1, <2>2
  <2> HIDE DEF now
  <2>21. Callable(s, last, now, 0)
    BY <1>1, <2>20, CallableOpen
  <2>3. Callable(s, last, Feeds(t) \/ (full /\ ~Starves(t)), 0)
    BY <2>21 DEF now
  <2>4. Callable(<<t>> \o s, last, full, quiet)
    BY <1>1, <2>1, <2>2, <2>3, CallableCons
  <2> QED BY <1>3, <2>4 DEF Separator, t, full
<1>4. CASE ~needbreak
  <2>1. Separator \o s = s
    BY <1>2, <1>4, ConcatEmptySeq DEF Separator
  <2>2. Callable(s, last, full, quiet)
    <3>1. quiet <= quiet
      BY <1>1
    <3> QED BY <1>1, <1>4, <3>1, CallableOpen
  <2> QED BY <2>1, <2>2 DEF full
<1> QED BY <1>1, <1>3, <1>4

LEMMA Filled ==
  ASSUME IInv, QInv, Ready, nesting # <<>>, NEW s, NEW last,
         Callable(s, last, FALSE, quiet)
  PROVE  Callable(Filler \o s, last, Unsized(Waiting) # {}, quiet)
<1> DEFINE full == Unsized(Waiting) # {}
<1>1. /\ quiet \in Nat /\ quiet <= MaxQuiet /\ needbreak \in BOOLEAN
      /\ ~needbreak => full
  BY WhenReady
<1>2. s \in Seq(Tokens)
  BY DEF Callable
<1> HIDE DEF full
<1>3. CASE ~needbreak
  <2> DEFINE t == String(0)
  <2>1. t \in AllContents /\ t.class = "tokenstring"
    BY ContentKinds
  <2> HIDE DEF t
  <2>2. t.class \notin Quiet
    BY <2>1, ClassRoles
  <2> DEFINE now == Feeds(t) \/ (full /\ ~Starves(t))
  <2> HIDE DEF now
  <2>20. 0 \in Nat /\ 0 <= quiet
    BY <1>1
  <2>21. Callable(s, last, now, 0)
    BY <1>1, <2>20, CallableAny
  <2>3. Callable(s, last, Feeds(t) \/ (full /\ ~Starves(t)), 0)
    BY <2>21 DEF now
  <2>4. Callable(<<t>> \o s, last, full, quiet)
    BY <1>1, <1>3, <2>1, <2>2, <2>3, CallableCons
  <2> QED BY <1>3, <2>4 DEF Filler, t, full
<1>4. CASE needbreak
  <2>1. Filler \o s = s
    BY <1>2, <1>4, ConcatEmptySeq DEF Filler
  <2>2. Callable(s, last, full, quiet)
    <3>1. quiet <= quiet
      BY <1>1
    <3> QED BY <1>1, <3>1, CallableAny
  <2> QED BY <2>1, <2>2 DEF full
<1> QED BY <1>1, <1>3, <1>4

(* A call leaves the queues alone, and what waits.                         *)
LEMMA WaitingSame ==
  ASSUME QInv, tokqueue' = tokqueue, scanqueue' = scanqueue, rightotal' = rightotal
  PROVE  /\ Waiting' = Waiting /\ Unsized(Waiting)' = Unsized(Waiting)
         /\ QueuesHold'
<1>1. Waiting' = Waiting
  BY DEF Waiting, Elements, Refs, Held
<1>2. Unsized(Waiting)' = Unsized(Waiting)
  BY <1>1 DEF Unsized
<1> QED BY <1>1, <1>2 DEF QueuesHold, QInv

LEMMA CallHolds ==
  ASSUME IInv, QInv, NEW tokens, NEW break, NEW open, Call(tokens, break, open),
         Callable(tokens, ~break /\ open # <<>>, Unsized(Waiting) # {}, quiet),
         open = <<>> => break,
         open # <<>> => open[1] = "function"
  PROVE  QInv' /\ Waiting' = Waiting
<1>1. /\ todo' = tokens /\ needbreak' = break /\ nesting' = open
      /\ tokqueue' = tokqueue /\ scanqueue' = scanqueue /\ rightotal' = rightotal
      /\ phase = "idle" /\ phase' = "idle" /\ quiet' = quiet
  BY DEF Call, Ready, queues
<1>2. /\ Waiting' = Waiting /\ Unsized(Waiting)' = Unsized(Waiting) /\ QueuesHold'
  BY <1>1, WaitingSame
<1>3. PhasesHold'
  BY <1>1, <1>2 DEF QInv, PhasesHold
<1>4. CallsHold'
  BY <1>1, <1>2 DEF CallsHold, Callable
<1> QED BY <1>2, <1>3, <1>4 DEF QInv

LEMMA SpacedCallHolds ==
  ASSUME IInv, QInv, NEW tokens, NEW open, Call(tokens, FALSE, open),
         Callable(tokens, TRUE, Unsized(Waiting) # {}, quiet),
         open # <<>>, open[1] = "function"
  PROVE  QInv' /\ Waiting' = Waiting
<1>1. /\ todo' = tokens /\ needbreak' = FALSE /\ nesting' = open
      /\ tokqueue' = tokqueue /\ scanqueue' = scanqueue /\ rightotal' = rightotal
      /\ phase = "idle" /\ phase' = "idle" /\ quiet' = quiet
  BY DEF Call, Ready, queues
<1>2. /\ Waiting' = Waiting /\ Unsized(Waiting)' = Unsized(Waiting) /\ QueuesHold'
  BY <1>1, WaitingSame
<1>3. PhasesHold'
  BY <1>1, <1>2 DEF QInv, PhasesHold
<1>4. CallsHold'
  BY <1>1, <1>2 DEF CallsHold, Callable, Fed, Hungry
<1> QED BY <1>2, <1>3, <1>4 DEF QInv

(* What each call queues.                                                  *)
LEMMA ClosedBase ==
  ASSUME nesting \in Seq(Kinds), nesting # <<>>, nesting[1] = "function"
  PROVE  /\ Closed # <<>> => Closed[1] = "function"
         /\ Innermost # "function" => Closed # <<>>
         /\ \A kind : /\ Append(nesting, kind) # <<>>
                      /\ Append(nesting, kind)[1] = "function"
<1>1. Len(nesting) \in Nat /\ Len(nesting) > 0
  BY EmptySeq
<1>2. Closed \in Seq(Kinds) /\ Len(Closed) = Len(nesting) - 1
      /\ \A i \in 1 .. Len(nesting) - 1 : Closed[i] = nesting[i]
  <2>1. 1 \in 1 .. Len(nesting) + 1 /\ Len(nesting) - 1 \in 0 .. Len(nesting)
    BY <1>1
  <2>2. Closed = [i \in 1 .. Len(nesting) - 1 |-> nesting[i]]
    BY <1>1 DEF Closed
  <2>3. \A i \in 1 .. Len(nesting) - 1 : nesting[i] \in Kinds
    BY <1>1
  <2> QED BY <1>1, <2>2, <2>3
<1>3. Closed # <<>> => Closed[1] = "function"
  <2>1. ASSUME Closed # <<>> PROVE Closed[1] = "function"
    <3>1. Len(Closed) # 0
      BY <1>2, <2>1, EmptySeq
    <3> QED BY <1>1, <1>2, <3>1
  <2> QED BY <2>1
<1>4. Innermost # "function" => Closed # <<>>
  <2>1. ASSUME Innermost # "function" PROVE Closed # <<>>
    <3>1. Len(nesting) # 1
      BY <2>1 DEF Innermost
    <3> QED BY <1>1, <1>2, <3>1, EmptySequence
  <2> QED BY <2>1
<1>5. ASSUME NEW kind
      PROVE  Append(nesting, kind) # <<>> /\ Append(nesting, kind)[1] = "function"
  <2>1. Len(Append(nesting, kind)) = Len(nesting) + 1
        /\ Append(nesting, kind)[1] = nesting[1]
    BY <1>1
  <2> QED BY <1>1, <2>1, EmptySequence
<1> QED BY <1>3, <1>4, <1>5

LEMMA OpeningsHold ==
  ASSUME IInv, QInv,
         \/ BeginFunction \/ OpenGroup \/ OpenParen \/ StartComment \/ StartIndent
  PROVE  QInv' /\ Waiting' = Waiting
<1> DEFINE full == Unsized(Waiting) # {}
<1>1. Ready
  BY DEF BeginFunction, OpenGroup, OpenParen, StartComment, StartIndent, Open, Call
<1>2. /\ quiet \in Nat /\ quiet <= MaxQuiet /\ needbreak \in BOOLEAN
      /\ nesting \in Seq(Kinds)
      /\ (~needbreak /\ nesting # <<>>) => full
      /\ nesting # <<>> => nesting[1] = "function"
  BY <1>1, WhenReady
<1>3. ASSUME NEW c \in Begins, NEW last, NEW open
      PROVE  Callable(<<Delimiter(c)>>, last, open, quiet)
  <2>1. Delimiter(c) \in AllContents /\ Delimiter(c).class \in Begins
    BY ContentKinds
  <2>2. Feeds(Delimiter(c)) /\ Delimiter(c).class \notin Quiet
        /\ Delimiter(c).class # "tokenstring"
    BY <2>1, ClassRoles
  <2> QED BY <1>2, <2>1, <2>2, CallableOne
<1> HIDE DEF full
<1>4. ASSUME BeginFunction PROVE QInv' /\ Waiting' = Waiting
  <2>1. nesting = <<>> /\ ~needbreak
        /\ Call(<<>> \o <<Delimiter("begin")>>, FALSE, Append(nesting, "function"))
    BY <1>4 DEF BeginFunction, Open, Separator
  <2>2. <<Delimiter("begin")>> \in Seq(Tokens)
    BY <1>3 DEF Callable, Begins
  <2>3. <<>> \o <<Delimiter("begin")>> = <<Delimiter("begin")>>
    BY <2>2, ConcatEmptySeq
  <2>4. Append(nesting, "function") = <<"function">>
    BY <2>1
  <2>5. Append(nesting, "function") # <<>> /\ Append(nesting, "function")[1] = "function"
    BY <2>4
  <2> DEFINE open == Append(nesting, "function")
             last == ~FALSE /\ open # <<>>
  <2>6. Callable(<<Delimiter("begin")>>, last, full, quiet)
    BY <1>3 DEF Begins
  <2> QED BY <2>1, <2>3, <2>5, <2>6, CallHolds DEF full
<1>5. ASSUME nesting # <<>>, NEW c \in Begins, NEW kind,
             Call(Separator \o <<Delimiter(c)>>, FALSE, Append(nesting, kind))
      PROVE  QInv' /\ Waiting' = Waiting
  <2> DEFINE open == Append(nesting, kind)
             last == ~FALSE /\ open # <<>>
             tokens == Separator \o <<Delimiter(c)>>
  <2>1. open # <<>> /\ open[1] = "function"
    BY <1>2, <1>5, ClosedBase
  <2>2. Callable(<<Delimiter(c)>>, last, TRUE, quiet)
    BY <1>3
  <2>3. Callable(tokens, last, full, quiet)
    BY <1>1, <1>5, <2>2, Separated DEF full
  <2> QED BY <1>5, <2>1, <2>3, CallHolds DEF full
<1>6. ASSUME OpenGroup PROVE QInv' /\ Waiting' = Waiting
  BY <1>5, <1>6 DEF OpenGroup, Open, InCode, Begins
<1>7. ASSUME StartComment PROVE QInv' /\ Waiting' = Waiting
  BY <1>5, <1>7 DEF StartComment, InCode, Begins
<1>8. ASSUME OpenParen PROVE QInv' /\ Waiting' = Waiting
  <2> DEFINE a == Delimiter("begin")
             b == String(1)
             open == Append(nesting, "group")
             last == ~TRUE /\ open # <<>>
  <2>1. nesting # <<>> /\ Call(Separator \o <<a, b>>, TRUE, open)
    BY <1>8 DEF OpenParen, InCode
  <2>2. open # <<>> /\ open[1] = "function"
    BY <1>2, <2>1, ClosedBase
  <2>3. /\ a \in AllContents /\ a.class \in Begins
        /\ b \in AllContents /\ b.class = "tokenstring"
    BY ContentKinds DEF Begins
  <2>4. <<a, b>> = <<a>> \o <<b>>
    OBVIOUS
  <2> HIDE DEF a, b
  <2>5. Feeds(a) /\ a.class \notin Quiet /\ a.class # "tokenstring"
        /\ b.class \notin Quiet
    BY <2>3, ClassRoles
  <2>6. 0 \in Nat /\ 0 <= MaxQuiet
    BY PrinterAssumption
  <2>7. Callable(<<b>>, last, Feeds(a) \/ (TRUE /\ ~Starves(a)), 0)
    BY <2>3, <2>5, <2>6, CallableOne
  <2>8. Callable(<<a, b>>, last, TRUE, quiet)
    BY <1>2, <2>3, <2>4, <2>5, <2>7, CallableCons
  <2>9. Callable(Separator \o <<a, b>>, last, full, quiet)
    BY <1>1, <2>1, <2>8, Separated DEF full
  <2> QED BY <2>1, <2>2, <2>9, CallHolds DEF full
<1>9. ASSUME StartIndent PROVE QInv' /\ Waiting' = Waiting
  <2> DEFINE open == Append(nesting, "indent")
             last == ~needbreak /\ open # <<>>
  <2>1. nesting # <<>> /\ quiet < MaxQuiet /\ Call(<<Indent>>, needbreak, open)
    BY <1>9 DEF StartIndent, InCode, Closing
  <2>2. open # <<>> /\ open[1] = "function"
    BY <1>2, <2>1, ClosedBase
  <2>3. Indent \in AllContents /\ Indent.class = "begin_indent"
    BY ContentKinds
  <2>4. ~Starves(Indent) /\ Indent.class # "tokenstring"
    BY <2>3, ClassRoles
  <2>5. last => (Feeds(Indent) \/ (full /\ ~Starves(Indent)))
    BY <1>2, <2>1, <2>4
  <2> HIDE DEF last
  <2>6. Callable(<<Indent>>, last, full, quiet)
    BY <1>2, <2>1, <2>3, <2>4, <2>5, CallableOne
  <2> QED BY <2>1, <2>2, <2>6, CallHolds DEF full, last
<1> QED BY <1>4, <1>6, <1>7, <1>8, <1>9

LEMMA ClosingsHold ==
  ASSUME IInv, QInv,
         \/ CloseGroup \/ EndFunction \/ CloseParen \/ StopComment \/ StopIndent
  PROVE  QInv' /\ Waiting' = Waiting
<1> DEFINE full == Unsized(Waiting) # {}
<1>1. Ready /\ nesting # <<>>
  BY DEF CloseGroup, EndFunction, CloseParen, StopComment, StopIndent, Close, Call,
         InCode
<1>2. /\ quiet \in Nat /\ quiet <= MaxQuiet /\ needbreak \in BOOLEAN
      /\ nesting \in Seq(Kinds)
      /\ ~needbreak => full
      /\ nesting[1] = "function"
  BY <1>1, WhenReady
<1>3. /\ Closed # <<>> => Closed[1] = "function"
      /\ Innermost # "function" => Closed # <<>>
  BY <1>1, <1>2, ClosedBase
<1>4. ASSUME NEW c \in Ends, NEW last, ~last, NEW open, NEW q \in Nat, q < MaxQuiet
      PROVE  Callable(<<Delimiter(c)>>, last, open, q)
  <2>1. Delimiter(c) \in AllContents /\ Delimiter(c).class \in Ends
    BY ContentKinds
  <2>2. Delimiter(c).class # "tokenstring"
    BY <2>1, ClassRoles
  <2>3. q <= MaxQuiet
    BY <1>4, PrinterAssumption
  <2> QED BY <1>4, <2>1, <2>2, <2>3, CallableOne
<1> HIDE DEF full
<1>5. ASSUME NEW c \in Ends, quiet < MaxQuiet,
             Call(Filler \o <<Delimiter(c)>>, TRUE, Closed)
      PROVE  QInv' /\ Waiting' = Waiting
  <2> DEFINE last == ~TRUE /\ Closed # <<>>
             tokens == Filler \o <<Delimiter(c)>>
  <2>1. Callable(<<Delimiter(c)>>, last, FALSE, quiet)
    BY <1>2, <1>4, <1>5
  <2>2. Callable(tokens, last, full, quiet)
    BY <1>1, <2>1, Filled DEF full
  <2> QED BY <1>3, <1>5, <2>2, CallHolds DEF full
<1>6. ASSUME CloseGroup \/ EndFunction PROVE QInv' /\ Waiting' = Waiting
  BY <1>5, <1>6 DEF CloseGroup, EndFunction, Close, Closing, Ends
<1>7. ASSUME StopComment PROVE QInv' /\ Waiting' = Waiting
  BY <1>5, <1>7 DEF StopComment, Closing, Ends
<1>8. ASSUME CloseParen PROVE QInv' /\ Waiting' = Waiting
  <2> DEFINE a == String(1)
             b == Delimiter("end")
             last == ~TRUE /\ Closed # <<>>
  <2>1. Call(Separator \o <<a, b>>, TRUE, Closed)
    BY <1>8 DEF CloseParen
  <2>2. /\ a \in AllContents /\ a.class = "tokenstring"
        /\ b \in AllContents /\ b.class \in Ends
    BY ContentKinds DEF Ends
  <2>3. <<a, b>> = <<a>> \o <<b>>
    OBVIOUS
  <2>4. 0 \in Nat /\ 0 < MaxQuiet
    BY PrinterAssumption
  <2>5. Callable(<<b>>, last, Feeds(a) \/ (TRUE /\ ~Starves(a)), 0)
    BY <1>4, <2>4 DEF Ends
  <2> HIDE DEF a, b
  <2>6. a.class \notin Quiet
    BY <2>2, ClassRoles
  <2>7. Callable(<<a, b>>, last, TRUE, quiet)
    BY <1>2, <2>2, <2>3, <2>5, <2>6, CallableCons
  <2>8. Callable(Separator \o <<a, b>>, last, full, quiet)
    BY <1>1, <2>7, Separated DEF full
  <2> QED BY <1>3, <2>1, <2>8, CallHolds DEF full
<1>9. ASSUME StopIndent PROVE QInv' /\ Waiting' = Waiting
  <2> DEFINE t == Delimiter("end_indent")
             last == ~needbreak /\ Closed # <<>>
  <2>1. quiet < MaxQuiet /\ Call(<<t>>, needbreak, Closed) /\ Innermost = "indent"
    BY <1>9 DEF StopIndent, Closing
  <2>2. t \in AllContents /\ t.class = "end_indent"
    BY ContentKinds
  <2> HIDE DEF t
  <2>3. ~Starves(t) /\ t.class # "tokenstring"
    BY <2>2, ClassRoles
  <2>4. last => (Feeds(t) \/ (full /\ ~Starves(t)))
    BY <1>2, <2>3
  <2> HIDE DEF last
  <2>5. Callable(<<t>>, last, full, quiet)
    BY <1>2, <2>1, <2>2, <2>3, <2>4, CallableOne
  <2>6. Closed # <<>>
    BY <1>3, <2>1
  <2> QED BY <1>3, <2>1, <2>5, <2>6, CallHolds DEF full, last
<1> QED BY <1>6, <1>7, <1>8, <1>9

(* An open brace, its indent and the line after it, token by token.         *)
LEMMA BracedLine ==
  ASSUME NEW a \in Tokens, NEW b \in Tokens, NEW c \in Tokens, NEW line \in Tokens
  PROVE  (Filler \o <<a, b, c>>) \o <<line>> =
           Filler \o (<<a>> \o (<<b>> \o (<<c>> \o <<line>>)))
<1> DEFINE s == <<a>> \o (<<b>> \o (<<c>> \o <<line>>))
<1>1. Filler \in Seq(Tokens) /\ <<a, b, c>> \in Seq(Tokens)
      /\ <<line>> \in Seq(Tokens)
  BY BeforeTypes
<1>2. (Filler \o <<a, b, c>>) \o <<line>> = Filler \o (<<a, b, c>> \o <<line>>)
  BY <1>1, ConcatAssociative
<1>3. <<a, b, c>> \o <<line>> = s
  <2>1. <<a, b, c>> = <<a>> \o (<<b>> \o <<c>>)
    BY Triple
  <2>2. <<a>> \in Seq(Tokens) /\ <<b>> \in Seq(Tokens) /\ <<c>> \in Seq(Tokens)
        /\ <<b>> \o <<c>> \in Seq(Tokens) /\ <<line>> \in Seq(Tokens)
    OBVIOUS
  <2>3. (<<a>> \o (<<b>> \o <<c>>)) \o <<line>>
          = <<a>> \o ((<<b>> \o <<c>>) \o <<line>>)
    BY <2>2, ConcatAssociative
  <2>4. (<<b>> \o <<c>>) \o <<line>> = <<b>> \o (<<c>> \o <<line>>)
    BY <2>2, ConcatAssociative
  <2> QED BY <2>1, <2>3, <2>4
<1> QED BY <1>2, <1>3

LEMMA TextsHold ==
  ASSUME IInv, QInv, Block \/ PrintText \/ Spaces \/ TagLine
  PROVE  QInv' /\ Waiting' = Waiting
<1> DEFINE full == Unsized(Waiting) # {}
<1>1. Ready /\ nesting # <<>>
  BY DEF Block, PrintText, Spaces, TagLine, Call, InCode
<1>2. /\ quiet \in Nat /\ quiet <= MaxQuiet /\ needbreak \in BOOLEAN
      /\ nesting \in Seq(Kinds)
      /\ ~needbreak => full
      /\ nesting[1] = "function"
  BY <1>1, WhenReady
<1>3. ASSUME NEW t \in AllContents, t.class = "tokenbreak", NEW last, NEW open,
             NEW q \in Nat, q <= MaxQuiet
      PROVE  Callable(<<t>>, last, open, q)
  BY <1>3, ClassRoles, CallableOne
<1> HIDE DEF full
<1>4. ASSUME NEW t \in AllContents, t.class = "tokenbreak",
             Call(Filler \o <<t>>, FALSE, nesting)
      PROVE  QInv' /\ Waiting' = Waiting
  <2>1. Callable(<<t>>, TRUE, FALSE, quiet)
    BY <1>2, <1>3, <1>4
  <2>2. Callable(Filler \o <<t>>, TRUE, full, quiet)
    BY <1>1, <2>1, Filled DEF full
  <2> QED BY <1>1, <1>2, <1>4, <2>2, SpacedCallHolds DEF full
<1>5. ASSUME Block PROVE QInv' /\ Waiting' = Waiting
  <2> DEFINE t == Delimiter("ignore")
             last == ~needbreak /\ nesting # <<>>
  <2>1. quiet < MaxQuiet /\ Call(<<t>>, needbreak, nesting)
    BY <1>5 DEF Block, Closing
  <2>2. t \in AllContents /\ t.class = "ignore"
    BY ContentKinds
  <2> HIDE DEF t
  <2>3. ~Starves(t) /\ t.class # "tokenstring"
    BY <2>2, ClassRoles
  <2>4. last => (Feeds(t) \/ (full /\ ~Starves(t)))
    BY <1>2, <2>3
  <2> HIDE DEF last
  <2>5. Callable(<<t>>, last, full, quiet)
    BY <1>2, <2>1, <2>2, <2>3, <2>4, CallableOne
  <2> QED BY <1>1, <1>2, <2>1, <2>5, CallHolds DEF full, last
<1>6. ASSUME PrintText PROVE QInv' /\ Waiting' = Waiting
  <2>1. PICK n \in Texts : Call(Separator \o <<String(n)>>, TRUE, nesting)
    BY <1>6 DEF PrintText
  <2> DEFINE t == String(n)
             last == ~TRUE /\ nesting # <<>>
  <2>2. t \in AllContents /\ t.class = "tokenstring"
    BY ContentKinds
  <2>3. Call(Separator \o <<t>>, TRUE, nesting)
    BY <2>1
  <2> HIDE DEF t
  <2>4. t.class \notin Quiet
    BY <2>2, ClassRoles
  <2>5. Callable(<<t>>, last, TRUE, quiet)
    BY <1>2, <2>2, <2>4, CallableOne
  <2>6. Callable(Separator \o <<t>>, last, full, quiet)
    BY <1>1, <2>5, Separated DEF full
  <2> QED BY <1>1, <1>2, <2>3, <2>6, CallHolds DEF full
<1>7. ASSUME Spaces PROVE QInv' /\ Waiting' = Waiting
  <2>1. PICK num \in Gaps, bump \in Bumps :
          Call(Filler \o <<Space(num, bump)>>, FALSE, nesting)
    BY <1>7 DEF Spaces
  <2>2. Space(num, bump) \in AllContents /\ Space(num, bump).class = "tokenbreak"
    BY ContentKinds
  <2> QED BY <1>4, <2>1, <2>2
<1>8. ASSUME TagLine PROVE QInv' /\ Waiting' = Waiting
  <2>1. PICK line \in {Line} \cup {LineAt(i) : i \in Margins} :
          IF pendPrint
          THEN Call(OpenBrace \o <<line>>, FALSE, Append(nesting, "indent"))
          ELSE Call(Filler \o <<line>>, FALSE, nesting)
    BY <1>8 DEF TagLine
  <2>2. line \in AllContents /\ line.class = "tokenbreak"
    BY <2>1, ContentKinds
  <2>3. CASE ~pendPrint
    BY <1>4, <2>1, <2>2, <2>3
  <2>4. CASE pendPrint
    <3> DEFINE a == Space(1, 0)
               b == Indent
               c == String(1)
               open == Append(nesting, "indent")
               last == TRUE
               s == <<a>> \o (<<b>> \o (<<c>> \o <<line>>))
    <3>1. Call(OpenBrace \o <<line>>, FALSE, open)
      BY <2>1, <2>4
    <3>2. open # <<>> /\ open[1] = "function"
      BY <1>1, <1>2, ClosedBase
    <3>3. /\ a \in AllContents /\ a.class = "tokenbreak"
          /\ b \in AllContents /\ b.class = "begin_indent"
          /\ c \in AllContents /\ c.class = "tokenstring"
      BY ContentKinds
    <3>4. OpenBrace = Filler \o <<a, b, c>>
      BY DEF OpenBrace
    <3> HIDE DEF a, b, c
    <3>5. 0 \in Nat /\ 0 <= MaxQuiet /\ 0 < MaxQuiet
      BY PrinterAssumption
    <3>6. /\ Feeds(a) /\ a.class \notin Quiet /\ a.class # "tokenstring"
          /\ ~Starves(b) /\ b.class # "tokenstring"
          /\ c.class \notin Quiet /\ line.class \notin Quiet
      BY <2>2, <3>3, ClassRoles
    <3>7. /\ a \in Tokens /\ b \in Tokens /\ c \in Tokens /\ line \in Tokens
      BY <2>2, <3>3, ContentsAreTokens
    <3>8. Callable(<<line>>, last, Feeds(c) \/ (TRUE /\ ~Starves(c)), 0)
      BY <1>3, <2>2, <3>5
    <3>9. Callable(<<c>> \o <<line>>, last, TRUE, 0)
      BY <3>3, <3>5, <3>6, <3>8, CallableCons
    <3>10. Callable(<<b>> \o (<<c>> \o <<line>>), last, TRUE, 0)
      <4> DEFINE r == <<c>> \o <<line>>
                 now == Feeds(b) \/ (TRUE /\ ~Starves(b))
      <4>1. now
        BY <3>6
      <4>2. \A k \in DOMAIN r : r[k].class \notin Quiet
        <5>1. r \in Seq(Tokens) /\ r[1] = c
          BY <3>7, Consed
        <5>2. PICK n \in Nat : /\ Len(<<line>>) = n /\ DOMAIN r = 1 .. n + 1
                               /\ \A k \in 1 .. n : r[k + 1] = <<line>>[k]
          BY <3>7, Consed
        <5>3. n = 1
          BY <5>2
        <5>4. DOMAIN r = {1, 2} /\ r[1 + 1] = <<line>>[1]
          BY <5>2, <5>3
        <5> HIDE DEF r
        <5> QED BY <3>6, <5>1, <5>4
      <4> HIDE DEF r, now
      <4>3. 0 <= 0
        OBVIOUS
      <4>4. Callable(r, last, now, 0)
        BY <3>9, <4>1, <4>3, CallableOpen DEF r
      <4> QED BY <3>3, <3>5, <3>6, <4>2, <4>4, CallableCons DEF r, now
    <3>11. Callable(s, last, FALSE, quiet)
      <4> DEFINE r == <<b>> \o (<<c>> \o <<line>>)
                 now == Feeds(a) \/ (FALSE /\ ~Starves(a))
      <4>1. now /\ 0 <= 0
        BY <3>6
      <4> HIDE DEF r, now
      <4>2. Callable(r, last, now, 0)
        BY <3>10, <4>1, CallableOpen DEF r
      <4> QED BY <1>2, <3>3, <3>6, <4>2, CallableCons DEF r, now
    <3>12. OpenBrace \o <<line>> = Filler \o s
      <4>1. (Filler \o <<a, b, c>>) \o <<line>> = Filler \o s
        BY <3>7, BracedLine
      <4> QED BY <3>4, <4>1
    <3>13. Callable(Filler \o s, last, full, quiet)
      BY <1>1, <3>11, Filled DEF full
    <3> HIDE DEF s
    <3> QED BY <3>1, <3>2, <3>12, <3>13, SpacedCallHolds DEF full
  <2> QED BY <2>3, <2>4
<1> QED BY <1>5, <1>6, <1>7, <1>8
(* A token taken from the call.                                            *)
LEMMA ScanCalls ==
  ASSUME IInv, QInv, NEW C, Scanning(C), NEW open,
         open <=> (Feeds(Head(todo)) \/ (Unsized(Waiting) # {} /\ ~Starves(Head(todo))))
  PROVE  /\ nesting # <<>> => nesting[1] = "function"
         /\ \A i \in DOMAIN todo' : todo'[i] \in AllContents
         /\ QuietFits(todo', quiet')
         /\ Fed(todo', ~needbreak /\ nesting # <<>>, open)
         /\ nesting' = nesting /\ needbreak' = needbreak
         /\ ~(nesting = <<>> /\ ~needbreak)
         /\ quiet \in Nat
         /\ quiet' = IF Head(todo).class \in Quiet THEN quiet + 1 ELSE 0
<1>1. /\ todo \in Seq(Tokens) /\ Len(todo) > 0 /\ phase = "idle"
      /\ \A i \in DOMAIN Tail(todo) : Tail(todo)[i] \in AllContents
  BY ToScan
<1>2. /\ todo' = Tail(todo) /\ nesting' = nesting /\ needbreak' = needbreak
      /\ quiet' = IF Head(todo).class \in Quiet THEN quiet + 1 ELSE 0
      /\ todo # <<>>
  BY DEF Scanning
<1>3. quiet \in Nat
  BY DEF IInv, CallsOK
<1>4. QuietFits(todo', quiet')
  BY <1>1, <1>2, <1>3, QuietTail DEF QInv, CallsHold
<1> DEFINE last == ~needbreak /\ nesting # <<>>
           full == Unsized(Waiting) # {}
           now == Feeds(Head(todo)) \/ (full /\ ~Starves(Head(todo)))
<1>5. Fed(todo, last, phase = "idle" /\ full)
  BY DEF QInv, CallsHold
<1> HIDE DEF last, full
<1>6. Fed(todo, last, full)
  BY <1>1, <1>5, FedMore
<1>7. Fed(Tail(todo), last, now)
  BY <1>1, <1>6, FedTail
<1>8. Fed(Tail(todo), last, open)
  <2>1. now => open
    BY DEF full
  <2> HIDE DEF now
  <2> QED BY <1>7, <2>1, FedMore
<1>9. ~(nesting = <<>> /\ ~needbreak)
  BY <1>2 DEF QInv, PhasesHold
<1> QED BY <1>1, <1>2, <1>3, <1>4, <1>8, <1>9 DEF last, QInv, CallsHold

(* A quiet token at the end of quiet tokens.                               *)
LEMMA QuietAppend ==
  ASSUME NEW s \in Seq(Tokens), NEW t \in Tokens, AllQuiet(s), t.class \in Quiet
  PROVE  AllQuiet(Append(s, t)) /\ Len(Append(s, t)) = Len(s) + 1
<1>1. /\ Len(Append(s, t)) = Len(s) + 1 /\ Len(s) \in Nat
      /\ Append(s, t)[Len(s) + 1] = t
      /\ \A i \in 1 .. Len(s) : Append(s, t)[i] = s[i]
  OBVIOUS
<1>2. \A i \in 1 .. Len(s) + 1 : i = Len(s) + 1 \/ i \in 1 .. Len(s)
  BY <1>1
<1> QED BY <1>1, <1>2 DEF AllQuiet

LEMMA ScanHolds == IInv /\ QInv /\ Scan => QInv'
<1> SUFFICES ASSUME IInv, QInv, Scan PROVE QInv'
  OBVIOUS
<1> DEFINE t == Head(todo)
<1>1. CASE ScanBegin \/ ScanBreak
  <2>1. /\ QueuesHold' /\ Unsized(Waiting)' # {} /\ phase' = "idle"
        /\ t.class \in Begins \cup {"tokenbreak"}
    BY <1>1, ScanBeginTokens, ScanBreakTokens
  <2>2. Scanning(Begins) \/ Scanning({"tokenbreak"})
    BY <1>1 DEF ScanBegin, ScanBreak
  <2>3. Feeds(t)
    BY <2>1, ClassRoles
  <2> DEFINE open == TRUE
  <2>4. open <=> (Feeds(t) \/ (Unsized(Waiting) # {} /\ ~Starves(t)))
    BY <2>3
  <2> HIDE DEF open
  <2>5. /\ nesting # <<>> => nesting[1] = "function"
        /\ \A i \in DOMAIN todo' : todo'[i] \in AllContents
        /\ QuietFits(todo', quiet')
        /\ Fed(todo', ~needbreak /\ nesting # <<>>, open)
        /\ nesting' = nesting /\ needbreak' = needbreak
        /\ ~(nesting = <<>> /\ ~needbreak)
    BY <2>2, <2>4, ScanCalls
  <2>6. PhasesHold'
    BY <2>1, <2>5 DEF PhasesHold
  <2>7. Fed(todo', ~needbreak /\ nesting # <<>>,
            phase' = "idle" /\ Unsized(Waiting)' # {})
    BY <2>1, <2>5, FedMore
  <2>8. CallsHold'
    BY <2>5, <2>7 DEF CallsHold
  <2> QED BY <2>1, <2>6, <2>8 DEF QInv
<1>2. CASE ScanEnd
  <2>1. /\ QueuesHold' /\ t \in Tokens /\ t.size >= 0 /\ t.class \in Ends
        /\ phase' = IF Unsized(Waiting)' = {} /\ Unsized(Waiting) # {}
                    THEN "advance" ELSE "idle"
        /\ phase = "idle"
    BY <1>2, ScanEndTokens
  <2>2. PICK z : SettlesBreak(Append(Waiting, t), z) /\ SettlesLast(z, Waiting')
    BY <1>2, ScanEndTokens
  <2>3. Scanning(Ends)
    BY <1>2 DEF ScanEnd
  <2>4. ~Feeds(t) /\ Starves(t) /\ t.class \in Quiet
    BY <2>1, ClassRoles
  <2> DEFINE open == FALSE
  <2>5. open <=> (Feeds(t) \/ (Unsized(Waiting) # {} /\ ~Starves(t)))
    BY <2>4
  <2> HIDE DEF open
  <2>6. /\ nesting # <<>> => nesting[1] = "function"
        /\ \A i \in DOMAIN todo' : todo'[i] \in AllContents
        /\ QuietFits(todo', quiet')
        /\ Fed(todo', ~needbreak /\ nesting # <<>>, open)
        /\ nesting' = nesting /\ needbreak' = needbreak
        /\ ~(nesting = <<>> /\ ~needbreak)
        /\ quiet \in Nat /\ quiet' = quiet + 1
    BY <2>3, <2>4, <2>5, ScanCalls
  <2>7. Waiting \in Seq(Tokens)
    BY RightIs
  <2>8. ASSUME phase' = "idle", Unsized(Waiting)' = {}
        PROVE  Len(Waiting)' <= quiet' /\ AllQuiet(Waiting)'
    <3>1. Unsized(Waiting) = {}
      BY <2>1, <2>8
    <3>2. Len(Waiting) <= quiet /\ AllQuiet(Waiting)
      BY <2>1, <3>1 DEF QInv, PhasesHold
    <3>3. Unsized(Append(Waiting, t)) = {}
      BY <2>1, <2>7, <3>1, AppendOpen
    <3>4. Waiting' = Append(Waiting, t)
      <4>1. \A s, i : Unsized(s) = {} => ~LastOpen(s, i)
        BY DEF LastOpen
      <4>2. z = Append(Waiting, t)
        BY <2>2, <3>3, <4>1 DEF SettlesBreak, Settles
      <4> QED BY <2>2, <3>3, <4>1, <4>2 DEF SettlesLast, Settles
    <3>5. AllQuiet(Append(Waiting, t)) /\ Len(Append(Waiting, t)) = Len(Waiting) + 1
      BY <2>1, <2>4, <2>7, <3>2, QuietAppend
    <3>6. Len(Waiting) \in Nat
      BY <2>7
    <3>7. AllQuiet(Waiting')
      BY <3>4, <3>5
    <3> QED BY <2>6, <3>2, <3>4, <3>5, <3>6, <3>7 DEF AllQuiet
  <2>9. PhasesHold'
    BY <2>1, <2>6, <2>8 DEF PhasesHold
  <2>10. Fed(todo', ~needbreak /\ nesting # <<>>,
             phase' = "idle" /\ Unsized(Waiting)' # {})
    BY <2>6, FedMore DEF open
  <2>11. CallsHold'
    BY <2>6, <2>10 DEF CallsHold
  <2> QED BY <2>1, <2>9, <2>11 DEF QInv
<1>3. CASE ScanQuiet \/ ScanString
  <2>1. /\ QueuesHold' /\ t \in Tokens /\ t.size >= 0
        /\ t.class \in {"begin_indent", "end_indent", "ignore", "tokenstring"}
        /\ Waiting' = Append(Waiting, t)
        /\ Unsized(Waiting)' = Unsized(Waiting)
        /\ t.class = "tokenstring" => Unsized(Waiting) # {}
        /\ phase = "idle"
        /\ phase' = IF t.class = "tokenstring" THEN "force" ELSE "idle"
    BY <1>3, ScanOtherTokens
  <2>2. \E C : Scanning(C)
    BY <1>3 DEF ScanQuiet, ScanString
  <2> DEFINE full == Unsized(Waiting) # {}
             open == full /\ t.class # "tokenstring"
  <2>3. open <=> (Feeds(t) \/ (Unsized(Waiting) # {} /\ ~Starves(t)))
    BY <2>1, ClassRoles
  <2> HIDE DEF open
  <2>4. /\ nesting # <<>> => nesting[1] = "function"
        /\ \A i \in DOMAIN todo' : todo'[i] \in AllContents
        /\ QuietFits(todo', quiet')
        /\ Fed(todo', ~needbreak /\ nesting # <<>>, open)
        /\ nesting' = nesting /\ needbreak' = needbreak
        /\ ~(nesting = <<>> /\ ~needbreak)
        /\ quiet \in Nat
        /\ quiet' = IF t.class \in Quiet THEN quiet + 1 ELSE 0
    BY <2>2, <2>3, ScanCalls
  <2>5. Waiting \in Seq(Tokens) /\ Len(Waiting) \in Nat
    BY RightIs
  <2>6. ASSUME phase' = "idle", Unsized(Waiting)' = {}
        PROVE  Len(Waiting)' <= quiet' /\ AllQuiet(Waiting)'
    <3>1. t.class \in Quiet
      BY <2>1, <2>6, ClassRoles
    <3>2. Len(Waiting) <= quiet /\ AllQuiet(Waiting)
      BY <2>1, <2>6 DEF QInv, PhasesHold
    <3>3. AllQuiet(Append(Waiting, t)) /\ Len(Append(Waiting, t)) = Len(Waiting) + 1
      BY <2>1, <2>5, <3>1, <3>2, QuietAppend
    <3>4. AllQuiet(Waiting')
      BY <2>1, <3>3
    <3> QED BY <2>1, <2>4, <2>5, <3>1, <3>2, <3>3, <3>4 DEF AllQuiet
  <2>7. PhasesHold'
    BY <2>1, <2>4, <2>6 DEF PhasesHold
  <2>8. Fed(todo', ~needbreak /\ nesting # <<>>,
            phase' = "idle" /\ Unsized(Waiting)' # {})
    <3> DEFINE after == phase' = "idle" /\ Unsized(Waiting)' # {}
    <3>1. open => after
      BY <2>1 DEF open
    <3> HIDE DEF after
    <3>2. Fed(todo', ~needbreak /\ nesting # <<>>, after)
      BY <2>4, <3>1, FedMore
    <3> QED BY <3>2 DEF after
  <2>9. CallsHold'
    BY <2>4, <2>8 DEF CallsHold
  <2> QED BY <2>1, <2>7, <2>9 DEF QInv
<1> QED BY <1>1, <1>2, <1>3 DEF Scan
(* The other steps.                                                        *)
LEMMA NothingUnsized ==
  ASSUME QInv, ~CanLetGo, Unsized(Waiting) = {}
  PROVE  Waiting = <<>> /\ Len(Waiting) = 0
<1>1. /\ Waiting \in Seq(Tokens)
      /\ IsEmpty(tokqueue) <=> Len(Waiting) = 0
      /\ Len(Waiting) > 0 => Bottom(tokqueue) = Waiting[1]
  BY CoupledTells DEF QInv, QueuesHold
<1>2. CASE Len(Waiting) = 0
  BY <1>1, <1>2, EmptySeq
<1>3. CASE Len(Waiting) # 0
  <2>1. Len(Waiting) > 0 /\ 1 \in 1 .. Len(Waiting)
    BY <1>1, <1>3
  <2>2. Waiting[1] \in Tokens
    BY <1>1, <2>1
  <2>3. Waiting[1].size \in Int
    BY <2>2 DEF Tokens
  <2>4. ~(Waiting[1].size >= 0)
    BY <1>1, <1>3, <2>1 DEF CanLetGo, Leftmost
  <2> QED BY <2>1, <2>3, <2>4 DEF Unsized
<1> QED BY <1>2, <1>3

LEMMA ForceHolds == IInv /\ QInv /\ ForceBreak => QInv'
<1> SUFFICES ASSUME IInv, QInv, ForceBreak PROVE QInv'
  OBVIOUS
<1>1. QueuesHold' /\ phase = "force" /\ phase' = "forced"
  BY ForceTokens
<1>2. /\ todo' = todo /\ nesting' = nesting /\ needbreak' = needbreak /\ quiet' = quiet
  BY DEF ForceBreak, calls
<1>3. PhasesHold'
  BY <1>1, <1>2 DEF PhasesHold, QInv
<1>4. Fed(todo, ~needbreak /\ nesting # <<>>, phase = "idle" /\ Unsized(Waiting) # {})
  BY DEF QInv, CallsHold
<1>5. Fed(todo', ~needbreak' /\ nesting' # <<>>,
          phase' = "idle" /\ Unsized(Waiting)' # {})
  BY <1>1, <1>2, <1>4 DEF Fed
<1>6. CallsHold'
  BY <1>2, <1>5 DEF CallsHold, QInv
<1> QED BY <1>1, <1>3, <1>6 DEF QInv

LEMMA LetGoHolds ==
  ASSUME IInv, QInv, NEW C, LetGo(C)
  PROVE  QInv'
<1>1. /\ QueuesHold' /\ Waiting' = Tail(Waiting) /\ Len(Waiting) > 0
      /\ phase \in {"advance", "forced", "flush"} /\ phase' = phase
      /\ todo' = todo /\ nesting' = nesting /\ needbreak' = needbreak /\ quiet' = quiet
  BY LetGoTokens DEF calls
<1>2. Waiting \in Seq(Tokens)
  BY RightIs
<1>3. Unsized(Waiting) = {} => Unsized(Tail(Waiting)) = {}
  <2>1. ASSUME NEW i \in Unsized(Tail(Waiting))
        PROVE  i + 1 \in Unsized(Waiting)
    <3>1. i \in 1 .. Len(Waiting) - 1 /\ Tail(Waiting)[i] = Waiting[i + 1]
          /\ Tail(Waiting)[i].size < 0
      BY <1>1, <1>2, <2>1 DEF Unsized
    <3> QED BY <1>1, <1>2, <3>1 DEF Unsized
  <2> QED BY <2>1
<1>4. Unsized(Waiting)' = Unsized(Tail(Waiting))
  BY <1>1 DEF Unsized
<1>5. PhasesHold'
  BY <1>1, <1>3, <1>4 DEF PhasesHold, QInv
<1>6. Fed(todo, ~needbreak /\ nesting # <<>>, phase = "idle" /\ Unsized(Waiting) # {})
  BY DEF QInv, CallsHold
<1>7. Fed(todo', ~needbreak' /\ nesting' # <<>>,
          phase' = "idle" /\ Unsized(Waiting)' # {})
  BY <1>1, <1>6 DEF Fed
<1>8. CallsHold'
  BY <1>1, <1>7 DEF CallsHold, QInv
<1> QED BY <1>1, <1>5, <1>8 DEF QInv

LEMMA PhaseHolds ==
  ASSUME IInv, QInv,
         \/ ForceDone \/ AdvanceDone \/ ForcedDone \/ Flush \/ FlushDone
         \/ SetPendingPrint \/ CancelPendingPrint \/ UNCHANGED vars
  PROVE  QInv' /\ Waiting' = Waiting
<1>1. tokqueue' = tokqueue /\ scanqueue' = scanqueue /\ rightotal' = rightotal
      /\ todo' = todo /\ nesting' = nesting /\ quiet' = quiet
  BY DEF ForceDone, AdvanceDone, ForcedDone, Flush, FlushDone, SetPendingPrint,
         CancelPendingPrint, vars, queues, calls
<1>2. /\ Waiting' = Waiting /\ Unsized(Waiting)' = Unsized(Waiting) /\ QueuesHold'
  BY <1>1, WaitingSame
<1> DEFINE before == phase = "idle" /\ Unsized(Waiting) # {}
           after == phase' = "idle" /\ Unsized(Waiting) # {}
           last == ~needbreak /\ nesting # <<>>
<1>3. Fed(todo, last, before)
  BY DEF QInv, CallsHold
<1>4. Waiting \in Seq(Tokens)
      /\ (IsEmpty(tokqueue) <=> Len(Waiting) = 0)
      /\ (IsEmpty(scanqueue) <=> Unsized(Waiting) = {})
  BY CoupledTells DEF QInv, QueuesHold
<1>5. quiet \in Nat
  BY DEF IInv, CallsOK
<1>6. ASSUME needbreak' = needbreak, PhasesHold', before => after
      PROVE  QInv'
  <2> HIDE DEF before, after, last
  <2>1. Fed(todo, last, after)
    BY <1>3, <1>6, FedMore
  <2>2. CallsHold'
    BY <1>1, <1>2, <1>6, <2>1 DEF CallsHold, QInv, last, after
  <2> QED BY <1>2, <1>6, <2>2 DEF QInv
<1>7. CASE ForceDone
  <2>1. phase = "force" /\ phase' = "idle" /\ needbreak' = needbreak
    BY <1>7 DEF ForceDone, calls
  <2>2. PhasesHold'
    BY <1>1, <1>2, <2>1 DEF PhasesHold, QInv
  <2> QED BY <1>2, <1>6, <2>1, <2>2
<1>8. CASE AdvanceDone
  <2>1. phase = "advance" /\ phase' = "idle" /\ needbreak' = needbreak /\ ~CanLetGo
    BY <1>8 DEF AdvanceDone, calls
  <2>2. Waiting = <<>> /\ Len(Waiting) = 0
    BY <2>1, NothingUnsized DEF QInv, PhasesHold
  <2>3. AllQuiet(Waiting)
    BY <2>2 DEF AllQuiet
  <2>4. Waiting' = Waiting /\ AllQuiet(Waiting)' /\ Len(Waiting)' = 0
    BY <1>2, <2>2, <2>3 DEF AllQuiet
  <2>5. PhasesHold'
    BY <1>1, <1>2, <1>5, <2>1, <2>4 DEF PhasesHold, QInv
  <2> QED BY <1>2, <1>6, <2>1, <2>5
<1>9. CASE ForcedDone
  <2>1. /\ phase = "forced" /\ needbreak' = needbreak /\ ~CanLetGo
        /\ phase' = IF Unsized(Waiting) = {} THEN "idle" ELSE "force"
    BY <1>4, <1>9 DEF ForcedDone, calls
  <2>2. CASE Unsized(Waiting) = {}
    <3>1. Waiting = <<>> /\ Len(Waiting) = 0
      BY <2>1, <2>2, NothingUnsized
    <3>2. AllQuiet(Waiting)
      BY <3>1 DEF AllQuiet
    <3>3. Waiting' = Waiting /\ AllQuiet(Waiting)' /\ Len(Waiting)' = 0
      BY <1>2, <3>1, <3>2 DEF AllQuiet
    <3>4. PhasesHold'
      BY <1>1, <1>2, <1>5, <2>1, <2>2, <3>3 DEF PhasesHold, QInv
    <3> QED BY <1>2, <1>6, <2>1, <3>4
  <2>3. CASE Unsized(Waiting) # {}
    <3>1. PhasesHold'
      BY <1>1, <1>2, <2>1, <2>3 DEF PhasesHold, QInv
    <3> QED BY <1>2, <1>6, <2>1, <3>1
  <2> QED BY <2>2, <2>3
<1>10. CASE Flush
  <2>1. /\ phase' = "flush" /\ todo = <<>> /\ nesting = <<>> /\ needbreak
        /\ needbreak' = needbreak
    BY <1>10 DEF Flush, calls
  <2>2. PhasesHold'
    BY <1>1, <1>2, <2>1 DEF PhasesHold, QInv
  <2>3. Fed(<<>>, last, after)
    BY <2>1, FedNil
  <2>4. CallsHold'
    BY <1>1, <1>2, <2>1, <2>3 DEF CallsHold, QInv
  <2> QED BY <1>2, <2>2, <2>4 DEF QInv
<1>11. CASE FlushDone
  <2>1. /\ phase = "flush" /\ phase' = "idle" /\ Len(Waiting) = 0
        /\ needbreak' = FALSE
    BY <1>4, <1>11 DEF FlushDone
  <2>2. todo = <<>> /\ nesting = <<>>
    BY <2>1 DEF QInv, PhasesHold
  <2>3. AllQuiet(Waiting)' /\ Len(Waiting)' = 0
    BY <1>2, <2>1 DEF AllQuiet
  <2>4. PhasesHold'
    BY <1>1, <1>2, <1>5, <2>1, <2>2, <2>3 DEF PhasesHold
  <2>5. Fed(<<>>, ~FALSE /\ nesting # <<>>, after)
    BY <2>2, FedNil
  <2>6. CallsHold'
    BY <1>1, <1>2, <2>1, <2>2, <2>5 DEF CallsHold, QInv
  <2> QED BY <1>2, <2>4, <2>6 DEF QInv
<1>12. CASE SetPendingPrint \/ CancelPendingPrint \/ UNCHANGED vars
  <2>1. phase' = phase /\ needbreak' = needbreak
    BY <1>12 DEF SetPendingPrint, CancelPendingPrint, vars, calls
  <2>2. PhasesHold'
    BY <1>1, <1>2, <2>1 DEF PhasesHold, QInv, AllQuiet
  <2> QED BY <1>2, <1>6, <2>1, <2>2
<1> QED BY <1>7, <1>8, <1>9, <1>10, <1>11, <1>12

(* The printer as it begins, and as clear leaves it.                       *)
LEMMA EmptyHolds ==
  ASSUME NEW n \in Nat, n > 1, n >= QueueSize,
         tokqueue' = Emptied(n, BlankToken), scanqueue' = Emptied(n, BlankRef),
         rightotal' = 1, needbreak' = FALSE, nesting' = <<>>, quiet' = 0,
         todo' = <<>>, phase' = "idle"
  PROVE  QInv' /\ Waiting' = <<>>
<1>1. Coupled(<<tokqueue', scanqueue'>>, <<>>)
  BY EmptiedCoupled
<1>2. Waiting' = <<>> /\ Len(<<>>) = 0
  BY <1>1, CoupledTells, EmptySequence DEF Waiting
<1>3. Unsized(<<>>) = {} /\ AllQuiet(<<>>) /\ Sizeless(<<>>, 1)
  BY <1>2 DEF Unsized, AllQuiet, Sizeless
<1>4. tokqueue'.max = n
  BY DEF Emptied, QueueOf
<1>5. QueuesHold'
  BY <1>1, <1>2, <1>3, <1>4 DEF QueuesHold
<1>6. AllQuiet(Waiting)' /\ Len(Waiting)' = 0
  BY <1>2, <1>3 DEF AllQuiet
<1>7. PhasesHold'
  BY <1>2, <1>6 DEF PhasesHold
<1>8. Fed(<<>>, ~FALSE /\ <<>> # <<>>, phase' = "idle" /\ Unsized(Waiting)' # {})
  BY FedNil
<1>9. QuietFits(<<>>, 0)
  BY EmptySequence, PrinterAssumption DEF QuietFits
<1>10. CallsHold'
  BY <1>8, <1>9, EmptySequence DEF CallsHold
<1> QED BY <1>2, <1>5, <1>7, <1>10 DEF QInv

LEMMA InitHolds == Init => QInv
<1> SUFFICES ASSUME Init PROVE QInv
  OBVIOUS
<1>0. QueueSize \in Nat /\ QueueSize > 1
  BY Assumed
<1>1. Coupled(<<tokqueue, scanqueue>>, <<>>)
  BY <1>0, EmptiedCoupled DEF Init
<1>2. Waiting = <<>> /\ Len(<<>>) = 0
  BY <1>1, CoupledTells, EmptySequence DEF Waiting
<1>3. Unsized(<<>>) = {} /\ AllQuiet(<<>>) /\ Sizeless(<<>>, 1)
  BY <1>2 DEF Unsized, AllQuiet, Sizeless
<1>4. tokqueue.max = QueueSize /\ rightotal = 1
  BY DEF Init, Emptied, QueueOf
<1>5. QueuesHold
  BY <1>0, <1>1, <1>2, <1>3, <1>4 DEF QueuesHold
<1>6. PhasesHold
  BY <1>2, <1>3 DEF PhasesHold, Init
<1>7. Fed(<<>>, ~FALSE /\ <<>> # <<>>, TRUE /\ Unsized(Waiting) # {})
  BY FedNil
<1>8. QuietFits(<<>>, 0)
  BY EmptySequence, PrinterAssumption DEF QuietFits
<1>9. CallsHold
  BY <1>7, <1>8, EmptySequence DEF CallsHold, Init
<1> QED BY <1>5, <1>6, <1>9 DEF QInv

LEMMA ClearHolds ==
  ASSUME IInv, QInv, Clear
  PROVE  QInv' /\ Waiting' = <<>>
<1>1. tokqueue.max \in Nat /\ tokqueue.max > 1 /\ scanqueue.max = tokqueue.max
  BY PairedParts DEF IInv, QueuesOK
<1>2. tokqueue.max >= QueueSize
  BY DEF QInv, QueuesHold
<1> QED BY <1>1, <1>2, EmptyHolds DEF Clear

LEMMA PrintCHolds == IInv /\ QInv /\ PrintC => QInv'
<1> SUFFICES ASSUME IInv, QInv, PrintC PROVE QInv'
  OBVIOUS
<1>1. CASE \/ BeginFunction \/ OpenGroup \/ OpenParen \/ StartComment \/ StartIndent
  BY <1>1, OpeningsHold
<1>2. CASE \/ CloseGroup \/ EndFunction \/ CloseParen \/ StopComment \/ StopIndent
  BY <1>2, ClosingsHold
<1>3. CASE Block \/ PrintText \/ Spaces \/ TagLine
  BY <1>3, TextsHold
<1>4. CASE SetPendingPrint \/ CancelPendingPrint
  BY <1>4, PhaseHolds
<1>5. CASE Clear
  BY <1>5, ClearHolds
<1> QED BY <1>1, <1>2, <1>3, <1>4, <1>5 DEF PrintC

LEMMA NextHolds == IInv /\ QInv /\ [Next]_vars => QInv'
<1> SUFFICES ASSUME IInv, QInv, [Next]_vars PROVE QInv'
  OBVIOUS
<1>1. CASE PrintC
  BY <1>1, PrintCHolds
<1>2. CASE Scan
  BY <1>2, ScanHolds
<1>3. CASE ForceBreak
  BY <1>3, ForceHolds
<1>4. CASE LetGoOne
  <2>1. \E C : LetGo(C)
    BY <1>4 DEF LetGoOne, PrintIgnore, PrintIndent, PrintBegin, PrintEnd,
                PrintString, OverflowString, PrintSpaces, PrintLineAt, PrintBreak
  <2> QED BY <2>1, LetGoHolds
<1>5. CASE ForceDone \/ AdvanceDone \/ ForcedDone \/ Flush \/ FlushDone
           \/ UNCHANGED vars
  BY <1>5, PhaseHolds
<1> QED BY <1>1, <1>2, <1>3, <1>4, <1>5 DEF Next, Printer

LEMMA SpecQInv == Spec => [](IInv /\ QInv)
<1>1. Init => IInv /\ QInv
  BY InitIInv, InitHolds
<1>2. (IInv /\ QInv) /\ [Next]_vars => (IInv /\ QInv)'
  BY NextKeeps, NextHolds
<1> QED BY <1>1, <1>2, PTL DEF Spec
(* From the invariant.                                                     *)
LEMMA OpenReferred == IInv /\ QInv => ScanqueueIsOpenTokens
<1> SUFFICES ASSUME IInv, QInv PROVE ScanqueueIsOpenTokens
  OBVIOUS
<1> DEFINE both == <<tokqueue, scanqueue>>
<1>1. PICK o : Refers(both, Waiting, o)
  BY DEF QInv, QueuesHold, Coupled
<1>2. PICK m \in Nat \ {0} :
        \E l \in 0 .. m - 1, n \in 0 .. m - 1, h \in 0 .. m - 1 :
          Laid(both, Waiting, o, m, l, n, h)
  BY <1>1, RefersParts
<1>3. PICK l \in 0 .. m - 1, n \in 0 .. m - 1, h \in 0 .. m - 1 :
        Laid(both, Waiting, o, m, l, n, h)
  BY <1>2
<1>4. /\ tokqueue.max = m /\ tokqueue.left = l /\ n < m
      /\ Len(Waiting) = n /\ DOMAIN o = 1 .. h
      /\ \A k \in 1 .. h : o[k] \in 1 .. n
      /\ Holds(scanqueue, 0 .. m - 1, Slots(l, m, h, o))
  BY <1>3 DEF Laid
<1>5. Ascends(o) /\ Unsized(Waiting) = {o[k] : k \in DOMAIN o}
  BY <1>1 DEF Refers, OpenAt
<1>6. Held(tokqueue) = n
  BY <1>4, CoupledTells DEF QInv, QueuesHold
<1> DEFINE open == Elements(scanqueue)
<1>7. open = Slots(l, m, h, o)
  BY <1>4, ElementsHeld
<1>8. DOMAIN open = 1 .. h /\ \A k \in 1 .. h : open[k] = Slot(l, m, o[k])
  BY <1>7 DEF Slots
<1> HIDE DEF open
<1>9. \A k \in 1 .. h : (open[k] - l) % m = o[k] - 1
  <2>1. \A k \in 1 .. h : o[k] \in 1 .. m
    BY <1>4
  <2>2. \A i \in 1 .. m : (Slot(l, m, i) - l) % m = i - 1
    BY SlotPlace
  <2> QED BY <1>8, <2>1, <2>2
<1>10. \A i, j \in 1 .. h : i < j => o[i] - 1 < o[j] - 1
  <2>1. SUFFICES ASSUME NEW i \in 1 .. h, NEW j \in 1 .. h, i < j
                 PROVE  o[i] - 1 < o[j] - 1
    OBVIOUS
  <2>2. j - i <= o[j] - o[i]
    <3>1. i \in DOMAIN o /\ j \in DOMAIN o /\ i <= j
      BY <1>4, <2>1
    <3> QED BY <1>5, <3>1 DEF Ascends
  <2>3. o[i] \in Int /\ o[j] \in Int
    BY <1>4
  <2> QED BY <2>1, <2>2, <2>3
<1>11. \A i, j \in DOMAIN open :
         i < j => (open[i] - tokqueue.left) % tokqueue.max
                    < (open[j] - tokqueue.left) % tokqueue.max
  BY <1>4, <1>8, <1>9, <1>10
<1>12. {i \in 1 .. Held(tokqueue) : Elements(tokqueue)[i].size < 0}
         = {o[k] : k \in 1 .. h}
  BY <1>4, <1>5, <1>6 DEF Unsized, Waiting
<1>13. \A i \in 1 .. n : Refs(tokqueue)[i] = Slot(l, m, i)
  BY <1>4, <1>6 DEF Refs, Slot
<1>14. {open[i] : i \in DOMAIN open} =
         {Refs(tokqueue)[i] :
            i \in {i \in 1 .. Held(tokqueue) : Elements(tokqueue)[i].size < 0}}
  <2> DEFINE P == {i \in 1 .. Held(tokqueue) : Elements(tokqueue)[i].size < 0}
             R == Refs(tokqueue)
  <2>1. \A k \in 1 .. h : open[k] = R[o[k]]
    BY <1>4, <1>8, <1>13
  <2>2. P = {o[k] : k \in 1 .. h}
    BY <1>12
  <2> HIDE DEF P, R
  <2>3. {open[i] : i \in 1 .. h} = {R[i] : i \in P}
    <3>1. \A x : x \in P <=> \E k \in 1 .. h : x = o[k]
      BY <2>2
    <3>2. \A y : y \in {open[i] : i \in 1 .. h} => y \in {R[i] : i \in P}
      BY <2>1, <3>1
    <3>3. \A y : y \in {R[i] : i \in P} => y \in {open[i] : i \in 1 .. h}
      BY <2>1, <3>1
    <3> QED BY <3>2, <3>3
  <2> QED BY <1>8, <2>3 DEF P, R
<1> QED BY <1>11, <1>14 DEF ScanqueueIsOpenTokens, open

(* However often the two arrays have wrapped around and been expanded,     *)
(* scanqueue refers to the tokens in tokqueue whose size is not known yet, *)
(* in their order: what scan and the loop for text that does not fit rely  *)
(* on when they write a size through a reference.  For a queue, texts,     *)
(* nesting and bounds of any size.                                         *)
THEOREM ScanqueueRefersToOpenTokens == Spec => []ScanqueueIsOpenTokens
BY SpecQInv, OpenReferred, PTL

(* Between two calls a token that waits with nothing in scanqueue is a     *)
(* delimiter that closes or marks: no text, and no group, is held back     *)
(* that advanceleft would never come to.                                   *)
THEOREM NothingWaits == Spec => []NothingWaitsUnscanned
<1>1. IInv /\ QInv => NothingWaitsUnscanned
  <2> SUFFICES ASSUME IInv, QInv, phase = "idle", IsEmpty(scanqueue)
               PROVE  \A i \in DOMAIN Elements(tokqueue) :
                        Elements(tokqueue)[i].class \in Quiet
    BY DEF NothingWaitsUnscanned
  <2>1. Unsized(Waiting) = {} /\ Waiting \in Seq(Tokens)
    BY CoupledTells DEF QInv, QueuesHold
  <2>2. AllQuiet(Waiting)
    BY <2>1 DEF QInv, PhasesHold
  <2>3. DOMAIN Waiting = 1 .. Len(Waiting)
    BY <2>1
  <2> QED BY <2>2, <2>3 DEF AllQuiet, Waiting
<1> QED BY <1>1, SpecQInv, PTL

(* The queues keep their size, or grow with a token that waits.            *)
LEMMA StepExpands ==
  ASSUME IInv, QInv, [Next]_vars
  PROVE  tokqueue'.max # tokqueue.max => ~IsEmpty(scanqueue)
<1>0. IsEmpty(scanqueue) <=> Unsized(Waiting) = {}
  BY CoupledTells DEF QInv, QueuesHold
<1>1. CASE Scan
  <2>1. CASE ScanBegin
    BY <1>0, <2>1, ScanBeginTokens
  <2>2. CASE ScanBreak
    BY <1>0, <2>2, ScanBreakTokens
  <2>3. CASE ScanEnd
    BY <1>0, <2>3, ScanEndTokens
  <2>4. CASE ScanQuiet \/ ScanString
    BY <1>0, <2>4, ScanOtherTokens
  <2> QED BY <1>1, <2>1, <2>2, <2>3, <2>4 DEF Scan
<1>2. CASE ForceBreak
  BY <1>2 DEF ForceBreak, Resized, QueueOf
<1>3. CASE LetGoOne
  <2>1. \E C : LetGo(C)
    BY <1>3 DEF LetGoOne, PrintIgnore, PrintIndent, PrintBegin, PrintEnd,
                PrintString, OverflowString, PrintSpaces, PrintLineAt, PrintBreak
  <2> QED BY <2>1 DEF LetGo, BottomPopped, QueueOf
<1>4. CASE Clear
  BY <1>4 DEF Clear, Emptied, QueueOf
<1>5. ASSUME NEW tokens, NEW break, NEW open, Call(tokens, break, open)
      PROVE  tokqueue' = tokqueue
  BY <1>5 DEF Call, queues
<1>6. CASE \/ BeginFunction \/ OpenGroup \/ OpenParen \/ StartComment \/ StartIndent
           \/ CloseGroup \/ EndFunction \/ CloseParen \/ StopComment \/ StopIndent
           \/ Block \/ PrintText \/ Spaces \/ TagLine
  <2>1. tokqueue' = tokqueue
    BY <1>5, <1>6 DEF BeginFunction, OpenGroup, OpenParen, StartComment, StartIndent,
                      Open, CloseGroup, EndFunction, CloseParen, StopComment,
                      StopIndent, Close, Block, PrintText, Spaces, TagLine
  <2> QED BY <2>1
<1>7. CASE \/ SetPendingPrint \/ CancelPendingPrint \/ ForceDone \/ AdvanceDone
           \/ ForcedDone \/ Flush \/ FlushDone \/ UNCHANGED vars
  BY <1>7 DEF SetPendingPrint, CancelPendingPrint, ForceDone, AdvanceDone,
              ForcedDone, Flush, FlushDone, vars, queues
<1> QED BY <1>1, <1>2, <1>3, <1>4, <1>6, <1>7 DEF Next, PrintC, Printer

(* expand is called only with a reference in scanqueue, whatever the size  *)
(* of the queues, as long as MaxQuiet is less than it: with none, expand   *)
(* would make a full queue of an empty one.                                *)
THEOREM ExpandsNonempty == Spec => ExpandsWithOpenTokens
<1>1. (IInv /\ QInv) /\ [Next]_vars
        => [tokqueue'.max # tokqueue.max => ~IsEmpty(scanqueue)]_vars
  BY StepExpands
<1> QED BY <1>1, SpecQInv, PTL DEF Spec, ExpandsWithOpenTokens
(* The tokens that wait, as the stream sees them.                          *)
Seen(s) ==
  [i \in 1 .. Len(s) |-> [content |-> Content(s[i]), settled |-> s[i].size >= 0]]

(* Tokens that are the same but for their size, which may become known.    *)
Carries(s, z, n) ==
  \A i \in 1 .. n : /\ Content(z[i]) = Content(s[i])
                    /\ s[i].size >= 0 => z[i].size >= 0

LEMMA SeenWaiting ==
  ASSUME QInv
  PROVE  [i \in 1 .. Held(tokqueue) |->
            [content |-> Content(Elements(tokqueue)[i]),
             settled |-> Elements(tokqueue)[i].size >= 0]] = Seen(Waiting)
<1>1. Held(tokqueue) = Len(Waiting)
  BY CoupledTells DEF QInv, QueuesHold
<1> QED BY <1>1 DEF Seen, Waiting

LEMMA ResizeContent ==
  ASSUME NEW s \in Seq(Tokens), NEW i \in 1 .. Len(s), NEW size \in Int,
         s[i].class # "tokenstring"
  PROVE  \A j \in 1 .. Len(s) : Content(Resize(s, i, size)[j]) = Content(s[j])
<1>1. s[i] \in Tokens
  OBVIOUS
<1>2. \A t \in Tokens : t.class # "tokenstring" => Content(Sized(t, size)) = Content(t)
  BY DEF Tokens, Content, Sized
<1>3. Resize(s, i, size)[i] = Sized(s[i], size)
  BY DEF Resize
<1>4. \A j \in 1 .. Len(s) : j # i => Resize(s, i, size)[j] = s[j]
  BY ResizeTokens
<1> QED BY <1>1, <1>2, <1>3, <1>4

LEMMA SettlesCarries ==
  ASSUME NEW s \in Seq(Tokens), rightotal \in Int, Sizeless(s, rightotal),
         NEW z, SettlesBreak(s, z) \/ SettlesLast(s, z)
  PROVE  /\ z \in Seq(Tokens) /\ Len(z) = Len(s)
         /\ Sizeless(z, rightotal)
         /\ Carries(s, z, Len(s))
         /\ \A i \in 1 .. Len(s) : s[i].size >= 0 => z[i] = s[i]
<1>1. CASE z = s
  BY <1>1 DEF Carries
<1>2. ASSUME NEW i, Settles(s, z, i)
      PROVE  /\ z \in Seq(Tokens) /\ Len(z) = Len(s)
             /\ Sizeless(z, rightotal)
             /\ Carries(s, z, Len(s))
             /\ \A j \in 1 .. Len(s) : s[j].size >= 0 => z[j] = s[j]
  <2>1. LastOpen(s, i) /\ z = Resize(s, i, s[i].size + rightotal)
    BY <1>2 DEF Settles
  <2>2. /\ i \in 1 .. Len(s) /\ s[i] \in Tokens /\ s[i].size + rightotal \in Nat
        /\ Sizeless(z, rightotal) /\ z \in Seq(Tokens) /\ Len(z) = Len(s)
    BY <2>1, SizelessSettles
  <2>3. i \in Unsized(s)
    BY <2>1 DEF LastOpen
  <2>4. s[i].class # "tokenstring" /\ ~(s[i].size >= 0)
    <3>1. s[i].class \in Begins \cup {"tokenbreak"} /\ s[i].size < 0
      BY <2>3 DEF Sizeless, Unsized
    <3>2. s[i].size \in Int
      BY <2>2 DEF Tokens
    <3> QED BY <3>1, <3>2, ClassRoles
  <2> DEFINE size == s[i].size + rightotal
  <2>5. size \in Int /\ size >= 0
    BY <2>2
  <2> HIDE DEF size
  <2>6. z = Resize(s, i, size)
    BY <2>1 DEF size
  <2>7. \A j \in 1 .. Len(s) : Content(z[j]) = Content(s[j])
    BY <2>2, <2>4, <2>5, <2>6, ResizeContent
  <2>8. \A j \in 1 .. Len(s) : j # i => z[j] = s[j]
    BY <2>2, <2>5, <2>6, ResizeTokens
  <2>9. z[i].size >= 0
    BY <2>2, <2>5, <2>6, ResizeTokens
  <2> QED BY <2>2, <2>4, <2>7, <2>8, <2>9 DEF Carries
<1> QED BY <1>1, <1>2 DEF SettlesBreak, SettlesLast

(* What the stream is told of a scan.                                      *)
LEMMA SeenAppend ==
  ASSUME NEW s \in Seq(Tokens), NEW t \in AllContents,
         NEW w \in Seq(Tokens), Len(w) = Len(s) + 1,
         Carries(s, w, Len(s)), Content(w[Len(s) + 1]) = t
  PROVE  \E known \in BOOLEAN, S \in SUBSET {i \in DOMAIN Seen(s) : ~Seen(s)[i].settled} :
           Seen(w) = Append([i \in DOMAIN Seen(s) |->
                               [Seen(s)[i] EXCEPT !.settled = @ \/ i \in S]],
                            [content |-> t, settled |-> known])
<1>1. PICK n \in Nat : Len(s) = n
  OBVIOUS
<1> DEFINE S == {i \in 1 .. n : ~(s[i].size >= 0) /\ w[i].size >= 0}
           known == w[n + 1].size >= 0
           old == [i \in DOMAIN Seen(s) |-> [Seen(s)[i] EXCEPT !.settled = @ \/ i \in S]]
           last == [content |-> t, settled |-> known]
           E(i) == [content |-> Content(w[i]), settled |-> w[i].size >= 0]
<1>4. DOMAIN Seen(s) = 1 .. n
      /\ \A i \in 1 .. n : Seen(s)[i] = [content |-> Content(s[i]), settled |-> s[i].size >= 0]
  BY <1>1 DEF Seen
<1>5. S \in SUBSET {i \in DOMAIN Seen(s) : ~Seen(s)[i].settled}
  <2>1. ASSUME NEW i \in S
        PROVE  i \in DOMAIN Seen(s) /\ ~Seen(s)[i].settled
    <3> DEFINE known1 == s[i].size >= 0
    <3>1. i \in 1 .. n /\ ~known1
      BY <2>1
    <3>2. Seen(s)[i] = [content |-> Content(s[i]), settled |-> known1]
      BY <1>4, <3>1
    <3> HIDE DEF known1
    <3>3. Seen(s)[i].settled = known1
      BY <3>2
    <3> QED BY <1>4, <3>1, <3>3
  <2> QED BY <2>1
<1>6. \A i \in 1 .. n : /\ Content(w[i]) = Content(s[i])
                        /\ s[i].size >= 0 => w[i].size >= 0
  BY <1>1 DEF Carries
<1>7. Content(w[n + 1]) = t
  BY <1>1
<1>8. \A i \in 1 .. n : old[i] = E(i)
  <2>1. SUFFICES ASSUME NEW i \in 1 .. n PROVE old[i] = E(i)
    OBVIOUS
  <2>2. old[i] = [[content |-> Content(s[i]), settled |-> s[i].size >= 0]
                    EXCEPT !.settled = (s[i].size >= 0) \/ i \in S]
    <3> DEFINE known1 == s[i].size >= 0
               r == [content |-> Content(s[i]), settled |-> known1]
    <3>1. old[i] = [Seen(s)[i] EXCEPT !.settled = @ \/ i \in S]
      BY <1>4
    <3>2. Seen(s)[i] = r
      BY <1>4
    <3> HIDE DEF known1
    <3>3. r.settled = known1
      OBVIOUS
    <3> HIDE DEF r
    <3>4. old[i] = [r EXCEPT !.settled = known1 \/ i \in S]
      BY <3>1, <3>2, <3>3
    <3> QED BY <3>4 DEF r, known1
  <2>3. ((s[i].size >= 0) \/ i \in S) <=> w[i].size >= 0
    BY <1>6
  <2> QED BY <1>6, <2>2, <2>3
<1>9. last = E(n + 1)
  BY <1>7
<1>10. old \in Seq({E(i) : i \in 1 .. n + 1}) /\ Len(old) = n
  <2>1. old = [i \in 1 .. n |-> E(i)]
    BY <1>4, <1>8
  <2> HIDE DEF old, E
  <2>2. \A i \in 1 .. n : i \in 1 .. n + 1
    OBVIOUS
  <2>3. DOMAIN old = 1 .. n /\ \A i \in 1 .. n : old[i] \in {E(j) : j \in 1 .. n + 1}
    BY <2>1, <2>2
  <2> QED BY <2>1, <2>3
<1>11. Seen(w) = [i \in 1 .. n + 1 |-> E(i)]
  BY <1>1 DEF Seen
<1> HIDE DEF old, last, E
<1>12. Append(old, last) = [i \in 1 .. n + 1 |-> E(i)]
  <2> DEFINE T == {E(i) : i \in 1 .. n + 1}
             z == Append(old, last)
  <2>1. last \in T
    <3>1. n + 1 \in 1 .. n + 1
      OBVIOUS
    <3> QED BY <1>9, <3>1
  <2> HIDE DEF T
  <2>2. z \in Seq(T) /\ Len(z) = n + 1 /\ z[n + 1] = last
        /\ \A i \in 1 .. n : z[i] = old[i]
    BY <1>10, <2>1 DEF T
  <2> HIDE DEF z
  <2>3. \A i \in 1 .. n + 1 : i = n + 1 \/ i \in 1 .. n
    OBVIOUS
  <2>4. \A i \in 1 .. n + 1 : z[i] = E(i)
    BY <1>8, <1>9, <2>2, <2>3
  <2>5. z = [i \in 1 .. n + 1 |-> z[i]]
    BY <2>2
  <2> QED BY <2>4, <2>5 DEF z
<1>13. Seen(w) = Append(old, last)
  BY <1>11, <1>12
<1>14. known \in BOOLEAN
  OBVIOUS
<1> QED BY <1>5, <1>13, <1>14 DEF old, last

LEMMA ScanSeen ==
  ASSUME IInv, QInv, Scan
  PROVE  LET t == Head(todo)
         IN /\ t \in AllContents
            /\ Waiting \in Seq(Tokens) /\ Waiting' \in Seq(Tokens)
            /\ Len(Waiting') = Len(Waiting) + 1
            /\ Carries(Waiting, Waiting', Len(Waiting))
            /\ Content(Waiting'[Len(Waiting) + 1]) = t
<1> DEFINE t == Head(todo)
           y == Append(Waiting, t)
<1>1. PICK C : Scanning(C)
  BY DEF Scan, ScanBegin, ScanEnd, ScanBreak, ScanQuiet, ScanString
<1>2. t \in AllContents /\ t \in Tokens /\ t.size >= 0 /\ Content(t) = t
  BY <1>1, ToScan, ContentsAreTokens
<1>3. /\ Waiting \in Seq(Tokens) /\ rightotal \in Int
      /\ Sizeless(Waiting, rightotal) /\ Right \in Nat \ {0}
  BY RightIs
<1>4. PICK n \in Nat : Len(Waiting) = n
  BY <1>3
<1> HIDE DEF t
<1>5. /\ Sizeless(y, rightotal) /\ y \in Seq(Tokens) /\ Len(y) = n + 1
      /\ y[n + 1] = t /\ \A i \in 1 .. n : y[i] = Waiting[i]
  BY <1>2, <1>3, <1>4, AppendSizeless
<1> HIDE DEF y
<1>6. n + 1 \in 1 .. n + 1 /\ n + 1 > 0 /\ \A i \in 1 .. n : i \in 1 .. n + 1 /\ i # n + 1
  OBVIOUS
<1>7. ASSUME NEW z, SettlesBreak(y, z) \/ SettlesLast(y, z)
      PROVE  /\ z \in Seq(Tokens) /\ Len(z) = n + 1
             /\ Carries(Waiting, z, n) /\ z[n + 1] = t
             /\ Sizeless(z, rightotal)
  <2>1. /\ z \in Seq(Tokens) /\ Len(z) = Len(y)
        /\ Sizeless(z, rightotal)
        /\ Carries(y, z, Len(y))
        /\ \A i \in 1 .. Len(y) : y[i].size >= 0 => z[i] = y[i]
    BY <1>3, <1>5, <1>7, SettlesCarries
  <2>2. z[n + 1] = t
    BY <1>2, <1>5, <1>6, <2>1
  <2>3. Carries(Waiting, z, n)
    BY <1>5, <1>6, <2>1 DEF Carries
  <2> QED BY <1>5, <2>1, <2>2, <2>3
<1>8. ASSUME NEW z \in Seq(Tokens), Len(z) = n + 1, Carries(Waiting, z, n),
             z[n + 1] = t, t.class # "tokenstring"
      PROVE  /\ Resize(z, n + 1, -Right) \in Seq(Tokens)
             /\ Len(Resize(z, n + 1, -Right)) = n + 1
             /\ Carries(Waiting, Resize(z, n + 1, -Right), n)
             /\ Content(Resize(z, n + 1, -Right)[n + 1]) = t
  <2> DEFINE right == -Right
             w == Resize(z, n + 1, right)
  <2>1. right \in Int
    BY <1>3
  <2> HIDE DEF right
  <2>2. /\ w \in Seq(Tokens) /\ Len(w) = n + 1
        /\ \A j \in 1 .. n + 1 : j # n + 1 => w[j] = z[j]
    BY <1>6, <1>8, <2>1, ResizeTokens
  <2>3. Content(w[n + 1]) = Content(z[n + 1])
    BY <1>6, <1>8, <2>1, ResizeContent
  <2>4. Carries(Waiting, w, n)
    BY <1>6, <1>8, <2>2 DEF Carries
  <2> QED BY <1>2, <1>8, <2>2, <2>3, <2>4 DEF right
<1>9. /\ Waiting' \in Seq(Tokens) /\ Len(Waiting') = n + 1
      /\ Carries(Waiting, Waiting', n)
      /\ Content(Waiting'[n + 1]) = t
  <2>1. CASE ScanBegin
    <3>1. Waiting' = Resize(y, n + 1, -Right) /\ t.class # "tokenstring"
      BY <1>4, <2>1, ScanBeginTokens, ClassRoles DEF y, t
    <3>2. Carries(Waiting, y, n)
      BY <1>5 DEF Carries
    <3> QED BY <1>5, <1>8, <3>1, <3>2
  <2>2. CASE ScanBreak
    <3>1. t.class # "tokenstring"
      BY <2>2, ScanBreakTokens DEF t
    <3>2. PICK z : SettlesBreak(y, z) /\ Waiting' = Resize(z, n + 1, -Right)
      BY <1>4, <2>2, ScanBreakTokens DEF y, t
    <3> QED BY <1>7, <1>8, <3>1, <3>2
  <2>3. CASE ScanEnd
    <3>1. PICK z : SettlesBreak(y, z) /\ SettlesLast(z, Waiting')
      BY <2>3, ScanEndTokens DEF y, t
    <3>2. /\ z \in Seq(Tokens) /\ Len(z) = n + 1
          /\ Carries(Waiting, z, n) /\ z[n + 1] = t
          /\ Sizeless(z, rightotal)
      BY <1>7, <3>1
    <3>3. /\ Waiting' \in Seq(Tokens) /\ Len(Waiting') = Len(z)
          /\ Carries(z, Waiting', Len(z))
          /\ \A i \in 1 .. Len(z) : z[i].size >= 0 => Waiting'[i] = z[i]
      BY <1>3, <3>1, <3>2, SettlesCarries
    <3>4. Carries(Waiting, Waiting', n)
      BY <1>6, <3>2, <3>3 DEF Carries
    <3>5. Waiting'[n + 1] = t
      BY <1>2, <1>6, <3>2, <3>3
    <3> QED BY <1>2, <3>2, <3>3, <3>4, <3>5
  <2>4. CASE ScanQuiet \/ ScanString
    <3>1. Waiting' = y
      BY <2>4, ScanOtherTokens DEF y, t
    <3>2. Carries(Waiting, y, n)
      BY <1>5 DEF Carries
    <3> QED BY <1>2, <1>5, <3>1, <3>2
  <2> QED BY <2>1, <2>2, <2>3, <2>4 DEF Scan
<1> QED BY <1>2, <1>3, <1>4, <1>9 DEF t

(* Each step, for the stream.                                              *)
LEMMA ScanAccepts == IInv /\ QInv /\ Scan /\ QInv' => Stream!Accept
<1> SUFFICES ASSUME IInv, QInv, Scan, QInv' PROVE Stream!Accept
  OBVIOUS
<1> DEFINE t == Head(todo)
           pending == [i \in 1 .. Held(tokqueue) |->
                         [content |-> Content(Elements(tokqueue)[i]),
                          settled |-> Elements(tokqueue)[i].size >= 0]]
<1>1. pending = Seen(Waiting)
  BY SeenWaiting
<1>2. pending' = Seen(Waiting')
  <2>1. Held(tokqueue)' = Len(Waiting')
    BY CoupledTells DEF QInv, QueuesHold
  <2> QED BY <2>1 DEF Seen, Waiting
<1>3. /\ t \in AllContents
      /\ Waiting \in Seq(Tokens) /\ Waiting' \in Seq(Tokens)
      /\ Len(Waiting') = Len(Waiting) + 1
      /\ Carries(Waiting, Waiting', Len(Waiting))
      /\ Content(Waiting'[Len(Waiting) + 1]) = t
  BY ScanSeen
<1>4. \E known \in BOOLEAN,
         S \in SUBSET {i \in DOMAIN Seen(Waiting) : ~Seen(Waiting)[i].settled} :
        Seen(Waiting') = Append([i \in DOMAIN Seen(Waiting) |->
                                   [Seen(Waiting)[i] EXCEPT !.settled = @ \/ i \in S]],
                                [content |-> t, settled |-> known])
  BY <1>3, SeenAppend
<1> HIDE DEF t, pending
<1>5. \E known \in BOOLEAN,
         S \in SUBSET {i \in DOMAIN pending : ~pending[i].settled} :
        pending' = Append([i \in DOMAIN pending |->
                             [pending[i] EXCEPT !.settled = @ \/ i \in S]],
                          [content |-> t, settled |-> known])
  BY <1>1, <1>2, <1>4
<1> QED BY <1>3, <1>5 DEF pending, Stream!Accept, Stream!Settled, Stream!Unsettled

LEMMA ForceSettles == IInv /\ QInv /\ ForceBreak => Stream!Settle
<1> SUFFICES ASSUME IInv, QInv, ForceBreak PROVE Stream!Settle
  OBVIOUS
<1> DEFINE pending == [i \in 1 .. Held(tokqueue) |->
                         [content |-> Content(Elements(tokqueue)[i]),
                          settled |-> Elements(tokqueue)[i].size >= 0]]
           open == {i \in DOMAIN pending : ~pending[i].settled}
<1>1. PICK i : FirstOpen(Waiting, i) /\ Waiting' = Resize(Waiting, i, HardBreak)
  BY ForceTokens
<1>2. QInv'
  BY ForceHolds
<1>3. pending = Seen(Waiting)
  BY SeenWaiting
<1>4. pending' = Seen(Waiting')
  <2>1. Held(tokqueue)' = Len(Waiting')
    BY <1>2, CoupledTells DEF QInv, QueuesHold
  <2> QED BY <2>1 DEF Seen, Waiting
<1>5. Waiting \in Seq(Tokens) /\ Sizeless(Waiting, rightotal)
  BY RightIs
<1>6. HardBreak \in Int /\ HardBreak >= 0
  BY Assumed
<1>7. i \in Unsized(Waiting) /\ \A j \in Unsized(Waiting) : i <= j
  BY <1>1 DEF FirstOpen
<1>8. i \in 1 .. Len(Waiting) /\ Waiting[i].class # "tokenstring"
  BY <1>7, ClassRoles DEF Sizeless, Unsized, QInv, QueuesHold
<1> DEFINE z == Resize(Waiting, i, HardBreak)
           K(j) == Waiting[j].size >= 0
           L(j) == z[j].size >= 0
<1>9. /\ z \in Seq(Tokens) /\ Len(z) = Len(Waiting)
      /\ \A j \in 1 .. Len(Waiting) : Content(z[j]) = Content(Waiting[j])
      /\ \A j \in 1 .. Len(Waiting) : L(j) <=> (K(j) \/ j \in {i})
  <2>1. /\ z \in Seq(Tokens) /\ Len(z) = Len(Waiting)
        /\ \A j \in 1 .. Len(Waiting) : Content(z[j]) = Content(Waiting[j])
    BY <1>5, <1>6, <1>8, ResizeTokens, ResizeContent
  <2>2. /\ \A j \in 1 .. Len(Waiting) : j # i => z[j] = Waiting[j]
        /\ z[i].size = HardBreak
    BY <1>5, <1>6, <1>8, ResizeTokens
  <2> HIDE DEF z
  <2>3. \A j \in 1 .. Len(Waiting) : L(j) <=> (K(j) \/ j \in {i})
    BY <1>6, <2>2
  <2> QED BY <2>1, <2>3 DEF z
<1>10. \A j \in 1 .. Len(Waiting) : ~K(j) <=> j \in Unsized(Waiting)
  <2>1. \A j \in 1 .. Len(Waiting) : Waiting[j] \in Tokens
    BY <1>5
  <2>2. \A j \in 1 .. Len(Waiting) : Waiting[j].size \in Int
    BY <2>1 DEF Tokens
  <2> QED BY <2>2 DEF Unsized
<1>11. Seen(Waiting) = [j \in 1 .. Len(Waiting) |->
                          [content |-> Content(Waiting[j]), settled |-> K(j)]]
  BY DEF Seen
<1>12. Seen(z) = [j \in 1 .. Len(Waiting) |-> [content |-> Content(z[j]), settled |-> L(j)]]
  BY <1>9 DEF Seen
<1>13. Waiting' = z
  BY <1>1
<1>20. \A j : K(j) \in BOOLEAN /\ L(j) \in BOOLEAN
  OBVIOUS
<1> HIDE DEF pending, z, K, L
<1>14. \A j \in 1 .. Len(Waiting) : pending[j].settled = K(j)
  BY <1>3, <1>11
<1>15. DOMAIN pending = 1 .. Len(Waiting)
  BY <1>3, <1>11
<1>16. open = Unsized(Waiting)
  <2>1. \A j \in Unsized(Waiting) : j \in 1 .. Len(Waiting)
    BY DEF Unsized
  <2> QED BY <1>10, <1>14, <1>15, <2>1
<1>17. pending' = [j \in DOMAIN pending |->
                     [pending[j] EXCEPT !.settled = @ \/ j \in {i}]]
  <2>1. ASSUME NEW j \in 1 .. Len(Waiting)
        PROVE  [pending[j] EXCEPT !.settled = @ \/ j \in {i}]
                 = [content |-> Content(z[j]), settled |-> L(j)]
    <3> DEFINE r == [content |-> Content(Waiting[j]), settled |-> K(j)]
    <3>1. pending[j] = r
      BY <1>3, <1>11
    <3>2. r.settled = K(j)
      OBVIOUS
    <3>3. [r EXCEPT !.settled = K(j) \/ j \in {i}]
            = [content |-> Content(Waiting[j]), settled |-> K(j) \/ j \in {i}]
      OBVIOUS
    <3>4. (K(j) \/ j \in {i}) <=> L(j)
      BY <1>9
    <3>5. Content(z[j]) = Content(Waiting[j])
      BY <1>9
    <3> HIDE DEF r
    <3>6. [pending[j] EXCEPT !.settled = @ \/ j \in {i}]
            = [r EXCEPT !.settled = K(j) \/ j \in {i}]
      BY <3>1, <3>2
    <3>7. (K(j) \/ j \in {i}) = L(j)
      BY <1>20, <3>4
    <3> QED BY <3>3, <3>5, <3>6, <3>7
  <2> QED BY <1>4, <1>12, <1>13, <1>15, <2>1
<1>18. \E j \in open : /\ \A k \in open : j <= k
                      /\ pending' = [q \in DOMAIN pending |->
                                       [pending[q] EXCEPT !.settled = @ \/ q \in {j}]]
  BY <1>7, <1>16, <1>17
<1> QED BY <1>18 DEF pending, Stream!Settle, Stream!Settled, Stream!Unsettled

LEMMA LetGoEmits ==
  ASSUME IInv, QInv, NEW C, LetGo(C)
  PROVE  Stream!Emit
<1> DEFINE pending == [i \in 1 .. Held(tokqueue) |->
                         [content |-> Content(Elements(tokqueue)[i]),
                          settled |-> Elements(tokqueue)[i].size >= 0]]
           E(i) == [content |-> Content(Waiting[i]), settled |-> Waiting[i].size >= 0]
<1>1. Waiting' = Tail(Waiting) /\ Len(Waiting) > 0 /\ Waiting[1].size >= 0
  BY LetGoTokens
<1>2. QInv' /\ Waiting \in Seq(Tokens)
  BY LetGoHolds, RightIs
<1>3. pending = Seen(Waiting)
  BY SeenWaiting
<1>4. pending' = Seen(Waiting')
  <2>1. Held(tokqueue)' = Len(Waiting')
    BY <1>2, CoupledTells DEF QInv, QueuesHold
  <2> QED BY <2>1 DEF Seen, Waiting
<1>5. PICK n \in Nat : Len(Waiting) = n + 1
  <2>1. Len(Waiting) - 1 \in Nat /\ Len(Waiting) = (Len(Waiting) - 1) + 1
    BY <1>1, <1>2
  <2> QED BY <2>1
<1>6. Seen(Waiting) = [i \in 1 .. n + 1 |-> E(i)]
  BY <1>5 DEF Seen
<1>7. Seen(Tail(Waiting)) = [i \in 1 .. n |-> E(i + 1)]
  <2>1. Len(Tail(Waiting)) = n /\ \A i \in 1 .. n : Tail(Waiting)[i] = Waiting[i + 1]
    BY <1>2, <1>5
  <2> QED BY <2>1 DEF Seen
<1>8. E(1).settled = (Waiting[1].size >= 0)
  OBVIOUS
<1> HIDE DEF pending, E
<1> DEFINE s == [i \in 1 .. n + 1 |-> E(i)]
           T == {E(i) : i \in 1 .. n + 1}
<1>9. s \in Seq(T) /\ Len(s) = n + 1 /\ s # <<>> /\ Head(s) = E(1)
  <2>1. s \in [1 .. n + 1 -> T]
    OBVIOUS
  <2>2. s \in Seq(T) /\ Len(s) = n + 1
    <3> HIDE DEF T, s
    <3> QED BY <2>1
  <2>3. s # <<>> /\ 1 \in 1 .. n + 1
    BY <2>2, EmptySequence
  <2>4. Head(s) = s[1] /\ s[1] = E(1)
    BY <2>2, <2>3
  <2> QED BY <2>2, <2>3, <2>4
<1>10. Tail(s) = [i \in 1 .. n |-> E(i + 1)]
  <2>1. Tail(s) = [i \in 1 .. n |-> s[i + 1]]
    <3> HIDE DEF T, s
    <3> DEFINE z == Tail(s)
    <3>1. z \in Seq(T) /\ Len(z) = n /\ \A i \in 1 .. n : z[i] = s[i + 1]
      BY <1>9
    <3> HIDE DEF z
    <3>2. z = [i \in 1 .. n |-> z[i]]
      BY <3>1
    <3> QED BY <3>1, <3>2 DEF z
  <2>2. \A i \in 1 .. n : s[i + 1] = E(i + 1)
    OBVIOUS
  <2> QED BY <2>1, <2>2
<1>11. pending # <<>> /\ Head(pending).settled /\ pending' = Tail(pending)
  <2>1. pending = s /\ pending' = Tail(s)
    BY <1>1, <1>3, <1>4, <1>6, <1>7, <1>10
  <2>2. Head(s).settled
    BY <1>1, <1>8, <1>9
  <2> HIDE DEF s
  <2> QED BY <1>9, <2>1, <2>2
<1> QED BY <1>11 DEF pending, Stream!Emit

LEMMA StepStreams ==
  ASSUME IInv, QInv, [Next]_vars
  PROVE  \/ Stream!Next
         \/ UNCHANGED [i \in 1 .. Held(tokqueue) |->
                         [content |-> Content(Elements(tokqueue)[i]),
                          settled |-> Elements(tokqueue)[i].size >= 0]]
<1> DEFINE pending == [i \in 1 .. Held(tokqueue) |->
                         [content |-> Content(Elements(tokqueue)[i]),
                          settled |-> Elements(tokqueue)[i].size >= 0]]
<1>1. CASE Scan
  BY <1>1, NextHolds, ScanAccepts DEF Stream!Next
<1>2. CASE ForceBreak
  BY <1>2, ForceSettles DEF Stream!Next
<1>3. CASE LetGoOne
  <2>1. \E C : LetGo(C)
    BY <1>3 DEF LetGoOne, PrintIgnore, PrintIndent, PrintBegin, PrintEnd,
                PrintString, OverflowString, PrintSpaces, PrintLineAt, PrintBreak
  <2> QED BY <2>1, LetGoEmits DEF Stream!Next
<1>4. CASE Clear
  <2>1. Waiting' = <<>> /\ QInv'
    BY <1>4, ClearHolds
  <2>2. Held(tokqueue)' = Len(Waiting')
    BY <2>1, CoupledTells DEF QInv, QueuesHold
  <2>3. Held(tokqueue)' = 0
    BY <2>1, <2>2, EmptySequence
  <2>4. pending' = <<>>
    BY <2>3
  <2> QED BY <2>4 DEF Stream!Next, Stream!Abandon
<1>5. ASSUME tokqueue' = tokqueue
      PROVE  UNCHANGED pending
  BY <1>5 DEF Held, Elements, Content
<1>6. ASSUME NEW tokens, NEW break, NEW open, Call(tokens, break, open)
      PROVE  tokqueue' = tokqueue
  BY <1>6 DEF Call, queues
<1>7. CASE \/ BeginFunction \/ OpenGroup \/ OpenParen \/ StartComment \/ StartIndent
           \/ CloseGroup \/ EndFunction \/ CloseParen \/ StopComment \/ StopIndent
           \/ Block \/ PrintText \/ Spaces \/ TagLine
  <2>1. tokqueue' = tokqueue
    BY <1>6, <1>7 DEF BeginFunction, OpenGroup, OpenParen, StartComment, StartIndent,
                      Open, CloseGroup, EndFunction, CloseParen, StopComment,
                      StopIndent, Close, Block, PrintText, Spaces, TagLine
  <2> QED BY <1>5, <2>1
<1>8. CASE \/ SetPendingPrint \/ CancelPendingPrint \/ ForceDone \/ AdvanceDone
           \/ ForcedDone \/ Flush \/ FlushDone \/ UNCHANGED vars
  <2>1. tokqueue' = tokqueue
    BY <1>8 DEF SetPendingPrint, CancelPendingPrint, ForceDone, AdvanceDone,
                ForcedDone, Flush, FlushDone, vars, queues
  <2> QED BY <1>5, <2>1
<1> QED BY <1>1, <1>2, <1>3, <1>4, <1>7, <1>8 DEF Next, PrintC, Printer

(* The printer lets its tokens go in the order scan took them in, each     *)
(* once, none before its layout and that of all the tokens before it is    *)
(* known, and with nothing but its layout changed: TokenStream, whatever   *)
(* the queues, the texts and the nesting.                                  *)
THEOREM PrintsInOrder == Spec => InOrder
<1>1. Init => Stream!Init
  <2> SUFFICES ASSUME Init PROVE Stream!Init
    OBVIOUS
  <2>1. QInv /\ Waiting = <<>>
    <3>1. QInv
      BY InitHolds
    <3>2. Coupled(<<tokqueue, scanqueue>>, <<>>)
      BY Assumed, EmptiedCoupled DEF Init
    <3> QED BY <3>1, <3>2, CoupledTells DEF Waiting
  <2>2. Held(tokqueue) = 0
    BY <2>1, CoupledTells, EmptySequence DEF QInv, QueuesHold
  <2> QED BY <2>2 DEF Stream!Init
<1>2. (IInv /\ QInv) /\ [Next]_vars
        => [Stream!Next]_[i \in 1 .. Held(tokqueue) |->
                            [content |-> Content(Elements(tokqueue)[i]),
                             settled |-> Elements(tokqueue)[i].size >= 0]]
  BY StepStreams
<1> QED BY <1>1, <1>2, SpecQInv, PTL DEF Spec, InOrder, Stream!Spec
-----------------------------------------------------------------------------
(* The delimiters that are open, as the tokens open and close them: one    *)
(* token leads from the nesting before it to the one after it.             *)
KindsOf(c) ==
  IF c \in {"begin_comment", "end_comment"} THEN {"comment"}
  ELSE IF c \in {"begin_indent", "end_indent"} THEN {"indent"}
  ELSE {"function", "group"}

Pushes == Begins \cup {"begin_indent"}
Pops == Ends \cup {"end_indent"}

NestStep(c, a, b) ==
  /\ c \in Pushes => \E k \in KindsOf(c) : b = Append(a, k)
  /\ c \in Pops => \E k \in KindsOf(c) : a = Append(b, k)
  /\ c \notin Pushes \cup Pops => b = a

Levels(s, lv, a, b) ==
  /\ lv[0] = a /\ lv[Len(s)] = b
  /\ \A j \in 1 .. Len(s) : NestStep(s[j].class, lv[j - 1], lv[j])

Nests(s, a, b) == \E lv \in [0 .. Len(s) -> Seq(Kinds)] : Levels(s, lv, a, b)

LEMMA NestsNil ==
  ASSUME NEW a \in Seq(Kinds)
  PROVE  Nests(<<>>, a, a)
<1> DEFINE lv == [i \in 0 .. 0 |-> a]
<1>1. Len(<<>>) = 0 /\ 1 .. 0 = {}
  BY EmptySequence
<1>2. lv \in [0 .. 0 -> Seq(Kinds)] /\ lv[0] = a
  OBVIOUS
<1> HIDE DEF lv
<1> QED BY <1>1, <1>2 DEF Nests, Levels

LEMMA NestsNone ==
  ASSUME NEW s, Len(s) = 0, NEW a, NEW b, Nests(s, a, b)
  PROVE  a = b
BY DEF Nests, Levels

(* The same classes, the same nesting.                                     *)
LEMMA NestsAs ==
  ASSUME NEW s, NEW z, Len(z) = Len(s),
         \A j \in 1 .. Len(s) : z[j].class = s[j].class,
         NEW a, NEW b, Nests(s, a, b)
  PROVE  Nests(z, a, b)
<1>1. PICK lv \in [0 .. Len(s) -> Seq(Kinds)] : Levels(s, lv, a, b)
  BY DEF Nests
<1>2. Levels(z, lv, a, b)
  BY <1>1 DEF Levels
<1> QED BY <1>1, <1>2 DEF Nests

(* One token more, or less, on the right.                                  *)
LEMMA NestsMore ==
  ASSUME NEW s, NEW n \in Nat, Len(s) = n, NEW z, Len(z) = n + 1,
         \A j \in 1 .. n : z[j].class = s[j].class,
         NEW a, NEW b, NEW c \in Seq(Kinds), Nests(s, a, b),
         NestStep(z[n + 1].class, b, c)
  PROVE  Nests(z, a, c)
<1>1. PICK lv \in [0 .. n -> Seq(Kinds)] : Levels(s, lv, a, b)
  BY DEF Nests
<1> DEFINE mv == [i \in 0 .. n + 1 |-> IF i = n + 1 THEN c ELSE lv[i]]
<1>2. mv \in [0 .. n + 1 -> Seq(Kinds)]
  OBVIOUS
<1>3. mv[0] = a /\ mv[n + 1] = c /\ mv[n] = b
      /\ \A i \in 0 .. n : mv[i] = lv[i]
  BY <1>1 DEF Levels
<1> HIDE DEF mv
<1>4. ASSUME NEW j \in 1 .. n + 1
      PROVE  NestStep(z[j].class, mv[j - 1], mv[j])
  <2>1. CASE j = n + 1
    <3>1. j - 1 = n
      BY <2>1
    <3> QED BY <1>3, <2>1, <3>1
  <2>2. CASE j # n + 1
    <3>1. j \in 1 .. n /\ j \in 0 .. n /\ j - 1 \in 0 .. n
      BY <2>2
    <3>2. NestStep(s[j].class, lv[j - 1], lv[j])
      BY <1>1, <3>1 DEF Levels
    <3>3. mv[j] = lv[j] /\ mv[j - 1] = lv[j - 1] /\ z[j].class = s[j].class
      BY <1>3, <3>1
    <3> QED BY <3>2, <3>3
  <2> QED BY <2>1, <2>2
<1> QED BY <1>2, <1>3, <1>4 DEF Nests, Levels

(* The first token, and the others.                                        *)
LEMMA NestsHead ==
  ASSUME NEW s \in Seq(Tokens), Len(s) > 0, NEW a, NEW b, Nests(s, a, b)
  PROVE  /\ a \in Seq(Kinds) /\ b \in Seq(Kinds)
         /\ \E c \in Seq(Kinds) :
              NestStep(s[1].class, a, c) /\ Nests(Tail(s), c, b)
<1>1. PICK n \in Nat : Len(s) = n + 1
  <2>1. Len(s) - 1 \in Nat /\ Len(s) = (Len(s) - 1) + 1
    OBVIOUS
  <2> QED BY <2>1
<1>2. PICK lv \in [0 .. n + 1 -> Seq(Kinds)] : Levels(s, lv, a, b)
  BY <1>1 DEF Nests
<1>3. Len(Tail(s)) = n /\ \A j \in 1 .. n : Tail(s)[j] = s[j + 1]
  BY <1>1
<1> DEFINE mv == [i \in 0 .. n |-> lv[i + 1]]
<1>4. mv \in [0 .. n -> Seq(Kinds)]
  OBVIOUS
<1>5. \A i \in 0 .. n : mv[i] = lv[i + 1]
  OBVIOUS
<1> HIDE DEF mv
<1>6. mv[0] = lv[1] /\ mv[n] = b /\ lv[1] \in Seq(Kinds)
      /\ a \in Seq(Kinds) /\ b \in Seq(Kinds)
  <2>1. 0 \in 0 .. n /\ 0 + 1 = 1 /\ n \in 0 .. n /\ 1 \in 0 .. n + 1
        /\ 0 \in 0 .. n + 1 /\ n + 1 \in 0 .. n + 1
    OBVIOUS
  <2> QED BY <1>1, <1>2, <1>5, <2>1 DEF Levels
<1>7. ASSUME NEW j \in 1 .. n
      PROVE  NestStep(Tail(s)[j].class, mv[j - 1], mv[j])
  <2>1. j + 1 \in 1 .. n + 1 /\ (j + 1) - 1 = j /\ j - 1 \in 0 .. n /\ j \in 0 .. n
        /\ (j - 1) + 1 = j
    OBVIOUS
  <2>2. NestStep(s[j + 1].class, lv[j], lv[j + 1])
    BY <1>1, <1>2, <2>1 DEF Levels
  <2> QED BY <1>3, <1>5, <2>1, <2>2
<1>8. NestStep(s[1].class, a, lv[1])
  <2>1. 1 \in 1 .. n + 1 /\ 1 - 1 = 0
    OBVIOUS
  <2> QED BY <1>1, <1>2, <2>1 DEF Levels
<1>9. Nests(Tail(s), lv[1], b)
  BY <1>3, <1>4, <1>6, <1>7 DEF Nests, Levels
<1> QED BY <1>6, <1>8, <1>9

(* A token put before the others.                                          *)
LEMMA NestsCons ==
  ASSUME NEW s \in Seq(Tokens), NEW t \in Tokens, NEW a \in Seq(Kinds), NEW c, NEW b,
         NestStep(t.class, a, c), Nests(s, c, b)
  PROVE  Nests(<<t>> \o s, a, b)
<1> DEFINE z == <<t>> \o s
<1>1. z[1] = t /\ z \in Seq(Tokens)
  BY Consed
<1>2. \E n \in Nat : /\ Len(s) = n /\ DOMAIN s = 1 .. n
                     /\ Len(z) = n + 1 /\ DOMAIN z = 1 .. n + 1
                     /\ \A k \in 1 .. n : z[k + 1] = s[k]
  BY Consed
<1> HIDE DEF z
<1>3. PICK n \in Nat : /\ Len(s) = n /\ Len(z) = n + 1
                       /\ \A k \in 1 .. n : z[k + 1] = s[k]
  BY <1>2
<1>4. PICK lv \in [0 .. n -> Seq(Kinds)] : Levels(s, lv, c, b)
  BY <1>3 DEF Nests
<1> DEFINE mv == [i \in 0 .. n + 1 |-> IF i = 0 THEN a ELSE lv[i - 1]]
<1>5. mv \in [0 .. n + 1 -> Seq(Kinds)]
  OBVIOUS
<1>6. mv[0] = a /\ \A i \in 1 .. n + 1 : mv[i] = lv[i - 1]
  OBVIOUS
<1> HIDE DEF mv
<1>7. mv[n + 1] = b
  <2>1. n + 1 \in 1 .. n + 1 /\ (n + 1) - 1 = n
    OBVIOUS
  <2> QED BY <1>3, <1>4, <1>6, <2>1 DEF Levels
<1>8. ASSUME NEW j \in 1 .. n + 1
      PROVE  NestStep(z[j].class, mv[j - 1], mv[j])
  <2>1. CASE j = 1
    <3>1. mv[1] = lv[0] /\ lv[0] = c
      <4>1. 1 \in 1 .. n + 1 /\ 1 - 1 = 0
        OBVIOUS
      <4> QED BY <1>4, <1>6, <4>1 DEF Levels
    <3>2. j - 1 = 0
      BY <2>1
    <3> QED BY <1>1, <1>6, <2>1, <3>1, <3>2
  <2>2. CASE j # 1
    <3> DEFINE k == j - 1
    <3>1. k \in 1 .. n /\ j = k + 1 /\ k \in 1 .. n + 1 /\ k + 1 \in 1 .. n + 1
          /\ (k + 1) - 1 = k
      BY <2>2
    <3> HIDE DEF k
    <3>2. NestStep(s[k].class, lv[k - 1], lv[k])
      BY <1>3, <1>4, <3>1 DEF Levels
    <3>3. z[k + 1] = s[k] /\ mv[k] = lv[k - 1] /\ mv[k + 1] = lv[k]
      BY <1>3, <1>6, <3>1
    <3> QED BY <3>1, <3>2, <3>3
  <2> QED BY <2>1, <2>2
<1>9. Levels(z, mv, a, b)
  BY <1>3, <1>6, <1>7, <1>8 DEF Levels
<1> QED BY <1>3, <1>5, <1>9 DEF Nests, z

(* The invariant.  What has been printed leaves some delimiters open, as   *)
(* many as indentstack is deep, a comment among them in comment mode; the  *)
(* tokens that wait, and then those the call has yet to queue, lead from   *)
(* there to what PrintC has open.                                          *)
NestedFrom(bottom, mid) ==
  /\ Nests(Waiting, bottom, mid)
  /\ Nests(todo, mid, nesting)
  /\ Len(bottom) = Len(indentstack)
  /\ commentmode => \E i \in 1 .. Len(bottom) : bottom[i] = "comment"

NestInv == \E bottom, mid \in Seq(Kinds) : NestedFrom(bottom, mid)

(* The calls of PrintC.                                                    *)
LEMMA NestsOne ==
  ASSUME NEW t \in Tokens, NEW a \in Seq(Kinds), NEW b \in Seq(Kinds),
         NestStep(t.class, a, b)
  PROVE  Nests(<<t>>, a, b)
<1>1. Nests(<<>>, b, b)
  BY NestsNil
<1>2. Nests(<<t>> \o <<>>, a, b)
  <2>1. <<>> \in Seq(Tokens)
    OBVIOUS
  <2> QED BY <1>1, <2>1, NestsCons
<1>3. <<t>> \o <<>> = <<t>>
  BY ConcatEmptySeq
<1> QED BY <1>2, <1>3

LEMMA NestRoles ==
  /\ \A c \in {"tokenstring", "tokenbreak", "ignore"} : c \notin Pushes \cup Pops
  /\ \A c \in Begins \cup {"begin_indent"} : c \in Pushes /\ c \notin Pops
  /\ \A c \in Ends \cup {"end_indent"} : c \in Pops /\ c \notin Pushes
  /\ \A c : KindsOf(c) \subseteq Kinds
BY DEF Pushes, Pops, Begins, Ends, KindsOf, Kinds

LEMMA NestSteps ==
  /\ \A c, a : c \in {"tokenstring", "tokenbreak", "ignore"} => NestStep(c, a, a)
  /\ \A c, a, k : c \in Pushes /\ k \in KindsOf(c) => NestStep(c, a, Append(a, k))
  /\ \A c, a, k : c \in Pops /\ k \in KindsOf(c) => NestStep(c, Append(a, k), a)
<1>1. \A c : c \in Pushes => c \notin Pops
  BY DEF Pushes, Pops, Begins, Ends
<1>2. ASSUME NEW c, NEW a, c \in {"tokenstring", "tokenbreak", "ignore"}
      PROVE  NestStep(c, a, a)
  BY <1>2, NestRoles DEF NestStep
<1>3. ASSUME NEW c, NEW a, NEW k, c \in Pushes, k \in KindsOf(c)
      PROVE  NestStep(c, a, Append(a, k))
  BY <1>1, <1>3 DEF NestStep
<1>4. ASSUME NEW c, NEW a, NEW k, c \in Pops, k \in KindsOf(c)
      PROVE  NestStep(c, Append(a, k), a)
  BY <1>1, <1>4 DEF NestStep
<1> QED BY <1>2, <1>3, <1>4

LEMMA NestsSeparated ==
  ASSUME NEW s \in Seq(Tokens), NEW a \in Seq(Kinds), NEW b, Nests(s, a, b)
  PROVE  Nests(Separator \o s, a, b) /\ Nests(Filler \o s, a, b)
<1>1. \A t \in AllContents : t.class \in {"tokenstring", "tokenbreak"} =>
        t \in Tokens /\ Nests(<<t>> \o s, a, b)
  BY ContentsAreTokens, NestsCons, NestSteps
<1>2. <<>> \o s = s
  BY ConcatEmptySeq
<1>3. /\ Space(0, 0) \in AllContents /\ Space(0, 0).class = "tokenbreak"
      /\ String(0) \in AllContents /\ String(0).class = "tokenstring"
  BY ContentKinds
<1>4. Nests(<<Space(0, 0)>> \o s, a, b) /\ Nests(<<String(0)>> \o s, a, b)
  BY <1>1, <1>3
<1>5. Nests(Separator \o s, a, b)
  BY <1>2, <1>4 DEF Separator
<1>6. Nests(Filler \o s, a, b)
  BY <1>2, <1>4 DEF Filler
<1> QED BY <1>5, <1>6

(* A call in progress: its tokens lead from what was open to what is now.  *)
CallLeads ==
  /\ todo = <<>>
  /\ UNCHANGED <<queues, layout>>
  /\ Nests(todo', nesting, nesting')

LEMMA CallNests ==
  ASSUME NEW tokens, NEW break, NEW open,
         Call(tokens, break, open), Nests(tokens, nesting, open)
  PROVE  CallLeads
BY DEF Call, Ready, CallLeads

LEMMA CallLeadsNests ==
  ASSUME IInv, QInv, NestInv, CallLeads
  PROVE  NestInv'
<1>1. /\ todo = <<>> /\ tokqueue' = tokqueue /\ scanqueue' = scanqueue
      /\ rightotal' = rightotal
      /\ indentstack' = indentstack /\ commentmode' = commentmode
      /\ Nests(todo', nesting, nesting')
  BY DEF CallLeads, queues, layout
<1>2. PICK bottom \in Seq(Kinds), mid \in Seq(Kinds) : NestedFrom(bottom, mid)
  BY DEF NestInv
<1>3. Waiting' = Waiting
  BY <1>1, WaitingSame
<1>4. mid = nesting
  BY <1>1, <1>2, NestsNone, EmptySequence DEF NestedFrom
<1>5. NestedFrom(bottom, mid)'
  BY <1>1, <1>2, <1>3, <1>4 DEF NestedFrom
<1> QED BY <1>5 DEF NestInv

LEMMA OpenedClosed ==
  ASSUME IInv
  PROVE  /\ nesting \in Seq(Kinds)
         /\ \A k \in Kinds : Append(nesting, k) \in Seq(Kinds)
         /\ nesting # <<>> =>
              Closed \in Seq(Kinds) /\ nesting = Append(Closed, Innermost)
<1>1. nesting \in Seq(Kinds)
  BY DEF IInv, CallsOK
<1>2. ASSUME nesting # <<>>
      PROVE  Closed \in Seq(Kinds) /\ nesting = Append(Closed, Innermost)
  <2>1. Len(nesting) \in Nat \ {0}
    BY <1>1, <1>2, EmptySeq
  <2> QED BY <1>1, <2>1 DEF Closed, Innermost
<1> QED BY <1>1, <1>2

LEMMA OpeningsNest ==
  ASSUME IInv, QInv,
         \/ BeginFunction \/ OpenGroup \/ OpenParen \/ StartComment \/ StartIndent
  PROVE  CallLeads
<1>1. nesting \in Seq(Kinds)
      /\ \A k \in Kinds : Append(nesting, k) \in Seq(Kinds)
  BY OpenedClosed
<1>2. ASSUME NEW t \in AllContents, t.class \in Pushes, NEW k \in KindsOf(t.class)
      PROVE  Nests(<<t>>, nesting, Append(nesting, k))
  <2>1. t \in Tokens /\ k \in Kinds
    BY <1>2, ContentsAreTokens, NestRoles
  <2>2. NestStep(t.class, nesting, Append(nesting, k))
    BY <1>2, NestSteps
  <2>3. Append(nesting, k) \in Seq(Kinds)
    BY <1>1, <2>1
  <2> QED BY <1>1, <2>1, <2>2, <2>3, NestsOne
<1>3. \A c \in Begins : Delimiter(c) \in AllContents /\ Delimiter(c).class = c
                        /\ c \in Pushes /\ <<Delimiter(c)>> \in Seq(Tokens)
  <2>1. \A c \in Begins : Delimiter(c) \in AllContents /\ Delimiter(c).class = c
    BY ContentKinds
  <2> QED BY <2>1, ContentsAreTokens, NestRoles
<1>4. ASSUME NEW c \in Begins, NEW kind \in KindsOf(c),
             Call(Separator \o <<Delimiter(c)>>, FALSE, Append(nesting, kind))
      PROVE  CallLeads
  <2>1. Nests(<<Delimiter(c)>>, nesting, Append(nesting, kind))
    BY <1>2, <1>3
  <2>2. Nests(Separator \o <<Delimiter(c)>>, nesting, Append(nesting, kind))
    BY <1>1, <1>3, <2>1, NestsSeparated
  <2> QED BY <1>4, <2>2, CallNests
<1>5. /\ "function" \in KindsOf("begin") /\ "group" \in KindsOf("begin")
      /\ "comment" \in KindsOf("begin_comment") /\ "indent" \in KindsOf("begin_indent")
      /\ "begin" \in Begins /\ "begin_comment" \in Begins
  BY DEF KindsOf, Begins
<1>6. ASSUME BeginFunction \/ OpenGroup \/ StartComment PROVE CallLeads
  BY <1>4, <1>5, <1>6 DEF BeginFunction, OpenGroup, StartComment, Open
<1>7. ASSUME OpenParen PROVE CallLeads
  <2> DEFINE a == Delimiter("begin")
             b == String(1)
             open == Append(nesting, "group")
  <2>1. Call(Separator \o <<a, b>>, TRUE, open)
    BY <1>7 DEF OpenParen
  <2>2. /\ a \in AllContents /\ a.class = "begin"
        /\ b \in AllContents /\ b.class = "tokenstring"
    BY <1>3, <1>5, ContentKinds
  <2>3. open \in Seq(Kinds) /\ NestStep("begin", nesting, open)
        /\ NestStep("tokenstring", open, open)
    BY <1>1, <1>3, <1>5, NestSteps DEF Kinds
  <2>4. <<a, b>> = <<a>> \o <<b>>
    OBVIOUS
  <2> HIDE DEF a, b, open
  <2>5. a \in Tokens /\ b \in Tokens
    BY <2>2, ContentsAreTokens
  <2>6. Nests(<<b>>, open, open)
    BY <2>2, <2>3, <2>5, NestsOne
  <2>7. <<b>> \in Seq(Tokens) /\ <<a, b>> \in Seq(Tokens)
    BY <2>5
  <2>8. Nests(<<a>> \o <<b>>, nesting, open)
    BY <1>1, <2>2, <2>3, <2>5, <2>6, <2>7, NestsCons
  <2>9. Nests(Separator \o <<a, b>>, nesting, open)
    BY <1>1, <2>4, <2>7, <2>8, NestsSeparated
  <2> QED BY <2>1, <2>9, CallNests
<1>8. ASSUME StartIndent PROVE CallLeads
  <2>1. Call(<<Indent>>, needbreak, Append(nesting, "indent"))
    BY <1>8 DEF StartIndent
  <2>2. Indent \in AllContents /\ Indent.class = "begin_indent"
    BY ContentKinds
  <2>3. Nests(<<Indent>>, nesting, Append(nesting, "indent"))
    BY <1>2, <1>5, <2>2, NestRoles
  <2> QED BY <2>1, <2>3, CallNests
<1> QED BY <1>6, <1>7, <1>8

LEMMA ClosingsNest ==
  ASSUME IInv, QInv,
         \/ CloseGroup \/ EndFunction \/ CloseParen \/ StopComment \/ StopIndent
  PROVE  CallLeads
<1>1. nesting # <<>>
  BY DEF CloseGroup, EndFunction, CloseParen, StopComment, StopIndent, Close, InCode
<1>2. nesting \in Seq(Kinds) /\ Closed \in Seq(Kinds)
      /\ nesting = Append(Closed, Innermost)
  BY <1>1, OpenedClosed
<1>3. ASSUME NEW t \in AllContents, t.class \in Pops, Innermost \in KindsOf(t.class)
      PROVE  Nests(<<t>>, nesting, Closed)
  <2>1. t \in Tokens
    BY ContentsAreTokens
  <2>2. NestStep(t.class, nesting, Closed)
    BY <1>2, <1>3, NestSteps
  <2> QED BY <1>2, <2>1, <2>2, NestsOne
<1>4. \A c \in Ends \cup {"end_indent"} :
        Delimiter(c) \in AllContents /\ Delimiter(c).class = c
        /\ c \in Pops /\ <<Delimiter(c)>> \in Seq(Tokens)
  <2>1. \A c \in Ends \cup {"end_indent"} :
          Delimiter(c) \in AllContents /\ Delimiter(c).class = c
    BY ContentKinds
  <2> QED BY <2>1, ContentsAreTokens, NestRoles
<1>5. ASSUME NEW c \in Ends, Innermost \in KindsOf(c),
             Call(Filler \o <<Delimiter(c)>>, TRUE, Closed)
      PROVE  CallLeads
  <2>1. Nests(<<Delimiter(c)>>, nesting, Closed)
    BY <1>3, <1>4, <1>5
  <2>2. Nests(Filler \o <<Delimiter(c)>>, nesting, Closed)
    BY <1>2, <1>4, <2>1, NestsSeparated
  <2> QED BY <1>5, <2>2, CallNests
<1>6. /\ "function" \in KindsOf("end") /\ "group" \in KindsOf("end")
      /\ "comment" \in KindsOf("end_comment") /\ "indent" \in KindsOf("end_indent")
      /\ "end" \in Ends /\ "end_comment" \in Ends
  BY DEF KindsOf, Ends
<1>7. ASSUME CloseGroup \/ EndFunction \/ StopComment PROVE CallLeads
  BY <1>5, <1>6, <1>7 DEF CloseGroup, EndFunction, StopComment, Close
<1>8. ASSUME CloseParen PROVE CallLeads
  <2> DEFINE a == String(1)
             b == Delimiter("end")
  <2>1. Call(Separator \o <<a, b>>, TRUE, Closed) /\ Innermost = "group"
    BY <1>8 DEF CloseParen
  <2>2. /\ a \in AllContents /\ a.class = "tokenstring"
        /\ b \in AllContents /\ b.class = "end"
    BY <1>4, <1>6, ContentKinds
  <2>3. NestStep("tokenstring", nesting, nesting)
    BY NestSteps
  <2>4. <<a, b>> = <<a>> \o <<b>>
    OBVIOUS
  <2> HIDE DEF a, b
  <2>5. a \in Tokens /\ b \in Tokens
    BY <2>2, ContentsAreTokens
  <2>6. Nests(<<b>>, nesting, Closed)
    BY <1>3, <1>4, <1>6, <2>1, <2>2
  <2>7. <<b>> \in Seq(Tokens) /\ <<a, b>> \in Seq(Tokens)
    BY <2>5
  <2>8. Nests(<<a>> \o <<b>>, nesting, Closed)
    BY <1>2, <2>2, <2>3, <2>5, <2>6, <2>7, NestsCons
  <2>9. Nests(Separator \o <<a, b>>, nesting, Closed)
    BY <1>2, <2>4, <2>7, <2>8, NestsSeparated
  <2> QED BY <2>1, <2>9, CallNests
<1>9. ASSUME StopIndent PROVE CallLeads
  <2>1. Call(<<Delimiter("end_indent")>>, needbreak, Closed) /\ Innermost = "indent"
    BY <1>9 DEF StopIndent
  <2>2. Nests(<<Delimiter("end_indent")>>, nesting, Closed)
    BY <1>3, <1>4, <1>6, <2>1
  <2> QED BY <2>1, <2>2, CallNests
<1> QED BY <1>7, <1>8, <1>9

LEMMA TextsNest ==
  ASSUME IInv, QInv, Block \/ PrintText \/ Spaces \/ TagLine
  PROVE  CallLeads
<1>1. nesting \in Seq(Kinds)
  BY OpenedClosed
<1>2. ASSUME NEW t \in AllContents, t.class \in {"tokenstring", "tokenbreak", "ignore"},
             NEW a \in Seq(Kinds)
      PROVE  <<t>> \in Seq(Tokens) /\ Nests(<<t>>, a, a)
             /\ Nests(Separator \o <<t>>, a, a) /\ Nests(Filler \o <<t>>, a, a)
  <2>1. t \in Tokens
    BY ContentsAreTokens
  <2>2. Nests(<<t>>, a, a)
    BY <1>2, <2>1, NestsOne, NestSteps
  <2>3. <<t>> \in Seq(Tokens)
    BY <2>1
  <2> QED BY <2>2, <2>3, NestsSeparated
<1>3. ASSUME Block PROVE CallLeads
  <2>1. Call(<<Delimiter("ignore")>>, needbreak, nesting)
    BY <1>3 DEF Block
  <2>2. Delimiter("ignore") \in AllContents /\ Delimiter("ignore").class = "ignore"
    BY ContentKinds
  <2>3. Nests(<<Delimiter("ignore")>>, nesting, nesting)
    BY <1>1, <1>2, <2>2
  <2> QED BY <2>1, <2>3, CallNests
<1>4. ASSUME PrintText PROVE CallLeads
  <2>1. PICK n \in Texts : Call(Separator \o <<String(n)>>, TRUE, nesting)
    BY <1>4 DEF PrintText
  <2>2. String(n) \in AllContents /\ String(n).class = "tokenstring"
    BY ContentKinds
  <2>3. Nests(Separator \o <<String(n)>>, nesting, nesting)
    BY <1>1, <1>2, <2>2
  <2> QED BY <2>1, <2>3, CallNests
<1>5. ASSUME Spaces PROVE CallLeads
  <2>1. PICK num \in Gaps, bump \in Bumps :
          Call(Filler \o <<Space(num, bump)>>, FALSE, nesting)
    BY <1>5 DEF Spaces
  <2>2. Space(num, bump) \in AllContents /\ Space(num, bump).class = "tokenbreak"
    BY ContentKinds
  <2>3. Nests(Filler \o <<Space(num, bump)>>, nesting, nesting)
    BY <1>1, <1>2, <2>2
  <2> QED BY <2>1, <2>3, CallNests
<1>6. ASSUME TagLine PROVE CallLeads
  <2>1. PICK line \in {Line} \cup {LineAt(i) : i \in Margins} :
          IF pendPrint
          THEN Call(OpenBrace \o <<line>>, FALSE, Append(nesting, "indent"))
          ELSE Call(Filler \o <<line>>, FALSE, nesting)
    BY <1>6 DEF TagLine
  <2>2. line \in AllContents /\ line.class = "tokenbreak" /\ line \in Tokens
    BY <2>1, ContentKinds, ContentsAreTokens
  <2>3. CASE ~pendPrint
    <3>1. Nests(Filler \o <<line>>, nesting, nesting)
      BY <1>1, <1>2, <2>2
    <3> QED BY <2>1, <2>3, <3>1, CallNests
  <2>4. CASE pendPrint
    <3> DEFINE a == Space(1, 0)
               b == Indent
               c == String(1)
               open == Append(nesting, "indent")
               s == <<a>> \o (<<b>> \o (<<c>> \o <<line>>))
    <3>1. Call(OpenBrace \o <<line>>, FALSE, open)
      BY <2>1, <2>4
    <3>2. open \in Seq(Kinds) /\ NestStep("begin_indent", nesting, open)
          /\ NestStep("tokenbreak", nesting, nesting)
          /\ NestStep("tokenstring", open, open)
      BY OpenedClosed, NestRoles, NestSteps DEF Kinds, KindsOf
    <3>3. /\ a \in AllContents /\ a.class = "tokenbreak"
          /\ b \in AllContents /\ b.class = "begin_indent"
          /\ c \in AllContents /\ c.class = "tokenstring"
      BY ContentKinds
    <3>4. OpenBrace = Filler \o <<a, b, c>>
      BY DEF OpenBrace
    <3> HIDE DEF a, b, c, open
    <3>5. a \in Tokens /\ b \in Tokens /\ c \in Tokens
      BY <3>3, ContentsAreTokens
    <3>6. <<line>> \in Seq(Tokens) /\ Nests(<<line>>, open, open)
      BY <1>2, <2>2, <3>2
    <3>7. <<c>> \o <<line>> \in Seq(Tokens) /\ Nests(<<c>> \o <<line>>, open, open)
      BY <3>2, <3>3, <3>5, <3>6, NestsCons, Consed
    <3>8. /\ <<b>> \o (<<c>> \o <<line>>) \in Seq(Tokens)
          /\ Nests(<<b>> \o (<<c>> \o <<line>>), nesting, open)
      BY <1>1, <3>2, <3>3, <3>5, <3>7, NestsCons, Consed
    <3>9. s \in Seq(Tokens) /\ Nests(s, nesting, open)
      BY <1>1, <3>2, <3>3, <3>5, <3>8, NestsCons, Consed
    <3>10. Nests(Filler \o s, nesting, open)
      BY <1>1, <3>9, NestsSeparated
    <3>11. OpenBrace \o <<line>> = Filler \o s
      <4>1. (Filler \o <<a, b, c>>) \o <<line>> = Filler \o s
        BY <2>2, <3>5, BracedLine
      <4> QED BY <3>4, <4>1
    <3> QED BY <3>1, <3>10, <3>11, CallNests
  <2> QED BY <2>3, <2>4
<1> QED BY <1>3, <1>4, <1>5, <1>6

(* A token moves from the call to the queue, where only sizes change.      *)
LEMMA ContentClass == \A t : Content(t).class = t.class
BY DEF Content, Token

LEMMA ScanNests ==
  ASSUME IInv, QInv, NestInv, Scan
  PROVE  NestInv'
<1> DEFINE t == Head(todo)
<1>1. PICK C : Scanning(C)
  BY DEF Scan, ScanBegin, ScanEnd, ScanBreak, ScanQuiet, ScanString
<1>2. /\ t.class \in C /\ todo \in Seq(Tokens) /\ Len(todo) > 0
      /\ t = todo[1] /\ todo' = Tail(todo)
      /\ nesting' = nesting
      /\ indentstack' = indentstack /\ commentmode' = commentmode
  <2>1. todo \in Seq(Tokens) /\ Len(todo) > 0 /\ t.class \in C
    BY <1>1, ToScan
  <2>2. t = todo[1]
    BY <2>1
  <2> QED BY <1>1, <2>1, <2>2 DEF Scanning, layout
<1>3. /\ Waiting \in Seq(Tokens)
      /\ Len(Waiting') = Len(Waiting) + 1
      /\ Carries(Waiting, Waiting', Len(Waiting))
      /\ Content(Waiting'[Len(Waiting) + 1]) = t
  BY ScanSeen
<1>4. PICK n \in Nat : Len(Waiting) = n
  BY <1>3
<1>5. /\ \A j \in 1 .. n : Waiting'[j].class = Waiting[j].class
      /\ Waiting'[n + 1].class = t.class
  BY <1>3, <1>4, ContentClass DEF Carries
<1>6. PICK bottom \in Seq(Kinds), mid \in Seq(Kinds) : NestedFrom(bottom, mid)
  BY DEF NestInv
<1> HIDE DEF t
<1>7. PICK next \in Seq(Kinds) :
        NestStep(t.class, mid, next) /\ Nests(Tail(todo), next, nesting)
  <2>1. Nests(todo, mid, nesting)
    BY <1>6 DEF NestedFrom
  <2> QED BY <1>2, <2>1, NestsHead
<1>8. Nests(Waiting', bottom, next)
  <2>1. Nests(Waiting, bottom, mid)
    BY <1>6 DEF NestedFrom
  <2>2. Len(Waiting') = n + 1
    BY <1>3, <1>4
  <2> QED BY <1>4, <1>5, <1>7, <2>1, <2>2, NestsMore
<1>9. NestedFrom(bottom, next)'
  BY <1>2, <1>6, <1>7, <1>8 DEF NestedFrom
<1> QED BY <1>9 DEF NestInv

LEMMA ForceNests ==
  ASSUME IInv, QInv, NestInv, ForceBreak
  PROVE  NestInv'
<1>1. PICK i : FirstOpen(Waiting, i) /\ Waiting' = Resize(Waiting, i, HardBreak)
  BY ForceTokens
<1>2. /\ todo' = todo /\ nesting' = nesting
      /\ indentstack' = indentstack /\ commentmode' = commentmode
  BY DEF ForceBreak, layout, calls
<1>3. Waiting \in Seq(Tokens) /\ i \in 1 .. Len(Waiting) /\ HardBreak \in Int
  BY <1>1, RightIs, Assumed DEF FirstOpen, Unsized
<1>4. /\ Len(Waiting') = Len(Waiting)
      /\ \A j \in 1 .. Len(Waiting) : Waiting'[j].class = Waiting[j].class
  BY <1>1, <1>3, ResizeTokens
<1>5. PICK bottom \in Seq(Kinds), mid \in Seq(Kinds) : NestedFrom(bottom, mid)
  BY DEF NestInv
<1>6. Nests(Waiting', bottom, mid)
  BY <1>4, <1>5, NestsAs DEF NestedFrom
<1>7. NestedFrom(bottom, mid)'
  BY <1>2, <1>5, <1>6 DEF NestedFrom
<1> QED BY <1>7 DEF NestInv

(* The leftmost token is printed: indentstack and comment mode follow it.  *)
LEMMA LetGoNests ==
  ASSUME IInv, QInv, NestInv, NEW C, LetGo(C)
  PROVE  \E bottom, next, mid \in Seq(Kinds) :
           /\ NestStep(Leftmost.class, bottom, next)
           /\ Leftmost.class \in C
           /\ Nests(Waiting', next, mid)
           /\ Nests(todo', mid, nesting')
           /\ Len(bottom) = Len(indentstack)
           /\ commentmode => \E i \in 1 .. Len(bottom) : bottom[i] = "comment"
<1>1. /\ Len(Waiting) > 0 /\ Leftmost = Waiting[1] /\ Waiting[1].class \in C
      /\ Waiting' = Tail(Waiting) /\ todo' = todo /\ nesting' = nesting
  BY LetGoTokens DEF calls
<1>2. PICK bottom \in Seq(Kinds), mid \in Seq(Kinds) : NestedFrom(bottom, mid)
  BY DEF NestInv
<1>3. Waiting \in Seq(Tokens)
  BY RightIs
<1>4. PICK next \in Seq(Kinds) :
        NestStep(Waiting[1].class, bottom, next) /\ Nests(Tail(Waiting), next, mid)
  <2>1. Nests(Waiting, bottom, mid)
    BY <1>2 DEF NestedFrom
  <2> QED BY <1>1, <1>3, <2>1, NestsHead
<1> QED BY <1>1, <1>2, <1>4 DEF NestedFrom

LEMMA PrintNests ==
  ASSUME IInv, QInv, NestInv, LetGoOne
  PROVE  NestInv'
<1>1. PICK n \in Nat : Len(indentstack) = n
  BY DEF IInv, LayoutOK
<1>2. indentstack \in Seq(Int) /\ commentmode \in BOOLEAN
  BY DEF IInv, LayoutOK
<1>3. ASSUME NEW C, LetGo(C), C \subseteq {"ignore", "tokenstring", "tokenbreak"},
             Len(indentstack') = n, commentmode' = commentmode
      PROVE  NestInv'
  <2>1. PICK bottom \in Seq(Kinds), next \in Seq(Kinds), mid \in Seq(Kinds) :
           /\ NestStep(Leftmost.class, bottom, next)
           /\ Leftmost.class \in C
           /\ Nests(Waiting', next, mid)
           /\ Nests(todo', mid, nesting')
           /\ Len(bottom) = Len(indentstack)
           /\ commentmode => \E i \in 1 .. Len(bottom) : bottom[i] = "comment"
    BY <1>3, LetGoNests
  <2>2. next = bottom
    BY <1>3, <2>1, NestRoles DEF NestStep
  <2>3. NestedFrom(next, mid)'
    BY <1>1, <1>3, <2>1, <2>2 DEF NestedFrom
  <2> QED BY <2>3 DEF NestInv
<1>4. ASSUME NEW C, LetGo(C), C \subseteq Pushes,
             Len(indentstack') = n + 1,
             commentmode' => commentmode \/ Leftmost.class = "begin_comment"
      PROVE  NestInv'
  <2>1. PICK bottom \in Seq(Kinds), next \in Seq(Kinds), mid \in Seq(Kinds) :
           /\ NestStep(Leftmost.class, bottom, next)
           /\ Leftmost.class \in C
           /\ Nests(Waiting', next, mid)
           /\ Nests(todo', mid, nesting')
           /\ Len(bottom) = Len(indentstack)
           /\ commentmode => \E i \in 1 .. Len(bottom) : bottom[i] = "comment"
    BY <1>4, LetGoNests
  <2>2. PICK k \in KindsOf(Leftmost.class) : next = Append(bottom, k)
    BY <1>4, <2>1 DEF NestStep
  <2>3. /\ Len(bottom) = n /\ Len(next) = n + 1 /\ next[n + 1] = k
        /\ \A i \in 1 .. n : next[i] = bottom[i]
    BY <1>1, <2>1, <2>2
  <2>4. Leftmost.class = "begin_comment" => k = "comment"
    BY <2>2 DEF KindsOf
  <2>5. commentmode' => \E i \in 1 .. Len(next) : next[i] = "comment"
    <3>1. CASE Leftmost.class = "begin_comment"
      <4>1. n + 1 \in 1 .. Len(next) /\ next[n + 1] = "comment"
        BY <2>3, <2>4, <3>1
      <4> QED BY <4>1
    <3>2. ASSUME commentmode PROVE \E i \in 1 .. Len(next) : next[i] = "comment"
      <4>1. PICK i \in 1 .. n : bottom[i] = "comment"
        BY <2>1, <2>3, <3>2
      <4>2. i \in 1 .. Len(next) /\ next[i] = "comment"
        BY <2>3, <4>1
      <4> QED BY <4>2
    <3> QED BY <1>4, <3>1, <3>2
  <2>6. NestedFrom(next, mid)'
    BY <1>4, <2>1, <2>3, <2>5 DEF NestedFrom
  <2> QED BY <2>6 DEF NestInv
<1>5. ASSUME NEW C, LetGo(C), C \subseteq Pops, n > 0,
             Len(indentstack') = n - 1,
             commentmode' => commentmode /\ Leftmost.class # "end_comment"
      PROVE  NestInv'
  <2>1. PICK bottom \in Seq(Kinds), next \in Seq(Kinds), mid \in Seq(Kinds) :
           /\ NestStep(Leftmost.class, bottom, next)
           /\ Leftmost.class \in C
           /\ Nests(Waiting', next, mid)
           /\ Nests(todo', mid, nesting')
           /\ Len(bottom) = Len(indentstack)
           /\ commentmode => \E i \in 1 .. Len(bottom) : bottom[i] = "comment"
    BY <1>5, LetGoNests
  <2>2. PICK k \in KindsOf(Leftmost.class) : bottom = Append(next, k)
    BY <1>5, <2>1 DEF NestStep
  <2>3. PICK m \in Nat : Len(next) = m
    BY <2>1
  <2>4. /\ Len(bottom) = m + 1 /\ bottom[m + 1] = k
        /\ \A i \in 1 .. m : bottom[i] = next[i]
    BY <2>1, <2>2, <2>3
  <2>5. m = n - 1
    BY <1>1, <2>1, <2>4
  <2>6. (Leftmost.class \in Pops /\ Leftmost.class # "end_comment") => k # "comment"
    BY <2>2 DEF KindsOf, Pops, Ends
  <2>7. commentmode' => \E i \in 1 .. Len(next) : next[i] = "comment"
    <3>1. SUFFICES ASSUME commentmode, Leftmost.class # "end_comment"
                   PROVE  \E i \in 1 .. Len(next) : next[i] = "comment"
      BY <1>5
    <3>2. k # "comment"
      BY <1>5, <2>1, <2>6, <3>1
    <3>3. PICK i \in 1 .. m + 1 : bottom[i] = "comment"
      BY <2>1, <2>4, <3>1
    <3>4. i # m + 1
      BY <2>4, <3>2, <3>3
    <3>5. i \in 1 .. m /\ next[i] = "comment"
      BY <2>4, <3>3, <3>4
    <3> QED BY <2>3, <3>5
  <2>8. NestedFrom(next, mid)'
    BY <1>5, <2>1, <2>3, <2>5, <2>7 DEF NestedFrom
  <2> QED BY <2>8 DEF NestInv
<1>6. ASSUME PrintIgnore \/ PrintString \/ PrintSpaces \/ PrintLineAt PROVE NestInv'
  BY <1>1, <1>3, <1>6 DEF PrintIgnore, PrintString, PrintSpaces, PrintLineAt, layout
<1>7. ASSUME OverflowString PROVE NestInv'
  <2>1. LetGo({"tokenstring"}) /\ indentstack' = Relieved /\ commentmode' = commentmode
    BY <1>7 DEF OverflowString
  <2>2. Len(indentstack') = n
    BY <1>1, <2>1, RelievedType DEF IInv
  <2> QED BY <1>3, <2>1, <2>2
<1>8. ASSUME PrintBreak PROVE NestInv'
  <2> DEFINE moved == [indentstack EXCEPT ![Len(indentstack)] = Back - Leftmost.bump]
  <2>1. /\ LetGo({"tokenbreak"}) /\ commentmode' = commentmode
        /\ indentstack' \in {indentstack, moved}
    BY <1>8 DEF PrintBreak
  <2>2. Len(moved) = n
    BY <1>1, <1>2
  <2>3. Len(indentstack') = n
    BY <1>1, <2>1, <2>2
  <2> QED BY <1>3, <2>1, <2>3
<1>9. ASSUME PrintIndent PROVE NestInv'
  <2>1. /\ LetGo({"begin_indent"}) /\ commentmode' = commentmode
        /\ indentstack' = Append(indentstack, Back - Leftmost.bump)
    BY <1>9 DEF PrintIndent
  <2>2. Len(indentstack') = n + 1
    BY <1>1, <1>2, <2>1
  <2> QED BY <1>4, <2>1, <2>2 DEF Pushes
<1>10. ASSUME PrintBegin PROVE NestInv'
  <2>1. /\ LetGo(Begins)
        /\ commentmode' = (commentmode \/ Leftmost.class = "begin_comment")
        /\ indentstack' = Append(indentstack, spaceremain)
    BY <1>10 DEF PrintBegin
  <2>2. Len(indentstack') = n + 1
    BY <1>1, <1>2, <2>1
  <2>3. commentmode' => commentmode \/ Leftmost.class = "begin_comment"
    BY <2>1
  <2> QED BY <1>4, <2>1, <2>2, <2>3 DEF Pushes
<1>11. ASSUME PrintEnd PROVE NestInv'
  <2>1. /\ LetGo(Ends \cup {"end_indent"}) /\ indentstack # <<>>
        /\ commentmode' = (commentmode /\ Leftmost.class # "end_comment")
        /\ indentstack' = Ungrouped(indentstack)
    BY <1>11 DEF PrintEnd
  <2>2. n > 0 /\ Len(indentstack') = n - 1
    <3>1. n # 0
      BY <1>1, <1>2, <2>1, EmptySeq
    <3> QED BY <1>1, <1>2, <2>1, <3>1 DEF Ungrouped
  <2>3. commentmode' => commentmode /\ Leftmost.class # "end_comment"
    BY <2>1
  <2> QED BY <1>5, <2>1, <2>2, <2>3 DEF Pops
<1> QED BY <1>6, <1>7, <1>8, <1>9, <1>10, <1>11 DEF LetGoOne

(* What was just cleared.                                                  *)
LEMMA EmptyNests ==
  ASSUME Waiting = <<>>, todo = <<>>, nesting = <<>>, indentstack = <<>>,
         ~commentmode
  PROVE  NestInv
<1>1. <<>> \in Seq(Kinds)
  OBVIOUS
<1>2. NestedFrom(<<>>, <<>>)
  BY <1>1, NestsNil DEF NestedFrom
<1> QED BY <1>1, <1>2 DEF NestInv

LEMMA ClearNests ==
  ASSUME IInv, QInv, Clear
  PROVE  NestInv'
<1>1. Waiting' = <<>>
  BY ClearHolds
<1>2. /\ todo' = <<>> /\ nesting' = <<>> /\ indentstack' = <<>>
      /\ commentmode' = FALSE
  BY DEF Clear
<1>3. <<>> \in Seq(Kinds)
  OBVIOUS
<1>4. NestedFrom(<<>>, <<>>)'
  BY <1>1, <1>2, <1>3, NestsNil DEF NestedFrom
<1> QED BY <1>3, <1>4 DEF NestInv

LEMMA InitNests == Init => NestInv
<1> SUFFICES ASSUME Init PROVE NestInv
  OBVIOUS
<1>1. QueueSize \in Nat /\ QueueSize > 1
  BY Assumed
<1>2. Coupled(<<tokqueue, scanqueue>>, <<>>)
  BY <1>1, EmptiedCoupled DEF Init
<1>3. Waiting = <<>>
  BY <1>2, CoupledTells DEF Waiting
<1> QED BY <1>3, EmptyNests DEF Init

LEMMA NextNests == IInv /\ QInv /\ NestInv /\ [Next]_vars => NestInv'
<1> SUFFICES ASSUME IInv, QInv, NestInv, [Next]_vars PROVE NestInv'
  OBVIOUS
<1>1. ASSUME \/ BeginFunction \/ OpenGroup \/ OpenParen \/ StartComment \/ StartIndent
      PROVE  NestInv'
  BY <1>1, OpeningsNest, CallLeadsNests
<1>2. ASSUME \/ CloseGroup \/ EndFunction \/ CloseParen \/ StopComment \/ StopIndent
      PROVE  NestInv'
  BY <1>2, ClosingsNest, CallLeadsNests
<1>3. ASSUME Block \/ PrintText \/ Spaces \/ TagLine PROVE NestInv'
  BY <1>3, TextsNest, CallLeadsNests
<1>4. ASSUME Clear PROVE NestInv'
  BY <1>4, ClearNests
<1>5. ASSUME Scan PROVE NestInv'
  BY <1>5, ScanNests
<1>6. ASSUME ForceBreak PROVE NestInv'
  BY <1>6, ForceNests
<1>7. ASSUME LetGoOne PROVE NestInv'
  BY <1>7, PrintNests
<1>8. ASSUME tokqueue' = tokqueue, scanqueue' = scanqueue, rightotal' = rightotal,
             todo' = todo, nesting' = nesting, indentstack' = indentstack,
             commentmode' = commentmode
      PROVE  NestInv'
  <2>1. PICK bottom \in Seq(Kinds), mid \in Seq(Kinds) : NestedFrom(bottom, mid)
    BY DEF NestInv
  <2>2. Waiting' = Waiting
    BY <1>8, WaitingSame
  <2>3. NestedFrom(bottom, mid)'
    BY <1>8, <2>1, <2>2 DEF NestedFrom
  <2> QED BY <2>3 DEF NestInv
<1>9. ASSUME \/ SetPendingPrint \/ CancelPendingPrint \/ ForceDone \/ AdvanceDone
             \/ ForcedDone \/ Flush \/ FlushDone \/ UNCHANGED vars
      PROVE  NestInv'
  BY <1>8, <1>9 DEF SetPendingPrint, CancelPendingPrint, ForceDone, AdvanceDone,
                    ForcedDone, Flush, FlushDone, vars, queues, layout, calls
<1> QED BY <1>1, <1>2, <1>3, <1>4, <1>5, <1>6, <1>7, <1>9 DEF Next, PrintC, Printer

(* Whatever a function was, once its last token is flushed nothing waits,  *)
(* no indent is left over and comments have ended: what was printed of the *)
(* delimiters and what still waits of them always make up what is open.    *)
(* The next function starts from a clean printer, as the checks compiled   *)
(* in with PRETTY_DEBUG ask.                                               *)
THEOREM FlushedClean == Spec => []FlushesClean
<1>1. IInv /\ QInv /\ NestInv => FlushesClean
  <2> SUFFICES ASSUME IInv, QInv, NestInv,
                      nesting = <<>>, phase = "idle", ~needbreak
               PROVE  /\ IsEmpty(tokqueue) /\ IsEmpty(scanqueue)
                      /\ indentstack = <<>> /\ ~commentmode
    BY DEF FlushesClean
  <2>1. todo = <<>> /\ Len(Waiting) = 0
    BY DEF QInv, PhasesHold
  <2>2. Unsized(Waiting) = {}
    BY <2>1 DEF Unsized
  <2>3. IsEmpty(tokqueue) /\ IsEmpty(scanqueue)
    BY <2>1, <2>2, CoupledTells DEF QInv, QueuesHold
  <2>4. PICK bottom \in Seq(Kinds), mid \in Seq(Kinds) : NestedFrom(bottom, mid)
    BY DEF NestInv
  <2>5. mid = <<>>
    BY <2>1, <2>4, NestsNone, EmptySequence DEF NestedFrom
  <2>6. bottom = <<>>
    BY <2>1, <2>4, <2>5, NestsNone DEF NestedFrom
  <2>7. Len(bottom) = 0
    BY <2>6
  <2>8. indentstack = <<>> /\ ~commentmode
    <3>1. indentstack \in Seq(Int) /\ Len(indentstack) = 0 /\ 1 .. Len(bottom) = {}
      BY <2>4, <2>7 DEF NestedFrom, IInv, LayoutOK
    <3>2. indentstack = <<>>
      BY <3>1, EmptySeq
    <3> QED BY <2>4, <3>1, <3>2 DEF NestedFrom
  <2> QED BY <2>3, <2>8
<1>2. Init => IInv /\ QInv /\ NestInv
  BY InitIInv, InitHolds, InitNests
<1>3. (IInv /\ QInv /\ NestInv) /\ [Next]_vars => (IInv /\ QInv /\ NestInv)'
  BY NextKeeps, NextHolds, NextNests
<1> QED BY <1>1, <1>2, <1>3, PTL DEF Spec
-----------------------------------------------------------------------------
(* The layout, now: what a token's size says of the width of the tokens    *)
(* after it.  For a sequence s of n tokens, d[j] is the number of levels   *)
(* open after the first j of them, g[j] those of these levels that are     *)
(* groups, and tot[j] the width taken in by then.                          *)
LevelStep(c, a, A, b, B) ==
  /\ c \in Begins => b = a + 1 /\ B = A \cup {b}
  /\ c = "begin_indent" => b = a + 1 /\ B = A
  /\ c \in Ends => a \in A /\ b = a - 1 /\ B = A \ {a}
  /\ c = "end_indent" => a \notin A /\ b = a - 1 /\ B = A
  /\ c \notin Pushes \cup Pops => b = a /\ B = A

Leveled(s, n, d, g) ==
  /\ d \in [0 .. n -> Nat] /\ g \in [0 .. n -> SUBSET Nat]
  /\ \A j \in 0 .. n : \A l \in g[j] : 1 <= l /\ l <= d[j]
  /\ \A j \in 1 .. n : LevelStep(s[j].class, d[j - 1], g[j - 1], d[j], g[j])

(* A level that stays open stays a group, or an indent; and a level that   *)
(* is open was opened somewhere.                                           *)
Lasting(n, d, g) ==
  \A p, q \in 0 .. n, l \in Nat :
    (p <= q /\ \A j \in p .. q : l <= d[j]) => (l \in g[p] <=> l \in g[q])

Rising(n, d) ==
  \A p, q \in 0 .. n, l \in Nat :
    (p <= q /\ d[p] < l /\ l <= d[q]) =>
      \E r \in p + 1 .. q : d[r - 1] < l /\ \A j \in r .. q : l <= d[j]

Widths(s, n, tot) ==
  /\ tot \in [0 .. n -> Int]
  /\ \A j \in 1 .. n : tot[j] = tot[j - 1] + Width(s[j])
  /\ \A i, j \in 0 .. n : i <= j => tot[i] <= tot[j]

Shaped(s, n, d, g, tot) ==
  Leveled(s, n, d, g) /\ Lasting(n, d, g) /\ Rising(n, d) /\ Widths(s, n, tot)

(* A group that was open after p tokens has been closed after q.           *)
Shut(d, g, p, q) == \E l \in g[p] : d[q] < l

(* The tokens with no size: their group is still open, the groups opened   *)
(* later and still open have no size either, and between two that are      *)
(* white space there is a group.                                           *)
Awaited(s, n, d, g, tot) ==
  \A p \in Unsized(s) :
    /\ s[p].class \in Begins \cup {"tokenbreak"}
    /\ s[p].size = -tot[p - 1]
    /\ \A q \in p .. n : ~Shut(d, g, p, q)

Stacked(s, n, d) ==
  \A p \in Unsized(s) : \A r \in p + 1 .. n :
    (s[r].class \in Begins /\ \A j \in r .. n : d[r] <= d[j]) => s[r].size < 0

Alternating(s) ==
  \A p, r \in Unsized(s) :
    (p < r /\ s[p].class \notin Begins /\ s[r].class \notin Begins) =>
      \E b \in Unsized(s) : p < b /\ b < r /\ s[b].class \in Begins

(* The size of a group is at least its width, to where it ends, unless it  *)
(* is more than a line.                                                    *)
GroupsMeasured(s, n, d, tot) ==
  \A p \in 1 .. n :
    (s[p].class \in Begins /\ s[p].size >= 0) =>
      \/ s[p].size = HardBreak
      \/ \E q \in p + 1 .. n : d[q] < d[p] /\ tot[q] - tot[p - 1] <= s[p].size

(* The size of white space is at most the width to where its group ends,   *)
(* unless no group around it is printed as a unit.                         *)
Within(tot, p, size, q) == size <= tot[q] - tot[p - 1]

NoUnit(s, d, u, p) ==
  /\ \A r \in 1 .. p - 1 :
       (s[r].class \in Begins /\ \A j \in r .. p : d[r] <= d[j]) =>
         s[r].size = HardBreak
  /\ \A i \in 1 .. Len(u) : (\A j \in 0 .. p : i <= d[j]) => u[i] # "whole"

BreaksMeasured(s, n, d, g, tot, u) ==
  \A p \in 1 .. n :
    (s[p].class = "tokenbreak" /\ s[p].size >= 0) =>
      \/ /\ Within(tot, p, s[p].size, n)
         /\ \A q \in p + 1 .. n : Shut(d, g, p, q) => Within(tot, p, s[p].size, q)
      \/ NoUnit(s, d, u, p)

(* A group that is printed as a unit ends before the line does.            *)
UnitsFit(n, d, g, tot, u, space) ==
  \A i \in 1 .. Len(u) :
    /\ u[i] # "torn"
    /\ u[i] = "whole" =>
         i \in g[0] /\ \E q \in 1 .. n : d[q] < i /\ tot[q] - tot[0] <= space

Measured(s, n, d, g, tot, u, space) ==
  /\ Shaped(s, n, d, g, tot)
  /\ Awaited(s, n, d, g, tot) /\ Stacked(s, n, d) /\ Alternating(s)
  /\ GroupsMeasured(s, n, d, tot) /\ BreaksMeasured(s, n, d, g, tot, u)
  /\ UnitsFit(n, d, g, tot, u, space)

(* The levels of a nesting.                                                *)
GroupLevels(a) == {i \in 1 .. Len(a) : a[i] # "indent"}

(* The tokens s lead from the units u, with so much space on the line, to  *)
(* the nesting mid, with the width right taken in.                         *)
ReachedBy(s, n, d, g, tot, u, space, mid, right) ==
  /\ d[n] = Len(mid) /\ g[n] = GroupLevels(mid)
  /\ d[0] = Len(u) /\ tot[n] = right
  /\ Measured(s, n, d, g, tot, u, space)

Reaches(s, u, space, mid, right) ==
  \E d, g, tot : ReachedBy(s, Len(s), d, g, tot, u, space, mid, right)

UnitInv ==
  \E mid \in Seq(Kinds) :
    /\ Nests(todo, mid, nesting)
    /\ Reaches(Waiting, unit, spaceremain, mid, rightotal)

LEMMA LevelRoles ==
  /\ \A c \in Begins : c # "begin_indent" /\ c \notin Ends /\ c # "end_indent"
                       /\ c # "tokenbreak" /\ c # "tokenstring"
  /\ \A c \in Ends : c \notin Begins /\ c # "begin_indent" /\ c # "end_indent"
                     /\ c # "tokenbreak" /\ c # "tokenstring"
  /\ \A c : c \in Pushes <=> c \in Begins \/ c = "begin_indent"
  /\ \A c : c \in Pops <=> c \in Ends \/ c = "end_indent"
  /\ "begin_indent" \notin Begins /\ "end_indent" \notin Begins
  /\ "tokenbreak" \notin Begins
BY DEF Begins, Ends, Pushes, Pops

(* What a token does to a nesting it does to the levels.                   *)
LEMMA NestLevels ==
  ASSUME NEW c, NEW a \in Seq(Kinds), NEW b \in Seq(Kinds), NestStep(c, a, b)
  PROVE  /\ LevelStep(c, Len(a), GroupLevels(a), Len(b), GroupLevels(b))
         /\ \A l \in GroupLevels(b) : 1 <= l /\ l <= Len(b)
         /\ Len(b) \in Nat /\ GroupLevels(b) \in SUBSET Nat
<1>1. /\ \A k \in KindsOf(c) : k = "indent" <=> c \in {"begin_indent", "end_indent"}
  BY DEF KindsOf
<1>2. PICK m \in Nat, n \in Nat : Len(a) = m /\ Len(b) = n
  OBVIOUS
<1>3. GroupLevels(b) \in SUBSET Nat /\ \A l \in GroupLevels(b) : 1 <= l /\ l <= Len(b)
  BY <1>2 DEF GroupLevels
<1>4. ASSUME c \in Pushes
      PROVE  /\ Len(b) = Len(a) + 1
             /\ c \in Begins => GroupLevels(b) = GroupLevels(a) \cup {Len(b)}
             /\ c = "begin_indent" => GroupLevels(b) = GroupLevels(a)
  <2>1. PICK k \in KindsOf(c) : b = Append(a, k)
    BY <1>4 DEF NestStep
  <2>2. n = m + 1 /\ b[n] = k /\ \A i \in 1 .. m : b[i] = a[i]
    BY <1>2, <2>1
  <2>3. c \in Begins => k # "indent"
    BY <1>1, LevelRoles
  <2>4. c = "begin_indent" => k = "indent"
    BY <1>1
  <2> QED BY <1>2, <2>2, <2>3, <2>4 DEF GroupLevels
<1>5. ASSUME c \in Pops
      PROVE  /\ Len(b) = Len(a) - 1
             /\ c \in Ends => Len(a) \in GroupLevels(a)
                              /\ GroupLevels(b) = GroupLevels(a) \ {Len(a)}
             /\ c = "end_indent" => Len(a) \notin GroupLevels(a)
                                    /\ GroupLevels(b) = GroupLevels(a)
  <2>1. PICK k \in KindsOf(c) : a = Append(b, k)
    BY <1>5 DEF NestStep
  <2>2. m = n + 1 /\ a[m] = k /\ \A i \in 1 .. n : b[i] = a[i]
    BY <1>2, <2>1
  <2>3. c \in Ends => k # "indent"
    BY <1>1, LevelRoles
  <2>4. c = "end_indent" => k = "indent"
    BY <1>1
  <2> QED BY <1>2, <2>2, <2>3, <2>4 DEF GroupLevels
<1>6. c \notin Pushes \cup Pops => b = a
  BY DEF NestStep
<1>7. LevelStep(c, Len(a), GroupLevels(a), Len(b), GroupLevels(b))
  BY <1>4, <1>5, <1>6, LevelRoles DEF LevelStep
<1> QED BY <1>2, <1>3, <1>7

(* One level more or less at a time: what a token leaves of the levels.    *)
LEMMA StepStays ==
  ASSUME NEW s, NEW n \in Nat, NEW d, NEW g, Leveled(s, n, d, g), NEW j \in 1 .. n
  PROVE  LET a == d[j - 1]
             b == d[j]
             c == s[j].class
         IN /\ a \in Nat /\ b \in Nat
            /\ \A l \in Nat : l <= a /\ l <= b => (l \in g[j - 1] <=> l \in g[j])
            /\ c \notin Pops => a <= b
            /\ b <= a + 1 /\ a <= b + 1
            /\ c \in Begins => b = a + 1 /\ b \in g[j]
            /\ a < b => c \in Pushes
            /\ a < b /\ b \in g[j] => c \in Begins
            /\ c \in Ends => a \in g[j - 1] /\ b = a - 1
            /\ c = "end_indent" => a \notin g[j - 1] /\ b = a - 1
<1>1. j - 1 \in 0 .. n /\ j \in 0 .. n
  OBVIOUS
<1>2. PICK a \in Nat, b \in Nat : a = d[j - 1] /\ b = d[j]
  BY <1>1 DEF Leveled
<1>3. PICK A, B, c : A = g[j - 1] /\ B = g[j] /\ c = s[j].class
  OBVIOUS
<1>4. LevelStep(c, a, A, b, B)
  BY <1>2, <1>3 DEF Leveled
<1>5. A \in SUBSET Nat /\ B \in SUBSET Nat /\ \A l \in A : 1 <= l /\ l <= a
  BY <1>1, <1>2, <1>3 DEF Leveled
<1> DEFINE P == /\ \A l \in Nat : l <= a /\ l <= b => (l \in A <=> l \in B)
                /\ c \notin Pops => a <= b
                /\ b <= a + 1 /\ a <= b + 1
                /\ c \in Begins => b = a + 1 /\ b \in B
                /\ a < b => c \in Pushes
                /\ a < b /\ b \in B => c \in Begins
                /\ c \in Ends => a \in A /\ b = a - 1
                /\ c = "end_indent" => a \notin A /\ b = a - 1
<1>6. ASSUME c \in Begins PROVE P
  BY <1>4, <1>6, LevelRoles DEF LevelStep
<1>7. ASSUME c = "begin_indent" PROVE P
  <2>1. b = a + 1 /\ B = A /\ c \in Pushes /\ c \notin Pops /\ c \notin Begins
        /\ c \notin Ends
    BY <1>4, <1>7, LevelRoles DEF LevelStep
  <2>2. c # "end_indent"
    BY <1>7
  <2> QED BY <1>5, <2>1, <2>2
<1>8. ASSUME c \in Ends PROVE P
  BY <1>4, <1>8, LevelRoles DEF LevelStep
<1>9. ASSUME c = "end_indent" PROVE P
  BY <1>4, <1>9, LevelRoles DEF LevelStep
<1>10. ASSUME c \notin Pushes \cup Pops PROVE P
  BY <1>4, <1>10, LevelRoles DEF LevelStep
<1> HIDE DEF P
<1>11. P
  BY <1>6, <1>7, <1>8, <1>9, <1>10, LevelRoles
<1> USE DEF P
<1> QED BY <1>2, <1>3, <1>11

(* A scan: tokens n and one more, of which some get their size, the width  *)
(* taken in since before them.  A group gets it as its end comes in.       *)
Commits(s, z, n, d, tot, e) ==
  \A j \in 1 .. n :
    /\ z[j].class = s[j].class /\ Width(z[j]) = Width(s[j])
    /\ \/ z[j].size = s[j].size
       \/ /\ j \in Unsized(s) /\ z[j].size = tot[n] - tot[j - 1]
          /\ s[j].class \in Begins => e[n + 1] < d[j]

Longer(n, d, g, tot, e, h, tt) ==
  /\ e \in [0 .. n + 1 -> Nat] /\ h \in [0 .. n + 1 -> SUBSET Nat]
  /\ tt \in [0 .. n + 1 -> Int]
  /\ \A j \in 0 .. n : e[j] = d[j] /\ h[j] = g[j] /\ tt[j] = tot[j]
  /\ \A l \in h[n + 1] : 1 <= l /\ l <= e[n + 1]

Newest(z, n, d, g, tot, e, h, tt) ==
  LET t == z[n + 1]
  IN /\ LevelStep(t.class, d[n], g[n], e[n + 1], h[n + 1])
     /\ Width(t) \in Nat /\ tt[n + 1] = tot[n] + Width(t)
     /\ t.class \in Ends => Width(t) = 0
     /\ t.size < 0 => t.class \in Begins \cup {"tokenbreak"} /\ t.size = -tot[n]
     /\ t.size >= 0 => t.class \notin Begins \cup {"tokenbreak"}

LEMMA LeveledMore ==
  ASSUME NEW n \in Nat, NEW s, NEW z, NEW d, NEW g, NEW tot, NEW e, NEW h, NEW tt,
         Leveled(s, n, d, g), Commits(s, z, n, d, tot, e),
         Longer(n, d, g, tot, e, h, tt), Newest(z, n, d, g, tot, e, h, tt)
  PROVE  Leveled(z, n + 1, e, h)
<1>0. /\ \A j \in 1 .. n : z[j].class = s[j].class
      /\ e \in [0 .. n + 1 -> Nat] /\ h \in [0 .. n + 1 -> SUBSET Nat]
      /\ \A j \in 0 .. n : e[j] = d[j] /\ h[j] = g[j]
      /\ \A l \in h[n + 1] : 1 <= l /\ l <= e[n + 1]
      /\ LevelStep(z[n + 1].class, d[n], g[n], e[n + 1], h[n + 1])
  BY DEF Commits, Longer, Newest
<1>1. ASSUME NEW j \in 0 .. n + 1 PROVE \A l \in h[j] : 1 <= l /\ l <= e[j]
  <2>1. j = n + 1 \/ j \in 0 .. n
    OBVIOUS
  <2> QED BY <1>0, <2>1 DEF Leveled
<1>2. ASSUME NEW j \in 1 .. n + 1
      PROVE  LevelStep(z[j].class, e[j - 1], h[j - 1], e[j], h[j])
  <2>1. CASE j = n + 1
    <3>1. j - 1 = n /\ n \in 0 .. n
      BY <2>1
    <3> QED BY <1>0, <2>1, <3>1
  <2>2. CASE j # n + 1
    <3>1. j \in 1 .. n /\ j \in 0 .. n /\ j - 1 \in 0 .. n
      BY <2>2
    <3>2. LevelStep(s[j].class, d[j - 1], g[j - 1], d[j], g[j])
      BY <3>1 DEF Leveled
    <3> QED BY <1>0, <3>1, <3>2
  <2> QED BY <2>1, <2>2
<1> QED BY <1>0, <1>1, <1>2 DEF Leveled

LEMMA LastingMore ==
  ASSUME NEW n \in Nat, NEW d, NEW g, Lasting(n, d, g),
         NEW e \in [0 .. n + 1 -> Nat], NEW h,
         \A j \in 0 .. n : e[j] = d[j] /\ h[j] = g[j],
         \A l \in Nat : l <= e[n] /\ l <= e[n + 1] => (l \in h[n] <=> l \in h[n + 1])
  PROVE  Lasting(n + 1, e, h)
<1> SUFFICES ASSUME NEW p \in 0 .. n + 1, NEW q \in 0 .. n + 1, NEW l \in Nat,
                    p <= q, \A j \in p .. q : l <= e[j]
             PROVE  l \in h[p] <=> l \in h[q]
  BY DEF Lasting
<1>1. CASE q \in 0 .. n
  <2>1. p \in 0 .. n /\ \A j \in p .. q : j \in 0 .. n
    BY <1>1
  <2>2. \A j \in p .. q : l <= d[j]
    BY <2>1
  <2>3. l \in g[p] <=> l \in g[q]
    BY <1>1, <2>1, <2>2 DEF Lasting
  <2> QED BY <1>1, <2>1, <2>3
<1>2. CASE q = n + 1 /\ p # q
  <2>1. p \in 0 .. n /\ n \in 0 .. n /\ p <= n /\ n \in p .. q /\ q \in p .. q
        /\ \A j \in p .. n : j \in 0 .. n /\ j \in p .. q
    BY <1>2
  <2>2. \A j \in p .. n : l <= d[j]
    BY <2>1
  <2>3. l \in g[p] <=> l \in g[n]
    BY <2>1, <2>2 DEF Lasting
  <2>4. l <= e[n] /\ l <= e[n + 1]
    BY <1>2, <2>1
  <2> QED BY <1>2, <2>1, <2>3, <2>4
<1>3. CASE p = q
  BY <1>3
<1> QED BY <1>1, <1>2, <1>3

LEMMA RisingMore ==
  ASSUME NEW n \in Nat, NEW d, Rising(n, d),
         NEW e \in [0 .. n + 1 -> Nat], \A j \in 0 .. n : e[j] = d[j]
  PROVE  Rising(n + 1, e)
<1> SUFFICES ASSUME NEW p \in 0 .. n + 1, NEW q \in 0 .. n + 1, NEW l \in Nat,
                    p <= q, e[p] < l, l <= e[q]
             PROVE  \E r \in p + 1 .. q : e[r - 1] < l /\ \A j \in r .. q : l <= e[j]
  BY DEF Rising
<1>1. ASSUME NEW m \in 0 .. n, p <= m, l <= e[m]
      PROVE  \E r \in p + 1 .. m : e[r - 1] < l /\ \A j \in r .. m : l <= e[j]
  <2>1. p \in 0 .. n /\ d[p] < l /\ l <= d[m]
    BY <1>1
  <2>2. PICK r \in p + 1 .. m : d[r - 1] < l /\ \A j \in r .. m : l <= d[j]
    BY <1>1, <2>1 DEF Rising
  <2>3. r - 1 \in 0 .. n /\ \A j \in r .. m : j \in 0 .. n
    BY <2>1, <2>2
  <2> QED BY <2>2, <2>3
<1>2. CASE q \in 0 .. n
  BY <1>1, <1>2
<1>3. CASE q = n + 1
  <2>1. p # q
    OBVIOUS
  <2>2. p <= n /\ n \in 0 .. n /\ q \in p + 1 .. q /\ q - 1 = n
    BY <1>3, <2>1
  <2>3. CASE e[n] < l
    <3>1. \A j \in q .. q : l <= e[j]
      OBVIOUS
    <3> QED BY <2>2, <2>3, <3>1
  <2>4. CASE l <= e[n]
    <3>1. PICK r \in p + 1 .. n : e[r - 1] < l /\ \A j \in r .. n : l <= e[j]
      BY <1>1, <2>2, <2>4
    <3>2. r \in p + 1 .. q /\ \A j \in r .. q : j \in r .. n \/ j = q
      BY <1>3, <2>2, <3>1
    <3> QED BY <3>1, <3>2
  <2>5. e[n] \in Nat
    BY <2>2
  <2> QED BY <2>3, <2>4, <2>5
<1> QED BY <1>2, <1>3

LEMMA WidthsMore ==
  ASSUME NEW n \in Nat, NEW s, NEW z, NEW tot, Widths(s, n, tot),
         \A j \in 1 .. n : Width(z[j]) = Width(s[j]),
         Width(z[n + 1]) \in Nat,
         NEW tt \in [0 .. n + 1 -> Int], \A j \in 0 .. n : tt[j] = tot[j],
         tt[n + 1] = tot[n] + Width(z[n + 1])
  PROVE  Widths(z, n + 1, tt)
<1>1. ASSUME NEW j \in 1 .. n + 1 PROVE tt[j] = tt[j - 1] + Width(z[j])
  <2>1. CASE j = n + 1
    <3>1. j - 1 = n /\ n \in 0 .. n
      BY <2>1
    <3> QED BY <2>1, <3>1
  <2>2. CASE j # n + 1
    <3>1. j \in 1 .. n /\ j \in 0 .. n /\ j - 1 \in 0 .. n
      BY <2>2
    <3>2. tot[j] = tot[j - 1] + Width(s[j])
      BY <3>1 DEF Widths
    <3> QED BY <3>1, <3>2
  <2> QED BY <2>1, <2>2
<1>2. ASSUME NEW i \in 0 .. n + 1, NEW j \in 0 .. n + 1, i <= j
      PROVE  tt[i] <= tt[j]
  <2>1. \A k \in 0 .. n, m \in 0 .. n : k <= m => tt[k] <= tt[m]
    BY DEF Widths
  <2>2. tt[n] <= tt[n + 1] /\ n \in 0 .. n
    <3>1. n \in 0 .. n /\ tt[n] = tot[n] /\ tt[n] \in Int
      OBVIOUS
    <3> QED BY <3>1
  <2>3. CASE j = n + 1 /\ i # j
    <3>1. i \in 0 .. n /\ i <= n
      BY <2>3
    <3>2. tt[i] <= tt[n]
      BY <2>1, <2>2, <3>1
    <3>3. tt[i] \in Int /\ tt[n] \in Int /\ tt[n + 1] \in Int
      BY <2>2
    <3> QED BY <2>2, <2>3, <3>2, <3>3
  <2>4. CASE j # n + 1
    <3>1. i \in 0 .. n /\ j \in 0 .. n
      BY <1>2, <2>4
    <3> QED BY <1>2, <2>1, <3>1
  <2>5. CASE i = j
    <3>1. tt[i] \in Int
      OBVIOUS
    <3> QED BY <2>5, <3>1
  <2> QED BY <2>3, <2>4, <2>5
<1> QED BY <1>1, <1>2 DEF Widths

LEMMA ShapedMore ==
  ASSUME NEW n \in Nat, NEW s, NEW z, NEW d, NEW g, NEW tot, NEW e, NEW h, NEW tt,
         Shaped(s, n, d, g, tot), Commits(s, z, n, d, tot, e),
         Longer(n, d, g, tot, e, h, tt), Newest(z, n, d, g, tot, e, h, tt)
  PROVE  Shaped(z, n + 1, e, h, tt)
<1>1. /\ Leveled(s, n, d, g) /\ Lasting(n, d, g) /\ Rising(n, d) /\ Widths(s, n, tot)
  BY DEF Shaped
<1>2. Leveled(z, n + 1, e, h)
  BY <1>1, LeveledMore
<1>3. \A l \in Nat : l <= e[n] /\ l <= e[n + 1] => (l \in h[n] <=> l \in h[n + 1])
  <2>1. n \in 0 .. n /\ n \in 0 .. n + 1 /\ n + 1 \in 0 .. n + 1
    OBVIOUS
  <2>2. PICK m \in Nat : m = n + 1 /\ m \in 1 .. m /\ m - 1 = n
    OBVIOUS
  <2>3. Leveled(z, m, e, h)
    BY <1>2, <2>2
  <2>4. \A l \in Nat : l <= e[m - 1] /\ l <= e[m] => (l \in h[m - 1] <=> l \in h[m])
    BY <2>2, <2>3, StepStays
  <2> QED BY <2>2, <2>4
<1>4. Lasting(n + 1, e, h)
  <2>1. /\ e \in [0 .. n + 1 -> Nat]
        /\ \A j \in 0 .. n : e[j] = d[j] /\ h[j] = g[j]
    BY DEF Longer
  <2> QED BY <1>1, <1>3, <2>1, LastingMore
<1>5. Rising(n + 1, e)
  <2>1. e \in [0 .. n + 1 -> Nat] /\ \A j \in 0 .. n : e[j] = d[j]
    BY DEF Longer
  <2> QED BY <1>1, <2>1, RisingMore
<1>6. Widths(z, n + 1, tt)
  <2>1. \A j \in 1 .. n : Width(z[j]) = Width(s[j])
    BY DEF Commits
  <2>2. /\ tt \in [0 .. n + 1 -> Int] /\ \A j \in 0 .. n : tt[j] = tot[j]
    BY DEF Longer
  <2>3. Width(z[n + 1]) \in Nat /\ tt[n + 1] = tot[n] + Width(z[n + 1])
    BY DEF Newest
  <2> QED BY <1>1, <2>1, <2>2, <2>3, WidthsMore
<1> QED BY <1>2, <1>4, <1>5, <1>6 DEF Shaped

(* The invariant of the layout, after a scan.                              *)
LEMMA MeasuredMore ==
  ASSUME NEW n \in Nat, NEW s \in Seq(Tokens), Len(s) = n,
         NEW z \in Seq(Tokens), Len(z) = n + 1,
         NEW d, NEW g, NEW tot, NEW e, NEW h, NEW tt,
         NEW u \in Seq({"whole", "loose", "torn"}), NEW space,
         Measured(s, n, d, g, tot, u, space), Commits(s, z, n, d, tot, e),
         Longer(n, d, g, tot, e, h, tt), Newest(z, n, d, g, tot, e, h, tt),
         Alternating(z),
         \A p \in Unsized(z) : p <= n => ~Shut(e, h, p, n + 1)
  PROVE  Measured(z, n + 1, e, h, tt, u, space)
<1>1. /\ Shaped(s, n, d, g, tot)
      /\ Awaited(s, n, d, g, tot) /\ Stacked(s, n, d) /\ Alternating(s)
      /\ GroupsMeasured(s, n, d, tot) /\ BreaksMeasured(s, n, d, g, tot, u)
      /\ UnitsFit(n, d, g, tot, u, space)
  BY DEF Measured
<1>2. Shaped(z, n + 1, e, h, tt)
  BY <1>1, ShapedMore
<1>3. /\ \A j \in 0 .. n : e[j] = d[j] /\ h[j] = g[j] /\ tt[j] = tot[j]
      /\ \A j \in 0 .. n : e[j] \in Nat /\ tot[j] \in Int
      /\ e[n + 1] \in Nat /\ tt[n + 1] \in Int /\ tot[n] <= tt[n + 1]
      /\ \A i \in 0 .. n, j \in 0 .. n : i <= j => tot[i] <= tot[j]
  <2>1. \A j \in 0 .. n : e[j] = d[j] /\ h[j] = g[j] /\ tt[j] = tot[j]
    BY DEF Longer
  <2>2. \A j \in 0 .. n : e[j] \in Nat /\ tot[j] \in Int
    <3>1. \A j \in 0 .. n : j \in 0 .. n + 1
      OBVIOUS
    <3> QED BY <2>1, <3>1 DEF Longer
  <2>3. e[n + 1] \in Nat /\ tt[n + 1] \in Int
    BY DEF Longer
  <2>4. tot[n] <= tt[n + 1]
    <3>1. n \in 0 .. n
      OBVIOUS
    <3> QED BY <2>2, <3>1 DEF Newest
  <2>5. \A i \in 0 .. n, j \in 0 .. n : i <= j => tot[i] <= tot[j]
    BY <1>1 DEF Shaped, Widths
  <2> QED BY <2>1, <2>2, <2>3, <2>4, <2>5
<1>4. ASSUME NEW j \in 1 .. n
      PROVE  /\ z[j].class = s[j].class
             /\ s[j].size >= 0 => z[j].size = s[j].size
             /\ z[j].size < 0 => j \in Unsized(s) /\ z[j].size = s[j].size
             /\ s[j].size \in Int /\ z[j].size \in Int
  <2>1. s[j] \in Tokens /\ z[j] \in Tokens
    OBVIOUS
  <2>2. s[j].size \in Int /\ z[j].size \in Int
    BY <2>1 DEF Tokens
  <2>3. CASE z[j].size = s[j].size
    BY <2>2, <2>3 DEF Commits, Unsized
  <2>4. CASE j \in Unsized(s) /\ z[j].size = tot[n] - tot[j - 1]
    <3>1. j - 1 \in 0 .. n /\ n \in 0 .. n /\ j - 1 <= n
      OBVIOUS
    <3>2. z[j].size >= 0
      BY <1>3, <2>4, <3>1
    <3>3. s[j].size < 0
      BY <2>4 DEF Unsized
    <3> QED BY <2>2, <3>2, <3>3 DEF Commits
  <2> QED BY <2>3, <2>4 DEF Commits
<1>5. \A p \in Unsized(z) : p \in 1 .. n + 1 /\ z[p].size < 0
                            /\ (p # n + 1 => p \in 1 .. n)
  BY DEF Unsized
<1>6. ASSUME NEW p \in 0 .. n, NEW q \in 0 .. n
      PROVE  Shut(e, h, p, q) <=> Shut(d, g, p, q)
  BY <1>3 DEF Shut
<1>7. Awaited(z, n + 1, e, h, tt)
  <2> SUFFICES ASSUME NEW p \in Unsized(z)
               PROVE  /\ z[p].class \in Begins \cup {"tokenbreak"}
                      /\ z[p].size = -tt[p - 1]
                      /\ \A q \in p .. n + 1 : ~Shut(e, h, p, q)
    BY DEF Awaited
  <2>1. CASE p = n + 1
    <3>1. p - 1 = n /\ n \in 0 .. n /\ \A q \in p .. n + 1 : q = p
      BY <2>1
    <3>2. ~Shut(e, h, p, p)
      BY <1>3, <2>1 DEF Longer, Shut
    <3> QED BY <1>3, <1>5, <2>1, <3>1, <3>2 DEF Newest
  <2>2. CASE p # n + 1
    <3>1. p \in 1 .. n /\ p \in Unsized(s) /\ z[p].size = s[p].size
          /\ z[p].class = s[p].class
      BY <1>4, <1>5, <2>2
    <3>2. /\ s[p].class \in Begins \cup {"tokenbreak"}
          /\ s[p].size = -tot[p - 1]
          /\ \A q \in p .. n : ~Shut(d, g, p, q)
      BY <1>1, <3>1 DEF Awaited
    <3>3. p - 1 \in 0 .. n /\ p \in 0 .. n /\ p <= n
      BY <3>1
    <3>4. ASSUME NEW q \in p .. n + 1 PROVE ~Shut(e, h, p, q)
      <4>1. CASE q = n + 1
        BY <3>3, <4>1
      <4>2. CASE q # n + 1
        <5>1. q \in p .. n /\ q \in 0 .. n
          BY <3>3, <4>2
        <5> QED BY <1>6, <3>2, <3>3, <5>1
      <4> QED BY <4>1, <4>2
    <3> QED BY <1>3, <3>1, <3>2, <3>3, <3>4
  <2> QED BY <2>1, <2>2
<1>8. Stacked(z, n + 1, e)
  <2> SUFFICES ASSUME NEW p \in Unsized(z), NEW r \in p + 1 .. n + 1,
                      z[r].class \in Begins, \A j \in r .. n + 1 : e[r] <= e[j]
               PROVE  z[r].size < 0
    BY DEF Stacked
  <2>1. p \in 1 .. n + 1
    BY <1>5
  <2>2. CASE r = n + 1
    <3>1. z[r] \in Tokens
      BY <2>2
    <3>2. z[r].size \in Int
      BY <3>1 DEF Tokens
    <3> QED BY <2>2, <3>2 DEF Newest
  <2>3. CASE r # n + 1
    <3>1. p \in 1 .. n /\ r \in 1 .. n /\ p \in Unsized(s) /\ r \in p + 1 .. n
          /\ z[r].class = s[r].class /\ r \in 0 .. n
      BY <1>4, <1>5, <2>1, <2>3
    <3>2. \A j \in r .. n : d[r] <= d[j]
      <4>1. \A j \in r .. n : j \in r .. n + 1 /\ j \in 0 .. n
        BY <3>1
      <4> QED BY <1>3, <3>1, <4>1
    <3>3. s[r].size < 0
      BY <1>1, <3>1, <3>2 DEF Stacked
    <3>4. n + 1 \in r .. n + 1
      BY <3>1
    <3>5. ~(e[n + 1] < d[r])
      <4>1. e[r] <= e[n + 1] /\ e[r] = d[r] /\ e[r] \in Nat
        BY <1>3, <3>1, <3>4
      <4> QED BY <1>3, <4>1
    <3>6. z[r].size = s[r].size
      BY <3>1, <3>5 DEF Commits
    <3> QED BY <3>3, <3>6
  <2> QED BY <2>2, <2>3
<1>9. GroupsMeasured(z, n + 1, e, tt)
  <2> SUFFICES ASSUME NEW p \in 1 .. n + 1, z[p].class \in Begins, z[p].size >= 0
               PROVE  \/ z[p].size = HardBreak
                      \/ \E q \in p + 1 .. n + 1 :
                           e[q] < e[p] /\ tt[q] - tt[p - 1] <= z[p].size
    BY DEF GroupsMeasured
  <2>1. p \in 1 .. n /\ p \in 0 .. n /\ p - 1 \in 0 .. n
    <3>1. p # n + 1
      BY DEF Newest
    <3> QED BY <3>1
  <2>2. CASE z[p].size = s[p].size
    <3>1. \/ s[p].size = HardBreak
          \/ \E q \in p + 1 .. n : d[q] < d[p] /\ tot[q] - tot[p - 1] <= s[p].size
      BY <1>1, <1>4, <2>1, <2>2 DEF GroupsMeasured
    <3>2. \A q \in p + 1 .. n : q \in p + 1 .. n + 1 /\ q \in 0 .. n
      BY <2>1
    <3> QED BY <1>3, <2>1, <2>2, <3>1, <3>2
  <2>3. CASE z[p].size # s[p].size
    <3>1. z[p].size = tot[n] - tot[p - 1] /\ e[n + 1] < d[p] /\ p \in Unsized(s)
      BY <1>4, <2>1, <2>3 DEF Commits
    <3>2. tt[n + 1] = tot[n]
      <4>1. d[p] <= d[n]
        <5>1. p \in p .. n /\ n \in p .. n
          BY <2>1
        <5>2. ~Shut(d, g, p, n)
          BY <1>1, <3>1, <5>1 DEF Awaited
        <5>3. d[p] \in g[p]
          <6>1. Leveled(s, n, d, g) /\ s[p].class \in Begins
            BY <1>1, <1>4, <2>1 DEF Shaped
          <6> QED BY <2>1, <6>1, StepStays
        <5>4. d[p] \in Nat /\ d[n] \in Nat
          <6>1. n \in 0 .. n
            OBVIOUS
          <6> QED BY <1>3, <2>1, <6>1
        <5> QED BY <5>2, <5>3, <5>4 DEF Shut
      <4>2. n \in 0 .. n /\ d[p] \in Nat /\ d[n] \in Nat
        <5>1. n \in 0 .. n
          OBVIOUS
        <5> QED BY <1>3, <2>1, <5>1
      <4>3. e[n + 1] < d[n]
        BY <1>3, <3>1, <4>1, <4>2
      <4>4. z[n + 1].class \in Pops
        <5>1. n + 1 \in 1 .. n + 1 /\ (n + 1) - 1 = n /\ Leveled(z, n + 1, e, h)
          BY <1>2 DEF Shaped
        <5>2. z[n + 1].class \notin Pops => e[n] <= e[n + 1]
          BY <5>1, StepStays
        <5> QED BY <1>3, <4>2, <4>3, <5>2
      <4>5. Width(z[n + 1]) = 0
        <5>1. z[n + 1].class = "end_indent" => Width(z[n + 1]) = 0
          BY DEF Width
        <5> QED BY <4>4, <5>1, LevelRoles DEF Newest
      <4>6. tot[n] \in Int
        BY <1>3, <4>2
      <4> QED BY <4>5, <4>6 DEF Newest
    <3>3. n + 1 \in p + 1 .. n + 1 /\ e[n + 1] < e[p]
          /\ tt[n + 1] - tt[p - 1] <= z[p].size
      <4>1. n + 1 \in p + 1 .. n + 1 /\ n \in 0 .. n
        BY <2>1
      <4>2. tot[n] \in Int /\ tot[p - 1] \in Int /\ tt[p - 1] = tot[p - 1]
        BY <1>3, <2>1, <4>1
      <4> QED BY <1>3, <2>1, <3>1, <3>2, <4>1, <4>2
    <3> QED BY <3>3
  <2> QED BY <2>2, <2>3
<1>10. BreaksMeasured(z, n + 1, e, h, tt, u)
  <2> SUFFICES ASSUME NEW p \in 1 .. n + 1, z[p].class = "tokenbreak", z[p].size >= 0
               PROVE  \/ /\ Within(tt, p, z[p].size, n + 1)
                         /\ \A q \in p + 1 .. n + 1 : Shut(e, h, p, q) =>
                              Within(tt, p, z[p].size, q)
                      \/ NoUnit(z, e, u, p)
    BY DEF BreaksMeasured
  <2>1. p \in 1 .. n /\ p \in 0 .. n /\ p - 1 \in 0 .. n /\ n \in 0 .. n
    <3>1. p # n + 1
      BY DEF Newest
    <3> QED BY <3>1
  <2>2. ASSUME Within(tot, p, z[p].size, n)
        PROVE  Within(tt, p, z[p].size, n + 1)
    <3>1. tot[n] \in Int /\ tot[p - 1] \in Int /\ tt[p - 1] = tot[p - 1]
          /\ z[p].size \in Int
      BY <1>3, <1>4, <2>1
    <3> QED BY <1>3, <2>2, <3>1 DEF Within
  <2>3. ASSUME Within(tot, p, z[p].size, n),
               \A q \in p + 1 .. n : Shut(d, g, p, q) => Within(tot, p, z[p].size, q)
        PROVE  /\ Within(tt, p, z[p].size, n + 1)
               /\ \A q \in p + 1 .. n + 1 : Shut(e, h, p, q) =>
                    Within(tt, p, z[p].size, q)
    <3>1. Within(tt, p, z[p].size, n + 1)
      BY <2>2, <2>3
    <3>2. ASSUME NEW q \in p + 1 .. n + 1, Shut(e, h, p, q)
          PROVE  Within(tt, p, z[p].size, q)
      <4>1. CASE q = n + 1
        BY <3>1, <4>1
      <4>2. CASE q # n + 1
        <5>1. q \in p + 1 .. n /\ q \in 0 .. n
          BY <2>1, <4>2
        <5>2. Within(tot, p, z[p].size, q)
          BY <1>6, <2>1, <2>3, <3>2, <5>1
        <5> QED BY <1>3, <2>1, <5>1, <5>2 DEF Within
      <4> QED BY <4>1, <4>2
    <3> QED BY <3>1, <3>2
  <2>4. CASE z[p].size = s[p].size
    <3>1. \/ /\ Within(tot, p, s[p].size, n)
             /\ \A q \in p + 1 .. n : Shut(d, g, p, q) => Within(tot, p, s[p].size, q)
          \/ NoUnit(s, d, u, p)
      BY <1>1, <1>4, <2>1, <2>4 DEF BreaksMeasured
    <3>2. ASSUME NoUnit(s, d, u, p) PROVE NoUnit(z, e, u, p)
      <4>1. ASSUME NEW r \in 1 .. p - 1, z[r].class \in Begins,
                   \A j \in r .. p : e[r] <= e[j]
            PROVE  z[r].size = HardBreak
        <5>1. r \in 1 .. n /\ r \in 0 .. n /\ \A j \in r .. p : j \in 0 .. n
          BY <2>1
        <5>2. \A j \in r .. p : d[r] <= d[j]
          BY <1>3, <4>1, <5>1
        <5>3. s[r].size = HardBreak /\ HardBreak \in Nat
          BY <1>4, <3>2, <4>1, <5>1, <5>2, Assumed DEF NoUnit
        <5> QED BY <1>4, <5>1, <5>3
      <4>2. ASSUME NEW i \in 1 .. Len(u), \A j \in 0 .. p : i <= e[j]
            PROVE  u[i] # "whole"
        <5>1. \A j \in 0 .. p : j \in 0 .. n
          BY <2>1
        <5>2. \A j \in 0 .. p : i <= d[j]
          BY <1>3, <4>2, <5>1
        <5> QED BY <3>2, <5>2 DEF NoUnit
      <4> QED BY <4>1, <4>2 DEF NoUnit
    <3> QED BY <2>3, <2>4, <3>1, <3>2
  <2>5. CASE z[p].size # s[p].size
    <3>1. z[p].size = tot[n] - tot[p - 1] /\ p \in Unsized(s)
      BY <2>1, <2>5 DEF Commits
    <3>2. Within(tot, p, z[p].size, n)
      <4>1. tot[n] \in Int /\ tot[p - 1] \in Int
        BY <1>3, <2>1
      <4> QED BY <3>1, <4>1 DEF Within
    <3>3. \A q \in p + 1 .. n : ~Shut(d, g, p, q)
      <4>1. \A q \in p + 1 .. n : q \in p .. n
        BY <2>1
      <4> QED BY <1>1, <3>1, <4>1 DEF Awaited
    <3> QED BY <2>3, <3>2, <3>3
  <2> QED BY <2>4, <2>5
<1>11. UnitsFit(n + 1, e, h, tt, u, space)
  <2> SUFFICES ASSUME NEW i \in 1 .. Len(u)
               PROVE  /\ u[i] # "torn"
                      /\ u[i] = "whole" =>
                           /\ i \in h[0]
                           /\ \E q \in 1 .. n + 1 : e[q] < i /\ tt[q] - tt[0] <= space
    BY DEF UnitsFit
  <2>1. /\ u[i] # "torn"
        /\ u[i] = "whole" =>
             i \in g[0] /\ \E q \in 1 .. n : d[q] < i /\ tot[q] - tot[0] <= space
    BY <1>1 DEF UnitsFit
  <2>2. 0 \in 0 .. n /\ \A q \in 1 .. n : q \in 1 .. n + 1 /\ q \in 0 .. n
    OBVIOUS
  <2> QED BY <1>3, <2>1, <2>2
<1> QED BY <1>2, <1>7, <1>8, <1>9, <1>10, <1>11 DEF Measured

(* A commit leaves the class and the width of the tokens as they are.      *)
LEMMA ResizeWidth ==
  ASSUME NEW s \in Seq(Tokens), NEW i \in 1 .. Len(s), NEW size \in Int,
         s[i].class # "tokenstring"
  PROVE  \A j \in 1 .. Len(s) :
           Width(Resize(s, i, size)[j]) = Width(s[j]) /\ Width(s[j]) \in Int
<1> SUFFICES ASSUME NEW j \in 1 .. Len(s)
             PROVE  Width(Resize(s, i, size)[j]) = Width(s[j]) /\ Width(s[j]) \in Int
  OBVIOUS
<1>1. /\ j # i => Resize(s, i, size)[j] = s[j]
      /\ Resize(s, i, size)[j].class = s[j].class
      /\ Resize(s, i, size)[j].num = s[j].num
  BY ResizeTokens
<1>2. s[j] \in Tokens
  OBVIOUS
<1>3. Width(s[j]) \in Int
  BY <1>2 DEF Width, Tokens
<1>4. j = i => Width(Resize(s, i, size)[j]) = Width(s[j])
  BY <1>1 DEF Width
<1> QED BY <1>1, <1>3, <1>4

LEMMA ShapedAs ==
  ASSUME NEW n \in Nat, NEW s, NEW z, NEW d, NEW g, NEW tot,
         Shaped(s, n, d, g, tot),
         \A j \in 1 .. n : z[j].class = s[j].class /\ Width(z[j]) = Width(s[j])
  PROVE  Shaped(z, n, d, g, tot)
<1>1. Leveled(z, n, d, g)
  BY DEF Shaped, Leveled
<1>2. Widths(z, n, tot)
  BY DEF Shaped, Widths
<1> QED BY <1>1, <1>2 DEF Shaped

(* The loop for text that does not fit takes the earliest token with no    *)
(* size, and the groups around it have been taken before, or printed.      *)
LEMMA MeasuredForced ==
  ASSUME NEW n \in Nat, NEW s \in Seq(Tokens), Len(s) = n,
         NEW d, NEW g, NEW tot, NEW u \in Seq({"whole", "loose", "torn"}), NEW space,
         Measured(s, n, d, g, tot, u, space), NEW i, FirstOpen(s, i)
  PROVE  Measured(Resize(s, i, HardBreak), n, d, g, tot, u, space)
<1> DEFINE z == Resize(s, i, HardBreak)
<1>1. /\ Shaped(s, n, d, g, tot)
      /\ Awaited(s, n, d, g, tot) /\ Stacked(s, n, d) /\ Alternating(s)
      /\ GroupsMeasured(s, n, d, tot) /\ BreaksMeasured(s, n, d, g, tot, u)
      /\ UnitsFit(n, d, g, tot, u, space)
  BY DEF Measured
<1>2. i \in 1 .. n /\ i \in Unsized(s) /\ s[i].size < 0 /\ HardBreak \in Nat
      /\ \A j \in Unsized(s) : i <= j
  BY Assumed DEF FirstOpen, Unsized
<1>3. s[i].class \in Begins \cup {"tokenbreak"} /\ s[i].class # "tokenstring"
      /\ \A q \in i .. n : ~Shut(d, g, i, q)
  BY <1>1, <1>2, LevelRoles DEF Awaited
<1>4. /\ z \in Seq(Tokens) /\ Len(z) = n /\ z[i].size = HardBreak
      /\ \A j \in 1 .. n : z[j].class = s[j].class /\ (j # i => z[j] = s[j])
  BY <1>2, ResizeTokens
<1>5. \A j \in 1 .. n : Width(z[j]) = Width(s[j])
  BY <1>2, <1>3, ResizeWidth
<1>6. Unsized(z) = Unsized(s) \ {i}
  BY <1>2, ResizeOpen
<1> HIDE DEF z
<1>7. Shaped(z, n, d, g, tot)
  BY <1>1, <1>4, <1>5, ShapedAs
<1>8. \A p \in Unsized(z) : p \in 1 .. n /\ p # i /\ i < p /\ p \in Unsized(s) /\ z[p] = s[p]
  BY <1>2, <1>4, <1>6 DEF Unsized
<1>9. Awaited(z, n, d, g, tot)
  BY <1>1, <1>8 DEF Awaited
<1>10. Stacked(z, n, d)
  <2> SUFFICES ASSUME NEW p \in Unsized(z), NEW r \in p + 1 .. n,
                      z[r].class \in Begins, \A j \in r .. n : d[r] <= d[j]
               PROVE  z[r].size < 0
    BY DEF Stacked
  <2>1. r \in 1 .. n /\ r # i /\ z[r] = s[r]
    <3>1. p \in 1 .. n /\ i < p
      BY <1>8
    <3>2. r \in 1 .. n /\ r # i
      BY <1>2, <3>1
    <3> QED BY <1>4, <3>2
  <2> QED BY <1>1, <1>8, <2>1 DEF Stacked
<1>11. Alternating(z)
  <2> SUFFICES ASSUME NEW p \in Unsized(z), NEW r \in Unsized(z), p < r,
                      z[p].class \notin Begins, z[r].class \notin Begins
               PROVE  \E b \in Unsized(z) : p < b /\ b < r /\ z[b].class \in Begins
    BY DEF Alternating
  <2>1. PICK b \in Unsized(s) : p < b /\ b < r /\ s[b].class \in Begins
    BY <1>1, <1>8 DEF Alternating
  <2>2. b \in 1 .. n /\ b # i
    BY <1>2, <1>8, <2>1 DEF Unsized
  <2> QED BY <1>4, <1>6, <2>1, <2>2
<1>12. GroupsMeasured(z, n, d, tot)
  <2> SUFFICES ASSUME NEW p \in 1 .. n, z[p].class \in Begins, z[p].size >= 0
               PROVE  \/ z[p].size = HardBreak
                      \/ \E q \in p + 1 .. n : d[q] < d[p] /\ tot[q] - tot[p - 1] <= z[p].size
    BY DEF GroupsMeasured
  <2>1. p # i => z[p] = s[p]
    BY <1>4
  <2> QED BY <1>1, <1>4, <2>1 DEF GroupsMeasured
<1>13. \A p \in 0 .. n : d[p] \in Nat
  BY <1>1 DEF Shaped, Leveled
<1>14. ASSUME s[i].class = "tokenbreak"
       PROVE  NoUnit(z, d, u, i)
  <2>1. ASSUME NEW r \in 1 .. i - 1, z[r].class \in Begins, \A j \in r .. i : d[r] <= d[j]
        PROVE  z[r].size = HardBreak
    <3>1. r \in 1 .. n /\ r \in 0 .. n /\ i \in 0 .. n /\ r < i /\ r <= i /\ z[r] = s[r]
      BY <1>2, <1>4
    <3>2. s[r].size >= 0
      <4>1. r \notin Unsized(s)
        BY <1>2, <3>1
      <4>2. s[r] \in Tokens
        BY <3>1
      <4> QED BY <3>1, <4>1, <4>2 DEF Unsized, Tokens
    <3>3. s[r].class \in Begins
      BY <2>1, <3>1
    <3>4. d[r] \in g[r]
      BY <1>1, <3>1, <3>3, StepStays DEF Shaped
    <3>5. d[r] \in g[i]
      <4>1. Lasting(n, d, g) /\ d[r] \in Nat
        BY <1>1, <1>13, <3>1 DEF Shaped
      <4> QED BY <2>1, <3>1, <3>4, <4>1 DEF Lasting
    <3>6. ASSUME NEW q \in r + 1 .. n, d[q] < d[r] PROVE FALSE
      <4>1. q \in 0 .. n /\ d[q] \in Nat /\ d[r] \in Nat
        BY <1>13, <3>1
      <4>2. q \notin r .. i
        BY <2>1, <3>6, <4>1
      <4>3. q \in i .. n
        BY <3>1, <4>1, <4>2
      <4> QED BY <1>3, <3>5, <3>6, <4>3 DEF Shut
    <3> QED BY <1>1, <3>1, <3>2, <3>3, <3>6 DEF GroupsMeasured
  <2>2. ASSUME NEW m \in 1 .. Len(u), \A j \in 0 .. i : m <= d[j], u[m] = "whole"
        PROVE  FALSE
    <3>1. m \in g[0] /\ m \in Nat
      BY <1>1, <2>2 DEF UnitsFit
    <3>2. PICK q \in 1 .. n : d[q] < m
      BY <1>1, <2>2 DEF UnitsFit
    <3>3. m \in g[i]
      <4>1. Lasting(n, d, g) /\ 0 \in 0 .. n /\ i \in 0 .. n /\ 0 <= i
        BY <1>1, <1>2 DEF Shaped
      <4> QED BY <2>2, <3>1, <4>1 DEF Lasting
    <3>4. q \notin 0 .. i
      <4>1. d[q] \in Nat
        BY <1>13
      <4> QED BY <2>2, <3>1, <3>2, <4>1
    <3>5. q \in i .. n
      BY <1>2, <3>4
    <3> QED BY <1>3, <3>2, <3>3, <3>5 DEF Shut
  <2> QED BY <2>1, <2>2 DEF NoUnit
<1>15. BreaksMeasured(z, n, d, g, tot, u)
  <2> SUFFICES ASSUME NEW p \in 1 .. n, z[p].class = "tokenbreak", z[p].size >= 0
               PROVE  \/ /\ Within(tot, p, z[p].size, n)
                         /\ \A q \in p + 1 .. n : Shut(d, g, p, q) =>
                              Within(tot, p, z[p].size, q)
                      \/ NoUnit(z, d, u, p)
    BY DEF BreaksMeasured
  <2>1. CASE p = i
    BY <1>4, <1>14, <2>1
  <2>2. CASE p # i
    <3>1. z[p] = s[p]
      BY <1>4, <2>2
    <3>2. \/ /\ Within(tot, p, s[p].size, n)
             /\ \A q \in p + 1 .. n : Shut(d, g, p, q) => Within(tot, p, s[p].size, q)
          \/ NoUnit(s, d, u, p)
      BY <1>1, <3>1 DEF BreaksMeasured
    <3>3. ASSUME NoUnit(s, d, u, p) PROVE NoUnit(z, d, u, p)
      <4>1. ASSUME NEW r \in 1 .. p - 1, z[r].class \in Begins,
                   \A j \in r .. p : d[r] <= d[j]
            PROVE  z[r].size = HardBreak
        <5>1. r \in 1 .. n /\ (r # i => z[r] = s[r]) /\ z[r].class = s[r].class
          BY <1>4
        <5> QED BY <1>4, <3>3, <4>1, <5>1 DEF NoUnit
      <4> QED BY <3>3, <4>1 DEF NoUnit
    <3> QED BY <3>1, <3>2, <3>3
  <2> QED BY <2>1, <2>2
<1>16. UnitsFit(n, d, g, tot, u, space)
  BY <1>1
<1>17. Measured(z, n, d, g, tot, u, space)
  BY <1>7, <1>9, <1>10, <1>11, <1>12, <1>15, <1>16 DEF Measured
<1> QED BY <1>17 DEF z

(* The leftmost token leaves, and its size is known: d, g and tot start    *)
(* one token later.  A level of the new unit is printed as a unit if it    *)
(* was, and the token took its width of the line, or if the token is a     *)
(* group that fits.                                                        *)
After(n, d, e) == \A j \in 0 .. n : e[j] = d[j + 1]

StaysUnit(t, u, v, space, left) ==
  \A i \in 1 .. Len(v) :
    /\ v[i] # "torn"
    /\ v[i] = "whole" =>
         /\ left = space - Width(t)
         /\ \/ i <= Len(u) /\ u[i] = "whole"
            \/ i = Len(u) + 1 /\ t.class \in Begins /\ t.size <= space

LEMMA ShapedAfter ==
  ASSUME NEW n \in Nat, NEW s \in Seq(Tokens), Len(s) = n + 1,
         NEW d, NEW g, NEW tot, Shaped(s, n + 1, d, g, tot),
         NEW e \in [0 .. n -> Nat], NEW h \in [0 .. n -> SUBSET Nat],
         NEW tt \in [0 .. n -> Int],
         After(n, d, e), After(n, g, h), After(n, tot, tt)
  PROVE  Shaped(Tail(s), n, e, h, tt)
<1>1. Len(Tail(s)) = n /\ \A j \in 1 .. n : Tail(s)[j] = s[j + 1]
  OBVIOUS
<1>2. \A j \in 0 .. n : e[j] = d[j + 1] /\ h[j] = g[j + 1] /\ tt[j] = tot[j + 1]
  BY DEF After
<1>3. \A j \in 0 .. n : j + 1 \in 0 .. n + 1
  OBVIOUS
<1>4. \A j \in 1 .. n : j + 1 \in 1 .. n + 1 /\ (j + 1) - 1 = j /\ j \in 0 .. n
                        /\ j - 1 \in 0 .. n /\ (j - 1) + 1 = j
  OBVIOUS
<1>5. Leveled(Tail(s), n, e, h)
  <2>1. ASSUME NEW j \in 0 .. n PROVE \A l \in h[j] : 1 <= l /\ l <= e[j]
    BY <1>2, <1>3 DEF Shaped, Leveled
  <2>2. ASSUME NEW j \in 1 .. n
        PROVE  LevelStep(Tail(s)[j].class, e[j - 1], h[j - 1], e[j], h[j])
    <3>1. LevelStep(s[j + 1].class, d[j], g[j], d[j + 1], g[j + 1])
      BY <1>4 DEF Shaped, Leveled
    <3>2. e[j - 1] = d[j] /\ h[j - 1] = g[j] /\ e[j] = d[j + 1] /\ h[j] = g[j + 1]
      BY <1>2, <1>4
    <3> QED BY <1>1, <3>1, <3>2
  <2> QED BY <2>1, <2>2 DEF Leveled
<1>6. Lasting(n, e, h)
  <2> SUFFICES ASSUME NEW p \in 0 .. n, NEW q \in 0 .. n, NEW l \in Nat,
                      p <= q, \A j \in p .. q : l <= e[j]
               PROVE  l \in h[p] <=> l \in h[q]
    BY DEF Lasting
  <2>1. ASSUME NEW j \in p + 1 .. q + 1 PROVE l <= d[j]
    <3>1. j - 1 \in p .. q /\ j - 1 \in 0 .. n /\ (j - 1) + 1 = j
      OBVIOUS
    <3> QED BY <1>2, <3>1
  <2>2. p + 1 \in 0 .. n + 1 /\ q + 1 \in 0 .. n + 1 /\ p + 1 <= q + 1
    OBVIOUS
  <2>3. l \in g[p + 1] <=> l \in g[q + 1]
    BY <2>1, <2>2 DEF Shaped, Lasting
  <2> QED BY <1>2, <2>3
<1>7. Rising(n, e)
  <2> SUFFICES ASSUME NEW p \in 0 .. n, NEW q \in 0 .. n, NEW l \in Nat,
                      p <= q, e[p] < l, l <= e[q]
               PROVE  \E r \in p + 1 .. q : e[r - 1] < l /\ \A j \in r .. q : l <= e[j]
    BY DEF Rising
  <2>1. p + 1 \in 0 .. n + 1 /\ q + 1 \in 0 .. n + 1 /\ p + 1 <= q + 1
    OBVIOUS
  <2>2. d[p + 1] < l /\ l <= d[q + 1]
    BY <1>2
  <2>3. PICK r \in (p + 1) + 1 .. q + 1 : d[r - 1] < l /\ \A j \in r .. q + 1 : l <= d[j]
    BY <2>1, <2>2 DEF Shaped, Rising
  <2>4. /\ r - 1 \in p + 1 .. q /\ (r - 1) - 1 \in 0 .. n /\ ((r - 1) - 1) + 1 = r - 1
    BY <2>3
  <2>5. e[(r - 1) - 1] < l
    BY <1>2, <2>3, <2>4
  <2>6. ASSUME NEW j \in r - 1 .. q PROVE l <= e[j]
    <3>1. j \in 0 .. n /\ j + 1 \in r .. q + 1
      BY <2>4
    <3> QED BY <1>2, <2>3, <3>1
  <2> QED BY <2>4, <2>5, <2>6
<1>8. Widths(Tail(s), n, tt)
  <2>1. ASSUME NEW j \in 1 .. n PROVE tt[j] = tt[j - 1] + Width(Tail(s)[j])
    <3>1. tot[j + 1] = tot[j] + Width(s[j + 1])
      BY <1>4 DEF Shaped, Widths
    <3>2. tt[j] = tot[j + 1] /\ tt[j - 1] = tot[j]
      BY <1>2, <1>4
    <3> QED BY <1>1, <3>1, <3>2
  <2>2. ASSUME NEW i \in 0 .. n, NEW j \in 0 .. n, i <= j PROVE tt[i] <= tt[j]
    <3>1. i + 1 \in 0 .. n + 1 /\ j + 1 \in 0 .. n + 1 /\ i + 1 <= j + 1
      BY <2>2
    <3>2. tot[i + 1] <= tot[j + 1]
      BY <3>1 DEF Shaped, Widths
    <3> QED BY <1>2, <3>2
  <2> QED BY <2>1, <2>2 DEF Widths
<1> QED BY <1>5, <1>6, <1>7, <1>8 DEF Shaped

LEMMA MeasuredAfter ==
  ASSUME NEW n \in Nat, NEW s \in Seq(Tokens), Len(s) = n + 1, s[1].size >= 0,
         NEW d, NEW g, NEW tot,
         NEW u \in Seq({"whole", "loose", "torn"}), Len(u) = d[0],
         NEW space \in Int, space < HardBreak,
         Measured(s, n + 1, d, g, tot, u, space),
         NEW v \in Seq({"whole", "loose", "torn"}), Len(v) = d[1], NEW left,
         StaysUnit(s[1], u, v, space, left),
         NEW e \in [0 .. n -> Nat], NEW h \in [0 .. n -> SUBSET Nat],
         NEW tt \in [0 .. n -> Int],
         After(n, d, e), After(n, g, h), After(n, tot, tt)
  PROVE  Measured(Tail(s), n, e, h, tt, v, left)
<1> DEFINE z == Tail(s)
<1>1. /\ Shaped(s, n + 1, d, g, tot)
      /\ Awaited(s, n + 1, d, g, tot) /\ Stacked(s, n + 1, d) /\ Alternating(s)
      /\ GroupsMeasured(s, n + 1, d, tot) /\ BreaksMeasured(s, n + 1, d, g, tot, u)
      /\ UnitsFit(n + 1, d, g, tot, u, space)
  BY DEF Measured
<1>2. Len(z) = n /\ \A j \in 1 .. n : z[j] = s[j + 1]
  OBVIOUS
<1>3. Shaped(z, n, e, h, tt)
  BY <1>1, ShapedAfter
<1> HIDE DEF z
<1>4. \A j \in 0 .. n : e[j] = d[j + 1] /\ h[j] = g[j + 1] /\ tt[j] = tot[j + 1]
  BY DEF After
<1>5. \A j \in 0 .. n + 1 : d[j] \in Nat /\ tot[j] \in Int
  BY <1>1 DEF Shaped, Leveled, Widths
<1>6. ASSUME NEW p \in Unsized(z)
      PROVE  /\ p \in 1 .. n /\ p + 1 \in 1 .. n + 1 /\ p + 1 \in Unsized(s)
             /\ z[p] = s[p + 1] /\ p \in 0 .. n /\ p - 1 \in 0 .. n
             /\ (p + 1) - 1 = p /\ (p - 1) + 1 = p
  <2>1. p \in 1 .. n /\ z[p].size < 0
    BY <1>2 DEF Unsized
  <2>2. /\ p + 1 \in 1 .. n + 1 /\ p \in 0 .. n /\ p - 1 \in 0 .. n
        /\ (p + 1) - 1 = p /\ (p - 1) + 1 = p
    BY <2>1
  <2> QED BY <1>2, <2>1, <2>2 DEF Unsized
<1>7. ASSUME NEW p \in 0 .. n, NEW q \in 0 .. n
      PROVE  Shut(e, h, p, q) <=> Shut(d, g, p + 1, q + 1)
  BY <1>4 DEF Shut
<1>8. Awaited(z, n, e, h, tt)
  <2> SUFFICES ASSUME NEW p \in Unsized(z)
               PROVE  /\ z[p].class \in Begins \cup {"tokenbreak"}
                      /\ z[p].size = -tt[p - 1]
                      /\ \A q \in p .. n : ~Shut(e, h, p, q)
    BY DEF Awaited
  <2>1. /\ s[p + 1].class \in Begins \cup {"tokenbreak"}
        /\ s[p + 1].size = -tot[p]
        /\ \A q \in p + 1 .. n + 1 : ~Shut(d, g, p + 1, q)
    BY <1>1, <1>6 DEF Awaited
  <2>2. tt[p - 1] = tot[p]
    BY <1>4, <1>6
  <2>3. ASSUME NEW q \in p .. n PROVE ~Shut(e, h, p, q)
    <3>1. p \in 1 .. n /\ p \in 0 .. n
      BY <1>6
    <3>2. q + 1 \in p + 1 .. n + 1 /\ q \in 0 .. n
      BY <3>1
    <3>3. ~Shut(d, g, p + 1, q + 1)
      BY <2>1, <3>2
    <3> QED BY <1>7, <3>1, <3>2, <3>3
  <2> QED BY <1>6, <2>1, <2>2, <2>3
<1>9. Stacked(z, n, e)
  <2> SUFFICES ASSUME NEW p \in Unsized(z), NEW r \in p + 1 .. n,
                      z[r].class \in Begins, \A j \in r .. n : e[r] <= e[j]
               PROVE  z[r].size < 0
    BY DEF Stacked
  <2>1. p \in 1 .. n /\ p + 1 \in Unsized(s)
    BY <1>6
  <2>2. r \in 1 .. n /\ r \in 0 .. n /\ r + 1 \in (p + 1) + 1 .. n + 1
    BY <2>1
  <2>3. z[r] = s[r + 1]
    BY <1>2, <2>2
  <2>4. ASSUME NEW j \in r + 1 .. n + 1 PROVE d[r + 1] <= d[j]
    <3>1. j - 1 \in r .. n /\ j - 1 \in 0 .. n /\ (j - 1) + 1 = j
      BY <2>2
    <3>2. e[r] <= e[j - 1] /\ e[r] = d[r + 1] /\ e[j - 1] = d[j]
      BY <1>4, <2>2, <3>1
    <3> QED BY <3>2
  <2> QED BY <1>1, <2>1, <2>2, <2>3, <2>4 DEF Stacked
<1>10. Alternating(z)
  <2> SUFFICES ASSUME NEW p \in Unsized(z), NEW r \in Unsized(z), p < r,
                      z[p].class \notin Begins, z[r].class \notin Begins
               PROVE  \E b \in Unsized(z) : p < b /\ b < r /\ z[b].class \in Begins
    BY DEF Alternating
  <2>1. p \in 1 .. n /\ r \in 1 .. n /\ p + 1 < r + 1
    <3>1. p \in 1 .. n /\ r \in 1 .. n
      BY <1>6
    <3> QED BY <3>1
  <2>2. PICK b \in Unsized(s) : p + 1 < b /\ b < r + 1 /\ s[b].class \in Begins
    BY <1>1, <1>6, <2>1 DEF Alternating
  <2>3. b \in 1 .. n + 1 /\ s[b].size < 0
    BY <2>2 DEF Unsized
  <2>4. b - 1 \in 1 .. n /\ (b - 1) + 1 = b /\ p < b - 1 /\ b - 1 < r
    BY <2>1, <2>2, <2>3
  <2>5. z[b - 1] = s[b]
    BY <1>2, <2>4
  <2>6. b - 1 \in Unsized(z)
    BY <1>2, <2>3, <2>4, <2>5 DEF Unsized
  <2> QED BY <2>2, <2>4, <2>5, <2>6
<1>11. GroupsMeasured(z, n, e, tt)
  <2> SUFFICES ASSUME NEW p \in 1 .. n, z[p].class \in Begins, z[p].size >= 0
               PROVE  \/ z[p].size = HardBreak
                      \/ \E q \in p + 1 .. n : e[q] < e[p] /\ tt[q] - tt[p - 1] <= z[p].size
    BY DEF GroupsMeasured
  <2>1. p + 1 \in 1 .. n + 1 /\ z[p] = s[p + 1] /\ (p + 1) - 1 = p
    BY <1>2
  <2>2. \/ s[p + 1].size = HardBreak
        \/ \E q \in (p + 1) + 1 .. n + 1 :
             d[q] < d[p + 1] /\ tot[q] - tot[p] <= s[p + 1].size
    BY <1>1, <2>1 DEF GroupsMeasured
  <2>3. ASSUME NEW q \in (p + 1) + 1 .. n + 1,
               d[q] < d[p + 1], tot[q] - tot[p] <= s[p + 1].size
        PROVE  \E m \in p + 1 .. n : e[m] < e[p] /\ tt[m] - tt[p - 1] <= z[p].size
    <3>1. /\ q - 1 \in p + 1 .. n /\ q - 1 \in 0 .. n /\ (q - 1) + 1 = q
          /\ p \in 0 .. n /\ p - 1 \in 0 .. n /\ (p - 1) + 1 = p
      OBVIOUS
    <3>2. /\ e[q - 1] = d[q] /\ e[p] = d[p + 1] /\ tt[q - 1] = tot[q]
          /\ tt[p - 1] = tot[p]
      BY <1>4, <3>1
    <3> QED BY <2>1, <2>3, <3>1, <3>2
  <2> QED BY <2>1, <2>2, <2>3
<1>12. ASSUME NEW i \in 1 .. Len(v), v[i] = "whole"
       PROVE  /\ left = space - Width(s[1]) /\ Width(s[1]) = tot[1] - tot[0]
              /\ i \in g[1]
              /\ \E q \in 2 .. n + 1 : d[q] < i /\ tot[q] - tot[0] <= space
              /\ \/ i \in 1 .. Len(u) /\ u[i] = "whole"
                 \/ i = d[1] /\ s[1].class \in Begins /\ s[1].size # HardBreak
  <2>1. /\ left = space - Width(s[1])
        /\ \/ i <= Len(u) /\ u[i] = "whole"
           \/ i = Len(u) + 1 /\ s[1].class \in Begins /\ s[1].size <= space
    BY <1>12 DEF StaysUnit
  <2>2. 1 \in 1 .. n + 1 /\ 0 \in 0 .. n + 1 /\ 1 \in 0 .. n + 1 /\ 1 - 1 = 0
    OBVIOUS
  <2>3. d[0] \in Nat /\ d[1] \in Nat /\ tot[0] \in Int /\ tot[1] \in Int
    BY <1>5, <2>2
  <2>4. Width(s[1]) = tot[1] - tot[0]
    <3>1. tot[1] = tot[0] + Width(s[1])
      BY <1>1, <2>2 DEF Shaped, Widths
    <3>2. Width(s[1]) \in Int
      <4>1. s[1] \in Tokens
        BY <2>2
      <4> QED BY <4>1 DEF Width, Tokens
    <3> QED BY <2>3, <3>1, <3>2
  <2>5. i \in Nat /\ 1 <= i /\ i <= d[1]
    BY <2>3
  <2>6. CASE i <= Len(u) /\ u[i] = "whole"
    <3>1. i \in 1 .. Len(u) /\ i <= d[0]
      BY <2>5, <2>6
    <3>2. i \in g[0]
      BY <1>1, <2>6, <3>1 DEF UnitsFit
    <3>3. PICK q \in 1 .. n + 1 : d[q] < i /\ tot[q] - tot[0] <= space
      BY <1>1, <2>6, <3>1 DEF UnitsFit
    <3>4. i \in g[1]
      <4>1. Leveled(s, n + 1, d, g)
        BY <1>1 DEF Shaped
      <4>2. \A l \in Nat : l <= d[0] /\ l <= d[1] => (l \in g[0] <=> l \in g[1])
        BY <2>2, <4>1, StepStays
      <4> QED BY <2>5, <3>1, <3>2, <4>2
    <3>5. q # 1
      BY <2>3, <2>5, <3>3
    <3>6. q \in 2 .. n + 1
      BY <3>5
    <3> QED BY <2>1, <2>4, <2>6, <3>1, <3>3, <3>4, <3>6
  <2>7. CASE i = Len(u) + 1 /\ s[1].class \in Begins /\ s[1].size <= space
    <3>1. d[1] = d[0] + 1 /\ d[1] \in g[1]
      <4>1. Leveled(s, n + 1, d, g)
        BY <1>1 DEF Shaped
      <4> QED BY <2>2, <2>7, <4>1, StepStays
    <3>2. i = d[1]
      BY <2>7, <3>1
    <3>3. s[1].size # HardBreak /\ s[1].size \in Int
      <4>1. s[1] \in Tokens
        BY <2>2
      <4>2. s[1].size \in Int
        BY <4>1 DEF Tokens
      <4> QED BY <2>7, <4>2, Assumed
    <3>4. PICK q \in 1 + 1 .. n + 1 : d[q] < d[1] /\ tot[q] - tot[1 - 1] <= s[1].size
      BY <1>1, <2>2, <2>7, <3>3 DEF GroupsMeasured
    <3>5. q \in 2 .. n + 1 /\ d[q] < i /\ tot[q] - tot[0] <= space
      <4>1. q \in 2 .. n + 1 /\ q \in 0 .. n + 1
        OBVIOUS
      <4>2. tot[q] \in Int
        BY <1>5, <4>1
      <4> QED BY <2>2, <2>3, <2>7, <3>2, <3>3, <3>4, <4>1, <4>2
    <3> QED BY <2>1, <2>4, <2>7, <3>1, <3>2, <3>3, <3>5
  <2> QED BY <2>1, <2>6, <2>7
<1>13. BreaksMeasured(z, n, e, h, tt, v)
  <2> SUFFICES ASSUME NEW p \in 1 .. n, z[p].class = "tokenbreak", z[p].size >= 0
               PROVE  \/ /\ Within(tt, p, z[p].size, n)
                         /\ \A q \in p + 1 .. n : Shut(e, h, p, q) =>
                              Within(tt, p, z[p].size, q)
                      \/ NoUnit(z, e, v, p)
    BY DEF BreaksMeasured
  <2>1. /\ p + 1 \in 1 .. n + 1 /\ z[p] = s[p + 1] /\ (p + 1) - 1 = p
        /\ p \in 0 .. n /\ p - 1 \in 0 .. n /\ (p - 1) + 1 = p /\ n \in 0 .. n
    BY <1>2
  <2>2. \/ /\ Within(tot, p + 1, s[p + 1].size, n + 1)
           /\ \A q \in (p + 1) + 1 .. n + 1 : Shut(d, g, p + 1, q) =>
                Within(tot, p + 1, s[p + 1].size, q)
        \/ NoUnit(s, d, u, p + 1)
    BY <1>1, <2>1 DEF BreaksMeasured
  <2>3. ASSUME NEW q \in 0 .. n
        PROVE  Within(tt, p, z[p].size, q) <=> Within(tot, p + 1, s[p + 1].size, q + 1)
    BY <1>4, <2>1 DEF Within
  <2>4. \A q \in p + 1 .. n : q \in 0 .. n /\ q + 1 \in (p + 1) + 1 .. n + 1
    OBVIOUS
  <2>5. ASSUME Within(tot, p + 1, s[p + 1].size, n + 1),
               \A q \in (p + 1) + 1 .. n + 1 : Shut(d, g, p + 1, q) =>
                 Within(tot, p + 1, s[p + 1].size, q)
        PROVE  /\ Within(tt, p, z[p].size, n)
               /\ \A q \in p + 1 .. n : Shut(e, h, p, q) => Within(tt, p, z[p].size, q)
    <3>1. ASSUME NEW q \in p + 1 .. n, Shut(e, h, p, q)
          PROVE  Within(tt, p, z[p].size, q)
      <4>1. q \in 0 .. n /\ q + 1 \in (p + 1) + 1 .. n + 1
        BY <2>4
      <4> QED BY <1>7, <2>1, <2>3, <2>5, <3>1, <4>1
    <3> QED BY <2>1, <2>3, <2>5, <3>1
  <2>6. \A r \in 1 .. p - 1 :
          r + 1 \in 1 .. (p + 1) - 1 /\ r \in 1 .. n /\ r \in 0 .. n
    OBVIOUS
  <2>7. ASSUME NoUnit(s, d, u, p + 1) PROVE NoUnit(z, e, v, p)
    <3>1. ASSUME NEW r \in 1 .. p - 1, z[r].class \in Begins, \A j \in r .. p : e[r] <= e[j]
          PROVE  z[r].size = HardBreak
      <4>1. r + 1 \in 1 .. (p + 1) - 1 /\ r \in 1 .. n /\ r \in 0 .. n
        BY <2>6
      <4>2. z[r] = s[r + 1]
        BY <1>2, <4>1
      <4>3. ASSUME NEW j \in r + 1 .. p + 1 PROVE d[r + 1] <= d[j]
        <5>1. j - 1 \in r .. p /\ j - 1 \in 0 .. n /\ (j - 1) + 1 = j
          OBVIOUS
        <5>2. e[r] <= e[j - 1] /\ e[r] = d[r + 1] /\ e[j - 1] = d[j]
          BY <1>4, <3>1, <4>1, <5>1
        <5> QED BY <5>2
      <4> QED BY <2>7, <3>1, <4>1, <4>2, <4>3 DEF NoUnit
    <3>2. ASSUME NEW i \in 1 .. Len(v), \A j \in 0 .. p : i <= e[j], v[i] = "whole"
          PROVE  FALSE
      <4>1. ASSUME NEW j \in 1 .. p + 1 PROVE i <= d[j]
        <5>1. j - 1 \in 0 .. p /\ j - 1 \in 0 .. n /\ (j - 1) + 1 = j
          OBVIOUS
        <5> QED BY <1>4, <3>2, <5>1
      <4>2. CASE i \in 1 .. Len(u) /\ u[i] = "whole"
        <5>1. ASSUME NEW j \in 0 .. p + 1 PROVE i <= d[j]
          <6>1. j = 0 \/ j \in 1 .. p + 1
            OBVIOUS
          <6> QED BY <4>1, <4>2, <6>1
        <5> QED BY <2>7, <4>2, <5>1 DEF NoUnit
      <4>3. CASE i = d[1] /\ s[1].class \in Begins /\ s[1].size # HardBreak
        <5>1. 1 \in 1 .. (p + 1) - 1
          OBVIOUS
        <5> QED BY <2>7, <4>1, <4>3, <5>1 DEF NoUnit
      <4> QED BY <1>12, <3>2, <4>2, <4>3
    <3> QED BY <3>1, <3>2 DEF NoUnit
  <2> QED BY <2>1, <2>2, <2>5, <2>7
<1>14. UnitsFit(n, e, h, tt, v, left)
  <2> SUFFICES ASSUME NEW i \in 1 .. Len(v)
               PROVE  /\ v[i] # "torn"
                      /\ v[i] = "whole" =>
                           /\ i \in h[0]
                           /\ \E q \in 1 .. n : e[q] < i /\ tt[q] - tt[0] <= left
    BY DEF UnitsFit
  <2>1. v[i] # "torn"
    BY DEF StaysUnit
  <2>2. ASSUME v[i] = "whole"
        PROVE  i \in h[0] /\ \E q \in 1 .. n : e[q] < i /\ tt[q] - tt[0] <= left
    <3>1. PICK q \in 2 .. n + 1 : d[q] < i /\ tot[q] - tot[0] <= space
      BY <1>12, <2>2
    <3>2. left = space - (tot[1] - tot[0]) /\ i \in g[1]
      BY <1>12, <2>2
    <3>3. q - 1 \in 1 .. n /\ q - 1 \in 0 .. n /\ (q - 1) + 1 = q /\ 0 \in 0 .. n
          /\ 0 + 1 = 1 /\ q \in 0 .. n + 1 /\ 0 \in 0 .. n + 1 /\ 1 \in 0 .. n + 1
      OBVIOUS
    <3>4. e[q - 1] = d[q] /\ tt[q - 1] = tot[q] /\ tt[0] = tot[1] /\ h[0] = g[1]
      BY <1>4, <3>3
    <3>5. tot[q] \in Int /\ tot[0] \in Int /\ tot[1] \in Int
      BY <1>5, <3>3
    <3>6. tt[q - 1] - tt[0] <= left
      <4>1. PICK a \in Int, b \in Int, c \in Int :
              a = tot[q] /\ b = tot[0] /\ c = tot[1]
        BY <3>5
      <4>2. a - b <= space /\ left = space - (c - b)
        BY <3>1, <3>2, <4>1
      <4>3. a - c <= left
        BY <4>2
      <4> QED BY <3>4, <4>1, <4>3
    <3> QED BY <3>1, <3>2, <3>3, <3>4, <3>6
  <2> QED BY <2>1, <2>2
<1>15. Measured(z, n, e, h, tt, v, left)
  BY <1>3, <1>8, <1>9, <1>10, <1>11, <1>13, <1>14 DEF Measured
<1> QED BY <1>15 DEF z

(* A token that does not fit on the line is in no group that does.         *)
LEMMA NoneWhole ==
  ASSUME NEW n \in Nat, NEW s \in Seq(Tokens), Len(s) = n + 1, s[1].size >= 0,
         NEW d, NEW g, NEW tot,
         NEW u \in Seq({"whole", "loose", "torn"}), Len(u) = d[0],
         NEW space \in Int,
         Measured(s, n + 1, d, g, tot, u, space),
         s[1].class \in {"tokenstring", "tokenbreak"}, s[1].size > space
  PROVE  \A i \in 1 .. Len(u) : u[i] = "loose"
<1>1. /\ Shaped(s, n + 1, d, g, tot)
      /\ BreaksMeasured(s, n + 1, d, g, tot, u) /\ UnitsFit(n + 1, d, g, tot, u, space)
  BY DEF Measured
<1>2. 1 \in 1 .. n + 1 /\ 0 \in 0 .. n + 1 /\ 1 \in 0 .. n + 1 /\ 1 - 1 = 0
      /\ s[1] \in Tokens
  OBVIOUS
<1>3. /\ d[0] \in Nat /\ d[1] \in Nat /\ tot[0] \in Int /\ tot[1] \in Int
      /\ tot[1] = tot[0] + Width(s[1]) /\ s[1].size \in Int
  BY <1>1, <1>2 DEF Shaped, Leveled, Widths, Tokens
<1>4. d[1] = d[0] /\ g[1] = g[0]
  <2>1. s[1].class \notin Pushes \cup Pops
    BY NestRoles
  <2>2. LevelStep(s[1].class, d[0], g[0], d[1], g[1])
    BY <1>1, <1>2 DEF Shaped, Leveled
  <2> QED BY <2>1, <2>2 DEF LevelStep
<1>5. ASSUME NEW i \in 1 .. Len(u), u[i] = "whole" PROVE FALSE
  <2>1. i \in g[0] /\ i \in Nat /\ i <= d[0]
    BY <1>1, <1>3, <1>5 DEF UnitsFit
  <2>2. PICK q \in 1 .. n + 1 : d[q] < i /\ tot[q] - tot[0] <= space
    BY <1>1, <1>5 DEF UnitsFit
  <2>3. q \in 0 .. n + 1 /\ tot[q] \in Int /\ tot[1] <= tot[q]
    <3>1. q \in 0 .. n + 1 /\ 1 <= q
      OBVIOUS
    <3>2. tot[1] <= tot[q] /\ tot[q] \in Int
      BY <1>1, <1>2, <3>1 DEF Shaped, Widths
    <3> QED BY <3>1, <3>2
  <2>4. CASE s[1].class = "tokenstring"
    <3>1. Width(s[1]) = s[1].size
      BY <2>4 DEF Width
    <3> QED BY <1>3, <2>2, <2>3, <3>1
  <2>5. CASE s[1].class = "tokenbreak"
    <3>1. \/ \A m \in 1 + 1 .. n + 1 : Shut(d, g, 1, m) => Within(tot, 1, s[1].size, m)
          \/ NoUnit(s, d, u, 1)
      BY <1>1, <1>2, <2>5 DEF BreaksMeasured
    <3>2. Shut(d, g, 1, q)
      BY <1>4, <2>1, <2>2 DEF Shut
    <3>3. q \in 1 + 1 .. n + 1
      <4>1. q # 1
        BY <1>3, <1>4, <2>1, <2>2
      <4> QED BY <4>1
    <3>4. ~Within(tot, 1, s[1].size, q)
      BY <1>2, <1>3, <2>2, <2>3 DEF Within
    <3>5. ~NoUnit(s, d, u, 1)
      <4>1. \A j \in 0 .. 1 : i <= d[j]
        <5>1. \A j \in 0 .. 1 : j = 0 \/ j = 1
          OBVIOUS
        <5> QED BY <1>4, <2>1, <5>1
      <4> QED BY <1>5, <4>1 DEF NoUnit
    <3> QED BY <3>1, <3>2, <3>3, <3>4, <3>5
  <2> QED BY <2>4, <2>5
<1>6. \A i \in 1 .. Len(u) : u[i] # "torn" /\ u[i] \in {"whole", "loose", "torn"}
  BY <1>1 DEF UnitsFit
<1> QED BY <1>5, <1>6

(* With every size known only differences of widths count.                 *)
LEMMA ReachesFrom ==
  ASSUME NEW s \in Seq(Tokens), Unsized(s) = {}, NEW u, NEW space, NEW mid,
         NEW right, NEW new \in Int, Reaches(s, u, space, mid, right)
  PROVE  Reaches(s, u, space, mid, new)
<1>1. PICK n \in Nat : Len(s) = n
  OBVIOUS
<1>2. PICK d, g, tot : ReachedBy(s, n, d, g, tot, u, space, mid, right)
  BY <1>1 DEF Reaches
<1>3. /\ Shaped(s, n, d, g, tot)
      /\ GroupsMeasured(s, n, d, tot) /\ BreaksMeasured(s, n, d, g, tot, u)
      /\ UnitsFit(n, d, g, tot, u, space) /\ tot[n] = right
  BY <1>2 DEF ReachedBy, Measured
<1>4. tot \in [0 .. n -> Int] /\ n \in 0 .. n /\ 0 \in 0 .. n
  BY <1>3 DEF Shaped, Widths
<1>5. PICK k \in Int : right + k = new
  <2>1. right \in Int
    BY <1>3, <1>4
  <2>2. new - right \in Int /\ right + (new - right) = new
    BY <2>1
  <2> QED BY <2>2
<1> DEFINE tt == [j \in 0 .. n |-> tot[j] + k]
<1>6. tt \in [0 .. n -> Int] /\ \A j \in 0 .. n : tt[j] = tot[j] + k /\ tot[j] \in Int
  BY <1>4
<1> HIDE DEF tt
<1>7. \A i, j \in 0 .. n : tt[j] - tt[i] = tot[j] - tot[i]
  BY <1>6
<1>8. Widths(s, n, tt)
  <2>1. ASSUME NEW j \in 1 .. n PROVE tt[j] = tt[j - 1] + Width(s[j])
    <3>1. j \in 0 .. n /\ j - 1 \in 0 .. n /\ s[j] \in Tokens
      BY <1>1
    <3>2. Width(s[j]) \in Int
      BY <3>1 DEF Width, Tokens
    <3>3. tot[j] = tot[j - 1] + Width(s[j])
      BY <1>3 DEF Shaped, Widths
    <3> QED BY <1>6, <3>1, <3>2, <3>3
  <2>2. ASSUME NEW i \in 0 .. n, NEW j \in 0 .. n, i <= j PROVE tt[i] <= tt[j]
    <3>1. tot[i] <= tot[j]
      BY <1>3, <2>2 DEF Shaped, Widths
    <3> QED BY <1>6, <3>1
  <2> QED BY <1>6, <2>1, <2>2 DEF Widths
<1>9. Shaped(s, n, d, g, tt)
  BY <1>3, <1>8 DEF Shaped
<1>10. Awaited(s, n, d, g, tt) /\ Stacked(s, n, d) /\ Alternating(s)
  BY DEF Awaited, Stacked, Alternating
<1>11. GroupsMeasured(s, n, d, tt)
  <2> SUFFICES ASSUME NEW p \in 1 .. n, s[p].class \in Begins, s[p].size >= 0
               PROVE  \/ s[p].size = HardBreak
                      \/ \E q \in p + 1 .. n : d[q] < d[p] /\ tt[q] - tt[p - 1] <= s[p].size
    BY DEF GroupsMeasured
  <2>1. p - 1 \in 0 .. n /\ \A q \in p + 1 .. n : q \in 0 .. n
    OBVIOUS
  <2> QED BY <1>3, <1>7, <2>1 DEF GroupsMeasured
<1>12. BreaksMeasured(s, n, d, g, tt, u)
  <2> SUFFICES ASSUME NEW p \in 1 .. n, s[p].class = "tokenbreak", s[p].size >= 0
               PROVE  \/ /\ Within(tt, p, s[p].size, n)
                         /\ \A q \in p + 1 .. n : Shut(d, g, p, q) =>
                              Within(tt, p, s[p].size, q)
                      \/ NoUnit(s, d, u, p)
    BY DEF BreaksMeasured
  <2>1. p - 1 \in 0 .. n /\ \A q \in p + 1 .. n : q \in 0 .. n
    OBVIOUS
  <2>2. \A q \in 0 .. n : Within(tt, p, s[p].size, q) <=> Within(tot, p, s[p].size, q)
    BY <1>7, <2>1 DEF Within
  <2> QED BY <1>3, <1>4, <2>1, <2>2 DEF BreaksMeasured
<1>13. UnitsFit(n, d, g, tt, u, space)
  <2>1. \A q \in 1 .. n : tt[q] - tt[0] = tot[q] - tot[0]
    BY <1>4, <1>7
  <2> QED BY <1>3, <2>1 DEF UnitsFit
<1>14. tt[n] = new
  BY <1>3, <1>4, <1>5, <1>6
<1>15. ReachedBy(s, n, d, g, tt, u, space, mid, new)
  BY <1>2, <1>9, <1>10, <1>11, <1>12, <1>13, <1>14 DEF ReachedBy, Measured
<1> QED BY <1>1, <1>15 DEF Reaches

(* One token more, and what it does to the nesting.                        *)
Grown(n, f, x) == [j \in 0 .. n + 1 |-> IF j = n + 1 THEN x ELSE f[j]]

LEMMA ReachesMore ==
  ASSUME NEW n \in Nat, NEW s \in Seq(Tokens), Len(s) = n,
         NEW z \in Seq(Tokens), Len(z) = n + 1,
         NEW mid \in Seq(Kinds), NEW next \in Seq(Kinds),
         NestStep(z[n + 1].class, mid, next),
         NEW d, NEW g, NEW tot, NEW u \in Seq({"whole", "loose", "torn"}),
         NEW space, NEW right,
         ReachedBy(s, n, d, g, tot, u, space, mid, right),
         Commits(s, z, n, d, tot, Grown(n, d, Len(next))),
         z[n + 1].class \in Begins \cup {"tokenbreak"} <=> z[n + 1].size < 0,
         z[n + 1].size < 0 => z[n + 1].size = -right,
         Alternating(z),
         \A p \in Unsized(z) : p <= n => \A l \in g[p] : l <= Len(next)
  PROVE  Reaches(z, u, space, next, right + Width(z[n + 1]))
<1> DEFINE e == Grown(n, d, Len(next))
           h == Grown(n, g, GroupLevels(next))
           tt == Grown(n, tot, right + Width(z[n + 1]))
<1>1. /\ Measured(s, n, d, g, tot, u, space) /\ d[n] = Len(mid)
      /\ g[n] = GroupLevels(mid) /\ d[0] = Len(u) /\ tot[n] = right
  BY DEF ReachedBy
<1>2. /\ d \in [0 .. n -> Nat] /\ g \in [0 .. n -> SUBSET Nat]
      /\ tot \in [0 .. n -> Int]
  BY <1>1 DEF Measured, Shaped, Leveled, Widths
<1>3. n \in 0 .. n /\ 0 \in 0 .. n /\ n + 1 \in 1 .. n + 1
  OBVIOUS
<1>4. z[n + 1] \in Tokens /\ right \in Int
  BY <1>1, <1>2, <1>3
<1>5. /\ z[n + 1].size >= 0 <=> ~(z[n + 1].size < 0)
      /\ z[n + 1].class = "tokenstring" => z[n + 1].size >= 0
      /\ z[n + 1].size \in Int /\ z[n + 1].num \in Nat
  <2>1. "tokenstring" \notin Begins \cup {"tokenbreak"}
    BY DEF Begins
  <2>2. z[n + 1].size \in Int /\ z[n + 1].num \in Nat
    BY <1>4 DEF Tokens
  <2> QED BY <2>1, <2>2
<1>6. Width(z[n + 1]) \in Nat
  BY <1>5 DEF Width
<1>7. z[n + 1].class \in Ends => Width(z[n + 1]) = 0
  BY LevelRoles DEF Width
<1>8. /\ LevelStep(z[n + 1].class, Len(mid), GroupLevels(mid),
                   Len(next), GroupLevels(next))
      /\ \A l \in GroupLevels(next) : 1 <= l /\ l <= Len(next)
      /\ Len(next) \in Nat /\ GroupLevels(next) \in SUBSET Nat
  BY NestLevels
<1>9. right + Width(z[n + 1]) \in Int
  BY <1>4, <1>6
<1>10. /\ e \in [0 .. n + 1 -> Nat] /\ e[n + 1] = Len(next)
       /\ \A j \in 0 .. n : e[j] = d[j]
  BY <1>2, <1>8, <1>3 DEF Grown
<1>11. /\ h \in [0 .. n + 1 -> SUBSET Nat] /\ h[n + 1] = GroupLevels(next)
       /\ \A j \in 0 .. n : h[j] = g[j]
  BY <1>2, <1>8, <1>3 DEF Grown
<1>12. /\ tt \in [0 .. n + 1 -> Int] /\ tt[n + 1] = right + Width(z[n + 1])
       /\ \A j \in 0 .. n : tt[j] = tot[j]
  BY <1>2, <1>9, <1>3 DEF Grown
<1>13. Commits(s, z, n, d, tot, e)
  OBVIOUS
<1> HIDE DEF e, h, tt
<1>14. Longer(n, d, g, tot, e, h, tt)
  BY <1>8, <1>10, <1>11, <1>12 DEF Longer
<1>15. Newest(z, n, d, g, tot, e, h, tt)
  BY <1>1, <1>5, <1>6, <1>7, <1>8, <1>10, <1>11, <1>12 DEF Newest
<1>16. ASSUME NEW p \in Unsized(z), p <= n PROVE ~Shut(e, h, p, n + 1)
  <2>1. p \in 0 .. n
    BY <1>16 DEF Unsized
  <2>2. h[p] = g[p] /\ \A l \in g[p] : l <= Len(next) /\ l \in Nat
    BY <1>2, <1>11, <1>16, <2>1
  <2> QED BY <1>8, <1>10, <2>2 DEF Shut
<1>17. Measured(z, n + 1, e, h, tt, u, space)
  BY <1>1, <1>13, <1>14, <1>15, <1>16, MeasuredMore
<1>18. ReachedBy(z, n + 1, e, h, tt, u, space, next, right + Width(z[n + 1]))
  BY <1>1, <1>3, <1>10, <1>11, <1>12, <1>17 DEF ReachedBy
<1> QED BY <1>18 DEF Reaches

(* The tokens scan settles, from the last one with no size.                *)
SettlesFrom(y, w, i, a) ==
  /\ y \in Seq(Tokens) /\ Settles(y, w, i)
  /\ y[i].size = -a /\ y[i].class # "tokenstring"
  /\ rightotal \in Int /\ a <= rightotal

LEMMA SettlesIs ==
  ASSUME NEW m \in Nat, NEW y, Len(y) = m, NEW w, NEW i, NEW a \in Int,
         SettlesFrom(y, w, i, a)
  PROVE  /\ i \in 1 .. m /\ i \in Unsized(y) /\ \A j \in Unsized(y) : j <= i
         /\ w \in Seq(Tokens) /\ Len(w) = m
         /\ w[i].class = y[i].class /\ Width(w[i]) = Width(y[i])
         /\ w[i].size = rightotal - a
         /\ \A j \in 1 .. m : j # i => w[j] = y[j]
         /\ Unsized(w) = Unsized(y) \ {i}
<1> USE DEF SettlesFrom
<1>1. i \in Unsized(y) /\ i \in 1 .. m /\ \A j \in Unsized(y) : j <= i
  BY DEF Settles, LastOpen, Unsized
<1>2. y[i].size + rightotal = rightotal - a /\ rightotal - a \in Int
      /\ ~(rightotal - a < 0)
  OBVIOUS
<1>3. w = Resize(y, i, rightotal - a)
  BY <1>2 DEF Settles
<1>4. PICK k \in Int : k = rightotal - a /\ ~(k < 0)
  BY <1>2
<1>5. /\ w \in Seq(Tokens) /\ Len(w) = m /\ w[i].size = k
      /\ \A j \in 1 .. m : w[j].class = y[j].class /\ (j # i => w[j] = y[j])
  BY <1>1, <1>3, <1>4, ResizeTokens
<1>6. Width(w[i]) = Width(y[i])
  BY <1>1, <1>3, <1>4, ResizeWidth
<1>7. Unsized(w) = Unsized(y) \ {i}
  BY <1>1, <1>3, <1>4, ResizeOpen
<1> QED BY <1>1, <1>4, <1>5, <1>6, <1>7

(* White space on top is settled, if it is there: what is then the last    *)
(* token with no size is a group.                                          *)
Freed(s, y, n, tot, X) ==
  /\ X \subseteq Unsized(s) /\ Unsized(y) = Unsized(s) \ X
  /\ \A j \in 1 .. n : j \notin X => y[j] = s[j]
  /\ \A j \in X : /\ y[j].class = s[j].class /\ s[j].class = "tokenbreak"
                  /\ Width(y[j]) = Width(s[j])
                  /\ y[j].size = tot[n] - tot[j - 1]
                  /\ \A p \in Unsized(s) : p <= j
  /\ \A p \in Unsized(y) :
       \E b \in Unsized(y) : p <= b /\ y[b].class \in Begins

LEMMA OpenSizes ==
  ASSUME NEW n \in Nat, NEW s \in Seq(Tokens), Len(s) = n, NEW d, NEW g, NEW tot,
         NEW u, NEW space, NEW mid, NEW right,
         ReachedBy(s, n, d, g, tot, u, space, mid, right)
  PROVE  \A p \in Unsized(s) :
           /\ p \in 1 .. n /\ s[p].class \in Begins \cup {"tokenbreak"}
           /\ s[p].class # "tokenstring"
           /\ tot[p - 1] \in Int /\ s[p].size = -tot[p - 1] /\ tot[p - 1] <= right
           /\ right \in Int /\ tot[n] = right
<1> SUFFICES ASSUME NEW p \in Unsized(s)
             PROVE  /\ p \in 1 .. n /\ s[p].class \in Begins \cup {"tokenbreak"}
                    /\ s[p].class # "tokenstring"
                    /\ tot[p - 1] \in Int /\ s[p].size = -tot[p - 1] /\ tot[p - 1] <= right
                    /\ right \in Int /\ tot[n] = right
  OBVIOUS
<1>1. p \in 1 .. n /\ p - 1 \in 0 .. n /\ n \in 0 .. n /\ p - 1 <= n
  BY DEF Unsized
<1>2. /\ Shaped(s, n, d, g, tot) /\ Awaited(s, n, d, g, tot) /\ tot[n] = right
  BY DEF ReachedBy, Measured
<1>3. s[p].class \in Begins \cup {"tokenbreak"} /\ s[p].size = -tot[p - 1]
  BY <1>2 DEF Awaited
<1>4. tot[p - 1] \in Int /\ tot[n] \in Int /\ tot[p - 1] <= tot[n]
  BY <1>1, <1>2 DEF Shaped, Widths
<1> QED BY <1>1, <1>2, <1>3, <1>4, LevelRoles

LEMMA BreakFreed ==
  ASSUME NEW n \in Nat, NEW s \in Seq(Tokens), Len(s) = n,
         NEW t \in Tokens, t.size >= 0, NEW d, NEW g, NEW tot, NEW u, NEW space,
         NEW mid, NEW right, ReachedBy(s, n, d, g, tot, u, space, mid, right),
         Unsized(s) # {} => right = rightotal /\ \E i : LastOpen(s, i),
         NEW y, SettlesBreak(Append(s, t), y)
  PROVE  /\ y \in Seq(Tokens) /\ Len(y) = n + 1 /\ y[n + 1] = t
         /\ Alternating(y) /\ \E X : Freed(s, y, n, tot, X)
<1> DEFINE a == Append(s, t)
<1>1. /\ a \in Seq(Tokens) /\ Len(a) = n + 1 /\ a[n + 1] = t
      /\ \A j \in 1 .. n : a[j] = s[j]
  OBVIOUS
<1>2. Unsized(a) = Unsized(s)
  BY AppendOpen
<1>3. SettlesBreak(a, y)
  OBVIOUS
<1> HIDE DEF a
<1>4. \A i : LastOpen(a, i) <=> LastOpen(s, i)
  BY <1>2 DEF LastOpen
<1>5. /\ \A p \in Unsized(s) : p \in 1 .. n
      /\ \A p \in Unsized(s) : s[p].class \in Begins \cup {"tokenbreak"}
  BY OpenSizes
<1>6. Alternating(s)
  BY DEF ReachedBy, Measured
<1>7. ASSUME y = a, \A i : LastOpen(a, i) => a[i].class # "tokenbreak"
      PROVE  /\ y \in Seq(Tokens) /\ Len(y) = n + 1 /\ y[n + 1] = t
             /\ Alternating(y) /\ \E X : Freed(s, y, n, tot, X)
  <2>1. Alternating(y)
    BY <1>1, <1>2, <1>5, <1>6, <1>7 DEF Alternating
  <2>2. ASSUME NEW p \in Unsized(y)
        PROVE  \E b \in Unsized(y) : p <= b /\ y[b].class \in Begins
    <3>1. PICK i : LastOpen(s, i)
      BY <1>2, <1>7, <2>2
    <3>2. i \in Unsized(s) /\ p <= i
      BY <1>2, <1>7, <3>1 DEF LastOpen
    <3>3. y[i].class \in Begins
      BY <1>1, <1>4, <1>5, <1>7, <3>1, <3>2
    <3> QED BY <1>2, <1>7, <3>2, <3>3
  <2>3. Freed(s, y, n, tot, {})
    BY <1>1, <1>2, <1>7, <2>2 DEF Freed
  <2> QED BY <1>1, <1>7, <2>1, <2>3
<1>8. ASSUME NEW i, Settles(a, y, i), a[i].class = "tokenbreak"
      PROVE  /\ y \in Seq(Tokens) /\ Len(y) = n + 1 /\ y[n + 1] = t
             /\ Alternating(y) /\ \E X : Freed(s, y, n, tot, X)
  <2>1. i \in Unsized(s) /\ \A p \in Unsized(s) : p <= i
    BY <1>2, <1>8 DEF Settles, LastOpen
  <2>2. right = rightotal
    BY <2>1
  <2>3. /\ i \in 1 .. n /\ i \in 1 .. n + 1 /\ i # n + 1 /\ n + 1 \in 1 .. n + 1
    BY <1>5, <2>1
  <2>4. PICK w \in Int : w = tot[i - 1] /\ s[i].size = -w /\ w <= rightotal
                         /\ rightotal \in Int /\ tot[n] = rightotal
    BY <2>1, <2>2, OpenSizes
  <2>5. a[i] = s[i] /\ a[i].size = -w /\ a[i].class # "tokenstring"
    BY <1>1, <1>8, <2>3, <2>4
  <2>6. PICK m \in Nat : m = n + 1 /\ Len(a) = m
    BY <1>1
  <2>7. /\ y \in Seq(Tokens) /\ Len(y) = m
        /\ y[i].class = a[i].class /\ Width(y[i]) = Width(a[i])
        /\ y[i].size = rightotal - w
        /\ \A j \in 1 .. m : j # i => y[j] = a[j]
        /\ Unsized(y) = Unsized(a) \ {i}
    <3>1. SettlesFrom(a, y, i, w)
      BY <1>1, <1>8, <2>4, <2>5, <2>6 DEF SettlesFrom
    <3> QED BY <2>6, <3>1, SettlesIs
  <2>8. \A j \in 1 .. n : j \in 1 .. m /\ (j # i => y[j] = s[j])
    BY <1>1, <2>6, <2>7
  <2>9. y[n + 1] = t
    BY <1>1, <2>3, <2>6, <2>7
  <2>10. \A p \in Unsized(y) : p \in Unsized(s) /\ p \in 1 .. n /\ p # i /\ p < i
                               /\ y[p] = s[p]
    BY <1>2, <1>5, <2>1, <2>3, <2>7, <2>8
  <2>11. \A p \in Unsized(s) : p < i => p \in Unsized(y)
    BY <1>2, <2>3, <2>7
  <2>12. Alternating(y)
    <3> SUFFICES ASSUME NEW p \in Unsized(y), NEW r \in Unsized(y), p < r,
                        y[p].class \notin Begins, y[r].class \notin Begins
                 PROVE  \E b \in Unsized(y) : p < b /\ b < r /\ y[b].class \in Begins
      BY DEF Alternating
    <3>1. PICK b \in Unsized(s) : p < b /\ b < r /\ s[b].class \in Begins
      BY <1>6, <2>10 DEF Alternating
    <3>2. b < i
      BY <1>5, <2>3, <2>10, <3>1
    <3>3. b \in Unsized(y) /\ y[b] = s[b]
      BY <2>10, <2>11, <3>2
    <3> QED BY <3>1, <3>3
  <2>13. ASSUME NEW p \in Unsized(y)
         PROVE  \E b \in Unsized(y) : p <= b /\ y[b].class \in Begins
    <3>1. CASE y[p].class \in Begins
      <4>1. p <= p
        BY <2>10
      <4> QED BY <3>1, <4>1
    <3>2. CASE y[p].class \notin Begins
      <4>1. s[i].class \notin Begins
        BY <1>8, <2>5, LevelRoles
      <4>2. PICK b \in Unsized(s) : p < b /\ b < i /\ s[b].class \in Begins
        BY <1>6, <2>1, <2>10, <3>2, <4>1 DEF Alternating
      <4>3. b \in Unsized(y) /\ y[b] = s[b]
        BY <2>10, <2>11, <4>2
      <4>4. p <= b
        BY <1>5, <2>10, <4>2
      <4> QED BY <4>2, <4>3, <4>4
    <3> QED BY <3>1, <3>2
  <2>14. Freed(s, y, n, tot, {i})
    BY <1>2, <1>8, <2>1, <2>4, <2>5, <2>7, <2>8, <2>13 DEF Freed
  <2> QED BY <2>6, <2>7, <2>9, <2>12, <2>14
<1> QED BY <1>3, <1>7, <1>8 DEF SettlesBreak

(* A level after the last token is open after every token with no size:    *)
(* no group around one of them has been closed.                            *)
LEMMA OpenGroups ==
  ASSUME NEW n \in Nat, NEW s \in Seq(Tokens), Len(s) = n, NEW d, NEW g, NEW tot,
         NEW u, NEW space, NEW mid, NEW right,
         ReachedBy(s, n, d, g, tot, u, space, mid, right)
  PROVE  /\ \A p \in Unsized(s) : \A q \in p .. n : \A l \in g[p] :
              l \in Nat /\ d[q] \in Nat /\ l <= d[q]
         /\ \A p \in Unsized(s) : \A l \in g[p] : l <= Len(mid) /\ l \in GroupLevels(mid)
<1>1. /\ Leveled(s, n, d, g) /\ Lasting(n, d, g) /\ Awaited(s, n, d, g, tot)
      /\ d[n] = Len(mid) /\ g[n] = GroupLevels(mid)
  BY DEF ReachedBy, Measured, Shaped
<1>2. ASSUME NEW p \in Unsized(s), NEW q \in p .. n, NEW l \in g[p]
      PROVE  l \in Nat /\ d[q] \in Nat /\ l <= d[q]
  <2>1. p \in 0 .. n /\ q \in 0 .. n
    BY DEF Unsized
  <2>2. l \in Nat /\ d[q] \in Nat
    BY <1>1, <2>1 DEF Leveled
  <2>3. ~(d[q] < l)
    BY <1>1 DEF Awaited, Shut
  <2> QED BY <2>2, <2>3
<1>3. ASSUME NEW p \in Unsized(s), NEW l \in g[p]
      PROVE  l <= Len(mid) /\ l \in GroupLevels(mid)
  <2>1. p \in 0 .. n /\ n \in 0 .. n /\ n \in p .. n /\ p <= n
    BY DEF Unsized
  <2>2. l \in Nat /\ \A q \in p .. n : l <= d[q]
    BY <1>2, <2>1
  <2>3. l \in g[n]
    BY <1>1, <2>1, <2>2 DEF Lasting
  <2> QED BY <1>1, <2>1, <2>2, <2>3
<1> QED BY <1>2, <1>3

LEMMA NestDepth ==
  ASSUME NEW c, NEW a \in Seq(Kinds), NEW b \in Seq(Kinds), NestStep(c, a, b)
  PROVE  /\ Len(a) \in Nat /\ Len(b) \in Nat
         /\ c \notin Pops => Len(a) <= Len(b)
         /\ c \in Pushes => Len(b) = Len(a) + 1
         /\ c \in Pops => Len(b) = Len(a) - 1
         /\ c \notin Pushes \cup Pops => Len(b) = Len(a)
         /\ c \in Ends => Len(a) \in GroupLevels(a)
         /\ c = "end_indent" => Len(a) \notin GroupLevels(a)
<1>1. LevelStep(c, Len(a), GroupLevels(a), Len(b), GroupLevels(b))
  BY NestLevels
<1>2. PICK m \in Nat, k \in Nat : Len(a) = m /\ Len(b) = k
  OBVIOUS
<1>3. /\ c \in Pushes => k = m + 1
      /\ c \in Pops => k = m - 1
      /\ c \notin Pushes \cup Pops => k = m
      /\ c \in Ends => m \in GroupLevels(a)
      /\ c = "end_indent" => m \notin GroupLevels(a)
  BY <1>1, <1>2, LevelRoles DEF LevelStep
<1>4. c \notin Pops => m <= k
  BY <1>3
<1> QED BY <1>2, <1>3, <1>4

(* The token scan has just queued, with a size.                            *)
RenewsLast(a, z, m, size) ==
  /\ z \in Seq(Tokens) /\ Len(z) = m
  /\ z[m].class = a[m].class /\ z[m].num = a[m].num /\ z[m].size = size
  /\ \A j \in 1 .. m : j # m => z[j] = a[j]
  /\ Unsized(z) = Unsized(a) \cup {m}

LEMMA LastResized ==
  ASSUME NEW m \in Nat \ {0}, NEW a \in Seq(Tokens), Len(a) = m,
         NEW size \in Int, size < 0
  PROVE  RenewsLast(a, Resize(a, m, size), m, size)
<1>1. m \in 1 .. Len(a)
  OBVIOUS
<1>2. /\ Resize(a, m, size) \in Seq(Tokens) /\ Len(Resize(a, m, size)) = m
      /\ Resize(a, m, size)[m].class = a[m].class
      /\ Resize(a, m, size)[m].num = a[m].num /\ Resize(a, m, size)[m].size = size
      /\ \A j \in 1 .. m : j # m => Resize(a, m, size)[j] = a[j]
  BY <1>1, ResizeTokens
<1>3. Unsized(Resize(a, m, size)) = Unsized(a) \cup {m}
  BY <1>1, ResizeOpen
<1> QED BY <1>2, <1>3 DEF RenewsLast

(* scan of the start of a group.                                           *)
LEMMA ReachesBegin ==
  ASSUME NEW s \in Seq(Tokens), NEW t \in Tokens, t.size >= 0, t.class \in Begins,
         NEW mid \in Seq(Kinds), NEW next \in Seq(Kinds),
         NestStep(t.class, mid, next),
         NEW u \in Seq({"whole", "loose", "torn"}), NEW space,
         NEW right \in Nat \ {0}, Reaches(s, u, space, mid, right)
  PROVE  Reaches(Resize(Append(s, t), Len(s) + 1, -right), u, space, next, right)
<1>1. PICK n \in Nat : Len(s) = n
  OBVIOUS
<1>2. PICK d, g, tot : ReachedBy(s, n, d, g, tot, u, space, mid, right)
  BY <1>1 DEF Reaches
<1> DEFINE a == Append(s, t)
           z == Resize(a, n + 1, -right)
<1>3. /\ a \in Seq(Tokens) /\ Len(a) = n + 1 /\ a[n + 1] = t
      /\ \A j \in 1 .. n : a[j] = s[j]
      /\ n + 1 \in 1 .. n + 1 /\ \A j \in 1 .. n : j \in 1 .. n + 1 /\ j # n + 1
  BY <1>1
<1>4. -right \in Int /\ -right < 0
  OBVIOUS
<1>5. Unsized(a) = Unsized(s)
  BY AppendOpen
<1> HIDE DEF a
<1>6. /\ z \in Seq(Tokens) /\ Len(z) = n + 1
      /\ z[n + 1].class = t.class /\ z[n + 1].size = -right
      /\ \A j \in 1 .. n : z[j] = s[j]
      /\ Unsized(z) = Unsized(s) \cup {n + 1}
  <2>1. PICK m \in Nat \ {0}, k \in Int : m = n + 1 /\ k = -right /\ k < 0
    BY <1>4
  <2>2. RenewsLast(a, Resize(a, m, k), m, k)
    BY <1>3, <2>1, LastResized
  <2>3. RenewsLast(a, z, n + 1, -right)
    BY <2>1, <2>2
  <2> QED BY <1>3, <1>5, <2>3 DEF RenewsLast
<1>7. Unsized(z) = Unsized(s) \cup {n + 1}
  BY <1>6
<1> HIDE DEF z
<1>8. \A p \in Unsized(s) : p \in 1 .. n
  BY <1>1 DEF Unsized
<1>9. Alternating(z)
  <2>1. Alternating(s)
    BY <1>2 DEF ReachedBy, Measured
  <2>2. \A p \in Unsized(z) : z[p].class \notin Begins => p \in Unsized(s)
    BY <1>6, <1>7
  <2> QED BY <1>6, <1>7, <1>8, <2>1, <2>2 DEF Alternating
<1>10. Commits(s, z, n, d, tot, Grown(n, d, Len(next)))
  BY <1>6 DEF Commits
<1>11. ASSUME NEW p \in Unsized(z), p <= n, NEW l \in g[p] PROVE l <= Len(next)
  <2>1. p \in Unsized(s)
    BY <1>7, <1>11
  <2>2. l <= Len(mid) /\ l \in Nat
    <3>1. n \in p .. n
      BY <1>8, <2>1
    <3> QED BY <1>1, <1>2, <2>1, <3>1, OpenGroups
  <2> QED BY <2>2, NestDepth, LevelRoles
<1>12. Width(z[n + 1]) = 0
  BY <1>6, LevelRoles DEF Width
<1>13. Reaches(z, u, space, next, right + Width(z[n + 1]))
  <2>1. /\ NestStep(z[n + 1].class, mid, next)
        /\ z[n + 1].class \in Begins \cup {"tokenbreak"} <=> z[n + 1].size < 0
        /\ z[n + 1].size < 0 => z[n + 1].size = -right
        /\ \A p \in Unsized(z) : p <= n => \A l \in g[p] : l <= Len(next)
    BY <1>4, <1>6, <1>11
  <2> QED BY <1>1, <1>2, <1>6, <1>9, <1>10, <2>1, ReachesMore
<1> QED BY <1>1, <1>12, <1>13 DEF z, a

(* scan of text, of an indent, or of what only marks.                      *)
LEMMA ReachesOther ==
  ASSUME NEW s \in Seq(Tokens), NEW t \in Tokens, t.size >= 0,
         t.class \in {"begin_indent", "end_indent", "ignore", "tokenstring"},
         NEW mid \in Seq(Kinds), NEW next \in Seq(Kinds),
         NestStep(t.class, mid, next),
         NEW u \in Seq({"whole", "loose", "torn"}), NEW space,
         NEW right, Reaches(s, u, space, mid, right)
  PROVE  Reaches(Append(s, t), u, space, next, right + Width(t))
<1>1. PICK n \in Nat : Len(s) = n
  OBVIOUS
<1>2. PICK d, g, tot : ReachedBy(s, n, d, g, tot, u, space, mid, right)
  BY <1>1 DEF Reaches
<1> DEFINE z == Append(s, t)
<1>3. /\ z \in Seq(Tokens) /\ Len(z) = n + 1 /\ z[n + 1] = t
      /\ \A j \in 1 .. n : z[j] = s[j]
  BY <1>1
<1>4. Unsized(z) = Unsized(s)
  BY AppendOpen
<1> HIDE DEF z
<1>5. \A p \in Unsized(s) : p \in 1 .. n
  BY <1>1 DEF Unsized
<1>6. Alternating(z)
  <2>1. Alternating(s)
    BY <1>2 DEF ReachedBy, Measured
  <2> QED BY <1>3, <1>4, <1>5, <2>1 DEF Alternating
<1>7. Commits(s, z, n, d, tot, Grown(n, d, Len(next)))
  BY <1>3 DEF Commits
<1>8. t.class \notin Ends /\ t.class \notin Begins \cup {"tokenbreak"}
      /\ (t.class \in Pops => t.class = "end_indent")
  BY DEF Begins, Ends, Pops
<1>9. ASSUME NEW p \in Unsized(z), NEW l \in g[p] PROVE l <= Len(next)
  <2>1. p \in Unsized(s) /\ n \in p .. n
    BY <1>4, <1>5
  <2>2. l <= Len(mid) /\ l \in GroupLevels(mid) /\ l \in Nat
    BY <1>1, <1>2, <2>1, OpenGroups
  <2>3. CASE t.class \notin Pops
    <3>1. Len(mid) <= Len(next) /\ Len(mid) \in Nat /\ Len(next) \in Nat
      BY <2>3, NestDepth
    <3> QED BY <2>2, <3>1
  <2>4. CASE t.class = "end_indent"
    <3>1. Len(next) = Len(mid) - 1 /\ Len(mid) \in Nat /\ Len(mid) \notin GroupLevels(mid)
      BY <2>4, NestDepth, LevelRoles
    <3>2. l # Len(mid)
      BY <2>2, <3>1
    <3> QED BY <2>2, <3>1, <3>2
  <2> QED BY <1>8, <2>3, <2>4
<1>10. t.size \in Int
  BY DEF Tokens
<1>11. Reaches(z, u, space, next, right + Width(z[n + 1]))
  <2>1. /\ NestStep(z[n + 1].class, mid, next)
        /\ z[n + 1].class \in Begins \cup {"tokenbreak"} <=> z[n + 1].size < 0
        /\ z[n + 1].size < 0 => z[n + 1].size = -right
        /\ \A p \in Unsized(z) : p <= n => \A l \in g[p] : l <= Len(next)
    BY <1>3, <1>8, <1>9, <1>10
  <2> QED BY <1>1, <1>2, <1>3, <1>6, <1>7, <2>1, ReachesMore
<1> QED BY <1>3, <1>11 DEF z

(* scan of white space: it settles the white space before it.              *)
LEMMA ReachesBreak ==
  ASSUME NEW s \in Seq(Tokens), NEW t \in Tokens, t.size >= 0, t.class = "tokenbreak",
         NEW mid \in Seq(Kinds), NEW u \in Seq({"whole", "loose", "torn"}), NEW space,
         NEW right \in Nat \ {0}, Reaches(s, u, space, mid, right),
         Unsized(s) # {} => right = rightotal /\ \E i : LastOpen(s, i),
         NEW y, SettlesBreak(Append(s, t), y)
  PROVE  Reaches(Resize(y, Len(s) + 1, -right), u, space, mid, right + t.num)
<1>1. PICK n \in Nat : Len(s) = n
  OBVIOUS
<1>2. PICK d, g, tot : ReachedBy(s, n, d, g, tot, u, space, mid, right)
  BY <1>1 DEF Reaches
<1>3. /\ y \in Seq(Tokens) /\ Len(y) = n + 1 /\ y[n + 1] = t
      /\ Alternating(y) /\ \E X : Freed(s, y, n, tot, X)
  BY <1>1, <1>2, BreakFreed
<1>4. PICK X : Freed(s, y, n, tot, X)
  BY <1>3
<1> DEFINE z == Resize(y, n + 1, -right)
<1>5. -right \in Int /\ -right < 0 /\ n + 1 \in 1 .. n + 1
      /\ \A j \in 1 .. n : j \in 1 .. n + 1 /\ j # n + 1
  OBVIOUS
<1>6. /\ z \in Seq(Tokens) /\ Len(z) = n + 1
      /\ z[n + 1].class = t.class /\ z[n + 1].size = -right /\ z[n + 1].num = t.num
      /\ \A j \in 1 .. n : z[j] = y[j]
      /\ Unsized(z) = Unsized(y) \cup {n + 1}
  <2>1. PICK m \in Nat \ {0}, k \in Int : m = n + 1 /\ k = -right /\ k < 0
    BY <1>5
  <2>2. RenewsLast(y, Resize(y, m, k), m, k)
    BY <1>3, <2>1, LastResized
  <2>3. RenewsLast(y, z, n + 1, -right)
    BY <2>1, <2>2
  <2> QED BY <1>3, <1>5, <2>3 DEF RenewsLast
<1>7. Unsized(z) = Unsized(y) \cup {n + 1}
  BY <1>6
<1> HIDE DEF z
<1>8. \A p \in Unsized(y) : p \in Unsized(s) /\ p \in 1 .. n
  BY <1>1, <1>4 DEF Freed, Unsized
<1>9. Alternating(z)
  <2> SUFFICES ASSUME NEW p \in Unsized(z), NEW r \in Unsized(z), p < r,
                      z[p].class \notin Begins, z[r].class \notin Begins
               PROVE  \E b \in Unsized(z) : p < b /\ b < r /\ z[b].class \in Begins
    BY DEF Alternating
  <2>1. p \in Unsized(y)
    <3>1. p # n + 1
      BY <1>7, <1>8
    <3> QED BY <1>7, <3>1
  <2>2. CASE r \in Unsized(y)
    <3>1. PICK b \in Unsized(y) : p < b /\ b < r /\ y[b].class \in Begins
      BY <1>3, <1>6, <1>8, <2>1, <2>2 DEF Alternating
    <3> QED BY <1>6, <1>7, <1>8, <3>1
  <2>3. CASE r = n + 1
    <3>1. PICK b \in Unsized(y) : p <= b /\ y[b].class \in Begins
      BY <1>4, <2>1 DEF Freed
    <3>2. p # b
      BY <1>6, <1>8, <2>1, <3>1
    <3>3. p < b /\ b < r
      BY <1>8, <2>1, <2>3, <3>1, <3>2
    <3> QED BY <1>6, <1>7, <1>8, <3>1, <3>3
  <2> QED BY <1>7, <2>2, <2>3
<1>10. Commits(s, z, n, d, tot, Grown(n, d, Len(mid)))
  <2> SUFFICES ASSUME NEW j \in 1 .. n
               PROVE  /\ z[j].class = s[j].class /\ Width(z[j]) = Width(s[j])
                      /\ \/ z[j].size = s[j].size
                         \/ /\ j \in Unsized(s) /\ z[j].size = tot[n] - tot[j - 1]
                            /\ s[j].class \in Begins =>
                                 Grown(n, d, Len(mid))[n + 1] < d[j]
    BY DEF Commits
  <2>1. CASE j \notin X
    BY <1>4, <1>6, <2>1 DEF Freed
  <2>2. CASE j \in X
    BY <1>4, <1>6, <2>2, LevelRoles DEF Freed
  <2> QED BY <2>1, <2>2
<1>11. NestStep(t.class, mid, mid)
  BY NestSteps
<1>12. ASSUME NEW p \in Unsized(z), p <= n, NEW l \in g[p] PROVE l <= Len(mid)
  <2>1. p \in Unsized(s)
    BY <1>7, <1>8, <1>12
  <2> QED BY <1>1, <1>2, <2>1, OpenGroups
<1>13. Width(z[n + 1]) = t.num
  BY <1>6 DEF Width
<1>14. Reaches(z, u, space, mid, right + Width(z[n + 1]))
  <2>1. /\ NestStep(z[n + 1].class, mid, mid)
        /\ z[n + 1].class \in Begins \cup {"tokenbreak"} <=> z[n + 1].size < 0
        /\ z[n + 1].size < 0 => z[n + 1].size = -right
        /\ \A p \in Unsized(z) : p <= n => \A l \in g[p] : l <= Len(mid)
    BY <1>5, <1>6, <1>11, <1>12
  <2> QED BY <1>1, <1>2, <1>6, <1>9, <1>10, <2>1, ReachesMore
<1> QED BY <1>1, <1>13, <1>14 DEF z

(* The last group with no size is the innermost that is open: one that was *)
(* opened in it and is still open would have no size either.               *)
LastGroup(s, x) ==
  /\ x \in Unsized(s) /\ s[x].class \in Begins
  /\ \A r \in Unsized(s) : s[r].class \in Begins => r <= x

LEMMA LastIsInnermost ==
  ASSUME NEW n \in Nat, NEW s \in Seq(Tokens), Len(s) = n, NEW d, NEW g, NEW tot,
         NEW u, NEW space, NEW mid \in Seq(Kinds), NEW right,
         ReachedBy(s, n, d, g, tot, u, space, mid, right),
         Len(mid) \in GroupLevels(mid), NEW x, LastGroup(s, x)
  PROVE  /\ d[x] = Len(mid) /\ x \in 1 .. n /\ d[x - 1] = d[x] - 1
         /\ d[x] \in Nat
<1>1. /\ Leveled(s, n, d, g) /\ Lasting(n, d, g) /\ Rising(n, d)
      /\ Stacked(s, n, d) /\ d[n] = Len(mid) /\ g[n] = GroupLevels(mid)
  BY DEF ReachedBy, Measured, Shaped
<1>0. /\ x \in Unsized(s) /\ s[x].class \in Begins
      /\ \A r \in Unsized(s) : s[r].class \in Begins => r <= x
  BY DEF LastGroup
<1>2. x \in 1 .. n /\ x \in 0 .. n /\ n \in 0 .. n /\ n \in x .. n /\ x <= n
      /\ x - 1 \in 0 .. n
  BY <1>0 DEF Unsized
<1>3. d[x] \in g[x] /\ d[x] = d[x - 1] + 1
  BY <1>0, <1>1, <1>2, StepStays
<1>4. PICK k \in Nat, m \in Nat, i \in Nat : d[x] = k /\ d[n] = m /\ d[x - 1] = i
  BY <1>1, <1>2 DEF Leveled
<1>5. k <= m
  BY <1>0, <1>2, <1>3, <1>4, OpenGroups
<1>6. ASSUME k < m PROVE FALSE
  <2>1. PICK r \in x + 1 .. n : d[r - 1] < m /\ \A j \in r .. n : m <= d[j]
    <3>1. x \in 0 .. n /\ n \in 0 .. n /\ x <= n /\ d[x] < m /\ m <= d[n]
      BY <1>2, <1>4, <1>6
    <3>2. Rising(n, d)
      BY <1>1
    <3> QED BY <3>1, <3>2 DEF Rising
  <2>2. r \in 1 .. n /\ r \in r .. n /\ r \in 0 .. n /\ r <= n /\ x < r
    BY <1>2
  <2>3. m <= d[r]
    BY <2>1, <2>2
  <2>4. /\ d[r - 1] \in Nat /\ d[r] \in Nat /\ d[r] <= d[r - 1] + 1
        /\ d[r - 1] < d[r] /\ d[r] \in g[r] => s[r].class \in Begins
    BY <1>1, <2>2, StepStays
  <2>5. d[r] = m /\ d[r - 1] < d[r]
    BY <2>1, <2>3, <2>4
  <2>6. m \in g[n]
    BY <1>1, <1>4
  <2>7. m \in g[r]
    BY <1>1, <1>2, <2>1, <2>2, <2>6 DEF Lasting
  <2>8. s[r].class \in Begins
    BY <2>4, <2>5, <2>7
  <2>9. s[r].size < 0
    BY <1>0, <1>1, <2>1, <2>5, <2>8 DEF Stacked
  <2>10. r \in Unsized(s)
    BY <2>2, <2>9 DEF Unsized
  <2>11. r <= x
    BY <1>0, <2>8, <2>10
  <2> QED BY <1>2, <2>2, <2>11
<1> QED BY <1>1, <1>2, <1>3, <1>4, <1>5, <1>6

(* scan of the end of a group: it settles the last white space in it, and  *)
(* the group.                                                              *)
LEMMA ReachesEnd ==
  ASSUME NEW s \in Seq(Tokens), NEW t \in Tokens, t.size >= 0, t.class \in Ends,
         NEW mid \in Seq(Kinds), NEW next \in Seq(Kinds),
         NestStep(t.class, mid, next),
         NEW u \in Seq({"whole", "loose", "torn"}), NEW space,
         NEW right, Reaches(s, u, space, mid, right), rightotal \in Int,
         right = rightotal, Unsized(s) # {} => \E i : LastOpen(s, i),
         NEW y, SettlesBreak(Append(s, t), y), NEW z, SettlesLast(y, z)
  PROVE  Reaches(z, u, space, next, right)
<1>1. PICK n \in Nat : Len(s) = n
  OBVIOUS
<1>2. PICK d, g, tot : ReachedBy(s, n, d, g, tot, u, space, mid, right)
  BY <1>1 DEF Reaches
<1>3. /\ y \in Seq(Tokens) /\ Len(y) = n + 1 /\ y[n + 1] = t
      /\ Alternating(y) /\ \E X : Freed(s, y, n, tot, X)
  BY <1>1, <1>2, BreakFreed
<1>4. PICK X : Freed(s, y, n, tot, X)
  BY <1>3
<1>5. \A p \in Unsized(y) : /\ p \in Unsized(s) /\ p \in 1 .. n
                            /\ y[p] = s[p]
  BY <1>1, <1>4 DEF Freed, Unsized
<1>6. /\ t.class \notin Begins \cup {"tokenbreak"} /\ t.class \in Pops
      /\ Len(mid) \in Nat /\ Len(next) \in Nat /\ Len(next) = Len(mid) - 1
      /\ Len(mid) \in GroupLevels(mid)
  BY NestDepth, LevelRoles
<1>7. Width(t) = 0 /\ t.size \in Int /\ right \in Int
      /\ n + 1 \in 1 .. n + 1 /\ \A j \in 1 .. n : j \in 1 .. n + 1 /\ j # n + 1
  BY LevelRoles DEF Width, Tokens
<1>8. \A j \in 1 .. n : y[j].class = s[j].class /\ Width(y[j]) = Width(s[j])
  BY <1>4 DEF Freed
<1>9. \A j \in 1 .. n :
        \/ y[j].size = s[j].size
        \/ /\ j \in Unsized(s) /\ y[j].size = tot[n] - tot[j - 1]
           /\ s[j].class \in Begins => Grown(n, d, Len(next))[n + 1] < d[j]
  BY <1>4, LevelRoles DEF Freed
<1>10. ASSUME z = y, Unsized(y) = {} PROVE Reaches(z, u, space, next, right)
  <2>1. Commits(s, z, n, d, tot, Grown(n, d, Len(next)))
    BY <1>8, <1>9, <1>10 DEF Commits
  <2>2. /\ NestStep(z[n + 1].class, mid, next)
        /\ z[n + 1].class \in Begins \cup {"tokenbreak"} <=> z[n + 1].size < 0
        /\ z[n + 1].size < 0 => z[n + 1].size = -right
        /\ \A p \in Unsized(z) : p <= n => \A l \in g[p] : l <= Len(next)
        /\ z \in Seq(Tokens) /\ Len(z) = n + 1 /\ Alternating(z)
    BY <1>3, <1>6, <1>7, <1>10
  <2>3. Reaches(z, u, space, next, right + Width(z[n + 1]))
    BY <1>1, <1>2, <2>1, <2>2, ReachesMore
  <2> QED BY <1>3, <1>7, <1>10, <2>3
<1>11. ASSUME NEW x, Settles(y, z, x) PROVE Reaches(z, u, space, next, right)
  <2>1. x \in Unsized(y) /\ \A p \in Unsized(y) : p <= x
    BY <1>11 DEF Settles, LastOpen
  <2>2. x \in 1 .. n /\ x \in Unsized(s) /\ y[x] = s[x]
    BY <1>5, <2>1
  <2>3. y[x].class \in Begins
    <3>1. PICK b \in Unsized(y) : x <= b /\ y[b].class \in Begins
      BY <1>4, <2>1 DEF Freed
    <3>2. b = x
      BY <1>5, <2>1, <3>1
    <3> QED BY <3>1, <3>2
  <2>4. PICK w \in Int : w = tot[x - 1] /\ s[x].size = -w /\ w <= right
                         /\ tot[n] = right
    BY <1>1, <1>2, <2>2, OpenSizes
  <2>5. PICK m \in Nat : m = n + 1 /\ Len(y) = m
    BY <1>3
  <2>6. /\ z \in Seq(Tokens) /\ Len(z) = m
        /\ z[x].class = y[x].class /\ Width(z[x]) = Width(y[x])
        /\ z[x].size = rightotal - w
        /\ \A j \in 1 .. m : j # x => z[j] = y[j]
        /\ Unsized(z) = Unsized(y) \ {x}
    <3>1. y[x].class # "tokenstring"
      BY <2>3, LevelRoles
    <3>2. SettlesFrom(y, z, x, w)
      BY <1>3, <1>11, <2>2, <2>4, <2>5, <3>1 DEF SettlesFrom
    <3> QED BY <2>5, <3>2, SettlesIs
  <2>7. /\ z \in Seq(Tokens) /\ Len(z) = n + 1 /\ z[n + 1] = t
        /\ \A j \in 1 .. n : j # x => z[j] = y[j]
        /\ z[x].size = tot[n] - tot[x - 1]
    BY <1>3, <1>7, <2>2, <2>4, <2>5, <2>6
  <2>8. \A p \in Unsized(z) : p \in Unsized(y) /\ p \in 1 .. n /\ p # x /\ p < x
                              /\ z[p] = y[p]
    BY <1>5, <2>1, <2>2, <2>6, <2>7
  <2>9. Alternating(z)
    <3> SUFFICES ASSUME NEW p \in Unsized(z), NEW r \in Unsized(z), p < r,
                        z[p].class \notin Begins, z[r].class \notin Begins
                 PROVE  \E b \in Unsized(z) : p < b /\ b < r /\ z[b].class \in Begins
      BY DEF Alternating
    <3>1. PICK b \in Unsized(y) : p < b /\ b < r /\ y[b].class \in Begins
      BY <1>3, <2>8 DEF Alternating
    <3>2. b # x
      BY <1>5, <2>2, <2>8, <3>1
    <3>3. b \in Unsized(z) /\ z[b] = y[b]
      BY <2>6, <2>8, <3>1, <3>2
    <3> QED BY <3>1, <3>3
  <2>10. d[x] = Len(mid) /\ d[x - 1] = d[x] - 1 /\ d[x] \in Nat
    <3>1. ASSUME NEW r \in Unsized(s), s[r].class \in Begins PROVE r <= x
      <4>1. r \notin X
        BY <1>4, <3>1, LevelRoles DEF Freed
      <4>2. r \in Unsized(y)
        BY <1>4, <4>1 DEF Freed
      <4> QED BY <2>1, <4>2
    <3>2. s[x].class \in Begins
      BY <2>2, <2>3
    <3>3. LastGroup(s, x)
      BY <2>2, <3>1, <3>2 DEF LastGroup
    <3> QED BY <1>1, <1>2, <1>6, <3>3, LastIsInnermost
  <2>11. Grown(n, d, Len(next))[n + 1] = Len(next)
    <3>1. n + 1 \in 0 .. n + 1
      OBVIOUS
    <3> QED BY <3>1 DEF Grown
  <2>12. Commits(s, z, n, d, tot, Grown(n, d, Len(next)))
    <3> SUFFICES ASSUME NEW j \in 1 .. n
                 PROVE  /\ z[j].class = s[j].class /\ Width(z[j]) = Width(s[j])
                        /\ \/ z[j].size = s[j].size
                           \/ /\ j \in Unsized(s) /\ z[j].size = tot[n] - tot[j - 1]
                              /\ s[j].class \in Begins =>
                                   Grown(n, d, Len(next))[n + 1] < d[j]
      BY DEF Commits
    <3>1. CASE j # x
      BY <1>8, <1>9, <2>7, <3>1
    <3>2. CASE j = x
      <4>1. Grown(n, d, Len(next))[n + 1] < d[x]
        BY <1>6, <2>10, <2>11
      <4> QED BY <1>8, <2>2, <2>6, <2>7, <3>2, <4>1
    <3> QED BY <3>1, <3>2
  <2>13. ASSUME NEW p \in Unsized(z), p <= n, NEW l \in g[p] PROVE l <= Len(next)
    <3>1. p \in Unsized(s) /\ x - 1 \in p .. n
      <4>1. p \in 1 .. n /\ p < x /\ p \in Unsized(s)
        BY <1>5, <2>8
      <4> QED BY <2>2, <4>1
    <3>2. l \in Nat /\ d[x - 1] \in Nat /\ l <= d[x - 1]
      BY <1>1, <1>2, <3>1, OpenGroups
    <3> QED BY <1>6, <2>10, <3>2
  <2>14. /\ NestStep(z[n + 1].class, mid, next)
         /\ z[n + 1].class \in Begins \cup {"tokenbreak"} <=> z[n + 1].size < 0
         /\ z[n + 1].size < 0 => z[n + 1].size = -right
         /\ \A p \in Unsized(z) : p <= n => \A l \in g[p] : l <= Len(next)
    BY <1>6, <1>7, <2>7, <2>13
  <2>15. Reaches(z, u, space, next, right + Width(z[n + 1]))
    BY <1>1, <1>2, <2>7, <2>9, <2>12, <2>14, ReachesMore
  <2> QED BY <1>7, <2>7, <2>15
<1> QED BY <1>10, <1>11 DEF SettlesLast

LEMMA ReachesForced ==
  ASSUME NEW s \in Seq(Tokens), NEW u \in Seq({"whole", "loose", "torn"}), NEW space,
         NEW mid, NEW right, Reaches(s, u, space, mid, right), NEW i, FirstOpen(s, i)
  PROVE  Reaches(Resize(s, i, HardBreak), u, space, mid, right)
<1>1. PICK n \in Nat : Len(s) = n
  OBVIOUS
<1>2. PICK d, g, tot : ReachedBy(s, n, d, g, tot, u, space, mid, right)
  BY <1>1 DEF Reaches
<1>3. Measured(s, n, d, g, tot, u, space)
  BY <1>2 DEF ReachedBy
<1>4. Measured(Resize(s, i, HardBreak), n, d, g, tot, u, space)
  BY <1>1, <1>3, MeasuredForced
<1>5. Len(Resize(s, i, HardBreak)) = n
  <2>1. i \in 1 .. Len(s) /\ HardBreak \in Int
    BY Assumed DEF FirstOpen, Unsized
  <2> QED BY <1>1, <2>1, ResizeTokens
<1>6. ReachedBy(Resize(s, i, HardBreak), n, d, g, tot, u, space, mid, right)
  BY <1>2, <1>4 DEF ReachedBy
<1> QED BY <1>5, <1>6 DEF Reaches

(* The leftmost token is printed, and opens a level, closes one or neither.*)
LEMMA ReachesAfter ==
  ASSUME NEW s \in Seq(Tokens), Len(s) > 0, s[1].size >= 0,
         NEW u \in Seq({"whole", "loose", "torn"}), NEW space \in Int, space < HardBreak,
         NEW mid, NEW right, Reaches(s, u, space, mid, right),
         NEW v \in Seq({"whole", "loose", "torn"}), NEW left,
         s[1].class \in Pushes => Len(v) = Len(u) + 1,
         s[1].class \in Pops => Len(v) = Len(u) - 1,
         s[1].class \notin Pushes \cup Pops => Len(v) = Len(u),
         StaysUnit(s[1], u, v, space, left)
  PROVE  Reaches(Tail(s), v, left, mid, right)
<1>1. PICK n \in Nat : Len(s) = n + 1
  <2>1. Len(s) - 1 \in Nat /\ Len(s) = (Len(s) - 1) + 1
    OBVIOUS
  <2> QED BY <2>1
<1>2. PICK d, g, tot : ReachedBy(s, n + 1, d, g, tot, u, space, mid, right)
  BY <1>1 DEF Reaches
<1>3. /\ Measured(s, n + 1, d, g, tot, u, space)
      /\ d[0] = Len(u) /\ d[n + 1] = Len(mid) /\ g[n + 1] = GroupLevels(mid)
      /\ tot[n + 1] = right
  BY <1>2 DEF ReachedBy
<1>4. /\ Leveled(s, n + 1, d, g)
      /\ d \in [0 .. n + 1 -> Nat] /\ g \in [0 .. n + 1 -> SUBSET Nat]
      /\ tot \in [0 .. n + 1 -> Int]
  BY <1>3 DEF Measured, Shaped, Leveled, Widths
<1>5. Len(v) = d[1]
  <2>1. 1 \in 1 .. n + 1 /\ 1 - 1 = 0
    OBVIOUS
  <2>2. LevelStep(s[1].class, d[0], g[0], d[1], g[1])
    BY <1>4, <2>1 DEF Leveled
  <2>3. /\ s[1].class \in Pushes => d[1] = d[0] + 1
        /\ s[1].class \in Pops => d[1] = d[0] - 1
        /\ s[1].class \notin Pushes \cup Pops => d[1] = d[0]
    BY <2>2, LevelRoles DEF LevelStep
  <2> QED BY <1>3, <2>3
<1> DEFINE e == [j \in 0 .. n |-> d[j + 1]]
           h == [j \in 0 .. n |-> g[j + 1]]
           tt == [j \in 0 .. n |-> tot[j + 1]]
<1>6. \A j \in 0 .. n : j + 1 \in 0 .. n + 1
  OBVIOUS
<1>7. /\ e \in [0 .. n -> Nat] /\ h \in [0 .. n -> SUBSET Nat] /\ tt \in [0 .. n -> Int]
      /\ After(n, d, e) /\ After(n, g, h) /\ After(n, tot, tt)
  BY <1>4, <1>6 DEF After
<1> HIDE DEF e, h, tt
<1>8. Measured(Tail(s), n, e, h, tt, v, left)
  BY <1>1, <1>3, <1>5, <1>7, MeasuredAfter
<1>9. e[0] = d[1] /\ e[n] = d[n + 1] /\ h[n] = g[n + 1] /\ tt[n] = tot[n + 1]
  <2>1. 0 \in 0 .. n /\ n \in 0 .. n /\ 0 + 1 = 1
    OBVIOUS
  <2> QED BY <1>7, <2>1 DEF After
<1>10. ReachedBy(Tail(s), n, e, h, tt, v, left, mid, right)
  BY <1>3, <1>5, <1>8, <1>9 DEF ReachedBy
<1>11. PICK r : r = Tail(s)
  OBVIOUS
<1>12. Len(r) = n
  BY <1>1, <1>11
<1>13. ReachedBy(r, Len(r), e, h, tt, v, left, mid, right)
  BY <1>10, <1>11, <1>12
<1>14. Reaches(r, v, left, mid, right)
  BY <1>13 DEF Reaches
<1> QED BY <1>11, <1>14

LEMMA NoneTorn ==
  ASSUME NEW s \in Seq(Tokens), NEW u, NEW space, NEW mid, NEW right,
         Reaches(s, u, space, mid, right)
  PROVE  \A i \in 1 .. Len(u) : u[i] # "torn"
BY DEF Reaches, ReachedBy, Measured, UnitsFit

LEMMA NoneStaysWhole ==
  ASSUME NEW s \in Seq(Tokens), Len(s) > 0, s[1].size >= 0,
         NEW u \in Seq({"whole", "loose", "torn"}), NEW space \in Int,
         NEW mid, NEW right, Reaches(s, u, space, mid, right),
         s[1].class \in {"tokenstring", "tokenbreak"}, s[1].size > space
  PROVE  \A i \in 1 .. Len(u) : u[i] = "loose"
<1>1. PICK n \in Nat : Len(s) = n + 1
  <2>1. Len(s) - 1 \in Nat /\ Len(s) = (Len(s) - 1) + 1
    OBVIOUS
  <2> QED BY <2>1
<1>2. PICK d, g, tot : ReachedBy(s, n + 1, d, g, tot, u, space, mid, right)
  BY <1>1 DEF Reaches
<1>3. Measured(s, n + 1, d, g, tot, u, space) /\ Len(u) = d[0]
  BY <1>2 DEF ReachedBy
<1> QED BY <1>1, <1>3, NoneWhole, SMTT(40)

(* The actions that print: the units that stay, and the line they take.    *)
LEMMA LetGoUnits ==
  ASSUME IInv, QInv, UnitInv, NEW C, LetGo(C),
         unit' \in Seq({"whole", "loose", "torn"}),
         Leftmost.class \in Pushes => Len(unit') = Len(unit) + 1,
         Leftmost.class \in Pops => Len(unit') = Len(unit) - 1,
         Leftmost.class \notin Pushes \cup Pops => Len(unit') = Len(unit),
         StaysUnit(Leftmost, unit, unit', spaceremain, spaceremain')
  PROVE  UnitInv'
<1>1. /\ Len(Waiting) > 0 /\ Leftmost = Waiting[1] /\ Waiting[1].size >= 0
      /\ Waiting' = Tail(Waiting) /\ todo' = todo /\ nesting' = nesting
      /\ rightotal' = rightotal
  BY LetGoTokens DEF calls
<1>2. PICK mid \in Seq(Kinds) :
        /\ Nests(todo, mid, nesting)
        /\ Reaches(Waiting, unit, spaceremain, mid, rightotal)
  BY DEF UnitInv
<1>3. /\ Waiting \in Seq(Tokens) /\ unit \in Seq({"whole", "loose", "torn"})
      /\ spaceremain \in Int /\ spaceremain < HardBreak
  <2>1. spaceremain \in Int /\ spaceremain <= LineSize
        /\ unit \in Seq({"whole", "loose", "torn"})
    BY DEF IInv, LayoutOK
  <2>2. LineSize < HardBreak /\ LineSize \in Nat /\ HardBreak \in Nat
    BY PrinterAssumption
  <2> QED BY <2>1, <2>2, RightIs
<1>4. Reaches(Tail(Waiting), unit', spaceremain', mid, rightotal)
  BY <1>1, <1>2, <1>3, ReachesAfter
<1>5. Nests(todo', mid, nesting')
      /\ Reaches(Waiting', unit', spaceremain', mid, rightotal')
  BY <1>1, <1>2, <1>4
<1> QED BY <1>5 DEF UnitInv

LEMMA LetGoLoose ==
  ASSUME IInv, QInv, UnitInv, NEW C, LetGo(C)
  PROVE  /\ Leftmost \in Tokens /\ Leftmost.class \in C
         /\ \A i \in 1 .. Len(unit) : unit[i] # "torn"
         /\ (Leftmost.size > spaceremain /\ C \subseteq {"tokenstring", "tokenbreak"}) =>
              \A i \in 1 .. Len(unit) : unit[i] = "loose"
<1>1. /\ Len(Waiting) > 0 /\ Leftmost = Waiting[1] /\ Waiting[1].size >= 0
      /\ Waiting[1].class \in C
  BY LetGoTokens
<1>2. PICK mid \in Seq(Kinds) : Reaches(Waiting, unit, spaceremain, mid, rightotal)
  BY DEF UnitInv
<1>3. /\ Waiting \in Seq(Tokens) /\ unit \in Seq({"whole", "loose", "torn"})
      /\ spaceremain \in Int
  BY RightIs DEF IInv, LayoutOK
<1>4. \A i \in 1 .. Len(unit) : unit[i] # "torn"
  BY <1>2, <1>3, NoneTorn
<1>5. ASSUME Leftmost.size > spaceremain, C \subseteq {"tokenstring", "tokenbreak"}
      PROVE  \A i \in 1 .. Len(unit) : unit[i] = "loose"
  <2>1. Waiting[1].class \in {"tokenstring", "tokenbreak"} /\ Waiting[1].size > spaceremain
    BY <1>1, <1>5
  <2> QED BY <1>1, <1>2, <1>3, <2>1, NoneStaysWhole
<1>6. Leftmost \in Tokens
  BY <1>1, <1>3
<1> QED BY <1>1, <1>4, <1>5, <1>6

LEMMA PrintUnits ==
  ASSUME IInv, QInv, UnitInv, LetGoOne
  PROVE  UnitInv'
<1>1. PICK n \in Nat : Len(unit) = n
  BY DEF IInv, LayoutOK
<1>2. /\ unit \in Seq({"whole", "loose", "torn"}) /\ spaceremain \in Int
      /\ Len(indentstack) = n /\ indentstack \in Seq(Int) /\ DOMAIN unit = 1 .. n
  BY <1>1 DEF IInv, LayoutOK
<1>3. ASSUME NEW C, LetGo(C), C \subseteq {"ignore", "tokenstring", "tokenbreak"},
             unit' = unit, spaceremain' = spaceremain - Width(Leftmost)
      PROVE  UnitInv'
  <2>1. Leftmost.class \in C /\ \A i \in 1 .. Len(unit) : unit[i] # "torn"
    BY <1>3, LetGoLoose
  <2>2. Leftmost.class \notin Pushes \cup Pops
    BY <1>3, <2>1, NestRoles
  <2>3. StaysUnit(Leftmost, unit, unit', spaceremain, spaceremain')
    BY <1>1, <1>3, <2>1 DEF StaysUnit
  <2> QED BY <1>2, <1>3, <2>2, <2>3, LetGoUnits
<1>4. ASSUME NEW C, LetGo(C), C \subseteq {"tokenstring", "tokenbreak"},
             Leftmost.size > spaceremain,
             \/ unit' = unit
             \/ unit' = [i \in DOMAIN unit |->
                           IF unit[i] = "whole" THEN "torn" ELSE unit[i]]
      PROVE  UnitInv'
  <2>1. Leftmost.class \in C /\ \A i \in 1 .. Len(unit) : unit[i] = "loose"
    BY <1>4, LetGoLoose
  <2>2. Leftmost.class \notin Pushes \cup Pops
    BY <1>4, <2>1, NestRoles
  <2>3. /\ unit' \in Seq({"whole", "loose", "torn"}) /\ Len(unit') = Len(unit)
        /\ \A i \in 1 .. Len(unit') : unit'[i] = "loose"
    <3>1. Len(unit') = Len(unit) /\ \A i \in 1 .. Len(unit) : unit'[i] = unit[i]
      BY <1>1, <1>2, <1>4, <2>1
    <3>2. unit' \in Seq({"whole", "loose", "torn"})
      BY <1>1, <1>2, <1>4, <2>1
    <3> QED BY <2>1, <3>1, <3>2
  <2>4. StaysUnit(Leftmost, unit, unit', spaceremain, spaceremain')
    BY <2>3 DEF StaysUnit
  <2> QED BY <1>4, <2>2, <2>3, <2>4, LetGoUnits
<1>5. ASSUME NEW C, LetGo(C), C \subseteq Pushes, spaceremain' = spaceremain, NEW x,
             unit' = Append(unit, x), x \in {"whole", "loose"},
             x = "whole" => Leftmost.class \in Begins /\ Leftmost.size <= spaceremain
      PROVE  UnitInv'
  <2>1. Leftmost.class \in C /\ \A i \in 1 .. Len(unit) : unit[i] # "torn"
    BY <1>5, LetGoLoose
  <2>2. Leftmost.class \in Pushes /\ Leftmost.class \notin Pops
    BY <1>5, <2>1, NestRoles DEF Pushes
  <2>3. Width(Leftmost) = 0
    BY <2>2, LevelRoles DEF Width
  <2>4. /\ unit' \in Seq({"whole", "loose", "torn"}) /\ Len(unit') = n + 1
        /\ unit'[n + 1] = x /\ \A i \in 1 .. n : unit'[i] = unit[i]
    BY <1>1, <1>2, <1>5
  <2>5. StaysUnit(Leftmost, unit, unit', spaceremain, spaceremain')
    <3>1. \A i \in 1 .. n + 1 : i = n + 1 \/ i \in 1 .. n
      OBVIOUS
    <3>2. spaceremain' = spaceremain - 0
      BY <1>2, <1>5
    <3> QED BY <1>1, <1>5, <2>1, <2>3, <2>4, <3>1, <3>2 DEF StaysUnit
  <2> QED BY <1>1, <1>5, <2>2, <2>4, <2>5, LetGoUnits
<1>6. ASSUME PrintIgnore \/ PrintString \/ PrintSpaces PROVE UnitInv'
  <2>1. CASE PrintIgnore
    <3>1. LetGo({"ignore"}) /\ unit' = unit /\ spaceremain' = spaceremain
      BY <2>1 DEF PrintIgnore, layout
    <3>2. Width(Leftmost) = 0
      BY <3>1 DEF LetGo, Width
    <3> QED BY <1>2, <1>3, <3>1, <3>2
  <2>2. CASE PrintString
    <3>1. LetGo({"tokenstring"}) /\ unit' = unit
          /\ spaceremain' = spaceremain - Leftmost.size
      BY <2>2 DEF PrintString, Placed
    <3>2. Width(Leftmost) = Leftmost.size
      BY <3>1 DEF LetGo, Width
    <3> QED BY <1>3, <3>1, <3>2
  <2>3. CASE PrintSpaces
    <3>1. LetGo({"tokenbreak"}) /\ unit' = unit
          /\ spaceremain' = spaceremain - Leftmost.num
      BY <2>3 DEF PrintSpaces, Placed
    <3>2. Width(Leftmost) = Leftmost.num
      BY <3>1 DEF LetGo, Width
    <3> QED BY <1>3, <3>1, <3>2
  <2> QED BY <1>6, <2>1, <2>2, <2>3
<1>7. ASSUME OverflowString PROVE UnitInv'
  BY <1>4, <1>7 DEF OverflowString, NewLine
<1>8. ASSUME PrintLineAt \/ PrintBreak PROVE UnitInv'
  <2>1. LetGo({"tokenbreak"}) /\ ~Fits
    BY <1>8 DEF PrintLineAt, PrintBreak
  <2>2. Leftmost.size > spaceremain
    <3>1. Leftmost \in Tokens
      BY <2>1, LetGoLoose
    <3>2. Leftmost.size \in Int
      BY <3>1 DEF Tokens
    <3> QED BY <1>2, <2>1, <3>2 DEF Fits
  <2>3. \/ unit' = unit
        \/ unit' = [i \in DOMAIN unit |->
                      IF unit[i] = "whole" THEN "torn" ELSE unit[i]]
    BY <1>8 DEF PrintLineAt, PrintBreak, NewLine
  <2> QED BY <1>4, <2>1, <2>2, <2>3
<1>9. ASSUME PrintIndent PROVE UnitInv'
  <2>1. LetGo({"begin_indent"}) /\ unit' = Append(unit, "loose")
        /\ spaceremain' = spaceremain
    BY <1>9 DEF PrintIndent
  <2>2. {"begin_indent"} \subseteq Pushes
    BY DEF Pushes
  <2> QED BY <1>5, <2>1, <2>2
<1>10. ASSUME PrintBegin PROVE UnitInv'
  <2> DEFINE x == IF Leftmost.size <= spaceremain THEN "whole" ELSE "loose"
  <2>1. LetGo(Begins) /\ unit' = Append(unit, x) /\ spaceremain' = spaceremain
    BY <1>10 DEF PrintBegin
  <2>2. Begins \subseteq Pushes /\ Leftmost.class \in Begins
    BY <2>1 DEF Pushes, LetGo
  <2>3. x \in {"whole", "loose"} /\ (x = "whole" => Leftmost.size <= spaceremain)
    OBVIOUS
  <2> HIDE DEF x
  <2> QED BY <1>5, <2>1, <2>2, <2>3
<1>11. ASSUME PrintEnd PROVE UnitInv'
  <2> DEFINE C == Ends \cup {"end_indent"}
  <2>1. /\ LetGo(C) /\ unit' = Ungrouped(unit) /\ spaceremain' = spaceremain
        /\ indentstack # <<>>
    BY <1>11 DEF PrintEnd
  <2>2. Leftmost.class \in C /\ \A i \in 1 .. Len(unit) : unit[i] # "torn"
    BY <2>1, LetGoLoose
  <2>3. Leftmost.class \in Pops /\ Leftmost.class \notin Pushes
    BY <2>2, NestRoles
  <2>4. Width(Leftmost) = 0
    BY <2>2, LevelRoles DEF Width
  <2>5. n > 0
    <3>1. n # 0
      BY <1>2, <2>1, EmptySeq
    <3> QED BY <3>1
  <2>6. PICK m \in Nat : n = m + 1 /\ m = n - 1
    <3>1. n - 1 \in Nat /\ n = (n - 1) + 1
      BY <2>5
    <3> QED BY <3>1
  <2>7. /\ unit' \in Seq({"whole", "loose", "torn"}) /\ Len(unit') = m
        /\ \A i \in 1 .. m : unit'[i] = unit[i] /\ i \in 1 .. n
    <3>1. unit' = SubSeq(unit, 1, m)
      BY <1>1, <2>1, <2>6 DEF Ungrouped
    <3>2. \A i \in 1 .. m : i \in 1 .. n
      BY <2>6
    <3> QED BY <1>1, <1>2, <2>6, <3>1, <3>2
  <2>8. StaysUnit(Leftmost, unit, unit', spaceremain, spaceremain')
    <3>1. spaceremain' = spaceremain - 0
      BY <1>2, <2>1
    <3> QED BY <1>1, <2>2, <2>4, <2>7, <3>1 DEF StaysUnit
  <2> HIDE DEF C
  <2>9. Len(unit') = Len(unit) - 1
    BY <1>1, <2>6, <2>7
  <2> QED BY <2>1, <2>3, <2>7, <2>8, <2>9, LetGoUnits
<1> QED BY <1>6, <1>7, <1>8, <1>9, <1>10, <1>11 DEF LetGoOne

(* The steps of the printer: scan, and the loop for text that does not     *)
(* fit.                                                                    *)
LEMMA ScanUnits ==
  ASSUME IInv, QInv, UnitInv, Scan
  PROVE  UnitInv'
<1> DEFINE t == Head(todo)
<1>1. /\ t \in Tokens /\ t.size >= 0
      /\ todo \in Seq(Tokens) /\ Len(todo) > 0 /\ t = todo[1]
      /\ todo' = Tail(todo) /\ nesting' = nesting
      /\ unit' = unit /\ spaceremain' = spaceremain
  <2>1. PICK C : Scanning(C)
    BY DEF Scan, ScanBegin, ScanEnd, ScanBreak, ScanQuiet, ScanString
  <2>2. t \in Tokens /\ t.size >= 0 /\ todo \in Seq(Tokens) /\ Len(todo) > 0
    BY <2>1, ToScan
  <2> QED BY <2>1, <2>2 DEF Scanning, layout
<1>2. PICK mid \in Seq(Kinds) :
        /\ Nests(todo, mid, nesting)
        /\ Reaches(Waiting, unit, spaceremain, mid, rightotal)
  BY DEF UnitInv
<1>3. PICK next \in Seq(Kinds) :
        NestStep(t.class, mid, next) /\ Nests(Tail(todo), next, nesting)
  BY <1>1, <1>2, NestsHead
<1>4. /\ rightotal \in Nat \ {0} /\ Right \in Nat \ {0}
      /\ Waiting \in Seq(Tokens)
      /\ unit \in Seq({"whole", "loose", "torn"})
  BY RightIs DEF IInv, LayoutOK
<1>5. Reaches(Waiting, unit, spaceremain, mid, Right)
  BY <1>2, <1>4, ReachesFrom DEF Right
<1>6. Unsized(Waiting) # {} => Right = rightotal /\ \E i : LastOpen(Waiting, i)
  <2>1. Coupled(<<tokqueue, scanqueue>>, Waiting)
    BY DEF QInv, QueuesHold
  <2> QED BY <2>1, CoupledTells DEF Right
<1>7. SUFFICES Reaches(Waiting', unit, spaceremain, next, rightotal')
  BY <1>1, <1>3 DEF UnitInv
<1>8. CASE ScanBegin
  <2>1. /\ t.class \in Begins /\ rightotal' = Right
        /\ Waiting' = Resize(Append(Waiting, t), Len(Waiting) + 1, -Right)
    BY <1>8, ScanBeginTokens
  <2> HIDE DEF t
  <2> QED BY <1>1, <1>3, <1>4, <1>5, <2>1, ReachesBegin
<1>9. CASE ScanBreak
  <2>1. /\ t.class = "tokenbreak" /\ rightotal' = Right + t.num
        /\ \E z : /\ SettlesBreak(Append(Waiting, t), z)
                  /\ Waiting' = Resize(z, Len(Waiting) + 1, -Right)
    BY <1>9, ScanBreakTokens
  <2> HIDE DEF t
  <2>2. PICK z : /\ SettlesBreak(Append(Waiting, t), z)
                 /\ Waiting' = Resize(z, Len(Waiting) + 1, -Right)
    BY <2>1
  <2>3. next = mid
    BY <1>3, <2>1, NestRoles DEF NestStep
  <2> QED BY <1>1, <1>4, <1>5, <1>6, <2>1, <2>2, <2>3, ReachesBreak
<1>10. CASE ScanEnd
  <2>1. /\ t.class \in Ends /\ rightotal' = rightotal
        /\ \E z : SettlesBreak(Append(Waiting, t), z) /\ SettlesLast(z, Waiting')
    BY <1>10, ScanEndTokens
  <2> HIDE DEF t
  <2>2. PICK z : SettlesBreak(Append(Waiting, t), z) /\ SettlesLast(z, Waiting')
    BY <2>1
  <2>3. Unsized(Waiting) # {} => \E i : LastOpen(Waiting, i)
    BY <1>6
  <2>4. PICK w : w = Waiting'
    OBVIOUS
  <2>5. PICK right \in Int : right = rightotal
    BY <1>4
  <2>6. /\ Waiting \in Seq(Tokens) /\ t \in Tokens /\ t.size >= 0 /\ t.class \in Ends
        /\ mid \in Seq(Kinds) /\ next \in Seq(Kinds)
        /\ NestStep(t.class, mid, next)
        /\ unit \in Seq({"whole", "loose", "torn"})
        /\ Reaches(Waiting, unit, spaceremain, mid, right)
        /\ rightotal \in Int /\ right = rightotal
        /\ Unsized(Waiting) # {} => \E i : LastOpen(Waiting, i)
        /\ SettlesBreak(Append(Waiting, t), z) /\ SettlesLast(z, w)
    BY <1>1, <1>2, <1>3, <1>4, <2>1, <2>2, <2>3, <2>4, <2>5
  <2>7. Reaches(w, unit, spaceremain, next, right)
    BY <2>6, ReachesEnd
  <2> QED BY <2>1, <2>4, <2>5, <2>7
<1>11. CASE ScanQuiet \/ ScanString
  <2>1. /\ t.class \in {"begin_indent", "end_indent", "ignore", "tokenstring"}
        /\ Waiting' = Append(Waiting, t)
        /\ rightotal' = rightotal + (IF t.class = "tokenstring" THEN t.size ELSE 0)
    BY <1>11, ScanOtherTokens
  <2> HIDE DEF t
  <2>2. rightotal' = rightotal + Width(t)
    BY <2>1 DEF Width
  <2> QED BY <1>1, <1>2, <1>3, <1>4, <2>1, <2>2, ReachesOther
<1> QED BY <1>8, <1>9, <1>10, <1>11 DEF Scan

LEMMA ForceUnits ==
  ASSUME IInv, QInv, UnitInv, ForceBreak
  PROVE  UnitInv'
<1>1. /\ \E i : FirstOpen(Waiting, i) /\ Waiting' = Resize(Waiting, i, HardBreak)
      /\ rightotal' = rightotal
  BY ForceTokens
<1>2. PICK i : FirstOpen(Waiting, i) /\ Waiting' = Resize(Waiting, i, HardBreak)
  BY <1>1
<1>3. /\ todo' = todo /\ nesting' = nesting
      /\ unit' = unit /\ spaceremain' = spaceremain
  BY DEF ForceBreak, layout, calls
<1>4. PICK mid \in Seq(Kinds) :
        /\ Nests(todo, mid, nesting)
        /\ Reaches(Waiting, unit, spaceremain, mid, rightotal)
  BY DEF UnitInv
<1>5. Waiting \in Seq(Tokens) /\ unit \in Seq({"whole", "loose", "torn"})
  BY RightIs DEF IInv, LayoutOK
<1>6. Reaches(Waiting', unit', spaceremain', mid, rightotal')
  BY <1>1, <1>2, <1>3, <1>4, <1>5, ReachesForced
<1>7. Nests(todo', mid, nesting')
  BY <1>3, <1>4
<1> QED BY <1>6, <1>7 DEF UnitInv

(* The steps of PrintC.                                                    *)
LEMMA CallUnits ==
  ASSUME IInv, QInv, UnitInv, CallLeads
  PROVE  UnitInv'
<1>1. /\ todo = <<>> /\ tokqueue' = tokqueue /\ scanqueue' = scanqueue
      /\ rightotal' = rightotal /\ unit' = unit /\ spaceremain' = spaceremain
      /\ Nests(todo', nesting, nesting')
  BY DEF CallLeads, queues, layout
<1>2. PICK mid \in Seq(Kinds) :
        /\ Nests(todo, mid, nesting)
        /\ Reaches(Waiting, unit, spaceremain, mid, rightotal)
  BY DEF UnitInv
<1>3. Waiting' = Waiting
  BY <1>1, WaitingSame
<1>4. mid = nesting
  BY <1>1, <1>2, NestsNone, EmptySequence
<1>5. Nests(todo', mid, nesting')
      /\ Reaches(Waiting', unit', spaceremain', mid, rightotal')
  BY <1>1, <1>2, <1>3, <1>4
<1> QED BY <1>5 DEF UnitInv

LEMMA ReachesEmpty ==
  ASSUME NEW space
  PROVE  Reaches(<<>>, <<>>, space, <<>>, 1)
<1> DEFINE d == [j \in 0 .. 0 |-> 0]
           g == [j \in 0 .. 0 |-> {}]
           tot == [j \in 0 .. 0 |-> 1]
<1>1. /\ d \in [0 .. 0 -> Nat] /\ g \in [0 .. 0 -> SUBSET Nat] /\ tot \in [0 .. 0 -> Int]
      /\ d[0] = 0 /\ g[0] = {} /\ tot[0] = 1
  OBVIOUS
<1> HIDE DEF d, g, tot
<1>2. Len(<<>>) = 0 /\ 1 .. 0 = {} /\ \A j \in 0 .. 0 : j = 0
  BY EmptySequence
<1>3. Unsized(<<>>) = {} /\ GroupLevels(<<>>) = {}
  BY <1>2 DEF Unsized, GroupLevels
<1>4. Leveled(<<>>, 0, d, g)
  BY <1>1, <1>2 DEF Leveled
<1>5. Lasting(0, d, g)
  BY <1>2 DEF Lasting
<1>6. Rising(0, d)
  <2> SUFFICES ASSUME NEW p \in 0 .. 0, NEW q \in 0 .. 0, NEW l \in Nat,
                      d[p] < l, l <= d[q]
               PROVE  FALSE
    BY DEF Rising
  <2> QED BY <1>1, <1>2
<1>7. Widths(<<>>, 0, tot)
  <2>1. 1 <= 1
    OBVIOUS
  <2> QED BY <1>1, <1>2, <2>1 DEF Widths
<1>8. Shaped(<<>>, 0, d, g, tot)
  BY <1>4, <1>5, <1>6, <1>7 DEF Shaped
<1>9. Awaited(<<>>, 0, d, g, tot) /\ Stacked(<<>>, 0, d) /\ Alternating(<<>>)
  BY <1>3 DEF Awaited, Stacked, Alternating
<1>10. /\ GroupsMeasured(<<>>, 0, d, tot) /\ BreaksMeasured(<<>>, 0, d, g, tot, <<>>)
       /\ UnitsFit(0, d, g, tot, <<>>, space)
  BY <1>2 DEF GroupsMeasured, BreaksMeasured, UnitsFit
<1>11. Measured(<<>>, 0, d, g, tot, <<>>, space)
  BY <1>8, <1>9, <1>10 DEF Measured
<1>12. ReachedBy(<<>>, 0, d, g, tot, <<>>, space, <<>>, 1)
  BY <1>1, <1>2, <1>3, <1>11 DEF ReachedBy
<1> QED BY <1>2, <1>12 DEF Reaches

LEMMA ClearUnits ==
  ASSUME IInv, QInv, Clear
  PROVE  UnitInv'
<1>1. Waiting' = <<>>
  BY ClearHolds
<1>2. todo' = <<>> /\ nesting' = <<>> /\ unit' = <<>> /\ rightotal' = 1
  BY DEF Clear
<1>3. <<>> \in Seq(Kinds)
  OBVIOUS
<1>4. Nests(todo', <<>>, nesting')
  BY <1>2, <1>3, NestsNil
<1>5. Reaches(Waiting', unit', spaceremain', <<>>, rightotal')
  BY <1>1, <1>2, ReachesEmpty
<1> QED BY <1>3, <1>4, <1>5 DEF UnitInv

LEMMA InitUnits == Init => UnitInv
<1> SUFFICES ASSUME Init PROVE UnitInv
  OBVIOUS
<1>1. QueueSize \in Nat /\ QueueSize > 1
  BY Assumed
<1>2. Coupled(<<tokqueue, scanqueue>>, <<>>)
  BY <1>1, EmptiedCoupled DEF Init
<1>3. Waiting = <<>>
  BY <1>2, CoupledTells DEF Waiting
<1>4. todo = <<>> /\ nesting = <<>> /\ unit = <<>> /\ rightotal = 1
  BY DEF Init
<1>5. <<>> \in Seq(Kinds)
  OBVIOUS
<1>6. Nests(todo, <<>>, nesting)
  BY <1>4, <1>5, NestsNil
<1>7. Reaches(Waiting, unit, spaceremain, <<>>, rightotal)
  BY <1>3, <1>4, ReachesEmpty
<1> QED BY <1>5, <1>6, <1>7 DEF UnitInv

LEMMA NextUnits == IInv /\ QInv /\ UnitInv /\ [Next]_vars => UnitInv'
<1> SUFFICES ASSUME IInv, QInv, UnitInv, [Next]_vars PROVE UnitInv'
  OBVIOUS
<1>1. ASSUME \/ BeginFunction \/ OpenGroup \/ OpenParen \/ StartComment \/ StartIndent
      PROVE  UnitInv'
  BY <1>1, OpeningsNest, CallUnits
<1>2. ASSUME \/ CloseGroup \/ EndFunction \/ CloseParen \/ StopComment \/ StopIndent
      PROVE  UnitInv'
  BY <1>2, ClosingsNest, CallUnits
<1>3. ASSUME Block \/ PrintText \/ Spaces \/ TagLine PROVE UnitInv'
  BY <1>3, TextsNest, CallUnits
<1>4. ASSUME Clear PROVE UnitInv'
  BY <1>4, ClearUnits
<1>5. ASSUME Scan PROVE UnitInv'
  BY <1>5, ScanUnits
<1>6. ASSUME ForceBreak PROVE UnitInv'
  BY <1>6, ForceUnits
<1>7. ASSUME LetGoOne PROVE UnitInv'
  BY <1>7, PrintUnits
<1>8. ASSUME tokqueue' = tokqueue, scanqueue' = scanqueue, rightotal' = rightotal,
             todo' = todo, nesting' = nesting, unit' = unit,
             spaceremain' = spaceremain
      PROVE  UnitInv'
  <2>1. PICK mid \in Seq(Kinds) :
          /\ Nests(todo, mid, nesting)
          /\ Reaches(Waiting, unit, spaceremain, mid, rightotal)
    BY DEF UnitInv
  <2>2. Waiting' = Waiting
    BY <1>8, WaitingSame
  <2>3. Nests(todo', mid, nesting')
        /\ Reaches(Waiting', unit', spaceremain', mid, rightotal')
    BY <1>8, <2>1, <2>2
  <2> QED BY <2>3 DEF UnitInv
<1>9. ASSUME \/ SetPendingPrint \/ CancelPendingPrint \/ ForceDone \/ AdvanceDone
             \/ ForcedDone \/ Flush \/ FlushDone \/ UNCHANGED vars
      PROVE  UnitInv'
  BY <1>8, <1>9 DEF SetPendingPrint, CancelPendingPrint, ForceDone, AdvanceDone,
                    ForcedDone, Flush, FlushDone, vars, queues, layout, calls
<1> QED BY <1>1, <1>2, <1>3, <1>4, <1>5, <1>6, <1>7, <1>9 DEF Next, PrintC, Printer

(* "Groups of tokens that should be printed as a unit" are: whatever is    *)
(* printed, however deep its groups, no line is broken inside one that was *)
(* measured to fit on its line when it began.  What the printer knows of   *)
(* the widths is enough: a size that is settled early, by other white      *)
(* space, by the loop for text that does not fit or with no width at all   *)
(* in between, never lets go of a break that a unit around it rules out.   *)
THEOREM UnitsPrintedWhole == Spec => []UnitsStayWhole
<1>1. IInv /\ QInv /\ UnitInv => UnitsStayWhole
  <2> SUFFICES ASSUME IInv, QInv, UnitInv PROVE UnitsStayWhole
    OBVIOUS
  <2>1. PICK mid \in Seq(Kinds) : Reaches(Waiting, unit, spaceremain, mid, rightotal)
    BY DEF UnitInv
  <2>2. \A i \in 1 .. Len(unit) : unit[i] # "torn"
    BY <2>1, RightIs, NoneTorn
  <2>3. DOMAIN unit = 1 .. Len(unit)
    BY DEF IInv, LayoutOK
  <2> QED BY <2>2, <2>3 DEF UnitsStayWhole
<1>2. Init => IInv /\ QInv /\ UnitInv
  BY InitIInv, InitHolds, InitUnits
<1>3. (IInv /\ QInv /\ UnitInv) /\ [Next]_vars => (IInv /\ QInv /\ UnitInv)'
  BY NextKeeps, NextHolds, NextUnits
<1> QED BY <1>1, <1>2, <1>3, PTL DEF Spec
=============================================================================
