----------------------------- MODULE RangeList -----------------------------
(***************************************************************************)
(* ghidra::RangeList: a set of address ranges of one space that never      *)
(* overlap.  The decompiler keeps read-only memory, the uses of a symbol   *)
(* and the ranges a scope owns in such lists.                              *)
(***************************************************************************)
EXTENDS Integers, FiniteSets

Ranges == {r \in [first : Nat, last : Nat] : r.first <= r.last}

Bytes(R) == UNION {r.first .. r.last : r \in R}

Disjoint(R) == \A r, s \in R : r # s => r.last < s.first \/ s.last < r.first

(* What insertRange and removeRange erase, from iter1 to iter2: the ranges *)
(* that start in ]first, last], and the one before them if it reaches first.*)
TouchedAfter(R, first, last) ==                 \* faulty: no step back to the one before
  {r \in R : r.first > first /\ r.first <= last}

Touched(R, first, last) ==
  {r \in R :
     /\ r.first <= last
     /\ \/ r.first > first
        \/ /\ r.last >= first
           /\ \A s \in R : s.first <= first => s.first <= r.first}

(* The ends of the range inserted grow over the ranges erased: one of them *)
(* at most starts before, and one ends after.                              *)
Grown(T, first, last) ==
  LET before == {r \in T : r.first < first}
      after == {r \in T : r.last > last}
  IN  [first |-> IF before = {} THEN first ELSE (CHOOSE r \in before : TRUE).first,
       last |-> IF after = {} THEN last ELSE (CHOOSE r \in after : TRUE).last]

InsertUnmerged(R, first, last) ==               \* faulty: nothing is erased
  R \cup {[first |-> first, last |-> last]}

InsertRange(R, first, last) ==
  (R \ Touched(R, first, last)) \cup {Grown(Touched(R, first, last), first, last)}

RemoveToEnd(R, first, last) ==                  \* faulty: the part behind is lost
  LET T == Touched(R, first, last)
  IN  (R \ T)
        \cup {[first |-> r.first, last |-> first - 1] : r \in {t \in T : t.first < first}}

RemoveLeavingEmpty(R, first, last) ==           \* faulty: <= for <
  LET T == Touched(R, first, last)
  IN  (R \ T)
        \cup {[first |-> r.first, last |-> first - 1] : r \in {t \in T : t.first <= first}}
        \cup {[first |-> last + 1, last |-> r.last] : r \in {t \in T : t.last > last}}

RemoveRange(R, first, last) ==
  LET T == Touched(R, first, last)
  IN  (R \ T)
        \cup {[first |-> r.first, last |-> first - 1] : r \in {t \in T : t.first < first}}
        \cup {[first |-> last + 1, last |-> r.last] : r \in {t \in T : t.last > last}}

(* The last range that starts at or before addr is looked at, no other.    *)
InRange(R, addr, size) ==
  \E r \in R :
    /\ r.first <= addr
    /\ \A s \in R : s.first <= addr => s.first <= r.first
    /\ r.last >= addr + size - 1
=============================================================================
