-------------------------- MODULE RangeTree_proofs --------------------------
(* The range list stands for its set of addresses, for every address space *)
(* and every sequence of insertions and removals.                          *)
EXTENDS RangeTree, AddressMaps_proofs

(* A RangeList never overlaps itself and covers exactly the addresses      *)
(* inserted and not removed since.                                         *)
THEOREM TreeCoversOwned == Spec => [](TypeOK /\ TreeCovers)
<1> USE OffsetAssumption
<1> DEFINE IInv == TypeOK /\ TreeCovers
<1>1. Init => IInv
  BY DEF Init, TypeOK, TreeCovers, Disjoint, Bytes
<1>2. IInv /\ [Next]_vars => IInv'
  <2> SUFFICES ASSUME IInv, [Next]_vars PROVE IInv'
    OBVIOUS
  <2>1. ASSUME NEW first \in Offsets, NEW last \in Offsets, Insert(first, last)
        PROVE  IInv'
    <3>1. first \in Nat /\ last \in Nat /\ first <= last
      BY <2>1 DEF Offsets, Insert
    <3>2. first .. last \subseteq Offsets
      BY DEF Offsets
    <3>3. /\ tree' \in SUBSET Ranges
          /\ Disjoint(tree')
          /\ Bytes(tree') = Bytes(tree) \cup (first .. last)
      BY <2>1, <3>1, InsertRangeCovers DEF Insert, TypeOK, TreeCovers
    <3> QED BY <2>1, <3>2, <3>3 DEF Insert, TypeOK, TreeCovers
  <2>2. ASSUME NEW first \in Offsets, NEW last \in Offsets, Remove(first, last)
        PROVE  IInv'
    <3>1. first \in Nat /\ last \in Nat /\ first <= last
      BY <2>2 DEF Offsets, Remove
    <3>2. /\ tree' \in SUBSET Ranges
          /\ Disjoint(tree')
          /\ Bytes(tree') = Bytes(tree) \ (first .. last)
      BY <2>2, <3>1, RemoveRangeCovers DEF Remove, TypeOK, TreeCovers
    <3> QED BY <2>2, <3>2 DEF Remove, TypeOK, TreeCovers
  <2>3. CASE UNCHANGED vars
    BY <2>3 DEF vars, TypeOK, TreeCovers
  <2> QED BY <2>1, <2>2, <2>3 DEF Next
<1> QED BY <1>1, <1>2, PTL DEF Spec

(* Every node of the tree is a range of addresses, and none of them lies   *)
(* outside the address space, after any insertions and removals.           *)
THEOREM TreeTypes == Spec => []TypeOK
BY TreeCoversOwned, PTL

(* For a disjoint list, inRange's search by start finds the one range that *)
(* can hold an address.                                                    *)
LEMMA InRangeIsMember ==
  ASSUME NEW R \in SUBSET Ranges, Disjoint(R), NEW o \in Nat
  PROVE  InRange(R, o, 1) <=> o \in Bytes(R)
<1>1. ASSUME NEW r \in R PROVE r.first \in Nat /\ r.last \in Nat /\ r.first <= r.last
  BY DEF Ranges
<1>2. ASSUME InRange(R, o, 1) PROVE o \in Bytes(R)
  <2>1. PICK r \in R : r.first <= o /\ r.last >= o + 1 - 1
    BY <1>2 DEF InRange
  <2>2. o \in r.first .. r.last
    BY <1>1, <2>1
  <2> QED BY <2>2 DEF Bytes
<1>3. ASSUME o \in Bytes(R) PROVE InRange(R, o, 1)
  <2>1. PICK r \in R : o \in r.first .. r.last
    BY <1>3 DEF Bytes
  <2>2. r.first <= o /\ r.last >= o + 1 - 1
    BY <1>1, <2>1
  <2>3. ASSUME NEW s \in R, s.first <= o PROVE s.first <= r.first
    BY <1>1, <2>2, <2>3 DEF Disjoint
  <2> QED BY <2>2, <2>3 DEF InRange
<1> QED BY <1>2, <1>3

(* inRange, asked for a single address, is right in every reachable list.  *)
THEOREM MembershipIsExact == Spec => []BytesAgree
<1>1. TypeOK /\ TreeCovers => BytesAgree
  <2> SUFFICES ASSUME TypeOK, TreeCovers, NEW o \in Offsets
               PROVE  InRange(tree, o, 1) <=> o \in owned
    BY DEF BytesAgree
  <2>1. o \in Nat
    BY OffsetAssumption DEF Offsets
  <2> QED BY <2>1, InRangeIsMember DEF TypeOK, TreeCovers
<1> QED BY <1>1, TreeCoversOwned, PTL
=============================================================================
