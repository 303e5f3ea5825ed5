----------------------------- MODULE RangeTree -----------------------------
(***************************************************************************)
(* A RangeList over any sequence of insertRange and removeRange, beside    *)
(* the set of addresses it stands for.  Scopes own memory, symbols are     *)
(* limited to code and read-only memory is collected through such a list.  *)
(***************************************************************************)
EXTENDS RangeList

CONSTANT MaxOffset  \* bound: the addresses are 0..MaxOffset

ASSUME OffsetAssumption == MaxOffset \in Nat

VARIABLES
  tree,   \* the ranges
  owned   \* the addresses inserted and not removed since: for the properties

vars == <<tree, owned>>

Offsets == 0..MaxOffset

Init == tree = {} /\ owned = {}

Insert(first, last) ==
  /\ first <= last
  /\ tree' = InsertRange(tree, first, last)
  /\ owned' = owned \cup (first .. last)

Remove(first, last) ==
  /\ first <= last
  /\ tree' = RemoveRange(tree, first, last)
  /\ owned' = owned \ (first .. last)

Next == \E first, last \in Offsets : Insert(first, last) \/ Remove(first, last)

Spec == Init /\ [][Next]_vars
-----------------------------------------------------------------------------
TypeOK == tree \in SUBSET Ranges /\ owned \in SUBSET Offsets

(* Whatever is inserted over, next to or inside what is there, and         *)
(* whatever is cut out of it, the list covers exactly the addresses it     *)
(* should, none of them twice.                                             *)
TreeCovers == Disjoint(tree) /\ Bytes(tree) = owned

(* inRange looks at a single range, found by its start, and is right for   *)
(* every address.                                                          *)
BytesAgree == \A o \in Offsets : InRange(tree, o, 1) <=> o \in owned
=============================================================================
