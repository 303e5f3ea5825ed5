---------------------------- MODULE PropertyMap ----------------------------
(***************************************************************************)
(* Database::flagbase, a partmap from addresses to Varnode properties: a   *)
(* function from split points to sets of flags.  A split point's flags     *)
(* hold from it up to the next split point.                                *)
(***************************************************************************)
EXTENDS Integers, FiniteSets

(* partmap::getValue: what the last split point at or before p says.       *)
Below(map, p) == {q \in DOMAIN map : q <= p}

GetValue(map, p) ==
  IF Below(map, p) = {} THEN {}
  ELSE map[CHOOSE q \in Below(map, p) : \A r \in Below(map, p) : r <= q]

Split(map, p) ==
  [q \in DOMAIN map \cup {p} |-> IF q \in DOMAIN map THEN map[q] ELSE GetValue(map, p)]

Raised(map, flags, first, last) ==
  [q \in DOMAIN map |->
     IF first <= q /\ q <= last THEN map[q] \cup flags ELSE map[q]]

SetOpenRange(map, flags, first, last) ==        \* faulty: no split after the range
  Raised(Split(map, first), flags, first, last)

ReplacePropertyRange(map, flags, first, last) == \* faulty: assigns, does not or
  LET parts == Split(Split(map, first), last + 1)
  IN  [q \in DOMAIN parts |-> IF first <= q /\ q <= last THEN flags ELSE parts[q]]

SetPropertyRange(map, flags, first, last) ==
  Raised(Split(Split(map, first), last + 1), flags, first, last)
=============================================================================
