-------------------------- MODULE MCLLDBLoadImage --------------------------
(* Instances of LLDBLoadImage for TLC.  Two modules, three bases of which  *)
(* two make a module that is loaded again overlap where it was before;     *)
(* read-only sections that touch, a writable one, one without permissions, *)
(* an empty one; a volatile range where read-only memory ends.             *)
EXTENDS LLDBLoadImage, TLC

CONSTANTS m1, m2

Sect(at, size, perms) == [at |-> at, size |-> size, perms |-> perms]

TwoModules ==
  m1 :> <<Sect(0, 2, "readonly"), Sect(2, 1, "writable")>> @@
  m2 :> <<Sect(0, 0, "readonly"), Sect(0, 1, "unknown"), Sect(1, 1, "readonly")>>

NoModules == [m \in {} |-> <<>>]

VolatileRange == 3 :> {"volatile"} @@ 5 :> {}
NoFlags == [p \in {} |-> {}]
=============================================================================
