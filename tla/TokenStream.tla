---------------------------- MODULE TokenStream ----------------------------
(***************************************************************************)
(* What a pretty printer promises about the stream of tokens it is given:  *)
(* it holds back a token only until it knows the layout of it and of all   *)
(* the tokens before it, and lets them go in the order they came in, each  *)
(* once.                                                                   *)
(***************************************************************************)
EXTENDS Sequences, Integers

CONSTANT Contents  \* what a token can be

VARIABLE pending   \* the tokens held back; `settled' once their layout is known

Unsettled == {i \in DOMAIN pending : ~pending[i].settled}

(* pending, once the layout of the tokens at the positions S is known.     *)
Settled(S) ==
  [i \in DOMAIN pending |-> [pending[i] EXCEPT !.settled = @ \/ i \in S]]

Init == pending = <<>>

Accept ==
  \E c \in Contents, known \in BOOLEAN, S \in SUBSET Unsettled :
    pending' = Append(Settled(S), [content |-> c, settled |-> known])

(* A line that is full settles the earliest token that is not settled.     *)
Settle ==
  \E i \in Unsettled :
    /\ \A j \in Unsettled : i <= j
    /\ pending' = Settled({i})

Emit ==
  /\ pending # <<>>
  /\ Head(pending).settled
  /\ pending' = Tail(pending)

(* The printing of the function is abandoned.                              *)
Abandon == pending' = <<>>

Next == Accept \/ Settle \/ Emit \/ Abandon

Spec == Init /\ [][Next]_pending
=============================================================================
