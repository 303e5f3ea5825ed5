--------------------------- MODULE CircularQueue ---------------------------
(***************************************************************************)
(* circularqueue<_type> of the pretty printer: an array used as a stack    *)
(* and as a queue, whose elements are also looked up by their index, the   *)
(* "reference".  A queue is a record; `right' is the index of the last     *)
(* element, so a queue that is full looks exactly like one that is empty.  *)
(*                                                                         *)
(* A slot outside the queue is blank, a value of the type of its elements: *)
(* the code leaves there whatever it held, and never means to read it.     *)
(***************************************************************************)
EXTENDS Integers, Sequences

QueueOf(cache, left, right, max) ==
  [cache |-> cache, left |-> left, right |-> right, max |-> max]

(* circularqueue(sz), setMax and clear.                                    *)
Emptied(size, blank) == QueueOf([i \in 0 .. size - 1 |-> blank], 1, 0, size)

IsEmpty(q) == q.left = (q.right + 1) % q.max

Top(q) == q.cache[q.right]

Bottom(q) == q.cache[q.left]

(* The number of elements of a queue that is not full, and the indices     *)
(* they are at, from the leftmost.                                         *)
Held(q) == (q.right + 1 - q.left) % q.max

Refs(q) == [i \in 1 .. Held(q) |-> (q.left + i - 1) % q.max]

Elements(q) == [i \in 1 .. Held(q) |-> q.cache[(q.left + i - 1) % q.max]]

Pushed(q, x) ==
  LET r == (q.right + 1) % q.max
  IN QueueOf([q.cache EXCEPT ![r] = x], q.left, r, q.max)

Popped(q, blank) ==
  QueueOf([q.cache EXCEPT ![q.right] = blank],
          q.left, (q.right + q.max - 1) % q.max, q.max)

BottomPopped(q, blank) ==
  QueueOf([q.cache EXCEPT ![q.left] = blank],
          (q.left + 1) % q.max, q.right, q.max)

(* expand: the copy starts at `left' and stops at `right', having copied   *)
(* at least one slot: from an empty queue it takes them all.               *)
Expanded(q, amount, blank) ==
  LET copied == ((q.right - q.left) % q.max) + 1
  IN QueueOf([i \in 0 .. q.max + amount - 1 |->
                IF i < copied THEN q.cache[(q.left + i) % q.max] ELSE blank],
             0, copied - 1, q.max + amount)
=============================================================================
