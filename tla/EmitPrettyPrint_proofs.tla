----------------------- MODULE EmitPrettyPrint_proofs -----------------------
(***************************************************************************)
(* Proofs about EmitPrettyPrint, for every size of line and of queue: its  *)
(* types, that the space it counts on is the space on the line, and that   *)
(* text of at most half a line stays within the margin.                    *)
(***************************************************************************)
EXTENDS EmitPrettyPrint, TLAPS
-----------------------------------------------------------------------------
(* The operators of CircularQueue keep a queue of S a queue of S.          *)
LEMMA ModRange ==
  ASSUME NEW a \in Int, NEW n \in Nat \ {0}
  PROVE  a % n \in 0 .. n - 1
OBVIOUS

LEMMA QueueParts ==
  ASSUME NEW S, NEW q, Queue(q, S)
  PROVE  /\ q.max \in Nat \ {0}
         /\ q.left \in 0 .. q.max - 1 /\ q.right \in 0 .. q.max - 1
         /\ q.cache \in [0 .. q.max - 1 -> S]
BY DEF Queue

LEMMA EmptiedType ==
  ASSUME NEW S, NEW n \in Nat, n > 1, NEW b \in S
  PROVE  Queue(Emptied(n, b), S) /\ Emptied(n, b).max = n
<1>1. [i \in 0 .. n - 1 |-> b] \in [0 .. n - 1 -> S]
  OBVIOUS
<1>2. n \in Nat \ {0} /\ 0 \in 0 .. n - 1 /\ 1 \in 0 .. n - 1
  OBVIOUS
<1> QED BY <1>1, <1>2 DEF Emptied, Queue, QueueOf

LEMMA PushedType ==
  ASSUME NEW S, NEW q, Queue(q, S), NEW x \in S
  PROVE  Queue(Pushed(q, x), S) /\ Pushed(q, x).max = q.max
<1>1. (q.right + 1) % q.max \in 0 .. q.max - 1
  <2>1. q.right + 1 \in Int /\ q.max \in Nat \ {0}
    BY QueueParts
  <2> QED BY <2>1, ModRange
<1>2. \A r \in 0 .. q.max - 1 : [q.cache EXCEPT ![r] = x] \in [0 .. q.max - 1 -> S]
  BY QueueParts
<1> QED BY <1>1, <1>2 DEF Pushed, Queue, QueueOf

LEMMA PoppedType ==
  ASSUME NEW S, NEW q, Queue(q, S), NEW b \in S
  PROVE  Queue(Popped(q, b), S) /\ Popped(q, b).max = q.max
<1>1. (q.right + q.max - 1) % q.max \in 0 .. q.max - 1
  <2>1. q.right + q.max - 1 \in Int /\ q.max \in Nat \ {0}
    BY QueueParts
  <2> QED BY <2>1, ModRange
<1>2. [q.cache EXCEPT ![q.right] = b] \in [0 .. q.max - 1 -> S]
  BY QueueParts
<1> QED BY <1>1, <1>2 DEF Popped, Queue, QueueOf

LEMMA BottomPoppedType ==
  ASSUME NEW S, NEW q, Queue(q, S), NEW b \in S
  PROVE  Queue(BottomPopped(q, b), S) /\ BottomPopped(q, b).max = q.max
<1>1. (q.left + 1) % q.max \in 0 .. q.max - 1
  <2>1. q.left + 1 \in Int /\ q.max \in Nat \ {0}
    BY QueueParts
  <2> QED BY <2>1, ModRange
<1>2. [q.cache EXCEPT ![q.left] = b] \in [0 .. q.max - 1 -> S]
  BY QueueParts
<1> QED BY <1>1, <1>2 DEF BottomPopped, Queue, QueueOf

LEMMA ExpandedType ==
  ASSUME NEW S, NEW q, Queue(q, S), NEW n \in Nat, NEW b \in S
  PROVE  Queue(Expanded(q, n, b), S) /\ Expanded(q, n, b).max = q.max + n
<1> DEFINE copied == ((q.right - q.left) % q.max) + 1
           c == [i \in 0 .. q.max + n - 1 |->
                   IF i < copied THEN q.cache[(q.left + i) % q.max] ELSE b]
<1>1. q.max \in Nat \ {0} /\ q.left \in 0 .. q.max - 1 /\ q.right \in 0 .. q.max - 1
  BY QueueParts
<1>2. (q.right - q.left) % q.max \in 0 .. q.max - 1
  <2>1. q.right - q.left \in Int
    BY <1>1
  <2> QED BY <1>1, <2>1, ModRange
<1>3. copied \in 1 .. q.max
  BY <1>1, <1>2
<1>4. c \in [0 .. q.max + n - 1 -> S]
  <2>1. SUFFICES ASSUME NEW i \in 0 .. q.max + n - 1, i < copied
                 PROVE  q.cache[(q.left + i) % q.max] \in S
    OBVIOUS
  <2>2. q.left + i \in Int
    BY <1>1
  <2>3. (q.left + i) % q.max \in 0 .. q.max - 1
    BY <1>1, <2>2, ModRange
  <2> QED BY <2>3, QueueParts
<1>5. q.max + n \in Nat \ {0} /\ 0 \in 0 .. q.max + n - 1
      /\ copied - 1 \in 0 .. q.max + n - 1
  BY <1>1, <1>3
<1>6. Expanded(q, n, b) = QueueOf(c, 0, copied - 1, q.max + n)
  BY DEF Expanded
<1> HIDE DEF copied, c
<1> QED BY <1>4, <1>5, <1>6 DEF Queue, QueueOf

LEMMA RebasedType ==
  ASSUME NEW m \in Nat \ {0}, NEW q, Queue(q, 0 .. m - 1), q.max = m,
         NEW left \in 0 .. m - 1
  PROVE  Queue(Rebased(q, left, m), 0 .. m - 1) /\ Rebased(q, left, m).max = m
<1> DEFINE c == [i \in DOMAIN q.cache |-> (q.cache[i] + m - left) % m]
<1>1. \A i \in DOMAIN q.cache : (q.cache[i] + m - left) % m \in 0 .. m - 1
  <2>1. SUFFICES ASSUME NEW i \in DOMAIN q.cache
                 PROVE  (q.cache[i] + m - left) % m \in 0 .. m - 1
    OBVIOUS
  <2>2. q.cache[i] \in 0 .. m - 1
    BY QueueParts
  <2>3. q.cache[i] + m - left \in Int
    BY <2>2
  <2> QED BY <2>3, ModRange
<1>2. DOMAIN q.cache = 0 .. m - 1
  BY QueueParts
<1>3. c \in [0 .. m - 1 -> 0 .. m - 1]
  BY <1>1, <1>2
<1>4. Rebased(q, left, m) = QueueOf(c, q.left, q.right, m)
  BY DEF Rebased
<1> HIDE DEF c
<1> QED BY <1>3, <1>4 DEF Queue, QueueOf

LEMMA ResizedType ==
  ASSUME NEW q, Queue(q, Tokens), NEW r \in 0 .. q.max - 1, NEW size \in Int
  PROVE  Queue(Resized(q, r, size), Tokens) /\ Resized(q, r, size).max = q.max
<1> DEFINE t == [q.cache[r] EXCEPT !.size = size]
           c == [q.cache EXCEPT ![r] = t]
<1>1. q.cache[r] \in Tokens
  BY QueueParts
<1>2. t \in Tokens
  BY <1>1 DEF Tokens
<1>3. Resized(q, r, size) = QueueOf(c, q.left, q.right, q.max)
  BY DEF Resized
<1> HIDE DEF t
<1>4. c \in [0 .. q.max - 1 -> Tokens]
  BY <1>2, QueueParts
<1> HIDE DEF c
<1> QED BY <1>3, <1>4 DEF Queue, QueueOf
-----------------------------------------------------------------------------
(* The two queues together: scanqueue refers to slots of tokqueue.         *)
Paired(both) ==
  /\ Queue(both[1], Tokens)
  /\ Queue(both[2], 0 .. both[1].max - 1)
  /\ both[2].max = both[1].max
  /\ both[1].max > 1

LEMMA Assumed ==
  /\ LineSize \in Nat /\ CommentFill \in Nat /\ HardBreak \in Nat
  /\ Gain \in Nat /\ IndentIncrement \in Nat
  /\ QueueSize \in Nat /\ QueueSize > 1 /\ Expansion \in Nat
  /\ Texts \subseteq Nat /\ Gaps \subseteq Nat /\ Bumps \subseteq Nat
  /\ Margins \subseteq Nat
<1>1. {LineSize, CommentFill, HardBreak, Gain, IndentIncrement, QueueSize,
       Expansion, MaxQuiet} \subseteq Nat
  BY PrinterAssumption
<1>2. Texts \cup Gaps \cup Bumps \cup Margins \subseteq Nat
  BY PrinterAssumption
<1>3. MaxQuiet < QueueSize - 1
  BY PrinterAssumption
<1>4. QueueSize > 1
  BY <1>1, <1>3
<1> QED BY <1>1, <1>2, <1>4

LEMMA BlankIsToken == BlankToken \in Tokens
BY DEF BlankToken, Delimiter, Token, Tokens, Classes, Quiet, Ends, Begins

LEMMA Widened ==
  ASSUME NEW S, NEW T, S \subseteq T, NEW q, Queue(q, S)
  PROVE  Queue(q, T)
<1>1. q.cache \in [0 .. q.max - 1 -> T]
  BY QueueParts
<1> QED BY <1>1 DEF Queue

LEMMA QueuedPaired ==
  ASSUME Paired(<<tokqueue, scanqueue>>), NEW t \in Tokens
  PROVE  Paired(Queued(t))
<1> DEFINE full == Pushed(tokqueue, t)
           rebased == Rebased(scanqueue, full.left, full.max)
           m == full.max
<1>1. Queue(full, Tokens) /\ full.max = tokqueue.max
  BY PushedType DEF Paired
<1>2. /\ Queue(scanqueue, 0 .. tokqueue.max - 1)
      /\ scanqueue.max = tokqueue.max
      /\ tokqueue.max > 1
  BY DEF Paired
<1>3. m \in Nat \ {0} /\ full.left \in 0 .. m - 1
  BY <1>1, QueueParts
<1>4. Queue(rebased, 0 .. m - 1) /\ rebased.max = m
  BY <1>1, <1>2, <1>3, RebasedType
<1>5. CASE IsEmpty(full)
  <2> DEFINE grown == Expanded(full, Expansion, BlankToken)
             refs == Expanded(rebased, Expansion, BlankRef)
  <2>1. Queue(grown, Tokens) /\ grown.max = m + Expansion
    BY <1>1, ExpandedType, BlankIsToken, Assumed
  <2>2. BlankRef \in 0 .. m - 1
    BY <1>3 DEF BlankRef
  <2>3. Queue(refs, 0 .. m - 1) /\ refs.max = m + Expansion
    <3> HIDE DEF rebased, m
    <3>1. Expansion \in Nat
      BY Assumed
    <3> QED BY <1>4, <2>2, <3>1, ExpandedType
  <2>4. 0 .. m - 1 \subseteq 0 .. m + Expansion - 1
    BY <1>3, Assumed
  <2>5. Queued(t) = <<grown, refs>>
    BY <1>5 DEF Queued
  <2> HIDE DEF grown, refs, m
  <2>6. Queue(refs, 0 .. m + Expansion - 1)
    BY <2>3, <2>4, Widened
  <2>7. Queue(refs, 0 .. grown.max - 1) /\ refs.max = grown.max
    <3>1. grown.max = m + Expansion /\ refs.max = m + Expansion
      BY <2>1, <2>3
    <3>2. m \in Int /\ Expansion \in Int
      BY <1>3, Assumed
    <3>3. grown.max - 1 = m + Expansion - 1
      BY <3>1, <3>2
    <3> QED BY <2>6, <3>1, <3>3, Zenon
  <2>8. grown.max > 1
    BY <1>1, <1>2, <1>3, <2>1, Assumed DEF m
  <2>9. Paired(<<grown, refs>>)
    BY <2>1, <2>7, <2>8 DEF Paired
  <2> QED BY <2>5, <2>9
<1>6. CASE ~IsEmpty(full)
  <2>1. Queued(t) = <<full, scanqueue>>
    BY <1>6 DEF Queued
  <2> HIDE DEF full
  <2> QED BY <1>1, <1>2, <2>1 DEF Paired
<1> QED BY <1>5, <1>6

LEMMA PairedParts ==
  ASSUME NEW both, Paired(both)
  PROVE  /\ Queue(both[1], Tokens) /\ Queue(both[2], 0 .. both[1].max - 1)
         /\ both[2].max = both[1].max
         /\ both[1].max \in Nat \ {0} /\ both[1].max > 1
         /\ both[1].right \in 0 .. both[1].max - 1
         /\ Top(both[2]) \in 0 .. both[1].max - 1
         /\ Bottom(both[2]) \in 0 .. both[1].max - 1
<1>1. Queue(both[1], Tokens) /\ Queue(both[2], 0 .. both[1].max - 1)
      /\ both[2].max = both[1].max /\ both[1].max > 1
  BY DEF Paired
<1>2. both[1].max \in Nat \ {0} /\ both[1].right \in 0 .. both[1].max - 1
  BY <1>1, QueueParts
<1>3. /\ both[2].right \in 0 .. both[2].max - 1
      /\ both[2].left \in 0 .. both[2].max - 1
      /\ both[2].cache \in [0 .. both[2].max - 1 -> 0 .. both[1].max - 1]
  BY <1>1, QueueParts
<1> QED BY <1>1, <1>2, <1>3 DEF Top, Bottom

LEMMA CommittedPaired ==
  ASSUME NEW both, Paired(both), rightotal \in Int
  PROVE  Paired(Committed(both))
<1> DEFINE ref == Top(both[2])
           size == both[1].cache[ref].size + rightotal
           toks == Resized(both[1], ref, size)
           refs == Popped(both[2], BlankRef)
<1>1. /\ Queue(both[1], Tokens) /\ Queue(both[2], 0 .. both[1].max - 1)
      /\ both[2].max = both[1].max
      /\ both[1].max \in Nat \ {0} /\ both[1].max > 1
      /\ ref \in 0 .. both[1].max - 1
  BY PairedParts
<1>2. both[1].cache[ref] \in Tokens
  BY <1>1, QueueParts
<1>3. size \in Int
  BY <1>2 DEF Tokens
<1> HIDE DEF size, ref
<1>4. Queue(toks, Tokens) /\ toks.max = both[1].max
  BY <1>1, <1>3, ResizedType
<1>5. BlankRef \in 0 .. both[1].max - 1
  BY <1>1 DEF BlankRef
<1>6. Queue(refs, 0 .. both[1].max - 1) /\ refs.max = both[1].max
  BY <1>1, <1>5, PoppedType
<1>7. Committed(both) = <<toks, refs>>
  BY DEF Committed, size, ref
<1> HIDE DEF toks, refs
<1> QED BY <1>1, <1>4, <1>6, <1>7 DEF Paired

LEMMA UncommittedPaired ==
  ASSUME NEW both, Paired(both), NEW right \in Int
  PROVE  Paired(Uncommitted(both, right))
<1> DEFINE toks == Resized(both[1], both[1].right, -right)
           refs == Pushed(both[2], both[1].right)
<1>1. /\ Queue(both[1], Tokens) /\ Queue(both[2], 0 .. both[1].max - 1)
      /\ both[2].max = both[1].max /\ both[1].right \in 0 .. both[1].max - 1
      /\ both[1].max > 1
  BY PairedParts
<1>2. Queue(toks, Tokens) /\ toks.max = both[1].max
  <2>1. -right \in Int
    OBVIOUS
  <2> QED BY <1>1, <2>1, ResizedType
<1>3. Queue(refs, 0 .. both[1].max - 1) /\ refs.max = both[1].max
  BY <1>1, PushedType
<1>4. Uncommitted(both, right) = <<toks, refs>>
  BY DEF Uncommitted
<1> HIDE DEF toks, refs
<1> QED BY <1>1, <1>2, <1>3, <1>4 DEF Paired
-----------------------------------------------------------------------------
(* The inductive invariant, part by part: a line never has more room than  *)
(* its size, neither now nor after the indent of any group.  Without that  *)
(* tagLine would be asked for a negative indent, and the space left would  *)
(* not be the space there is.                                              *)
Kinds == {"function", "group", "comment", "indent"}

QueuesOK ==
  Paired(<<tokqueue, scanqueue>>) /\ leftotal \in Int /\ rightotal \in Int

LayoutOK ==
  /\ spaceremain \in Int /\ column \in Nat
  /\ indentstack \in Seq(Int) /\ unit \in Seq({"whole", "loose", "torn"})
  /\ Len(unit) = Len(indentstack)
  /\ commentmode \in BOOLEAN
  /\ spaceremain <= LineSize
  /\ \A i \in DOMAIN indentstack : indentstack[i] <= LineSize
  /\ column = LineSize - spaceremain

CallsOK ==
  /\ todo \in Seq(Tokens)
  /\ needbreak \in BOOLEAN /\ pendPrint \in BOOLEAN
  /\ nesting \in Seq(Kinds)
  /\ quiet \in Nat

PhaseOK == phase \in {"idle", "force", "forced", "advance", "flush"}

IInv == QueuesOK /\ LayoutOK /\ CallsOK /\ PhaseOK

LEMMA IInvTypeOK == IInv => TypeOK /\ SpaceIsReal
<1> SUFFICES ASSUME IInv PROVE TypeOK /\ SpaceIsReal
  OBVIOUS
<1>1. /\ Queue(tokqueue, Tokens) /\ Queue(scanqueue, 0 .. tokqueue.max - 1)
      /\ scanqueue.max = tokqueue.max
  BY DEF IInv, QueuesOK, Paired
<1>2. DOMAIN tokqueue.cache = 0 .. tokqueue.max - 1
  BY <1>1, QueueParts
<1>3. Queue(scanqueue, DOMAIN tokqueue.cache)
  BY <1>1, <1>2
<1> QED
  BY <1>1, <1>3
  DEF IInv, QueuesOK, LayoutOK, CallsOK, PhaseOK, Kinds, TypeOK, SpaceIsReal

LEMMA EmptyPaired ==
  ASSUME NEW n \in Nat, n > 1
  PROVE  Paired(<<Emptied(n, BlankToken), Emptied(n, BlankRef)>>)
<1> DEFINE toks == Emptied(n, BlankToken)
           refs == Emptied(n, BlankRef)
<1>1. Queue(toks, Tokens) /\ toks.max = n
  BY EmptiedType, BlankIsToken
<1>2. BlankRef \in 0 .. n - 1
  BY DEF BlankRef
<1>3. Queue(refs, 0 .. n - 1) /\ refs.max = n
  BY EmptiedType, <1>2
<1> HIDE DEF toks, refs
<1>4. Paired(<<toks, refs>>)
  BY <1>1, <1>3 DEF Paired
<1> QED BY <1>4 DEF toks, refs

LEMMA EmptySequence ==
  (\A S : <<>> \in Seq(S)) /\ Len(<<>>) = 0 /\ DOMAIN <<>> = {}
OBVIOUS

LEMMA EmptyLayout ==
  ASSUME spaceremain' = LineSize, indentstack' = <<>>, commentmode' = FALSE,
         column' = 0, unit' = <<>>
  PROVE  LayoutOK'
<1>1. indentstack' \in Seq(Int) /\ unit' \in Seq({"whole", "loose", "torn"})
      /\ Len(unit') = Len(indentstack') /\ DOMAIN indentstack' = {}
  BY EmptySequence, Zenon
<1>2. spaceremain' \in Int /\ column' \in Nat /\ spaceremain' <= LineSize
      /\ column' = LineSize - spaceremain'
  BY Assumed
<1> QED BY <1>1, <1>2 DEF LayoutOK

LEMMA InitIInv == Init => IInv
<1> SUFFICES ASSUME Init PROVE IInv
  OBVIOUS
<1>1. Paired(<<tokqueue, scanqueue>>)
  BY Assumed, EmptyPaired DEF Init
<1>2. QueuesOK
  BY <1>1 DEF Init, QueuesOK
<1>3. LayoutOK
  <2>1. /\ spaceremain = LineSize /\ indentstack = <<>> /\ column = 0
        /\ unit = <<>> /\ commentmode = FALSE
    BY DEF Init
  <2>2. indentstack \in Seq(Int) /\ unit \in Seq({"whole", "loose", "torn"})
        /\ Len(unit) = Len(indentstack) /\ DOMAIN indentstack = {}
    BY <2>1, EmptySequence, Zenon
  <2>3. spaceremain \in Int /\ column \in Nat /\ spaceremain <= LineSize
        /\ column = LineSize - spaceremain
    BY <2>1, Assumed
  <2> QED BY <2>1, <2>2, <2>3 DEF LayoutOK
<1>4. CallsOK /\ PhaseOK
  <2>1. /\ todo = <<>> /\ nesting = <<>> /\ quiet = 0 /\ needbreak = FALSE
        /\ pendPrint = FALSE /\ phase = "idle"
    BY DEF Init
  <2>2. todo \in Seq(Tokens) /\ nesting \in Seq(Kinds)
    BY <2>1, EmptySequence, Zenon
  <2> QED BY <2>1, <2>2 DEF CallsOK, PhaseOK
<1> QED BY <1>2, <1>3, <1>4 DEF IInv
-----------------------------------------------------------------------------
(* The tokens the calls queue.                                             *)
LEMMA TokenTypes ==
  /\ \A c \in Classes : Delimiter(c) \in Tokens
  /\ Indent \in Tokens
  /\ \A n \in Nat : String(n) \in Tokens
  /\ \A num \in Nat, bump \in Nat : Space(num, bump) \in Tokens
  /\ Line \in Tokens
  /\ \A n \in Nat : LineAt(n) \in Tokens
BY Assumed
DEF Delimiter, Indent, String, Space, Line, LineAt, Token, Tokens, Classes,
    Quiet, Ends, Begins

LEMMA BeforeTypes ==
  Separator \in Seq(Tokens) /\ Filler \in Seq(Tokens) /\ OpenBrace \in Seq(Tokens)
<1>1. Space(0, 0) \in Tokens /\ String(0) \in Tokens /\ Space(1, 0) \in Tokens
      /\ String(1) \in Tokens /\ Indent \in Tokens
  BY TokenTypes
<1>2. Separator \in Seq(Tokens) /\ Filler \in Seq(Tokens)
  BY <1>1 DEF Separator, Filler
<1>3. <<Space(1, 0), Indent, String(1)>> \in Seq(Tokens)
  BY <1>1
<1> QED BY <1>2, <1>3 DEF OpenBrace

LEMMA CallKeeps ==
  ASSUME IInv, NEW tokens \in Seq(Tokens), NEW break \in BOOLEAN,
         NEW open \in Seq(Kinds), Call(tokens, break, open),
         pendPrint' \in BOOLEAN
  PROVE  IInv'
<1>1. QueuesOK'
  BY DEF IInv, Call, queues, QueuesOK
<1>2. LayoutOK'
  BY DEF IInv, Call, layout, LayoutOK
<1>3. CallsOK' /\ PhaseOK'
  BY DEF IInv, Call, CallsOK, PhaseOK
<1> QED BY <1>1, <1>2, <1>3 DEF IInv

LEMMA PendKeeps ==
  ASSUME IInv, NEW p \in BOOLEAN, pendPrint' = p,
         UNCHANGED <<queues, layout, phase, needbreak, todo, repertoire,
                     nesting, quiet>>
  PROVE  IInv'
BY DEF IInv, queues, layout, QueuesOK, LayoutOK, CallsOK, PhaseOK

LEMMA PrintCKeeps == IInv /\ PrintC => IInv'
<1> SUFFICES ASSUME IInv, PrintC PROVE IInv'
  OBVIOUS
<1>0. /\ nesting \in Seq(Kinds) /\ pendPrint \in BOOLEAN
      /\ needbreak \in BOOLEAN
  BY DEF IInv, CallsOK
<1>1. \A k \in Kinds : Append(nesting, k) \in Seq(Kinds)
  BY <1>0
<1>2. nesting # <<>> => Closed \in Seq(Kinds)
  BY <1>0 DEF Closed
<1>3. ASSUME NEW k \in Kinds, Open(k) PROVE IInv'
  <2>1. Separator \o <<Delimiter("begin")>> \in Seq(Tokens)
    BY BeforeTypes, TokenTypes DEF Classes, Begins
  <2> QED BY <1>0, <1>1, <1>3, <2>1, CallKeeps DEF Open
<1>4. ASSUME NEW k \in Kinds, Close(k), UNCHANGED pendPrint PROVE IInv'
  <2>1. Filler \o <<Delimiter("end")>> \in Seq(Tokens)
    BY BeforeTypes, TokenTypes DEF Classes, Quiet, Ends
  <2> QED BY <1>0, <1>2, <1>4, <2>1, CallKeeps DEF Close
<1>5. CASE BeginFunction \/ EndFunction \/ OpenGroup \/ CloseGroup
  BY <1>3, <1>4, <1>5 DEF BeginFunction, EndFunction, OpenGroup, CloseGroup, Kinds
<1>6. CASE OpenParen
  <2>1. Separator \o <<Delimiter("begin"), String(1)>> \in Seq(Tokens)
    BY BeforeTypes, TokenTypes DEF Classes, Begins
  <2>2. Append(nesting, "group") \in Seq(Kinds)
    BY <1>1 DEF Kinds
  <2> QED BY <1>0, <1>6, <2>1, <2>2, CallKeeps DEF OpenParen
<1>7. CASE CloseParen
  <2>1. Separator \o <<String(1), Delimiter("end")>> \in Seq(Tokens)
    BY BeforeTypes, TokenTypes DEF Classes, Quiet, Ends
  <2>2. Closed \in Seq(Kinds)
    BY <1>2, <1>7 DEF CloseParen, InCode
  <2> QED BY <1>0, <1>7, <2>1, <2>2, CallKeeps DEF CloseParen
<1>8. CASE StartComment
  <2>1. Separator \o <<Delimiter("begin_comment")>> \in Seq(Tokens)
    BY BeforeTypes, TokenTypes DEF Classes, Begins
  <2>2. Append(nesting, "comment") \in Seq(Kinds)
    BY <1>1 DEF Kinds
  <2> QED BY <1>0, <1>8, <2>1, <2>2, CallKeeps DEF StartComment
<1>9. CASE StopComment
  <2>1. Filler \o <<Delimiter("end_comment")>> \in Seq(Tokens)
    BY BeforeTypes, TokenTypes DEF Classes, Quiet, Ends
  <2>2. Closed \in Seq(Kinds)
    BY <1>2, <1>9 DEF StopComment
  <2> QED BY <1>0, <1>9, <2>1, <2>2, CallKeeps DEF StopComment
<1>10. CASE StartIndent
  <2>1. <<Indent>> \in Seq(Tokens)
    BY TokenTypes
  <2>2. Append(nesting, "indent") \in Seq(Kinds)
    BY <1>1 DEF Kinds
  <2> QED BY <1>0, <1>10, <2>1, <2>2, CallKeeps DEF StartIndent
<1>11. CASE StopIndent
  <2>1. <<Delimiter("end_indent")>> \in Seq(Tokens)
    BY TokenTypes DEF Classes, Quiet
  <2>2. Closed \in Seq(Kinds)
    BY <1>2, <1>11 DEF StopIndent
  <2> QED BY <1>0, <1>11, <2>1, <2>2, CallKeeps DEF StopIndent
<1>12. CASE Block
  <2>1. <<Delimiter("ignore")>> \in Seq(Tokens)
    BY TokenTypes DEF Classes, Quiet
  <2> QED BY <1>0, <1>12, <2>1, CallKeeps DEF Block
<1>13. CASE PrintText
  <2>1. PICK n \in Texts : Call(Separator \o <<String(n)>>, TRUE, nesting)
    BY <1>13 DEF PrintText
  <2>2. Separator \o <<String(n)>> \in Seq(Tokens)
    BY BeforeTypes, TokenTypes, Assumed
  <2> QED BY <1>0, <1>13, <2>1, <2>2, CallKeeps DEF PrintText
<1>14. CASE Spaces
  <2>1. PICK num \in Gaps, bump \in Bumps :
          Call(Filler \o <<Space(num, bump)>>, FALSE, nesting)
    BY <1>14 DEF Spaces
  <2>2. Filler \o <<Space(num, bump)>> \in Seq(Tokens)
    BY BeforeTypes, TokenTypes, Assumed
  <2> QED BY <1>0, <1>14, <2>1, <2>2, CallKeeps DEF Spaces
<1>15. CASE TagLine
  <2>1. PICK line \in {Line} \cup {LineAt(i) : i \in Margins} :
          IF pendPrint
          THEN /\ Opening
               /\ Call(OpenBrace \o <<line>>, FALSE, Append(nesting, "indent"))
          ELSE Call(Filler \o <<line>>, FALSE, nesting)
    BY <1>15 DEF TagLine
  <2>2. line \in Tokens
    BY TokenTypes, Assumed
  <2>3. OpenBrace \o <<line>> \in Seq(Tokens) /\ Filler \o <<line>> \in Seq(Tokens)
    BY <2>2, BeforeTypes
  <2>4. Append(nesting, "indent") \in Seq(Kinds)
    BY <1>1 DEF Kinds
  <2>5. pendPrint' \in BOOLEAN
    BY <1>15 DEF TagLine
  <2> QED BY <1>0, <2>1, <2>3, <2>4, <2>5, CallKeeps
<1>16. CASE SetPendingPrint \/ CancelPendingPrint
  BY <1>16, PendKeeps DEF SetPendingPrint, CancelPendingPrint
<1>17. CASE Clear
  <2>1. tokqueue.max \in Nat /\ tokqueue.max > 1 /\ scanqueue.max = tokqueue.max
    BY QueueParts DEF IInv, QueuesOK, Paired
  <2>2. Paired(<<tokqueue, scanqueue>>)'
    BY <1>17, <2>1, EmptyPaired DEF Clear
  <2>3. QueuesOK'
    BY <1>17, <2>2 DEF Clear, QueuesOK
  <2>4. LayoutOK'
    BY <1>17, EmptyLayout DEF Clear
  <2>5. CallsOK' /\ PhaseOK'
    <3>1. nesting' \in Seq(Kinds)
      BY <1>17, EmptySequence DEF Clear
    <3> QED BY <1>17, <3>1 DEF Clear, IInv, CallsOK, PhaseOK
  <2> QED BY <2>3, <2>4, <2>5 DEF IInv
<1> QED
  BY <1>5, <1>6, <1>7, <1>8, <1>9, <1>10, <1>11, <1>12, <1>13, <1>14, <1>15,
     <1>16, <1>17 DEF PrintC
-----------------------------------------------------------------------------
(* Scanning a token.                                                       *)
LEMMA ScanKeeps == IInv /\ Scan => IInv'
<1> SUFFICES ASSUME IInv, Scan PROVE IInv'
  OBVIOUS
<1> DEFINE token == Head(todo)
           both == Queued(token)
<1>1. todo \in Seq(Tokens) /\ leftotal \in Int /\ rightotal \in Int
      /\ Paired(<<tokqueue, scanqueue>>)
  BY DEF IInv, CallsOK, QueuesOK
<1>2. PICK C : Scanning(C)
  BY DEF Scan, ScanBegin, ScanEnd, ScanBreak, ScanQuiet, ScanString
<1>3. token \in Tokens /\ Tail(todo) \in Seq(Tokens)
  BY <1>1, <1>2 DEF Scanning
<1>4. token.num \in Nat /\ token.size \in Int
  BY <1>3 DEF Tokens
<1>5. LayoutOK'
  BY <1>2 DEF Scanning, layout, IInv, LayoutOK
<1>6. CallsOK'
  BY <1>2, <1>3 DEF Scanning, IInv, CallsOK
<1>7. Paired(both)
  BY <1>1, <1>3, QueuedPaired
<1> HIDE DEF both
<1>8. Paired(Committed(both))
  BY <1>1, <1>7, CommittedPaired
<1>9. Paired(Committed(Committed(both)))
  BY <1>1, <1>8, CommittedPaired
<1>10. \A right \in Int : /\ Paired(Uncommitted(both, right))
                          /\ Paired(Uncommitted(Committed(both), right))
  BY <1>7, <1>8, UncommittedPaired
<1>11. ASSUME NEW b, Paired(b), SetQueues(b)
       PROVE  Paired(<<tokqueue, scanqueue>>)'
  BY <1>11 DEF SetQueues, Paired
<1>12. CASE ScanBegin
  <2> DEFINE right == IF IsEmpty(both[2]) THEN 1 ELSE rightotal
  <2>1. /\ SetQueues(Uncommitted(both, right))
        /\ leftotal' = IF IsEmpty(both[2]) THEN 1 ELSE leftotal
        /\ rightotal' = right /\ phase' = phase
    BY <1>12 DEF ScanBegin, both
  <2>2. right \in Int
    BY <1>1
  <2> HIDE DEF right
  <2>3. Paired(<<tokqueue, scanqueue>>)'
    BY <1>10, <1>11, <2>1, <2>2
  <2>4. leftotal' \in Int /\ rightotal' \in Int
    BY <1>1, <2>1, <2>2
  <2> QED BY <1>5, <1>6, <2>1, <2>3, <2>4 DEF IInv, QueuesOK, PhaseOK
<1>13. CASE ScanEnd
  <2> DEFINE inner == IF BreakOnTop(both) THEN Committed(both) ELSE both
             group == IF IsEmpty(inner[2]) THEN inner ELSE Committed(inner)
  <2>1. /\ SetQueues(group)
        /\ phase' = IF IsEmpty(group[2]) /\ ~IsEmpty(both[2])
                    THEN "advance" ELSE "idle"
        /\ UNCHANGED <<leftotal, rightotal>>
    BY <1>13 DEF ScanEnd, both
  <2>2. Paired(group)
    BY <1>7, <1>8, <1>9
  <2> HIDE DEF group
  <2>3. Paired(<<tokqueue, scanqueue>>)'
    BY <1>11, <2>1, <2>2
  <2> QED BY <1>1, <1>5, <1>6, <2>1, <2>3 DEF IInv, QueuesOK, PhaseOK
<1>14. CASE ScanBreak
  <2> DEFINE right == IF IsEmpty(both[2]) THEN 1 ELSE rightotal
             inner == IF BreakOnTop(both) THEN Committed(both) ELSE both
  <2>1. /\ SetQueues(Uncommitted(inner, right))
        /\ leftotal' = IF IsEmpty(both[2]) THEN 1 ELSE leftotal
        /\ rightotal' = right + token.num /\ phase' = phase
    BY <1>14 DEF ScanBreak, both
  <2>2. right \in Int
    BY <1>1
  <2> HIDE DEF right
  <2>3. Paired(Uncommitted(inner, right))
    BY <1>10, <2>2
  <2> HIDE DEF inner
  <2>4. Paired(<<tokqueue, scanqueue>>)'
    BY <1>11, <2>1, <2>3
  <2>5. leftotal' \in Int /\ rightotal' \in Int
    BY <1>1, <1>4, <2>1, <2>2
  <2> QED BY <1>5, <1>6, <2>1, <2>4, <2>5 DEF IInv, QueuesOK, PhaseOK
<1>15. CASE ScanQuiet
  <2>1. SetQueues(both) /\ UNCHANGED <<leftotal, rightotal, phase>>
    BY <1>15 DEF ScanQuiet, both
  <2>2. Paired(<<tokqueue, scanqueue>>)'
    BY <1>7, <1>11, <2>1
  <2> QED BY <1>1, <1>5, <1>6, <2>1, <2>2 DEF IInv, QueuesOK, PhaseOK
<1>16. CASE ScanString
  <2>1. /\ SetQueues(both)
        /\ IF IsEmpty(both[2])
           THEN UNCHANGED <<rightotal, phase>>
           ELSE rightotal' = rightotal + token.size /\ phase' = "force"
        /\ UNCHANGED leftotal
    BY <1>16 DEF ScanString, both
  <2>2. Paired(<<tokqueue, scanqueue>>)'
    BY <1>7, <1>11, <2>1
  <2>3. rightotal' \in Int
    BY <1>1, <1>4, <2>1
  <2>4. PhaseOK'
    BY <2>1 DEF IInv, PhaseOK
  <2> QED BY <1>1, <1>5, <1>6, <2>1, <2>2, <2>3, <2>4 DEF IInv, QueuesOK
<1> QED BY <1>12, <1>13, <1>14, <1>15, <1>16 DEF Scan

LEMMA ForceKeeps == IInv /\ ForceBreak => IInv'
<1> SUFFICES ASSUME IInv, ForceBreak PROVE IInv'
  OBVIOUS
<1> DEFINE both == <<tokqueue, scanqueue>>
           toks == Resized(tokqueue, Bottom(scanqueue), HardBreak)
           refs == BottomPopped(scanqueue, BlankRef)
<1>1. Paired(both) /\ leftotal \in Int /\ rightotal \in Int
  BY DEF IInv, QueuesOK
<1>2. /\ Queue(tokqueue, Tokens) /\ Queue(scanqueue, 0 .. tokqueue.max - 1)
      /\ scanqueue.max = tokqueue.max /\ tokqueue.max \in Nat
      /\ tokqueue.max > 1 /\ Bottom(scanqueue) \in 0 .. tokqueue.max - 1
  <2>1. both[1] = tokqueue /\ both[2] = scanqueue
    OBVIOUS
  <2> QED BY <1>1, <2>1, PairedParts
<1>3. Queue(toks, Tokens) /\ toks.max = tokqueue.max
  BY <1>2, ResizedType, Assumed
<1>4. BlankRef \in 0 .. tokqueue.max - 1
  BY <1>2 DEF BlankRef
<1>5. Queue(refs, 0 .. tokqueue.max - 1) /\ refs.max = tokqueue.max
  BY <1>2, <1>4, BottomPoppedType
<1>6. tokqueue' = toks /\ scanqueue' = refs
  BY DEF ForceBreak
<1> HIDE DEF toks, refs
<1>7. Paired(<<toks, refs>>)
  BY <1>2, <1>3, <1>5 DEF Paired
<1>8. QueuesOK'
  BY <1>1, <1>6, <1>7 DEF QueuesOK, ForceBreak
<1>9. LayoutOK' /\ CallsOK' /\ PhaseOK'
  BY DEF ForceBreak, IInv, LayoutOK, CallsOK, PhaseOK, layout, calls
<1> QED BY <1>8, <1>9 DEF IInv

LEMMA PhaseKeeps ==
  ASSUME IInv,
         \/ ForceDone \/ AdvanceDone \/ ForcedDone \/ Flush \/ FlushDone
         \/ UNCHANGED vars
  PROVE  IInv'
<1>1. QueuesOK'
  BY DEF ForceDone, AdvanceDone, ForcedDone, Flush, FlushDone, vars, queues,
         IInv, QueuesOK
<1>2. LayoutOK'
  BY DEF ForceDone, AdvanceDone, ForcedDone, Flush, FlushDone, vars, layout,
         IInv, LayoutOK
<1>3. CallsOK' /\ PhaseOK'
  BY DEF ForceDone, AdvanceDone, ForcedDone, Flush, FlushDone, vars, calls,
         IInv, CallsOK, PhaseOK
<1> QED BY <1>1, <1>2, <1>3 DEF IInv
-----------------------------------------------------------------------------
(* Letting a token go.                                                     *)
LEMMA LetGoQueues ==
  ASSUME IInv, NEW C, LetGo(C)
  PROVE  /\ QueuesOK' /\ CallsOK' /\ PhaseOK'
         /\ Leftmost \in Tokens /\ Leftmost.size >= 0
<1>1. /\ Queue(tokqueue, Tokens) /\ Queue(scanqueue, 0 .. tokqueue.max - 1)
      /\ scanqueue.max = tokqueue.max /\ tokqueue.max > 1
      /\ leftotal \in Int /\ rightotal \in Int
  BY DEF IInv, QueuesOK, Paired
<1>2. Leftmost \in Tokens
  BY <1>1, QueueParts DEF Leftmost, Bottom
<1>3. Width(Leftmost) \in Int
  BY <1>2 DEF Width, Tokens
<1>4. tokqueue' = BottomPopped(tokqueue, BlankToken) /\ scanqueue' = scanqueue
      /\ rightotal' = rightotal
      /\ leftotal' = IF phase = "flush" THEN leftotal ELSE leftotal + Width(Leftmost)
  BY DEF LetGo
<1>5. Queue(tokqueue', Tokens) /\ tokqueue'.max = tokqueue.max
  BY <1>1, <1>4, BottomPoppedType, BlankIsToken
<1>6. leftotal' \in Int
  BY <1>1, <1>3, <1>4
<1>7. QueuesOK'
  BY <1>1, <1>4, <1>5, <1>6 DEF QueuesOK, Paired
<1>8. CallsOK' /\ PhaseOK'
  BY DEF LetGo, calls, IInv, CallsOK, PhaseOK
<1> QED BY <1>2, <1>7, <1>8 DEF LetGo, CanLetGo

LEMMA PlacedSpace ==
  ASSUME LayoutOK, NEW n \in Nat, Placed(n)
  PROVE  /\ spaceremain' \in Int /\ column' \in Nat
         /\ spaceremain' <= LineSize
         /\ column' = LineSize - spaceremain'
BY Assumed DEF LayoutOK, Placed

(* tagLine leaves the space there is, as it is never asked for more than a *)
(* line.                                                                   *)
LEMMA NewLineSpace ==
  ASSUME LayoutOK, NEW remain \in Int, remain <= LineSize, NEW n \in Nat,
         NewLine(remain, n)
  PROVE  /\ spaceremain' \in Int /\ column' \in Nat
         /\ spaceremain' <= LineSize
         /\ column' = LineSize - spaceremain'
         /\ column' = LineSize - remain + n + (IF commentmode THEN CommentFill ELSE 0)
         /\ unit' \in Seq({"whole", "loose", "torn"}) /\ Len(unit') = Len(unit)
<1>1. Margin(remain) = LineSize - remain
  BY DEF Margin
<1>2. unit' \in Seq({"whole", "loose", "torn"}) /\ Len(unit') = Len(unit)
  BY DEF NewLine, LayoutOK
<1>3. CASE commentmode
  <2>1. /\ spaceremain' = remain - CommentFill - n
        /\ column' = LineSize - remain + CommentFill + n
    BY <1>1, <1>3 DEF NewLine
  <2> QED BY <1>2, <1>3, <2>1, Assumed
<1>4. CASE ~commentmode
  <2>1. /\ spaceremain' = remain - 0 - n
        /\ column' = LineSize - remain + 0 + n
    BY <1>1, <1>4 DEF NewLine
  <2> QED BY <1>2, <1>4, <2>1, Assumed
<1> QED BY <1>3, <1>4

LEMMA HalfRange == Half \in Nat /\ Half <= LineSize
BY Assumed DEF Half

LEMMA RelievedType ==
  ASSUME LayoutOK
  PROVE  /\ Relieved \in Seq(Int) /\ Len(Relieved) = Len(indentstack)
         /\ \A i \in DOMAIN Relieved : Relieved[i] <= LineSize
         /\ NewRemain \in Int /\ NewRemain <= LineSize /\ NewRemain >= Half
<1>1. indentstack \in Seq(Int) /\ \A i \in DOMAIN indentstack : indentstack[i] <= LineSize
  BY DEF LayoutOK
<1>2. /\ Relieved \in Seq(Int) /\ Len(Relieved) = Len(indentstack)
      /\ \A i \in DOMAIN Relieved : Relieved[i] <= LineSize
  BY <1>1, HalfRange DEF Relieved
<1>3. CASE indentstack = <<>>
  BY <1>2, <1>3, HalfRange, Assumed DEF NewRemain
<1>4. CASE indentstack # <<>>
  <2> DEFINE n == Len(indentstack)
  <2>1. n \in 1 .. n /\ n \in DOMAIN indentstack /\ n .. n = {n}
    BY <1>1, <1>4
  <2>2. Relieved[n] = IF indentstack[n] < Half THEN Half ELSE indentstack[n]
    BY <2>1 DEF Relieved
  <2>3. indentstack[n] \in Int /\ indentstack[n] <= LineSize
    BY <1>1, <2>1
  <2>4. NewRemain = Relieved[n]
    BY <1>4 DEF NewRemain
  <2> HIDE DEF n
  <2>5. NewRemain \in Int /\ NewRemain <= LineSize /\ NewRemain >= Half
    BY <2>2, <2>3, <2>4, HalfRange
  <2> QED BY <1>2, <2>5
<1> QED BY <1>3, <1>4

LEMMA BackType ==
  ASSUME LayoutOK, indentstack # <<>>
  PROVE  /\ Len(indentstack) \in DOMAIN indentstack
         /\ Back \in Int /\ Back <= LineSize
         /\ Ungrouped(indentstack) \in Seq(Int)
         /\ Ungrouped(unit) \in Seq({"whole", "loose", "torn"})
         /\ Len(Ungrouped(unit)) = Len(Ungrouped(indentstack))
         /\ \A i \in DOMAIN Ungrouped(indentstack) :
              Ungrouped(indentstack)[i] <= LineSize
BY DEF LayoutOK, Back, Ungrouped

LEMMA LetGoOneToken ==
  ASSUME IInv, LetGoOne
  PROVE  /\ QueuesOK' /\ CallsOK' /\ PhaseOK'
         /\ Leftmost \in Tokens /\ Leftmost.size >= 0
<1>1. PICK C : LetGo(C)
  BY DEF LetGoOne, PrintIgnore, PrintIndent, PrintBegin, PrintEnd, PrintString,
         OverflowString, PrintSpaces, PrintLineAt, PrintBreak
<1> QED BY <1>1, LetGoQueues

LEMMA LetGoLayout == IInv /\ LetGoOne => LayoutOK'
<1> SUFFICES ASSUME IInv, LetGoOne PROVE LayoutOK'
  OBVIOUS
<1> DEFINE token == Leftmost
<1>2. token \in Tokens /\ token.size >= 0
  BY LetGoOneToken
<1>3. /\ token.size \in Nat /\ token.num \in Nat /\ token.bump \in Nat
  BY <1>2 DEF Tokens
<1> HIDE DEF token
<1>4. LayoutOK
  BY DEF IInv
<1>5. /\ indentstack \in Seq(Int) /\ unit \in Seq({"whole", "loose", "torn"})
      /\ Len(unit) = Len(indentstack) /\ commentmode \in BOOLEAN
      /\ spaceremain \in Int /\ spaceremain <= LineSize
      /\ \A i \in DOMAIN indentstack : indentstack[i] <= LineSize
  BY <1>4 DEF LayoutOK
<1>6. ASSUME NEW v \in Int, v <= LineSize, NEW u \in {"whole", "loose"},
             indentstack' = Append(indentstack, v), unit' = Append(unit, u)
      PROVE  /\ indentstack' \in Seq(Int)
             /\ unit' \in Seq({"whole", "loose", "torn"})
             /\ Len(unit') = Len(indentstack')
             /\ \A i \in DOMAIN indentstack' : indentstack'[i] <= LineSize
  BY <1>5, <1>6
<1>7. CASE PrintIgnore
  BY <1>4, <1>7 DEF PrintIgnore, layout, LayoutOK
<1>8. CASE PrintIndent
  <2>1. Back - token.bump \in Int /\ Back - token.bump <= LineSize
    BY <1>3, <1>4, <1>8, BackType, Assumed DEF PrintIndent
  <2> QED BY <1>4, <1>6, <1>8, <2>1 DEF PrintIndent, LayoutOK, token
<1>9. CASE PrintBegin
  <2> DEFINE u == IF token.size <= spaceremain THEN "whole" ELSE "loose"
  <2>1. indentstack' = Append(indentstack, spaceremain) /\ unit' = Append(unit, u)
        /\ commentmode' \in BOOLEAN /\ UNCHANGED <<spaceremain, column>>
    BY <1>9 DEF PrintBegin, token
  <2>2. u \in {"whole", "loose"}
    OBVIOUS
  <2> HIDE DEF u
  <2> QED BY <1>4, <1>5, <1>6, <2>1, <2>2 DEF LayoutOK
<1>10. CASE PrintEnd
  BY <1>4, <1>10, BackType DEF PrintEnd, LayoutOK
<1>11. CASE PrintString \/ PrintSpaces
  <2>1. PICK n \in Nat : Placed(n)
    BY <1>3, <1>11 DEF PrintString, PrintSpaces, token
  <2> QED BY <1>4, <1>11, <2>1, PlacedSpace DEF PrintString, PrintSpaces, LayoutOK
<1>12. CASE OverflowString
  <2>1. /\ indentstack' = Relieved /\ UNCHANGED commentmode
        /\ \/ NewLine(NewRemain, token.size)
           \/ Placed(token.size) /\ UNCHANGED unit
    BY <1>12 DEF OverflowString, token
  <2>2. CASE NewLine(NewRemain, token.size)
    BY <1>3, <1>4, <2>1, <2>2, RelievedType, NewLineSpace DEF LayoutOK
  <2>3. CASE Placed(token.size) /\ UNCHANGED unit
    BY <1>3, <1>4, <2>1, <2>3, RelievedType, PlacedSpace DEF LayoutOK
  <2> QED BY <2>1, <2>2, <2>3
<1>13. CASE PrintLineAt
  <2>1. LineSize - token.bump \in Int /\ LineSize - token.bump <= LineSize
    BY <1>3, Assumed
  <2>2. NewLine(LineSize - token.bump, 0) /\ UNCHANGED <<indentstack, commentmode>>
    BY <1>13 DEF PrintLineAt, token
  <2> QED BY <1>4, <2>1, <2>2, NewLineSpace DEF LayoutOK
<1>14. CASE PrintBreak
  <2> DEFINE val == Back - token.bump
             n == Len(indentstack)
  <2>1. /\ \/ Placed(token.num) /\ UNCHANGED <<indentstack, unit>>
           \/ /\ indentstack' = [indentstack EXCEPT ![n] = val]
              /\ NewLine(val, 0)
        /\ UNCHANGED commentmode
    BY <1>14 DEF PrintBreak, token
  <2>2. val \in Int /\ val <= LineSize /\ n \in DOMAIN indentstack
    BY <1>3, <1>4, <1>14, BackType, Assumed DEF PrintBreak
  <2> HIDE DEF val
  <2>3. CASE Placed(token.num) /\ UNCHANGED <<indentstack, unit>>
    BY <1>3, <1>4, <2>1, <2>3, PlacedSpace DEF LayoutOK
  <2>4. CASE indentstack' = [indentstack EXCEPT ![n] = val] /\ NewLine(val, 0)
    <3>1. /\ indentstack' \in Seq(Int) /\ Len(indentstack') = Len(indentstack)
          /\ \A i \in DOMAIN indentstack' : indentstack'[i] <= LineSize
      BY <1>5, <2>2, <2>4
    <3> QED BY <1>4, <2>1, <2>2, <2>4, <3>1, NewLineSpace DEF LayoutOK
  <2> QED BY <2>1, <2>3, <2>4
<1> QED
  BY <1>7, <1>8, <1>9, <1>10, <1>11, <1>12, <1>13, <1>14 DEF LetGoOne

LEMMA LetGoKeeps == IInv /\ LetGoOne => IInv'
BY LetGoOneToken, LetGoLayout DEF IInv

LEMMA NextKeeps == IInv /\ [Next]_vars => IInv'
<1> SUFFICES ASSUME IInv, [Next]_vars PROVE IInv'
  OBVIOUS
<1>1. CASE PrintC
  BY <1>1, PrintCKeeps
<1>2. CASE Printer
  BY <1>2, ScanKeeps, ForceKeeps, LetGoKeeps, PhaseKeeps DEF Printer
<1>3. CASE UNCHANGED vars
  BY <1>3, PhaseKeeps
<1> QED BY <1>1, <1>2, <1>3 DEF Next

LEMMA SpecIInv == Spec => []IInv
<1>1. Init => IInv
  BY InitIInv
<1>2. IInv /\ [Next]_vars => IInv'
  BY NextKeeps
<1> QED BY <1>1, <1>2, PTL DEF Spec
-----------------------------------------------------------------------------
(* The types of the printer: every reference in scanqueue is a slot of     *)
(* tokqueue, through every wrap-around and every expansion.                *)
THEOREM PrinterTypes == Spec => []TypeOK
<1>1. IInv => TypeOK
  BY IInvTypeOK
<1> QED BY <1>1, SpecIInv, PTL

(* The space the printer counts on is the space left on the line, whatever *)
(* the nesting, the indents and the text.                                  *)
THEOREM SpaceIsWhatIsLeft == Spec => []SpaceIsReal
<1>1. IInv => SpaceIsReal
  BY IInvTypeOK
<1> QED BY <1>1, SpecIInv, PTL

(* One step of WithinMargin.                                               *)
LEMMA StepWithinMargin ==
  ASSUME IInv, PrintString \/ OverflowString,
         Leftmost.size + (IF commentmode THEN CommentFill ELSE 0) <= Half
  PROVE  column' <= LineSize
<1> DEFINE n == Leftmost.size
           fill == IF commentmode THEN CommentFill ELSE 0
<1>1. PICK C : LetGo(C)
  BY DEF PrintString, OverflowString
<1>2. n \in Nat
  BY <1>1, LetGoQueues DEF Tokens
<1>3. LayoutOK /\ commentmode \in BOOLEAN /\ spaceremain \in Int /\ column \in Nat
      /\ column = LineSize - spaceremain
  BY DEF IInv, LayoutOK
<1>4. fill \in Nat
  BY Assumed
<1>5. n + fill <= Half
  OBVIOUS
<1>6. CASE PrintString
  <2>1. n <= spaceremain /\ column' = column + n
    BY <1>6 DEF PrintString, Placed
  <2> HIDE DEF n
  <2> QED BY <1>2, <1>3, <2>1, Assumed
<1>7. CASE OverflowString
  <2>1. NewRemain \in Int /\ NewRemain <= LineSize /\ NewRemain >= Half
    BY <1>3, RelievedType
  <2>2. CASE NewLineGains
    <3>1. NewLine(NewRemain, n)
      BY <1>7, <2>2 DEF OverflowString
    <3>2. column' = LineSize - NewRemain + n + fill
      BY <1>2, <1>3, <2>1, <3>1, NewLineSpace
    <3> HIDE DEF n, fill
    <3> QED BY <1>2, <1>4, <1>5, <2>1, <3>2, HalfRange, Assumed
  <2>3. CASE ~NewLineGains
    <3>1. n > spaceremain
      BY <1>7 DEF OverflowString
    <3>2. NewRemain = spaceremain \/ NewRemain = spaceremain + fill
      BY <2>3 DEF NewLineGains
    <3> HIDE DEF n, fill
    <3> QED BY <1>2, <1>3, <1>4, <1>5, <2>1, <3>1, <3>2, HalfRange
  <2> QED BY <2>2, <2>3
<1> QED BY <1>6, <1>7

(* Text of at most half a line never passes the right margin, however deep *)
(* it is nested: overflow always leaves half a line.                       *)
THEOREM TextStaysWithinMargin == Spec => WithinMargin
<1>1. IInv /\ [Next]_vars =>
        [\A n \in Texts :
           (/\ (PrintString \/ OverflowString) /\ Leftmost.size = n
            /\ n + (IF commentmode THEN CommentFill ELSE 0) <= Half)
           => column' <= LineSize]_vars
  BY StepWithinMargin
<1> QED BY <1>1, SpecIInv, PTL DEF Spec, WithinMargin
=============================================================================
