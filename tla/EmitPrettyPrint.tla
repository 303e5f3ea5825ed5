-------------------------- MODULE EmitPrettyPrint --------------------------
(***************************************************************************)
(* EmitPrettyPrint, which lays out the C code of a function, with the      *)
(* low-level emitter below it.  The printer of C (PrintC, above it) calls  *)
(* it with text, white space and the delimiters of nested groups.  A call  *)
(* becomes one or two tokens, queued in `tokqueue'; a group or white space *)
(* whose width is not known yet has minus the width before it as its size, *)
(* and its place in the queue is kept in `scanqueue'.                      *)
(*                                                                         *)
(* A call of the printer scans its tokens one at a time (phase "idle" with *)
(* tokens to do), each of which may let tokens at the other end of the     *)
(* queue go: advanceleft is phase "advance", its call in the loop for text *)
(* that does not fit is "forced", the test of that loop is "force".        *)
(***************************************************************************)
EXTENDS CircularQueue

CONSTANTS
  LineSize,         \* maxlinesize
  CommentFill,      \* the size of commentfill
  HardBreak,        \* the 999999 that no line has room for
  Gain,             \* the 10 characters a line break has to gain
  IndentIncrement,  \* indentincrement
  QueueSize,        \* the size of the queues, 3 * maxlinesize
  Expansion,        \* the 200 slots expand adds
  Texts,            \* the sizes of the texts printed
  Gaps, Bumps,      \* the spaces of white space, and the indent it bumps
  Margins,          \* the indents of a line of its own
  Repertoires,      \* bound: the kinds of calls one behavior makes
  MaxDepth,         \* bound: delimiters open at a time
  MaxQuiet,         \* bound: delimiters that close, or only mark, in a row
  MaxHeld,          \* bound: the tokens held when a call starts
  MaxTotal          \* bound: rightotal, when a call starts

ASSUME PrinterAssumption ==
  /\ {LineSize, CommentFill, HardBreak, Gain, IndentIncrement, QueueSize,
      Expansion, MaxDepth, MaxQuiet, MaxHeld, MaxTotal} \subseteq Nat
  /\ Texts \cup Gaps \cup Bumps \cup Margins \subseteq Nat
  /\ 0 \notin Texts
  /\ LineSize < HardBreak
  /\ Expansion > 0
  /\ MaxQuiet > 0 /\ MaxQuiet < QueueSize - 1

VARIABLES
  tokqueue, scanqueue,
  leftotal, rightotal,  \* widths let go, and taken in
  spaceremain,          \* what is left of the line
  indentstack,          \* what is left of a line after its indent, per group
  needbreak, commentmode,
  pendPrint,            \* an open brace is to be printed before the next line
  todo,                 \* the tokens the call in progress has yet to queue
  phase,
  column,               \* where the low-level emitter is on its line
  repertoire,           \* the kinds of calls this behavior makes
  nesting,              \* the delimiters PrintC has open
  quiet,                \* the delimiters that close, or only mark, in a row
  unit                  \* per group, whether it is printed as a unit: see below

queues == <<tokqueue, scanqueue, leftotal, rightotal>>
layout == <<spaceremain, indentstack, commentmode, column, unit>>
calls == <<needbreak, pendPrint, todo, repertoire, nesting, quiet>>
vars == <<queues, layout, calls, phase>>
-----------------------------------------------------------------------------
(* The tokens (TokenSplit): its class, size, numspaces and indentbump, and *)
(* whether it is a line break with an indent of its own.                   *)
Token(class, size, num, bump, line) ==
  [class |-> class, size |-> size, num |-> num, bump |-> bump, line |-> line]

Delimiter(class) == Token(class, 0, 0, 0, FALSE)
Indent == Token("begin_indent", 0, 0, IndentIncrement, FALSE)
String(n) == Token("tokenstring", n, 0, 0, FALSE)
Space(num, bump) == Token("tokenbreak", 0, num, bump, FALSE)
Line == Token("tokenbreak", 0, HardBreak, 0, FALSE)
LineAt(indent) == Token("tokenbreak", 0, HardBreak, indent, TRUE)

(* What the slots outside the queues hold.                                 *)
BlankToken == Delimiter("ignore")
BlankRef == 0

Begins == {"begin", "begin_comment"}
Ends == {"end", "end_comment"}
Quiet == Ends \cup {"begin_indent", "end_indent", "ignore"}

(* What checkstart and checkstring, and checkend and checkbreak, queue     *)
(* before the token of the call.                                           *)
SeparatorMissing == <<>>                     \* faulty: text follows text

Separator == IF needbreak THEN <<Space(0, 0)>> ELSE <<>>

Filler == IF needbreak THEN <<>> ELSE <<String(0)>>

(* The braces of PendingBrace.callback, openBraceIndent in its `same_line' *)
(* style.                                                                  *)
OpenBrace == Filler \o <<Space(1, 0), Indent, String(1)>>

Init ==
  /\ tokqueue = Emptied(QueueSize, BlankToken)
  /\ scanqueue = Emptied(QueueSize, BlankRef)
  /\ leftotal = 1 /\ rightotal = 1
  /\ spaceremain = LineSize /\ indentstack = <<>> /\ commentmode = FALSE
  /\ column = 0 /\ unit = <<>>
  /\ needbreak = FALSE /\ pendPrint = FALSE /\ todo = <<>>
  /\ repertoire \in Repertoires /\ nesting = <<>> /\ quiet = 0
  /\ phase = "idle"
-----------------------------------------------------------------------------
(* The calls.                                                              *)
Ready == phase = "idle" /\ todo = <<>>

(* The bounds on what a behavior prints before it closes what it opened.   *)
Room == rightotal <= MaxTotal /\ Held(tokqueue) <= MaxHeld

Innermost == nesting[Len(nesting)]

Call(tokens, break, open) ==
  /\ Ready
  /\ todo' = tokens
  /\ needbreak' = break
  /\ nesting' = open
  /\ UNCHANGED <<queues, layout, phase, repertoire, quiet>>

Opening == Len(nesting) < MaxDepth /\ Room
Closing == quiet < MaxQuiet
Closed == SubSeq(nesting, 1, Len(nesting) - 1)

(* A function, or one of the groups inside: beginFunction, beginStatement, *)
(* beginVarDecl, beginReturnType, beginFuncProto and openGroup.            *)
Open(kind) ==
  /\ Opening
  /\ Call(Separator \o <<Delimiter("begin")>>, FALSE, Append(nesting, kind))
  /\ UNCHANGED pendPrint

(* docFunction ends with a flush, which resets needbreak.                  *)
BeginFunction == nesting = <<>> /\ ~needbreak /\ Open("function")

InCode == nesting # <<>> /\ Innermost # "comment"

OpenGroup == "group" \in repertoire /\ InCode /\ Open("group")

Close(kind) ==
  /\ nesting # <<>> /\ Innermost = kind
  /\ Closing
  /\ Call(Filler \o <<Delimiter("end")>>, TRUE, Closed)

CloseGroup == Close("group") /\ UNCHANGED pendPrint

EndFunction == ~pendPrint /\ Close("function") /\ UNCHANGED pendPrint

OpenParen ==
  /\ "paren" \in repertoire
  /\ InCode
  /\ Opening
  /\ Call(Separator \o <<Delimiter("begin"), String(1)>>, TRUE,
          Append(nesting, "group"))
  /\ UNCHANGED pendPrint

CloseParen ==
  /\ "paren" \in repertoire
  /\ InCode /\ Innermost = "group" /\ Room
  /\ Call(Separator \o <<String(1), Delimiter("end")>>, TRUE, Closed)
  /\ UNCHANGED pendPrint

StartComment ==
  /\ "comment" \in repertoire
  /\ InCode
  /\ Opening
  /\ Call(Separator \o <<Delimiter("begin_comment")>>, FALSE,
          Append(nesting, "comment"))
  /\ UNCHANGED pendPrint

StopComment ==
  /\ nesting # <<>> /\ Innermost = "comment"
  /\ Closing
  /\ Call(Filler \o <<Delimiter("end_comment")>>, TRUE, Closed)
  /\ UNCHANGED pendPrint

StartIndent ==
  /\ "indent" \in repertoire
  /\ InCode /\ Opening /\ Closing
  /\ Call(<<Indent>>, needbreak, Append(nesting, "indent"))
  /\ UNCHANGED pendPrint

StopIndent ==
  /\ nesting # <<>> /\ Innermost = "indent"
  /\ Closing
  /\ Call(<<Delimiter("end_indent")>>, needbreak, Closed)
  /\ UNCHANGED pendPrint

(* beginBlock and endBlock.                                                *)
Block ==
  /\ "block" \in repertoire
  /\ InCode /\ Closing /\ Room
  /\ Call(<<Delimiter("ignore")>>, needbreak, nesting)
  /\ UNCHANGED pendPrint

(* print and the tag operations.                                           *)
PrintText ==
  /\ nesting # <<>> /\ Room
  /\ \E n \in Texts : Call(Separator \o <<String(n)>>, TRUE, nesting)
  /\ UNCHANGED pendPrint

Spaces ==
  /\ "space" \in repertoire
  /\ nesting # <<>> /\ Room
  /\ \E num \in Gaps, bump \in Bumps :
       Call(Filler \o <<Space(num, bump)>>, FALSE, nesting)
  /\ UNCHANGED pendPrint

(* tagLine: emitPending comes first, and its braces leave needbreak set.   *)
TagLine ==
  /\ "line" \in repertoire
  /\ nesting # <<>> /\ Room
  /\ \E line \in {Line} \cup {LineAt(i) : i \in Margins} :
       IF pendPrint
       THEN /\ Opening
            /\ Call(OpenBrace \o <<line>>, FALSE, Append(nesting, "indent"))
       ELSE Call(Filler \o <<line>>, FALSE, nesting)
  /\ pendPrint' = FALSE

SetPendingPrint ==
  /\ "brace" \in repertoire
  /\ Ready /\ InCode /\ Opening /\ ~pendPrint
  /\ pendPrint' = TRUE
  /\ UNCHANGED <<queues, layout, phase, needbreak, todo, repertoire, nesting, quiet>>

CancelPendingPrint ==
  /\ Ready /\ pendPrint
  /\ pendPrint' = FALSE
  /\ UNCHANGED <<queues, layout, phase, needbreak, todo, repertoire, nesting, quiet>>

(* flush, at the end of a function.                                        *)
Flush ==
  /\ phase = "idle" /\ todo = <<>> /\ nesting = <<>> /\ needbreak
  /\ phase' = "flush"
  /\ UNCHANGED <<queues, layout, calls>>

(* clear, when PrintC throws in the middle of a function.  The queues keep *)
(* the size they have grown to; what is printed next goes to a stream of   *)
(* its own.                                                                *)
Clear ==
  /\ phase = "idle" /\ todo = <<>> /\ nesting # <<>>
  /\ tokqueue' = Emptied(tokqueue.max, BlankToken)
  /\ scanqueue' = Emptied(scanqueue.max, BlankRef)
  /\ leftotal' = 1 /\ rightotal' = 1
  /\ spaceremain' = LineSize /\ indentstack' = <<>> /\ commentmode' = FALSE
  /\ column' = 0 /\ unit' = <<>>
  /\ needbreak' = FALSE /\ pendPrint' = FALSE
  /\ nesting' = <<>> /\ quiet' = 0
  /\ UNCHANGED <<todo, repertoire, phase>>
-----------------------------------------------------------------------------
(* scan.  The token is pushed; if that fills the queue both queues expand, *)
(* and as the expansion puts the leftmost token at index 0 the references  *)
(* in scanqueue are moved with it.                                         *)
RebasedNot(q, left, max) == q                \* faulty: the references stay

Rebased(q, left, max) ==
  QueueOf([i \in DOMAIN q.cache |-> (q.cache[i] + max - left) % max],
          q.left, q.right, q.max)

QueuedApart(token) ==                        \* faulty: scanqueue does not expand
  LET full == Pushed(tokqueue, token)
  IN IF IsEmpty(full)
     THEN <<Expanded(full, Expansion, BlankToken),
            Rebased(scanqueue, full.left, full.max)>>
     ELSE <<full, scanqueue>>

(* What scan finds: <<tokqueue, scanqueue>> with the token on top.         *)
Queued(token) ==
  LET full == Pushed(tokqueue, token)
  IN IF IsEmpty(full)
     THEN <<Expanded(full, Expansion, BlankToken),
            Expanded(Rebased(scanqueue, full.left, full.max), Expansion,
                     BlankRef)>>
     ELSE <<full, scanqueue>>

Resized(q, ref, size) ==
  QueueOf([q.cache EXCEPT ![ref] = [q.cache[ref] EXCEPT !.size = size]],
          q.left, q.right, q.max)

(* A reference taken from the top of scanqueue: its token's size, minus    *)
(* the width before it so far, becomes the width of the token.             *)
Committed(both) ==
  LET ref == Top(both[2])
  IN <<Resized(both[1], ref, both[1].cache[ref].size + rightotal),
       Popped(both[2], BlankRef)>>

(* A token whose width is to be known later.                               *)
Uncommitted(both, right) ==
  <<Resized(both[1], both[1].right, -right), Pushed(both[2], both[1].right)>>

BreakOnTop(both) ==
  /\ ~IsEmpty(both[2])
  /\ both[1].cache[Top(both[2])].class = "tokenbreak"

Scanning(classes) ==
  /\ phase = "idle" /\ todo # <<>> /\ Head(todo).class \in classes
  /\ todo' = Tail(todo)
  /\ quiet' = IF Head(todo).class \in Quiet THEN quiet + 1 ELSE 0
  /\ UNCHANGED <<layout, needbreak, pendPrint, repertoire, nesting>>

SetQueues(both) == tokqueue' = both[1] /\ scanqueue' = both[2]

ScanBegin ==
  /\ Scanning(Begins)
  /\ LET both == Queued(Head(todo))
         right == IF IsEmpty(both[2]) THEN 1 ELSE rightotal
     IN /\ SetQueues(Uncommitted(both, right))
        /\ leftotal' = IF IsEmpty(both[2]) THEN 1 ELSE leftotal
        /\ rightotal' = right
  /\ UNCHANGED phase

ScanEndOnce ==                               \* faulty: one reference only
  /\ Scanning(Ends)
  /\ LET both == Queued(Head(todo))
         group == IF IsEmpty(both[2]) THEN both ELSE Committed(both)
     IN /\ SetQueues(group)
        /\ phase' = IF IsEmpty(group[2]) /\ ~IsEmpty(both[2])
                    THEN "advance" ELSE "idle"
  /\ UNCHANGED <<leftotal, rightotal>>

ScanEndHolding ==                            \* faulty: no advanceleft
  /\ Scanning(Ends)
  /\ LET both == Queued(Head(todo))
         inner == IF BreakOnTop(both) THEN Committed(both) ELSE both
     IN SetQueues(IF IsEmpty(inner[2]) THEN inner ELSE Committed(inner))
  /\ UNCHANGED <<leftotal, rightotal, phase>>

(* The end of a group commits the last white space in it and the group.    *)
ScanEnd ==
  /\ Scanning(Ends)
  /\ LET both == Queued(Head(todo))
         inner == IF BreakOnTop(both) THEN Committed(both) ELSE both
         group == IF IsEmpty(inner[2]) THEN inner ELSE Committed(inner)
     IN /\ SetQueues(group)
        /\ phase' = IF IsEmpty(group[2]) /\ ~IsEmpty(both[2])
                    THEN "advance" ELSE "idle"
  /\ UNCHANGED <<leftotal, rightotal>>

(* White space commits the white space before it in its group.             *)
ScanBreak ==
  /\ Scanning({"tokenbreak"})
  /\ LET both == Queued(Head(todo))
         right == IF IsEmpty(both[2]) THEN 1 ELSE rightotal
     IN /\ SetQueues(Uncommitted(IF BreakOnTop(both) THEN Committed(both) ELSE both,
                                 right))
        /\ leftotal' = IF IsEmpty(both[2]) THEN 1 ELSE leftotal
        /\ rightotal' = right + Head(todo).num
  /\ UNCHANGED phase

ScanQuiet ==
  /\ Scanning({"begin_indent", "end_indent", "ignore"})
  /\ SetQueues(Queued(Head(todo)))
  /\ UNCHANGED <<leftotal, rightotal, phase>>

ScanString ==
  /\ Scanning({"tokenstring"})
  /\ LET both == Queued(Head(todo))
     IN /\ SetQueues(both)
        /\ IF IsEmpty(both[2])
           THEN UNCHANGED <<rightotal, phase>>
           ELSE /\ rightotal' = rightotal + Head(todo).size
                /\ phase' = "force"
  /\ UNCHANGED leftotal

(* The loop for text that does not fit: it breaks the line at the earliest *)
(* token it can.                                                           *)
Overfull == rightotal - leftotal > spaceremain

ForceLatest ==                               \* faulty: pop for popbottom
  /\ phase = "force" /\ Overfull
  /\ tokqueue' = Resized(tokqueue, Top(scanqueue), HardBreak)
  /\ scanqueue' = Popped(scanqueue, BlankRef)
  /\ phase' = "forced"
  /\ UNCHANGED <<leftotal, rightotal, layout, calls>>

ForceBreak ==
  /\ phase = "force" /\ Overfull
  /\ tokqueue' = Resized(tokqueue, Bottom(scanqueue), HardBreak)
  /\ scanqueue' = BottomPopped(scanqueue, BlankRef)
  /\ phase' = "forced"
  /\ UNCHANGED <<leftotal, rightotal, layout, calls>>

ForceDone ==
  /\ phase = "force" /\ ~Overfull
  /\ phase' = "idle"
  /\ UNCHANGED <<queues, layout, calls>>
-----------------------------------------------------------------------------
(* advanceleft and flush: the leftmost token goes to `print', and on to    *)
(* the low-level emitter, if its size is known.                            *)
Leftmost == Bottom(tokqueue)

CanLetGo == ~IsEmpty(tokqueue) /\ Leftmost.size >= 0

Width(token) ==
  CASE token.class = "tokenbreak" -> token.num
    [] token.class = "tokenstring" -> token.size
    [] OTHER -> 0

LetGo(classes) ==
  /\ phase \in {"advance", "forced", "flush"}
  /\ CanLetGo /\ Leftmost.class \in classes
  /\ tokqueue' = BottomPopped(tokqueue, BlankToken)
  /\ leftotal' = IF phase = "flush" THEN leftotal ELSE leftotal + Width(Leftmost)
  /\ UNCHANGED <<scanqueue, rightotal, calls, phase>>

(* The code reads and pops indentstack with no look at whether it is empty:*)
(* the actions that do require that it is not, and a printer that came to  *)
(* that would never print its function (FunctionPrinted).                  *)
Back == indentstack[Len(indentstack)]

Ungrouped(s) == SubSeq(s, 1, Len(s) - 1)

PrintIgnore == LetGo({"ignore"}) /\ UNCHANGED layout

PrintIndent ==
  /\ LetGo({"begin_indent"})
  /\ indentstack # <<>>
  /\ indentstack' = Append(indentstack, Back - Leftmost.bump)
  /\ unit' = Append(unit, "loose")
  /\ UNCHANGED <<spaceremain, commentmode, column>>

(* A group is printed as a unit when all of it fits on the line.           *)
PrintBegin ==
  /\ LetGo(Begins)
  /\ indentstack' = Append(indentstack, spaceremain)
  /\ unit' = Append(unit, IF Leftmost.size <= spaceremain THEN "whole" ELSE "loose")
  /\ commentmode' = (commentmode \/ Leftmost.class = "begin_comment")
  /\ UNCHANGED <<spaceremain, column>>

PrintEndFilling ==                           \* faulty: commentmode stays set
  /\ LetGo(Ends \cup {"end_indent"})
  /\ indentstack # <<>>
  /\ indentstack' = Ungrouped(indentstack)
  /\ unit' = Ungrouped(unit)
  /\ UNCHANGED <<spaceremain, commentmode, column>>

PrintEnd ==
  /\ LetGo(Ends \cup {"end_indent"})
  /\ indentstack # <<>>
  /\ indentstack' = Ungrouped(indentstack)
  /\ unit' = Ungrouped(unit)
  /\ commentmode' = (commentmode /\ Leftmost.class # "end_comment")
  /\ UNCHANGED <<spaceremain, column>>

(* EmitAnsi: text takes its own width, the color codes around it none, and *)
(* tagLine starts a line with so many spaces.                              *)
Placed(width) ==
  /\ spaceremain' = spaceremain - width
  /\ column' = column + width

Margin(remain) == IF remain <= LineSize THEN LineSize - remain ELSE 0

NewLineUnfilled(remain, width) ==            \* faulty: the fill takes no space
  LET fill == IF commentmode THEN CommentFill ELSE 0
  IN /\ spaceremain' = remain - width
     /\ column' = Margin(remain) + fill + width
     /\ unit' = [i \in DOMAIN unit |-> IF unit[i] = "whole" THEN "torn" ELSE unit[i]]

(* A new line with room for `remain', the fill of a comment, and text.     *)
NewLine(remain, width) ==
  LET fill == IF commentmode THEN CommentFill ELSE 0
  IN /\ spaceremain' = remain - fill - width
     /\ column' = Margin(remain) + fill + width
     /\ unit' = [i \in DOMAIN unit |-> IF unit[i] = "whole" THEN "torn" ELSE unit[i]]

PrintString ==
  /\ LetGo({"tokenstring"})
  /\ Leftmost.size <= spaceremain
  /\ Placed(Leftmost.size)
  /\ UNCHANGED <<indentstack, commentmode, unit>>

(* overflow: the innermost groups that leave less than half of the line    *)
(* are moved to leave half.                                                *)
Half == LineSize \div 2

RelievedInner ==                             \* faulty: the outer groups are moved
  [i \in DOMAIN indentstack |->
     IF i < Len(indentstack) /\ indentstack[i] < Half
     THEN Half ELSE indentstack[i]]

Relieved ==
  [i \in DOMAIN indentstack |->
     IF \A j \in i .. Len(indentstack) : indentstack[j] < Half
     THEN Half ELSE indentstack[i]]

NewRemain == IF indentstack = <<>> THEN LineSize ELSE Relieved[Len(indentstack)]

NewLineGains ==
  /\ NewRemain # spaceremain
  /\ commentmode => NewRemain # spaceremain + CommentFill

OverflowString ==
  /\ LetGo({"tokenstring"})
  /\ Leftmost.size > spaceremain
  /\ indentstack' = Relieved
  /\ \/ NewLineGains /\ NewLine(NewRemain, Leftmost.size)
     \/ ~NewLineGains /\ Placed(Leftmost.size) /\ UNCHANGED unit
  /\ UNCHANGED commentmode

FitsBarely == Leftmost.size < spaceremain    \* faulty: no room for the last

Fits == Leftmost.size <= spaceremain

PrintSpaces ==
  /\ LetGo({"tokenbreak"})
  /\ Fits
  /\ Placed(Leftmost.num)
  /\ UNCHANGED <<indentstack, commentmode, unit>>

PrintLineAt ==
  /\ LetGo({"tokenbreak"})
  /\ ~Fits /\ Leftmost.line
  /\ NewLine(LineSize - Leftmost.bump, 0)
  /\ UNCHANGED <<indentstack, commentmode>>

(* White space before what does not fit: a line break, unless it saves too *)
(* little.                                                                 *)
PrintBreak ==
  /\ LetGo({"tokenbreak"})
  /\ ~Fits /\ ~Leftmost.line
  /\ indentstack # <<>>
  /\ LET val == Back - Leftmost.bump
     IN IF Leftmost.num <= spaceremain /\ val - spaceremain < Gain
        THEN Placed(Leftmost.num) /\ UNCHANGED <<indentstack, unit>>
        ELSE /\ indentstack' = [indentstack EXCEPT ![Len(indentstack)] = val]
             /\ NewLine(val, 0)
  /\ UNCHANGED commentmode

AdvanceDone ==
  /\ phase = "advance" /\ ~CanLetGo
  /\ phase' = "idle"
  /\ UNCHANGED <<queues, layout, calls>>

ForcedDone ==
  /\ phase = "forced" /\ ~CanLetGo
  /\ phase' = IF IsEmpty(scanqueue) THEN "idle" ELSE "force"
  /\ UNCHANGED <<queues, layout, calls>>

FlushDone ==
  /\ phase = "flush" /\ IsEmpty(tokqueue)
  /\ phase' = "idle"
  /\ needbreak' = FALSE
  /\ UNCHANGED <<queues, layout, pendPrint, todo, repertoire, nesting, quiet>>
-----------------------------------------------------------------------------
PrintC ==
  \/ BeginFunction \/ EndFunction \/ OpenGroup \/ CloseGroup
  \/ OpenParen \/ CloseParen \/ StartComment \/ StopComment
  \/ StartIndent \/ StopIndent \/ Block \/ PrintText \/ Spaces \/ TagLine
  \/ SetPendingPrint \/ CancelPendingPrint \/ Clear

Scan == ScanBegin \/ ScanEnd \/ ScanBreak \/ ScanQuiet \/ ScanString

LetGoOne ==
  \/ PrintIgnore \/ PrintIndent \/ PrintBegin \/ PrintEnd \/ PrintString
  \/ OverflowString \/ PrintSpaces \/ PrintLineAt \/ PrintBreak

Printer ==
  \/ Scan \/ ForceBreak \/ ForceDone \/ LetGoOne
  \/ AdvanceDone \/ ForcedDone \/ Flush \/ FlushDone

Next == PrintC \/ Printer

(* The printer runs to the end of each call in the caller's thread.        *)
Spec == Init /\ [][Next]_vars /\ WF_vars(Printer)
-----------------------------------------------------------------------------
Classes == Begins \cup Quiet \cup {"tokenstring", "tokenbreak"}

Tokens == [class : Classes, size : Int, num : Nat, bump : Nat, line : BOOLEAN]

Queue(q, S) ==
  /\ q = QueueOf(q.cache, q.left, q.right, q.max)
  /\ q.max \in Nat \ {0}
  /\ q.cache \in [0 .. q.max - 1 -> S]
  /\ q.left \in 0 .. q.max - 1 /\ q.right \in 0 .. q.max - 1

TypeOK ==
  /\ Queue(tokqueue, Tokens)
  /\ Queue(scanqueue, DOMAIN tokqueue.cache)
  /\ scanqueue.max = tokqueue.max
  /\ leftotal \in Int /\ rightotal \in Int
  /\ spaceremain \in Int /\ column \in Nat
  /\ indentstack \in Seq(Int) /\ unit \in Seq({"whole", "loose", "torn"})
  /\ todo \in Seq(Tokens)
  /\ Len(unit) = Len(indentstack)
  /\ needbreak \in BOOLEAN /\ commentmode \in BOOLEAN /\ pendPrint \in BOOLEAN
  /\ phase \in {"idle", "force", "forced", "advance", "flush"}
  /\ nesting \in Seq({"function", "group", "comment", "indent"})
  /\ quiet \in Nat

(* scanqueue always refers to the queued tokens whose size is not known,   *)
(* in their order, however often the two arrays have wrapped around and    *)
(* been expanded, and whichever end the references were taken from.        *)
ScanqueueIsOpenTokens ==
  LET open == Elements(scanqueue)
      Place(r) == (r - tokqueue.left) % tokqueue.max
  IN /\ \A i, j \in DOMAIN open : i < j => Place(open[i]) < Place(open[j])
     /\ {open[i] : i \in DOMAIN open} =
          {Refs(tokqueue)[i] :
             i \in {i \in 1 .. Held(tokqueue) : Elements(tokqueue)[i].size < 0}}

(* Tokens that wait with no reference in scanqueue can only be delimiters  *)
(* that close or mark: no text waits that nothing would ever let go of.    *)
NothingWaitsUnscanned ==
  (phase = "idle" /\ nesting # <<>> /\ IsEmpty(scanqueue)) =>
    \A i \in DOMAIN Elements(tokqueue) : Elements(tokqueue)[i].class \in Quiet

(* expand is never called with nothing in scanqueue, what its comment      *)
(* takes for granted: it would turn an empty scanqueue into a full one.    *)
ExpandsWithOpenTokens ==
  [][tokqueue'.max # tokqueue.max => ~IsEmpty(scanqueue)]_vars

(* Between two functions the printer is as it began: the checks that are   *)
(* compiled in with PRETTY_DEBUG.                                          *)
FlushesClean ==
  (nesting = <<>> /\ phase = "idle" /\ ~needbreak) =>
    /\ IsEmpty(tokqueue) /\ IsEmpty(scanqueue)
    /\ indentstack = <<>> /\ ~commentmode

(* The space the printer counts on is the space there is on the line.      *)
SpaceIsReal == column = LineSize - spaceremain

(* Text of at most half a line (less the fill, in a comment) never passes  *)
(* the right margin, however deep the nesting.                             *)
WithinMargin ==
  [][\A n \in Texts :
       (/\ (PrintString \/ OverflowString) /\ Leftmost.size = n
        /\ n + (IF commentmode THEN CommentFill ELSE 0) <= Half)
       => column' <= LineSize]_vars

(* "Groups of tokens that should be printed as a unit": no line break is   *)
(* made inside a group that fitted on its line when it began.              *)
UnitsStayWhole == \A i \in DOMAIN unit : unit[i] # "torn"

(* Once a function has ended all of it is printed.                         *)
FunctionPrinted == nesting = <<>> ~> (todo = <<>> /\ IsEmpty(tokqueue))

(* The printer is a queue of tokens: TokenStream.                          *)
Content(t) ==
  [t EXCEPT !.size = IF t.class = "tokenstring" THEN t.size ELSE 0]

AllContents ==
  {Delimiter(c) : c \in Begins \cup Ends \cup {"end_indent", "ignore"}}
  \cup {String(n) : n \in Texts \cup {0, 1}}
  \cup {Space(num, bump) : num \in Gaps \cup {0, 1}, bump \in Bumps \cup {0}}
  \cup {Indent, Line} \cup {LineAt(i) : i \in Margins}

Stream ==
  INSTANCE TokenStream
    WITH Contents <- AllContents,
         pending <- [i \in 1 .. Held(tokqueue) |->
                       [content |-> Content(Elements(tokqueue)[i]),
                        settled |-> Elements(tokqueue)[i].size >= 0]]

InOrder == Stream!Spec
=============================================================================
