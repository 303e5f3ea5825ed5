---------------------------- MODULE ScopeLookup ----------------------------
(***************************************************************************)
(* What the decompiler gets when it asks the global scope, each question   *)
(* answered in one step.  The answer is taken from what has come to light: *)
(* the functions found by earlier questions and the variables mapped so    *)
(* far, the smallest around the range when a container is asked for.  Only *)
(* when none of these will do is LLDB asked, and the function it has there *)
(* is found.  So the order of questions shows: a variable mapped over a    *)
(* function nobody has come across is answered in its place.               *)
(*                                                                         *)
(* Modules may be loaded and unloaded while a question is in progress.  A  *)
(* symbol that LLDB has all that time around the address settles what LLDB *)
(* gives; else it may give nothing, or a function it had in the meantime.  *)
(***************************************************************************)
EXTENDS DebugSymbols

VARIABLES
  table,   \* LLDB's symbol table
  found,   \* where the functions start that have come to light
  data,    \* the variables the analysis has mapped
  asked,   \* the question in progress
  steady,  \* the symbols LLDB has had all the time since it was put
  lately,  \* and those it has had at any time since
  answer   \* the query answered last and its answer, until the next question

vars == <<table, found, data, asked, steady, lately, answer>>

Init ==
  /\ table \in SymbolTables
  /\ found = {} /\ data = {}
  /\ asked = NoQuestion /\ steady = {} /\ lately = {}
  /\ answer = NoAnswer

LoadModule ==
  /\ table' \in SymbolTables
  /\ steady' = steady \cap table'
  /\ lately' = IF asked = NoQuestion THEN {} ELSE lately \cup table'
  /\ UNCHANGED <<found, data, asked, answer>>

(* One question at a time.  Globals are in the code space.                 *)
Ask ==
  /\ asked = NoQuestion
  /\ \E query \in Queries \cup Mappings, a \in Address, n \in Sizes \cup {1} :
       /\ query \in Mappings => a.space = CodeSpace /\ n \in Sizes
       /\ asked' = Question(query, a, n)
  /\ steady' = table /\ lately' = table
  /\ answer' = NoAnswer
  /\ UNCHANGED <<table, found, data>>
-----------------------------------------------------------------------------
(* The answers among what has come to light.                               *)
Light == {FunctionAt(o) : o \in found} \cup data

At == {e \in Light : e.first = asked.offset}
Around == {e \in Light : Covers(e, asked.offset, AskedSize(asked))}

InLight ==
  IF asked.space # CodeSpace THEN {}
  ELSE CASE asked.query = "findFunction" -> {e \in At : e.kind = "function"}
         [] asked.query = "findAddr" -> At
         [] OTHER -> Smallest(Around)

(* Where the functions start that LLDB gives: the one around the address,  *)
(* in whose middle only a container may lie.                               *)
Given(s) == IF s.code /\ (Contain(asked) \/ s.first = asked.offset) THEN {s.first} ELSE {}

Gives ==
  LET here == Resolve(steady, asked.offset)
  IN  IF here # {} THEN {Given(s) : s \in here}
      ELSE {{}} \cup {{s.first} : s \in {t \in lately : t.code}}

(* A function that LLDB gives answers the question only in its own space,  *)
(* and only if its entry is at the address.                                *)
Fits(start) ==
  /\ asked.space = CodeSpace
  /\ IF asked.query = "findFunction" THEN start = asked.offset
     ELSE Covers(FunctionAt(start), asked.offset, 1)

Conclude(entry) ==
  /\ asked' = NoQuestion /\ steady' = {} /\ lately' = {}
  /\ UNCHANGED table
  /\ \/ /\ asked.query \in Queries
        /\ answer' = Answered(asked, entry) /\ UNCHANGED data
     \/ /\ asked.query \in Mappings /\ UNCHANGED answer
        /\ data' = IF entry = Nothing /\ (asked.query = "coverVarnodes" \/ Owned(asked))
                   THEN data \cup {DataAt(asked.offset, asked.size)}
                   ELSE data

AnswerInLight ==
  /\ asked # NoQuestion
  /\ \E entry \in InLight : Conclude(entry)
  /\ UNCHANGED found

AnswerFromLLDB ==
  /\ asked # NoQuestion /\ InLight = {}
  /\ \E given \in Gives :
       /\ found' = found \cup given
       /\ IF \E start \in given : Fits(start)
          THEN \E start \in given : Fits(start) /\ Conclude(FunctionAt(start))
          ELSE Conclude(Nothing)

Next == LoadModule \/ Ask \/ AnswerInLight \/ AnswerFromLLDB

Spec == Init /\ [][Next]_vars
=============================================================================
