---------------------------- MODULE DebugSymbols ----------------------------
(***************************************************************************)
(* The symbols LLDB knows of a target, as the plugin's scope asks for      *)
(* them, the entries of a decompiler scope, and the questions put to it.   *)
(* LLDB itself is external: a symbol table is a set of symbols with load   *)
(* addresses.                                                              *)
(***************************************************************************)
EXTENDS Integers, FiniteSets

CONSTANTS
  MaxOffset,     \* bound: the offsets asked for are 0..MaxOffset
  EntrySize,     \* Architecture::min_funcsymbol_size
  CodeSpace,     \* getDefaultCodeSpace
  Spaces,        \* the address spaces of the architecture
  Nothing,       \* a null pointer
  Names,         \* what tells one SBSymbol from another, wherever it is loaded
  SymbolTables,  \* the symbol tables the target may have
  Sizes,         \* the sizes of the ranges asked for
  Globals        \* the offsets of the code space the global scope owns

Offsets == 0..MaxOffset
Address == [space : Spaces, offset : Offsets]

(* [first, last] is a symbol's range; `code' says that its type is         *)
(* eSymbolTypeCode or eSymbolTypeResolver.                                 *)
DebugSymbol == [name : Names, first : Offsets, last : Offsets, code : BOOLEAN]

(* LLDB sizes its symbols so that they do not overlap, and a code symbol   *)
(* holds an instruction.                                                   *)
WellFormed(table) ==
  \A s \in table :
    /\ s.first <= s.last
    /\ s.code => s.first + EntrySize <= s.last + 1
    /\ \A r \in table : r # s => /\ r.last < s.first \/ s.last < r.first
                                 /\ r.name # s.name

ASSUME EntryAssumption == MaxOffset \in Nat /\ EntrySize \in Nat \ {0}
ASSUME SpaceAssumption == CodeSpace \in Spaces
ASSUME NothingAssumption ==
  /\ Nothing \notin [kind : {"function", "data"}, first : Offsets, last : Nat]
  /\ Nothing \notin DebugSymbol
ASSUME TableAssumption ==
  /\ SymbolTables # {}
  /\ \A table \in SymbolTables : table \subseteq DebugSymbol /\ WellFormed(table)
  /\ \A t, u \in SymbolTables : \A s \in t, r \in u : s.name = r.name => s.code = r.code
ASSUME SizesAssumption == Sizes \subseteq Nat \ {0}

(* ResolveSymbolContextForAddress(...).GetSymbol(): at most one symbol.    *)
Resolve(table, offset) == {s \in table : s.first <= offset /\ offset <= s.last}

(* The range of a scope's entry.  A FunctionSymbol covers EntrySize bytes. *)
Covers(entry, offset, size) ==
  entry.first <= offset /\ offset + size - 1 <= entry.last

FunctionAt(start) ==
  [kind |-> "function", first |-> start, last |-> start + EntrySize - 1]

DataAt(start, size) ==
  [kind |-> "data", first |-> start, last |-> start + size - 1]

Smallest(S) == {e \in S : \A f \in S : e.last - e.first <= f.last - f.first}

(***************************************************************************)
(* A question put to the scope: one of the queries, or a step of           *)
(* Funcdata::mapGlobals or of coverVarnodes, which ask for a container and *)
(* map a variable of that range when there is none.  mapGlobals asks for   *)
(* the container of the first byte only.                                   *)
(***************************************************************************)
Queries == {"findFunction", "findAddr", "findContainer"}
Mappings == {"mapGlobals", "coverVarnodes"}

Question(query, a, size) ==
  [query |-> query, space |-> a.space, offset |-> a.offset, size |-> size]

NoQuestion == Question("none", [space |-> CodeSpace, offset |-> 0], 1)

AskedSize(q) == IF q.query = "mapGlobals" THEN 1 ELSE q.size

(* Whether a symbol around the address will do, or only one that starts    *)
(* there: the argument `contain' of queryLLDB.                             *)
ForgottenContain(q) == q.query \in {"findContainer", "coverVarnodes"}  \* faulty
Contain(q) == q.query \in {"findContainer"} \cup Mappings

(* The range of the variable a mapping makes is in the global scope.       *)
Owned(q) == q.offset .. q.offset + q.size - 1 \subseteq Globals

(* A question that has been answered, and with which entry.                *)
Answered(q, entry) ==
  [query |-> q.query, space |-> q.space, offset |-> q.offset, size |-> q.size,
   entry |-> entry]

NoAnswer == Answered(NoQuestion, Nothing)
=============================================================================
