----------------------------- MODULE LLDBScope -----------------------------
(***************************************************************************)
(* lldbghidra::LLDBScope, the decompiler's global scope: a ScopeInternal   *)
(* (`cache') filled, one function at a time, from LLDB's symbols.  Queries *)
(* are const in C++, yet they grow the cache, so what one query finds may  *)
(* depend on the ones before it.  A query that the cache does not answer   *)
(* makes up to three calls to LLDB, and modules may come and go between.   *)
(*                                                                         *)
(* The operations that only throw "unimplemented" and the ones delegated   *)
(* to the cache without LLDB (labels, attributes, names) are left out.     *)
(***************************************************************************)
EXTENDS DebugSymbols

VARIABLES
  table,   \* LLDB's symbol table (external)
  cache,   \* the entries of `cache', with their symbols' ids
  answer,  \* the query answered last, until the next question, and the entry
           \* or function it returned
  asked,   \* the question in progress, or NoQuestion
  step,    \* how far it is
  symbol,  \* the SBSymbol it holds, or Nothing
  inner,   \* of mapGlobals: where the uncovered varnodes left to cover are
  steady,  \* for the properties: the symbols LLDB has had all the time since
           \* the question was put,
  lately   \* and those it has had at any time since

scopeVars == <<cache, answer, asked, step, symbol, inner>>
vars == <<table, steady, lately, scopeVars>>

(* addSymbolInternal and addMapInternal: a new symbol takes nextUniqueId,  *)
(* the number of symbols there are.                                        *)
AddedAlike(c, entry) ==                         \* faulty: the id never grows
  c \cup {[id |-> 0, kind |-> entry.kind, first |-> entry.first, last |-> entry.last]}

Added(c, entry) ==
  c \cup {[id |-> Cardinality(c), kind |-> entry.kind,
           first |-> entry.first, last |-> entry.last]}

Shown(e) == [kind |-> e.kind, first |-> e.first, last |-> e.last]

Init ==
  /\ table \in SymbolTables
  /\ steady = {} /\ lately = {}
  /\ cache = {}
  /\ answer = NoAnswer
  /\ asked = NoQuestion /\ step = "idle" /\ symbol = Nothing
  /\ inner = {}

(* Another thread of the debugger loads or unloads modules.                *)
LoadModule ==
  /\ table' \in SymbolTables
  /\ steady' = steady \cap table'
  /\ lately' = IF asked = NoQuestion THEN {} ELSE lately \cup table'
  /\ UNCHANGED scopeVars
-----------------------------------------------------------------------------
(* A question is put; the decompiler asks one after the other.             *)
Put(q) ==
  /\ step = "idle"
  /\ asked' = q /\ step' = "called"
  /\ steady' = table /\ lately' = table
  /\ answer' = NoAnswer
  /\ UNCHANGED <<table, cache, symbol>>

FindFunction(a) == inner = {} /\ Put(Question("findFunction", a, 1)) /\ UNCHANGED inner

FindAddr(a) == inner = {} /\ Put(Question("findAddr", a, 1)) /\ UNCHANGED inner

FindContainer(a, size) ==
  inner = {} /\ Put(Question("findContainer", a, size)) /\ UNCHANGED inner

(* Funcdata::mapGlobals for one global of the function, at an address the  *)
(* global scope owns.                                                      *)
InCode(offset) == [space |-> CodeSpace, offset |-> offset]

MapGlobals(offset, size) ==
  /\ inner = {} /\ offset \in Globals
  /\ Put(Question("mapGlobals", InCode(offset), size)) /\ UNCHANGED inner

(* coverVarnodes: the uncovered varnodes in the order of their addresses,  *)
(* one at each, as many of them as there are.                              *)
CoverVarnode(offset, size) ==
  /\ offset \in inner
  /\ Put(Question("coverVarnodes", InCode(offset), size))
  /\ inner' = {o \in inner : o > offset}

AllCovered ==
  /\ step = "idle" /\ inner # {} /\ inner' = {}
  /\ UNCHANGED <<table, steady, lately, cache, answer, asked, step, symbol>>
-----------------------------------------------------------------------------
(* What happens with an entry that a question got, or with its lack.       *)
ReturnEntry(entry, c) ==
  /\ asked.query \in Queries
  /\ answer' = Answered(asked, entry) /\ cache' = c /\ step' = "idle"
  /\ UNCHANGED inner

MapVariable(entry, c) ==
  /\ asked.query \in Mappings /\ entry = Nothing
  /\ asked.query = "mapGlobals" => Owned(asked)
  /\ cache' = Added(c, DataAt(asked.offset, asked.size)) /\ step' = "idle"
  /\ UNCHANGED <<answer, inner>>

(* "Could not discover scope": only a part of the range is in a scope.     *)
NoScope(entry, c) ==
  /\ asked.query = "mapGlobals" /\ entry = Nothing /\ ~Owned(asked)
  /\ cache' = c /\ step' = "thrown"
  /\ UNCHANGED <<answer, inner>>

(* An entry that ends before the global does leaves varnodes uncovered.    *)
InnerOffsets(entry) ==
  {o \in Offsets : /\ asked.offset < o /\ o < asked.offset + asked.size
                   /\ entry.last < asked.offset + asked.size - 1}

LinkToEntry(entry, c) ==
  /\ asked.query \in Mappings /\ entry # Nothing
  /\ cache' = c /\ step' = "idle"
  /\ inner' = IF asked.query = "mapGlobals" THEN InnerOffsets(entry) ELSE inner
  /\ UNCHANGED answer

Finish(entry, c) ==
  /\ \/ ReturnEntry(entry, c) \/ MapVariable(entry, c)
     \/ NoScope(entry, c) \/ LinkToEntry(entry, c)
  /\ asked' = NoQuestion /\ symbol' = Nothing
  /\ steady' = {} /\ lately' = {}
  /\ UNCHANGED table
-----------------------------------------------------------------------------
(* ScopeInternal::findFunction, findAddr and findContainer: the candidates *)
(* for their result, in the entry map of the address's space.              *)
CachedFunction(q) ==
  {e \in cache : q.space = CodeSpace /\ e.kind = "function" /\ e.first = q.offset}

CachedAt(q) == {e \in cache : q.space = CodeSpace /\ e.first = q.offset}

AnyAround(q) ==                                 \* faulty: not the smallest
  {e \in cache : q.space = CodeSpace /\ Covers(e, q.offset, AskedSize(q))}

CachedAround(q) ==
  Smallest({e \in cache : q.space = CodeSpace /\ Covers(e, q.offset, AskedSize(q))})

Hits(q) ==
  CASE q.query = "findFunction" -> CachedFunction(q)
    [] q.query = "findAddr" -> CachedAt(q)
    [] OTHER -> CachedAround(q)

(* The cache first, then queryLLDBAbsolute: the symbol at the offset.  The *)
(* space of the address is not passed.                                     *)
LookUp ==
  /\ step = "called"
  /\ \/ \E e \in Hits(asked) : Finish(Shown(e), cache)
     \/ Hits(asked) = {} /\ Resolve(table, asked.offset) = {} /\ Finish(Nothing, cache)
     \/ /\ Hits(asked) = {}
        /\ symbol' \in Resolve(table, asked.offset)
        /\ step' = "resolved"
        /\ UNCHANGED <<table, steady, lately, cache, answer, asked, inner>>

(* GetStartAddress().GetLoadAddress(): none when the symbol's module has   *)
(* gone, another one when it has moved.                                    *)
Start(s) == {r.first : r \in {t \in table : t.name = s.name}}

ReadStart ==
  /\ step = "resolved"
  /\ IF symbol.code /\ (Contain(asked) \/ Start(symbol) = {asked.offset})
     THEN /\ step' = "placed"
          /\ UNCHANGED <<table, steady, lately, cache, answer, asked, symbol, inner>>
     ELSE Finish(Nothing, cache)

(* registerFunction reads the start again.                                 *)
RegisteredAgain(start) ==                       \* faulty: no look in the cache
  Added(cache, FunctionAt(start))

Registered(start) ==
  IF CachedFunction(InCode(start)) # {} THEN cache
  ELSE Added(cache, FunctionAt(start))

(* cache->findFunction(addr), or Symbol::getMapEntry of the function that  *)
(* was registered: space and offset match.                                 *)
HasMapEntry(start, q) ==
  /\ q.space = CodeSpace
  /\ IF q.query = "findFunction" THEN start = q.offset
     ELSE Covers(FunctionAt(start), q.offset, 1)

RegisterFunction ==
  /\ step = "placed"
  /\ \/ Start(symbol) = {} /\ Finish(Nothing, cache)
     \/ \E start \in Start(symbol) :
          Finish(IF HasMapEntry(start, asked) THEN FunctionAt(start) ELSE Nothing,
                 Registered(start))

Asking ==
  \/ \E a \in Address : FindFunction(a) \/ FindAddr(a)
  \/ \E a \in Address, n \in Sizes : FindContainer(a, n)
  \/ \E o \in Offsets, n \in Sizes : MapGlobals(o, n) \/ CoverVarnode(o, n)
  \/ AllCovered

Answering == LookUp \/ ReadStart \/ RegisterFunction

Next == LoadModule \/ Asking \/ Answering

Spec == Init /\ [][Next]_vars
-----------------------------------------------------------------------------
(* A symbol's id becomes the id of its function's local scope: attachScope *)
(* throws when two are equal.                                              *)
CacheEntry ==
  [id : Nat, kind : {"function", "data"}, first : Offsets, last : Nat]

TypeOK ==
  /\ table \in SymbolTables /\ steady \subseteq table
  /\ cache \subseteq CacheEntry
  /\ {e.id : e \in cache} = 0..(Cardinality(cache) - 1)
  /\ answer.entry \in {Nothing} \cup [kind : {"function", "data"}, first : Offsets, last : Nat]
  /\ asked.query \in {"none"} \cup Queries \cup Mappings /\ asked.space \in Spaces
  /\ step \in {"idle", "called", "resolved", "placed", "thrown"}
  /\ inner \subseteq Offsets
  /\ step \in {"resolved", "placed"} <=> symbol # Nothing

(* Two FunctionSymbols at one address would be two Funcdata, each analysed *)
(* without the other's prototype.                                          *)
OneFunctionPerAddress ==
  \A e, f \in cache :
    e.kind = "function" /\ f.kind = "function" /\ e.first = f.first => e = f

(* Seen from the analysis a query is one step: it gets the smallest of the *)
(* functions it has come across and the variables it has mapped, else what *)
(* LLDB has there, and a module that comes or goes between the calls to    *)
(* LLDB shows in the answer only if the symbol at the address was its own. *)
CachedStarts == {e.first : e \in {f \in cache : f.kind = "function"}}
CachedData == {Shown(e) : e \in {f \in cache : f.kind = "data"}}
Lookup == INSTANCE ScopeLookup WITH found <- CachedStarts, data <- CachedData
ImplementsLookup == Lookup!Spec

(* A global is never mapped onto a function that LLDB has had all the time *)
(* since its container was asked for: the question also finds functions    *)
(* the analysis has not come across yet.                                   *)
NoGlobalOnFunction ==
  [][\A e \in cache' \ cache : e.kind = "data" =>
       \A s \in steady : s.code => ~Covers(FunctionAt(s.first), e.first, 1)]_vars

(* database.hh:623, "Find the smallest Symbol containing the given memory  *)
(* range": when findContainer answers with an entry that contains the      *)
(* range, LLDB has no function whose entry contains it and is smaller.     *)
SmallestContainer ==
  /\ answer.query = "findContainer" /\ answer.entry # Nothing
  /\ answer.space = CodeSpace /\ Covers(answer.entry, answer.offset, answer.size)
  => \A s \in table :
       s.code /\ Covers(FunctionAt(s.first), answer.offset, answer.size) =>
         answer.entry.last - answer.entry.first < EntrySize
=============================================================================
