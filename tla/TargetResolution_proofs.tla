---------------------- MODULE TargetResolution_proofs ----------------------
(***************************************************************************)
(* Proofs about LLDBScope and TargetResolution: the scope's invariants,    *)
(* that its queries implement ScopeLookup, and that the loop over the      *)
(* modules finds a module that stays.                                      *)
(***************************************************************************)
EXTENDS TargetResolution, FiniteSetTheorems, TLAPS

Entry == [kind : {"function", "data"}, first : Offsets, last : Nat]

(* What the cache may hold: entries with the ids that addSymbolInternal    *)
(* gives, one function at an address.                                      *)
GoodCache(c) ==
  /\ IsFiniteSet(c) /\ c \subseteq CacheEntry
  /\ {e.id : e \in c} = 0 .. (Cardinality(c) - 1)
  /\ \A e \in c : e.kind = "function" => Shown(e) = FunctionAt(e.first)
  /\ \A e, f \in c : (/\ e.kind = "function" /\ f.kind = "function"
                      /\ e.first = f.first) => e = f

(* A question in progress.                                                 *)
AnyQuestion ==
  [query : Queries \cup Mappings, space : Spaces, offset : Offsets,
   size : Sizes \cup {1}]

QuestionOK ==
  /\ asked \in AnyQuestion
  /\ asked.query \in Mappings => asked.space = CodeSpace /\ asked.size \in Sizes
  /\ steady \subseteq table /\ table \subseteq lately
  /\ lately \subseteq UNION SymbolTables

(* The symbol it holds is the only one that may have been around its       *)
(* address all the time, and the cache had no answer.                      *)
HeldOK ==
  /\ symbol \in lately
  /\ Hits(asked) = {}
  /\ symbol.first <= asked.offset /\ asked.offset <= symbol.last
  /\ Resolve(steady, asked.offset) \subseteq {symbol}

PlacedOK ==
  /\ symbol.code
  /\ Contain(asked) \/ (symbol \in steady => symbol.first = asked.offset)

NoneAsked == asked = NoQuestion /\ steady = {} /\ lately = {} /\ symbol = Nothing

ScopeInv ==
  /\ table \in SymbolTables
  /\ GoodCache(cache)
  /\ answer.entry \in {Nothing} \cup Entry
  /\ inner \subseteq Offsets
  /\ step \in {"idle", "called", "resolved", "placed", "thrown"}
  /\ step \in {"idle", "thrown"} => NoneAsked
  /\ step \in {"called", "resolved", "placed"} => QuestionOK
  /\ step = "called" => symbol = Nothing
  /\ step \in {"resolved", "placed"} => HeldOK
  /\ step = "placed" => PlacedOK

LEMMA ScopeInvariants ==
  ScopeInv => TypeOK /\ OneFunctionPerAddress
<1> SUFFICES ASSUME ScopeInv PROVE TypeOK /\ OneFunctionPerAddress
  OBVIOUS
<1>1. OneFunctionPerAddress
  BY DEF ScopeInv, GoodCache, OneFunctionPerAddress
<1>2. /\ asked.query \in {"none"} \cup Queries \cup Mappings /\ asked.space \in Spaces
      /\ steady \subseteq table
  <2>1. CASE step \in {"idle", "thrown"}
    BY <2>1, SpaceAssumption DEF ScopeInv, NoneAsked, NoQuestion, Question
  <2>2. CASE step \in {"called", "resolved", "placed"}
    BY <2>2 DEF ScopeInv, QuestionOK, AnyQuestion
  <2> QED
    BY <2>1, <2>2 DEF ScopeInv
<1>3. step \in {"resolved", "placed"} <=> symbol # Nothing
  <2>1. CASE step \in {"resolved", "placed"}
    <3>1. symbol \in DebugSymbol
      BY <2>1, TableAssumption DEF ScopeInv, QuestionOK, HeldOK
    <3> QED
      BY <2>1, <3>1, NothingAssumption
  <2>2. CASE step \notin {"resolved", "placed"}
    BY <2>2 DEF ScopeInv, NoneAsked
  <2> QED
    BY <2>1, <2>2
<1> QED
  BY <1>1, <1>2, <1>3 DEF ScopeInv, GoodCache, TypeOK, Entry
-----------------------------------------------------------------------------
(* A code symbol starts in the range of offsets and holds the entry of a   *)
(* function; symbols neither overlap nor share a name.                     *)
LEMMA TableSymbols ==
  ASSUME NEW t \in SymbolTables, NEW s \in t
  PROVE  /\ s \in DebugSymbol
         /\ s.first \in Nat /\ s.last \in Nat /\ s.first \in Offsets
         /\ s.first <= s.last
         /\ s.code => s.first + EntrySize <= s.last + 1
         /\ \A r \in t : r # s => /\ r.last < s.first \/ s.last < r.first
                                  /\ r.name # s.name
  BY TableAssumption, EntryAssumption DEF WellFormed, DebugSymbol, Offsets

(* Around an address there is one symbol.                                  *)
LEMMA OneAround ==
  ASSUME NEW t \in SymbolTables, NEW s \in t, NEW o \in Nat, s.first <= o, o <= s.last
  PROVE  Resolve(t, o) = {s}
<1>1. \A r \in t : r.first <= o /\ o <= r.last => r = s
  <2>1. ASSUME NEW r \in t, r.first <= o, o <= r.last, r # s
        PROVE  FALSE
    <3>1. /\ r.first \in Nat /\ r.last \in Nat /\ s.first \in Nat /\ s.last \in Nat
          /\ r.last < s.first \/ s.last < r.first
      BY <2>1, TableSymbols
    <3> QED
      BY <2>1, <3>1
  <2> QED
    BY <2>1
<1> QED
  BY <1>1 DEF Resolve

LEMMA EntryShape ==
  ASSUME NEW o \in Offsets
  PROVE  /\ FunctionAt(o) \in Entry
         /\ \A n \in Sizes : DataAt(o, n) \in Entry
         /\ \A e \in Entry : e # Nothing
  BY EntryAssumption, SizesAssumption, NothingAssumption
  DEF FunctionAt, DataAt, Entry, Offsets

(* A new symbol takes an id that is free.                                  *)
LEMMA AddedEntry ==
  ASSUME NEW c, IsFiniteSet(c), c \subseteq CacheEntry,
         {e.id : e \in c} = 0 .. (Cardinality(c) - 1),
         NEW x \in Entry
  PROVE  /\ IsFiniteSet(Added(c, x))
         /\ Added(c, x) \subseteq CacheEntry
         /\ {e.id : e \in Added(c, x)} = 0 .. (Cardinality(Added(c, x)) - 1)
         /\ c \subseteq Added(c, x)
         /\ \A e \in Added(c, x) : e \in c \/ Shown(e) = x
         /\ \E e \in Added(c, x) : Shown(e) = x
         /\ {Shown(e) : e \in Added(c, x)} = {Shown(e) : e \in c} \cup {x}
<1> DEFINE new == [id |-> Cardinality(c), kind |-> x.kind,
                   first |-> x.first, last |-> x.last]
<1>1. Cardinality(c) \in Nat
  BY FS_CardinalityType
<1>2. new \notin c
  BY <1>1
<1>3. /\ IsFiniteSet(c \cup {new})
      /\ Cardinality(c \cup {new}) = Cardinality(c) + 1
  BY <1>2, FS_AddElement
<1>4. Added(c, x) = c \cup {new}
  BY DEF Added
<1>5. new \in CacheEntry /\ Shown(new) = x
  BY <1>1 DEF CacheEntry, Entry, Shown
<1>6. {e.id : e \in c \cup {new}} = {e.id : e \in c} \cup {Cardinality(c)}
  <2>1. new.id = Cardinality(c)
    OBVIOUS
  <2> HIDE DEF new
  <2> QED
    BY <2>1
<1>7. 0 .. (Cardinality(c) - 1) \cup {Cardinality(c)} = 0 .. Cardinality(c)
  BY <1>1
<1>8. {e.id : e \in Added(c, x)} = 0 .. (Cardinality(Added(c, x)) - 1)
  BY <1>1, <1>3, <1>4, <1>6, <1>7
<1> HIDE DEF new
<1> QED
  BY <1>3, <1>4, <1>5, <1>8

DataOf(c) == {Shown(e) : e \in {f \in c : f.kind = "data"}}

StartsOf(c) == {e.first : e \in {f \in c : f.kind = "function"}}

LEMMA GoodAddedData ==
  ASSUME NEW c, GoodCache(c), NEW o \in Offsets, NEW n \in Sizes
  PROVE  LET d == Added(c, DataAt(o, n)) IN
         /\ GoodCache(d)
         /\ DataOf(d) = DataOf(c) \cup {DataAt(o, n)}
         /\ StartsOf(d) = StartsOf(c)
         /\ \A e \in d : e \in c \/ (e.kind = "data" /\ e.first = o)
<1> DEFINE d == Added(c, DataAt(o, n))
<1>1. /\ IsFiniteSet(d) /\ d \subseteq CacheEntry
      /\ {e.id : e \in d} = 0 .. (Cardinality(d) - 1)
      /\ c \subseteq d
      /\ \A e \in d : e \in c \/ Shown(e) = DataAt(o, n)
      /\ \E e \in d : Shown(e) = DataAt(o, n)
  BY EntryShape, AddedEntry DEF GoodCache
<1>2. \A e \in d : e \in c \/ (e.kind = "data" /\ e.first = o)
  BY <1>1 DEF Shown, DataAt
<1>3. \A e, f \in d : (/\ e.kind = "function" /\ f.kind = "function"
                       /\ e.first = f.first) => e = f
  BY <1>2 DEF GoodCache
<1>4. GoodCache(d)
  BY <1>1, <1>2, <1>3 DEF GoodCache
<1>5. DataOf(d) = DataOf(c) \cup {DataAt(o, n)}
  <2>1. \A e \in d : Shown(e) = DataAt(o, n) => e.kind = "data"
    BY DEF Shown, DataAt
  <2> HIDE DEF d
  <2> QED
    BY <1>1, <2>1 DEF DataOf
<1>6. StartsOf(d) = StartsOf(c)
  <2> HIDE DEF d
  <2> QED
    BY <1>1, <1>2 DEF StartsOf
<1> QED
  BY <1>2, <1>4, <1>5, <1>6

(* registerFunction adds one entry, of the function, if there is none.     *)
LEMMA GoodRegistered ==
  ASSUME ScopeInv, NEW start \in Offsets
  PROVE  LET d == Registered(start) IN
         /\ GoodCache(d)
         /\ DataOf(d) = DataOf(cache)
         /\ StartsOf(d) = StartsOf(cache) \cup {start}
         /\ \A e \in d : e \in cache \/ e.kind = "function"
<1> DEFINE d == Added(cache, FunctionAt(start))
<1>0. CachedFunction(InCode(start)) = {e \in cache : e.kind = "function" /\ e.first = start}
  BY DEF CachedFunction, InCode
<1>1. FunctionAt(start) \in Entry
  BY EntryShape
<1>2. CASE CachedFunction(InCode(start)) # {}
  <2>1. StartsOf(cache) = StartsOf(cache) \cup {start}
    BY <1>0, <1>2 DEF StartsOf
  <2> QED
    BY <1>2, <2>1 DEF Registered, ScopeInv
<1>3. CASE CachedFunction(InCode(start)) = {}
  <2>1. Registered(start) = d
    BY <1>3 DEF Registered
  <2>2. /\ IsFiniteSet(d) /\ d \subseteq CacheEntry
        /\ {e.id : e \in d} = 0 .. (Cardinality(d) - 1)
        /\ cache \subseteq d
        /\ \A e \in d : e \in cache \/ Shown(e) = FunctionAt(start)
        /\ \E e \in d : Shown(e) = FunctionAt(start)
    BY <1>1, AddedEntry DEF ScopeInv, GoodCache
  <2>3. \A e \in cache : ~(e.kind = "function" /\ e.first = start)
    BY <1>0, <1>3
  <2>4. \A e \in d : \/ e \in cache
                     \/ /\ e.first = start /\ e.kind = "function"
                        /\ Shown(e) = FunctionAt(e.first)
    BY <2>2 DEF Shown, FunctionAt
  <2>5. \A e, f \in d : (/\ e.kind = "function" /\ f.kind = "function"
                         /\ e.first = f.first) => e = f
    <3>1. d = cache \cup {[id |-> Cardinality(cache), kind |-> "function",
                           first |-> start, last |-> start + EntrySize - 1]}
      BY DEF Added, FunctionAt
    <3>2. \A e, f \in cache : (/\ e.kind = "function" /\ f.kind = "function"
                               /\ e.first = f.first) => e = f
      BY DEF ScopeInv, GoodCache
    <3> QED
      BY <2>3, <2>4, <3>1, <3>2
  <2>6. GoodCache(d)
    BY <2>2, <2>4, <2>5 DEF GoodCache, ScopeInv
  <2>7. DataOf(d) = DataOf(cache)
    <3> HIDE DEF d
    <3> QED
      BY <2>2, <2>4 DEF DataOf
  <2>8. StartsOf(d) = StartsOf(cache) \cup {start}
    <3>1. \E e \in d : e.first = start /\ e.kind = "function"
      BY <2>2 DEF Shown, FunctionAt
    <3> HIDE DEF d
    <3> QED
      BY <2>2, <2>4, <3>1 DEF StartsOf
  <2> HIDE DEF d
  <2> QED
    BY <2>1, <2>4, <2>6, <2>7, <2>8
<1> QED
  BY <1>2, <1>3
-----------------------------------------------------------------------------
(* A symbol that is still there starts where it did; one that has moved    *)
(* starts where a symbol of a table the target has had since does.         *)
LEMMA StartStays ==
  ASSUME ScopeInv, NEW s \in table
  PROVE  Start(s) = {s.first}
  BY TableSymbols DEF Start, ScopeInv

LEMMA StartMoves ==
  ASSUME ScopeInv, step \in {"resolved", "placed"}, symbol.code,
         NEW start \in Start(symbol)
  PROVE  start \in Offsets /\ \E t \in lately : t.code /\ t.first = start
<1>1. PICK t \in table : t.name = symbol.name /\ t.first = start
  BY DEF Start
<1>2. t \in lately /\ table \in SymbolTables /\ symbol \in UNION SymbolTables
  BY <1>1 DEF ScopeInv, QuestionOK, HeldOK
<1>3. t.code = symbol.code
  <2>1. PICK u \in SymbolTables : symbol \in u
    BY <1>2
  <2>2. t.name = symbol.name => t.code = symbol.code
    BY <1>1, <1>2, <2>1, TableAssumption
  <2> QED
    BY <1>1, <2>2
<1>4. start \in Offsets
  BY <1>1, <1>2, TableSymbols
<1> QED
  BY <1>1, <1>2, <1>3, <1>4

(* What the cache shows is an entry.                                       *)
LEMMA CachedShape ==
  ASSUME ScopeInv, NEW e \in cache
  PROVE  /\ Shown(e) \in Entry /\ Shown(e) # Nothing
         /\ e.kind = "data" => Shown(e) \in DataOf(cache)
         /\ e.kind = "function" => /\ e.first \in StartsOf(cache)
                                   /\ Shown(e) = FunctionAt(e.first)
         /\ e.kind \in {"function", "data"}
<1>1. Shown(e) \in Entry /\ e.kind \in {"function", "data"}
  BY DEF ScopeInv, GoodCache, CacheEntry, Entry, Shown
<1> QED
  BY <1>1, NothingAssumption DEF ScopeInv, GoodCache, DataOf, StartsOf, Entry

LEMMA HitsCached == Hits(asked) \subseteq cache
  BY DEF Hits, CachedFunction, CachedAt, CachedAround, Smallest
-----------------------------------------------------------------------------
(* A question ends in one of two ways.                                     *)
LEMMA Finished ==
  ASSUME ScopeInv, step \in {"called", "resolved", "placed"},
         NEW entry \in {Nothing} \cup Entry, NEW c, GoodCache(c), Finish(entry, c)
  PROVE  /\ GoodCache(cache') /\ StartsOf(cache') = StartsOf(c)
         /\ DataOf(cache') = IF /\ asked.query \in Mappings /\ entry = Nothing
                                /\ asked.query = "mapGlobals" => Owned(asked)
                             THEN DataOf(c) \cup {DataAt(asked.offset, asked.size)}
                             ELSE DataOf(c)
         /\ asked.query \in Queries => answer' = Answered(asked, entry) /\ step' = "idle"
         /\ asked.query \in Mappings => answer' = answer
         /\ \A e \in cache' : \/ e \in c
                               \/ /\ entry = Nothing /\ asked.query \in Mappings
                                  /\ e.kind = "data" /\ e.first = asked.offset
<1>0. /\ asked.query \in Queries \cup Mappings /\ asked.offset \in Offsets
      /\ asked.query \in Mappings => asked.size \in Sizes
  BY DEF ScopeInv, QuestionOK, AnyQuestion
<1>1. \A q \in Queries : q \notin Mappings
  BY DEF Queries, Mappings
<1>2. CASE ReturnEntry(entry, c)
  BY <1>1, <1>2 DEF ReturnEntry
<1>3. CASE MapVariable(entry, c)
  <2>1. cache' = Added(c, DataAt(asked.offset, asked.size))
    BY <1>3 DEF MapVariable
  <2>2. asked.query \in Mappings /\ asked.query \notin Queries
    BY <1>1, <1>3 DEF MapVariable
  <2>3. /\ GoodCache(cache')
        /\ DataOf(cache') = DataOf(c) \cup {DataAt(asked.offset, asked.size)}
        /\ StartsOf(cache') = StartsOf(c)
        /\ \A e \in cache' : e \in c \/ (e.kind = "data" /\ e.first = asked.offset)
    BY <1>0, <2>1, <2>2, GoodAddedData
  <2> QED
    BY <1>3, <2>2, <2>3 DEF MapVariable
<1>4. CASE NoScope(entry, c)
  BY <1>1, <1>4 DEF NoScope, Mappings
<1>5. CASE LinkToEntry(entry, c)
  BY <1>1, <1>5 DEF LinkToEntry
<1> QED
  BY <1>2, <1>3, <1>4, <1>5 DEF Finish

LEMMA FinishKeeps ==
  ASSUME ScopeInv, step \in {"called", "resolved", "placed"},
         NEW entry \in {Nothing} \cup Entry, NEW c, GoodCache(c), Finish(entry, c)
  PROVE  ScopeInv'
<1>1. GoodCache(cache')
  BY Finished
<1>2. step' \in {"idle", "thrown"} /\ NoneAsked' /\ table' = table
  BY DEF Finish, ReturnEntry, MapVariable, NoScope, LinkToEntry, NoneAsked
<1>3. answer' = answer \/ answer'.entry = entry
  BY DEF Finish, ReturnEntry, MapVariable, NoScope, LinkToEntry, Answered
<1>4. inner' \subseteq Offsets
  BY DEF Finish, ReturnEntry, MapVariable, NoScope, LinkToEntry, ScopeInv, InnerOffsets
<1> QED
  BY <1>1, <1>2, <1>3, <1>4 DEF ScopeInv

(* How each step of an answer ends the question, or goes on.               *)
Ends(entry, c) ==
  /\ step \in {"called", "resolved", "placed"}
  /\ entry \in {Nothing} \cup Entry /\ GoodCache(c) /\ Finish(entry, c)

LEMMA LookUpSteps ==
  ASSUME ScopeInv, LookUp
  PROVE  \/ \E e \in Hits(asked) : Ends(Shown(e), cache)
         \/ /\ Hits(asked) = {} /\ Resolve(table, asked.offset) = {}
            /\ Ends(Nothing, cache)
         \/ /\ ScopeInv' /\ UNCHANGED <<table, steady, lately, cache, answer, asked>>
            /\ step = "called" /\ step' = "resolved"
<1>0. GoodCache(cache) /\ step = "called" /\ QuestionOK /\ asked.offset \in Nat
      /\ table \in SymbolTables
  BY EntryAssumption DEF ScopeInv, LookUp, QuestionOK, AnyQuestion, Offsets
<1>1. ASSUME NEW e \in Hits(asked), Finish(Shown(e), cache)
      PROVE  Ends(Shown(e), cache)
  BY <1>0, <1>1, HitsCached, CachedShape DEF Ends
<1>2. ASSUME Hits(asked) = {}, symbol' \in Resolve(table, asked.offset),
             step' = "resolved",
             UNCHANGED <<table, steady, lately, cache, answer, asked, inner>>
      PROVE  ScopeInv'
  <2>1. /\ symbol' \in table
        /\ symbol'.first <= asked.offset /\ asked.offset <= symbol'.last
    BY <1>2 DEF Resolve
  <2>2. Resolve(table, asked.offset) = {symbol'}
    BY <1>0, <2>1, OneAround
  <2>3. Resolve(steady, asked.offset) \subseteq {symbol'}
    BY <1>0, <2>2 DEF Resolve, QuestionOK
  <2>4. Hits(asked)' = {}
    BY <1>2 DEF Hits, CachedFunction, CachedAt, CachedAround
  <2>5. HeldOK'
    BY <1>0, <1>2, <2>1, <2>3, <2>4 DEF HeldOK, QuestionOK, Resolve
  <2>6. QuestionOK'
    BY <1>0, <1>2 DEF QuestionOK
  <2> QED
    BY <1>0, <1>2, <2>5, <2>6 DEF ScopeInv, GoodCache
<1> QED
  BY <1>0, <1>1, <1>2 DEF LookUp, Ends

LEMMA ReadStartSteps ==
  ASSUME ScopeInv, ReadStart
  PROVE  \/ /\ Ends(Nothing, cache) /\ step = "resolved"
            /\ symbol \in steady =>
                 ~(symbol.code /\ (Contain(asked) \/ symbol.first = asked.offset))
         \/ /\ ScopeInv' /\ UNCHANGED <<table, steady, lately, cache, answer, asked>>
            /\ step = "resolved" /\ step' = "placed"
<1>0. /\ GoodCache(cache) /\ step = "resolved" /\ QuestionOK /\ HeldOK
      /\ symbol \in steady => Start(symbol) = {symbol.first}
  BY StartStays DEF ScopeInv, ReadStart, QuestionOK
<1>1. CASE symbol.code /\ (Contain(asked) \/ Start(symbol) = {asked.offset})
  <2>1. /\ step' = "placed"
        /\ UNCHANGED <<table, steady, lately, cache, answer, asked, symbol, inner>>
    BY <1>1 DEF ReadStart
  <2>2. Contain(asked) \/ (symbol \in steady => symbol.first = asked.offset)
    BY <1>0, <1>1
  <2>3. PlacedOK'
    BY <1>1, <2>1, <2>2 DEF PlacedOK, Contain
  <2>4. QuestionOK' /\ HeldOK'
    BY <1>0, <2>1
    DEF QuestionOK, HeldOK, Hits, CachedFunction, CachedAt, CachedAround, Resolve
  <2> QED
    BY <1>0, <2>1, <2>3, <2>4 DEF ScopeInv, GoodCache
<1>2. CASE ~(symbol.code /\ (Contain(asked) \/ Start(symbol) = {asked.offset}))
  BY <1>0, <1>2 DEF ReadStart, Ends
<1> QED
  BY <1>1, <1>2

LEMMA RegisterSteps ==
  ASSUME ScopeInv, RegisterFunction
  PROVE  \/ Ends(Nothing, cache) /\ symbol \notin steady
         \/ \E start \in Start(symbol) :
              /\ Ends(IF HasMapEntry(start, asked) THEN FunctionAt(start) ELSE Nothing,
                      Registered(start))
              /\ symbol \in steady => start = symbol.first
              /\ start \in Offsets /\ \E t \in lately : t.code /\ t.first = start
<1>0. /\ GoodCache(cache) /\ step = "placed" /\ QuestionOK /\ symbol.code
      /\ symbol \in steady => Start(symbol) = {symbol.first}
  BY StartStays DEF ScopeInv, RegisterFunction, QuestionOK, PlacedOK
<1>1. CASE Start(symbol) = {} /\ Finish(Nothing, cache)
  BY <1>0, <1>1 DEF Ends
<1>2. ASSUME NEW start \in Start(symbol),
             Finish(IF HasMapEntry(start, asked) THEN FunctionAt(start) ELSE Nothing,
                    Registered(start))
      PROVE  /\ Ends(IF HasMapEntry(start, asked) THEN FunctionAt(start) ELSE Nothing,
                     Registered(start))
             /\ symbol \in steady => start = symbol.first
             /\ start \in Offsets /\ \E t \in lately : t.code /\ t.first = start
  <2>1. start \in Offsets /\ \E t \in lately : t.code /\ t.first = start
    BY <1>0, StartMoves
  <2>2. GoodCache(Registered(start)) /\ FunctionAt(start) \in Entry
    BY <2>1, GoodRegistered, EntryShape
  <2> QED
    BY <1>0, <1>2, <2>1, <2>2 DEF Ends
<1> QED
  BY <1>1, <1>2 DEF RegisterFunction

LEMMA AnsweringKeeps ==
  ASSUME ScopeInv, Answering
  PROVE  ScopeInv'
  BY LookUpSteps, ReadStartSteps, RegisterSteps, FinishKeeps DEF Answering, Ends

LEMMA PutKeeps ==
  ASSUME ScopeInv, NEW q \in AnyQuestion,
         q.query \in Mappings => q.space = CodeSpace /\ q.size \in Sizes,
         Put(q), inner' \subseteq Offsets
  PROVE  ScopeInv'
<1>1. /\ step' = "called" /\ asked' = q /\ steady' = table /\ lately' = table
      /\ answer' = NoAnswer /\ UNCHANGED <<table, cache, symbol>> /\ symbol = Nothing
  BY DEF Put, ScopeInv, NoneAsked
<1>2. QuestionOK'
  BY <1>1 DEF QuestionOK, ScopeInv
<1>3. NoAnswer.entry = Nothing
  BY DEF NoAnswer, Answered
<1> QED
  BY <1>1, <1>2, <1>3 DEF ScopeInv, GoodCache

LEMMA Questions ==
  /\ \A a \in Address : /\ Question("findFunction", a, 1) \in AnyQuestion
                        /\ Question("findAddr", a, 1) \in AnyQuestion
                        /\ \A n \in Sizes : Question("findContainer", a, n) \in AnyQuestion
  /\ \A o \in Offsets, n \in Sizes, m \in Mappings :
       Question(m, InCode(o), n) \in AnyQuestion
  /\ \A m, a, n : Question(m, a, n).space = a.space
  BY SpaceAssumption DEF Question, AnyQuestion, Address, Queries, Mappings, InCode

LEMMA AskingKeeps ==
  ASSUME ScopeInv, Asking
  PROVE  ScopeInv'
<1>0. /\ "findFunction" \notin Mappings /\ "findAddr" \notin Mappings
      /\ "findContainer" \notin Mappings
      /\ "mapGlobals" \in Mappings /\ "coverVarnodes" \in Mappings
      /\ inner \subseteq Offsets
  BY DEF Mappings, ScopeInv
<1>1. ASSUME NEW a \in Address, FindFunction(a)
      PROVE  ScopeInv'
  <2>1. Question("findFunction", a, 1) \in AnyQuestion
    BY Questions
  <2>2. Question("findFunction", a, 1).query = "findFunction"
    BY DEF Question
  <2> QED
    BY <1>0, <1>1, <2>1, <2>2, PutKeeps DEF FindFunction
<1>2. ASSUME NEW a \in Address, FindAddr(a)
      PROVE  ScopeInv'
  <2>1. Question("findAddr", a, 1) \in AnyQuestion
    BY Questions
  <2>2. Question("findAddr", a, 1).query = "findAddr"
    BY DEF Question
  <2> QED
    BY <1>0, <1>2, <2>1, <2>2, PutKeeps DEF FindAddr
<1>3. ASSUME NEW a \in Address, NEW n \in Sizes, FindContainer(a, n)
      PROVE  ScopeInv'
  <2>1. Question("findContainer", a, n) \in AnyQuestion
    BY Questions
  <2>2. Question("findContainer", a, n).query = "findContainer"
    BY DEF Question
  <2> QED
    BY <1>0, <1>3, <2>1, <2>2, PutKeeps DEF FindContainer
<1>4. ASSUME NEW o \in Offsets, NEW n \in Sizes, NEW m \in Mappings,
             Put(Question(m, InCode(o), n)), inner' \subseteq Offsets
      PROVE  ScopeInv'
  <2>1. Question(m, InCode(o), n) \in AnyQuestion
    BY Questions
  <2>2. /\ Question(m, InCode(o), n).space = CodeSpace
        /\ Question(m, InCode(o), n).size = n
    BY DEF Question, InCode
  <2> QED
    BY <1>4, <2>1, <2>2, PutKeeps
<1>5. ASSUME NEW o \in Offsets, NEW n \in Sizes, MapGlobals(o, n) \/ CoverVarnode(o, n)
      PROVE  ScopeInv'
  BY <1>0, <1>4, <1>5 DEF MapGlobals, CoverVarnode
<1>6. CASE AllCovered
  <2>1. /\ step' = "idle" /\ inner' = {} /\ NoneAsked
        /\ UNCHANGED <<table, steady, lately, cache, answer, asked, step, symbol>>
    BY <1>6 DEF AllCovered, ScopeInv
  <2> QED
    BY <2>1 DEF ScopeInv, GoodCache, NoneAsked
<1> QED
  BY <1>1, <1>2, <1>3, <1>5, <1>6 DEF Asking

LEMMA LoadModuleKeeps ==
  ASSUME ScopeInv, LoadModule
  PROVE  ScopeInv'
<1>1. /\ table' \in SymbolTables /\ steady' = steady \cap table'
      /\ lately' = IF asked = NoQuestion THEN {} ELSE lately \cup table'
      /\ UNCHANGED <<cache, answer, asked, step, symbol, inner>>
  BY DEF LoadModule, scopeVars
<1>2. CASE step \in {"idle", "thrown"}
  <2>1. NoneAsked'
    BY <1>1, <1>2 DEF ScopeInv, NoneAsked
  <2> QED
    BY <1>1, <1>2, <2>1 DEF ScopeInv, GoodCache
<1>3. CASE step \in {"called", "resolved", "placed"}
  <2>1. asked # NoQuestion
    BY <1>3 DEF ScopeInv, QuestionOK, AnyQuestion, NoQuestion, Question, Queries, Mappings
  <2>2. QuestionOK'
    BY <1>1, <1>3, <2>1 DEF ScopeInv, QuestionOK
  <2>3. Hits(asked)' = Hits(asked)
    BY <1>1 DEF Hits, CachedFunction, CachedAt, CachedAround
  <2>4. HeldOK => HeldOK'
    BY <1>1, <2>1, <2>3 DEF HeldOK, Resolve
  <2>5. PlacedOK => PlacedOK'
    BY <1>1 DEF PlacedOK, Contain
  <2> QED
    BY <1>1, <1>3, <2>2, <2>4, <2>5 DEF ScopeInv, GoodCache
<1> QED
  BY <1>2, <1>3 DEF ScopeInv

LEMMA ScopeStep ==
  ASSUME ScopeInv, [Next]_vars
  PROVE  ScopeInv'
<1>1. CASE UNCHANGED vars
  BY <1>1 DEF vars, scopeVars, ScopeInv, GoodCache, NoneAsked, QuestionOK, HeldOK,
     PlacedOK, Hits, CachedFunction, CachedAt, CachedAround, Resolve, Contain
<1> QED
  BY <1>1, LoadModuleKeeps, AskingKeeps, AnsweringKeeps DEF Next
-----------------------------------------------------------------------------
LEMMA ScopeInitially ==
  ASSUME Init
  PROVE  ScopeInv
<1>1. Cardinality({}) = 0 /\ IsFiniteSet({})
  BY FS_EmptySet
<1>2. 0 .. (Cardinality({}) - 1) = {}
  BY <1>1
<1>3. GoodCache({})
  BY <1>1, <1>2 DEF GoodCache
<1>4. NoAnswer.entry = Nothing
  BY DEF NoAnswer, Answered
<1> QED
  BY <1>3, <1>4 DEF Init, ScopeInv, NoneAsked

THEOREM ScopeInvHolds == Spec => []ScopeInv
<1>1. Init => ScopeInv
  BY ScopeInitially
<1>2. ScopeInv /\ [Next]_vars => ScopeInv'
  BY ScopeStep
<1> QED
  BY <1>1, <1>2, PTL DEF Spec

(* The ids of the cache's entries are 0, 1, ... without a gap, so that no  *)
(* two functions get a local scope of one id, and the cache, the question  *)
(* in progress and the answer are well-typed.                              *)
THEOREM ScopeTypeCorrect == Spec => []TypeOK
<1>1. ScopeInv => TypeOK
  BY ScopeInvariants
<1> QED
  BY <1>1, ScopeInvHolds, PTL

(* Whatever is asked and mapped in whatever order, and whatever the target *)
(* loads and unloads meanwhile, in the middle of a query too:              *)
(* registerFunction never makes a second symbol for a function.            *)
THEOREM FunctionsStayUnique == Spec => []OneFunctionPerAddress
<1>1. ScopeInv => OneFunctionPerAddress
  BY ScopeInvariants
<1> QED
  BY <1>1, ScopeInvHolds, PTL
-----------------------------------------------------------------------------
LEMMA CachedSets ==
  /\ CachedData = DataOf(cache) /\ CachedData' = DataOf(cache')
  /\ CachedStarts = StartsOf(cache) /\ CachedStarts' = StartsOf(cache')
  BY DEF CachedData, DataOf, CachedStarts, StartsOf

(* ScopeLookup shares DebugSymbols with the scope.                         *)
LEMMA SameSymbols ==
  /\ \A q, e : Lookup!Answered(q, e) = Answered(q, e)
  /\ \A q, a, n : Lookup!Question(q, a, n) = Question(q, a, n)
  /\ \A o : Lookup!FunctionAt(o) = FunctionAt(o)
  /\ \A o, n : Lookup!DataAt(o, n) = DataAt(o, n)
  /\ \A e, o, n : Lookup!Covers(e, o, n) <=> Covers(e, o, n)
  /\ \A t, o : Lookup!Resolve(t, o) = Resolve(t, o)
  /\ \A q : Lookup!AskedSize(q) = AskedSize(q)
  /\ \A q : Lookup!Contain(q) <=> Contain(q)
  /\ \A q : Lookup!Owned(q) <=> Owned(q)
  /\ \A S : Lookup!Smallest(S) = Smallest(S)
  /\ Lookup!Queries = Queries /\ Lookup!Mappings = Mappings
  /\ Lookup!Offsets = Offsets /\ Lookup!Address = Address
  /\ Lookup!NoQuestion = NoQuestion /\ Lookup!NoAnswer = NoAnswer
  BY DEF Lookup!Answered, Answered, Lookup!Question, Question, Lookup!FunctionAt,
         FunctionAt, Lookup!DataAt, DataAt, Lookup!Covers, Covers, Lookup!Resolve,
         Resolve, Lookup!AskedSize, AskedSize, Lookup!Contain, Contain, Lookup!Owned,
         Owned, Lookup!Smallest, Smallest, Lookup!Queries, Queries, Lookup!Mappings,
         Mappings, Lookup!Offsets, Offsets, Lookup!Address, Address,
         Lookup!NoQuestion, NoQuestion, Lookup!NoAnswer, NoAnswer

LEMMA SmallestShown ==
  ASSUME NEW S
  PROVE  Smallest({Shown(e) : e \in S}) = {Shown(e) : e \in Smallest(S)}
<1>1. \A e : Shown(e).first = e.first /\ Shown(e).last = e.last
  BY DEF Shown
<1> QED
  BY <1>1 DEF Smallest

(* What has come to light is what the cache holds.                         *)
LEMMA LightIsCache ==
  ASSUME ScopeInv
  PROVE  Lookup!Light = {Shown(e) : e \in cache}
<1>1. \A e \in cache : \/ e.kind = "data"
                       \/ e.kind = "function" /\ Shown(e) = FunctionAt(e.first)
  BY CachedShape
<1>2. ASSUME NEW x \in Lookup!Light
      PROVE  \E e \in cache : x = Shown(e)
  <2>1. CASE x \in CachedData
    BY <2>1 DEF CachedData
  <2>2. CASE \E o \in CachedStarts : x = FunctionAt(o)
    <3>1. PICK o \in CachedStarts : x = FunctionAt(o)
      BY <2>2
    <3>2. PICK e \in cache : e.kind = "function" /\ e.first = o
      BY DEF CachedStarts
    <3> QED
      BY <3>1, <3>2 DEF ScopeInv, GoodCache
  <2> QED
    BY <1>2, <2>1, <2>2, SameSymbols DEF Lookup!Light
<1>3. ASSUME NEW e \in cache
      PROVE  Shown(e) \in Lookup!Light
  <2>1. CASE e.kind = "data"
    BY <2>1 DEF Lookup!Light, CachedData
  <2>2. CASE e.kind = "function"
    <3>1. Shown(e) = FunctionAt(e.first) /\ e.first \in CachedStarts
      BY <2>2 DEF CachedStarts, ScopeInv, GoodCache
    <3> QED
      BY <3>1, SameSymbols DEF Lookup!Light
  <2> QED
    BY <1>1, <2>1, <2>2
<1> QED
  BY <1>2, <1>3

LEMMA InLightIsHits ==
  ASSUME ScopeInv
  PROVE  Lookup!InLight = {Shown(e) : e \in Hits(asked)}
<1> DEFINE at == {e \in cache : e.first = asked.offset}
           around == {e \in cache : Covers(e, asked.offset, AskedSize(asked))}
<1>0. \A e : /\ Shown(e).first = e.first /\ Shown(e).kind = e.kind
             /\ \A o, n : Covers(Shown(e), o, n) <=> Covers(e, o, n)
  BY DEF Shown, Covers
<1>1. Lookup!At = {Shown(e) : e \in at}
  BY <1>0, LightIsCache DEF Lookup!At
<1>2. Lookup!Around = {Shown(e) : e \in around}
  BY <1>0, LightIsCache, SameSymbols DEF Lookup!Around
<1>3. CASE asked.space # CodeSpace
  <2>1. Hits(asked) = {}
    BY <1>3 DEF Hits, CachedFunction, CachedAt, CachedAround, Smallest
  <2> QED
    BY <1>3, <2>1 DEF Lookup!InLight
<1>4. CASE asked.space = CodeSpace /\ asked.query = "findFunction"
  <2>1. Hits(asked) = {e \in at : e.kind = "function"}
    BY <1>4 DEF Hits, CachedFunction
  <2>2. Lookup!InLight = {x \in Lookup!At : x.kind = "function"}
    BY <1>4 DEF Lookup!InLight
  <2> HIDE DEF at
  <2> QED
    BY <1>0, <1>1, <2>1, <2>2
<1>5. CASE asked.space = CodeSpace /\ asked.query = "findAddr"
  <2>1. Hits(asked) = at
    BY <1>5 DEF Hits, CachedAt
  <2>2. Lookup!InLight = Lookup!At
    BY <1>5 DEF Lookup!InLight
  <2> QED
    BY <1>1, <2>1, <2>2
<1>6. CASE asked.space = CodeSpace /\ asked.query \notin {"findFunction", "findAddr"}
  <2>1. Hits(asked) = Smallest(around)
    BY <1>6 DEF Hits, CachedAround
  <2>2. Lookup!InLight = Smallest(Lookup!Around)
    BY <1>6, SameSymbols DEF Lookup!InLight
  <2> HIDE DEF around
  <2> QED
    BY <1>2, <2>1, <2>2, SmallestShown
<1> QED
  BY <1>3, <1>4, <1>5, <1>6

(* The end of a question, for both.                                        *)
LEMMA Concludes ==
  ASSUME ScopeInv, NEW entry, NEW c, Ends(entry, c), DataOf(c) = DataOf(cache)
  PROVE  /\ Lookup!Conclude(entry)
         /\ CachedStarts' = StartsOf(c)
         /\ asked # Lookup!NoQuestion
<1>1. /\ StartsOf(cache') = StartsOf(c)
      /\ DataOf(cache') = IF /\ asked.query \in Mappings /\ entry = Nothing
                             /\ asked.query = "mapGlobals" => Owned(asked)
                          THEN DataOf(cache) \cup {DataAt(asked.offset, asked.size)}
                          ELSE DataOf(cache)
      /\ asked.query \in Queries => answer' = Answered(asked, entry)
      /\ asked.query \in Mappings => answer' = answer
  BY Finished DEF Ends
<1>2. /\ asked' = NoQuestion /\ steady' = {} /\ lately' = {} /\ table' = table
  BY DEF Ends, Finish
<1>3. asked.query \in Queries \cup Mappings /\ asked.query # "none"
  BY DEF Ends, ScopeInv, QuestionOK, AnyQuestion, Queries, Mappings
<1>4. asked # NoQuestion
  BY <1>3 DEF NoQuestion, Question
<1>5. CASE asked.query \in Queries
  <2>1. asked.query \notin Mappings
    BY <1>5 DEF Queries, Mappings
  <2> QED
    BY <1>1, <1>2, <1>4, <1>5, <2>1, SameSymbols, CachedSets DEF Lookup!Conclude
<1>6. CASE asked.query \in Mappings
  <2>1. (asked.query = "mapGlobals" => Owned(asked))
        <=> (asked.query = "coverVarnodes" \/ Owned(asked))
    BY <1>6 DEF Mappings
  <2> QED
    BY <1>1, <1>2, <1>4, <1>6, <2>1, SameSymbols, CachedSets DEF Lookup!Conclude
<1> QED
  BY <1>3, <1>5, <1>6

(* LLDB gives nothing.                                                     *)
LEMMA ConcludesWithout ==
  ASSUME ScopeInv, Ends(Nothing, cache), Hits(asked) = {},
         \A s \in Resolve(steady, asked.offset) :
           ~(s.code /\ (Contain(asked) \/ s.first = asked.offset))
  PROVE  Lookup!AnswerFromLLDB
<1>1. Lookup!Conclude(Nothing) /\ asked # Lookup!NoQuestion
  BY Concludes
<1>2. CachedStarts' = CachedStarts \cup {}
  BY Concludes, CachedSets
<1>3. Lookup!InLight = {}
  BY InLightIsHits
<1>4. {} \in Lookup!Gives
  <2>1. CASE Resolve(steady, asked.offset) = {}
    BY <2>1, SameSymbols DEF Lookup!Gives
  <2>2. CASE Resolve(steady, asked.offset) # {}
    <3>1. PICK s \in Resolve(steady, asked.offset) : TRUE
      BY <2>2
    <3>2. Lookup!Given(s) = {}
      BY <3>1, SameSymbols DEF Lookup!Given
    <3> QED
      BY <2>2, <3>1, <3>2, SameSymbols DEF Lookup!Gives
  <2> QED
    BY <2>1, <2>2
<1> QED
  BY <1>1, <1>2, <1>3, <1>4 DEF Lookup!AnswerFromLLDB

(* LLDB gives a function.                                                  *)
LEMMA ConcludesWith ==
  ASSUME ScopeInv, step = "placed", NEW start \in Offsets,
         Ends(IF HasMapEntry(start, asked) THEN FunctionAt(start) ELSE Nothing,
              Registered(start)),
         symbol \in steady => start = symbol.first,
         \E t \in lately : t.code /\ t.first = start
  PROVE  Lookup!AnswerFromLLDB
<1> DEFINE entry == IF HasMapEntry(start, asked) THEN FunctionAt(start) ELSE Nothing
<1>0. HeldOK /\ PlacedOK
  BY DEF ScopeInv
<1>1. /\ DataOf(Registered(start)) = DataOf(cache)
      /\ StartsOf(Registered(start)) = StartsOf(cache) \cup {start}
  BY GoodRegistered
<1>2. /\ Lookup!Conclude(entry) /\ asked # Lookup!NoQuestion
      /\ CachedStarts' = StartsOf(Registered(start))
  BY <1>1, Concludes
<1>3. CachedStarts' = CachedStarts \cup {start}
  BY <1>1, <1>2, CachedSets
<1>4. Lookup!InLight = {}
  BY <1>0, InLightIsHits DEF HeldOK
<1>5. {start} \in Lookup!Gives
  <2>1. CASE Resolve(steady, asked.offset) = {}
    BY <2>1, SameSymbols DEF Lookup!Gives
  <2>2. CASE Resolve(steady, asked.offset) # {}
    <3>1. symbol \in Resolve(steady, asked.offset) /\ symbol \in steady
      BY <1>0, <2>2 DEF HeldOK, Resolve
    <3>2. Lookup!Given(symbol) = {start}
      BY <1>0, <3>1, SameSymbols DEF PlacedOK, Lookup!Given
    <3> QED
      BY <2>2, <3>1, <3>2, SameSymbols DEF Lookup!Gives
  <2> QED
    BY <2>1, <2>2
<1>6. Lookup!Fits(start) <=> HasMapEntry(start, asked)
  BY SameSymbols DEF Lookup!Fits, HasMapEntry
<1>7. IF \E x \in {start} : Lookup!Fits(x)
      THEN \E x \in {start} : Lookup!Fits(x) /\ Lookup!Conclude(Lookup!FunctionAt(x))
      ELSE Lookup!Conclude(Nothing)
  BY <1>2, <1>6, SameSymbols
<1> HIDE DEF entry
<1> QED
  BY <1>2, <1>3, <1>4, <1>5, <1>7 DEF Lookup!AnswerFromLLDB

LEMMA LookupStands ==
  ASSUME UNCHANGED <<table, steady, lately, cache, answer, asked>>
  PROVE  UNCHANGED Lookup!vars
  BY DEF Lookup!vars, CachedStarts, CachedData

LEMMA LookupAnswers ==
  ASSUME ScopeInv, Answering
  PROVE  Lookup!Next \/ UNCHANGED Lookup!vars
<1>1. ASSUME NEW e \in Hits(asked), Ends(Shown(e), cache)
      PROVE  Lookup!AnswerInLight
  <2>1. Lookup!Conclude(Shown(e)) /\ asked # Lookup!NoQuestion /\ CachedStarts' = CachedStarts
    BY <1>1, Concludes, CachedSets
  <2>2. Shown(e) \in Lookup!InLight
    BY InLightIsHits
  <2> QED
    BY <2>1, <2>2 DEF Lookup!AnswerInLight
<1>2. ASSUME Hits(asked) = {}, Resolve(table, asked.offset) = {}, Ends(Nothing, cache)
      PROVE  Lookup!AnswerFromLLDB
  <2>1. steady \subseteq table
    BY <1>2 DEF Ends, ScopeInv, QuestionOK
  <2>2. Resolve(steady, asked.offset) = {}
    BY <1>2, <2>1 DEF Resolve
  <2> QED
    BY <1>2, <2>2, ConcludesWithout
<1>3. CASE LookUp
  BY <1>1, <1>2, <1>3, LookUpSteps, LookupStands DEF Lookup!Next
<1>4. CASE ReadStart
  <2>1. ASSUME Ends(Nothing, cache), step = "resolved",
               symbol \in steady =>
                 ~(symbol.code /\ (Contain(asked) \/ symbol.first = asked.offset))
        PROVE  Lookup!AnswerFromLLDB
    <3>1. HeldOK
      BY <2>1 DEF ScopeInv
    <3>2. \A s \in Resolve(steady, asked.offset) : s = symbol /\ s \in steady
      BY <3>1 DEF HeldOK, Resolve
    <3> QED
      BY <2>1, <3>1, <3>2, ConcludesWithout DEF HeldOK
  <2> QED
    BY <1>4, <2>1, ReadStartSteps, LookupStands DEF Lookup!Next
<1>5. CASE RegisterFunction
  <2>0. step = "placed" /\ HeldOK
    BY <1>5 DEF RegisterFunction, ScopeInv
  <2>1. ASSUME Ends(Nothing, cache), symbol \notin steady
        PROVE  Lookup!AnswerFromLLDB
    <3>1. Resolve(steady, asked.offset) = {}
      BY <2>0, <2>1 DEF HeldOK, Resolve
    <3> QED
      BY <2>0, <2>1, <3>1, ConcludesWithout DEF HeldOK
  <2> QED
    BY <1>5, <2>0, <2>1, RegisterSteps, ConcludesWith DEF Lookup!Next
<1> QED
  BY <1>3, <1>4, <1>5 DEF Answering

LEMMA LookupAsks ==
  ASSUME ScopeInv, NEW query \in Queries \cup Mappings, NEW a \in Address,
         NEW n \in Sizes \cup {1},
         query \in Mappings => a.space = CodeSpace /\ n \in Sizes,
         Put(Question(query, a, n))
  PROVE  Lookup!Ask
<1>1. /\ asked = NoQuestion /\ asked' = Question(query, a, n)
      /\ steady' = table /\ lately' = table /\ answer' = NoAnswer
      /\ UNCHANGED <<table, cache>>
  BY DEF Put, ScopeInv, NoneAsked
<1>2. UNCHANGED <<CachedStarts, CachedData>>
  BY <1>1 DEF CachedStarts, CachedData
<1> QED
  BY <1>1, <1>2, SameSymbols DEF Lookup!Ask

LEMMA LookupAsking ==
  ASSUME ScopeInv, Asking
  PROVE  Lookup!Next \/ UNCHANGED Lookup!vars
<1>0. /\ {"findFunction", "findAddr", "findContainer"} \subseteq Queries
      /\ {"findFunction", "findAddr", "findContainer"} \cap Mappings = {}
      /\ {"mapGlobals", "coverVarnodes"} \subseteq Mappings
  BY DEF Queries, Mappings
<1>1. ASSUME NEW a \in Address, FindFunction(a) \/ FindAddr(a)
      PROVE  Lookup!Ask
  BY <1>0, <1>1, LookupAsks DEF FindFunction, FindAddr
<1>2. ASSUME NEW a \in Address, NEW n \in Sizes, FindContainer(a, n)
      PROVE  Lookup!Ask
  BY <1>0, <1>2, LookupAsks DEF FindContainer
<1>3. ASSUME NEW o \in Offsets, NEW n \in Sizes, MapGlobals(o, n) \/ CoverVarnode(o, n)
      PROVE  Lookup!Ask
  <2>1. InCode(o) \in Address /\ InCode(o).space = CodeSpace
    BY SpaceAssumption DEF InCode, Address
  <2> QED
    BY <1>0, <1>3, <2>1, LookupAsks DEF MapGlobals, CoverVarnode
<1>4. CASE AllCovered
  BY <1>4, LookupStands DEF AllCovered
<1> QED
  BY <1>1, <1>2, <1>3, <1>4 DEF Asking, Lookup!Next

LEMMA LookupStep ==
  ASSUME ScopeInv, [Next]_vars
  PROVE  [Lookup!Next]_Lookup!vars
<1>1. CASE LoadModule
  <2>1. UNCHANGED <<CachedStarts, CachedData>>
    BY <1>1 DEF LoadModule, scopeVars, CachedStarts, CachedData
  <2> QED
    BY SameSymbols, <1>1, <2>1 DEF LoadModule, scopeVars, Lookup!Next, Lookup!LoadModule
<1>2. CASE UNCHANGED vars
  BY <1>2, LookupStands DEF vars, scopeVars
<1> QED
  BY <1>1, <1>2, LookupAsking, LookupAnswers DEF Next

(* The scope implements ScopeLookup.  Its queries are answered as if in    *)
(* one step, though they make up to three calls to LLDB and modules come   *)
(* and go between those: from the functions found and the variables mapped *)
(* so far, the smallest around the range, and only if none will do with    *)
(* the function that LLDB has there.                                       *)
THEOREM ScopeImplementsLookup == Spec => ImplementsLookup
<1>1. Init => Lookup!Init
  BY SameSymbols DEF Init, Lookup!Init, CachedData, CachedStarts
<1>2. ScopeInv /\ [Next]_vars => [Lookup!Next]_Lookup!vars
  BY LookupStep
<1> QED
  BY <1>1, <1>2, ScopeInvHolds, PTL DEF Spec, ImplementsLookup, Lookup!Spec
-----------------------------------------------------------------------------
(* An address in a function's entry is around its symbol.                  *)
LEMMA InEntry ==
  ASSUME NEW t \in SymbolTables, NEW s \in t, s.code, NEW o \in Nat,
         Covers(FunctionAt(s.first), o, 1)
  PROVE  s.first <= o /\ o <= s.last
<1>1. s.first \in Nat /\ s.last \in Nat /\ s.first + EntrySize <= s.last + 1
  BY TableSymbols
<1>2. s.first <= o /\ o <= s.first + EntrySize - 1
  BY <1>1, EntryAssumption DEF Covers, FunctionAt
<1> QED
  BY <1>1, <1>2, EntryAssumption

LEMMA MappingMisses ==
  ASSUME ScopeInv, Answering, NEW e \in cache' \ cache, e.kind = "data",
         NEW s \in steady, s.code, Covers(FunctionAt(s.first), e.first, 1)
  PROVE  FALSE
<1>0. QuestionOK /\ asked.offset \in Nat /\ s \in table /\ table \in SymbolTables
  <2>1. step \in {"called", "resolved", "placed"}
    BY DEF Answering, LookUp, ReadStart, RegisterFunction
  <2> QED
    BY <2>1, EntryAssumption DEF ScopeInv, QuestionOK, AnyQuestion, Offsets
<1>1. ASSUME NEW entry, NEW c, Ends(entry, c), e \notin c
      PROVE  entry = Nothing /\ asked.query \in Mappings /\ e.first = asked.offset
  BY <1>1, Finished DEF Ends
<1>2. ASSUME e.first = asked.offset
      PROVE  s \in Resolve(steady, asked.offset) /\ s \in Resolve(table, asked.offset)
  BY <1>0, <1>2, InEntry DEF Resolve
<1>3. ASSUME step \in {"resolved", "placed"}, e.first = asked.offset
      PROVE  s = symbol
  BY <1>2, <1>3 DEF ScopeInv, HeldOK
<1>4. CASE LookUp
  <2>1. \A f \in Hits(asked) : Shown(f) # Nothing
    BY HitsCached, CachedShape
  <2> QED
    BY <1>1, <1>2, <1>4, <2>1, LookUpSteps
<1>5. CASE ReadStart
  <2>1. asked.query \in Mappings => Contain(asked)
    BY DEF Contain
  <2> QED
    BY <1>1, <1>3, <1>5, <2>1, ReadStartSteps
<1>6. CASE RegisterFunction
  <2>0. step = "placed"
    BY <1>6 DEF RegisterFunction
  <2>1. ~(Ends(Nothing, cache) /\ symbol \notin steady)
    BY <1>1, <1>3, <2>0
  <2>2. PICK start \in Start(symbol) :
          /\ Ends(IF HasMapEntry(start, asked) THEN FunctionAt(start) ELSE Nothing,
                  Registered(start))
          /\ symbol \in steady => start = symbol.first
          /\ start \in Offsets
    BY <1>6, <2>1, RegisterSteps
  <2>3. e \notin Registered(start)
    BY <2>2, GoodRegistered
  <2>4. /\ ~HasMapEntry(start, asked) /\ asked.query \in Mappings
        /\ e.first = asked.offset /\ asked.space = CodeSpace
    <3>1. FunctionAt(start) # Nothing
      BY <2>2, EntryShape
    <3> QED
      BY <1>0, <1>1, <2>2, <2>3, <3>1 DEF QuestionOK
  <2>5. start = s.first
    BY <1>3, <2>0, <2>2, <2>4
  <2> QED
    BY <2>4, <2>5 DEF HasMapEntry, Mappings
<1> QED
  BY <1>4, <1>5, <1>6 DEF Answering

(* A variable that mapGlobals or coverVarnodes adds does not begin in the  *)
(* entry of a function LLDB has had since its container was asked for,     *)
(* though nobody has asked for that function yet.                          *)
THEOREM GlobalsMissFunctions == Spec => NoGlobalOnFunction
<1>1. ASSUME ScopeInv, [Next]_vars, NEW e \in cache' \ cache, e.kind = "data",
             NEW s \in steady, s.code
      PROVE  ~Covers(FunctionAt(s.first), e.first, 1)
  <2>1. ~(LoadModule \/ Asking \/ UNCHANGED vars)
    BY <1>1 DEF LoadModule, vars, scopeVars, Asking, FindFunction, FindAddr, FindContainer,
       MapGlobals, CoverVarnode, AllCovered, Put
  <2> QED
    BY <1>1, <2>1, MappingMisses DEF Next
<1>2. ScopeInv /\ [Next]_vars =>
        \A e \in cache' \ cache : e.kind = "data" =>
          \A s \in steady : s.code => ~Covers(FunctionAt(s.first), e.first, 1)
  BY <1>1
<1> QED
  BY <1>2, ScopeInvHolds, PTL DEF Spec, NoGlobalOnFunction
-----------------------------------------------------------------------------
(* The command.  Where it is looking for a function, its address is one of *)
(* the process; a file address it looks for is one of the file at hand.    *)
Steps == {"start", "check", "name", "nameload", "module", "fetch", "load",
          "resolve", "symbol", "language", "find", "finding"}

Local == [argument : Arguments \cup {NoArgument}, address : Offsets \cup {Invalid},
          i : Nat \ {0}, image : Images \cup {NoImage}, file : Nat,
          changed : BOOLEAN, shifted : BOOLEAN, stayed : SUBSET Module]

LocalsOK ==
  /\ modules \in Lists
  /\ pc \in Steps \cup Ended
  /\ pc \in Steps => command \in Local
  /\ pc \in Steps \ {"start", "name", "nameload"} => command.address \in Offsets
  /\ pc = "name" => command.argument \in Arguments
  /\ pc = "load" => HoldsFile(command.image, command.address)
  /\ pc = "nameload" => HoldsFile(command.image, command.file)
  /\ pc = "symbol" /\ command.image # NoImage => HoldsFile(command.image, command.file)
  /\ pc \in {"load", "nameload"} => command.image \in Images

(* The loop over the modules.  Of those it has left behind, none that has  *)
(* stayed loaded holds the address in its file.                            *)
Behind == \A k \in 1 .. command.i - 1 :
            HoldsFile(modules[k].image, command.address) =>
              \A m \in command.stayed : m.image = modules[k].image => m.base = Invalid

LoopOK ==
  /\ pc \in {"start", "check"} => command.i = 1
  /\ pc \in Steps => \A m \in command.stayed : \E k \in DOMAIN modules : modules[k] = m
  /\ pc \in {"module", "fetch", "load"} /\ ~command.shifted =>
       /\ command.i <= Len(modules) + 1
       /\ Behind
       /\ pc \in {"fetch", "load"} => command.i <= Len(modules)
       /\ pc = "load" => modules[command.i].image = command.image

CommandInv == LocalsOK /\ LoopOK

LEMMA ListShape ==
  ASSUME NEW list \in Lists
  PROVE  /\ list \in Seq(Module) /\ Len(list) \in Nat /\ DOMAIN list = 1 .. Len(list)
         /\ \A k \in DOMAIN list : list[k] \in Module
         /\ TableOf(list) \in SymbolTables
  BY ResolutionAssumption

LEMMA Loaded ==
  ASSUME NEW list \in Lists, NEW m \in Images, NEW f \in Nat, HoldsFile(m, f)
  PROVE  /\ LoadAddress(list, m, f) \in Offsets \cup {Invalid}
         /\ LoadAddress(list, m, f) = Invalid =>
              \A k \in DOMAIN list : list[k].image = m => list[k].base = Invalid
<1> DEFINE here == {k \in DOMAIN list : list[k].image = m /\ list[k].base # Invalid}
<1>1. CASE here = {}
  BY <1>1 DEF LoadAddress
<1>2. CASE here # {}
  <2> DEFINE k == CHOOSE j \in here : TRUE
  <2>1. k \in here
    BY <1>2
  <2>2. LoadAddress(list, m, f) = list[k].base + f - Extent[m].first
    BY <1>2 DEF LoadAddress
  <2>3. /\ list[k].base \in Offsets
        /\ list[k].base + Extent[m].last - Extent[m].first <= MaxOffset
    BY <2>1, ListShape, LayoutAssumption DEF Module, Top
  <2> HIDE DEF k
  <2>4. LoadAddress(list, m, f) \in Offsets
    BY <2>2, <2>3, LayoutAssumption, EntryAssumption DEF HoldsFile, Offsets
  <2> QED
    BY <2>4, ResolutionAssumption, EntryAssumption DEF Offsets
<1> QED
  BY <1>1, <1>2
-----------------------------------------------------------------------------
LEMMA CommandInitially ==
  ASSUME CommandInit
  PROVE  Init /\ CommandInv
<1>1. Init
  BY DEF CommandInit
<1>2. pc = "start" /\ modules \in Lists /\ modules \in Seq(Module)
  BY ListShape DEF CommandInit
<1>3. PICK t \in Arguments \cup {NoArgument} :
        command = [argument |-> t, address |-> Invalid, i |-> 1, image |-> NoImage,
                   file |-> 0, changed |-> FALSE, shifted |-> FALSE,
                   stayed |-> {modules[k] : k \in DOMAIN modules}]
  BY DEF CommandInit
<1>4. {modules[k] : k \in DOMAIN modules} \subseteq Module
  BY <1>2, ListShape
<1>5. command \in Local
  BY <1>3, <1>4 DEF Local
<1>6. LocalsOK
  BY <1>2, <1>5 DEF LocalsOK, Steps
<1>7. LoopOK
  BY <1>2, <1>3 DEF LoopOK
<1> QED
  BY <1>1, <1>6, <1>7 DEF CommandInv

(* The steps that do not touch the loop.                                   *)
LEMMA PlainStep ==
  ASSUME CommandInv, modules' = modules, pc' \in Steps, command' \in Local,
         pc' \notin {"start", "check", "module", "fetch", "load"},
         command'.stayed = command.stayed, pc \in Steps,
         pc' \in Steps \ {"start", "name", "nameload"} => command'.address \in Offsets,
         pc' = "name" => command'.argument \in Arguments,
         pc' = "nameload" => /\ HoldsFile(command'.image, command'.file)
                             /\ command'.image \in Images,
         pc' = "symbol" /\ command'.image # NoImage =>
           HoldsFile(command'.image, command'.file)
  PROVE  CommandInv'
<1>1. LocalsOK'
  BY DEF CommandInv, LocalsOK
<1>2. LoopOK'
  BY DEF CommandInv, LoopOK
<1> QED
  BY <1>1, <1>2 DEF CommandInv

LEMMA EndStep ==
  ASSUME CommandInv, modules' = modules, pc' \in Ended
  PROVE  CommandInv'
<1>1. Ended \cap (Steps \cup {"module", "fetch", "load", "start", "check",
                              "name", "nameload", "symbol"}) = {}
  BY DEF Ended, Steps
<1>2. LocalsOK'
  BY <1>1 DEF CommandInv, LocalsOK
<1>3. LoopOK'
  BY <1>1 DEF LoopOK
<1> QED
  BY <1>2, <1>3 DEF CommandInv

LEMMA Parsed ==
  ASSUME NEW t \in Arguments
  PROVE  ParseAddress(t) \in Offsets \cup {Invalid}
  BY ResolutionAssumption, EntryAssumption DEF ParseAddress, Text, Offsets

LEMMA SymbolPlaced ==
  ASSUME modules \in Lists, NEW s \in SymbolHere
  PROVE  /\ s.image \in Images /\ s.file \in Nat
         /\ HoldsFile(s.image, s.file)
<1>1. s \in Located(modules)
  BY DEF SymbolHere
<1>2. PICK m \in Images : \E r \in Symbols[m] : s.image = m /\ s.file = r.first
  BY <1>1 DEF Located
<1> QED
  BY <1>2, LayoutAssumption

LEMMA ReadStep ==
  ASSUME CommandInv, SelectedFrame \/ ReadArgument \/ CheckLoadAddress
  PROVE  CommandInv'
<1>0. command \in Local /\ modules' = modules /\ pc \in Steps
  BY DEF CommandInv, LocalsOK, SelectedFrame, ReadArgument, CheckLoadAddress, Go, Steps
<1>1. CASE SelectedFrame
  <2>1. PICK a \in Offsets : command' = [command EXCEPT !.address = a]
    BY <1>1 DEF SelectedFrame
  <2>2. command' \in Local /\ command'.stayed = command.stayed /\ command'.address \in Offsets
    BY <1>0, <2>1 DEF Local
  <2>3. pc' = "resolve"
    BY <1>1 DEF SelectedFrame, Go
  <2> QED
    BY <1>0, <2>2, <2>3, PlainStep DEF Steps
<1>2. CASE ReadArgument
  <2>1. command.argument \in Arguments
    BY <1>0, <1>2 DEF ReadArgument, Local
  <2>2. /\ command' = [command EXCEPT !.address = ParseAddress(command.argument)]
        /\ pc = "start"
        /\ pc' = IF command'.address = Invalid THEN "name" ELSE "check"
    BY <1>2 DEF ReadArgument, Go
  <2>3. /\ command' \in Local /\ command'.stayed = command.stayed
        /\ command'.argument = command.argument /\ command'.i = command.i
        /\ command'.address \in Offsets \cup {Invalid}
    BY <1>0, <2>1, <2>2, Parsed DEF Local
  <2>4. CASE command'.address = Invalid
    BY <1>0, <2>1, <2>2, <2>3, <2>4, PlainStep DEF Steps
  <2>5. CASE command'.address # Invalid
    <3>1. LocalsOK'
      BY <1>0, <2>2, <2>3, <2>5 DEF CommandInv, LocalsOK, Steps
    <3>2. LoopOK'
      BY <1>0, <2>2, <2>3, <2>5 DEF CommandInv, LoopOK
    <3> QED
      BY <3>1, <3>2 DEF CommandInv
  <2> QED
    BY <2>4, <2>5
<1>3. CASE CheckLoadAddress
  <2>1. /\ command' = command /\ pc = "check"
        /\ pc' \in {"resolve", "module"}
        /\ command.address \in Offsets
    BY <1>3 DEF CheckLoadAddress, Go, CommandInv, LocalsOK, Steps
  <2>2. CASE pc' = "resolve"
    BY <1>0, <2>1, <2>2, PlainStep DEF Steps
  <2>3. CASE pc' = "module"
    <3>1. LocalsOK'
      BY <1>0, <2>1, <2>3 DEF CommandInv, LocalsOK, Steps
    <3>2. command.i = 1 /\ Len(modules) \in Nat
      BY <2>1, ListShape DEF CommandInv, LoopOK, LocalsOK
    <3>3. LoopOK'
      BY <1>0, <2>1, <2>3, <3>2 DEF CommandInv, LoopOK, Behind
    <3> QED
      BY <3>1, <3>3 DEF CommandInv
  <2> QED
    BY <2>1, <2>2, <2>3
<1> QED
  BY <1>1, <1>2, <1>3

LEMMA LoopStep ==
  ASSUME CommandInv, NextModule \/ EndModules \/ FetchModule \/ LoadFileAddress
  PROVE  CommandInv'
<1>0. command \in Local /\ modules' = modules /\ pc \in Steps
  BY DEF CommandInv, LocalsOK, NextModule, EndModules, FetchModule, LoadFileAddress,
         Go, Steps
<1>1. /\ modules \in Lists /\ Len(modules) \in Nat
      /\ DOMAIN modules = 1 .. Len(modules)
      /\ \A k \in DOMAIN modules : modules[k] \in Module
      /\ command.i \in Nat \ {0}
  BY <1>0, ListShape DEF CommandInv, LocalsOK, Local
<1>2. CASE NextModule
  <2>1. /\ command' = command /\ pc = "module" /\ pc' = "fetch"
        /\ command.i <= Len(modules)
    BY <1>2 DEF NextModule, ModuleLeft, Go
  <2>2. LocalsOK'
    BY <1>0, <2>1 DEF CommandInv, LocalsOK, Steps
  <2>3. LoopOK'
    BY <1>0, <2>1 DEF CommandInv, LoopOK, Behind, Steps
  <2> QED
    BY <2>2, <2>3 DEF CommandInv
<1>3. CASE EndModules
  <2>1. command' = command /\ pc = "module" /\ pc' = "resolve"
    BY <1>3 DEF EndModules, Go
  <2> QED
    BY <1>0, <2>1, PlainStep DEF CommandInv, LocalsOK, Steps
<1>4. ASSUME pc \in {"fetch", "load"}, pc' = "module",
             command' = [command EXCEPT !.i = @ + 1],
             ~command.shifted =>
               (HoldsFile(modules[command.i].image, command.address) =>
                  \A m \in command.stayed :
                    m.image = modules[command.i].image => m.base = Invalid)
      PROVE  CommandInv'
  <2>1. /\ command' \in Local /\ command'.i = command.i + 1
        /\ command'.address = command.address /\ command'.stayed = command.stayed
        /\ command'.shifted = command.shifted
    BY <1>0, <1>1, <1>4 DEF Local
  <2>2. LocalsOK'
    BY <1>0, <1>4, <2>1 DEF CommandInv, LocalsOK, Steps
  <2>3. ASSUME ~command.shifted
        PROVE  command'.i <= Len(modules) + 1 /\ Behind'
    <3>1. command.i <= Len(modules) /\ Behind
      BY <1>4, <2>3 DEF CommandInv, LoopOK
    <3>2. ASSUME NEW k \in 1 .. command'.i - 1,
                 HoldsFile(modules[k].image, command.address),
                 NEW m \in command.stayed, m.image = modules[k].image
          PROVE  m.base = Invalid
      <4>1. k \in 1 .. command.i - 1 \/ k = command.i
        BY <1>1, <2>1
      <4> QED
        BY <1>4, <2>3, <3>1, <3>2, <4>1 DEF Behind
    <3> QED
      BY <1>0, <1>1, <2>1, <3>1, <3>2 DEF Behind
  <2>4. LoopOK'
    BY <1>0, <1>4, <2>1, <2>3 DEF CommandInv, LoopOK, Steps
  <2> QED
    BY <2>2, <2>4 DEF CommandInv
<1>5. CASE FetchModule
  <2> DEFINE image == IF command.i <= Len(modules) THEN modules[command.i].image
                      ELSE NoImage
  <2>1. pc = "fetch"
    BY <1>5 DEF FetchModule
  <2>2. command.i <= Len(modules) => image = modules[command.i].image /\ image \in Images
    BY <1>1 DEF Module
  <2>3. CASE image # NoImage /\ HoldsFile(image, command.address)
    <3>1. pc' = "load" /\ command' = [command EXCEPT !.image = image]
      BY <1>5, <2>3 DEF FetchModule, Go
    <3>2. image = modules[command.i].image /\ image \in Images
      BY <2>2, <2>3
    <3> HIDE DEF image
    <3>3. /\ command' \in Local /\ command'.i = command.i /\ command'.image = image
          /\ command'.address = command.address /\ command'.stayed = command.stayed
          /\ command'.shifted = command.shifted
      BY <1>0, <3>1, <3>2 DEF Local
    <3>4. LocalsOK'
      BY <1>0, <2>1, <2>3, <3>1, <3>2, <3>3 DEF CommandInv, LocalsOK, Steps
    <3>5. LoopOK'
      BY <1>0, <2>1, <3>1, <3>2, <3>3 DEF CommandInv, LoopOK, Behind, Steps
    <3> QED
      BY <3>4, <3>5 DEF CommandInv
  <2>4. CASE ~(image # NoImage /\ HoldsFile(image, command.address))
    <3>1. pc' = "module" /\ command' = [command EXCEPT !.i = @ + 1]
      BY <1>5, <2>4 DEF FetchModule, Go
    <3>2. ~command.shifted => ~HoldsFile(modules[command.i].image, command.address)
      BY <2>1, <2>2, <2>4, ResolutionAssumption DEF CommandInv, LoopOK
    <3> QED
      BY <1>4, <2>1, <3>1, <3>2
  <2> QED
    BY <2>3, <2>4
<1>6. CASE LoadFileAddress
  <2> DEFINE loaded == LoadAddress(modules, command.image, command.address)
  <2>1. /\ pc = "load" /\ command.image \in Images /\ command.address \in Offsets
        /\ HoldsFile(command.image, command.address)
    BY <1>6 DEF LoadFileAddress, CommandInv, LocalsOK, Steps
  <2>2. /\ loaded \in Offsets \cup {Invalid}
        /\ loaded = Invalid => \A k \in DOMAIN modules :
             modules[k].image = command.image => modules[k].base = Invalid
    BY <1>1, <2>1, Loaded DEF Offsets
  <2>3. CASE loaded # Invalid
    <3>1. pc' = "resolve" /\ command' = [command EXCEPT !.address = loaded]
      BY <1>6, <2>3 DEF LoadFileAddress, Go
    <3> HIDE DEF loaded
    <3>2. /\ command' \in Local /\ command'.stayed = command.stayed
          /\ command'.address \in Offsets
      BY <1>0, <2>2, <2>3, <3>1 DEF Local
    <3> QED
      BY <1>0, <3>1, <3>2, PlainStep DEF Steps
  <2>4. CASE loaded = Invalid
    <3>1. pc' = "module" /\ command' = [command EXCEPT !.i = @ + 1]
      BY <1>6, <2>4 DEF LoadFileAddress, Go
    <3>2. ~command.shifted => \A m \in command.stayed :
            m.image = modules[command.i].image => m.base = Invalid
      <4>1. ASSUME ~command.shifted, NEW m \in command.stayed,
                   m.image = modules[command.i].image
            PROVE  m.base = Invalid
        <5>1. PICK k \in DOMAIN modules : modules[k] = m
          BY <1>0 DEF CommandInv, LoopOK
        <5>2. m.image = command.image
          BY <2>1, <4>1 DEF CommandInv, LoopOK
        <5> QED
          BY <2>2, <2>4, <5>1, <5>2
      <4> QED
        BY <4>1
    <3> QED
      BY <1>4, <2>1, <3>1, <3>2
  <2> QED
    BY <2>3, <2>4
<1> QED
  BY <1>2, <1>3, <1>5, <1>6

LEMMA NameStep ==
  ASSUME CommandInv, FindFunctions \/ LoadName
  PROVE  CommandInv'
<1>0. command \in Local /\ modules' = modules /\ pc \in Steps /\ modules \in Lists
  BY DEF CommandInv, LocalsOK, FindFunctions, LoadName, Go, Steps
<1>1. ASSUME pc = "name", NEW m \in Matches[command.argument], pc' = "nameload",
             command' = [command EXCEPT !.image = m[1], !.file = m[2]]
      PROVE  CommandInv'
  <2>1. m \in Images \X Nat /\ HoldsFile(m[1], m[2])
    BY <1>1, LayoutAssumption DEF CommandInv, LocalsOK
  <2>2. m[1] \in Images /\ m[2] \in Nat
    BY <2>1
  <2>3. /\ command' \in Local /\ command'.stayed = command.stayed
        /\ command'.image = m[1] /\ command'.file = m[2]
    BY <1>0, <1>1, <2>2 DEF Local
  <2> QED
    BY <1>0, <1>1, <2>1, <2>2, <2>3, PlainStep DEF Steps
<1>2. CASE FindFunctions
  <2>1. pc = "name"
    BY <1>2 DEF FindFunctions
  <2>2. CASE pc' = "notfound"
    BY <1>0, <2>2, EndStep DEF Ended
  <2>3. CASE pc' # "notfound"
    <3>1. PICK m \in Matches[command.argument] :
            pc' = "nameload" /\ command' = [command EXCEPT !.image = m[1], !.file = m[2]]
      BY <1>2, <2>3 DEF FindFunctions, Go
    <3> QED
      BY <1>1, <2>1, <3>1
  <2> QED
    BY <2>2, <2>3
<1>3. CASE LoadName
  <2> DEFINE loaded == LoadAddress(modules, command.image, command.file)
  <2>1. /\ pc = "nameload" /\ command.image \in Images
        /\ HoldsFile(command.image, command.file)
    BY <1>3 DEF LoadName, CommandInv, LocalsOK
  <2>2. loaded \in Offsets \cup {Invalid}
    BY <1>0, <2>1, Loaded DEF Local
  <2>3. /\ command' = [command EXCEPT !.address = loaded]
        /\ pc' = IF command'.address = Invalid THEN "notfound" ELSE "resolve"
    BY <1>3 DEF LoadName, Go
  <2> HIDE DEF loaded
  <2>4. /\ command' \in Local /\ command'.stayed = command.stayed
        /\ command'.address \in Offsets \cup {Invalid}
    BY <1>0, <2>2, <2>3 DEF Local
  <2>5. CASE command'.address = Invalid
    BY <1>0, <2>3, <2>5, EndStep DEF Ended
  <2>6. CASE command'.address # Invalid
    BY <1>0, <2>3, <2>4, <2>6, PlainStep DEF Steps
  <2> QED
    BY <2>5, <2>6
<1> QED
  BY <1>2, <1>3

LEMMA ResolveStep ==
  ASSUME CommandInv, ResolveSymbol \/ SymbolStart \/ ResolveLanguage
  PROVE  CommandInv'
<1>0. /\ command \in Local /\ modules' = modules /\ pc \in Steps /\ modules \in Lists
      /\ command.address \in Offsets
  BY DEF CommandInv, LocalsOK, ResolveSymbol, SymbolStart, ResolveLanguage, Go, Steps
<1>1. CASE ResolveSymbol
  <2>1. pc' = "symbol"
    BY <1>1 DEF ResolveSymbol, Go
  <2>2. \/ command' = [command EXCEPT !.image = NoImage]
        \/ \E s \in SymbolHere : command' = [command EXCEPT !.image = s.image, !.file = s.file]
    BY <1>1 DEF ResolveSymbol
  <2>3. /\ command' \in Local /\ command'.stayed = command.stayed
        /\ command'.address \in Offsets
        /\ command'.image # NoImage => HoldsFile(command'.image, command'.file)
    BY <1>0, <2>2, SymbolPlaced DEF Local
  <2> QED
    BY <1>0, <2>1, <2>3, PlainStep DEF Steps
<1>2. CASE SymbolStart
  <2> DEFINE start == IF command.image = NoImage THEN Invalid
                      ELSE LoadAddress(modules, command.image, command.file)
  <2>1. pc = "symbol" /\ pc' = "language"
    BY <1>2 DEF SymbolStart, Go
  <2>2. start \in Offsets \cup {Invalid}
    <3>1. CASE command.image = NoImage
      BY <3>1
    <3>2. CASE command.image # NoImage
      <4>1. /\ command.image \in Images /\ command.file \in Nat
            /\ HoldsFile(command.image, command.file)
        BY <1>0, <2>1, <3>2 DEF CommandInv, LocalsOK, Local
      <4> QED
        BY <1>0, <3>2, <4>1, Loaded
    <3> QED
      BY <3>1, <3>2
  <2>3. command' = IF start = Invalid THEN command ELSE [command EXCEPT !.address = start]
    BY <1>2 DEF SymbolStart
  <2> HIDE DEF start
  <2>4. /\ command' \in Local /\ command'.stayed = command.stayed
        /\ command'.address \in Offsets
    BY <1>0, <2>2, <2>3 DEF Local
  <2> QED
    BY <1>0, <2>1, <2>4, PlainStep DEF Steps
<1>3. CASE ResolveLanguage
  <2>1. command' = command /\ pc' \in {"rejected", "find"}
    BY <1>3 DEF ResolveLanguage, Go
  <2>2. CASE pc' = "rejected"
    BY <1>0, <2>2, EndStep DEF Ended
  <2>3. CASE pc' = "find"
    BY <1>0, <2>1, <2>3, PlainStep DEF Steps
  <2> QED
    BY <2>1, <2>2, <2>3
<1> QED
  BY <1>1, <1>2, <1>3

(* The target's list changes.  The loop's past holds on as long as every   *)
(* module keeps its index.                                                 *)
LEMMA ChangeStep ==
  ASSUME CommandInv, ChangeModules
  PROVE  CommandInv'
<1>0. pc' = pc /\ modules \in Lists /\ modules' \in Lists
  BY DEF ChangeModules, CommandInv, LocalsOK
<1>1. CASE pc \in Ended
  <2>1. pc \notin Steps \cup {"module", "fetch", "load", "start", "check",
                              "name", "nameload", "symbol"}
    BY <1>1 DEF Ended, Steps
  <2>2. LocalsOK'
    BY <1>0, <1>1, <2>1 DEF CommandInv, LocalsOK
  <2>3. LoopOK'
    BY <1>0, <2>1 DEF LoopOK
  <2> QED
    BY <2>2, <2>3 DEF CommandInv
<1>2. CASE pc \notin Ended
  <2>1. command \in Local /\ pc \in Steps
    BY <1>2 DEF CommandInv, LocalsOK
  <2>2. command' = [command EXCEPT
            !.changed = TRUE,
            !.shifted = command.shifted \/ ~SameOrder(modules, modules'),
            !.stayed = command.stayed \cap {modules'[k] : k \in DOMAIN modules'}]
    BY <1>2 DEF ChangeModules
  <2>3. /\ command' \in Local
        /\ command'.argument = command.argument /\ command'.address = command.address
        /\ command'.i = command.i /\ command'.image = command.image
        /\ command'.file = command.file
        /\ command'.shifted = (command.shifted \/ ~SameOrder(modules, modules'))
        /\ command'.stayed = command.stayed \cap {modules'[k] : k \in DOMAIN modules'}
    BY <2>1, <2>2 DEF Local, SameOrder
  <2>4. LocalsOK'
    BY <1>0, <2>1, <2>3 DEF CommandInv, LocalsOK
  <2>5. /\ Len(modules) \in Nat /\ Len(modules') \in Nat /\ command.i \in Nat \ {0}
        /\ DOMAIN modules = 1 .. Len(modules) /\ DOMAIN modules' = 1 .. Len(modules')
    BY <1>0, <2>1, ListShape DEF Local
  <2>6. ASSUME pc \in {"module", "fetch", "load"}, ~command'.shifted
        PROVE  /\ command'.i <= Len(modules') + 1 /\ Behind'
               /\ pc \in {"fetch", "load"} => command'.i <= Len(modules')
               /\ pc = "load" => modules'[command'.i].image = command'.image
    <3>1. ~command.shifted /\ SameOrder(modules, modules')
      BY <2>3, <2>6
    <3>2. /\ command.i <= Len(modules) + 1 /\ Behind
          /\ pc \in {"fetch", "load"} => command.i <= Len(modules)
          /\ pc = "load" => modules[command.i].image = command.image
      BY <2>6, <3>1 DEF CommandInv, LoopOK
    <3>3. \A k \in 1 .. Len(modules) :
            k \in 1 .. Len(modules') /\ modules'[k].image = modules[k].image
      BY <2>5, <3>1 DEF SameOrder
    <3>4. Len(modules) <= Len(modules')
      BY <2>5, <3>3
    <3>5. Behind'
      <4>1. ASSUME NEW k \in 1 .. command.i - 1,
                   HoldsFile(modules'[k].image, command.address),
                   NEW m \in command'.stayed, m.image = modules'[k].image
            PROVE  m.base = Invalid
        <5>1. k \in 1 .. Len(modules)
          BY <2>5, <3>2
        <5>2. modules'[k].image = modules[k].image /\ m \in command.stayed
          BY <2>3, <3>3, <5>1
        <5> QED
          BY <3>2, <4>1, <5>2 DEF Behind
      <4> QED
        BY <2>3, <4>1 DEF Behind
    <3>6. /\ command.i <= Len(modules') + 1
          /\ pc \in {"fetch", "load"} => command.i <= Len(modules')
      BY <2>5, <3>2, <3>4
    <3>7. pc = "load" => modules'[command.i].image = command.image
      BY <2>5, <3>2, <3>3
    <3> QED
      BY <2>3, <3>5, <3>6, <3>7
  <2>7. LoopOK'
    BY <1>0, <2>1, <2>3, <2>6 DEF CommandInv, LoopOK
  <2> QED
    BY <2>4, <2>7 DEF CommandInv
<1> QED
  BY <1>1, <1>2

LEMMA CommandStep ==
  ASSUME CommandInv, [CommandNext]_allVars
  PROVE  CommandInv'
<1>1. CASE ChangeModules
  BY <1>1, ChangeStep
<1>2. CASE Reject
  BY <1>2, EndStep DEF Reject, Go, Ended
<1>3. CASE FindTheFunction \/ Finding
  <2>1. pc \in {"find", "finding"} /\ modules' = modules
    BY <1>3 DEF FindTheFunction, Finding
  <2>2. pc' \in Ended \/ (pc' = "finding" /\ command' = command)
    BY <1>3 DEF FindTheFunction, Finding, Ended
  <2>3. command \in Local /\ command.address \in Offsets
    BY <2>1 DEF CommandInv, LocalsOK, Steps
  <2> QED
    BY <2>1, <2>2, <2>3, EndStep, PlainStep DEF Steps
<1>4. CASE Analysis \/ UNCHANGED allVars
  BY <1>4 DEF Analysis, allVars, locals, CommandInv, LocalsOK, LoopOK, Behind
<1> QED
  BY <1>1, <1>2, <1>3, <1>4, ReadStep, LoopStep, NameStep, ResolveStep
  DEF CommandNext, Resolving
-----------------------------------------------------------------------------
THEOREM CommandInvHolds == CommandSpec => []CommandInv
<1>1. CommandInit => CommandInv
  BY CommandInitially
<1>2. CommandInv /\ [CommandNext]_allVars => CommandInv'
  BY CommandStep
<1> QED
  BY <1>1, <1>2, PTL DEF CommandSpec

LEMMA CommandStepOfScope ==
  ASSUME CommandInv, [CommandNext]_allVars
  PROVE  [Next]_vars
<1>1. CASE ChangeModules
  BY <1>1 DEF ChangeModules, Next
<1>2. CASE FindTheFunction
  <2>1. pc = "find"
    BY <1>2 DEF FindTheFunction
  <2>2. InCode(command.address) \in Address
    BY <2>1, SpaceAssumption DEF CommandInv, LocalsOK, Steps, Address, InCode
  <2> QED
    BY <1>2, <2>2 DEF FindTheFunction, Next, Asking
<1>3. CASE Analysis \/ Finding
  <2>1. Asked \subseteq Offsets
    BY ResolutionAssumption
  <2>2. AskedAddress \subseteq Address
    BY <2>1 DEF AskedAddress, Address
  <2>3. CASE Analysis
    BY <2>1, <2>2, <2>3 DEF Analysis, Next, Asking
  <2>4. CASE Finding
    BY <2>4 DEF Finding, Next
  <2> QED
    BY <1>3, <2>3, <2>4
<1>4. CASE \/ Reject \/ SelectedFrame \/ ReadArgument \/ CheckLoadAddress \/ NextModule
           \/ EndModules \/ FetchModule \/ LoadFileAddress \/ FindFunctions \/ LoadName
           \/ ResolveSymbol \/ SymbolStart \/ ResolveLanguage
  <2>1. UNCHANGED vars
    BY <1>4 DEF Reject, SelectedFrame, ReadArgument, CheckLoadAddress, NextModule,
       EndModules, FetchModule, LoadFileAddress, FindFunctions, LoadName, ResolveSymbol,
       SymbolStart, ResolveLanguage, Go
  <2> QED
    BY <2>1
<1>5. CASE UNCHANGED allVars
  BY <1>5 DEF allVars
<1> QED
  BY <1>1, <1>2, <1>3, <1>4, <1>5 DEF CommandNext, Resolving

(* A command and its analysis use the scope as LLDBScope allows: whatever  *)
(* text DoExecute is given and however the target changes, the address it  *)
(* looks a function up at is one of the process, never LLDB_INVALID_ADDRESS.*)
THEOREM CommandUsesScope == CommandSpec => Spec
<1>1. CommandInit => Init
  BY CommandInitially
<1>2. CommandInv /\ [CommandNext]_allVars => [Next]_vars
  BY CommandStepOfScope
<1> QED
  BY <1>1, <1>2, CommandInvHolds, PTL DEF CommandSpec, Spec

(* So all of the scope's guarantees hold of the command.                   *)
THEOREM CommandKeepsScope ==
  CommandSpec => /\ [](TypeOK /\ OneFunctionPerAddress)
                 /\ ImplementsLookup /\ NoGlobalOnFunction
  BY CommandUsesScope, ScopeTypeCorrect, FunctionsStayUnique, ScopeImplementsLookup,
     GlobalsMissFunctions, PTL

(* DoExecute's loop over the modules does not miss one that stays loaded   *)
(* at its index, however many others are loaded behind it meanwhile.       *)
THEOREM StayingModuleFound == CommandSpec => LoadedModuleFound
<1>1. ASSUME CommandInv, [CommandNext]_allVars, EndModules, ~command.shifted,
             NEW m \in command.stayed, m.base # Invalid
      PROVE  ~HoldsFile(m.image, command.address)
  <2>1. pc = "module" /\ ~(command.i <= Len(modules))
    BY <1>1 DEF EndModules, ModuleLeft, Go
  <2>2. command.i <= Len(modules) + 1 /\ Behind
    BY <1>1, <2>1 DEF CommandInv, LoopOK
  <2>3. PICK k \in DOMAIN modules : modules[k] = m
    BY <1>1, <2>1 DEF CommandInv, LoopOK, Steps
  <2>4. /\ DOMAIN modules = 1 .. Len(modules) /\ Len(modules) \in Nat
        /\ command.i \in Nat
    BY <1>1, <2>1, ListShape DEF CommandInv, LocalsOK, Steps, Local
  <2>5. k \in 1 .. command.i - 1
    BY <2>1, <2>2, <2>3, <2>4
  <2> QED
    BY <1>1, <2>2, <2>3, <2>5 DEF Behind
<1>2. CommandInv /\ [CommandNext]_allVars =>
        ((EndModules /\ ~command.shifted) =>
           \A m \in command.stayed :
             m.base # Invalid => ~HoldsFile(m.image, command.address))
  BY <1>1
<1> QED
  BY <1>2, CommandInvHolds, PTL DEF CommandSpec, LoadedModuleFound
-----------------------------------------------------------------------------
(* What is asked for.  While the list of modules does not change, what the *)
(* command has found so far stands for the functions that hold the address *)
(* given, or are among those of the name given; and the scope's cache is   *)
(* empty until the command asks it for its function.                       *)
Around(o) == {s \in Located(modules) : s.first <= o /\ o <= s.last}

Starting(o) == {s \in Located(modules) : s.first = o}

CodeStarts(S) == {s.first : s \in {r \in S : r.code}}

Sought == ParseAddress(command.argument)

Wanted(found) ==
  IF Sought = Invalid THEN found \subseteq Named(command.argument)
  ELSE found = CodeStarts(Holders(Sought))

OnTheWay ==
  /\ pc \in {"check", "module", "fetch", "load"} =>
       Sought # Invalid /\ command.address = Sought
  /\ pc \in {"module", "fetch", "load"} => Around(Sought) = {}
  /\ pc \in {"name", "nameload"} => Sought = Invalid
  /\ pc = "nameload" => <<command.image, command.file>> \in Matches[command.argument]
  /\ pc \in {"resolve", "symbol"} => Wanted(CodeStarts(Around(command.address)))
  /\ pc = "symbol" =>
       \/ command.image = NoImage /\ Around(command.address) = {}
       \/ \E s \in Around(command.address) :
            command.image = s.image /\ command.file = s.file
  /\ pc \in {"language", "find", "finding"} => Wanted(CodeStarts(Starting(command.address)))

Undisturbed == pc \in Steps /\ ~command.changed

(* The query that ends it.                                                 *)
FindingOK ==
  /\ asked = Question("findFunction", InCode(command.address), 1)
  /\ step \in {"called", "resolved", "placed"}
  /\ ~command.changed => steady = table /\ (step # "called" => symbol \in table)

AskedInv ==
  /\ table = TableOf(modules)
  /\ pc \in Steps => cache = {}
  /\ pc = "finding" => FindingOK
  /\ Undisturbed => /\ ~command.shifted
                    /\ \A k \in DOMAIN modules : modules[k] \in command.stayed
                    /\ command.argument # NoArgument => OnTheWay

(* A module that is loaded gives every address of its file the same way.   *)
LEMMA Placed ==
  ASSUME NEW list \in Lists, NEW k \in DOMAIN list, list[k].base # Invalid, NEW f \in Nat
  PROVE  LoadAddress(list, list[k].image, f) = list[k].base + f - Extent[list[k].image].first
<1> DEFINE here == {j \in DOMAIN list : list[j].image = list[k].image
                                        /\ list[j].base # Invalid}
<1>1. here = {k}
  BY ModulesApart
<1>2. (CHOOSE j \in here : TRUE) = k
  BY <1>1
<1> QED
  BY <1>1, <1>2 DEF LoadAddress

(* A symbol is loaded with the module it is a symbol of.                   *)
LEMMA LocatedIn ==
  ASSUME NEW list \in Lists, NEW s \in Located(list)
  PROVE  \E k \in DOMAIN list : \E r \in Symbols[list[k].image] :
           /\ list[k].base \in Nat /\ list[k].base # Invalid /\ s.image = list[k].image
           /\ list[k].image \in Images
           /\ Extent[s.image].first \in Nat /\ Extent[s.image].last \in Nat
           /\ r.first \in Nat /\ r.last \in Nat
           /\ Extent[s.image].first <= r.first /\ r.last <= Extent[s.image].last
           /\ s.file = r.first /\ s.code = r.code
           /\ s.first = list[k].base + r.first - Extent[s.image].first
           /\ s.last = list[k].base + r.last - Extent[s.image].first
<1>1. PICK m \in Images :
        /\ LoadAddress(list, m, 0) # Invalid
        /\ \E r \in Symbols[m] :
             s = [image |-> m, file |-> r.first, code |-> r.code,
                  first |-> LoadAddress(list, m, r.first),
                  last |-> LoadAddress(list, m, r.last)]
  BY DEF Located
<1>2. PICK r \in Symbols[m] :
        s = [image |-> m, file |-> r.first, code |-> r.code,
             first |-> LoadAddress(list, m, r.first),
             last |-> LoadAddress(list, m, r.last)]
  BY <1>1
<1>3. PICK k \in DOMAIN list : list[k].image = m /\ list[k].base # Invalid
  BY <1>1 DEF LoadAddress
<1>4. r.first \in Nat /\ r.last \in Nat /\ HoldsFile(m, r.first) /\ HoldsFile(m, r.last)
  BY LayoutAssumption
<1>5. list[k].base \in Nat
  BY <1>3, ListShape DEF Module, Offsets
<1>6. /\ LoadAddress(list, m, r.first) = list[k].base + r.first - Extent[m].first
      /\ LoadAddress(list, m, r.last) = list[k].base + r.last - Extent[m].first
  BY <1>3, <1>4, Placed
<1>7. Extent[m].first \in Nat /\ Extent[m].last \in Nat
  BY LayoutAssumption
<1> QED
  BY <1>2, <1>3, <1>4, <1>5, <1>6, <1>7 DEF HoldsFile

(* Conversely, the symbols of a loaded module are loaded.                  *)
LEMMA SymbolLocated ==
  ASSUME NEW list \in Lists, NEW k \in DOMAIN list, list[k].base # Invalid,
         NEW r \in Symbols[list[k].image]
  PROVE  \E s \in Located(list) :
           /\ s.image = list[k].image /\ s.file = r.first /\ s.code = r.code
           /\ s.first = list[k].base + r.first - Extent[list[k].image].first
           /\ s.last = list[k].base + r.last - Extent[list[k].image].first
<1> DEFINE m == list[k].image
<1> DEFINE s == [image |-> m, file |-> r.first, code |-> r.code,
                 first |-> LoadAddress(list, m, r.first),
                 last |-> LoadAddress(list, m, r.last)]
<1>1. m \in Images /\ list[k].base \in Offsets
  BY ListShape DEF Module
<1>2. r.first \in Nat /\ r.last \in Nat /\ Extent[m].first \in Nat /\ Extent[m].last \in Nat
  BY <1>1, LayoutAssumption
<1>3. /\ LoadAddress(list, m, r.first) = list[k].base + r.first - Extent[m].first
      /\ LoadAddress(list, m, r.last) = list[k].base + r.last - Extent[m].first
  BY <1>2, Placed
<1>4. LoadAddress(list, m, 0) # Invalid
  <2>1. LoadAddress(list, m, 0) = list[k].base + 0 - Extent[m].first
    BY Placed
  <2> QED
    BY <1>1, <1>2, <2>1, ResolutionAssumption, EntryAssumption DEF Offsets
<1>5. s \in Located(list)
  BY <1>1, <1>4 DEF Located
<1> QED
  BY <1>3, <1>5

(* Two loaded symbols around one address are one symbol to LLDB.           *)
LEMMA SameSymbol ==
  ASSUME NEW list \in Lists, NEW r \in Located(list), NEW s \in Located(list),
         NEW o \in Int, r.first <= o, o <= r.last, s.first <= o, o <= s.last
  PROVE  r.first = s.first /\ r.last = s.last /\ r.code = s.code
<1> DEFINE Entry3(x) == [name |-> <<x.image, x.file>>, first |-> x.first,
                         last |-> x.last, code |-> x.code]
<1>1. Entry3(r) \in TableOf(list) /\ Entry3(s) \in TableOf(list)
  BY DEF TableOf
<1>2. TableOf(list) \in SymbolTables
  BY ListShape
<1>3. Entry3(r) # Entry3(s) => r.last < s.first \/ s.last < r.first
  <2>1. \A x, y \in TableOf(list) : x # y => x.last < y.first \/ y.last < x.first
    BY <1>2, TableSymbols
  <2> QED
    BY <1>1, <2>1
<1>4. r.first \in Int /\ r.last \in Int /\ s.first \in Int /\ s.last \in Int
  <2>1. \A x \in TableOf(list) : x.first \in Int /\ x.last \in Int
    BY <1>2, TableSymbols
  <2> QED
    BY <1>1, <2>1
<1>5. Entry3(r) = Entry3(s)
  BY <1>3, <1>4
<1> QED
  BY <1>5

LEMMA InModule ==
  ASSUME NEW list \in Lists, NEW k \in DOMAIN list, list[k].base # Invalid,
         NEW s \in Located(list), NEW o \in Int, s.first <= o, o <= s.last,
         list[k].base <= o, o <= Top(list[k])
  PROVE  s.image = list[k].image
<1>1. PICK j \in DOMAIN list : \E r \in Symbols[list[j].image] :
           /\ list[j].base \in Nat /\ list[j].base # Invalid /\ s.image = list[j].image
           /\ list[j].image \in Images
           /\ Extent[s.image].first \in Nat /\ Extent[s.image].last \in Nat
           /\ r.first \in Nat /\ r.last \in Nat
           /\ Extent[s.image].first <= r.first /\ r.last <= Extent[s.image].last
           /\ s.file = r.first /\ s.code = r.code
           /\ s.first = list[j].base + r.first - Extent[s.image].first
           /\ s.last = list[j].base + r.last - Extent[s.image].first
  BY LocatedIn
<1>2. list[j].base <= o /\ o <= Top(list[j]) /\ Top(list[j]) \in Int
  BY <1>1 DEF Top
<1>3. list[k].base \in Int /\ list[k].image \in Images
  BY ListShape DEF Module, Offsets
<1>4. Top(list[k]) \in Int
  BY <1>3, LayoutAssumption DEF Top
<1>5. ASSUME j # k PROVE FALSE
  <2>1. Top(list[j]) < list[k].base \/ Top(list[k]) < list[j].base
    BY <1>1, <1>5, ModulesApart
  <2> QED
    BY <1>1, <1>2, <1>3, <1>4, <2>1
<1> QED
  BY <1>1, <1>5

(* A loaded symbol is around its own start.                                *)
LEMMA AroundStart ==
  ASSUME modules \in Lists, NEW o \in Int, NEW s \in Starting(o)
  PROVE  s \in Around(o) /\ s \in Located(modules) /\ s.first = o /\ s.last \in Int
<1>1. s \in Located(modules) /\ s.first = o
  BY DEF Starting
<1>2. [name |-> <<s.image, s.file>>, first |-> s.first, last |-> s.last,
       code |-> s.code] \in TableOf(modules)
  BY <1>1 DEF TableOf
<1>3. \A x \in TableOf(modules) : x.first <= x.last /\ x.last \in Int
  BY ListShape, TableSymbols
<1>4. s.first <= s.last /\ s.last \in Int
  BY <1>2, <1>3
<1> QED
  BY <1>1, <1>4 DEF Around

(* The function to be looked up is that of the symbol around the address.  *)
LEMMA PickedStart ==
  ASSUME modules \in Lists, NEW o \in Int, NEW s \in Around(o)
  PROVE  CodeStarts(Starting(s.first)) = CodeStarts(Around(o))
<1>1. s \in Located(modules) /\ s.first <= o /\ o <= s.last
  BY DEF Around
<1>2. s.first \in Int /\ s.last \in Int
  <2>1. [name |-> <<s.image, s.file>>, first |-> s.first, last |-> s.last,
       code |-> s.code] \in TableOf(modules)
    BY <1>1 DEF TableOf
  <2>2. \A x \in TableOf(modules) : x.first \in Int /\ x.last \in Int
    BY ListShape, TableSymbols
  <2> QED
    BY <2>1, <2>2
<1>3. ASSUME NEW r \in Starting(s.first) PROVE r \in Around(o)
  <2>1. r \in Located(modules) /\ r.first = s.first /\ r.first <= r.last /\ r.last \in Int
    BY <1>2, AroundStart DEF Around
  <2>2. s.first <= s.last
    BY <1>1, <1>2
  <2>3. r.last = s.last
    BY <1>1, <1>2, <2>1, <2>2, SameSymbol
  <2> QED
    BY <1>1, <2>1, <2>3 DEF Around
<1>4. ASSUME NEW r \in Around(o) PROVE r \in Starting(s.first)
  <2>1. r \in Located(modules) /\ r.first <= o /\ o <= r.last
    BY DEF Around
  <2>2. r.first = s.first
    BY <1>1, <2>1, SameSymbol
  <2> QED
    BY <2>1, <2>2 DEF Starting
<1>5. Starting(s.first) = Around(o)
  BY <1>3, <1>4
<1> QED
  BY <1>5

LEMMA NothingStarts ==
  ASSUME modules \in Lists, NEW o \in Int, Around(o) = {}
  PROVE  CodeStarts(Starting(o)) = CodeStarts(Around(o))
<1>1. Starting(o) = {}
  BY AroundStart
<1> QED
  BY <1>1

(* What is around the load address of a name starts there.                 *)
LEMMA NamedStarts ==
  ASSUME modules \in Lists, NEW t \in Arguments, NEW m \in Matches[t],
         NEW o \in Int, o = LoadAddress(modules, m[1], m[2]), o # Invalid
  PROVE  CodeStarts(Around(o)) \subseteq Named(t)
<1>1. /\ m[1] \in Images /\ m[2] \in Nat /\ HoldsFile(m[1], m[2])
      /\ \A r \in Symbols[m[1]] : r.first <= m[2] /\ m[2] <= r.last => r.first = m[2]
  <2>1. m \in Images \X Nat
    BY LayoutAssumption
  <2> QED
    BY <2>1, LayoutAssumption
<1>2. PICK k \in DOMAIN modules : modules[k].image = m[1] /\ modules[k].base # Invalid
  BY DEF LoadAddress
<1>3. o = modules[k].base + m[2] - Extent[m[1]].first
  BY <1>1, <1>2, Placed
<1>4. /\ Extent[m[1]].first \in Nat /\ Extent[m[1]].last \in Nat
      /\ modules[k].base \in Nat
  BY <1>1, <1>2, LayoutAssumption, ListShape DEF Module, Offsets
<1>5. modules[k].base <= o /\ o <= Top(modules[k])
  BY <1>1, <1>2, <1>3, <1>4 DEF Top, HoldsFile
<1>6. ASSUME NEW s \in Around(o) PROVE s.first = o
  <2>1. s \in Located(modules) /\ s.first <= o /\ o <= s.last
    BY DEF Around
  <2>2. s.image = m[1]
    BY <1>2, <1>5, <2>1, InModule
  <2>3. PICK j \in DOMAIN modules : \E r \in Symbols[modules[j].image] :
           /\ modules[j].base \in Nat /\ modules[j].base # Invalid
           /\ s.image = modules[j].image
           /\ modules[j].image \in Images
           /\ Extent[s.image].first \in Nat /\ Extent[s.image].last \in Nat
           /\ r.first \in Nat /\ r.last \in Nat
           /\ Extent[s.image].first <= r.first /\ r.last <= Extent[s.image].last
           /\ s.file = r.first /\ s.code = r.code
           /\ s.first = modules[j].base + r.first - Extent[s.image].first
           /\ s.last = modules[j].base + r.last - Extent[s.image].first
    BY <2>1, LocatedIn
  <2>4. j = k
    BY <1>2, <2>2, <2>3, ModulesApart
  <2>5. PICK r \in Symbols[m[1]] :
           /\ r.first \in Nat /\ r.last \in Nat
           /\ s.first = modules[k].base + r.first - Extent[m[1]].first
           /\ s.last = modules[k].base + r.last - Extent[m[1]].first
    BY <2>2, <2>3, <2>4
  <2>6. r.first <= m[2] /\ m[2] <= r.last
    BY <1>1, <1>3, <1>4, <2>1, <2>5
  <2>7. r.first = m[2]
    BY <1>1, <2>6
  <2> QED
    BY <1>3, <2>5, <2>7
<1>7. o \in Named(t)
  BY DEF Named
<1> QED
  BY <1>6, <1>7 DEF CodeStarts

(* The first loaded module that has the address in its file decides.       *)
Holds(k, n) == modules[k].base # Invalid /\ HoldsFile(modules[k].image, n)

LEMMA FileHolders ==
  ASSUME modules \in Lists, NEW n \in Nat, Around(n) = {},
         NEW k \in DOMAIN modules, Holds(k, n), \A l \in 1 .. k - 1 : ~Holds(l, n)
  PROVE  Around(modules[k].base + n - Extent[modules[k].image].first) = Holders(n)
<1> DEFINE m == modules[k].image
           o == modules[k].base + n - Extent[m].first
<1>1. /\ m \in Images /\ modules[k].base \in Nat /\ k \in Nat \ {0}
      /\ DOMAIN modules \subseteq Nat \ {0}
      /\ Extent[m].first \in Nat /\ Extent[m].last \in Nat
      /\ Extent[m].first <= n /\ n <= Extent[m].last /\ modules[k].base # Invalid
  BY ListShape, LayoutAssumption DEF Module, Offsets, Holds, HoldsFile
<1>2. o \in Int /\ modules[k].base <= o /\ o <= Top(modules[k])
  BY <1>1 DEF Top
<1> DEFINE File(s) == /\ s.file <= n /\ n <= s.file + s.last - s.first
                      /\ \E j \in DOMAIN modules :
                           /\ modules[j].image = s.image /\ Holds(j, n)
                           /\ \A l \in 1 .. j - 1 : ~Holds(l, n)
<1>3. Holders(n) = {s \in Located(modules) : File(s)}
  BY DEF Holders, Around, Holds
<1>4. ASSUME NEW s \in Located(modules), s.image = m
      PROVE  File(s) <=> s.first <= o /\ o <= s.last
  <2>1. PICK j \in DOMAIN modules : \E r \in Symbols[modules[j].image] :
           /\ modules[j].base \in Nat /\ modules[j].base # Invalid
           /\ s.image = modules[j].image
           /\ modules[j].image \in Images
           /\ Extent[s.image].first \in Nat /\ Extent[s.image].last \in Nat
           /\ r.first \in Nat /\ r.last \in Nat
           /\ Extent[s.image].first <= r.first /\ r.last <= Extent[s.image].last
           /\ s.file = r.first /\ s.code = r.code
           /\ s.first = modules[j].base + r.first - Extent[s.image].first
           /\ s.last = modules[j].base + r.last - Extent[s.image].first
    BY LocatedIn
  <2>2. j = k
    BY <1>4, <2>1, ModulesApart
  <2>3. PICK r \in Symbols[m] :
           /\ r.first \in Nat /\ r.last \in Nat /\ s.file = r.first
           /\ s.first = modules[k].base + r.first - Extent[m].first
           /\ s.last = modules[k].base + r.last - Extent[m].first
    BY <1>4, <2>1, <2>2
  <2>4. \E i \in DOMAIN modules :
           /\ modules[i].image = s.image /\ Holds(i, n)
           /\ \A l \in 1 .. i - 1 : ~Holds(l, n)
    BY <1>4
  <2>5. (s.file <= n /\ n <= s.file + s.last - s.first) <=> (s.first <= o /\ o <= s.last)
    BY <1>1, <2>3
  <2> QED
    BY <2>4, <2>5
<1>5. ASSUME NEW s \in Located(modules), File(s) PROVE s.image = m
  <2>1. PICK j \in DOMAIN modules : /\ modules[j].image = s.image /\ Holds(j, n)
                                    /\ \A l \in 1 .. j - 1 : ~Holds(l, n)
    BY <1>5
  <2>2. ~(j < k) /\ ~(k < j) /\ j \in Nat
    <3>1. j \in Nat \ {0}
      BY <1>1
    <3>2. j < k => j \in 1 .. k - 1
      BY <1>1, <3>1
    <3>3. k < j => k \in 1 .. j - 1
      BY <1>1, <3>1
    <3> QED
      BY <2>1, <3>1, <3>2, <3>3
  <2>3. j = k
    BY <1>1, <2>2
  <2> QED
    BY <2>1, <2>3
<1>6. ASSUME NEW s \in Located(modules), s.first <= o, o <= s.last PROVE s.image = m
  <2> HIDE DEF o
  <2> QED
    BY <1>1, <1>2, <1>6, InModule
<1> HIDE DEF File, o
<1>7. Around(o) = {s \in Located(modules) : File(s)}
  BY <1>4, <1>5, <1>6 DEF Around
<1> QED
  BY <1>3, <1>7 DEF o

LEMMA NoHolders ==
  ASSUME NEW n \in Nat, Around(n) = {}, \A k \in DOMAIN modules : ~Holds(k, n)
  PROVE  Holders(n) = {}
  BY DEF Holders, Around, Holds

LEMMA HoldersHere ==
  ASSUME NEW n \in Nat, Around(n) # {}
  PROVE  Holders(n) = Around(n)
  BY DEF Holders, Around

LEMMA SameModules ==
  ASSUME modules' = modules, command'.argument = command.argument
  PROVE  /\ Sought' = Sought
         /\ \A o : Around(o)' = Around(o) /\ Starting(o)' = Starting(o)
         /\ \A S : Wanted(S)' <=> Wanted(S)
<1>1. Sought' = Sought
  BY DEF Sought
<1>2. ASSUME NEW o PROVE Around(o)' = Around(o) /\ Starting(o)' = Starting(o)
  BY DEF Around, Starting
<1>3. ASSUME NEW S PROVE Wanted(S)' <=> Wanted(S)
  <2>1. Holders(Sought)' = Holders(Sought)
    BY <1>1 DEF Holders
  <2>2. Named(command.argument)' = Named(command.argument)
    BY DEF Named
  <2> QED
    BY <1>1, <2>1, <2>2 DEF Wanted
<1> QED
  BY <1>1, <1>2, <1>3

(* A step of the command, while the target does not change.                *)
LEMMA AskedGoes ==
  ASSUME AskedInv, pc \in Steps, pc' \in Steps \ {"finding"}, UNCHANGED <<modules, vars>>,
         command'.argument = command.argument, command'.changed = command.changed,
         command'.shifted = command.shifted, command'.stayed = command.stayed,
         Undisturbed /\ command.argument # NoArgument /\ OnTheWay => OnTheWay'
  PROVE  AskedInv'
<1>1. table' = TableOf(modules')
  BY DEF AskedInv, vars
<1>2. cache' = {}
  BY DEF AskedInv, vars, scopeVars
<1>3. ASSUME Undisturbed'
      PROVE  /\ ~command'.shifted
             /\ \A k \in DOMAIN modules' : modules'[k] \in command'.stayed
             /\ command'.argument # NoArgument => OnTheWay'
  <2>1. Undisturbed
    BY <1>3 DEF Undisturbed
  <2> QED
    BY <2>1 DEF AskedInv
<1> QED
  BY <1>1, <1>2, <1>3 DEF AskedInv

LEMMA AskedInitially ==
  ASSUME CommandInit
  PROVE  AskedInv
<1>1. pc = "start" /\ table = TableOf(modules) /\ cache = {}
  BY DEF CommandInit, Init
<1>2. OnTheWay
  BY <1>1 DEF OnTheWay
<1>3. PICK t \in Arguments \cup {NoArgument} :
        command = [argument |-> t, address |-> Invalid, i |-> 1, image |-> NoImage,
                   file |-> 0, changed |-> FALSE, shifted |-> FALSE,
                   stayed |-> {modules[k] : k \in DOMAIN modules}]
  BY DEF CommandInit
<1>4. ~command.shifted /\ \A k \in DOMAIN modules : modules[k] \in command.stayed
  BY <1>3
<1> QED
  BY <1>1, <1>2, <1>4 DEF AskedInv

LEMMA AskedRead ==
  ASSUME CommandInv, AskedInv, SelectedFrame \/ ReadArgument \/ CheckLoadAddress
  PROVE  AskedInv'
<1>0. /\ command \in Local /\ UNCHANGED <<modules, vars>> /\ pc \in Steps
      /\ modules \in Lists
  BY DEF CommandInv, LocalsOK, SelectedFrame, ReadArgument, CheckLoadAddress, Go, Steps
<1>1. CASE SelectedFrame
  <2>1. /\ command.argument = NoArgument /\ pc' = "resolve"
        /\ \E a \in Offsets : command' = [command EXCEPT !.address = a]
    BY <1>1 DEF SelectedFrame, Go
  <2>2. /\ command'.argument = command.argument /\ command'.changed = command.changed
        /\ command'.shifted = command.shifted /\ command'.stayed = command.stayed
    BY <1>0, <2>1 DEF Local
  <2> QED
    BY <1>0, <2>1, <2>2, AskedGoes DEF Steps
<1>2. CASE ReadArgument
  <2>1. /\ command' = [command EXCEPT !.address = ParseAddress(command.argument)]
        /\ pc' = IF command'.address = Invalid THEN "name" ELSE "check"
    BY <1>2 DEF ReadArgument, Go
  <2>2. /\ command'.argument = command.argument /\ command'.changed = command.changed
        /\ command'.shifted = command.shifted /\ command'.stayed = command.stayed
        /\ command'.address = Sought
    BY <1>0, <2>1 DEF Local, Sought
  <2>3. Sought' = Sought
    BY <2>2 DEF Sought
  <2>4. OnTheWay'
    BY <2>1, <2>2, <2>3 DEF OnTheWay
  <2> QED
    BY <1>0, <2>1, <2>2, <2>4, AskedGoes DEF Steps
<1>3. CASE CheckLoadAddress
  <2>1. /\ command' = command /\ pc = "check"
        /\ pc' = IF SymbolHere # {} THEN "resolve" ELSE "module"
    BY <1>3 DEF CheckLoadAddress, Go
  <2>2. ASSUME Undisturbed, command.argument # NoArgument, OnTheWay PROVE OnTheWay'
    <3>1. command.address = Sought /\ Sought # Invalid
      BY <2>1, <2>2 DEF OnTheWay
    <3>2. SymbolHere = Around(Sought)
      BY <3>1 DEF SymbolHere, Around
    <3>3. Sought \in Nat
      BY <1>0, <2>1, <3>1 DEF CommandInv, LocalsOK, Steps, Offsets
    <3>4. /\ Sought' = Sought /\ Around(Sought)' = Around(Sought)
          /\ \A S : Wanted(S)' <=> Wanted(S)
      BY <1>0, <2>1, SameModules
    <3>5. CASE SymbolHere # {}
      <4>1. Holders(Sought) = Around(Sought)
        BY <3>2, <3>3, <3>5, HoldersHere
      <4>2. Wanted(CodeStarts(Around(Sought)))
        BY <3>1, <4>1 DEF Wanted
      <4>3. pc' = "resolve" /\ command'.address = Sought'
        BY <2>1, <3>1, <3>4, <3>5
      <4>4. Wanted(CodeStarts(Around(command.address)))'
        BY <3>1, <3>4, <4>2, <1>0, <2>1 DEF Wanted, CodeStarts, Around
      <4> QED
        BY <4>3, <4>4 DEF OnTheWay
    <3>6. CASE SymbolHere = {}
      <4>1. pc' = "module" /\ command'.address = Sought'
        BY <2>1, <3>1, <3>4, <3>6
      <4>2. Around(Sought)' = {}
        BY <3>2, <3>4, <3>6
      <4> QED
        BY <3>1, <3>4, <4>1, <4>2 DEF OnTheWay
    <3> QED
      BY <3>5, <3>6
  <2> QED
    BY <1>0, <2>1, <2>2, AskedGoes DEF Steps
<1> QED
  BY <1>1, <1>2, <1>3

LEMMA AskedLoop ==
  ASSUME CommandInv, AskedInv, NextModule \/ EndModules \/ FetchModule \/ LoadFileAddress
  PROVE  AskedInv'
<1>0. /\ command \in Local /\ UNCHANGED <<modules, vars>> /\ pc \in Steps
      /\ modules \in Lists /\ command.i \in Nat \ {0} /\ command.address \in Offsets
      /\ pc \in {"module", "fetch", "load"}
  BY DEF CommandInv, LocalsOK, NextModule, EndModules, FetchModule, LoadFileAddress,
         Go, Steps, Local
<1>1. Len(modules) \in Nat /\ DOMAIN modules = 1 .. Len(modules)
  BY <1>0, ListShape
<1>2. ASSUME Undisturbed, OnTheWay, command.argument # NoArgument
      PROVE  /\ command.address = Sought /\ Sought # Invalid /\ Sought \in Nat
             /\ Around(Sought) = {} /\ command.i <= Len(modules) + 1
             /\ pc \in {"fetch", "load"} => command.i <= Len(modules)
             /\ pc = "load" => modules[command.i].image = command.image
             /\ \A k \in 1 .. command.i - 1 : k \in DOMAIN modules => ~Holds(k, Sought)
  <2>1. command.address = Sought /\ Sought # Invalid /\ Around(Sought) = {}
    BY <1>0, <1>2 DEF OnTheWay
  <2>2. ~command.shifted /\ \A k \in DOMAIN modules : modules[k] \in command.stayed
    BY <1>2 DEF AskedInv
  <2>3. /\ command.i <= Len(modules) + 1 /\ Behind
        /\ pc \in {"fetch", "load"} => command.i <= Len(modules)
        /\ pc = "load" => modules[command.i].image = command.image
    BY <1>0, <2>2 DEF CommandInv, LoopOK
  <2>4. ASSUME NEW k \in 1 .. command.i - 1, k \in DOMAIN modules PROVE ~Holds(k, Sought)
    BY <2>1, <2>2, <2>3, <2>4 DEF Behind, Holds
  <2> QED
    BY <1>0, <2>1, <2>3, <2>4 DEF Offsets
<1>3. ASSUME pc' = "module" \/ pc' = "fetch" \/ pc' = "load",
             command'.argument = command.argument, command'.changed = command.changed,
             command'.shifted = command.shifted, command'.stayed = command.stayed,
             command'.address = command.address
      PROVE  AskedInv'
  <2>1. ASSUME Undisturbed, OnTheWay, command.argument # NoArgument PROVE OnTheWay'
    <3>1. Sought' = Sought /\ Around(Sought)' = Around(Sought)
      BY <1>0, <1>3, SameModules
    <3> QED
      BY <1>2, <1>3, <2>1, <3>1 DEF OnTheWay
  <2> QED
    BY <1>0, <1>3, <2>1, AskedGoes DEF Steps
<1>4. CASE NextModule
  BY <1>3, <1>4 DEF NextModule, Go
<1>5. CASE EndModules
  <2>1. command' = command /\ pc = "module" /\ pc' = "resolve" /\ ~(command.i <= Len(modules))
    BY <1>5 DEF EndModules, ModuleLeft, Go
  <2>2. ASSUME Undisturbed, OnTheWay, command.argument # NoArgument PROVE OnTheWay'
    <3>1. /\ Sought # Invalid /\ Sought \in Nat /\ command.address = Sought
          /\ Around(Sought) = {} /\ command.i <= Len(modules) + 1
          /\ \A k \in 1 .. command.i - 1 : k \in DOMAIN modules => ~Holds(k, Sought)
      BY <1>2, <2>2
    <3>2. command.i - 1 = Len(modules)
      BY <1>0, <1>1, <2>1, <3>1
    <3>3. Holders(Sought) = {}
      BY <1>1, <3>1, <3>2, NoHolders
    <3>4. Wanted(CodeStarts(Around(command.address)))
      BY <3>1, <3>3 DEF Wanted
    <3>5. Wanted(CodeStarts(Around(command.address)))'
      BY <1>0, <2>1, <3>4, SameModules DEF CodeStarts, Around, Wanted
    <3> QED
      BY <2>1, <3>5 DEF OnTheWay
  <2> QED
    BY <1>0, <2>1, <2>2, AskedGoes DEF Steps
<1>6. CASE FetchModule
  <2> DEFINE image == IF command.i <= Len(modules) THEN modules[command.i].image
                      ELSE NoImage
  <2>1. \/ pc' = "load" /\ command' = [command EXCEPT !.image = image]
        \/ pc' = "module" /\ command' = [command EXCEPT !.i = @ + 1]
    BY <1>6 DEF FetchModule, Go
  <2> HIDE DEF image
  <2>2. /\ command'.argument = command.argument /\ command'.changed = command.changed
        /\ command'.shifted = command.shifted /\ command'.stayed = command.stayed
        /\ command'.address = command.address
    BY <1>0, <2>1 DEF Local
  <2> QED
    BY <1>3, <2>1, <2>2
<1>7. CASE LoadFileAddress
  <2> DEFINE loaded == LoadAddress(modules, command.image, command.address)
  <2>1. /\ pc = "load" /\ command.image \in Images
        /\ HoldsFile(command.image, command.address)
    BY <1>7 DEF LoadFileAddress, CommandInv, LocalsOK, Steps
  <2>2. CASE loaded = Invalid
    <3>1. pc' = "module" /\ command' = [command EXCEPT !.i = @ + 1]
      BY <1>7, <2>2 DEF LoadFileAddress, Go
    <3>2. /\ command'.argument = command.argument /\ command'.changed = command.changed
          /\ command'.shifted = command.shifted /\ command'.stayed = command.stayed
          /\ command'.address = command.address
      BY <1>0, <3>1 DEF Local
    <3> QED
      BY <1>3, <3>1, <3>2
  <2>3. CASE loaded # Invalid
    <3>1. pc' = "resolve" /\ command' = [command EXCEPT !.address = loaded]
      BY <1>7, <2>3 DEF LoadFileAddress, Go
    <3> HIDE DEF loaded
    <3>2. /\ command'.argument = command.argument /\ command'.changed = command.changed
          /\ command'.shifted = command.shifted /\ command'.stayed = command.stayed
          /\ command'.address = loaded
      BY <1>0, <3>1 DEF Local
    <3>3. ASSUME Undisturbed, OnTheWay, command.argument # NoArgument PROVE OnTheWay'
      <4>1. /\ Sought # Invalid /\ Sought \in Nat /\ command.address = Sought
            /\ Around(Sought) = {} /\ command.i <= Len(modules)
            /\ modules[command.i].image = command.image
            /\ \A k \in 1 .. command.i - 1 : k \in DOMAIN modules => ~Holds(k, Sought)
        BY <1>2, <2>1, <3>3
      <4>2. command.i \in DOMAIN modules
        BY <1>0, <1>1, <4>1
      <4>3. PICK k \in DOMAIN modules :
              modules[k].image = command.image /\ modules[k].base # Invalid
        BY <2>3 DEF LoadAddress, loaded
      <4>4. k = command.i
        BY <1>0, <4>1, <4>2, <4>3, ModulesApart
      <4>5. Holds(k, Sought) /\ \A l \in 1 .. k - 1 : ~Holds(l, Sought)
        <5>1. \A l \in 1 .. k - 1 : l \in DOMAIN modules
          BY <1>0, <1>1, <4>1, <4>4
        <5> QED
          BY <2>1, <4>1, <4>3, <4>4, <5>1 DEF Holds
      <4>6. loaded = modules[k].base + Sought - Extent[modules[k].image].first
        BY <1>0, <4>1, <4>3, Placed DEF loaded
      <4>7. Around(loaded) = Holders(Sought)
        BY <1>0, <4>1, <4>5, <4>6, FileHolders
      <4>8. Wanted(CodeStarts(Around(loaded)))
        BY <4>1, <4>7 DEF Wanted
      <4>9. Wanted(CodeStarts(Around(command.address)))'
        BY <1>0, <3>2, <4>8, SameModules DEF CodeStarts, Around, Wanted
      <4> QED
        BY <3>1, <4>9 DEF OnTheWay
    <3> QED
      BY <1>0, <3>1, <3>2, <3>3, AskedGoes DEF Steps
  <2> QED
    BY <2>2, <2>3
<1> QED
  BY <1>4, <1>5, <1>6, <1>7

LEMMA AskedName ==
  ASSUME CommandInv, AskedInv, FindFunctions \/ LoadName, pc' # "notfound"
  PROVE  AskedInv'
<1>0. /\ command \in Local /\ UNCHANGED <<modules, vars>> /\ pc \in Steps
      /\ modules \in Lists
  BY DEF CommandInv, LocalsOK, FindFunctions, LoadName, Go, Steps
<1>1. CASE FindFunctions
  <2>1. pc = "name"
    BY <1>1 DEF FindFunctions
  <2>2. PICK m \in Matches[command.argument] :
          pc' = "nameload" /\ command' = [command EXCEPT !.image = m[1], !.file = m[2]]
    BY <1>1 DEF FindFunctions, Go
  <2>3. command.argument \in Arguments
    BY <2>1 DEF CommandInv, LocalsOK
  <2>4. m = <<m[1], m[2]>>
    BY <2>3, LayoutAssumption
  <2>5. /\ command'.argument = command.argument /\ command'.changed = command.changed
        /\ command'.shifted = command.shifted /\ command'.stayed = command.stayed
        /\ command'.image = m[1] /\ command'.file = m[2]
    BY <1>0, <2>2 DEF Local
  <2>6. ASSUME Undisturbed, OnTheWay, command.argument # NoArgument PROVE OnTheWay'
    <3>1. Sought' = Sought /\ Sought = Invalid
      BY <2>1, <2>5, <2>6 DEF OnTheWay, Sought
    <3>2. <<command'.image, command'.file>> \in Matches[command'.argument]
      BY <2>4, <2>5
    <3> QED
      BY <2>2, <3>1, <3>2 DEF OnTheWay
  <2> QED
    BY <1>0, <2>2, <2>5, <2>6, AskedGoes DEF Steps
<1>2. CASE LoadName
  <2> DEFINE loaded == LoadAddress(modules, command.image, command.file)
  <2>1. pc = "nameload" /\ command.image \in Images /\ HoldsFile(command.image, command.file)
        /\ command.file \in Nat
    BY <1>0, <1>2 DEF LoadName, CommandInv, LocalsOK, Local
  <2>2. loaded \in Offsets \cup {Invalid}
    BY <1>0, <2>1, Loaded
  <2>3. /\ command' = [command EXCEPT !.address = loaded]
        /\ pc' = IF command'.address = Invalid THEN "notfound" ELSE "resolve"
    BY <1>2 DEF LoadName, Go
  <2> HIDE DEF loaded
  <2>4. /\ command'.argument = command.argument /\ command'.changed = command.changed
        /\ command'.shifted = command.shifted /\ command'.stayed = command.stayed
        /\ command'.address = loaded
    BY <1>0, <2>3 DEF Local
  <2>5. pc' = "resolve" /\ loaded \in Offsets /\ loaded # Invalid
    BY <2>2, <2>3, <2>4
  <2>6. ASSUME Undisturbed, OnTheWay, command.argument # NoArgument PROVE OnTheWay'
    <3>1. /\ Sought = Invalid
          /\ <<command.image, command.file>> \in Matches[command.argument]
      BY <2>1, <2>6 DEF OnTheWay
    <3>2. command.argument \in Arguments
      BY <1>0, <2>6 DEF Local
    <3>3. CodeStarts(Around(loaded)) \subseteq Named(command.argument)
      <4> DEFINE m == <<command.image, command.file>>
      <4>1. m[1] = command.image /\ m[2] = command.file
        OBVIOUS
      <4>2. loaded = LoadAddress(modules, m[1], m[2])
        BY <4>1 DEF loaded
      <4> HIDE DEF m
      <4>3. m \in Matches[command.argument]
        BY <3>1 DEF m
      <4> QED
        BY <1>0, <2>5, <3>2, <4>2, <4>3, NamedStarts DEF Offsets
    <3>4. Wanted(CodeStarts(Around(loaded)))
      BY <3>1, <3>3 DEF Wanted
    <3>5. Wanted(CodeStarts(Around(command.address)))'
      BY <1>0, <2>4, <3>4, SameModules DEF CodeStarts, Around, Wanted
    <3> QED
      BY <2>5, <3>5 DEF OnTheWay
  <2> QED
    BY <1>0, <2>4, <2>5, <2>6, AskedGoes DEF Steps
<1> QED
  BY <1>1, <1>2

LEMMA AskedResolve ==
  ASSUME CommandInv, AskedInv, ResolveSymbol \/ SymbolStart \/ ResolveLanguage,
         pc' # "rejected"
  PROVE  AskedInv'
<1>0. /\ command \in Local /\ UNCHANGED <<modules, vars>> /\ pc \in Steps
      /\ modules \in Lists /\ command.address \in Offsets
  BY DEF CommandInv, LocalsOK, ResolveSymbol, SymbolStart, ResolveLanguage, Go, Steps
<1>1. CASE ResolveSymbol
  <2>1. pc = "resolve" /\ pc' = "symbol" /\ SymbolHere = Around(command.address)
    BY <1>1 DEF ResolveSymbol, Go, SymbolHere, Around
  <2>2. \/ SymbolHere = {} /\ command' = [command EXCEPT !.image = NoImage]
        \/ \E s \in SymbolHere :
             command' = [command EXCEPT !.image = s.image, !.file = s.file]
    BY <1>1 DEF ResolveSymbol
  <2>3. /\ command'.argument = command.argument /\ command'.changed = command.changed
        /\ command'.shifted = command.shifted /\ command'.stayed = command.stayed
        /\ command'.address = command.address
        /\ \/ command'.image = NoImage /\ Around(command.address) = {}
           \/ \E s \in Around(command.address) :
                command'.image = s.image /\ command'.file = s.file
    BY <1>0, <2>1, <2>2 DEF Local
  <2>4. ASSUME Undisturbed, OnTheWay, command.argument # NoArgument PROVE OnTheWay'
    <3>1. Wanted(CodeStarts(Around(command.address)))
      BY <2>1, <2>4 DEF OnTheWay
    <3>2. Around(command.address)' = Around(command.address)
      BY <1>0, <2>3 DEF Around
    <3>3. Wanted(CodeStarts(Around(command.address)))'
      BY <1>0, <2>3, <3>1, <3>2, SameModules DEF CodeStarts, Wanted
    <3> QED
      BY <2>1, <2>3, <3>2, <3>3 DEF OnTheWay
  <2> QED
    BY <1>0, <2>1, <2>3, <2>4, AskedGoes DEF Steps
<1>2. CASE SymbolStart
  <2> DEFINE start == IF command.image = NoImage THEN Invalid
                      ELSE LoadAddress(modules, command.image, command.file)
  <2>1. /\ pc = "symbol" /\ pc' = "language"
        /\ command' = IF start = Invalid THEN command ELSE [command EXCEPT !.address = start]
    BY <1>2 DEF SymbolStart, Go
  <2> HIDE DEF start
  <2>2. /\ command'.argument = command.argument /\ command'.changed = command.changed
        /\ command'.shifted = command.shifted /\ command'.stayed = command.stayed
        /\ command'.address = IF start = Invalid THEN command.address ELSE start
    BY <1>0, <2>1 DEF Local
  <2>3. ASSUME Undisturbed, OnTheWay, command.argument # NoArgument PROVE OnTheWay'
    <3> DEFINE found == CodeStarts(Around(command.address))
    <3>1. Wanted(found)
      BY <2>1, <2>3 DEF OnTheWay
    <3>2. \/ command.image = NoImage /\ Around(command.address) = {}
          \/ \E s \in Around(command.address) :
               command.image = s.image /\ command.file = s.file
      BY <2>1, <2>3 DEF OnTheWay
    <3>3. CodeStarts(Starting(command'.address)) = found
      <4>1. CASE command.image = NoImage /\ Around(command.address) = {}
        <5>1. command'.address = command.address
          BY <2>2, <4>1 DEF start
        <5> QED
          BY <1>0, <4>1, <5>1, NothingStarts DEF Offsets
      <4>2. ASSUME NEW s \in Around(command.address),
                   command.image = s.image, command.file = s.file
            PROVE  CodeStarts(Starting(command'.address)) = found
        <5>1. s \in Located(modules)
          BY DEF Around
        <5>2. PICK k \in DOMAIN modules : \E r \in Symbols[modules[k].image] :
                /\ modules[k].base \in Nat /\ modules[k].base # Invalid
                /\ s.image = modules[k].image
                /\ modules[k].image \in Images
                /\ Extent[s.image].first \in Nat /\ Extent[s.image].last \in Nat
                /\ r.first \in Nat /\ r.last \in Nat
                /\ Extent[s.image].first <= r.first /\ r.last <= Extent[s.image].last
                /\ s.file = r.first /\ s.code = r.code
                /\ s.first = modules[k].base + r.first - Extent[s.image].first
                /\ s.last = modules[k].base + r.last - Extent[s.image].first
          BY <1>0, <5>1, LocatedIn
        <5>3. start = s.first
          BY <1>0, <4>2, <5>2, Placed, ResolutionAssumption DEF start
        <5>4. s.first <= command.address
          BY DEF Around
        <5>5. start # Invalid
          BY <1>0, <5>2, <5>3, <5>4, ResolutionAssumption, EntryAssumption DEF Offsets
        <5>6. command'.address = s.first
          BY <2>2, <5>3, <5>5
        <5> QED
          BY <1>0, <5>6, PickedStart DEF Offsets
      <4> QED
        BY <3>2, <4>1, <4>2
    <3>4. Wanted(CodeStarts(Starting(command.address)))'
      <4>1. Starting(command.address)' = Starting(command'.address)
        BY <1>0 DEF Starting
      <4> HIDE DEF found
      <4>2. CodeStarts(Starting(command.address))' = found
        BY <3>3, <4>1 DEF CodeStarts
      <4> QED
        BY <3>1, <4>2, <1>0, <2>2, SameModules DEF Wanted
    <3> QED
      BY <2>1, <3>4 DEF OnTheWay
  <2> QED
    BY <1>0, <2>1, <2>2, <2>3, AskedGoes DEF Steps
<1>3. CASE ResolveLanguage
  <2>1. command' = command /\ pc = "language" /\ pc' = "find"
    BY <1>3 DEF ResolveLanguage, Go
  <2>2. ASSUME Undisturbed, OnTheWay, command.argument # NoArgument PROVE OnTheWay'
    <3>1. Wanted(CodeStarts(Starting(command.address)))
      BY <2>1, <2>2 DEF OnTheWay
    <3>2. Wanted(CodeStarts(Starting(command.address)))'
      BY <1>0, <2>1, <3>1, SameModules DEF CodeStarts, Starting, Wanted
    <3> QED
      BY <2>1, <3>2 DEF OnTheWay
  <2> QED
    BY <1>0, <2>1, <2>2, AskedGoes DEF Steps
<1> QED
  BY <1>1, <1>2, <1>3

LEMMA AskedFinding ==
  ASSUME CommandInv, AskedInv, FindTheFunction \/ Finding, pc' \in Steps
  PROVE  AskedInv'
<1>0. /\ pc \in {"find", "finding"} /\ pc' = "finding" /\ pc' \in Steps /\ pc \in Steps
      /\ command' = command /\ modules' = modules /\ cache = {}
  BY DEF FindTheFunction, Finding, AskedInv, Steps
<1>1. /\ UNCHANGED <<table, cache>> /\ FindingOK'
  <2>1. CASE FindTheFunction
    <3>1. /\ asked' = Question("findFunction", InCode(command.address), 1)
          /\ step' = "called" /\ steady' = table /\ UNCHANGED <<table, cache>>
      BY <2>1 DEF FindTheFunction, FindFunction, Put
    <3> QED
      BY <1>0, <3>1 DEF FindingOK
  <2>2. CASE Finding
    <3>1. pc = "finding" /\ step' # "idle" /\ Answering
      BY <1>0, <2>2 DEF Finding, Ended, Steps
    <3>2. FindingOK
      BY <3>1 DEF AskedInv
    <3>3. \A entry, c : ~Finish(entry, c)
      BY <3>1, <3>2 DEF Finish, ReturnEntry, MapVariable, NoScope, LinkToEntry, FindingOK,
         Question, Mappings
    <3>4. CASE LookUp
      <4>1. /\ UNCHANGED <<table, steady, cache, asked>> /\ step' = "resolved"
            /\ symbol' \in table
        BY <3>3, <3>4 DEF LookUp, Resolve
      <4> QED
        BY <1>0, <3>2, <4>1 DEF FindingOK
    <3>5. CASE ReadStart
      <4>1. /\ UNCHANGED <<table, steady, cache, asked, symbol>> /\ step' = "placed"
            /\ step = "resolved"
        BY <3>3, <3>5 DEF ReadStart
      <4> QED
        BY <1>0, <3>2, <4>1 DEF FindingOK
    <3> QED
      BY <3>1, <3>3, <3>4, <3>5 DEF Answering, RegisterFunction
  <2> QED
    BY <2>1, <2>2
<1>2. ASSUME Undisturbed, OnTheWay, command.argument # NoArgument PROVE OnTheWay'
  <2>1. Wanted(CodeStarts(Starting(command.address)))
    BY <1>0, <1>2 DEF OnTheWay
  <2>2. Wanted(CodeStarts(Starting(command.address)))'
    BY <1>0, <2>1, SameModules DEF CodeStarts, Starting, Wanted
  <2> QED
    BY <1>0, <2>2 DEF OnTheWay
<1>3. ASSUME Undisturbed'
      PROVE  /\ ~command'.shifted
             /\ \A k \in DOMAIN modules' : modules'[k] \in command'.stayed
             /\ command'.argument # NoArgument => OnTheWay'
  <2>1. Undisturbed
    BY <1>0, <1>3 DEF Undisturbed
  <2> QED
    BY <1>0, <1>2, <2>1 DEF AskedInv
<1> QED
  BY <1>0, <1>1, <1>3 DEF AskedInv

LEMMA AskedStep ==
  ASSUME CommandInv, AskedInv, [CommandNext]_allVars
  PROVE  AskedInv'
<1>1. CASE ChangeModules
  <2>1. /\ table' = TableOf(modules') /\ pc' = pc
        /\ UNCHANGED <<cache, asked, step>>
    BY <1>1 DEF ChangeModules, LoadModule, scopeVars
  <2>2. pc \in Steps => command'.changed /\ command'.address = command.address
    <3>1. pc \in Steps => pc \notin Ended /\ command \in Local
      BY DEF Steps, Ended, CommandInv, LocalsOK
    <3>2. pc \in Steps => command' = [command EXCEPT
             !.changed = TRUE,
             !.shifted = @ \/ ~SameOrder(modules, modules'),
             !.stayed = @ \cap {modules'[k] : k \in DOMAIN modules'}]
      BY <1>1, <3>1 DEF ChangeModules
    <3> QED
      BY <3>1, <3>2 DEF Local
  <2>3. pc' = "finding" => FindingOK'
    BY <2>1, <2>2 DEF AskedInv, FindingOK, Steps
  <2> QED
    BY <2>1, <2>2, <2>3 DEF AskedInv, Undisturbed
<1>2. ASSUME pc' \in Ended, table' = table, modules' = modules PROVE AskedInv'
  <2>1. pc' \notin Steps /\ pc' # "finding"
    BY <1>2 DEF Ended, Steps
  <2> QED
    BY <1>2, <2>1 DEF AskedInv, Undisturbed
<1>3. CASE Reject
  BY <1>2, <1>3 DEF Reject, Go, Ended, vars
<1>4. CASE FindTheFunction \/ Finding
  <2>1. CASE pc' \in Steps
    BY <1>4, <2>1, AskedFinding
  <2>2. CASE pc' \notin Steps
    <3>1. Finding /\ step' = "idle"
      BY <1>4, <2>2 DEF FindTheFunction, Finding, Steps
    <3>2. pc' \in Ended /\ modules' = modules /\ Answering
      BY <3>1 DEF Finding, Ended
    <3>3. table' = table
      BY <3>2 DEF Answering, LookUp, ReadStart, RegisterFunction, Finish
    <3> QED
      BY <1>2, <3>2, <3>3
  <2> QED
    BY <2>1, <2>2
<1>5. CASE Analysis
  <2>1. UNCHANGED <<modules, pc, command>> /\ pc = "decompile"
    BY <1>5 DEF Analysis, locals
  <2>2. table' = table
    BY <1>5 DEF Analysis, FindFunction, FindAddr, FindContainer, MapGlobals, CoverVarnode,
       AllCovered, Put, Answering, LookUp, ReadStart, RegisterFunction, Finish
  <2> QED
    BY <1>2, <2>1, <2>2 DEF Ended
<1>6. CASE UNCHANGED allVars
  BY <1>6 DEF allVars, vars, scopeVars, locals, AskedInv, FindingOK, Undisturbed, OnTheWay,
     Wanted, Sought, Around, Starting, Holders, Named
<1>7. CASE FindFunctions \/ LoadName
  <2>1. CASE pc' = "notfound"
    BY <1>2, <1>7, <2>1 DEF FindFunctions, LoadName, Go, vars, Ended
  <2> QED
    BY <1>7, <2>1, AskedName
<1>8. CASE ResolveSymbol \/ SymbolStart \/ ResolveLanguage
  <2>1. CASE pc' = "rejected"
    BY <1>2, <1>8, <2>1 DEF ResolveSymbol, SymbolStart, ResolveLanguage, Go, vars, Ended
  <2> QED
    BY <1>8, <2>1, AskedResolve
<1> QED
  BY <1>1, <1>3, <1>4, <1>5, <1>6, <1>7, <1>8, AskedRead, AskedLoop
  DEF CommandNext, Resolving

(* Unless the target changes the query finds the function that starts at   *)
(* the address, if one does.                                               *)
LEMMA FoundThere ==
  ASSUME ScopeInv, cache = {}, FindingOK, steady = table, step # "called" => symbol \in table,
         command.address \in Offsets, Answering, step' = "idle"
  PROVE  IF \E r \in table : r.code /\ r.first = command.address
         THEN answer'.entry = FunctionAt(command.address) ELSE answer'.entry = Nothing
<1> DEFINE o == command.address
<1>0. /\ asked.query \in Queries /\ asked.offset = o /\ asked.space = CodeSpace
      /\ asked.query = "findFunction" /\ ~Contain(asked) /\ o \in Nat
      /\ Hits(asked) = {} /\ table \in SymbolTables
  BY HitsCached, EntryAssumption
  DEF FindingOK, Question, InCode, Queries, Contain, Mappings, Offsets, ScopeInv
<1>1. ASSUME NEW entry, NEW c, Ends(entry, c) PROVE answer'.entry = entry
  BY <1>0, <1>1, Finished DEF Ends, Answered
<1>2. ASSUME NEW r \in table, r.first = o PROVE r \in Resolve(table, o)
  BY <1>0, <1>2, TableSymbols DEF Resolve
<1>3. CASE LookUp
  <2>1. Resolve(table, o) = {} /\ Ends(Nothing, cache)
    BY <1>0, <1>3, LookUpSteps
  <2> QED
    BY <1>1, <1>2, <2>1
<1>4. CASE ReadStart
  <2>1. Ends(Nothing, cache) /\ step = "resolved" /\ symbol \in table
    BY <1>4, ReadStartSteps
  <2>2. ~(symbol.code /\ symbol.first = o)
    BY <1>0, <1>4, <2>1, ReadStartSteps
  <2>3. \A r \in table : r.first = o => r = symbol
    BY <1>0, <1>2, <2>1 DEF ScopeInv, HeldOK
  <2> QED
    BY <1>1, <2>1, <2>2, <2>3
<1>5. CASE RegisterFunction
  <2>1. step = "placed" /\ symbol \in table /\ symbol.code /\ symbol.first = o
    BY <1>0, <1>5 DEF RegisterFunction, ScopeInv, PlacedOK
  <2>2. PICK start \in Start(symbol) :
          /\ Ends(IF HasMapEntry(start, asked) THEN FunctionAt(start) ELSE Nothing,
                  Registered(start))
          /\ start = symbol.first
    BY <1>5, <2>1, RegisterSteps
  <2>3. HasMapEntry(start, asked)
    BY <1>0, <2>1, <2>2 DEF HasMapEntry
  <2> QED
    BY <1>1, <2>1, <2>2, <2>3
<1> QED
  BY <1>3, <1>4, <1>5 DEF Answering

(* What `decompile' prints is the function that holds the address given, or*)
(* one of the name given, whatever modules are listed, wherever they are   *)
(* loaded and whatever symbols they have, unless the target changes while  *)
(* it is looked for; and an address gets an error only if no function holds*)
(* it.                                                                     *)
THEOREM AskedIsDecompiled == CommandSpec => DecompilesWhatWasAsked
<1> DEFINE n == Sought
           starts == IF n = Invalid THEN Named(command.argument)
                     ELSE {s.first : s \in {h \in Holders(n) : h.code}}
           Right == IF pc' = "decompile" THEN answer'.entry.first \in starts
                    ELSE n # Invalid => starts = {}
<1>1. ASSUME CommandInv, AskedInv, ScopeInv, Finding, step' = "idle",
             command.argument # NoArgument, ~command.changed
      PROVE  Right
  <2> DEFINE query == {x \in {command.address} : \E r \in table : r.code /\ r.first = x}
  <2>1. /\ pc = "finding" /\ Answering
        /\ pc' = IF answer'.entry = Nothing THEN "notfound" ELSE "decompile"
    BY <1>1 DEF Finding
  <2>2. /\ table = TableOf(modules) /\ cache = {} /\ FindingOK
        /\ Wanted(CodeStarts(Starting(command.address)))
    BY <1>1, <2>1 DEF AskedInv, Undisturbed, OnTheWay, Steps
  <2>3. modules \in Lists /\ command.address \in Offsets
    BY <1>1, <2>1 DEF CommandInv, LocalsOK, Steps
  <2>4. query = CodeStarts(Starting(command.address))
    <3>1. ASSUME NEW s \in Starting(command.address), s.code PROVE s.first \in query
      <4> DEFINE e == [name |-> <<s.image, s.file>>, first |-> s.first,
                       last |-> s.last, code |-> s.code]
      <4>1. s \in Located(modules) /\ s.first = command.address
        BY DEF Starting
      <4>2. e \in table
        BY <2>2, <4>1 DEF TableOf
      <4> QED
        BY <3>1, <4>1, <4>2
    <3>2. ASSUME NEW x \in query
          PROVE  x \in CodeStarts(Starting(command.address))
      <4>1. PICK r \in table : r.code /\ r.first = command.address /\ x = r.first
        OBVIOUS
      <4>2. PICK s \in Located(modules) :
              r = [name |-> <<s.image, s.file>>, first |-> s.first, last |-> s.last,
                   code |-> s.code]
        BY <2>2, <4>1 DEF TableOf
      <4> QED
        BY <4>1, <4>2 DEF Starting, CodeStarts
    <3> HIDE DEF query
    <3> QED
      BY <3>1, <3>2 DEF CodeStarts
  <2>5. IF \E r \in table : r.code /\ r.first = command.address
        THEN answer'.entry = FunctionAt(command.address) ELSE answer'.entry = Nothing
    BY <1>1, <2>1, <2>2, <2>3, FoundThere DEF FindingOK
  <2>6. IF query = {} THEN answer'.entry = Nothing
        ELSE answer'.entry = FunctionAt(command.address)
    BY <2>5
  <2>7. FunctionAt(command.address) # Nothing
        /\ FunctionAt(command.address).first = command.address
    BY <2>3, EntryShape DEF FunctionAt
  <2>8. query = {} \/ query = {command.address}
    OBVIOUS
  <2> HIDE DEF query
  <2>9. n # Invalid => starts = query
    BY <2>2, <2>4 DEF Wanted, CodeStarts
  <2>10. n = Invalid => query \subseteq starts
    BY <2>2, <2>4 DEF Wanted
  <2> QED
    BY <2>1, <2>6, <2>7, <2>8, <2>9, <2>10
<1>2. CommandInv /\ AskedInv /\ ScopeInv /\ [CommandNext]_allVars =>
        ((/\ Finding /\ step' = "idle" /\ command.argument # NoArgument
          /\ ~command.changed) => Right)
  BY <1>1
<1>3. CommandInv /\ AskedInv /\ [CommandNext]_allVars => AskedInv'
  BY AskedStep
<1>4. CommandInit => AskedInv
  BY AskedInitially
<1>5. CommandSpec => []AskedInv
  BY <1>3, <1>4, CommandInvHolds, PTL DEF CommandSpec
<1>6. CommandSpec => []ScopeInv
  BY CommandUsesScope, ScopeInvHolds, PTL
<1> QED
  BY <1>2, <1>5, <1>6, CommandInvHolds, PTL
  DEF CommandSpec, DecompilesWhatWasAsked, Sought
=============================================================================
