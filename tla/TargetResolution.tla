-------------------------- MODULE TargetResolution --------------------------
(***************************************************************************)
(* How DoExecute gets from the text after `decompile' to a function: it    *)
(* reads the text as an address, tries it as a load address, then as an    *)
(* address in the file of each module, or else takes it for a name; without *)
(* a text it takes the frame's pc.  It ends with a query of the scope, and *)
(* the analysis queries the same scope from there on.  All the time the    *)
(* target's list of modules may change, between any two calls to LLDB.     *)
(***************************************************************************)
EXTENDS LLDBScope, ArchMap, Sequences

CONSTANTS
  Arguments,    \* the texts a user may give, with what strtoull sees in them
  NoArgument,   \* an empty one
  Invalid,      \* LLDB_INVALID_ADDRESS, the greatest number of 64 bits
  Images,       \* the files of modules
  Extent,       \* of each: its file addresses, the first and the last
  Symbols,      \* of each: its symbols, at file addresses
  Matches,      \* for each text, what FindFunctions finds under that name
  Lists,        \* the lists of modules the target may have
  NoImage,      \* an SBModule that is not valid
  TripleArchs,  \* the architectures of triples
  Asked,        \* bound: the offsets the analysis asks for
  MaxSymbols    \* bound: it asks on while the scope has fewer symbols

(* How a text goes on behind its blanks, and whether anything but blanks   *)
(* follows its digits.                                                     *)
Text == [lead : {"digits", "minus", "letter"}, value : Nat, tail : BOOLEAN]

(* A module of a target: its file, and the load address of its extent.     *)
Module == [image : Images, base : Offsets \cup {Invalid}]

(* Where a file address is in a list of modules, Invalid if it is not.     *)
LoadAddress(list, image, file) ==
  LET here == {k \in DOMAIN list : list[k].image = image /\ list[k].base # Invalid}
  IN IF here = {} THEN Invalid
     ELSE list[CHOOSE k \in here : TRUE].base + file - Extent[image].first

(* The symbols of a list that are loaded.                                  *)
Located(list) ==
  UNION {{[image |-> m, file |-> s.first, code |-> s.code,
           first |-> LoadAddress(list, m, s.first),
           last |-> LoadAddress(list, m, s.last)] : s \in Symbols[m]} :
           m \in {n \in Images : LoadAddress(list, n, 0) # Invalid}}

TableOf(list) ==
  {[name |-> <<s.image, s.file>>, first |-> s.first, last |-> s.last,
    code |-> s.code] : s \in Located(list)}

HoldsFile(image, file) == Extent[image].first <= file /\ file <= Extent[image].last

(* The last load address of a module.                                      *)
Top(m) == m.base + Extent[m.image].last - Extent[m.image].first

ASSUME ResolutionAssumption ==
  /\ Arguments \subseteq Text /\ NoArgument \notin Arguments
  /\ Invalid = MaxOffset + 1
  /\ NoImage \notin Images /\ Asked \subseteq Offsets
  /\ \A list \in Lists : list \in Seq(Module) /\ TableOf(list) \in SymbolTables

(* Symbols lie in their file, a function found by its name does not start  *)
(* in the middle of one, and a module that is loaded has an address for    *)
(* each of the file's.                                                     *)
ASSUME LayoutAssumption ==
  /\ \A m \in Images : /\ Extent[m].first \in Nat /\ Extent[m].last \in Nat
                       /\ \A s \in Symbols[m] : /\ {s.first, s.last} \subseteq Nat
                                                /\ HoldsFile(m, s.first)
                                                /\ HoldsFile(m, s.last)
  /\ \A t \in Arguments : \A m \in Matches[t] :
       /\ m \in Images \X Nat /\ HoldsFile(m[1], m[2])
       /\ \A s \in Symbols[m[1]] : s.first <= m[2] /\ m[2] <= s.last => s.first = m[2]
  /\ \A list \in Lists : \A k \in DOMAIN list :
       LET m == list[k] IN
       m.base # Invalid => Top(m) <= MaxOffset

(* A target lists a module once, and loads each where no other is.         *)
ASSUME ModulesApart ==
  \A list \in Lists : \A j, k \in DOMAIN list : j # k =>
    /\ list[j].image # list[k].image
    /\ Invalid \notin {list[j].base, list[k].base} =>
         Top(list[j]) < list[k].base \/ Top(list[k]) < list[j].base

VARIABLES
  modules,      \* the target's list (external)
  pc,           \* where DoExecute is
  command       \* its locals: argument, decompAddr, i, mod or the symbol's
                \* file, the symbol's address there; and for the properties
                \* whether the list has changed, or shifted, and what of it
                \* has stayed loaded since the command began

locals == <<modules, pc, command>>
allVars == <<vars, locals>>

Ended == {"rejected", "notfound", "decompile"}

CommandInit ==
  /\ modules \in Lists
  /\ Init /\ table = TableOf(modules)
  /\ pc = "start"
  /\ \E t \in Arguments \cup {NoArgument} :
       command = [argument |-> t, address |-> Invalid, i |-> 1, image |-> NoImage,
                  file |-> 0, changed |-> FALSE, shifted |-> FALSE,
                  stayed |-> {modules[k] : k \in DOMAIN modules}]
-----------------------------------------------------------------------------
(* The target, on other threads of the debugger.                           *)
SameOrder(old, new) ==
  \A k \in DOMAIN old : k \in DOMAIN new /\ new[k].image = old[k].image

ChangeModules ==
  /\ modules' \in Lists \ {modules}
  /\ LoadModule /\ table' = TableOf(modules')
  /\ UNCHANGED pc
  /\ IF pc \in Ended THEN UNCHANGED command
     ELSE command' = [command EXCEPT
            !.changed = TRUE,
            !.shifted = @ \/ ~SameOrder(modules, modules'),
            !.stayed = @ \cap {modules'[k] : k \in DOMAIN modules'}]
-----------------------------------------------------------------------------
Go(from, to) == pc = from /\ pc' = to /\ UNCHANGED <<modules, vars>>

(* No target, no process; no thread or no frame to take the pc from.       *)
Reject == Go("start", "rejected") /\ UNCHANGED command

SelectedFrame ==
  /\ Go("start", "resolve")
  /\ command.argument = NoArgument
  /\ \E a \in Offsets : command' = [command EXCEPT !.address = a]

(* parseAddress: the greatest number stands for a failure too.             *)
ParseAddress(text) ==
  IF text.lead = "digits" /\ text.value <= Invalid /\ ~text.tail
  THEN text.value ELSE Invalid

ReadArgument ==
  /\ pc = "start"
  /\ command.argument # NoArgument
  /\ command' = [command EXCEPT !.address = ParseAddress(command.argument)]
  /\ Go("start", IF command'.address = Invalid THEN "name" ELSE "check")

AnySymbolHere == {}                          \* faulty: no load address is known
SymbolHere ==
  {s \in Located(modules) : s.first <= command.address /\ command.address <= s.last}

(* A load address, if LLDB has a symbol there, of whatever type.           *)
CheckLoadAddress ==
  /\ Go("check", IF SymbolHere # {} THEN "resolve" ELSE "module")
  /\ UNCHANGED command

(* The loop over the modules reads their number anew each time, and then   *)
(* the module at an index, which may have gone in between.                 *)
ModuleLeftButLast == command.i < Len(modules)    \* faulty: off by one
ModuleLeft == command.i <= Len(modules)

NextModule == Go("module", "fetch") /\ ModuleLeft /\ UNCHANGED command

EndModules == Go("module", "resolve") /\ ~ModuleLeft /\ UNCHANGED command

(* GetModuleAtIndex and ResolveFileAddress.                                *)
FetchModule ==
  /\ pc = "fetch"
  /\ LET image == IF command.i <= Len(modules) THEN modules[command.i].image ELSE NoImage
     IN IF image # NoImage /\ HoldsFile(image, command.address)
        THEN Go("fetch", "load") /\ command' = [command EXCEPT !.image = image]
        ELSE Go("fetch", "module") /\ command' = [command EXCEPT !.i = @ + 1]

LoadFileAddress ==
  /\ pc = "load"
  /\ LET loaded == LoadAddress(modules, command.image, command.address)
     IN IF loaded # Invalid
        THEN Go("load", "resolve") /\ command' = [command EXCEPT !.address = loaded]
        ELSE Go("load", "module") /\ command' = [command EXCEPT !.i = @ + 1]

(* FindFunctions looks at every module there is, loaded or not; only the   *)
(* first of what it finds is used, and which that is LLDB decides.         *)
FindFunctions ==
  /\ pc = "name"
  /\ LET found == {m \in Matches[command.argument] :
                     \E k \in DOMAIN modules : modules[k].image = m[1]}
     IN \/ /\ found = {} /\ Go("name", "notfound") /\ UNCHANGED command
        \/ \E m \in found :
             /\ Go("name", "nameload")
             /\ command' = [command EXCEPT !.image = m[1], !.file = m[2]]

LoadName ==
  /\ pc = "nameload"
  /\ command' = [command EXCEPT
                   !.address = LoadAddress(modules, command.image, command.file)]
  /\ Go("nameload", IF command'.address = Invalid THEN "notfound" ELSE "resolve")

(* The symbol at the address, then where it starts.                        *)
ResolveSymbol ==
  /\ Go("resolve", "symbol")
  /\ \/ /\ SymbolHere = {}
        /\ command' = [command EXCEPT !.image = NoImage]
     \/ \E s \in SymbolHere :
          command' = [command EXCEPT !.image = s.image, !.file = s.file]

SymbolStart ==
  /\ Go("symbol", "language")
  /\ LET start == IF command.image = NoImage THEN Invalid
                  ELSE LoadAddress(modules, command.image, command.file)
     IN command' = IF start = Invalid THEN command
                   ELSE [command EXCEPT !.address = start]

(* The language id, with a compiler when there is a first module.          *)
ResolveLanguage ==
  /\ \E arch \in TripleArchs :
       Go("language", IF SleighIdFromTriple(arch) = Unsupported THEN "rejected" ELSE "find")
  /\ UNCHANGED command

(* The query that ends it: not one step, like those of the analysis.  The  *)
(* locals are not used any more.                                           *)
FindTheFunction ==
  /\ pc = "find" /\ pc' = "finding"
  /\ FindFunction(InCode(command.address))
  /\ UNCHANGED <<modules, command>>

Finding ==
  /\ pc = "finding"
  /\ Answering
  /\ UNCHANGED modules
  /\ IF step' = "idle"
     THEN /\ pc' = IF answer'.entry = Nothing THEN "notfound" ELSE "decompile"
          /\ command' = NoArgument
     ELSE UNCHANGED <<pc, command>>

Resolving ==
  \/ Reject \/ SelectedFrame \/ ReadArgument \/ CheckLoadAddress
  \/ NextModule \/ EndModules \/ FetchModule \/ LoadFileAddress
  \/ FindFunctions \/ LoadName \/ ResolveSymbol \/ SymbolStart
  \/ ResolveLanguage \/ FindTheFunction \/ Finding

(* What the analysis of the function asks.                                 *)
AskedAddress == [space : Spaces, offset : Asked]

Analysis ==
  /\ pc = "decompile"
  /\ step = "idle" => Cardinality(cache) < MaxSymbols
  /\ \/ \E a \in AskedAddress : FindFunction(a) \/ FindAddr(a)
     \/ \E a \in AskedAddress, n \in Sizes : FindContainer(a, n)
     \/ \E o \in Asked, n \in Sizes : MapGlobals(o, n)
     \/ \E o \in Offsets, n \in Sizes : CoverVarnode(o, n)
     \/ AllCovered
     \/ Answering
  /\ UNCHANGED locals

CommandNext == ChangeModules \/ Resolving \/ Analysis

CommandSpec == CommandInit /\ [][CommandNext]_allVars
-----------------------------------------------------------------------------
(* The symbols a number may stand for: the one that is loaded around it,   *)
(* or else, in the first loaded module with that address in its file, the  *)
(* one around it there.                                                    *)
Holders(n) ==
  LET around == {s \in Located(modules) : s.first <= n /\ n <= s.last}
      Holds(k) == modules[k].base # Invalid /\ HoldsFile(modules[k].image, n)
  IN IF around # {} THEN around
     ELSE {s \in Located(modules) :
             /\ s.file <= n /\ n <= s.file + s.last - s.first
             /\ \E k \in DOMAIN modules :
                  /\ modules[k].image = s.image /\ Holds(k)
                  /\ \A l \in 1 .. k - 1 : ~Holds(l)}

Named(text) ==
  {LoadAddress(modules, m[1], m[2]) : m \in Matches[text]}

(* What is decompiled is the function that holds the address given, or one *)
(* of the name given, unless the target changes while it is looked for;    *)
(* and for an address there is an error only if no function holds it.      *)
DecompilesWhatWasAsked ==
  [][(Finding /\ step' = "idle" /\ command.argument # NoArgument /\ ~command.changed) =>
       LET n == ParseAddress(command.argument)
           starts == IF n = Invalid THEN Named(command.argument)
                     ELSE {s.first : s \in {h \in Holders(n) : h.code}}
       IN IF pc' = "decompile" THEN answer'.entry.first \in starts
          ELSE n # Invalid => starts = {}]_allVars

(* The loop does not miss a module: one that stays loaded all along, in a  *)
(* list that others join only at the end, is found by its file's address.  *)
LoadedModuleFound ==
  [][(EndModules /\ ~command.shifted) =>
       \A m \in command.stayed :
         m.base # Invalid => ~HoldsFile(m.image, command.address)]_allVars
=============================================================================
