# lldb-ghidra: a TLA+ model of the decompiler plugin

This directory holds TLA+ modules, TLC configurations and TLAPS proofs for the
repository beside it: an LLDB plugin (`src/src`, 1286 lines of C++) that adds the
command `decompile` to the debugger by linking Ghidra's decompiler library
(`src/third_party/ghidra-decompiler`, vendored with patches). Paths below are
relative to the repository's root, `src/`, and `G/` stands for
`third_party/ghidra-decompiler/`.

Contents: [the system](#1-the-system) · [modules](#2-modules) ·
[runs](#3-runs) · [divergences found](#4-where-code-and-comments-disagree) ·
[proofs](#5-proofs) · [limits](#6-limits) · [plan](#7-plan) ·
[using it](#8-using-it)

## 1. The system

A user types `decompile <address or symbol>`. LLDB calls
`DecompileCommand::DoExecute`, which takes a process-wide recursive mutex, resolves
the argument to an address and the target's triple to a Sleigh language id, builds
an `LLDBArchitecture` (a `ghidra::SleighArchitecture` whose load image, global
scope, type factory and comments are backed by LLDB), looks the function up in the
scope, performs the decompilation actions on it and prints C. While all this
happens, the debugger's other threads may run the process, load and unload
modules, load the plugin into a second debugger, or start a second command.

| component | state it keeps | operations | what is hard | what makes it correct |
|---|---|---|---|---|
| plugin and command (`src/Plugin.cpp`, `src/DecompileCommand.cpp`) | `decompiler_mutex`; a call stack per thread; the commands registered | `PluginInitialize`, `DoExecute` | eleven returns and every exception must give the mutex back; initialization takes no lock; commands nest through scripts | the mutex is balanced; a command uses only its own Architecture and its own language; entry points return |
| Sleigh library (`G/sleigh_arch.cc`, `G/libdecomp.cc`, `G/filemanage.cc`) | three static members: `specpaths`, `description`, `translators` | collect, match, build, reuse, reset, initialize | static state outlives the Architectures it points into; every step may throw in its middle | indices stay valid; a reused object is rebound before it is used |
| LLDBArchitecture (`src/LLDBArchitecture.cpp`, `G/architecture.cc`) | loader, scope, types, context of one command | construction, `init`, destruction | order of initialization, errors half way | nothing points into it after its destruction that a later command reads |
| LLDBScope (`src/LLDBScope.cpp`, `G/database.cc`) | `cache`, a ScopeInternal | `findFunction`, `findAddr`, `findContainer`, `registerFunction`, `queryLLDB` | const queries that fill a cache, each of several calls to LLDB; what the target loads changes between them | a query answers as if it were one step; one Funcdata per address; no variable on a function |
| LLDBLoadImage (`src/LLDBLoadImage.cpp`) | none, but two handlers of several LLDB calls each | `getReadonly`, `loadFill` | modules shift under an index loop; two reads with a running process between them | only read-only memory is taken for constant; no uninitialized byte and no mixture of two moments is returned |
| range lists and property maps (`G/address.cc`, `G/partmap.hh`, `G/database.cc`) | a set of disjoint ranges; a map from split points to flags | `insertRange`, `removeRange`, `inRange`; `split`, `getValue`, `setPropertyRange` | neighbours on both sides, ends, empty pieces | exactly the right addresses are covered and flagged |
| ArchMap (`src/ArchMap.cpp`) | none | triple to language id, with a compiler | text | the id is that of the target |
| type factory, comments (`src/LLDBTypeFactory.cpp`, `src/LLDBCommentDatabase.cpp`) | none of their own | delegation | – | – |
| C printer (`src/EmitAnsi.cpp`, `src/LLDBPrintC.cpp`, `G/prettyprint.cc`) | a circular queue of tokens, a second one of references into it, a stack of margins | some thirty calls of the printer of C; scan, print, flush, clear, expand | queues that grow and wrap while references point into them; a brace held back until the next line | every token is printed once, in order; the margin is kept; groups that fit stay whole |
| action engine (`G/action.cc`) | per action: status, breakpoints, counts; group, pool and restart positions; the current tree | `perform`, `reset`, `apply` of groups, restart groups, pools and rules | interruption and continuation, restarts, repetition; a second tree performed inside the first; exceptions | an action ends only at its fixpoint or stops at a breakpoint and continues there; a function goes through every action, once where that is asked |
| the rest of the library (`G/*.cc`) | one function's data-flow graph | some two hundred transformations | – | – |
| LLDB (external) | targets, modules, processes, symbols | the SB API | changes between any two calls | – |
| specification files, scripts | data (AARCH64 and x86 only) | – | – | – |

Interaction. `DoExecute` constructs and destroys the Architecture; the Architecture
reads and writes the static members through `SleighArchitecture`; the Sleigh object
reads bytes through the loader and writes the context of the Architecture it was
last reset to; actions query the scope, which queries LLDB and grows; `init` passes
the list of `getReadonly` to `Database::setPropertyRange`. Shared by all threads are
the static members, the mutex and LLDB's own objects; everything else belongs to
one command.

The hazards this leads to, each at its line and with the properties that watch it,
are listed in `PROJECT.json` under `hazards`.

## 2. Modules

```
DecompileCommand ── EXTENDS ── SleighLibrary
      │
MCDecompileCommand, DecompileCommand_proofs

TargetResolution ── EXTENDS ── ArchMap, LLDBScope ── INSTANCE ── ScopeLookup (abstract)
      │                                     └── EXTENDS ── DebugSymbols ──┘
MCTargetResolution, TargetResolution_proofs (MCLLDBScope: the scope alone)

LLDBLoadImage ── EXTENDS ── RangeList, PropertyMap     RangeTree ── EXTENDS ── RangeList
      │                                                    │
MCLLDBLoadImage, LLDBLoadImage_proofs                  RangeTree_proofs
                       └──────── EXTENDS AddressMaps_proofs ────────┘

EmitPrettyPrint ── EXTENDS ── CircularQueue            ActionEngine
      │  └────── INSTANCE ── TokenStream (abstract)        │
MCEmitPrettyPrint, EmitPrettyPrint_proofs              MCActionEngine, ActionEngine_proofs
                        └── EXTENDED BY TokenQueue_proofs
```

The components meet at calls of `DoExecute`: DecompileCommand has the whole call with
`ResolveTarget` and `Perform` as single steps; TargetResolution is the inside of the
first, ActionEngine the inside of the second, and EmitPrettyPrint of `PrintFunction`.

**SleighLibrary** – operators on the values of the static members. A `.ldefs` file
is the sequence of language ids it declares; an entry of `description` is its id and
whether its compilers were decoded; a translator is the state of its decoding, its
language and the Architecture it points to (`serves`). `LoadOutcomes` has the ways
`loadLanguageDescription` can end: skipped, complete, or thrown out of after some of
its entries, the last of them half decoded, because `emplace_back` precedes `decode`: without
an id, with one and no compiler, or with one and a compiler that is half decoded itself.

**DecompileCommand** – the state machine that owns these values. `stack[t]` holds the
entry points thread `t` is inside, innermost last, so that a script run by LLDB
inside one command can start another one (the mutex is recursive); the frame at
depth `d` owns the Architecture `<<t, d>>`. There is one action per stretch of code
between two points where something can fail, block or be interleaved:

| action | code |
|---|---|
| `PluginInitialize`, `StartLibrary`, `AddCommand` | `Plugin.cpp:19-65`, `libdecomp.cc:20-30` |
| `CollectSpecFiles`, `LoadLanguageDescription`, `SpecFilesLoaded` | `sleigh_arch.cc:121-150, 451-461`, from both entry points |
| `DoExecute`, `Lock` | `DecompileCommand.cpp:60-62` |
| `ResolveTarget` | `DecompileCommand.cpp:64-195`: an error or a language |
| `ResolveArchitecture`, `BuildSpecFile` | `sleigh_arch.cc:323-421` |
| `BuildSharedTranslator` | `architecture.cc:624-629`, `sleigh_arch.cc:174-187` |
| `InitializeTranslator` | `sleigh.cc:555-579`, `sleighbase.cc:338-379` |
| `Configure` | the rest of `Architecture::init`, `architecture.cc:1391-1414` |
| `FindFunction`, `Perform`, `PrintFunction` | `DecompileCommand.cpp:203-245` |
| `Leave`, `Return`, `Fail` | every way out: Architecture destroyed, guard released |
| `Crash` | the data race on the vectors, undefined behaviour |

`process` is "terminated" after an exception no handler takes and "crashed" after
undefined behaviour; nothing happens then but the stuttering step `Dead`, so that
TLC's deadlock check stays on and finds a system that waits on itself.

**DebugSymbols** – what the plugin asks LLDB about symbols (external), the shape of
scope entries, and the questions put to a scope. **ScopeLookup** – the abstract
specification of a scope, in which a question is answered in one step: by what has come
to light (the functions found by earlier questions, and the variables mapped), the
smallest around the range when a container is asked for; only if none of these will do,
by the function LLDB has there. So the order of the questions shows: a variable mapped
over a function nobody has come across is answered in its place. A function LLDB gives has to be
around the first byte of the range only; after a miss in the cache the code does not
look at the size any more. **LLDBScope** – the scope as written. A question is put
(`FindFunction`, `FindAddr`, `FindContainer`, or by the clients below) and answered in up
to three steps, with modules coming and going between them:

| action | code |
|---|---|
| `LookUp` | the cache, `G/database.cc:2227-2343`; on a miss the symbol at the offset, `LLDBScope.cpp:61-73` |
| `ReadStart` | the symbol's load address and type, `LLDBScope.cpp:75-80` |
| `RegisterFunction` | `registerFunction`, which reads the address again, and `getMapEntry`, `LLDBScope.cpp:29-59, 81-125` |

Its clients put variables in the same cache: `MapGlobals` is one round of
`Funcdata::mapGlobals` (`G/funcdata_varnode.cc:1655-1718`), which asks for the container
of the first byte, adds a variable when there is none, throws when only a part of the
variable is in the global scope (`NoScope`), and, when the entry it gets is too short,
leaves varnodes inside it to `CoverVarnode` (`coverVarnodes`, 1608-1629), which asks with the
full size of each and adds more variables. `steady` and `lately` are history: which
symbols LLDB has had all the time since the question was put, and at any time.

**ArchMap**, **TargetResolution** – the way from the text behind `decompile` to a
function, composed with the scope. `pc` is where `DoExecute` is between two calls to
LLDB and `command` holds its locals; `ChangeModules` is the target, which may change
its list of modules before any of these calls. A text is what `strtoull` makes of it
(what it begins with, the number, whether anything follows), a module its file and
the address its extent is loaded at, a symbol its file address. The table of ArchMap is checked
against the specification files that are shipped: MCTargetResolution assumes, and TLC
evaluates, that every compiler it can answer is one the language declares.

| action | code in `DecompileCommand.cpp` |
|---|---|
| `Reject`, `SelectedFrame`, `ReadArgument` | 64-94 and 137-150; `parseAddress`, 38-58 |
| `CheckLoadAddress` | 94-99: has LLDB a symbol at this load address? |
| `NextModule`, `EndModules`, `FetchModule`, `LoadFileAddress` | 101-111: the loop over the modules, whose number is read anew each time |
| `FindFunctions`, `LoadName` | 115-136: a name |
| `ResolveSymbol`, `SymbolStart`, `ResolveLanguage` | 152-195 |
| `FindTheFunction`, `Analysis` | 203-215: the scope's `findFunction`, and what the analysis asks of it from there on |

`changed`, `shifted` and `stayed` in `command` are history, for the properties: whether
the list has changed since the command began, whether a module has changed its index,
and which modules have stayed loaded.

**RangeList**, **PropertyMap** – the pure operators of `RangeList` and of
`Database::flagbase`, translated from the loops over `std::set` and `std::map` to
the sets those loops visit. **RangeTree** – any sequence of insertions and removals
beside the set of addresses it should stand for. **LLDBLoadImage** – `getReadonly`,
call by call, followed by `Architecture::fillinReadOnlyFromLoader`, and `loadFill`
with its two reads; `LoadModule`, `UnloadModule` and `RunProcess` are the target and
may happen between any two calls. A byte of the buffer is modelled by where it comes
from: the caller's memory, the process at its n-th stop, an object file, or a zero.

**CircularQueue**, **TokenStream**, **EmitPrettyPrint** – the printer's queue, what a
printer promises about a stream of tokens, and the printer itself. PrintC, which
knows C, is left out: it is any source of calls that closes what it opened and
starts and ends with a function (`BeginFunction` … `Flush`). `Call` turns a call into
the tokens it queues; the printer then takes them one at a time, in phases:

| phase | code in `G/prettyprint.cc` |
|---|---|
| `idle` with tokens to do | `scan`, 741-803: `ScanBegin`, `ScanEnd`, `ScanBreak`, `ScanQuiet`, `ScanString`, each with the growth of the queues before it |
| `advance`, `forced` | `advanceleft`, 711-731: `LetGo` lays one token out with `print`, 613-700 and `overflow`, 582-610 |
| `force` | the loop for text that does not fit, 794-802 |
| `flush` | `flush`, 1194-1211 |

A token is its class, width, spaces, bump and whether it is a line of its own. The
low-level emitter (`EmitAnsi`) is `column`, where it stands on its line: colour codes
have no width. `unit` is history: per group, whether it fitted on its line when it
began and whether a line has been broken inside it since.

**ActionEngine** – a stack machine of `perform`s. A frame is an action and where its
perform is: `perform` (at the switch on its status), `next` (inside `apply`, before
the next member, op or rule), `returned` (a member's perform has come back), `applied`
(its own apply has), `staging` (inside `stageJumpTable`). `Decompile` is
`DoExecute`, lines 213-219; `Continue` is the console's `continue`, which uses the
same engine; the plugin itself sets no breakpoints and makes a new Architecture for each command. One
action per branch of `Action::perform` (298-362), `ActionGroup::apply` (506-527),
`ActionRestartGroup::apply` (553-582), `ActionPool::processOp` and `apply` (825-888).
`StageJumpTable` starts a second tree on a partial function (`G/funcdata_block.cc:494-518`)
and makes it the current one; `Throw` is a LowlevelError out of any leaf or rule, with
the handlers that put things back or do not. What an action does to its function is
kept only as far as the engine can tell: whether it reports a change, whether it asks
for a restart, and the codes of the ops a pool goes through, which rules may change,
kill or create. A change may count for more than one; actions and rules may ask for a restart
(`G/action.hh:166-171`), although no rule of the library does. `made`, `settled`, `applied` and `restarts` are history.

**MC…** modules give the constants their values. Operators whose comment says
`faulty:` are variants with a plausible mistake. They take no part in any
specification; substituted for the correct operator beside them, each makes some run
fail, which shows that the property named in `PROJECT.json` under `mutants` can fail.

## 3. Runs

| run | question | bounds | states |
|---|---|---|---|
| `commands_two_threads` | two debuggers in one process load the plugin and issue commands in any interleaving: does every command find the shared state it needs and come back? | 2 threads, no nesting, one scan, languages x86 and arm (the latter without a file), one file | 44 616 |
| `commands_nested` | one debugger whose commands nest: who owns the Sleigh objects, and is the mutex still balanced? | depth 2, two scans (files then appear twice in the vector), two files, three languages | 186 934 |
| `scope` | does a command find the function it was asked for, and is a query of the scope answered as in one step, in every order of queries and mapped variables, while the list of modules changes between any two calls to LLDB? | three modules in five lists, 13 arguments, questions at three offsets, entries of two bytes, two spaces, ranges of one and three bytes, four offsets in the global scope, two overlapping symbol tables, no new question once there are four symbols (`MaxSymbols`) | 229 860 |
| `image` | are the marked ranges and the bytes right while the target changes under the calls? | two modules with five sections, three bases, seven addresses, reads of one and three bytes, three changes of the target | 132 424 |
| `range_tree` | does a range list cover what it should? | six addresses | 233 |
| `printer` | is every token laid out once, in order and within the margin, for any nesting of calls, through wrap-around and growth of the queues? | lines of 4, queues of 4 that grow by 2, texts of 2 and 3, two delimiters open, a function of up to 4 columns of tokens before it has to close, six repertoires of kinds of calls | 399 511 |
| `actions` | does a tree of actions reach its fixpoint and come back, whatever is interrupted, continued, restarted, nested or thrown out of? | the shape of `universalAction` in 8 actions and 2 rules, 2 ops of 2 codes, 2 changes, 1 restart, 1 jump table, 2 decompilations, breakpoints at one place at a time | 1 281 338 |

What the passing runs check:

- `TypeOK` in each of them. It carries more than types where the code relies on it:
  no translator has an index beyond `description`; no range of a list is empty;
  the ids of cached symbols are dense, as `nextUniqueId` makes them.
- `MutexBalanced`: the recursion count equals the number of frames that hold the
  mutex, through all returns and exceptions. `EntryPointReturns` is its liveness side.
- `TranslatorServesRunner`: a command past `buildTranslator` decodes with an object
  that points to its own Architecture, although the object is shared and was last
  used by another. It needs `MaxDepth = 1`: after a nested command returns, the outer
  one goes on with an object that dangles. `LoaderLives` is what remains true with
  any nesting: an object either dangles or points into a live Architecture that is
  bound to that very object.
- `DecodesTargetLanguage` and `DescriptionAppendOnly`: the vector index computed in
  `resolveArchitecture` still means the same language when it is used, although
  `PluginInitialize` grows the vector without a lock.
- `ImplementsLookup`: LLDBScope implements ScopeLookup, with the functions found and the
  variables read off the cache. It says that the cache gives the smallest entry around
  the range, that a query in another space than the code's finds nothing though LLDB is
  asked by offset only, and that three calls to LLDB with module changes between them
  answer what one call could have: a symbol that LLDB has all that time settles the
  answer. It does not say that the cache is invisible, which is false (section 4).
  `OneFunctionPerAddress` and `NoGlobalOnFunction` are the two facts about the cache
  that the analysis depends on most.
- `MarkedWasUnwritable`, `UnwritableIsMarked`, `VolatileKept`, `RangesDisjoint`: what
  is marked was read-only at some moment since the loop began; what was read-only all
  the time is marked, provided no module was unloaded meanwhile (an unload shifts the
  indices and a module that stays may be skipped); the processor specification's
  volatile ranges survive; the list stays disjoint even when a module is loaded
  across the place of one that is gone.
- `BufferDefined`, `OneSnapshot`: no byte of the caller's uninitialized buffer
  survives and no result mixes bytes of two stops. `Returns`: the loop ends.
- `DecompilesWhatWasAsked`: the function decompiled holds the address given, as a load
  address or else in the file of the first loaded module that has it, or bears the
  name given; there is an error for an address only if no function holds it. It is stated for targets
  that do not change meanwhile: when they do, the address read before the change is
  looked up after it, and nothing ties the two. `LoadedModuleFound` is what holds
  even then: the loop by index does not miss a module that stays, as long as others
  only come behind it. When an earlier one is unloaded, it may.
- `ScanqueueIsOpenTokens`, `NothingWaitsUnscanned`, `ExpandsWithOpenTokens`: the second
  queue refers to exactly the tokens whose width is open, in order, through wrap-around
  and expansion; no text waits that nothing refers to; `expand` is never called on an
  empty queue, which it would turn into a full one. `InOrder` is the refinement of
  TokenStream, `FunctionPrinted` its liveness side: all of a function comes out.
  `FlushesClean` is what the code checks under `PRETTY_DEBUG`.
- `SpaceIsReal`, `WithinMargin`, `UnitsStayWhole`: what the printer thinks is left of a
  line is left; text of at most half a line stays inside the margin at any depth; no
  line is broken in a group that fitted.
- `FixpointReached`: a repeated action returns only when everything within it has been
  tried since the last change, breakpoints or not. `NoChangeForgotten`: its result
  counts all changes, also those before an interruption. `OncePerStart`: a function
  that was decompiled went through every action, just once where that is asked,
  although an earlier one was interrupted or ended in an error with another tree
  current. `RestartHonoured`: a request to restart is dropped only when the restarts
  are used up. `PerformReturns`: a perform ends, if the changes a function admits are
  finite.
- `TreeCovers`, `BytesAgree`: see the module.

**Why the bounds are enough.** The shared state of the commands has one slot per
language index and refers to at most one Architecture per frame, so two parties (two
threads, or two levels of one thread) are enough for one to disturb the other; two
scans give a vector with repeated ids, which is where the first match matters. The scope's
mistakes need one function and one address inside, at and outside its entry, in both
spaces, and variables small enough to lie in an entry and large enough to reach over one;
questions at three offsets, with what their ranges reach, have room for two functions and for a
second table whose function straddles them. The image needs a module loaded where part of another was (bases 0 and 1) and one clear of both (base 4); an unload
and a load under the loop, with one change of the process left, are three events;
three bytes are the least that can be read in three parts. Six addresses hold two
ranges with a gap that a third fills, touches or overlaps. For the resolution, a file
address must be free in one module and loaded in another, a module must be listed and
not loaded, one must hold an address and have no symbol there, and lists must grow
behind and shift; the five lists do that. The printer's queues must wrap, grow and be
drained by force, which takes tokens for a little more than one line of a queue as
small as the line; the 300 slots of the code make growth rare, not different.
`MaxQuiet` bounds the delimiters that close or mark in a row below the size of a queue,
less one: with more than that, about 300 in the code, `expand` would meet an empty
`scanqueue`, which is why the proofs about the queues assume it too, for any size. A
wrong count in the engine shows with two ops (one to change, one to be tried again),
two rules (one to break at, one behind it), and a change left for after the continuation. The range lists,
the image, the scope, the loop over the modules and part of the printer and of the
engine do not rest on these bounds: section 5 proves them for all.

`scope`, `actions` and `printer` do without TLC's deadlock check, as each of these systems
really stops: a command that has been rejected or has found no function, with the list of
modules no longer of interest; the engine's client after `MaxPerforms` decompilations; PrintC
after its last function. The other runs keep the check.

**Fairness.** `FairSpec` of DecompileCommand has `WF_vars(Step(t))` for each thread: a
thread inside an entry point is scheduled, LLDB's calls and the decompiler's actions
return. It obliges no user to issue a command, and it does not promise the mutex to a
particular waiter: `std::recursive_mutex` does not either, so `EntryPointReturns`
speaks of threads that are not in the `lock_guard`. `FairSpec` of LLDBLoadImage has
`WF_vars(Step)`, for the command's own thread only; the target never has to change.
EmitPrettyPrint has `WF_vars(Printer)` and ActionEngine `WF_vars(Engine)`: once called, both
run in the caller's thread without waiting for anybody; PrintC and the user are under no
obligation, except that `FunctionPrinted` starts when PrintC has ended a function.
That a single action or rule of the analysis returns, and makes finitely many changes, is
assumed (`MaxChanges`).

## 4. Where code and comments disagree

Five runs expect a violation: each checks a sentence of the repository's comments
against what the code does. TLC's counterexample is the shortest way there.

- `reuse_after_failure`: `isTranslateReused` promises an object that "can be reused"
  (`sleigh_arch.cc:164-167`) but answers true as soon as the index is in the map, and
  the object enters the map before `initialize` has run. After one failed
  initialization every later command for that language skips the `<sleigh>` tag and
  fails, even if the `.sla` file has been repaired.
- `uncaught_error`: `error.hh:70` calls LowlevelError the base of all exceptions the
  decompiler throws, and `DoExecute` catches it and `std::exception`; `DecoderError`
  (`xml.hh:298`) derives from neither. A malformed `.pspec`, `.cspec`, `.sla` or
  `.ldefs` file ends the debugger.
- `retried_plugin_load`: after a `PluginInitialize` that failed within a `.ldefs` file,
  the vector is not empty, and the next attempt takes it for a complete one
  (`Plugin.cpp:31`, "Ensure language descriptions are loaded").
- `hidden_function`: `findContainer` promises "the smallest Symbol containing the given
  memory range" (`database.hh:623`). A variable that `mapGlobals` has put over a function
  nobody has asked for is in the cache, so it is answered at the function's address, and
  LLDB is never asked (`LLDBScope.cpp:105-106`). Had the function been queried first, its
  smaller entry would be answered. (After a miss, on the other hand, the size is not
  looked at: the entry answered may be smaller than the range, `LLDBScope.cpp:108-110`;
  ScopeLookup has this as it is.)
- `unavailable_memory`: `loadimage.hh:30` describes the exception for load image data
  that cannot be had; `loadFill` fills with zeros instead, so the handlers for it are
  dead code and zeros are analysed as data.

## 5. Proofs

`tlapm` checks every proof to its leaves. All theorems hold for every value of the
constants that satisfies the named assumptions, which TLC evaluates in the runs:
`LanguagesAssumption`, `SpecFilesAssumption` (null values are no languages; files are
sequences of languages), `ThreadsAssumption`, `BoundsAssumption`,
`DanglingAssumption`; `SectionAssumption` (sections lie within the address space, the
first flags are volatile only, as in `AARCH64.pspec`, the one shipped specification
that sets any); `OffsetAssumption`; `EntryAssumption`, `SpaceAssumption`, `NothingAssumption`,
`TableAssumption`, `SizesAssumption` (symbols do not overlap, and a code symbol holds an
instruction); `ResolutionAssumption`, `LayoutAssumption` (symbols lie in their files, a
loaded module fits below LLDB_INVALID_ADDRESS, a function found by its name starts in its
file) and `ModulesApart` (a list has a module once, and what is loaded does not overlap);
`PrinterAssumption` (`expand` adds some slots; fewer delimiters that only close follow
each other than a queue has slots, see section 3); `ActionsAssumption`,
`TreesAssumption` (trees as they are built: below an action are itself and what is below its
members, an action within another is that one or in a list within it, `addAction` is called
once for an action, the two trees have no action in common, only roots restart, and each
constructor passes one flag: no leaf has two, groups and pools within a root are built with
`rule_repeatapply` if with any, the root "universal" with `rule_onceperfunc`).

**DecompileCommand_proofs.** `TypeCorrect`, `MutexIsBalanced`, `LoadersLive`,
`TargetLanguageDecoded`, `DescriptionGrows`, `UnnestedIsServed`. None of the invariants is inductive
alone. The inductive one is

    IInv == TypeOK /\ StacksValid /\ TranslatorsMatch /\ MutexBalanced /\ LoaderLives

`StacksValid` says what a frame's program counter promises: only the innermost frame
of a thread may wait or be inside `PluginInitialize`, and a frame past
`resolveArchitecture` has an index within `description` whose entry has the frame's
language. `TranslatorsMatch` says that a translator was made for the language at its
index. `MutexBalanced` is needed for itself: `Unlocked` subtracts one, which is right
only if the leaving thread is the owner. `LoaderLives` needs that a frame that leaves
takes its Architecture out of every translator (`Orphan`) and that a frame entering
cannot own an Architecture yet. Most actions only advance the innermost frame or pop
it, so the lemmas `AdvanceInvariant`, `MoveInvariant` and `LeaveInvariant` do the work
once; the lemma of each action shows that it is of that form. `TargetLanguageDecoded` then
follows from the conjuncts, and `DescriptionGrows` is a step property from `IInv`.
`UnnestedIsServed` assumes that commands do not nest (`MaxDepth = 1`); its lemma
`StepShape` sorts the steps into those that move a frame, leave it, or build a translator,
and `OneHolder` says that only the holder of the mutex touches the translators.

**AddressMaps_proofs.** `InsertRangeCovers` and `RemoveRangeCovers`: for any disjoint set of
ranges, finite or not, the result is disjoint and covers what it should. The key is
`TouchedMeets`: what the two iterators enclose, though found from starts alone, is exactly the
set of ranges that meet the new one. `PropertyRangeRaised`: for any map, `setPropertyRange`
adds its flags inside the range and changes no value outside. It rests on `SplitKeeps`
(a split changes no value) and `RaisedBetweenSplits`. **RangeTree_proofs** makes the first
two steps of an induction (`TreeCoversOwned`, with `TreeTypes`) and adds
`MembershipIsExact`: looking at one range is enough for a single address.

**LLDBLoadImage_proofs.** `TypeCorrect`, `ListDisjoint`, `MarkedOnlyUnwritable`,
`VolatileIsKept`, `BufferIsDefined`, `SnapshotIsOne` and `UnwritableAllMarked`, from

    IInv == TypeOK /\ ImageInv /\ ReadInv

`ImageInv` adds to `RangesDisjoint` that the list to go through is empty until it is
handed over and that every address in the list or marked in the map has been unwritable
since the loop began; `ReadInv` says, for each point of
`loadFill`, what the buffer holds below and above `bytesRead`. The insertion step cites
`InsertRangeCovers`, the marking step `PropertyRangeRaised`. `UnwritableAllMarked` adds
`NoneMissed`: while no module is unloaded, a byte that has always been unwritable is in a
section the loop has still to reach (below `numModules`, as modules only come behind it), or in
the list, or in what `fillinReadOnlyFromLoader` has still to go through, or marked.

**TargetResolution_proofs.** First the scope alone. `ScopeInv` says that the cache's ids
are dense, that it has at most one function for an address, with the entry `FunctionAt`
gives it, and what the question in progress holds: a symbol LLDB has had since it was
put, around the address, beside which no other symbol there has stayed all that time; and
once its start has been read, that it is code. From it follow `ScopeTypeCorrect`,
`FunctionsStayUnique`, `GlobalsMissFunctions` and, step by step, that LLDBScope implements
ScopeLookup (`ScopeImplementsLookup`): putting a question is `Ask`, the step that ends it
is `AnswerInLight` or `AnswerFromLLDB`, and those between stutter. The argument rests on
`OneAround`, that symbols do not overlap, so that a symbol which stays is the one LLDB
resolves, on `StartStays` and `StartMoves`, what the second and third call can see of it, and on `InLightIsHits`,
that the cache's candidates are those of what has come to light. Then the command:
`CommandInv` has the types of the locals (an address in use is one of the process, a
file address one of the file at hand) and, for the loop over the modules, that of the
modules behind the index none that has stayed loaded holds the address. It gives
`CommandUsesScope`, that every behaviour of a command is one of the scope, hence
`CommandKeepsScope`; and `StayingModuleFound`. `AskedIsDecompiled` is about what is looked
up in the end, while the list of modules stays as it was. Its invariant `AskedInv` (with
`OnTheWay`) follows the argument through `DoExecute`: for a number, it is the address at hand
until a symbol is found, and no symbol is around it as a load address once the modules are searched; for a
name, the file and the offset at hand are those of a match; once there is a load address, the
functions around it, and later those that start at it, are the ones asked for. That one
address belongs to one symbol of one module needs `ModulesApart`; and the scope's cache is
still empty when the command asks it, so its answer is LLDB's.

**EmitPrettyPrint_proofs.** `PrinterTypes`, `SpaceIsWhatIsLeft`, `TextStaysWithinMargin`, from

    IInv == QueuesOK /\ LayoutOK /\ CallsOK /\ PhaseOK

which says that both arrays have the same size and their indices within it, that a reference
in `scanqueue` is a slot of `tokqueue`, that no margin kept in `indentstack` exceeds the line,
and that the width used plus the space that remains is the line. That a line begun for text
that does not fit leaves at least half of it is a fact about `Relieved`. The modular arithmetic of the circular queue is in lemmas about `Pushed`, `Popped`, `BottomPopped`
and `Expanded`.

**TokenQueue_proofs.** The two queues and what comes out of them, for queues of any size.
Slots of a circular array come first (`Holds`: from its left end an array holds a given
sequence), then what each operation of CircularQueue does to that sequence, then the invariant

    QInv == QueuesHold /\ PhasesHold /\ CallsHold

`QueuesHold`: scanqueue holds, in order, the slots of exactly those waiting tokens whose
size is not known, and each of these is a group or white space whose size still is the
negated total it came at. `PhasesHold`: when every size is known and the printer is idle, what waits is
quiet, that is, delimiters that only close or mark, no more than `quiet` counts; text is not among it.
`CallsHold` is about the tokens the call in progress has yet to queue: each text finds a group
or white space open before it, in the queue or in the call itself. None of
`ScanqueueIsOpenTokens`, `NothingWaitsUnscanned` and `ExpandsWithOpenTokens` is inductive
alone: `expand` moves every token and rebases every reference, and that it does not meet an empty
`scanqueue` rests on the count of quiet tokens, hence on `MaxQuiet`. Theorems:
`ScanqueueRefersToOpenTokens`, `NothingWaits`, `ExpandsNonempty`. `PrintsInOrder` is the
refinement, step by step: `Scan` is `Accept`, `ForceBreak` is `Settle`, each token let go is
`Emit`, `Clear` is `Abandon`, and every other step stutters. `FlushedClean` adds `NestInv`: the delimiters
printed and still open, as many as `indentstack` is deep and with a comment among them in
comment mode, lead, token by token through what waits and what the call has yet to queue,
to `nesting`, which is what PrintC has open.

`UnitsPrintedWhole`, that no line is broken in a group that was measured to fit on it, needs
what the sizes say of the layout, from the units printed open through what waits to what
PrintC has open:

    UnitInv == \E mid : Nests(todo, mid, nesting) /\ Reaches(Waiting, unit, spaceremain, mid, rightotal)

For the tokens that wait `Reaches` gives, after each of them, the levels open (`d`), those
of them that are groups (`g`) and the width taken in (`tot`), and says of these what
`Measured` lists:

- `Shaped`: they follow from the classes and widths of the tokens; a level stays what it is
  while it is open, and was opened somewhere; the width only grows.
- `Awaited`, `Stacked`, `Alternating`: a token with no size is a group or white space whose
  group is still open and holds the negated width it came at; groups opened inside it and
  still open have no size either; between two pieces of white space with no size there is
  a group. So the two sizes one `Scan` may settle are the ones that are due.
- `GroupsMeasured`: a group's size is at least its width, up to some token at which it is
  closed, unless it was given `HardBreak`.
- `BreaksMeasured`: the size of white space is at most the width to wherever a group around
  it is closed, and to the last token that waits, unless nothing around it is printed as a
  unit (`NoUnit`).
- `UnitsFit`: a unit already begun is a group, not torn, and closed by a token that waits
  and still fits on the line.

So white space let go inside a unit has a size of at most the width to where the unit ends,
which is no more than the space that remains. `NoUnit` is for the loop for text that does not
fit: it gives `HardBreak` to the oldest token with no size. If that is white space, every
group around it that waits was opened earlier and is still open, so it has been given
up itself, and every group around it that is printed open is no unit, or it would be closed
by now. `Scan` settles white space when more of it comes in the same group, before that group ends, and its
size is then too small rather than too large. That all of this is about one total is `OpenSizes`: `Scan`
resets `rightotal` only when no token without a size is left, so the negated totals are
those of the tokens that wait.

**ActionEngine_proofs.** `TypeCorrect` and `RestartsHonoured`, for any trees, from
`Types /\ Shape /\ Root`. `Shape`: the root the client performs is at the bottom of
the stack, every frame but the top one waits, above a leaf that stages a jump table
there are only actions of the tree "jumptable", and while none stages the current root
is the universal one, which is what `Throw` must restore. `Root`: `curstart` is -1
exactly when the root's apply has returned, and is the number of restarts otherwise.
`ChangesAccounted` and `AppliedOncePerStart` add to it

    AInv == IInv /\ Path /\ Accounts          OInv == AInv /\ Progresses

`Path`: the frames are a path down the tree, each in the member its caller's `state` is at, and
no action is on it twice. `Accounts` balances the books of every action of a tree that is
`Live`: from its beginning on, the changes made in it are those it has counted and what is
due from the member it is at, which, if that is in progress or was interrupted, are those
made in that member in turn. So the count is complete only between two members, and a
breakpoint that leaves a whole path in the middle leaves each action on it owing to the next.
What `Throw` leaves of the tree "jumptable" is out of balance, but that tree is reset
before it is performed again. `Progresses` says how far each action of the tree "universal" has
come: the members a group has passed are covered, that is, all leaves below them have been
applied since the function was cleared; an action past its apply, or at its end, is covered;
and a leaf that is to be applied once has been, just once, exactly if it is past that.
`OncePerStart` is this at the root. Neither says anything after an exception has reached the
client, until `Decompile` has reset the tree.

`FixpointReachedByPerform` needs two more steps:

    NInv == AInv /\ Nested                    FInv == NInv /\ Fixes

`Nested` says where something may be unfinished: every group around an action in progress is
at the member it is in, whatever is within an action at rest, or within a member the action is
not at, is not busy, and what an interruption has left in the middle lies within the action
on top. `Fixes` is the argument of the loop in `perform`: `lcount` is what `count` was when
the pass began, so if `made` is still equal to it nothing has changed since, and all that is
behind (the members passed, the rules tried on the ops passed) is `Clean`, that is, its tests are
settled. A change unsettles the tests of a whole function; `ChangeBears` shows that it
also counts one more for every action in the middle of a pass on it, which by `Nested` are
just those on the stack, so none of them still claims anything. A member that returns 0 to a
group that has counted nothing has itself made nothing, by `Accounts`, and is clean
(`ReturnFixes`, `AppliedClean`). An action that is through for good has no test left,
which is why the flags of groups matter.

**Only model-checked.** `EntryPointReturns`, `Returns`, `FunctionPrinted` and
`PerformReturns` (liveness and ENABLED are out of this prover's reach). Every other property
of a passing run is stated by a theorem.
No module uses a RECURSIVE operator, and no proof an induction over data; neither is
within the prover's reach.

## 6. Limits

- Text is modelled by what the code tests in it: what `strtoull` makes of an argument,
  a triple's first part, the words in a description. Names, messages, colours and the C
  that PrintC and LLDBPrintC write are left out.
- ArchMap answers `ARM:LE:32:v7` for 32-bit ARM, but the shipped specification files are
  AARCH64 and x86 only: such a command ends in an error, one of `ResolveArchitecture`'s.
- In the engine, no action has `rule_oneactperfunc` (none of the library's has); how a
  tree is cloned for a list of groups, warnings, statistics and the switching off of
  rules are left out; exceptions other than LowlevelError end the process as in
  DecompileCommand. `Continue` follows an interruption, on the same function. After a
  breakpoint behind a rule, `rule_index` is kept although the op may have another code:
  modelled as written; the next pass of the pool makes up for what is left out.
- The modules under `src/src/include` are LLDB's API headers, some 16 500 of the 17 800
  lines in `src/src`; they are external and only what the plugin calls of them is modelled. The models
  stand for the 1 286 lines of the plugin and for the parts of the library named above.
- Addresses are naturals without wrap. `setPropertyRange` for a range that ends at
  the last address of its space, where no second split is made, is left out, as are
  `inRange` for blocks over two ranges that touch (the code answers no, by design of
  a list that does not join neighbours), merging of lists and `clearPropertyRange`.
- `Crash` stands for the undefined behaviour of racing on the static vectors. It can
  happen exactly when one thread writes one and another uses it; otherwise the reader
  sees the old or the new vector.
- Labels, external references and the scope's operations that throw are not modelled;
  nor are use points: mapped globals have none.
- Two ways to go wrong in `applyOp` of a rule are assumed away: one that changes its op but
  reports no change (the pool prints an error and starts over with the rules of the
  new code, `G/action.cc:866-869`), and one that goes on counting changes that are none (`MaxChanges`).
- `TranslatorServesRunner` is not claimed for nested commands: it fails there.
- LLDB is modelled by what the plugin asks of it: symbols do not overlap, a list of modules
  has each once, loaded modules and their sections do not overlap, and a read of a stopped process returns a prefix.
- The analysis itself (`G/coreaction.cc`, `G/heritage.cc`, `G/ruleaction.cc` and so on) is
  Ghidra's, sequential and deterministic, on a graph far beyond an enumerable state
  space. It appears as `Perform`, with its outcomes.

## 7. Plan

Order of the work, most important behaviour first:

1. *Done* – shared state and entry points: SleighLibrary, DecompileCommand.
2. *Done* – the scope against its abstract specification: DebugSymbols, ScopeLookup,
   LLDBScope.
3. *Done* – bytes and read-only ranges: RangeList, RangeTree, PropertyMap, LLDBLoadImage.
4. *Done* – the action engine: ActionEngine.
5. *Done* – the pretty printer as a refinement of a stream of tokens: CircularQueue,
   TokenStream, EmitPrettyPrint.
6. *Done* – target resolution composed with the scope: ArchMap, TargetResolution.
7. *Done* – the queues of the printer and its refinement proved, and the function asked for:
   TokenQueue_proofs, `AskedIsDecompiled`; what the engine counts and applies:
   `ChangesAccounted`, `AppliedOncePerStart`, `FixpointReachedByPerform`; the
   layout of groups: `UnitsPrintedWhole`.
8. Models still worth having: merging of range lists and `clearPropertyRange`; the
   composition of the image with the string manager, whose several `loadFill`s may see
   several moments.

## 8. Using it

    tlc -workers 2 -config scope.cfg MCTargetResolution   # any run of PROJECT.json
    tlapm LLDBLoadImage_proofs.tla                        # any *_proofs module

`PROJECT.json` lists the components with their status, the runs with their
properties, the source lines of every definition, the hazards and the theorems.
