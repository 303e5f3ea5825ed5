--------------------------- MODULE LLDBLoadImage ---------------------------
(***************************************************************************)
(* lldbghidra::LLDBLoadImage, the bytes and the read-only ranges that the  *)
(* decompiler takes from a target of LLDB: getReadonly, called once while  *)
(* the architecture is initialized, and loadFill, called by the analysis.  *)
(* Both make several calls to LLDB, between which the debugger's other     *)
(* threads load and unload modules and let the process run.                *)
(***************************************************************************)
EXTENDS RangeList, PropertyMap, Sequences

CONSTANTS
  Modules,      \* modules the target may have
  Sections,     \* their sections: a sequence of [at, size, perms] for each
  NoModule,     \* an invalid SBModule
  Bases,        \* where modules may be loaded
  NotLoaded,    \* LLDB_INVALID_ADDRESS
  FirstFlags,   \* flagbase after the specification files are read
  MaxOffset,    \* bound: the addresses are 0..MaxOffset
  ReadSizes,    \* the sizes the analysis asks for
  MaxEvents     \* bound: how often modules and the process change

Offsets == 0..MaxOffset
Permissions == {"unknown", "readonly", "writable"}
Section == [at : Offsets, size : Nat, perms : Permissions]
Flags == SUBSET {"readonly", "volatile"}

ASSUME SectionAssumption ==
  /\ MaxOffset \in Nat
  /\ Sections \in [Modules -> Seq(Section)]
  /\ NoModule \notin Modules
  /\ Bases \subseteq Offsets /\ NotLoaded \notin Bases
  /\ DOMAIN FirstFlags \subseteq Offsets
  /\ \A p \in DOMAIN FirstFlags : FirstFlags[p] \in SUBSET {"volatile"}
  /\ ReadSizes \subseteq Nat \ {0} /\ MaxEvents \in Nat
  /\ \A m \in Modules, b \in Bases : \A k \in DOMAIN Sections[m] :
       b + Sections[m][k].at + Sections[m][k].size <= MaxOffset + 1

VARIABLES
  modules,   \* the target's list of modules (external)
  base,      \* where each is loaded (external)
  process,   \* the state of the process (external)
  stops,     \* how often the process has stopped: which memory it shows (external)
  events,    \* how often any of them changed
  pc,        \* where the thread of the command is
  loop,      \* getReadonly's i, numModules, module and j
  ranges,    \* its RangeList
  rest,      \* the ranges fillinReadOnlyFromLoader has still to go through
  flagbase,  \* Database::flagbase
  read,      \* loadFill's size, bytesRead, error.Fail() and the buffer
  ever,      \* bytes of unwritable sections since getReadonly began: for the
  always,    \*   properties only, as the ones unwritable all the time
  unloaded   \*   and whether a module was unloaded meanwhile

target == <<modules, base, process, stops, events>>
history == <<ever, always, unloaded>>
vars == <<target, pc, loop, ranges, rest, flagbase, read, history>>

SectionBytes(b, s) == (b + s.at) .. (b + s.at + s.size - 1)

ModuleBytes(m, b, perms) ==
  UNION {SectionBytes(b, Sections[m][k]) :
           k \in {n \in DOMAIN Sections[m] : Sections[m][n].perms \in perms}}

Unwritable(at) ==
  UNION {ModuleBytes(m, at[m], {"readonly"}) : m \in {n \in Modules : at[n] # NotLoaded}}

(* A byte of the buffer, by where it comes from.                           *)
Byte == [from : {"caller", "process", "file", "zero"}, stop : Nat]
Made(from) == [from |-> from, stop |-> 0]

Init ==
  /\ modules \in {<<>>} \cup {<<m>> : m \in Modules}
  /\ base \in [Modules -> Bases \cup {NotLoaded}]
  /\ \A m \in Modules : base[m] # NotLoaded <=> \E k \in DOMAIN modules : modules[k] = m
  /\ process \in {"stopped", "running"}
  /\ stops = 0
  /\ events = 0
  /\ pc = "getReadonly"
  /\ loop = [i |-> 1, numModules |-> 0, module |-> NoModule, j |-> 1]
  /\ ranges = {}
  /\ rest = {}
  /\ flagbase = FirstFlags
  /\ read = [bytesRead |-> 0, failed |-> FALSE, buffer |-> <<>>]
  /\ ever = Unwritable(base)
  /\ always = Unwritable(base)
  /\ unloaded = FALSE
-----------------------------------------------------------------------------
(* The target, on other threads of the debugger.                           *)
Changed ==
  /\ events < MaxEvents
  /\ events' = events + 1
  /\ UNCHANGED <<pc, loop, ranges, rest, flagbase, read>>

LoadModule(m, b) ==
  /\ base[m] = NotLoaded
  /\ \A n \in Modules :
       base[n] # NotLoaded =>
         ModuleBytes(m, b, Permissions) \cap ModuleBytes(n, base[n], Permissions) = {}
  /\ modules' = Append(modules, m)
  /\ base' = [base EXCEPT ![m] = b]
  /\ ever' = ever \cup Unwritable(base')
  /\ UNCHANGED <<process, stops, always, unloaded>>
  /\ Changed

UnloadModule(k) ==
  /\ modules' = SubSeq(modules, 1, k - 1) \o SubSeq(modules, k + 1, Len(modules))
  /\ base' = [base EXCEPT ![modules[k]] = NotLoaded]
  /\ always' = always \cap Unwritable(base')
  /\ unloaded' = TRUE
  /\ UNCHANGED <<process, stops, ever>>
  /\ Changed

RunProcess ==
  /\ \/ process = "stopped" /\ process' \in {"running", "exited"} /\ stops' = stops
     \/ process = "running" /\ process' = "stopped" /\ stops' = stops + 1
     \/ process = "running" /\ process' = "exited" /\ stops' = stops
  /\ UNCHANGED <<modules, base, history>>
  /\ Changed
-----------------------------------------------------------------------------
(* getReadonly.  The number of modules is read once; the module at an index *)
(* that is gone is invalid and has no sections.                            *)
GetNumModules ==
  /\ pc = "getReadonly"
  /\ pc' = "module"
  /\ loop' = [loop EXCEPT !.numModules = Len(modules)]
  /\ UNCHANGED <<target, ranges, rest, flagbase, read, history>>

AllButLast(i) == i < loop.numModules            \* faulty
HasModule(i) == i <= loop.numModules

GetModuleAtIndex ==
  /\ pc = "module"
  /\ HasModule(loop.i)
  /\ pc' = "section"
  /\ loop' = [loop EXCEPT !.j = 1,
                !.module = IF loop.i <= Len(modules) THEN modules[loop.i] ELSE NoModule]
  /\ UNCHANGED <<target, ranges, rest, flagbase, read, history>>

NumSections(m) == IF m = NoModule THEN 0 ELSE Len(Sections[m])

StuckNextModule == IF loop.module = NoModule THEN loop.i ELSE loop.i + 1 \* faulty
NextModule == loop.i + 1

EndModule ==
  /\ pc = "section"
  /\ loop.j > NumSections(loop.module)
  /\ pc' = "module"
  /\ loop' = [loop EXCEPT !.i = NextModule]
  /\ UNCHANGED <<target, ranges, rest, flagbase, read, history>>

AnyReadonly(s) == s.size > 0                    \* faulty: permissions not read
EmptyReadonly(s) == s.perms = "readonly"        \* faulty: size not looked at
IsReadonly(s) == s.perms = "readonly" /\ s.size > 0

InsertSection ==
  LET s == Sections[loop.module][loop.j]
      b == base[loop.module]
  IN
  /\ pc = "section"
  /\ loop.j <= NumSections(loop.module)
  /\ ranges' = IF IsReadonly(s) /\ b # NotLoaded
               THEN InsertRange(ranges, b + s.at, b + s.at + s.size - 1)
               ELSE ranges
  /\ loop' = [loop EXCEPT !.j = loop.j + 1]
  /\ UNCHANGED <<target, pc, rest, flagbase, read, history>>

ReturnReadonly ==
  /\ pc = "module"
  /\ ~HasModule(loop.i)
  /\ pc' = "fillin"
  /\ rest' = ranges
  /\ UNCHANGED <<target, loop, ranges, flagbase, read, history>>

(* fillinReadOnlyFromLoader, one range after the other.                    *)
FillinReadOnly ==
  /\ pc = "fillin"
  /\ \E r \in rest :
       /\ \A s \in rest : r.first <= s.first
       /\ rest' = rest \ {r}
       /\ flagbase' = SetPropertyRange(flagbase, {"readonly"}, r.first, r.last)
  /\ UNCHANGED <<target, pc, loop, ranges, read, history>>

EndInit ==
  /\ pc = "fillin"
  /\ rest = {}
  /\ pc' = "idle"
  /\ UNCHANGED <<target, loop, ranges, rest, flagbase, read, history>>
-----------------------------------------------------------------------------
(* loadFill.  Written(n, from) is the buffer after n bytes were read.      *)
Written(n, byte) ==
  [k \in DOMAIN read.buffer |-> IF k <= n THEN byte ELSE read.buffer[k]]

CurrentByte(from) == [from |-> from, stop |-> IF from = "process" THEN stops ELSE 0]

LoadFill(size) ==
  /\ pc \in {"idle", "returned"}
  /\ pc' = "process"
  /\ read' = [bytesRead |-> 0, failed |-> FALSE,
              buffer |-> [k \in 1..size |-> Made("caller")]]
  /\ UNCHANGED <<target, loop, ranges, rest, flagbase, history>>

(* A process that runs or has gone reads nothing; a stopped one reads up   *)
(* to the first byte that is not mapped, with or without an error.         *)
ReadProcess ==
  /\ pc = "process"
  /\ \/ /\ process = "stopped"
        /\ \E n \in 0..Len(read.buffer), failed \in BOOLEAN :
             /\ n = Len(read.buffer) => ~failed
             /\ read' = [bytesRead |-> n, failed |-> failed,
                         buffer |-> Written(n, CurrentByte("process"))]
     \/ /\ process # "stopped"
        /\ read' = [read EXCEPT !.failed = TRUE]
  /\ pc' = "target"
  /\ UNCHANGED <<target, loop, ranges, rest, flagbase, history>>

ReadTargetBehind(n, byte) ==                    \* faulty: goes on where the first stopped
  [k \in DOMAIN read.buffer |->
     IF k > read.bytesRead /\ k <= read.bytesRead + n THEN byte ELSE read.buffer[k]]
Overwritten(n, byte) == Written(n, byte)

(* SBTarget::ReadMemory reads a live process, else the object files.       *)
ReadTarget ==
  /\ pc = "target"
  /\ \/ /\ read.bytesRead = 0 \/ read.failed
        /\ \/ \E n \in 0..Len(read.buffer) :
                read' = [read EXCEPT !.bytesRead = n, !.buffer =
                           Overwritten(n, CurrentByte(IF process = "stopped"
                                                      THEN "process" ELSE "file"))]
           \/ UNCHANGED read                    \* the SBAddress is not valid
     \/ /\ read.bytesRead # 0 /\ ~read.failed
        /\ UNCHANGED read
  /\ pc' = "zero"
  /\ UNCHANGED <<target, loop, ranges, rest, flagbase, history>>

ZeroedIfNone ==                                 \* faulty: a short read is left alone
  [k \in DOMAIN read.buffer |->
     IF read.bytesRead = 0 THEN Made("zero") ELSE read.buffer[k]]
Zeroed ==
  [k \in DOMAIN read.buffer |->
     IF k > read.bytesRead THEN Made("zero") ELSE read.buffer[k]]

ZeroFill ==
  /\ pc = "zero"
  /\ read' = [read EXCEPT !.buffer = Zeroed]
  /\ pc' = "returned"
  /\ UNCHANGED <<target, loop, ranges, rest, flagbase, history>>
-----------------------------------------------------------------------------
Step ==
  \/ GetNumModules \/ GetModuleAtIndex \/ EndModule \/ InsertSection
  \/ ReturnReadonly \/ FillinReadOnly \/ EndInit
  \/ ReadProcess \/ ReadTarget \/ ZeroFill

Next ==
  \/ Step
  \/ \E n \in ReadSizes : LoadFill(n)
  \/ \E m \in Modules, b \in Bases : LoadModule(m, b)
  \/ \E k \in DOMAIN modules : UnloadModule(k)
  \/ RunProcess

Spec == Init /\ [][Next]_vars

(* The thread of the command is scheduled, and calls to LLDB come back.    *)
FairSpec == Spec /\ WF_vars(Step)
-----------------------------------------------------------------------------
TargetTypes ==
  /\ modules \in Seq(Modules)
  /\ base \in [Modules -> Bases \cup {NotLoaded}]
  /\ process \in {"stopped", "running", "exited"}
  /\ stops \in Nat /\ events \in 0..MaxEvents
  /\ ever \subseteq Offsets /\ always \subseteq ever
  /\ unloaded \in BOOLEAN

ImageTypes ==
  /\ pc \in {"getReadonly", "module", "section", "fillin", "idle",
             "process", "target", "zero", "returned"}
  /\ loop \in [i : Nat \ {0}, numModules : Nat,
               module : Modules \cup {NoModule}, j : Nat \ {0}]
  /\ ranges \subseteq Ranges /\ rest \subseteq ranges
  /\ DOMAIN flagbase \subseteq Nat /\ \A p \in DOMAIN flagbase : flagbase[p] \in Flags
  /\ read \in [bytesRead : Nat, failed : BOOLEAN, buffer : Seq(Byte)]

TypeOK == TargetTypes /\ ImageTypes

(* A RangeList looks at one range per address: two that overlap would hide *)
(* each other from inRange and getRange.                                   *)
RangesDisjoint == Disjoint(ranges)

IsMarked(o) == "readonly" \in GetValue(flagbase, o)

(* Constants are taken from read-only memory only: what is marked lay in   *)
(* an unwritable section, even when the process loads and unloads modules  *)
(* in the middle of the loop.                                              *)
MarkedWasUnwritable == \A o \in Offsets : IsMarked(o) => o \in ever

(* Unless a module is unloaded meanwhile (the indices then shift under the *)
(* loop), every section that is unwritable all along is marked.            *)
UnwritableIsMarked ==
  pc \in {"idle", "process", "target", "zero", "returned"} /\ ~unloaded =>
    \A o \in always : IsMarked(o)

(* Marking memory read-only leaves the volatile ranges of the processor    *)
(* specification as they were.                                             *)
VolatileKept ==
  [][\A o \in Offsets : "volatile" \in GetValue(flagbase', o)
                          <=> "volatile" \in GetValue(flagbase, o)]_vars

(* Whatever the two reads return, no byte of the buffer keeps what the     *)
(* caller had there: the analysis never decodes uninitialized memory.      *)
BufferDefined ==
  pc = "returned" => \A k \in DOMAIN read.buffer : read.buffer[k].from # "caller"

(* The bytes of one call come from one source at one stop of the process,  *)
(* with nothing but zeros behind them: an instruction is never made of     *)
(* bytes of two moments.                                                   *)
OneSnapshot ==
  pc = "returned" =>
    \A k, n \in DOMAIN read.buffer :
      k < n => \/ read.buffer[n] = read.buffer[k]
               \/ read.buffer[n].from = "zero"

(* init and every loadFill end, although modules come and go.              *)
Returns == pc \notin {"idle", "returned"} ~> pc \in {"idle", "returned"}

(* loadimage.hh:30, "This exception is thrown when a request for load      *)
(* image data cannot be met": a call that could read nothing does not      *)
(* return.                                                                 *)
UnavailableReported ==
  pc = "returned" => \E k \in DOMAIN read.buffer : read.buffer[k].from # "zero"
=============================================================================
