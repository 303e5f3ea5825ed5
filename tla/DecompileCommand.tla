-------------------------- MODULE DecompileCommand --------------------------
(***************************************************************************)
(* The plugin's two entry points and the static state they share:          *)
(* lldb::PluginInitialize, which runs without a lock, and                  *)
(* DecompileCommand::DoExecute, which runs under decompiler_mutex, a       *)
(* std::recursive_mutex.  Every thread drives one debugger; its stack      *)
(* holds the entry points it is executing, innermost last.  A second       *)
(* DoExecute can only start inside a first one when LLDB, called by the    *)
(* first, runs a script that issues the command again.                     *)
(*                                                                         *)
(* Architectures live as long as their DoExecute frame: the frame at depth *)
(* d of thread t owns the Architecture <<t, d>>.                           *)
(***************************************************************************)
EXTENDS SleighLibrary

CONSTANTS
  Threads,     \* the threads running debuggers that loaded the plugin
  NoThread,    \* the mutex is free
  Dangling,    \* a pointer into a destroyed Architecture
  MaxDepth,    \* bound on nested entry points of one thread
  MaxScans     \* bound on calls of scanForSleighDirectories

ASSUME ThreadsAssumption == NoThread \notin Threads
ASSUME BoundsAssumption == MaxDepth \in Nat \ {0} /\ MaxScans \in Nat
ASSUME DanglingAssumption == Dangling \notin Threads \X (1..MaxDepth)

VARIABLES
  specpaths,    \* how often the spec directories have been added
  description,  \* SleighArchitecture::description
  translators,  \* SleighArchitecture::translators
  mutex,        \* decompiler_mutex: owner and recursion count
  stack,        \* the entry points each thread is executing
  registered,   \* the threads whose interpreter has the command
  result,       \* the status of a thread's last finished DoExecute
  process       \* whether the process runs, and how it died

vars == <<specpaths, description, translators, mutex, stack, registered,
          result, process>>
library == <<specpaths, description, translators>>

PluginPcs == {"start", "register"}
CollectPcs == {"check", "load"}
CommandPcs == {"lock", "resolve", "language", "specfile", "translator",
               "initialize", "configure", "find", "perform", "print"}

(* From here on the frame's Architecture has a translator.                 *)
BoundPcs == {"initialize", "configure", "find", "perform", "print"}

(* Points of DoExecute that call into LLDB, which may run scripts.         *)
CallsLldb == {"resolve", "configure", "find", "perform", "print"}

Frame == [call  : {"plugin", "command"},
          pc    : PluginPcs \cup CollectPcs \cup CommandPcs,
          language : Languages \cup {NoLanguage},  \* the target's language id
          index : Nat,                             \* languageindex; 0: unset
          tag   : BOOLEAN,               \* <sleigh> tag is in the DocumentStorage
          files : Seq(Seq(Languages))]   \* .ldefs files left to load

Called(call, pc) == [call |-> call, pc |-> pc, language |-> NoLanguage,
                     index |-> 0, tag |-> FALSE, files |-> <<>>]

Arch == Threads \X (1..MaxDepth)

Depth(t) == Len(stack[t])
Top(t) == stack[t][Depth(t)]
At(t, pc) == stack[t] # <<>> /\ Top(t).pc = pc
Runs(t, pc) == process = "running" /\ At(t, pc)
Continue(t, frame) == stack' = [stack EXCEPT ![t][Depth(t)] = frame]
GoTo(t, pc) == Continue(t, [Top(t) EXCEPT !.pc = pc])
Pop(s) == SubSeq(s, 1, Len(s) - 1)

Init ==
  /\ specpaths = 0
  /\ description = <<>>
  /\ translators = [i \in {} |-> 0]
  /\ mutex = [owner |-> NoThread, count |-> 0]
  /\ stack = [t \in Threads |-> <<>>]
  /\ registered = {}
  /\ result = [t \in Threads |-> "none"]
  /\ process = "running"
-----------------------------------------------------------------------------
(* The process dies: "terminated" by std::terminate, for an exception that *)
(* no handler takes, or "crashed" by undefined behaviour.                  *)
Die(how) ==
  /\ process' = how
  /\ UNCHANGED <<library, mutex, stack, registered, result>>

(* ~lock_guard, one level of the recursive mutex.                          *)
UnlockedAtOnce == [owner |-> NoThread, count |-> 0]  \* faulty: not recursive
UnlockedNever == mutex                               \* faulty: never released
Unlocked ==
  IF mutex.count = 1 THEN [owner |-> NoThread, count |-> 0]
                     ELSE [mutex EXCEPT !.count = @ - 1]

(* Leaving DoExecute: the Architecture is destroyed, then the guard.       *)
Leave(t, status, kept) ==
  /\ translators' = Orphan(kept, <<t, Depth(t)>>, Dangling)
  /\ mutex' = Unlocked
  /\ stack' = [stack EXCEPT ![t] = Pop(@)]
  /\ result' = [result EXCEPT ![t] = status]
  /\ UNCHANGED <<specpaths, description, registered, process>>

Return(t, status) == Leave(t, status, translators)

(* A LowlevelError or std::exception: caught, reported by SetError.        *)
Fail(t) == Return(t, "failed")
-----------------------------------------------------------------------------
(* The debugger calls PluginInitialize, or the user types `decompile'.     *)
PluginInitialize(t) ==
  /\ process = "running"
  /\ stack[t] = <<>>
  /\ stack' = [stack EXCEPT ![t] = <<Called("plugin", "start")>>]
  /\ UNCHANGED <<library, mutex, registered, result, process>>

DoExecute(t) ==
  /\ process = "running"
  /\ t \in registered
  /\ \/ stack[t] = <<>>
     \/ /\ stack[t] # <<>>
        /\ Depth(t) < MaxDepth
        /\ Top(t).call = "command"
        /\ Top(t).pc \in CallsLldb
  /\ stack' = [stack EXCEPT ![t] = Append(@, Called("command", "lock"))]
  /\ UNCHANGED <<library, mutex, registered, result, process>>

(* startDecompilerLibrary: the home is scanned when SLEIGHHOME is set.     *)
StartLibrary(t) ==
  /\ Runs(t, "start")
  /\ \E scanned \in {0, 1} :
       /\ specpaths + scanned <= MaxScans
       /\ specpaths' = specpaths + scanned
  /\ GoTo(t, "check")
  /\ UNCHANGED <<description, translators, mutex, registered, result, process>>

(* Faulty: collects again until there is a description.                    *)
CollectedUntilFound(frame) ==
  IF description = <<>> THEN "check"
  ELSE IF frame.call = "plugin" THEN "register" ELSE "language"

Collected(frame) == IF frame.call = "plugin" THEN "register" ELSE "language"

(* collectSpecFiles, from PluginInitialize and from every LLDBArchitecture *)
(* constructor: nothing to do once the vector is not empty.                *)
CollectSpecFiles(t) ==
  /\ Runs(t, "check")
  /\ IF description # <<>>
     THEN GoTo(t, Collected(Top(t)))
     ELSE Continue(t, [Top(t) EXCEPT !.pc = "load",
                                     !.files = MatchList(specpaths)])
  /\ UNCHANGED <<library, mutex, registered, result, process>>

(* Faulty: an error empties the vector.                                    *)
ClearedOnError(outcome) ==
  IF outcome.threw THEN <<>> ELSE description \o outcome.entries

Extended(outcome) == description \o outcome.entries

(* One loadLanguageDescription.  A DecoderError is caught by the catch     *)
(* (...) of PluginInitialize, which returns false, but by none of          *)
(* DoExecute's handlers.                                                   *)
LoadLanguageDescription(t) ==
  /\ Runs(t, "load")
  /\ Top(t).files # <<>>
  /\ \E outcome \in LoadOutcomes(Head(Top(t).files)) :
       /\ description' = Extended(outcome)
       /\ IF outcome.threw /\ Top(t).call = "command"
          THEN process' = "terminated" /\ UNCHANGED stack
          ELSE /\ UNCHANGED process
               /\ IF outcome.threw
                  THEN stack' = [stack EXCEPT ![t] = Pop(@)]
                  ELSE Continue(t, [Top(t) EXCEPT !.files = Tail(@)])
  /\ UNCHANGED <<specpaths, translators, mutex, registered, result>>

SpecFilesLoaded(t) ==
  /\ Runs(t, "load")
  /\ Top(t).files = <<>>
  /\ GoTo(t, Collected(Top(t)))
  /\ UNCHANGED <<library, mutex, registered, result, process>>

AddCommand(t) ==
  /\ Runs(t, "register")
  /\ registered' = registered \cup {t}
  /\ stack' = [stack EXCEPT ![t] = Pop(@)]
  /\ UNCHANGED <<library, mutex, result, process>>
-----------------------------------------------------------------------------
MayLockUnasked(t) == TRUE                            \* faulty: no waiting
MayLock(t) == mutex.owner \in {NoThread, t}

(* lock_guard(decompiler_mutex)                                            *)
Lock(t) ==
  /\ Runs(t, "lock")
  /\ MayLock(t)
  /\ mutex' = [owner |-> t, count |-> mutex.count + 1]
  /\ GoTo(t, "resolve")
  /\ UNCHANGED <<library, registered, result, process>>

(* Target, process, address, symbol and SleighIdFromTriple; each may fail. *)
ResolveTarget(t) ==
  /\ Runs(t, "resolve")
  /\ \/ Fail(t)
     \/ /\ \E language \in Languages :
             Continue(t, [Top(t) EXCEPT !.pc = "check", !.language = language])
        /\ UNCHANGED <<library, mutex, registered, result, process>>

ResolveArchitecture(t) ==
  /\ Runs(t, "language")
  /\ IF Matches(description, Top(t).language) = {}
     THEN Fail(t)
     ELSE /\ Continue(t, [Top(t) EXCEPT !.pc = "specfile",
                            !.index = FirstMatch(description, Top(t).language)])
          /\ UNCHANGED <<library, mutex, registered, result, process>>

(* A file that is missing or unreadable is a SleighError.  An entry        *)
(* without compilers makes getCompiler read past the vector's end.         *)
BuildSpecFile(t) ==
  /\ Runs(t, "specfile")
  /\ \/ Fail(t)
     \/ /\ ~description[Top(t).index].compilers
        /\ Die("crashed")
     \/ /\ description[Top(t).index].compilers
        /\ Continue(t, [Top(t) EXCEPT !.pc = "translator",
                          !.tag = ~IsTranslateReused(translators, Top(t).index)])
        /\ UNCHANGED <<library, mutex, registered, result, process>>

BuildSharedTranslator(t) ==
  /\ Runs(t, "translator")
  /\ translators' = BuildTranslator(translators, Top(t).index,
                      description[Top(t).index].id, <<t, Depth(t)>>)
  /\ GoTo(t, "initialize")
  /\ UNCHANGED <<specpaths, description, mutex, registered, result, process>>

SetState(index, state) == [translators EXCEPT ![index].state = state]

(* Sleigh::initialize.  Without a root the .sla is decoded: this needs the *)
(* <sleigh> tag, may throw before anything is decoded (the file cannot be  *)
(* opened or has a wrong header or version), after part of it is (its      *)
(* address spaces are there and a second decode() throws), or at its end   *)
(* with the root set.  With a root only the context is registered again.   *)
InitializeTranslator(t) ==
  LET index == Top(t).index
      state == translators[index].state
  IN
  /\ Runs(t, "initialize")
  /\ \/ /\ state \in {"rejected", "ready"}
        /\ GoTo(t, "configure")
        /\ UNCHANGED <<library, mutex, registered, result, process>>
     \/ /\ state = "raw" /\ Top(t).tag
        /\ translators' = SetState(index, "ready")
        /\ GoTo(t, "configure")
        /\ UNCHANGED <<specpaths, description, mutex, registered, result, process>>
     \/ /\ state \in {"raw", "partial"}
        /\ \E left \in IF state = "raw" /\ Top(t).tag
                       THEN {"raw", "partial", "rejected"} ELSE {state} :
             Leave(t, "failed", SetState(index, left))
     \/ /\ state = "raw" /\ Top(t).tag
        /\ Die("terminated")

(* The rest of Architecture::init.  A DecoderError of the .pspec or .cspec *)
(* decoding is not caught.                                                 *)
Configure(t) ==
  /\ Runs(t, "configure")
  /\ \/ Fail(t)
     \/ Die("terminated")
     \/ /\ GoTo(t, "find")
        /\ UNCHANGED <<library, mutex, registered, result, process>>

(* findFunction: null is reported, and so is an exception.                 *)
FindFunction(t) ==
  /\ Runs(t, "find")
  /\ \/ Fail(t)
     \/ /\ GoTo(t, "perform")
        /\ UNCHANGED <<library, mutex, registered, result, process>>

(* reset and perform of the current root action: interrupted, an exception *)
(* from one of its rules, or complete.                                     *)
Perform(t) ==
  /\ Runs(t, "perform")
  /\ \/ Fail(t)
     \/ /\ GoTo(t, "print")
        /\ UNCHANGED <<library, mutex, registered, result, process>>

(* setPrintLanguage, docFunction, AppendMessage, SetStatus                 *)
PrintFunction(t) ==
  /\ Runs(t, "print")
  /\ \E status \in {"succeeded", "failed"} : Return(t, status)
-----------------------------------------------------------------------------
(* PluginInitialize takes no lock: a vector it grows may be in use.        *)
Writes(t) ==
  IF At(t, "start") THEN {"specpaths"}
  ELSE IF At(t, "load") THEN {"description"} ELSE {}

Reads(t) ==
  IF At(t, "check") \/ At(t, "specfile") THEN {"specpaths", "description"}
  ELSE IF At(t, "language") \/ At(t, "translator") \/ At(t, "configure")
       THEN {"description"} ELSE {}

Race(t, u) == t # u /\ Writes(t) \cap (Writes(u) \cup Reads(u)) # {}

(* Undefined behaviour: the reader sees the old or the new vector, as in   *)
(* the interleavings of the actions above, or freed memory and crashes.    *)
Crash ==
  /\ process = "running"
  /\ \E t, u \in Threads : Race(t, u)
  /\ Die("crashed")

Dead == process # "running" /\ UNCHANGED vars

Step(t) ==
  \/ StartLibrary(t) \/ CollectSpecFiles(t) \/ LoadLanguageDescription(t)
  \/ SpecFilesLoaded(t) \/ AddCommand(t)
  \/ Lock(t) \/ ResolveTarget(t) \/ ResolveArchitecture(t) \/ BuildSpecFile(t)
  \/ BuildSharedTranslator(t) \/ InitializeTranslator(t) \/ Configure(t)
  \/ FindFunction(t) \/ Perform(t) \/ PrintFunction(t)

Next ==
  \/ \E t \in Threads : PluginInitialize(t) \/ DoExecute(t) \/ Step(t)
  \/ Crash
  \/ Dead

Spec == Init /\ [][Next]_vars

(* A thread inside an entry point keeps running: LLDB and the decompiler's *)
(* actions return.  Nothing obliges the user to call, or the mutex to be   *)
(* given to a particular waiter.                                           *)
Fairness == \A t \in Threads : WF_vars(Step(t))

FairSpec == Spec /\ Fairness
-----------------------------------------------------------------------------
TypeOK ==
  /\ specpaths \in 0..MaxScans
  /\ description \in Seq(LanguageDescription)
  /\ DOMAIN translators \subseteq DOMAIN description
  /\ \A i \in DOMAIN translators :
       translators[i] \in Translator(Arch \cup {Dangling})
  /\ mutex \in [owner : Threads \cup {NoThread}, count : 0..MaxDepth]
  /\ stack \in [Threads -> Seq(Frame)]
  /\ \A t \in Threads : Depth(t) <= MaxDepth
  /\ registered \subseteq Threads
  /\ result \in [Threads -> {"none", "succeeded", "failed"}]
  /\ process \in {"running", "terminated", "crashed"}

(***************************************************************************)
(* Safety.                                                                 *)
(***************************************************************************)
Bound(frame) == frame.pc \in BoundPcs

(* The levels of decompiler_mutex a thread's frames stand for: all of its  *)
(* DoExecute frames but an innermost one still waiting in the lock_guard.  *)
Held(t) ==
  IF stack[t] = <<>> \/ Top(t).call = "plugin" THEN 0
  ELSE IF Top(t).pc = "lock" THEN Depth(t) - 1 ELSE Depth(t)

(* Every way out of DoExecute, early return or exception, gives back       *)
(* exactly what it took: the recursion count of the mutex is the number of *)
(* frames holding it, and no other thread is past its lock_guard.          *)
MutexBalanced ==
  /\ \A t \in Threads : Held(t) = IF mutex.owner = t THEN mutex.count ELSE 0
  /\ mutex.owner = NoThread => mutex.count = 0

(* While a command runs, the Sleigh object it uses, shared by all commands *)
(* for the language and outliving them, reads the memory and the context   *)
(* of this command's Architecture: never those of an earlier command, of   *)
(* another thread's, nor freed ones.  Commands must not nest (MaxDepth 1). *)
TranslatorServesRunner ==
  \A t \in Threads : stack[t] # <<>> /\ Bound(Top(t)) =>
    /\ Top(t).index \in DOMAIN translators
    /\ translators[Top(t).index].serves = <<t, Depth(t)>>

(* With any nesting: a Sleigh object points to a live Architecture or is   *)
(* known to dangle.  The live one is bound to it, so no object leads from  *)
(* a command into the Architecture of a command for another language.      *)
LoaderLives ==
  \A i \in DOMAIN translators : translators[i].serves # Dangling =>
    \E t \in Threads : \E d \in 1..Depth(t) :
      /\ translators[i].serves = <<t, d>>
      /\ Bound(stack[t][d])
      /\ stack[t][d].index = i

(* The translator a command uses decodes the instructions of its target's  *)
(* language, although translators and descriptions are matched by a vector *)
(* index computed before PluginInitialize may have grown the vector.       *)
DecodesTargetLanguage ==
  \A t \in Threads : \A d \in 1..Depth(t) : Bound(stack[t][d]) =>
    /\ stack[t][d].index \in DOMAIN translators
    /\ translators[stack[t][d].index].language = stack[t][d].language

(* Language indices stay valid for the life of the process: the vector     *)
(* only grows, whatever fails while a file is loaded.                      *)
DescriptionAppendOnly ==
  [][/\ Len(description) <= Len(description')
     /\ SubSeq(description', 1, Len(description)) = description]_description

(* A thread inside PluginInitialize or past the lock_guard of DoExecute    *)
(* comes back to its debugger, unless the process dies (MaxDepth 1).       *)
EntryPointReturns ==
  \A t \in Threads :
    stack[t] # <<>> /\ ~At(t, "lock") ~> stack[t] = <<>> \/ process # "running"
-----------------------------------------------------------------------------
(***************************************************************************)
(* Statements of the source's comments that the code does not keep.        *)
(***************************************************************************)
(* sleigh_arch.cc:164-167 on isTranslateReused, "try to reuse the previous *)
(* Sleigh object [...] \return true if it can be reused": an object found  *)
(* reusable has been initialized.                                          *)
ReusedCanBeReused ==
  \A t \in Threads : At(t, "translator") /\ ~Top(t).tag =>
    translators[Top(t).index].state = "ready"

(* error.hh:70-71, "This is the base error for all exceptions thrown by the   *)
(* decompiler": a handler for LowlevelError and one for std::exception     *)
(* then catch whatever the decompiler throws, and a debugger running one   *)
(* command at a time survives it.                                          *)
EveryErrorCaught == process # "terminated"

(* Plugin.cpp:31, "Ensure language descriptions are loaded": when          *)
(* PluginInitialize gets to AddCommand, every description it has, of this  *)
(* attempt or an earlier one, is completely decoded.                       *)
RegisteredDescriptionsLoaded ==
  \A t \in Threads : At(t, "register") =>
    \A i \in DOMAIN description : description[i].compilers
=============================================================================
