----------------------- MODULE DecompileCommand_proofs -----------------------
(***************************************************************************)
(* Proofs about DecompileCommand, for every set of threads, every set of   *)
(* languages and .ldefs files, and every nesting depth.                    *)
(***************************************************************************)
EXTENDS DecompileCommand, SequenceTheorems, WellFoundedInduction, TLAPS

(* Replacing the innermost frame of a thread, as Continue and GoTo do.     *)
LEMMA ReplaceTop ==
  ASSUME NEW F, NEW s \in [Threads -> Seq(F)], NEW t \in Threads, NEW f \in F,
         s[t] # <<>>,
         NEW n, n = Len(s[t]),
         NEW r, r = [s EXCEPT ![t][n] = f]
  PROVE  /\ r \in [Threads -> Seq(F)]
         /\ \A u \in Threads : Len(r[u]) = Len(s[u])
         /\ \A u \in Threads : u # t => r[u] = s[u]
         /\ r[t] # <<>>
         /\ r[t][n] = f
         /\ \A d \in 1..Len(s[t]) : d # n => r[t][d] = s[t][d]
<1>1. n \in 1..Len(s[t])
  BY EmptySeq, LenProperties
<1>2. [s[t] EXCEPT ![n] = f] \in Seq(F) /\ Len([s[t] EXCEPT ![n] = f]) = Len(s[t])
  BY <1>1, ExceptSeq
<1>3. r[t] = [s[t] EXCEPT ![n] = f]
  OBVIOUS
<1>. QED
  BY <1>1, <1>2, <1>3

(* Removing it, when an entry point returns.                               *)
LEMMA PopTop ==
  ASSUME NEW F, NEW s \in [Threads -> Seq(F)], NEW t \in Threads,
         s[t] # <<>>,
         NEW r, r = [s EXCEPT ![t] = Pop(s[t])]
  PROVE  /\ r \in [Threads -> Seq(F)]
         /\ Len(r[t]) = Len(s[t]) - 1
         /\ \A u \in Threads : u # t => r[u] = s[u]
         /\ \A d \in 1..Len(r[t]) : r[t][d] = s[t][d]
<1>1. Len(s[t]) \in Nat /\ Len(s[t]) >= 1
  BY EmptySeq, LenProperties
<1>2. r[t] = SubSeq(s[t], 1, Len(s[t]) - 1)
  BY DEF Pop
<1>3. \A d \in 1..Len(s[t]) - 1 : s[t][d] \in F
  BY <1>1, ElementOfSeq
<1>4. r[t] \in Seq(F) /\ Len(r[t]) = Len(s[t]) - 1
      /\ \A d \in 1..Len(s[t]) - 1 : r[t][d] = s[t][d]
  <2>. DEFINE m == Len(s[t]) - 1
              q == SubSeq(s[t], 1, m)
  <2>1. m \in Int /\ m >= 0 /\ \A i \in 1..m : s[t][i] \in F
    BY <1>1, <1>3
  <2>2. r[t] = q
    BY <1>2
  <2>. HIDE DEF m
  <2>3. /\ q \in Seq(F)
        /\ Len(q) = IF 1 <= m THEN m - 1 + 1 ELSE 0
        /\ \A i \in 1..m - 1 + 1 : q[i] = s[t][1 + i - 1]
    BY <2>1, SubSeqProperties
  <2>. HIDE DEF q
  <2>4. Len(q) = m /\ \A i \in 1..m : q[i] = s[t][i]
    BY <2>1, <2>3
  <2>. QED
    BY <2>2, <2>3, <2>4 DEF m
<1>. QED
  BY <1>4

(* Adding one, when an entry point is called.                              *)
LEMMA PushTop ==
  ASSUME NEW F, NEW s \in [Threads -> Seq(F)], NEW t \in Threads, NEW f \in F,
         NEW r, r = [s EXCEPT ![t] = Append(s[t], f)]
  PROVE  /\ r \in [Threads -> Seq(F)]
         /\ Len(r[t]) = Len(s[t]) + 1
         /\ r[t] # <<>>
         /\ \A u \in Threads : u # t => r[u] = s[u]
         /\ r[t][Len(r[t])] = f
         /\ \A d \in 1..Len(s[t]) : r[t][d] = s[t][d]
<1>1. r[t] = Append(s[t], f)
  OBVIOUS
<1>2. r[t] \in Seq(F) /\ Len(r[t]) = Len(s[t]) + 1 /\ r[t][Len(s[t]) + 1] = f
      /\ \A d \in 1..Len(s[t]) : r[t][d] = s[t][d]
  BY <1>1, AppendProperties
<1>3. r[t] # <<>>
  BY <1>2, EmptySeq, LenProperties
<1>. QED
  BY <1>2, <1>3
-----------------------------------------------------------------------------
(* The values the operators of SleighLibrary return.                       *)
LEMMA MatchListType ==
  ASSUME NEW scans \in Nat
  PROVE  MatchList(scans) \in Seq(Seq(Languages))
<1>. DEFINE m == Len(SpecFiles)
            n == scans * m
<1>1. m \in Nat /\ SpecFiles \in [1..m -> Seq(Languages)]
  BY SpecFilesAssumption, LenProperties
<1>2. n \in Nat
  BY <1>1
<1>3. \A i \in 1..n : SpecFiles[((i - 1) % m) + 1] \in Seq(Languages)
  <2>. SUFFICES ASSUME NEW i \in 1..n
                PROVE  SpecFiles[((i - 1) % m) + 1] \in Seq(Languages)
    OBVIOUS
  <2>1. m # 0
    <3>1. ASSUME m = 0 PROVE n = 0
      BY <3>1
    <3>. QED
      BY <3>1, <1>2
  <2>. HIDE DEF m, n
  <2>2. (i - 1) % m \in 0..m - 1
    BY <1>1, <1>2, <2>1
  <2>. QED
    BY <1>1, <2>1, <2>2
<1>4. MatchList(scans) = [i \in 1..n |-> SpecFiles[((i - 1) % m) + 1]]
  BY DEF MatchList
<1>. HIDE DEF m, n
<1>. QED
  BY <1>2, <1>3, <1>4, IsASeq

LEMMA LoadOutcomesType ==
  ASSUME NEW file \in Seq(Languages), NEW outcome \in LoadOutcomes(file)
  PROVE  /\ outcome.entries \in Seq(LanguageDescription)
         /\ outcome.threw \in BOOLEAN
<1>. DEFINE whole(n) == [i \in 1..n |-> Described(file[i])]
<1>1. Len(file) \in Nat /\ \A i \in 1..Len(file) : file[i] \in Languages
  BY LenProperties, ElementOfSeq
<1>2. \A l \in Languages : Described(l) \in LanguageDescription
  BY DEF Described, LanguageDescription
<1>3. \A n \in 0..Len(file) : whole(n) \in Seq(LanguageDescription)
  <2>. SUFFICES ASSUME NEW n \in 0..Len(file)
                PROVE  whole(n) \in Seq(LanguageDescription)
    OBVIOUS
  <2>1. n \in Nat /\ \A i \in 1..n : Described(file[i]) \in LanguageDescription
    BY <1>1, <1>2
  <2>. QED
    BY <2>1, IsASeq
<1>4. \A l \in Languages : HalfDecoded(l) \subseteq LanguageDescription
  <2>. SUFFICES ASSUME NEW l \in Languages, NEW h \in HalfDecoded(l)
                PROVE  h \in LanguageDescription
    OBVIOUS
  <2>1. CASE h = Undecoded
    BY <2>1 DEF Undecoded, LanguageDescription
  <2>2. CASE \E begun \in BOOLEAN : h = [id |-> l, compilers |-> begun]
    BY <2>2 DEF LanguageDescription
  <2>. QED
    BY <2>1, <2>2 DEF HalfDecoded
<1>5. <<>> \in Seq(LanguageDescription)
  BY EmptySeq
<1>. HIDE DEF whole
<1>6. CASE outcome \in UNION {{[entries |-> Append(whole(n - 1), half), threw |-> TRUE] :
                      half \in HalfDecoded(file[n])} : n \in 1..Len(file)}
  <2>0. PICK n \in 1..Len(file) : \E half \in HalfDecoded(file[n]) :
          outcome = [entries |-> Append(whole(n - 1), half), threw |-> TRUE]
    BY <1>6
  <2>1. PICK half \in HalfDecoded(file[n]) :
          outcome = [entries |-> Append(whole(n - 1), half), threw |-> TRUE]
    BY <2>0
  <2>2. whole(n - 1) \in Seq(LanguageDescription) /\ half \in LanguageDescription
    BY <1>1, <1>3, <1>4
  <2>3. Append(whole(n - 1), half) \in Seq(LanguageDescription)
    BY <2>2, AppendProperties
  <2>. QED
    BY <2>1, <2>3
<1>7. CASE outcome = [entries |-> whole(Len(file)), threw |-> FALSE]
  BY <1>1, <1>3, <1>7
<1>8. CASE \E threw \in BOOLEAN : outcome = [entries |-> <<>>, threw |-> threw]
  BY <1>5, <1>8
<1>. QED
  BY <1>6, <1>7, <1>8 DEF LoadOutcomes, whole

(* FirstMatch is an index of the vector whose entry has the id.            *)
LEMMA FirstMatchMatches ==
  ASSUME NEW desc \in Seq(LanguageDescription), NEW language,
         Matches(desc, language) # {}
  PROVE  /\ FirstMatch(desc, language) \in DOMAIN desc
         /\ desc[FirstMatch(desc, language)].id = language
<1>. DEFINE M == Matches(desc, language)
<1>1. M \subseteq Nat
  BY LenProperties DEF Matches
<1>2. PICK i \in M : \A j \in M : ~ (<<j, i>> \in OpToRel(<, Nat))
  BY <1>1, WFMin, NatLessThanWellFounded
<1>3. OpToRel(<, Nat) = {p \in Nat \X Nat : p[1] < p[2]}
  BY DEF OpToRel
<1>4. \A j \in M : i <= j
  <2>. SUFFICES ASSUME NEW j \in M PROVE i <= j
    OBVIOUS
  <2>1. i \in Nat /\ j \in Nat
    BY <1>1
  <2>2. ~ (<<j, i>> \in {p \in Nat \X Nat : p[1] < p[2]})
    BY <1>2, <1>3
  <2>3. ~ (j < i)
    BY <2>1, <2>2
  <2>. QED
    BY <2>1, <2>3
<1>. QED
  BY <1>4 DEF FirstMatch, Matches
-----------------------------------------------------------------------------
(***************************************************************************)
(* The inductive invariant.  It adds to the type invariant what a frame's  *)
(* program counter says of the frame and of the static vectors, and the    *)
(* shape of a stack: only the innermost frame may wait for the mutex or be *)
(* a PluginInitialize, all others are inside a call to LLDB.               *)
(***************************************************************************)
IndexedPcs == {"specfile", "translator"} \cup BoundPcs

FrameValid(f, d) ==
  /\ f.call = "plugin" => d = 1 /\ f.pc \in PluginPcs \cup CollectPcs
  /\ f.call = "command" => f.pc \in CollectPcs \cup CommandPcs
  /\ f.pc \in IndexedPcs =>
       f.index \in DOMAIN description /\ description[f.index].id = f.language
  /\ f.pc \in BoundPcs => f.index \in DOMAIN translators

StacksValid ==
  \A t \in Threads : \A d \in 1..Depth(t) :
    /\ FrameValid(stack[t][d], d)
    /\ d < Depth(t) => stack[t][d].call = "command" /\ stack[t][d].pc \in CallsLldb

TranslatorsMatch ==
  \A i \in DOMAIN translators : translators[i].language = description[i].id

IInv == TypeOK /\ StacksValid /\ TranslatorsMatch /\ MutexBalanced /\ LoaderLives
-----------------------------------------------------------------------------
LEMMA TopTyped ==
  ASSUME TypeOK, NEW t \in Threads, stack[t] # <<>>
  PROVE  /\ Depth(t) \in Nat /\ 1 <= Depth(t) /\ Depth(t) <= MaxDepth
         /\ Depth(t) = Len(stack[t])
         /\ Top(t) \in Frame
         /\ Top(t) = stack[t][Depth(t)]
<1>1. stack[t] \in Seq(Frame) /\ Depth(t) <= MaxDepth
  BY DEF TypeOK
<1>2. Len(stack[t]) \in Nat /\ Len(stack[t]) # 0
  BY <1>1, EmptySeq, LenProperties
<1>. QED
  BY <1>1, <1>2, ElementOfSeq, BoundsAssumption DEF Depth, Top

(* What Continue does to the stacks.                                       *)
LEMMA ContinueStacks ==
  ASSUME TypeOK, NEW t \in Threads, stack[t] # <<>>, NEW f \in Frame, Continue(t, f)
  PROVE  /\ stack' \in [Threads -> Seq(Frame)]
         /\ \A u \in Threads : Len(stack'[u]) = Len(stack[u])
         /\ \A u \in Threads : u # t => stack'[u] = stack[u]
         /\ stack'[t] # <<>>
         /\ stack'[t][Depth(t)] = f
         /\ \A d \in 1..Depth(t) : d # Depth(t) => stack'[t][d] = stack[t][d]
<1>1. stack \in [Threads -> Seq(Frame)]
  BY DEF TypeOK
<1>2. stack' = [stack EXCEPT ![t][Len(stack[t])] = f]
  BY DEF Continue, Depth
<1>. QED
  BY <1>1, <1>2, ReplaceTop DEF Depth

LEMMA PopStacks ==
  ASSUME TypeOK, NEW t \in Threads, stack[t] # <<>>,
         stack' = [stack EXCEPT ![t] = Pop(@)]
  PROVE  /\ stack' \in [Threads -> Seq(Frame)]
         /\ Len(stack'[t]) = Depth(t) - 1
         /\ \A u \in Threads : u # t => stack'[u] = stack[u]
         /\ \A d \in 1..Len(stack'[t]) : stack'[t][d] = stack[t][d]
<1>1. stack \in [Threads -> Seq(Frame)]
  BY DEF TypeOK
<1>2. stack' = [stack EXCEPT ![t] = Pop(stack[t])]
  OBVIOUS
<1>. QED
  BY <1>1, <1>2, PopTop DEF Depth

LEMMA PushStacks ==
  ASSUME TypeOK, NEW t \in Threads, NEW f \in Frame,
         stack' = [stack EXCEPT ![t] = Append(@, f)]
  PROVE  /\ stack' \in [Threads -> Seq(Frame)]
         /\ Len(stack'[t]) = Depth(t) + 1
         /\ stack'[t] # <<>>
         /\ \A u \in Threads : u # t => stack'[u] = stack[u]
         /\ stack'[t][Depth(t) + 1] = f
         /\ \A d \in 1..Depth(t) : stack'[t][d] = stack[t][d]
<1>1. stack \in [Threads -> Seq(Frame)]
  BY DEF TypeOK
<1>2. stack' = [stack EXCEPT ![t] = Append(stack[t], f)]
  OBVIOUS
<1>. QED
  BY <1>1, <1>2, PushTop DEF Depth
-----------------------------------------------------------------------------
(* The static vectors only gain elements.                                  *)
LibraryGrows ==
  /\ DOMAIN description \subseteq DOMAIN description'
  /\ \A i \in DOMAIN description : description'[i] = description[i]
  /\ DOMAIN translators \subseteq DOMAIN translators'

(* No object is added or pointed elsewhere.                                *)
ServesKept ==
  /\ DOMAIN translators' = DOMAIN translators
  /\ \A i \in DOMAIN translators :
       /\ translators'[i].serves = translators[i].serves
       /\ translators'[i].language = translators[i].language

(* One more step of an entry point that holds what it held.                *)
LEMMA AdvanceStacks ==
  ASSUME IInv, NEW t \in Threads, stack[t] # <<>>, NEW f \in Frame,
         Continue(t, f), LibraryGrows, FrameValid(f, Depth(t))',
         f.call = Top(t).call
  PROVE  /\ StacksValid'
         /\ stack' \in [Threads -> Seq(Frame)]
         /\ \A u \in Threads : Depth(u)' = Depth(u)
         /\ \A u \in Threads : u # t => stack'[u] = stack[u]
         /\ stack'[t] # <<>> /\ Top(t)' = f
<1>1. TypeOK
  BY DEF IInv
<1>2. /\ stack' \in [Threads -> Seq(Frame)]
      /\ \A u \in Threads : Len(stack'[u]) = Len(stack[u])
      /\ \A u \in Threads : u # t => stack'[u] = stack[u]
      /\ stack'[t] # <<>>
      /\ stack'[t][Depth(t)] = f
      /\ \A d \in 1..Depth(t) : d # Depth(t) => stack'[t][d] = stack[t][d]
  BY <1>1, ContinueStacks
<1>3. \A u \in Threads : Depth(u)' = Depth(u)
  BY <1>2 DEF Depth
<1>4. Top(t)' = f
  BY <1>2, <1>3 DEF Top
<1>5. StacksValid'
  <2>. SUFFICES ASSUME NEW u \in Threads, NEW d \in 1..Depth(u)
                PROVE  /\ FrameValid(stack[u][d], d)'
                       /\ d < Depth(u) => /\ stack'[u][d].call = "command"
                                          /\ stack'[u][d].pc \in CallsLldb
    BY <1>3 DEF StacksValid
  <2>1. CASE u = t /\ d = Depth(t)
    BY <1>2, <1>3, <2>1 DEF FrameValid
  <2>2. CASE ~(u = t /\ d = Depth(t))
    <3>1. stack'[u][d] = stack[u][d]
      BY <1>2, <2>2
    <3>2. /\ FrameValid(stack[u][d], d)
          /\ d < Depth(u) => stack[u][d].call = "command" /\ stack[u][d].pc \in CallsLldb
      BY DEF IInv, StacksValid
    <3>. QED
      BY <3>1, <3>2 DEF FrameValid, LibraryGrows
  <2>. QED
    BY <2>1, <2>2
<1>. QED
  BY <1>2, <1>3, <1>4, <1>5

LEMMA AdvanceMutex ==
  ASSUME IInv, NEW t \in Threads, stack[t] # <<>>, NEW f \in Frame,
         Continue(t, f), f.call = Top(t).call,
         f.call = "command" => Top(t).pc # "lock" /\ f.pc # "lock",
         UNCHANGED mutex
  PROVE  MutexBalanced'
<1>1. TypeOK
  BY DEF IInv
<1>2. /\ \A u \in Threads : Len(stack'[u]) = Len(stack[u])
      /\ \A u \in Threads : u # t => stack'[u] = stack[u]
      /\ stack'[t] # <<>>
      /\ stack'[t][Depth(t)] = f
  BY <1>1, ContinueStacks
<1>3. /\ \A u \in Threads : Depth(u)' = Depth(u)
      /\ Top(t)' = f
      /\ \A u \in Threads : u # t => Top(u)' = Top(u)
  BY <1>2 DEF Depth, Top
<1>4. Top(t) \in Frame
  BY <1>1, TopTyped
<1>5. \A u \in Threads : Held(u)' = Held(u)
  BY <1>2, <1>3, <1>4 DEF Held, Frame
<1>. QED
  BY <1>5 DEF IInv, MutexBalanced

LEMMA AdvanceLoaders ==
  ASSUME IInv, NEW t \in Threads, stack[t] # <<>>, NEW f \in Frame,
         Continue(t, f), ServesKept,
         Bound(Top(t)) => Bound(f) /\ f.index = Top(t).index
  PROVE  LoaderLives'
<1>1. TypeOK
  BY DEF IInv
<1>2. /\ \A u \in Threads : Len(stack'[u]) = Len(stack[u])
      /\ \A u \in Threads : u # t => stack'[u] = stack[u]
      /\ stack'[t][Depth(t)] = f
      /\ \A d \in 1..Depth(t) : d # Depth(t) => stack'[t][d] = stack[t][d]
  BY <1>1, ContinueStacks
<1>3. \A u \in Threads : Depth(u)' = Depth(u)
  BY <1>2 DEF Depth
<1>. SUFFICES ASSUME NEW i \in DOMAIN translators, translators[i].serves # Dangling
              PROVE  \E u \in Threads : \E d \in 1..Depth(u) :
                       /\ translators[i].serves = <<u, d>>
                       /\ Bound(stack'[u][d])
                       /\ stack'[u][d].index = i
  BY <1>3 DEF LoaderLives, ServesKept, Bound
<1>. PICK u \in Threads : \E d \in 1..Depth(u) :
        /\ translators[i].serves = <<u, d>>
        /\ Bound(stack[u][d])
        /\ stack[u][d].index = i
  BY DEF IInv, LoaderLives
<1>4. PICK d \in 1..Depth(u) :
        /\ translators[i].serves = <<u, d>>
        /\ Bound(stack[u][d])
        /\ stack[u][d].index = i
  OBVIOUS
<1>5. Bound(stack'[u][d]) /\ stack'[u][d].index = i
  <2>1. CASE u = t /\ d = Depth(t)
    BY <1>2, <1>4, <2>1 DEF Top
  <2>2. CASE ~(u = t /\ d = Depth(t))
    BY <1>2, <1>4, <2>2
  <2>. QED
    BY <2>1, <2>2
<1>. QED
  BY <1>4, <1>5
-----------------------------------------------------------------------------
(* Leaving DoExecute by any exit preserves the invariant.                  *)
LEMMA LeaveInvariant ==
  ASSUME IInv, NEW t \in Threads, stack[t] # <<>>,
         Top(t).call = "command", Top(t).pc # "lock",
         NEW status \in {"none", "succeeded", "failed"}, NEW kept,
         DOMAIN kept = DOMAIN translators,
         \A i \in DOMAIN kept : /\ kept[i] \in Translator(Arch \cup {Dangling})
                                /\ kept[i].serves = translators[i].serves
                                /\ kept[i].language = translators[i].language,
         Leave(t, status, kept)
  PROVE  IInv'
<1>1. TypeOK /\ StacksValid /\ TranslatorsMatch /\ MutexBalanced /\ LoaderLives
  BY DEF IInv
<1>0. /\ Depth(t) \in Nat /\ 1 <= Depth(t) /\ Depth(t) <= MaxDepth
      /\ MaxDepth \in Nat
  BY <1>1, TopTyped, BoundsAssumption
<1>2. /\ Depth(t) = Len(stack[t]) /\ Top(t) \in Frame
      /\ Top(t) = stack[t][Depth(t)]
  BY <1>1, TopTyped
<1>3. /\ stack' \in [Threads -> Seq(Frame)]
      /\ Len(stack'[t]) = Depth(t) - 1
      /\ \A u \in Threads : u # t => stack'[u] = stack[u]
      /\ \A d \in 1..Len(stack'[t]) : stack'[t][d] = stack[t][d]
  BY <1>1, PopStacks DEF Leave
<1>4. Depth(t)' = Depth(t) - 1 /\ \A u \in Threads : u # t => Depth(u)' = Depth(u)
  BY <1>3 DEF Depth
<1>5. \A u \in Threads : \A d \in 1..Depth(u)' :
        d \in 1..Depth(u) /\ stack'[u][d] = stack[u][d]
  <2>. SUFFICES ASSUME NEW u \in Threads
                PROVE  \A d \in 1..Depth(u)' :
                         d \in 1..Depth(u) /\ stack'[u][d] = stack[u][d]
    OBVIOUS
  <2>1. CASE u = t
    BY <1>0, <1>2, <1>3, <1>4, <2>1 DEF Depth
  <2>2. CASE u # t
    BY <1>3, <1>4, <2>2
  <2>. QED
    BY <2>1, <2>2
<1>6. /\ translators' = Orphan(kept, <<t, Depth(t)>>, Dangling)
      /\ mutex' = Unlocked
      /\ UNCHANGED <<specpaths, description, registered, process>>
      /\ result' = [result EXCEPT ![t] = status]
  BY DEF Leave, library
<1>7. /\ DOMAIN translators' = DOMAIN translators
      /\ \A i \in DOMAIN translators :
           /\ translators'[i] \in Translator(Arch \cup {Dangling})
           /\ translators'[i].language = translators[i].language
           /\ translators'[i].serves = IF translators[i].serves = <<t, Depth(t)>>
                                       THEN Dangling ELSE translators[i].serves
  BY <1>6 DEF Orphan, Translator
<1>8. mutex.owner = t /\ mutex.count = Depth(t)
  <2>1. Held(t) = Depth(t)
    BY <1>0, <1>2 DEF Held
  <2>. QED
    BY <1>0, <1>1, <1>2, <2>1 DEF MutexBalanced
<1>9. /\ mutex' \in [owner : Threads \cup {NoThread}, count : 0..MaxDepth]
      /\ mutex'.count = Depth(t) - 1
      /\ mutex'.owner = IF Depth(t) = 1 THEN NoThread ELSE t
  BY <1>0, <1>1, <1>6, <1>8 DEF Unlocked, TypeOK
<1>10. TypeOK'
  <2>1. ASSUME NEW u \in Threads PROVE Depth(u)' <= MaxDepth
    <3>1. CASE u = t
      BY <1>0, <1>4, <3>1
    <3>2. CASE u # t
      BY <1>1, <1>4, <3>2 DEF TypeOK
    <3>. QED
      BY <3>1, <3>2
  <2>. QED
    BY <1>1, <1>3, <1>6, <1>7, <1>9, <2>1 DEF TypeOK
<1>11. StacksValid'
  <2>. SUFFICES ASSUME NEW u \in Threads, NEW d \in 1..Depth(u)'
                PROVE  /\ FrameValid(stack[u][d], d)'
                       /\ d < Depth(u)' => /\ stack'[u][d].call = "command"
                                           /\ stack'[u][d].pc \in CallsLldb
    BY DEF StacksValid
  <2>1. d \in 1..Depth(u) /\ stack'[u][d] = stack[u][d]
    BY <1>5
  <2>2. d < Depth(u)' => d < Depth(u)
    BY <1>0, <1>2, <1>4, <2>1
  <2>3. /\ FrameValid(stack[u][d], d)
        /\ d < Depth(u) => stack[u][d].call = "command" /\ stack[u][d].pc \in CallsLldb
    BY <1>1, <2>1 DEF StacksValid
  <2>. QED
    BY <1>6, <1>7, <2>1, <2>2, <2>3 DEF FrameValid
<1>12. TranslatorsMatch'
  BY <1>1, <1>6, <1>7 DEF TranslatorsMatch
<1>13. MutexBalanced'
  <2>1. ASSUME Depth(t) # 1 PROVE Held(t)' = Depth(t) - 1
    <3>1. Depth(t) - 1 \in 1..Depth(t)' /\ Depth(t) - 1 < Depth(t)
      BY <1>0, <1>4, <2>1
    <3>2. Top(t)' = stack[t][Depth(t) - 1]
      BY <1>4, <1>5, <3>1 DEF Top
    <3>3. Top(t)'.call = "command" /\ Top(t)'.pc # "lock"
      BY <1>0, <1>1, <1>2, <3>1, <3>2 DEF StacksValid, CallsLldb
    <3>4. stack'[t] # <<>>
      BY <1>0, <1>3, <2>1, EmptySeq
    <3>. QED
      BY <1>4, <3>3, <3>4 DEF Held
  <2>2. ASSUME Depth(t) = 1 PROVE Held(t)' = 0
    <3>1. stack'[t] = <<>>
      BY <1>3, <2>2, EmptySeq
    <3>. QED
      BY <3>1 DEF Held
  <2>3. ASSUME NEW u \in Threads, u # t PROVE Held(u)' = 0
    <3>1. Held(u)' = Held(u)
      BY <1>3, <2>3 DEF Held, Top, Depth
    <3>. QED
      BY <1>1, <1>8, <2>3, <3>1 DEF MutexBalanced
  <2>. QED
    BY <1>0, <1>2, <1>9, <2>1, <2>2, <2>3, ThreadsAssumption DEF MutexBalanced
<1>14. LoaderLives'
  <2>. SUFFICES ASSUME NEW i \in DOMAIN translators, translators'[i].serves # Dangling
                PROVE  \E u \in Threads : \E d \in 1..Depth(u)' :
                         /\ translators'[i].serves = <<u, d>>
                         /\ Bound(stack'[u][d])
                         /\ stack'[u][d].index = i
    BY <1>7 DEF LoaderLives, Bound
  <2>1. /\ translators[i].serves # <<t, Depth(t)>>
        /\ translators'[i].serves = translators[i].serves
    BY <1>7
  <2>. PICK u \in Threads : \E d \in 1..Depth(u) :
         /\ translators[i].serves = <<u, d>>
         /\ Bound(stack[u][d])
         /\ stack[u][d].index = i
    BY <1>1, <2>1 DEF LoaderLives
  <2>2. PICK d \in 1..Depth(u) : /\ translators[i].serves = <<u, d>>
                                 /\ Bound(stack[u][d])
                                 /\ stack[u][d].index = i
    OBVIOUS
  <2>3. d \in 1..Depth(u)'
    BY <1>0, <1>2, <1>4, <2>1, <2>2
  <2>. QED
    BY <1>5, <2>1, <2>2, <2>3
<1>. QED
  BY <1>10, <1>11, <1>12, <1>13, <1>14 DEF IInv

-----------------------------------------------------------------------------
(* A step of an entry point that stays where it is, keeps the mutex as it  *)
(* is, and points no Sleigh object elsewhere.                              *)
LEMMA AdvanceInvariant ==
  ASSUME IInv, NEW t \in Threads, stack[t] # <<>>, NEW f \in Frame,
         Continue(t, f), f.call = Top(t).call,
         f.call = "command" => Top(t).pc # "lock" /\ f.pc # "lock",
         LibraryGrows, ServesKept, FrameValid(f, Depth(t))',
         Bound(Top(t)) => Bound(f) /\ f.index = Top(t).index,
         specpaths' \in 0..MaxScans,
         description' \in Seq(LanguageDescription),
         \A i \in DOMAIN translators' :
           translators'[i] \in Translator(Arch \cup {Dangling}),
         UNCHANGED <<mutex, registered, result, process>>
  PROVE  IInv'
<1>1. TypeOK /\ TranslatorsMatch
  BY DEF IInv
<1>2. /\ StacksValid'
      /\ stack' \in [Threads -> Seq(Frame)]
      /\ \A u \in Threads : Depth(u)' = Depth(u)
  BY AdvanceStacks
<1>3. MutexBalanced'
  BY AdvanceMutex
<1>4. LoaderLives'
  BY AdvanceLoaders
<1>5. DOMAIN translators' \subseteq DOMAIN description'
  BY <1>1 DEF TypeOK, LibraryGrows, ServesKept
<1>6. \A u \in Threads : Depth(u)' <= MaxDepth
  BY <1>1, <1>2 DEF TypeOK
<1>7. TypeOK'
  BY <1>1, <1>2, <1>5, <1>6 DEF TypeOK
<1>8. TranslatorsMatch'
  BY <1>1 DEF TypeOK, TranslatorsMatch, LibraryGrows, ServesKept
<1>. QED
  BY <1>2, <1>3, <1>4, <1>7, <1>8 DEF IInv

(* Such a step that leaves the static vectors alone.                       *)
LEMMA MoveInvariant ==
  ASSUME IInv, NEW t \in Threads, stack[t] # <<>>, NEW f \in Frame,
         Continue(t, f), f.call = Top(t).call,
         f.call = "command" => Top(t).pc # "lock" /\ f.pc # "lock",
         FrameValid(f, Depth(t)),
         Bound(Top(t)) => Bound(f) /\ f.index = Top(t).index,
         UNCHANGED <<library, mutex, registered, result, process>>
  PROVE  IInv'
<1>1. UNCHANGED <<specpaths, description, translators>>
  BY DEF library
<1>2. TypeOK
  BY DEF IInv
<1>3. LibraryGrows /\ ServesKept
  BY <1>1 DEF LibraryGrows, ServesKept
<1>4. Depth(t)' = Depth(t)
  BY <1>2, ContinueStacks DEF Depth
<1>5. FrameValid(f, Depth(t))'
  BY <1>1, <1>4 DEF FrameValid
<1>6. /\ specpaths' \in 0..MaxScans
      /\ description' \in Seq(LanguageDescription)
      /\ \A i \in DOMAIN translators' :
           translators'[i] \in Translator(Arch \cup {Dangling})
  BY <1>1, <1>2 DEF TypeOK
<1>. QED
  BY <1>3, <1>5, <1>6, AdvanceInvariant

(* The process dies.                                                       *)
LEMMA DieInvariant ==
  ASSUME IInv, NEW how \in {"terminated", "crashed"}, Die(how)
  PROVE  IInv'
<1>1. /\ UNCHANGED <<specpaths, description, translators, mutex, stack,
                     registered, result>>
      /\ process' = how
  BY DEF Die, library
<1>2. TypeOK'
  BY <1>1 DEF IInv, TypeOK, Depth
<1>3. StacksValid'
  BY <1>1 DEF IInv, StacksValid, FrameValid, Depth
<1>4. TranslatorsMatch'
  BY <1>1 DEF IInv, TranslatorsMatch
<1>5. MutexBalanced'
  BY <1>1 DEF IInv, MutexBalanced, Held, Depth, Top
<1>6. LoaderLives'
  BY <1>1 DEF IInv, LoaderLives, Bound, Depth
<1>. QED
  BY <1>2, <1>3, <1>4, <1>5, <1>6 DEF IInv

(* The Sleigh objects stay bound while the bound frames stay.              *)
LEMMA LoadersFollow ==
  ASSUME LoaderLives, UNCHANGED translators,
         \A u \in Threads : \A d \in 1..Depth(u) : Bound(stack[u][d]) =>
           d \in 1..Depth(u)' /\ stack'[u][d] = stack[u][d]
  PROVE  LoaderLives'
<1>. SUFFICES ASSUME NEW i \in DOMAIN translators, translators[i].serves # Dangling
              PROVE  \E u \in Threads : \E d \in 1..Depth(u)' :
                       /\ translators[i].serves = <<u, d>>
                       /\ Bound(stack'[u][d])
                       /\ stack'[u][d].index = i
  BY DEF LoaderLives, Bound
<1>. PICK u \in Threads : \E d \in 1..Depth(u) :
       /\ translators[i].serves = <<u, d>>
       /\ Bound(stack[u][d])
       /\ stack[u][d].index = i
  BY DEF LoaderLives
<1>1. PICK d \in 1..Depth(u) : /\ translators[i].serves = <<u, d>>
                               /\ Bound(stack[u][d])
                               /\ stack[u][d].index = i
  OBVIOUS
<1>. QED
  BY <1>1

(* An entry point is called.                                               *)
LEMMA EnterInvariant ==
  ASSUME IInv, NEW t \in Threads, NEW f \in Frame,
         stack' = [stack EXCEPT ![t] = Append(@, f)],
         \/ f.call = "plugin" /\ f.pc = "start" /\ stack[t] = <<>>
         \/ f.call = "command" /\ f.pc = "lock",
         Depth(t) < MaxDepth,
         stack[t] # <<>> => Top(t).call = "command" /\ Top(t).pc \in CallsLldb,
         UNCHANGED <<library, mutex, registered, result, process>>
  PROVE  IInv'
<1>1. TypeOK /\ StacksValid /\ TranslatorsMatch /\ MutexBalanced /\ LoaderLives
  BY DEF IInv
<1>2. UNCHANGED <<specpaths, description, translators, mutex, registered,
                  result, process>>
  BY DEF library
<1>3. /\ stack' \in [Threads -> Seq(Frame)]
      /\ Len(stack'[t]) = Depth(t) + 1
      /\ stack'[t] # <<>>
      /\ \A u \in Threads : u # t => stack'[u] = stack[u]
      /\ stack'[t][Depth(t) + 1] = f
      /\ \A d \in 1..Depth(t) : stack'[t][d] = stack[t][d]
  BY <1>1, PushStacks
<1>4. Depth(t) \in Nat /\ MaxDepth \in Nat /\ (stack[t] = <<>> <=> Depth(t) = 0)
  BY <1>1, EmptySeq, LenProperties, BoundsAssumption DEF TypeOK, Depth
<1>5. /\ Depth(t)' = Depth(t) + 1
      /\ \A u \in Threads : u # t => Depth(u)' = Depth(u)
      /\ Top(t)' = f
  BY <1>3 DEF Depth, Top
<1>6. TypeOK'
  <2>1. ASSUME NEW u \in Threads PROVE Depth(u)' <= MaxDepth
    <3>1. CASE u = t
      BY <1>4, <1>5, <3>1
    <3>2. CASE u # t
      BY <1>1, <1>5, <3>2 DEF TypeOK
    <3>. QED
      BY <3>1, <3>2
  <2>. QED
    BY <1>1, <1>2, <1>3, <2>1 DEF TypeOK
<1>7. StacksValid'
  <2>. SUFFICES ASSUME NEW u \in Threads, NEW d \in 1..Depth(u)'
                PROVE  /\ FrameValid(stack[u][d], d)'
                       /\ d < Depth(u)' => /\ stack'[u][d].call = "command"
                                           /\ stack'[u][d].pc \in CallsLldb
    BY DEF StacksValid
  <2>1. CASE u = t /\ d = Depth(t) + 1
    BY <1>3, <1>4, <1>5, <2>1 DEF FrameValid, PluginPcs, CommandPcs, IndexedPcs, BoundPcs
  <2>2. CASE u = t /\ d # Depth(t) + 1
    <3>1. d \in 1..Depth(t)
      BY <1>4, <1>5, <2>2
    <3>2. stack'[t][d] = stack[t][d]
      BY <1>3, <3>1
    <3>3. /\ FrameValid(stack[t][d], d)
          /\ d < Depth(t) => stack[t][d].call = "command" /\ stack[t][d].pc \in CallsLldb
      BY <1>1, <3>1 DEF StacksValid
    <3>4. d = Depth(t) => stack[t][d].call = "command" /\ stack[t][d].pc \in CallsLldb
      BY <1>4, <3>1 DEF Top
    <3>5. stack[t][d].call = "command" /\ stack[t][d].pc \in CallsLldb
      <4>1. d = Depth(t) \/ d < Depth(t)
        BY <1>4, <3>1
      <4>. QED
        BY <3>3, <3>4, <4>1
    <3>6. FrameValid(stack[t][d], d)'
      BY <1>2, <3>2, <3>3 DEF FrameValid
    <3>. QED
      BY <2>2, <3>2, <3>5, <3>6
  <2>3. CASE u # t
    BY <1>1, <1>2, <1>3, <1>5, <2>3 DEF StacksValid, FrameValid
  <2>. QED
    BY <2>1, <2>2, <2>3
<1>8. TranslatorsMatch'
  BY <1>1, <1>2 DEF TranslatorsMatch
<1>9. MutexBalanced'
  <2>1. ASSUME NEW u \in Threads, u # t PROVE Held(u)' = Held(u)
    BY <1>3, <1>5, <2>1 DEF Held, Top, Depth
  <2>2. Held(t)' = Held(t)
    <3>1. CASE f.call = "plugin"
      BY <1>3, <1>5, <3>1 DEF Held
    <3>2. CASE f.call = "command" /\ f.pc = "lock"
      <4>1. Held(t)' = Depth(t)
        BY <1>3, <1>4, <1>5, <3>2 DEF Held
      <4>2. Held(t) = Depth(t)
        BY <1>4 DEF Held, CallsLldb
      <4>. QED
        BY <4>1, <4>2
    <3>. QED
      BY <3>1, <3>2
  <2>. QED
    BY <1>1, <1>2, <2>1, <2>2 DEF MutexBalanced
<1>10. LoaderLives'
  <2>1. ASSUME NEW u \in Threads, NEW d \in 1..Depth(u)
        PROVE  d \in 1..Depth(u)' /\ stack'[u][d] = stack[u][d]
    <3>1. CASE u = t
      BY <1>3, <1>4, <1>5, <3>1
    <3>2. CASE u # t
      BY <1>3, <1>5, <3>2
    <3>. QED
      BY <3>1, <3>2
  <2>. QED
    BY <1>1, <1>2, <2>1, LoadersFollow
<1>. QED
  BY <1>6, <1>7, <1>8, <1>9, <1>10 DEF IInv

(* PluginInitialize returns, after AddCommand or with false.               *)
LEMMA PluginReturns ==
  ASSUME IInv, NEW t \in Threads, stack[t] # <<>>, Top(t).call = "plugin",
         stack' = [stack EXCEPT ![t] = Pop(@)],
         description' \in Seq(LanguageDescription), LibraryGrows,
         registered' \subseteq Threads,
         UNCHANGED <<specpaths, translators, mutex, result, process>>
  PROVE  IInv'
<1>1. TypeOK /\ StacksValid /\ TranslatorsMatch /\ MutexBalanced /\ LoaderLives
  BY DEF IInv
<1>2. /\ Depth(t) \in Nat /\ 1 <= Depth(t) /\ Depth(t) <= MaxDepth
      /\ Top(t) \in Frame /\ Top(t) = stack[t][Depth(t)]
  BY <1>1, TopTyped
<1>3. Depth(t) = 1 /\ ~Bound(stack[t][1])
  BY <1>1, <1>2 DEF StacksValid, FrameValid, Bound, BoundPcs, PluginPcs, CollectPcs
<1>4. /\ stack' \in [Threads -> Seq(Frame)]
      /\ Len(stack'[t]) = Depth(t) - 1
      /\ \A u \in Threads : u # t => stack'[u] = stack[u]
  BY <1>1, PopStacks
<1>5. /\ stack'[t] = <<>> /\ Depth(t)' = 0
      /\ \A u \in Threads : u # t => Depth(u)' = Depth(u)
  BY <1>3, <1>4, EmptySeq DEF Depth
<1>6. TypeOK'
  <2>1. ASSUME NEW u \in Threads PROVE Depth(u)' <= MaxDepth
    <3>1. CASE u = t
      BY <1>2, <1>5, <3>1, BoundsAssumption
    <3>2. CASE u # t
      BY <1>1, <1>5, <3>2 DEF TypeOK
    <3>. QED
      BY <3>1, <3>2
  <2>2. DOMAIN translators' \subseteq DOMAIN description'
    BY <1>1 DEF TypeOK, LibraryGrows
  <2>. QED
    BY <1>1, <1>4, <2>1, <2>2 DEF TypeOK
<1>7. StacksValid'
  <2>. SUFFICES ASSUME NEW u \in Threads, NEW d \in 1..Depth(u)'
                PROVE  /\ FrameValid(stack[u][d], d)'
                       /\ d < Depth(u)' => /\ stack'[u][d].call = "command"
                                           /\ stack'[u][d].pc \in CallsLldb
    BY DEF StacksValid
  <2>1. u # t
    BY <1>5
  <2>2. d \in 1..Depth(u) /\ stack'[u] = stack[u] /\ Depth(u)' = Depth(u)
    BY <1>4, <1>5, <2>1
  <2>3. /\ FrameValid(stack[u][d], d)
        /\ d < Depth(u) => stack[u][d].call = "command" /\ stack[u][d].pc \in CallsLldb
    BY <1>1, <2>2 DEF StacksValid
  <2>. QED
    BY <2>2, <2>3 DEF FrameValid, LibraryGrows
<1>8. TranslatorsMatch'
  BY <1>1 DEF TypeOK, TranslatorsMatch, LibraryGrows
<1>9. MutexBalanced'
  <2>1. \A u \in Threads : u # t => Held(u)' = Held(u)
    BY <1>4, <1>5 DEF Held, Top, Depth
  <2>2. Held(t)' = 0 /\ Held(t) = 0
    BY <1>5 DEF Held
  <2>. QED
    BY <1>1, <2>1, <2>2 DEF MutexBalanced
<1>10. LoaderLives'
  <2>1. ASSUME NEW u \in Threads, NEW d \in 1..Depth(u), Bound(stack[u][d])
        PROVE  d \in 1..Depth(u)' /\ stack'[u][d] = stack[u][d]
    <3>1. u # t
      BY <1>3, <2>1
    <3>. QED
      BY <1>4, <1>5, <3>1
  <2>. QED
    BY <1>1, <2>1, LoadersFollow
<1>. QED
  BY <1>6, <1>7, <1>8, <1>9, <1>10 DEF IInv
-----------------------------------------------------------------------------
(* What a running thread's innermost frame satisfies.                      *)
LEMMA TopValid ==
  ASSUME IInv, NEW t \in Threads, NEW pc, Runs(t, pc)
  PROVE  /\ stack[t] # <<>> /\ Top(t) \in Frame /\ Top(t).pc = pc
         /\ FrameValid(Top(t), Depth(t))
         /\ Depth(t) \in Nat /\ 1 <= Depth(t) /\ Depth(t) <= MaxDepth
<1>1. TypeOK /\ StacksValid /\ stack[t] # <<>> /\ Top(t).pc = pc
  BY DEF IInv, Runs, At
<1>2. /\ Depth(t) \in Nat /\ 1 <= Depth(t) /\ Depth(t) <= MaxDepth
      /\ Top(t) \in Frame /\ Top(t) = stack[t][Depth(t)]
  BY <1>1, TopTyped
<1>3. FrameValid(Top(t), Depth(t))
  BY <1>1, <1>2 DEF StacksValid
<1>. QED
  BY <1>1, <1>2, <1>3

LEMMA InitInvariant ==
  ASSUME Init
  PROVE  IInv
<1>1. TypeOK
  BY EmptySeq, BoundsAssumption DEF Init, TypeOK, Depth
<1>2. StacksValid
  BY EmptySeq DEF Init, StacksValid, Depth
<1>3. TranslatorsMatch /\ LoaderLives
  BY DEF Init, TranslatorsMatch, LoaderLives
<1>4. MutexBalanced
  BY ThreadsAssumption DEF Init, MutexBalanced, Held
<1>. QED
  BY <1>1, <1>2, <1>3, <1>4 DEF IInv

LEMMA PluginInitializeInvariant ==
  ASSUME IInv, NEW t \in Threads, PluginInitialize(t)
  PROVE  IInv'
<1>. DEFINE f == Called("plugin", "start")
<1>1. f \in Frame /\ f.call = "plugin" /\ f.pc = "start"
  BY EmptySeq DEF Called, Frame, PluginPcs
<1>2. /\ stack[t] = <<>> /\ UNCHANGED <<library, mutex, registered, result, process>>
      /\ stack' = [stack EXCEPT ![t] = <<f>>]
  BY DEF PluginInitialize
<1>. HIDE DEF f
<1>3. stack' = [stack EXCEPT ![t] = Append(@, f)]
  <2>1. Append(<<>>, f) = <<f>>
    OBVIOUS
  <2>. QED
    BY <1>2, <2>1
<1>4. Depth(t) < MaxDepth
  BY <1>2, BoundsAssumption, EmptySeq DEF Depth
<1>. QED
  BY <1>1, <1>2, <1>3, <1>4, EnterInvariant

LEMMA DoExecuteInvariant ==
  ASSUME IInv, NEW t \in Threads, DoExecute(t)
  PROVE  IInv'
<1>. DEFINE f == Called("command", "lock")
<1>1. f \in Frame /\ f.call = "command" /\ f.pc = "lock"
  BY EmptySeq DEF Called, Frame, CommandPcs
<1>2. /\ stack' = [stack EXCEPT ![t] = Append(@, f)]
      /\ UNCHANGED <<library, mutex, registered, result, process>>
      /\ stack[t] # <<>> =>
           Depth(t) < MaxDepth /\ Top(t).call = "command" /\ Top(t).pc \in CallsLldb
  BY DEF DoExecute
<1>. HIDE DEF f
<1>3. Depth(t) < MaxDepth
  BY <1>2, BoundsAssumption, EmptySeq DEF Depth
<1>. QED
  BY <1>1, <1>2, <1>3, EnterInvariant

LEMMA StartLibraryInvariant ==
  ASSUME IInv, NEW t \in Threads, StartLibrary(t)
  PROVE  IInv'
<1>. PICK f : f = [Top(t) EXCEPT !.pc = "check"]
  OBVIOUS
<1>1. Runs(t, "start") /\ Continue(t, f)
      /\ UNCHANGED <<description, translators, mutex, registered, result, process>>
  BY DEF StartLibrary, GoTo
<1>2. /\ stack[t] # <<>> /\ Top(t) \in Frame /\ Top(t).pc = "start"
      /\ FrameValid(Top(t), Depth(t))
  BY <1>1, TopValid
<1>3. TypeOK
  BY DEF IInv
<1>4. specpaths' \in 0..MaxScans
  <2>1. PICK scanned \in {0, 1} : /\ specpaths + scanned <= MaxScans
                                  /\ specpaths' = specpaths + scanned
    BY DEF StartLibrary
  <2>. QED
    BY <1>3, <2>1, BoundsAssumption DEF TypeOK
<1>5. f \in Frame /\ f.pc = "check" /\ f.call = Top(t).call /\ f.call = "plugin"
  BY <1>2 DEF Frame, FrameValid, CollectPcs, CommandPcs
<1>6. FrameValid(f, Depth(t))
  BY <1>2, <1>5 DEF FrameValid, CollectPcs, IndexedPcs, BoundPcs
<1>7. Depth(t)' = Depth(t)
  BY <1>1, <1>2, <1>3, <1>5, ContinueStacks DEF Depth
<1>8. FrameValid(f, Depth(t))'
  BY <1>1, <1>6, <1>7 DEF FrameValid
<1>9. LibraryGrows /\ ServesKept /\ ~Bound(Top(t))
  BY <1>1, <1>2 DEF LibraryGrows, ServesKept, Bound, BoundPcs
<1>10. /\ description' \in Seq(LanguageDescription)
       /\ \A i \in DOMAIN translators' :
            translators'[i] \in Translator(Arch \cup {Dangling})
  BY <1>1, <1>3 DEF TypeOK
<1>. QED
  BY <1>1, <1>2, <1>4, <1>5, <1>8, <1>9, <1>10, AdvanceInvariant

(* collectSpecFiles moves on to AddCommand or to resolveArchitecture.      *)
LEMMA CollectedInvariant ==
  ASSUME IInv, NEW t \in Threads, NEW pc \in CollectPcs, Runs(t, pc),
         GoTo(t, Collected(Top(t))),
         UNCHANGED <<library, mutex, registered, result, process>>
  PROVE  IInv'
<1>. DEFINE f == [Top(t) EXCEPT !.pc = Collected(Top(t))]
<1>1. Continue(t, f)
  BY DEF GoTo
<1>2. /\ stack[t] # <<>> /\ Top(t) \in Frame /\ Top(t).pc = pc
      /\ FrameValid(Top(t), Depth(t))
  BY TopValid
<1>3. /\ f \in Frame /\ f.call = Top(t).call
      /\ f.pc = IF f.call = "plugin" THEN "register" ELSE "language"
  BY <1>2 DEF Frame, Collected, PluginPcs, CommandPcs
<1>4. FrameValid(f, Depth(t))
  BY <1>2, <1>3 DEF FrameValid, Frame, PluginPcs, CommandPcs, IndexedPcs, BoundPcs
<1>5. ~Bound(Top(t)) /\ Top(t).pc # "lock" /\ f.pc # "lock"
  BY <1>2, <1>3 DEF Bound, BoundPcs, CollectPcs
<1>. HIDE DEF f
<1>. QED
  BY <1>1, <1>2, <1>3, <1>4, <1>5, MoveInvariant

LEMMA CollectSpecFilesInvariant ==
  ASSUME IInv, NEW t \in Threads, CollectSpecFiles(t)
  PROVE  IInv'
<1>1. Runs(t, "check") /\ UNCHANGED <<library, mutex, registered, result, process>>
  BY DEF CollectSpecFiles
<1>2. CASE description # <<>>
  <2>1. GoTo(t, Collected(Top(t)))
    BY <1>2 DEF CollectSpecFiles
  <2>2. "check" \in CollectPcs
    BY DEF CollectPcs
  <2>. QED
    BY <1>1, <2>1, <2>2, CollectedInvariant
<1>3. CASE description = <<>>
  <2>. DEFINE f == [Top(t) EXCEPT !.pc = "load", !.files = MatchList(specpaths)]
  <2>1. Continue(t, f)
    BY <1>3 DEF CollectSpecFiles
  <2>2. /\ stack[t] # <<>> /\ Top(t) \in Frame /\ Top(t).pc = "check"
        /\ FrameValid(Top(t), Depth(t))
    BY <1>1, TopValid
  <2>3. MatchList(specpaths) \in Seq(Seq(Languages))
    BY MatchListType, BoundsAssumption DEF IInv, TypeOK
  <2>4. f \in Frame /\ f.call = Top(t).call /\ f.pc = "load"
    BY <2>2, <2>3 DEF Frame, CollectPcs
  <2>5. FrameValid(f, Depth(t))
    BY <2>2, <2>4 DEF FrameValid, CollectPcs, IndexedPcs, BoundPcs
  <2>6. ~Bound(Top(t)) /\ Top(t).pc # "lock"
    BY <2>2 DEF Bound, BoundPcs
  <2>. HIDE DEF f
  <2>. QED
    BY <1>1, <2>1, <2>2, <2>4, <2>5, <2>6, MoveInvariant
<1>. QED
  BY <1>2, <1>3

LEMMA SpecFilesLoadedInvariant ==
  ASSUME IInv, NEW t \in Threads, SpecFilesLoaded(t)
  PROVE  IInv'
<1>1. "load" \in CollectPcs
  BY DEF CollectPcs
<1>. QED
  BY <1>1, CollectedInvariant DEF SpecFilesLoaded

LEMMA LoadLanguageDescriptionInvariant ==
  ASSUME IInv, NEW t \in Threads, LoadLanguageDescription(t)
  PROVE  IInv'
<1>1. /\ Runs(t, "load") /\ Top(t).files # <<>>
      /\ UNCHANGED <<specpaths, translators, mutex, registered, result>>
  BY DEF LoadLanguageDescription
<1>2. PICK outcome \in LoadOutcomes(Head(Top(t).files)) :
        /\ description' = Extended(outcome)
        /\ IF outcome.threw /\ Top(t).call = "command"
           THEN process' = "terminated" /\ UNCHANGED stack
           ELSE /\ UNCHANGED process
                /\ IF outcome.threw
                   THEN stack' = [stack EXCEPT ![t] = Pop(@)]
                   ELSE Continue(t, [Top(t) EXCEPT !.files = Tail(@)])
  BY DEF LoadLanguageDescription
<1>3. /\ stack[t] # <<>> /\ Top(t) \in Frame /\ Top(t).pc = "load"
      /\ FrameValid(Top(t), Depth(t))
  BY <1>1, TopValid
<1>4. TypeOK /\ StacksValid /\ TranslatorsMatch /\ MutexBalanced /\ LoaderLives
  BY DEF IInv
<1>5. Head(Top(t).files) \in Seq(Languages) /\ Tail(Top(t).files) \in Seq(Seq(Languages))
  BY <1>1, <1>3, HeadTailProperties DEF Frame
<1>6. outcome.entries \in Seq(LanguageDescription) /\ outcome.threw \in BOOLEAN
  BY <1>5, LoadOutcomesType
<1>7. /\ description' \in Seq(LanguageDescription)
      /\ Len(description') = Len(description) + Len(outcome.entries)
      /\ \A i \in 1..Len(description) : description'[i] = description[i]
  BY <1>2, <1>4, <1>6, ConcatProperties DEF Extended, TypeOK
<1>8. LibraryGrows /\ ServesKept
  <2>1. DOMAIN description = 1..Len(description)
    BY <1>4, LenProperties DEF TypeOK
  <2>2. DOMAIN description' = 1..Len(description')
    BY <1>7, LenProperties
  <2>3. Len(description) \in Nat /\ Len(outcome.entries) \in Nat
    BY <1>4, <1>6, LenProperties DEF TypeOK
  <2>. QED
    BY <1>1, <1>7, <2>1, <2>2, <2>3 DEF LibraryGrows, ServesKept
<1>9. CASE outcome.threw /\ Top(t).call = "command"
  <2>1. process' = "terminated" /\ UNCHANGED stack
    BY <1>2, <1>9
  <2>2. TypeOK'
    <3>1. DOMAIN translators' \subseteq DOMAIN description'
      BY <1>1, <1>4, <1>8 DEF TypeOK, LibraryGrows
    <3>. QED
      BY <1>1, <1>4, <1>7, <2>1, <3>1 DEF TypeOK, Depth
  <2>3. StacksValid'
    <3>. SUFFICES ASSUME NEW u \in Threads, NEW d \in 1..Depth(u)'
                  PROVE  /\ FrameValid(stack[u][d], d)'
                         /\ d < Depth(u)' => /\ stack'[u][d].call = "command"
                                             /\ stack'[u][d].pc \in CallsLldb
      BY DEF StacksValid
    <3>1. Depth(u)' = Depth(u)
      BY <2>1 DEF Depth
    <3>2. /\ FrameValid(stack[u][d], d)
          /\ d < Depth(u) => stack[u][d].call = "command" /\ stack[u][d].pc \in CallsLldb
      BY <1>4, <3>1 DEF StacksValid
    <3>. QED
      BY <1>8, <2>1, <3>1, <3>2 DEF FrameValid, LibraryGrows
  <2>4. TranslatorsMatch'
    BY <1>1, <1>4, <1>8 DEF TypeOK, TranslatorsMatch, LibraryGrows
  <2>5. MutexBalanced'
    BY <1>1, <1>4, <2>1 DEF MutexBalanced, Held, Top, Depth
  <2>6. LoaderLives'
    BY <1>1, <1>4, <2>1 DEF LoaderLives, Bound, Depth
  <2>. QED
    BY <2>2, <2>3, <2>4, <2>5, <2>6 DEF IInv
<1>10. CASE outcome.threw /\ Top(t).call # "command"
  <2>1. /\ UNCHANGED process
        /\ stack' = [stack EXCEPT ![t] = Pop(@)]
    BY <1>2, <1>10
  <2>2. Top(t).call = "plugin"
    BY <1>3, <1>10 DEF Frame
  <2>3. registered' \subseteq Threads
    BY <1>1, <1>4 DEF TypeOK
  <2>. QED
    BY <1>1, <1>3, <1>7, <1>8, <2>1, <2>2, <2>3, PluginReturns
<1>11. CASE ~outcome.threw
  <2>. PICK f : f = [Top(t) EXCEPT !.files = Tail(@)]
    OBVIOUS
  <2>1. UNCHANGED process /\ Continue(t, f)
    BY <1>2, <1>11
  <2>2. f \in Frame /\ f.call = Top(t).call /\ f.pc = "load"
    BY <1>3, <1>5 DEF Frame
  <2>3. FrameValid(f, Depth(t))
    BY <1>3, <2>2 DEF FrameValid, CollectPcs, IndexedPcs, BoundPcs
  <2>4. Depth(t)' = Depth(t)
    BY <1>3, <1>4, <2>1, <2>2, ContinueStacks DEF Depth
  <2>5. FrameValid(f, Depth(t))'
    BY <1>1, <1>8, <2>3, <2>4 DEF FrameValid, LibraryGrows
  <2>6. ~Bound(Top(t))
    BY <1>3 DEF Bound, BoundPcs
  <2>7. /\ specpaths' \in 0..MaxScans
        /\ \A i \in DOMAIN translators' :
             translators'[i] \in Translator(Arch \cup {Dangling})
    BY <1>1, <1>4 DEF TypeOK
  <2>. QED
    BY <1>1, <1>3, <1>7, <1>8, <2>1, <2>2, <2>5, <2>6, <2>7, AdvanceInvariant
<1>. QED
  BY <1>6, <1>9, <1>10, <1>11

LEMMA AddCommandInvariant ==
  ASSUME IInv, NEW t \in Threads, AddCommand(t)
  PROVE  IInv'
<1>1. /\ Runs(t, "register") /\ stack' = [stack EXCEPT ![t] = Pop(@)]
      /\ registered' = registered \cup {t}
      /\ UNCHANGED <<specpaths, description, translators, mutex, result, process>>
  BY DEF AddCommand, library
<1>2. stack[t] # <<>> /\ Top(t) \in Frame /\ Top(t).pc = "register"
      /\ FrameValid(Top(t), Depth(t))
  BY <1>1, TopValid
<1>3. Top(t).call = "plugin"
  BY <1>2 DEF Frame, FrameValid, CollectPcs, CommandPcs
<1>4. LibraryGrows /\ description' \in Seq(LanguageDescription) /\ registered' \subseteq Threads
  BY <1>1 DEF LibraryGrows, IInv, TypeOK
<1>. QED
  BY <1>1, <1>2, <1>3, <1>4, PluginReturns
-----------------------------------------------------------------------------
(* A frame of DoExecute past the lock_guard.                               *)
LEMMA CommandTop ==
  ASSUME IInv, NEW t \in Threads, NEW pc \in CommandPcs, Runs(t, pc)
  PROVE  Top(t).call = "command"
<1>1. Top(t) \in Frame /\ Top(t).pc = pc /\ FrameValid(Top(t), Depth(t))
  BY TopValid
<1>. QED
  BY <1>1 DEF Frame, FrameValid, PluginPcs, CollectPcs, CommandPcs

LEMMA ReturnInvariant ==
  ASSUME IInv, NEW t \in Threads, NEW pc \in CommandPcs \ {"lock"}, Runs(t, pc),
         NEW status \in {"none", "succeeded", "failed"}, Return(t, status)
  PROVE  IInv'
<1>1. stack[t] # <<>> /\ Top(t).pc # "lock"
  BY TopValid
<1>2. Top(t).call = "command"
  BY CommandTop
<1>3. \A i \in DOMAIN translators : translators[i] \in Translator(Arch \cup {Dangling})
  BY DEF IInv, TypeOK
<1>4. Leave(t, status, translators)
  BY DEF Return
<1>. QED
  BY <1>1, <1>2, <1>3, <1>4, LeaveInvariant

(* A step between two points of DoExecute with a translator.               *)
LEMMA BoundMoveInvariant ==
  ASSUME IInv, NEW t \in Threads, NEW from \in BoundPcs, Runs(t, from),
         NEW pc \in BoundPcs, GoTo(t, pc),
         UNCHANGED <<library, mutex, registered, result, process>>
  PROVE  IInv'
<1>. PICK f : f = [Top(t) EXCEPT !.pc = pc]
  OBVIOUS
<1>1. Continue(t, f)
  BY DEF GoTo
<1>2. stack[t] # <<>> /\ Top(t) \in Frame /\ Top(t).pc = from
      /\ FrameValid(Top(t), Depth(t))
  BY TopValid
<1>3. from \in CommandPcs /\ pc \in CommandPcs /\ from # "lock" /\ pc # "lock"
  BY DEF BoundPcs, CommandPcs
<1>4. /\ f \in Frame /\ f.pc = pc /\ f.call = Top(t).call /\ f.index = Top(t).index
      /\ f.language = Top(t).language
  BY <1>2, <1>3 DEF Frame
<1>5. Top(t).call = "command"
  BY <1>3, CommandTop
<1>6. FrameValid(f, Depth(t))
  BY <1>2, <1>3, <1>4, <1>5 DEF FrameValid, IndexedPcs
<1>7. Bound(f)
  BY <1>4 DEF Bound
<1>. QED
  BY <1>1, <1>2, <1>3, <1>4, <1>6, <1>7, MoveInvariant

LEMMA LockInvariant ==
  ASSUME IInv, NEW t \in Threads, Lock(t)
  PROVE  IInv'
<1>. PICK f : f = [Top(t) EXCEPT !.pc = "resolve"]
  OBVIOUS
<1>1. /\ Runs(t, "lock") /\ Continue(t, f)
      /\ mutex.owner \in {NoThread, t}
      /\ mutex' = [owner |-> t, count |-> mutex.count + 1]
      /\ UNCHANGED <<specpaths, description, translators, registered, result, process>>
  BY DEF Lock, MayLock, GoTo, library
<1>2. /\ stack[t] # <<>> /\ Top(t) \in Frame /\ Top(t).pc = "lock"
      /\ FrameValid(Top(t), Depth(t))
      /\ Depth(t) \in Nat /\ 1 <= Depth(t) /\ Depth(t) <= MaxDepth
  BY <1>1, TopValid
<1>3. Top(t).call = "command"
  BY <1>1, CommandTop DEF CommandPcs
<1>4. TypeOK /\ TranslatorsMatch /\ MutexBalanced
  BY DEF IInv
<1>5. f \in Frame /\ f.pc = "resolve" /\ f.call = "command"
  BY <1>2, <1>3 DEF Frame, CommandPcs
<1>6. /\ \A u \in Threads : Len(stack'[u]) = Len(stack[u])
      /\ stack'[t][Depth(t)] = f
  BY <1>1, <1>2, <1>4, <1>5, ContinueStacks
<1>7. LibraryGrows /\ ServesKept /\ ~Bound(Top(t))
  BY <1>1, <1>2 DEF LibraryGrows, ServesKept, Bound, BoundPcs
<1>8. FrameValid(f, Depth(t))'
  BY <1>5 DEF FrameValid, CommandPcs, IndexedPcs, BoundPcs
<1>9. /\ StacksValid'
      /\ stack' \in [Threads -> Seq(Frame)]
      /\ \A u \in Threads : Depth(u)' = Depth(u)
      /\ \A u \in Threads : u # t => stack'[u] = stack[u]
      /\ stack'[t] # <<>> /\ Top(t)' = f
  BY <1>1, <1>2, <1>3, <1>5, <1>7, <1>8, AdvanceStacks
<1>10. LoaderLives'
  BY <1>1, <1>2, <1>5, <1>7, AdvanceLoaders
<1>11. Held(t) = Depth(t) - 1
  BY <1>2, <1>3 DEF Held
<1>12. mutex.count = Depth(t) - 1
  BY <1>1, <1>2, <1>4, <1>11 DEF MutexBalanced
<1>13. /\ mutex' \in [owner : Threads \cup {NoThread}, count : 0..MaxDepth]
       /\ mutex'.owner = t /\ mutex'.count = Depth(t)
  BY <1>1, <1>2, <1>12, BoundsAssumption
<1>14. TypeOK'
  <2>1. \A u \in Threads : Depth(u)' <= MaxDepth
    BY <1>4, <1>9 DEF TypeOK
  <2>. QED
    BY <1>1, <1>4, <1>9, <1>13, <2>1 DEF TypeOK
<1>15. TranslatorsMatch'
  BY <1>1, <1>4 DEF TranslatorsMatch
<1>16. MutexBalanced'
  <2>1. Held(t)' = Depth(t)
    BY <1>5, <1>9 DEF Held
  <2>2. ASSUME NEW u \in Threads, u # t PROVE Held(u)' = 0
    <3>1. Held(u)' = Held(u)
      BY <1>9, <2>2 DEF Held, Top, Depth
    <3>2. mutex.owner # u
      BY <1>1, <2>2, ThreadsAssumption
    <3>. QED
      BY <1>4, <3>1, <3>2 DEF MutexBalanced
  <2>. QED
    BY <1>13, <2>1, <2>2, ThreadsAssumption DEF MutexBalanced
<1>. QED
  BY <1>9, <1>10, <1>14, <1>15, <1>16 DEF IInv

LEMMA ResolveTargetInvariant ==
  ASSUME IInv, NEW t \in Threads, ResolveTarget(t)
  PROVE  IInv'
<1>1. Runs(t, "resolve") /\ "resolve" \in CommandPcs \ {"lock"}
  BY DEF ResolveTarget, CommandPcs
<1>2. CASE Fail(t)
  BY <1>1, <1>2, ReturnInvariant DEF Fail
<1>3. CASE ~Fail(t)
  <2>1. PICK language \in Languages :
          Continue(t, [Top(t) EXCEPT !.pc = "check", !.language = language])
    BY <1>3 DEF ResolveTarget
  <2>2. UNCHANGED <<library, mutex, registered, result, process>>
    BY <1>3 DEF ResolveTarget
  <2>. PICK f : f = [Top(t) EXCEPT !.pc = "check", !.language = language]
    OBVIOUS
  <2>3. stack[t] # <<>> /\ Top(t) \in Frame /\ Top(t).pc = "resolve"
    BY <1>1, TopValid
  <2>4. Top(t).call = "command"
    BY <1>1, CommandTop
  <2>5. f \in Frame /\ f.pc = "check" /\ f.call = "command"
    BY <2>3, <2>4 DEF Frame, CollectPcs
  <2>6. FrameValid(f, Depth(t)) /\ ~Bound(Top(t))
    BY <2>3, <2>5 DEF FrameValid, Bound, CollectPcs, IndexedPcs, BoundPcs
  <2>. QED
    BY <2>1, <2>2, <2>3, <2>4, <2>5, <2>6, MoveInvariant
<1>. QED
  BY <1>2, <1>3

LEMMA ResolveArchitectureInvariant ==
  ASSUME IInv, NEW t \in Threads, ResolveArchitecture(t)
  PROVE  IInv'
<1>1. Runs(t, "language") /\ "language" \in CommandPcs \ {"lock"}
  BY DEF ResolveArchitecture, CommandPcs
<1>2. CASE Matches(description, Top(t).language) = {}
  BY <1>1, <1>2, ReturnInvariant DEF ResolveArchitecture, Fail
<1>3. CASE Matches(description, Top(t).language) # {}
  <2>. PICK f : f = [Top(t) EXCEPT !.pc = "specfile",
                       !.index = FirstMatch(description, Top(t).language)]
    OBVIOUS
  <2>1. Continue(t, f) /\ UNCHANGED <<library, mutex, registered, result, process>>
    BY <1>3 DEF ResolveArchitecture
  <2>2. stack[t] # <<>> /\ Top(t) \in Frame /\ Top(t).pc = "language"
    BY <1>1, TopValid
  <2>3. Top(t).call = "command"
    BY <1>1, CommandTop
  <2>4. description \in Seq(LanguageDescription)
    BY DEF IInv, TypeOK
  <2>5. /\ FirstMatch(description, Top(t).language) \in DOMAIN description
        /\ description[FirstMatch(description, Top(t).language)].id = Top(t).language
    BY <1>3, <2>4, FirstMatchMatches
  <2>6. FirstMatch(description, Top(t).language) \in Nat
    BY <2>4, <2>5, LenProperties
  <2>7. /\ f \in Frame /\ f.pc = "specfile" /\ f.call = "command"
        /\ f.language = Top(t).language
        /\ f.index = FirstMatch(description, Top(t).language)
    BY <2>2, <2>3, <2>6 DEF Frame, CommandPcs
  <2>8. FrameValid(f, Depth(t)) /\ ~Bound(Top(t))
    BY <2>2, <2>5, <2>7 DEF FrameValid, Bound, CommandPcs, BoundPcs
  <2>. QED
    BY <2>1, <2>2, <2>3, <2>7, <2>8, MoveInvariant
<1>. QED
  BY <1>2, <1>3

LEMMA BuildSpecFileInvariant ==
  ASSUME IInv, NEW t \in Threads, BuildSpecFile(t)
  PROVE  IInv'
<1>1. Runs(t, "specfile") /\ "specfile" \in CommandPcs \ {"lock"}
  BY DEF BuildSpecFile, CommandPcs
<1>2. CASE Fail(t)
  BY <1>1, <1>2, ReturnInvariant DEF Fail
<1>3. CASE Die("crashed")
  BY <1>3, DieInvariant
<1>4. CASE ~Fail(t) /\ ~Die("crashed")
  <2>. PICK f : f = [Top(t) EXCEPT !.pc = "translator",
                       !.tag = ~IsTranslateReused(translators, Top(t).index)]
    OBVIOUS
  <2>1. Continue(t, f) /\ UNCHANGED <<library, mutex, registered, result, process>>
    BY <1>4 DEF BuildSpecFile
  <2>2. stack[t] # <<>> /\ Top(t) \in Frame /\ Top(t).pc = "specfile"
        /\ FrameValid(Top(t), Depth(t))
    BY <1>1, TopValid
  <2>3. Top(t).call = "command"
    BY <1>1, CommandTop
  <2>4. /\ f \in Frame /\ f.pc = "translator" /\ f.call = "command"
        /\ f.language = Top(t).language /\ f.index = Top(t).index
    BY <2>2, <2>3 DEF Frame, CommandPcs, IsTranslateReused
  <2>5. FrameValid(f, Depth(t)) /\ ~Bound(Top(t))
    BY <2>2, <2>4 DEF FrameValid, Bound, CommandPcs, IndexedPcs, BoundPcs
  <2>. QED
    BY <2>1, <2>2, <2>3, <2>4, <2>5, MoveInvariant
<1>. QED
  BY <1>2, <1>3, <1>4

LEMMA BuildSharedTranslatorInvariant ==
  ASSUME IInv, NEW t \in Threads, BuildSharedTranslator(t)
  PROVE  IInv'
<1>. PICK f : f = [Top(t) EXCEPT !.pc = "initialize"]
  OBVIOUS
<1>. PICK index : index = Top(t).index
  OBVIOUS
<1>1. /\ Runs(t, "translator") /\ "translator" \in CommandPcs
      /\ translators' = BuildTranslator(translators, index, description[index].id,
                                        <<t, Depth(t)>>)
      /\ Continue(t, f)
      /\ UNCHANGED <<specpaths, description, mutex, registered, result, process>>
  BY DEF BuildSharedTranslator, GoTo, CommandPcs
<1>2. /\ stack[t] # <<>> /\ Top(t) \in Frame /\ Top(t).pc = "translator"
      /\ FrameValid(Top(t), Depth(t))
      /\ Depth(t) \in Nat /\ 1 <= Depth(t) /\ Depth(t) <= MaxDepth
  BY <1>1, TopValid
<1>3. Top(t).call = "command"
  BY <1>1, CommandTop
<1>4. TypeOK /\ TranslatorsMatch /\ LoaderLives
  BY DEF IInv
<1>5. /\ f \in Frame /\ f.pc = "initialize" /\ f.call = "command"
      /\ f.language = Top(t).language /\ f.index = index
  BY <1>2, <1>3 DEF Frame, CommandPcs
<1>6. index \in DOMAIN description /\ description[index].id = f.language
  BY <1>2, <1>5 DEF FrameValid, IndexedPcs
<1>7. <<t, Depth(t)>> \in Arch
  BY <1>2, BoundsAssumption DEF Arch
<1>8. /\ DOMAIN translators' = DOMAIN translators \cup {index}
      /\ \A i \in DOMAIN translators : i # index => translators'[i] = translators[i]
      /\ translators'[index].serves = <<t, Depth(t)>>
  BY <1>1 DEF BuildTranslator, IsTranslateReused
<1>9. /\ translators'[index] \in Translator(Arch \cup {Dangling})
      /\ translators'[index].language = description[index].id
  <2>1. description[index].id \in Languages \cup {NoLanguage}
    <3>1. description \in Seq(LanguageDescription)
      BY <1>4 DEF TypeOK
    <3>2. description[index] \in LanguageDescription
      BY <1>6, <3>1, LenProperties, ElementOfSeq
    <3>. QED
      BY <3>2 DEF LanguageDescription
  <2>2. CASE index \in DOMAIN translators
    <3>1. translators'[index] = [translators[index] EXCEPT !.serves = <<t, Depth(t)>>]
      BY <1>1, <2>2 DEF BuildTranslator, IsTranslateReused
    <3>2. /\ translators[index] \in Translator(Arch \cup {Dangling})
          /\ translators[index].language = description[index].id
      BY <1>4, <2>2 DEF TypeOK, TranslatorsMatch
    <3>. QED
      BY <1>7, <3>1, <3>2 DEF Translator
  <2>3. CASE index \notin DOMAIN translators
    <3>1. translators'[index] = [state |-> "raw", language |-> description[index].id,
                                 serves |-> <<t, Depth(t)>>]
      BY <1>1, <2>3 DEF BuildTranslator, IsTranslateReused
    <3>. QED
      BY <1>7, <2>1, <3>1 DEF Translator, TranslatorStates
  <2>. QED
    BY <2>2, <2>3
<1>10. LibraryGrows
  BY <1>1, <1>8 DEF LibraryGrows
<1>11. FrameValid(f, Depth(t))'
  BY <1>1, <1>5, <1>6, <1>8 DEF FrameValid, CommandPcs
<1>12. /\ StacksValid'
       /\ stack' \in [Threads -> Seq(Frame)]
       /\ \A u \in Threads : Depth(u)' = Depth(u)
  BY <1>1, <1>2, <1>3, <1>5, <1>10, <1>11, AdvanceStacks
<1>13. MutexBalanced'
  BY <1>1, <1>2, <1>3, <1>5, AdvanceMutex
<1>14. /\ stack'[t][Depth(t)] = f
       /\ \A u \in Threads : u # t => stack'[u] = stack[u]
       /\ \A d \in 1..Depth(t) : d # Depth(t) => stack'[t][d] = stack[t][d]
  BY <1>1, <1>2, <1>4, <1>5, ContinueStacks
<1>15. TypeOK'
  <2>1. \A u \in Threads : Depth(u)' <= MaxDepth
    BY <1>4, <1>12 DEF TypeOK
  <2>2. DOMAIN translators' \subseteq DOMAIN description'
    BY <1>1, <1>4, <1>6, <1>8 DEF TypeOK
  <2>3. \A i \in DOMAIN translators' :
          translators'[i] \in Translator(Arch \cup {Dangling})
    BY <1>4, <1>8, <1>9 DEF TypeOK
  <2>. QED
    BY <1>1, <1>4, <1>12, <2>1, <2>2, <2>3 DEF TypeOK
<1>16. TranslatorsMatch'
  BY <1>1, <1>4, <1>8, <1>9 DEF TranslatorsMatch
<1>17. LoaderLives'
  <2>. SUFFICES ASSUME NEW i \in DOMAIN translators', translators'[i].serves # Dangling
                PROVE  \E u \in Threads : \E d \in 1..Depth(u)' :
                         /\ translators'[i].serves = <<u, d>>
                         /\ Bound(stack'[u][d])
                         /\ stack'[u][d].index = i
    BY DEF LoaderLives, Bound
  <2>1. CASE i = index
    <3>1. Depth(t) \in 1..Depth(t)' /\ Bound(stack'[t][Depth(t)])
      BY <1>2, <1>5, <1>12, <1>14 DEF Bound, BoundPcs
    <3>. QED
      BY <1>5, <1>8, <1>14, <2>1, <3>1
  <2>2. CASE i # index
    <3>1. i \in DOMAIN translators /\ translators'[i] = translators[i]
      BY <1>8, <2>2
    <3>. PICK u \in Threads : \E d \in 1..Depth(u) :
           /\ translators[i].serves = <<u, d>>
           /\ Bound(stack[u][d])
           /\ stack[u][d].index = i
      BY <1>4, <3>1 DEF LoaderLives
    <3>2. PICK d \in 1..Depth(u) : /\ translators[i].serves = <<u, d>>
                                   /\ Bound(stack[u][d])
                                   /\ stack[u][d].index = i
      OBVIOUS
    <3>3. ~(u = t /\ d = Depth(t))
      BY <1>2, <3>2 DEF Top, Bound, BoundPcs
    <3>4. stack'[u][d] = stack[u][d] /\ d \in 1..Depth(u)'
      BY <1>12, <1>14, <3>2, <3>3
    <3>. QED
      BY <3>1, <3>2, <3>4
  <2>. QED
    BY <2>1, <2>2
<1>. QED
  BY <1>12, <1>13, <1>15, <1>16, <1>17 DEF IInv

LEMMA InitializeTranslatorInvariant ==
  ASSUME IInv, NEW t \in Threads, InitializeTranslator(t)
  PROVE  IInv'
<1>. PICK index : index = Top(t).index
  OBVIOUS
<1>1. Runs(t, "initialize") /\ "initialize" \in CommandPcs \ {"lock"}
      /\ "initialize" \in BoundPcs /\ "configure" \in BoundPcs
  BY DEF InitializeTranslator, CommandPcs, BoundPcs
<1>2. /\ stack[t] # <<>> /\ Top(t) \in Frame /\ Top(t).pc = "initialize"
      /\ FrameValid(Top(t), Depth(t))
  BY <1>1, TopValid
<1>3. Top(t).call = "command" /\ index \in DOMAIN translators
  BY <1>1, <1>2, CommandTop DEF FrameValid
<1>4. TypeOK
  BY DEF IInv
<1>5. \A left \in TranslatorStates :
        /\ DOMAIN SetState(index, left) = DOMAIN translators
        /\ \A i \in DOMAIN translators :
             /\ SetState(index, left)[i] \in Translator(Arch \cup {Dangling})
             /\ SetState(index, left)[i].serves = translators[i].serves
             /\ SetState(index, left)[i].language = translators[i].language
  <2>. SUFFICES ASSUME NEW left \in TranslatorStates, NEW i \in DOMAIN translators
                PROVE  /\ DOMAIN SetState(index, left) = DOMAIN translators
                       /\ SetState(index, left)[i] \in Translator(Arch \cup {Dangling})
                       /\ SetState(index, left)[i].serves = translators[i].serves
                       /\ SetState(index, left)[i].language = translators[i].language
    BY DEF SetState
  <2>1. translators[i] \in Translator(Arch \cup {Dangling})
    BY <1>4 DEF TypeOK
  <2>2. CASE i = index
    <3>1. SetState(index, left)[i] = [translators[i] EXCEPT !.state = left]
      BY <2>2 DEF SetState
    <3>. QED
      BY <2>1, <3>1 DEF Translator, SetState
  <2>3. CASE i # index
    BY <2>1, <2>3 DEF SetState
  <2>. QED
    BY <2>2, <2>3
<1>6. CASE GoTo(t, "configure") /\ UNCHANGED <<library, mutex, registered, result, process>>
  BY <1>1, <1>6, BoundMoveInvariant
<1>7. CASE /\ translators' = SetState(index, "ready")
           /\ GoTo(t, "configure")
           /\ UNCHANGED <<specpaths, description, mutex, registered, result, process>>
  <2>. PICK f : f = [Top(t) EXCEPT !.pc = "configure"]
    OBVIOUS
  <2>1. Continue(t, f)
    BY <1>7 DEF GoTo
  <2>2. /\ f \in Frame /\ f.pc = "configure" /\ f.call = "command"
        /\ f.language = Top(t).language /\ f.index = index
    BY <1>2, <1>3 DEF Frame, CommandPcs
  <2>3. /\ DOMAIN translators' = DOMAIN translators
        /\ \A i \in DOMAIN translators :
             /\ translators'[i] \in Translator(Arch \cup {Dangling})
             /\ translators'[i].serves = translators[i].serves
             /\ translators'[i].language = translators[i].language
    BY <1>5, <1>7 DEF TranslatorStates
  <2>4. LibraryGrows /\ ServesKept
    BY <1>7, <2>3 DEF LibraryGrows, ServesKept
  <2>5. FrameValid(f, Depth(t))'
    BY <1>2, <1>7, <2>2, <2>3 DEF FrameValid, CommandPcs, IndexedPcs, BoundPcs
  <2>6. Bound(f)
    BY <1>1, <2>2 DEF Bound
  <2>7. specpaths' \in 0..MaxScans /\ description' \in Seq(LanguageDescription)
    BY <1>4, <1>7 DEF TypeOK
  <2>. QED
    BY <1>2, <1>3, <1>7, <2>1, <2>2, <2>3, <2>4, <2>5, <2>6, <2>7, AdvanceInvariant
<1>8. CASE \E left \in TranslatorStates : Leave(t, "failed", SetState(index, left))
  <2>. PICK left \in TranslatorStates : Leave(t, "failed", SetState(index, left))
    BY <1>8
  <2>. PICK kept : kept = SetState(index, left)
    OBVIOUS
  <2>1. /\ DOMAIN kept = DOMAIN translators
        /\ \A i \in DOMAIN kept : /\ kept[i] \in Translator(Arch \cup {Dangling})
                                  /\ kept[i].serves = translators[i].serves
                                  /\ kept[i].language = translators[i].language
    BY <1>5
  <2>. QED
    BY <1>2, <1>3, <2>1, LeaveInvariant
<1>9. CASE Die("terminated")
  BY <1>9, DieInvariant
<1>10. translators[index].state \in TranslatorStates
  BY <1>3, <1>4 DEF TypeOK, Translator
<1>. QED
  BY <1>6, <1>7, <1>8, <1>9, <1>10 DEF InitializeTranslator, TranslatorStates

LEMMA ConfigureInvariant ==
  ASSUME IInv, NEW t \in Threads, Configure(t)
  PROVE  IInv'
<1>1. Runs(t, "configure") /\ "configure" \in CommandPcs \ {"lock"}
      /\ "configure" \in BoundPcs /\ "find" \in BoundPcs
  BY DEF Configure, CommandPcs, BoundPcs
<1>2. CASE Fail(t)
  BY <1>1, <1>2, ReturnInvariant DEF Fail
<1>3. CASE Die("terminated")
  BY <1>3, DieInvariant
<1>4. CASE ~Fail(t) /\ ~Die("terminated")
  BY <1>1, <1>4, BoundMoveInvariant DEF Configure
<1>. QED
  BY <1>2, <1>3, <1>4

LEMMA FindFunctionInvariant ==
  ASSUME IInv, NEW t \in Threads, FindFunction(t)
  PROVE  IInv'
<1>1. Runs(t, "find") /\ "find" \in CommandPcs \ {"lock"}
      /\ "find" \in BoundPcs /\ "perform" \in BoundPcs
  BY DEF FindFunction, CommandPcs, BoundPcs
<1>2. CASE Fail(t)
  BY <1>1, <1>2, ReturnInvariant DEF Fail
<1>3. CASE ~Fail(t)
  BY <1>1, <1>3, BoundMoveInvariant DEF FindFunction
<1>. QED
  BY <1>2, <1>3

LEMMA PerformInvariant ==
  ASSUME IInv, NEW t \in Threads, Perform(t)
  PROVE  IInv'
<1>1. Runs(t, "perform") /\ "perform" \in CommandPcs \ {"lock"}
      /\ "perform" \in BoundPcs /\ "print" \in BoundPcs
  BY DEF Perform, CommandPcs, BoundPcs
<1>2. CASE Fail(t)
  BY <1>1, <1>2, ReturnInvariant DEF Fail
<1>3. CASE ~Fail(t)
  BY <1>1, <1>3, BoundMoveInvariant DEF Perform
<1>. QED
  BY <1>2, <1>3

LEMMA PrintFunctionInvariant ==
  ASSUME IInv, NEW t \in Threads, PrintFunction(t)
  PROVE  IInv'
<1>1. Runs(t, "print") /\ "print" \in CommandPcs \ {"lock"}
  BY DEF PrintFunction, CommandPcs
<1>2. PICK status \in {"succeeded", "failed"} : Return(t, status)
  BY DEF PrintFunction
<1>. QED
  BY <1>1, <1>2, ReturnInvariant

LEMMA StutterInvariant ==
  ASSUME IInv, UNCHANGED vars
  PROVE  IInv'
<1>1. UNCHANGED <<specpaths, description, translators, mutex, stack, registered,
                  result, process>>
  BY DEF vars
<1>2. TypeOK'
  BY <1>1 DEF IInv, TypeOK, Depth
<1>3. StacksValid'
  BY <1>1 DEF IInv, StacksValid, FrameValid, Depth
<1>4. TranslatorsMatch' /\ LoaderLives'
  BY <1>1 DEF IInv, TranslatorsMatch, LoaderLives, Bound, Depth
<1>5. MutexBalanced'
  BY <1>1 DEF IInv, MutexBalanced, Held, Depth, Top
<1>. QED
  BY <1>2, <1>3, <1>4, <1>5 DEF IInv

LEMMA NextInvariant ==
  ASSUME IInv, [Next]_vars
  PROVE  IInv'
<1>1. ASSUME NEW t \in Threads, PluginInitialize(t) PROVE IInv'
  BY <1>1, PluginInitializeInvariant
<1>2. ASSUME NEW t \in Threads, DoExecute(t) PROVE IInv'
  BY <1>2, DoExecuteInvariant
<1>3. ASSUME NEW t \in Threads, Step(t) PROVE IInv'
  BY <1>3, StartLibraryInvariant, CollectSpecFilesInvariant,
     LoadLanguageDescriptionInvariant, SpecFilesLoadedInvariant, AddCommandInvariant,
     LockInvariant, ResolveTargetInvariant, ResolveArchitectureInvariant,
     BuildSpecFileInvariant, BuildSharedTranslatorInvariant,
     InitializeTranslatorInvariant, ConfigureInvariant, FindFunctionInvariant,
     PerformInvariant, PrintFunctionInvariant DEF Step
<1>4. ASSUME Crash PROVE IInv'
  BY <1>4, DieInvariant DEF Crash
<1>5. ASSUME UNCHANGED vars PROVE IInv'
  BY <1>5, StutterInvariant
<1>. QED
  BY <1>1, <1>2, <1>3, <1>4, <1>5 DEF Next, Dead

LEMMA InductiveInvariant == Spec => []IInv
<1>1. Init => IInv
  BY InitInvariant
<1>2. IInv /\ [Next]_vars => IInv'
  BY NextInvariant
<1>. QED
  BY <1>1, <1>2, PTL DEF Spec
-----------------------------------------------------------------------------
(* Commands that do not nest: the translator of the one that runs.         *)
LEMMA TopContinued ==
  ASSUME TypeOK, TypeOK', NEW t \in Threads, stack[t] # <<>>, NEW f, Continue(t, f)
  PROVE  /\ stack'[t] # <<>> /\ Top(t)' = f /\ Depth(t)' = Depth(t)
         /\ \A u \in Threads : u # t => stack'[u] = stack[u]
<1>. PICK n : n = Depth(t)
  OBVIOUS
<1>1. stack \in [Threads -> Seq(Frame)] /\ stack' \in [Threads -> Seq(Frame)]
  BY DEF TypeOK
<1>2. n \in Nat /\ 1 <= n /\ n = Len(stack[t])
  BY TopTyped
<1>3. stack' = [stack EXCEPT ![t][n] = f]
  BY DEF Continue
<1>4. /\ stack'[t] = [stack[t] EXCEPT ![n] = f]
      /\ \A u \in Threads : u # t => stack'[u] = stack[u]
  BY <1>1, <1>3
<1>5. DOMAIN stack[t] = 1..n
  BY <1>1, <1>2
<1>6. DOMAIN stack'[t] = 1..n /\ stack'[t][n] = f
  BY <1>2, <1>4, <1>5
<1>7. Len(stack'[t]) = n
  BY <1>1, <1>2, <1>6
<1>. QED
  BY <1>1, <1>2, <1>4, <1>6, <1>7 DEF Top, Depth

(* The mutex lets one thread past the lock_guard.                          *)
LEMMA OneHolder ==
  ASSUME IInv, NEW t \in Threads, stack[t] # <<>>,
         Top(t).call = "command", Top(t).pc # "lock",
         NEW u \in Threads, stack[u] # <<>>,
         Top(u).call = "command", Top(u).pc # "lock"
  PROVE  t = u
<1>1. ASSUME NEW v \in {t, u} PROVE mutex.owner = v
  <2>1. Depth(v) \in Nat /\ 1 <= Depth(v)
    BY TopTyped DEF IInv
  <2>2. Held(v) = Depth(v)
    BY DEF Held
  <2>3. Held(v) = IF mutex.owner = v THEN mutex.count ELSE 0
    BY DEF IInv, MutexBalanced
  <2>. QED
    BY <2>1, <2>2, <2>3
<1>. QED
  BY <1>1

LEMMA BoundIsCommand ==
  ASSUME IInv, NEW t \in Threads, stack[t] # <<>>, Bound(Top(t))
  PROVE  /\ Top(t).call = "command" /\ Top(t).pc # "lock"
         /\ Top(t).index \in DOMAIN translators
<1>1. /\ Depth(t) \in Nat /\ 1 <= Depth(t)
      /\ Top(t) \in Frame /\ Top(t) = stack[t][Depth(t)]
  BY TopTyped DEF IInv
<1>2. FrameValid(Top(t), Depth(t))
  BY <1>1 DEF IInv, StacksValid
<1>. QED
  BY <1>1, <1>2 DEF FrameValid, Bound, BoundPcs, PluginPcs, CollectPcs, Frame

(* The ways a step of an entry point treats its frame and the translators. *)
Moves(t) ==
  \E f : /\ Continue(t, f)
         /\ Bound(f) => Bound(Top(t)) /\ f.index = Top(t).index
         /\ \/ translators' = translators
            \/ Bound(Top(t)) /\ translators' = SetState(Top(t).index, "ready")

Leaves(t) ==
  /\ stack' = [stack EXCEPT ![t] = Pop(@)]
  /\ translators' = translators \/ (Top(t).call = "command" /\ Top(t).pc # "lock")

Stays == UNCHANGED <<stack, translators>>

LEMMA StepShape ==
  ASSUME IInv, NEW t \in Threads, Step(t)
  PROVE  /\ stack[t] # <<>>
         /\ Moves(t) \/ Leaves(t) \/ Stays \/ BuildSharedTranslator(t)
<1>1. stack[t] # <<>>
  BY DEF Step, StartLibrary, CollectSpecFiles, LoadLanguageDescription, SpecFilesLoaded,
     AddCommand, Lock, ResolveTarget, ResolveArchitecture, BuildSpecFile,
     BuildSharedTranslator, InitializeTranslator, Configure, FindFunction, Perform,
     PrintFunction, Runs, At
<1>. SUFFICES Moves(t) \/ Leaves(t) \/ Stays \/ BuildSharedTranslator(t)
  BY <1>1
<1>2. Top(t) \in Frame
  BY <1>1, TopTyped DEF IInv
<1>3. ASSUME NEW pc, GoTo(t, pc), Bound(Top(t)) \/ pc \notin BoundPcs,
             translators' = translators
      PROVE  Moves(t)
  <2>. PICK f : f = [Top(t) EXCEPT !.pc = pc]
    OBVIOUS
  <2>1. Continue(t, f)
    BY <1>3 DEF GoTo
  <2>2. f.pc = pc /\ f.index = Top(t).index
    BY <1>2 DEF Frame
  <2>3. Bound(f) => Bound(Top(t))
    BY <1>3, <2>2 DEF Bound
  <2>. QED
    BY <1>3, <2>1, <2>2, <2>3 DEF Moves
<1>4. ASSUME NEW pc \in CommandPcs \ {"lock"}, Runs(t, pc), NEW status, NEW kept,
             Leave(t, status, kept)
      PROVE  Leaves(t)
  BY <1>4, CommandTop DEF Leave, Leaves, Runs, At
<1>5. ASSUME NEW pc \in CommandPcs \ {"lock"}, Runs(t, pc), Fail(t) PROVE Leaves(t)
  BY <1>4, <1>5 DEF Fail, Return
<1>6. ASSUME NEW how, Die(how) PROVE Stays
  BY <1>6 DEF Die, Stays, library
<1>7. CASE StartLibrary(t)
  BY <1>3, <1>7 DEF StartLibrary, BoundPcs
<1>8. CASE CollectSpecFiles(t)
  <2>1. translators' = translators
    BY <1>8 DEF CollectSpecFiles, library
  <2>2. CASE description # <<>>
    BY <1>3, <1>8, <2>1, <2>2 DEF CollectSpecFiles, Collected, BoundPcs
  <2>3. CASE description = <<>>
    <3>. PICK f : f = [Top(t) EXCEPT !.pc = "load", !.files = MatchList(specpaths)]
      OBVIOUS
    <3>1. Continue(t, f)
      BY <1>8, <2>3 DEF CollectSpecFiles
    <3>2. ~Bound(f)
      BY <1>2 DEF Frame, Bound, BoundPcs
    <3>. QED
      BY <2>1, <3>1, <3>2 DEF Moves
  <2>. QED
    BY <2>2, <2>3
<1>9. CASE LoadLanguageDescription(t)
  <2>1. translators' = translators /\ Top(t).pc = "load"
    BY <1>9 DEF LoadLanguageDescription, Runs, At
  <2>2. CASE stack' = [stack EXCEPT ![t] = Pop(@)]
    BY <2>1, <2>2 DEF Leaves
  <2>3. CASE Continue(t, [Top(t) EXCEPT !.files = Tail(@)])
    <3>. PICK f : f = [Top(t) EXCEPT !.files = Tail(@)]
      OBVIOUS
    <3>1. ~Bound(f)
      BY <1>2, <2>1 DEF Frame, Bound, BoundPcs
    <3>. QED
      BY <2>1, <2>3, <3>1 DEF Moves
  <2>4. CASE UNCHANGED stack
    BY <2>1, <2>4 DEF Stays
  <2>. QED
    BY <1>9, <2>2, <2>3, <2>4 DEF LoadLanguageDescription
<1>10. CASE SpecFilesLoaded(t)
  BY <1>3, <1>10 DEF SpecFilesLoaded, Collected, BoundPcs, library
<1>11. CASE AddCommand(t)
  BY <1>11 DEF AddCommand, Leaves, library
<1>12. CASE Lock(t)
  BY <1>3, <1>12 DEF Lock, BoundPcs, library
<1>13. CASE ResolveTarget(t)
  <2>1. CASE Fail(t)
    BY <1>5, <1>13, <2>1 DEF ResolveTarget, CommandPcs
  <2>2. ASSUME NEW language \in Languages, translators' = translators,
               Continue(t, [Top(t) EXCEPT !.pc = "check", !.language = language])
        PROVE  Moves(t)
    <3>. PICK f : f = [Top(t) EXCEPT !.pc = "check", !.language = language]
      OBVIOUS
    <3>1. ~Bound(f)
      BY <1>2 DEF Frame, Bound, BoundPcs
    <3>. QED
      BY <2>2, <3>1 DEF Moves
  <2>. QED
    BY <1>13, <2>1, <2>2 DEF ResolveTarget, library
<1>14. CASE ResolveArchitecture(t)
  <2>1. CASE Fail(t)
    BY <1>5, <1>14, <2>1 DEF ResolveArchitecture, CommandPcs
  <2>2. CASE ~Fail(t)
    <3>. PICK f : f = [Top(t) EXCEPT !.pc = "specfile",
                         !.index = FirstMatch(description, Top(t).language)]
      OBVIOUS
    <3>1. Continue(t, f) /\ translators' = translators
      BY <1>14, <2>2 DEF ResolveArchitecture, library
    <3>2. ~Bound(f)
      BY <1>2 DEF Frame, Bound, BoundPcs
    <3>. QED
      BY <3>1, <3>2 DEF Moves
  <2>. QED
    BY <2>1, <2>2
<1>15. CASE BuildSpecFile(t)
  <2>1. CASE Fail(t)
    BY <1>5, <1>15, <2>1 DEF BuildSpecFile, CommandPcs
  <2>2. CASE Die("crashed")
    BY <1>6, <2>2
  <2>3. CASE ~Fail(t) /\ ~Die("crashed")
    <3>. PICK f : f = [Top(t) EXCEPT !.pc = "translator",
                         !.tag = ~IsTranslateReused(translators, Top(t).index)]
      OBVIOUS
    <3>1. Continue(t, f) /\ translators' = translators
      BY <1>15, <2>3 DEF BuildSpecFile, library
    <3>2. ~Bound(f)
      BY <1>2 DEF Frame, Bound, BoundPcs
    <3>. QED
      BY <3>1, <3>2 DEF Moves
  <2>. QED
    BY <2>1, <2>2, <2>3
<1>16. CASE InitializeTranslator(t)
  <2>1. Runs(t, "initialize") /\ Bound(Top(t))
    BY <1>16 DEF InitializeTranslator, Runs, At, Bound, BoundPcs
  <2>2. CASE GoTo(t, "configure") /\ translators' = translators
    BY <1>3, <2>1, <2>2
  <2>3. CASE GoTo(t, "configure") /\ translators' = SetState(Top(t).index, "ready")
    <3>. PICK f : f = [Top(t) EXCEPT !.pc = "configure"]
      OBVIOUS
    <3>1. Continue(t, f)
      BY <2>3 DEF GoTo
    <3>2. f.index = Top(t).index
      BY <1>2 DEF Frame
    <3>. QED
      BY <2>1, <2>3, <3>1, <3>2 DEF Moves
  <2>4. ASSUME NEW left, Leave(t, "failed", SetState(Top(t).index, left)) PROVE Leaves(t)
    BY <1>4, <2>1, <2>4 DEF CommandPcs
  <2>5. CASE Die("terminated")
    BY <1>6, <2>5
  <2>. QED
    BY <1>16, <2>2, <2>3, <2>4, <2>5 DEF InitializeTranslator, library
<1>17. ASSUME NEW pc \in BoundPcs, NEW to, Runs(t, pc),
              \/ Fail(t)
              \/ Die("terminated")
              \/ GoTo(t, to) /\ UNCHANGED <<library, mutex, registered, result, process>>
       PROVE  Moves(t) \/ Leaves(t) \/ Stays
  <2>1. Bound(Top(t)) /\ pc \in CommandPcs \ {"lock"}
    BY <1>17 DEF Runs, At, Bound, BoundPcs, CommandPcs
  <2>. QED
    BY <1>3, <1>5, <1>6, <1>17, <2>1 DEF library
<1>18. CASE Configure(t) \/ FindFunction(t) \/ Perform(t)
  BY <1>17, <1>18 DEF Configure, FindFunction, Perform, BoundPcs
<1>19. CASE PrintFunction(t)
  BY <1>4, <1>19 DEF PrintFunction, Return, CommandPcs
<1>. QED
  BY <1>1, <1>7, <1>8, <1>9, <1>10, <1>11, <1>12, <1>13, <1>14, <1>15, <1>16, <1>18,
     <1>19 DEF Step

LEMMA ServedStep ==
  ASSUME MaxDepth = 1, IInv, TranslatorServesRunner, [Next]_vars
  PROVE  TranslatorServesRunner'
<1>. SUFFICES ASSUME NEW t \in Threads, stack'[t] # <<>>, Bound(Top(t)')
              PROVE  translators'[Top(t)'.index].serves = <<t, Depth(t)'>>
  <2>1. IInv'
    BY NextInvariant
  <2>2. ASSUME NEW t \in Threads, stack'[t] # <<>>, Bound(Top(t)')
        PROVE  Top(t)'.index \in DOMAIN translators'
    <3>1. TypeOK' /\ StacksValid'
      BY <2>1 DEF IInv
    <3>2. stack'[t] \in Seq(Frame)
      BY <3>1 DEF TypeOK
    <3>3. Len(stack'[t]) \in Nat /\ 1 <= Len(stack'[t])
      BY <2>2, <3>2, EmptySeq, LenProperties
    <3>4. FrameValid(Top(t), Depth(t))'
      BY <3>1, <3>3 DEF StacksValid, Top, Depth
    <3>. QED
      BY <2>2, <3>4 DEF FrameValid, Bound
  <2>. QED
    BY <2>2 DEF TranslatorServesRunner, Bound
<1>1. TypeOK /\ TypeOK' /\ stack \in [Threads -> Seq(Frame)]
  BY NextInvariant DEF IInv, TypeOK
<1>2. ASSUME stack'[t] = stack[t], translators' = translators
      PROVE  translators'[Top(t)'.index].serves = <<t, Depth(t)'>>
  BY <1>2 DEF TranslatorServesRunner, Top, Depth, Bound
<1>3. CASE UNCHANGED vars
  BY <1>2, <1>3 DEF vars
<1>4. CASE Crash \/ Dead
  BY <1>2, <1>4 DEF Crash, Dead, Die, library, vars
<1>5. ASSUME NEW u \in Threads, PluginInitialize(u)
      PROVE  translators'[Top(t)'.index].serves = <<t, Depth(t)'>>
  <2>1. CASE u = t
    <3>1. stack'[t] = <<Called("plugin", "start")>>
      BY <1>1, <1>5, <2>1 DEF PluginInitialize
    <3>2. Top(t)' = Called("plugin", "start")
      BY <3>1 DEF Top, Depth
    <3>. QED
      BY <3>2 DEF Called, Bound, BoundPcs
  <2>2. CASE u # t
    BY <1>1, <1>2, <1>5, <2>2 DEF PluginInitialize, library
  <2>. QED
    BY <2>1, <2>2
<1>6. ASSUME NEW u \in Threads, DoExecute(u)
      PROVE  translators'[Top(t)'.index].serves = <<t, Depth(t)'>>
  <2>1. CASE u = t
    <3>. PICK f : f = Called("command", "lock")
      OBVIOUS
    <3>1. stack'[t] = Append(stack[t], f)
      BY <1>1, <1>6, <2>1 DEF DoExecute
    <3>2. stack[t] \in Seq(Frame) /\ stack'[t] \in Seq(Frame)
      BY <1>1 DEF TypeOK
    <3>3. Len(stack'[t]) = Len(stack[t]) + 1 /\ stack'[t][Len(stack[t]) + 1] = f
      BY <3>1, <3>2
    <3>4. Top(t)' = f
      BY <3>3 DEF Top, Depth
    <3>. QED
      BY <3>4 DEF Called, Bound, BoundPcs
  <2>2. CASE u # t
    BY <1>1, <1>2, <1>6, <2>2 DEF DoExecute, library
  <2>. QED
    BY <2>1, <2>2
<1>7. ASSUME NEW u \in Threads, Step(u), u # t
      PROVE  translators'[Top(t)'.index].serves = <<t, Depth(t)'>>
  <2>1. stack[u] # <<>> /\ (Moves(u) \/ Leaves(u) \/ Stays \/ BuildSharedTranslator(u))
    BY <1>7, StepShape
  <2>2. stack'[t] = stack[t]
    <3>1. CASE Moves(u)
      BY <1>1, <1>7, <2>1, <3>1, TopContinued DEF Moves
    <3>2. CASE Leaves(u) \/ Stays
      BY <1>1, <1>7, <3>2 DEF Leaves, Stays
    <3>3. CASE BuildSharedTranslator(u)
      BY <1>1, <1>7, <2>1, <3>3, TopContinued DEF BuildSharedTranslator, GoTo
    <3>. QED
      BY <2>1, <3>1, <3>2, <3>3
  <2>3. stack[t] # <<>> /\ Bound(Top(t))
    BY <2>2 DEF Top, Depth
  <2>4. Top(t).call = "command" /\ Top(t).pc # "lock"
    BY <2>3, BoundIsCommand
  <2>5. ~(Top(u).call = "command" /\ Top(u).pc # "lock")
    BY <1>7, <2>1, <2>3, <2>4, OneHolder
  <2>6. ~Bound(Top(u))
    BY <2>1, <2>5, BoundIsCommand
  <2>7. ~BuildSharedTranslator(u)
    <3>1. SUFFICES ASSUME BuildSharedTranslator(u) PROVE FALSE
      OBVIOUS
    <3>2. Runs(u, "translator") /\ "translator" \in CommandPcs
      BY <3>1 DEF BuildSharedTranslator, CommandPcs
    <3>3. Top(u).call = "command" /\ Top(u).pc = "translator"
      BY <3>2, CommandTop DEF Runs, At
    <3>. QED
      BY <2>5, <3>3
  <2>8. translators' = translators
    BY <2>1, <2>5, <2>6, <2>7 DEF Moves, Leaves, Stays
  <2>. QED
    BY <1>2, <2>2, <2>8
<1>8. ASSUME Step(t)
      PROVE  translators'[Top(t)'.index].serves = <<t, Depth(t)'>>
  <2>1. stack[t] # <<>> /\ (Moves(t) \/ Leaves(t) \/ Stays \/ BuildSharedTranslator(t))
    BY <1>8, StepShape
  <2>2. CASE Moves(t)
    <3>1. PICK f : /\ Continue(t, f)
                   /\ Bound(f) => Bound(Top(t)) /\ f.index = Top(t).index
                   /\ \/ translators' = translators
                      \/ translators' = SetState(Top(t).index, "ready")
      BY <2>2 DEF Moves
    <3>2. Top(t)' = f /\ Depth(t)' = Depth(t)
      BY <1>1, <2>1, <3>1, TopContinued
    <3>3. Bound(Top(t)) /\ f.index = Top(t).index
      BY <3>1, <3>2
    <3>4. /\ Top(t).index \in DOMAIN translators
          /\ translators[Top(t).index].serves = <<t, Depth(t)>>
          /\ translators[Top(t).index] \in Translator(Arch \cup {Dangling})
      BY <1>1, <2>1, <3>3 DEF TranslatorServesRunner, TypeOK
    <3>5. translators'[Top(t).index].serves = translators[Top(t).index].serves
      BY <3>1, <3>4 DEF SetState, Translator
    <3>. QED
      BY <3>2, <3>3, <3>4, <3>5
  <2>3. CASE Leaves(t)
    <3>1. Len(stack'[t]) = Depth(t) - 1
      BY <1>1, <2>1, <2>3, PopStacks DEF Leaves
    <3>2. Depth(t) \in Nat /\ 1 <= Depth(t) /\ Depth(t) <= 1
      BY <1>1, <2>1, TopTyped
    <3>3. stack'[t] \in Seq(Frame) /\ Len(stack'[t]) = 0
      BY <1>1, <3>1, <3>2 DEF TypeOK
    <3>. QED
      BY <3>3, EmptySeq
  <2>4. CASE Stays
    BY <1>2, <2>4 DEF Stays
  <2>5. CASE BuildSharedTranslator(t)
    <3>. PICK index : index = Top(t).index
      OBVIOUS
    <3>. PICK f : f = [Top(t) EXCEPT !.pc = "initialize"]
      OBVIOUS
    <3>1. /\ Continue(t, f)
          /\ translators' = BuildTranslator(translators, index, description[index].id,
                                            <<t, Depth(t)>>)
      BY <2>5 DEF BuildSharedTranslator, GoTo
    <3>2. Top(t)' = f /\ Depth(t)' = Depth(t)
      BY <1>1, <2>1, <3>1, TopContinued
    <3>3. f.index = index
      BY <1>1, <2>1, TopTyped DEF Frame
    <3>4. index \in DOMAIN translators =>
            translators[index] \in Translator(Arch \cup {Dangling})
      BY <1>1 DEF TypeOK
    <3>5. translators'[index].serves = <<t, Depth(t)>>
      BY <3>1, <3>4 DEF BuildTranslator, IsTranslateReused, Translator
    <3>. QED
      BY <3>2, <3>3, <3>5
  <2>. QED
    BY <2>1, <2>2, <2>3, <2>4, <2>5
<1>. QED
  BY <1>3, <1>4, <1>5, <1>6, <1>7, <1>8 DEF Next

-----------------------------------------------------------------------------
(***************************************************************************)
(* The theorems.                                                           *)
(***************************************************************************)
(* Every variable of the two entry points keeps its type: in particular    *)
(* the recursion count of decompiler_mutex never exceeds the nesting, and  *)
(* no translator has an index that description lacks.                      *)
THEOREM TypeCorrect == Spec => []TypeOK
<1>1. IInv => TypeOK
  BY DEF IInv
<1>. QED
  BY <1>1, InductiveInvariant, PTL

(* Every exit of DoExecute, whatever fails and however commands nest,      *)
(* releases decompiler_mutex exactly as often as it took it, and at most   *)
(* one thread is past its lock_guard.                                      *)
THEOREM MutexIsBalanced == Spec => []MutexBalanced
<1>1. IInv => MutexBalanced
  BY DEF IInv
<1>. QED
  BY <1>1, InductiveInvariant, PTL

(* A Sleigh object that does not dangle points to the Architecture of a    *)
(* command still running, and that command is bound to the object.         *)
THEOREM LoadersLive == Spec => []LoaderLives
<1>1. IInv => LoaderLives
  BY DEF IInv
<1>. QED
  BY <1>1, InductiveInvariant, PTL

(* A command decodes with the Sleigh object of its target's language,      *)
(* although PluginInitialize may grow description while it runs.           *)
THEOREM TargetLanguageDecoded == Spec => []DecodesTargetLanguage
<1>1. IInv => DecodesTargetLanguage
  <2>. SUFFICES ASSUME IInv, NEW t \in Threads, NEW d \in 1..Depth(t), Bound(stack[t][d])
                PROVE  /\ stack[t][d].index \in DOMAIN translators
                       /\ translators[stack[t][d].index].language = stack[t][d].language
    BY DEF DecodesTargetLanguage
  <2>1. FrameValid(stack[t][d], d)
    BY DEF IInv, StacksValid
  <2>2. stack[t][d].pc \in BoundPcs /\ stack[t][d].pc \in IndexedPcs
    BY DEF Bound, IndexedPcs
  <2>. QED
    BY <2>1, <2>2 DEF IInv, TranslatorsMatch, FrameValid
<1>. QED
  BY <1>1, InductiveInvariant, PTL

(* As long as no command starts inside another one, the Sleigh object a    *)
(* command decodes with, shared with all others for the language, points   *)
(* to the Architecture of this command.                                    *)
THEOREM UnnestedIsServed ==
  ASSUME MaxDepth = 1
  PROVE  Spec => []TranslatorServesRunner
<1>1. Init => TranslatorServesRunner
  BY DEF Init, TranslatorServesRunner
<1>2. IInv /\ TranslatorServesRunner /\ [Next]_vars => TranslatorServesRunner'
  BY ServedStep
<1>. QED
  BY <1>1, <1>2, InductiveInvariant, PTL DEF Spec

(* Whatever fails while a .ldefs file is loaded, and whoever loads at the  *)
(* same time, the vector description only grows at its end.                *)
THEOREM DescriptionGrows == Spec => DescriptionAppendOnly
<1>1. IInv /\ [Next]_vars =>
        [/\ Len(description) <= Len(description')
         /\ SubSeq(description', 1, Len(description)) = description]_description
  <2>. SUFFICES ASSUME IInv, [Next]_vars, description' # description
                PROVE  /\ Len(description) <= Len(description')
                       /\ SubSeq(description', 1, Len(description)) = description
    OBVIOUS
  <2>1. PICK t \in Threads : LoadLanguageDescription(t)
    BY DEF Next, Step, Crash, Dead, Die, library, vars, PluginInitialize, DoExecute,
       StartLibrary, CollectSpecFiles, SpecFilesLoaded, AddCommand, Lock, ResolveTarget,
       ResolveArchitecture, BuildSpecFile, BuildSharedTranslator, InitializeTranslator,
       Configure, FindFunction, Perform, PrintFunction, Fail, Return, Leave
  <2>2. description \in Seq(LanguageDescription) /\ TypeOK
    BY DEF IInv, TypeOK
  <2>3. PICK outcome \in LoadOutcomes(Head(Top(t).files)) : description' = Extended(outcome)
    BY <2>1 DEF LoadLanguageDescription
  <2>4. outcome.entries \in Seq(LanguageDescription)
    <3>1. Runs(t, "load") /\ Top(t).files # <<>>
      BY <2>1 DEF LoadLanguageDescription
    <3>2. Top(t) \in Frame
      BY <3>1, TopValid
    <3>3. Head(Top(t).files) \in Seq(Languages)
      BY <3>1, <3>2, HeadTailProperties DEF Frame
    <3>. QED
      BY <3>3, LoadOutcomesType
  <2>. DEFINE n == Len(description)
  <2>5. /\ description' \in Seq(LanguageDescription)
        /\ Len(description') = n + Len(outcome.entries)
        /\ \A i \in 1..n : description'[i] = description[i]
    BY <2>2, <2>3, <2>4, ConcatProperties DEF Extended
  <2>6. n \in Nat /\ Len(outcome.entries) \in Nat /\ Len(description') \in Nat
    BY <2>2, <2>4, <2>5, LenProperties
  <2>. PICK m : m = n
    OBVIOUS
  <2>. PICK q : q = SubSeq(description', 1, m)
    OBVIOUS
  <2>7. m \in Nat /\ m <= Len(description') /\ 1 \in Int /\ m \in Int
    BY <2>5, <2>6
  <2>8. \A i \in 1..m : description'[i] \in LanguageDescription
    BY <2>5, <2>7, ElementOfSeq
  <2>9. /\ q \in Seq(LanguageDescription)
        /\ Len(q) = IF 1 <= m THEN m - 1 + 1 ELSE 0
        /\ \A i \in 1..m - 1 + 1 : q[i] = description'[1 + i - 1]
    BY <2>7, <2>8, SubSeqProperties
  <2>10. Len(q) = m /\ \A i \in 1..m : q[i] = description'[i]
    BY <2>7, <2>9
  <2>11. q = description
    BY <2>2, <2>5, <2>9, <2>10, SeqEqual
  <2>. QED
    BY <2>7, <2>11
<1>. QED
  BY <1>1, InductiveInvariant, PTL DEF Spec, DescriptionAppendOnly
=============================================================================
