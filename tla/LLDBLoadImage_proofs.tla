------------------------ MODULE LLDBLoadImage_proofs ------------------------
(* What the image of a target promises, for every set of modules, sections *)
(* and bases, reads of every size, and any number of changes of the target *)
(* between two calls of LLDB.                                              *)
EXTENDS LLDBLoadImage, AddressMaps_proofs, SequenceTheorems

(* Where sections lie.                                                     *)
LEMMA SectionsInOffsets ==
  ASSUME NEW m \in Modules, NEW b \in Bases, NEW k \in DOMAIN Sections[m]
  PROVE  /\ Sections[m][k] \in Section
         /\ SectionBytes(b, Sections[m][k]) \subseteq Offsets
<1>1. Sections[m] \in Seq(Section)
  BY SectionAssumption
<1>2. Sections[m][k] \in Section
  BY <1>1
<1>3. /\ MaxOffset \in Nat
      /\ b \in Nat
      /\ b + Sections[m][k].at + Sections[m][k].size <= MaxOffset + 1
  BY SectionAssumption DEF Offsets
<1>4. Sections[m][k].at \in Nat /\ Sections[m][k].size \in Nat
  BY <1>2 DEF Section, Offsets
<1> QED BY <1>2, <1>3, <1>4 DEF SectionBytes, Offsets

LEMMA UnwritableInOffsets ==
  ASSUME NEW at \in [Modules -> Bases \cup {NotLoaded}]
  PROVE  Unwritable(at) \subseteq Offsets
<1>1. ASSUME NEW o \in Unwritable(at) PROVE o \in Offsets
  <2>1. PICK m \in Modules : at[m] # NotLoaded /\ o \in ModuleBytes(m, at[m], {"readonly"})
    BY <1>1 DEF Unwritable
  <2>2. at[m] \in Bases
    BY <2>1
  <2>3. PICK k \in DOMAIN Sections[m] : o \in SectionBytes(at[m], Sections[m][k])
    BY <2>1 DEF ModuleBytes
  <2> QED BY <2>2, <2>3, SectionsInOffsets
<1> QED BY <1>1

(* A section that is read-only and loaded lies in unwritable memory.       *)
LEMMA SectionIsUnwritable ==
  ASSUME NEW at, NEW m \in Modules, at[m] # NotLoaded,
         NEW k \in DOMAIN Sections[m], Sections[m][k].perms = "readonly"
  PROVE  SectionBytes(at[m], Sections[m][k]) \subseteq Unwritable(at)
<1>1. SectionBytes(at[m], Sections[m][k]) \subseteq ModuleBytes(m, at[m], {"readonly"})
  BY DEF ModuleBytes
<1> QED BY <1>1 DEF Unwritable

(* Loading adds unwritable memory, unloading only takes it away.           *)
LEMMA UnloadShrinks ==
  ASSUME NEW at \in [Modules -> Bases \cup {NotLoaded}], NEW m \in Modules
  PROVE  Unwritable([at EXCEPT ![m] = NotLoaded]) \subseteq Unwritable(at)
<1>1. PICK now : now = [at EXCEPT ![m] = NotLoaded]
  OBVIOUS
<1>2. ASSUME NEW o \in Unwritable(now) PROVE o \in Unwritable(at)
  <2>1. PICK n \in Modules : now[n] # NotLoaded /\ o \in ModuleBytes(n, now[n], {"readonly"})
    BY <1>2 DEF Unwritable
  <2>2. now[n] = at[n]
    BY <1>1, <2>1
  <2> QED BY <2>1, <2>2 DEF Unwritable
<1> QED BY <1>1, <1>2
-----------------------------------------------------------------------------
(* fillinReadOnlyFromLoader starts when the list is complete.              *)
RestEmpty == pc \in {"getReadonly", "module", "section"} => rest = {}

ListInv == RangesDisjoint /\ RestEmpty

LEMMA ListInit == Init => TypeOK /\ ListInv
<1> SUFFICES ASSUME Init PROVE TypeOK /\ ListInv
  OBVIOUS
<1>1. TargetTypes
  <2>1. modules \in Seq(Modules)
    <3>1. CASE modules = <<>>
      BY <3>1
    <3>2. ASSUME NEW m \in Modules, modules = <<m>> PROVE modules \in Seq(Modules)
      BY <3>2
    <3> QED BY <3>1, <3>2 DEF Init
  <2>2. Unwritable(base) \subseteq Offsets
    BY UnwritableInOffsets DEF Init
  <2>3. events \in 0..MaxEvents
    BY SectionAssumption DEF Init
  <2> QED BY <2>1, <2>2, <2>3 DEF Init, TargetTypes
<1>2. ImageTypes
  <2>1. DOMAIN flagbase \subseteq Nat /\ \A p \in DOMAIN flagbase : flagbase[p] \in Flags
    BY SectionAssumption DEF Init, Offsets, Flags
  <2>2. loop \in [i : Nat \ {0}, numModules : Nat,
                 module : Modules \cup {NoModule}, j : Nat \ {0}]
    BY DEF Init
  <2>3. read \in [bytesRead : Nat, failed : BOOLEAN, buffer : Seq(Byte)]
    BY DEF Init
  <2> QED BY <2>1, <2>2, <2>3 DEF Init, ImageTypes
<1>3. ListInv
  BY DEF Init, ListInv, RangesDisjoint, Disjoint, RestEmpty
<1> QED BY <1>1, <1>2, <1>3 DEF TypeOK

(* The steps of the target.                                                *)
TargetStep ==
  \/ \E m \in Modules, b \in Bases : LoadModule(m, b)
  \/ \E k \in DOMAIN modules : UnloadModule(k)
  \/ RunProcess

LEMMA EventsBounded ==
  ASSUME TargetTypes, Changed
  PROVE  events' \in 0..MaxEvents
<1>1. MaxEvents \in Nat
  BY SectionAssumption
<1>2. events \in 0..MaxEvents /\ events < MaxEvents /\ events' = events + 1
  BY DEF TargetTypes, Changed
<1> QED BY <1>1, <1>2

LEMMA TargetTypesKept ==
  ASSUME TargetTypes, TargetStep
  PROVE  TargetTypes'
<1>1. ASSUME NEW m \in Modules, NEW b \in Bases, LoadModule(m, b) PROVE TargetTypes'
  <2>1. modules' \in Seq(Modules)
    BY <1>1 DEF LoadModule, TargetTypes
  <2>2. base' \in [Modules -> Bases \cup {NotLoaded}]
    BY <1>1 DEF LoadModule, TargetTypes
  <2>3. Unwritable(base') \subseteq Offsets
    BY <2>2, UnwritableInOffsets
  <2>4. ever' \subseteq Offsets /\ always' \subseteq ever'
    BY <1>1, <2>3 DEF LoadModule, TargetTypes
  <2>5. events' \in 0..MaxEvents
    BY <1>1, EventsBounded DEF LoadModule
  <2>6. UNCHANGED <<process, stops, unloaded>>
    BY <1>1 DEF LoadModule
  <2> QED BY <2>1, <2>2, <2>4, <2>5, <2>6 DEF TargetTypes
<1>2. ASSUME NEW k \in DOMAIN modules, UnloadModule(k) PROVE TargetTypes'
  <2>1. modules' \in Seq(Modules)
    <3>1. modules \in Seq(Modules) /\ k \in 1..Len(modules)
      BY DEF TargetTypes
    <3>2. SubSeq(modules, 1, k - 1) \in Seq(Modules)
      BY <3>1, SubSeqProperties
    <3>3. SubSeq(modules, k + 1, Len(modules)) \in Seq(Modules)
      BY <3>1, SubSeqProperties
    <3> QED BY <1>2, <3>2, <3>3, ConcatProperties DEF UnloadModule
  <2>2. base' \in [Modules -> Bases \cup {NotLoaded}]
    BY <1>2 DEF UnloadModule, TargetTypes
  <2>3. ever' \subseteq Offsets /\ always' \subseteq ever'
    BY <1>2 DEF UnloadModule, TargetTypes
  <2>4. events' \in 0..MaxEvents
    BY <1>2, EventsBounded DEF UnloadModule
  <2>5. UNCHANGED <<process, stops>> /\ unloaded' = TRUE
    BY <1>2 DEF UnloadModule
  <2> QED BY <2>1, <2>2, <2>3, <2>4, <2>5 DEF TargetTypes
<1>3. ASSUME RunProcess PROVE TargetTypes'
  <2>1. events' \in 0..MaxEvents
    BY <1>3, EventsBounded DEF RunProcess
  <2>2. process' \in {"stopped", "running", "exited"} /\ stops' \in Nat
    BY <1>3 DEF RunProcess, TargetTypes
  <2>3. UNCHANGED <<modules, base, ever, always, unloaded>>
    BY <1>3 DEF RunProcess, history
  <2> QED BY <2>1, <2>2, <2>3 DEF TargetTypes
<1> QED BY <1>1, <1>2, <1>3 DEF TargetStep

LEMMA TargetKeepsImage ==
  ASSUME TargetStep
  PROVE  UNCHANGED <<pc, loop, ranges, rest, flagbase, read>>
BY DEF TargetStep, LoadModule, UnloadModule, RunProcess, Changed

(* The steps of the command's thread.                                      *)
LEMMA ImageKeepsTarget ==
  ASSUME Step \/ \E n \in ReadSizes : LoadFill(n)
  PROVE  UNCHANGED <<target, history>>
BY DEF Step, GetNumModules, GetModuleAtIndex, EndModule, InsertSection, ReturnReadonly,
       FillinReadOnly, EndInit, ReadProcess, ReadTarget, ZeroFill, LoadFill

(* The section getReadonly looks at, when there is one.                    *)
LEMMA SectionLookedAt ==
  ASSUME TypeOK, loop.j <= NumSections(loop.module)
  PROVE  /\ loop.module \in Modules
         /\ loop.j \in DOMAIN Sections[loop.module]
<1>1. loop.module \in Modules \cup {NoModule} /\ loop.j \in Nat \ {0}
  BY DEF TypeOK, ImageTypes
<1>2. loop.module # NoModule
  BY <1>1 DEF NumSections
<1>3. loop.module \in Modules /\ loop.j <= Len(Sections[loop.module])
  BY <1>1, <1>2 DEF NumSections
<1>4. Sections[loop.module] \in Seq(Section)
  BY <1>3, SectionAssumption
<1> QED BY <1>1, <1>3, <1>4

LEMMA SectionRange ==
  ASSUME TypeOK, NEW m \in Modules, base[m] # NotLoaded,
         NEW k \in DOMAIN Sections[m], Sections[m][k].size > 0
  PROVE  /\ base[m] + Sections[m][k].at \in Nat
         /\ base[m] + Sections[m][k].at + Sections[m][k].size - 1 \in Nat
         /\ base[m] + Sections[m][k].at
              <= base[m] + Sections[m][k].at + Sections[m][k].size - 1
<1>1. base[m] \in Bases
  BY DEF TypeOK, TargetTypes
<1>2. base[m] \in Nat
  <2>1. Bases \subseteq Offsets /\ MaxOffset \in Nat
    BY SectionAssumption
  <2>2. base[m] \in Offsets
    BY <1>1, <2>1
  <2>3. Offsets \subseteq Nat
    BY <2>1 DEF Offsets
  <2> QED BY <2>2, <2>3
<1>3. Sections[m][k] \in Section
  BY <1>1, SectionsInOffsets
<1>4. Sections[m][k].at \in Nat /\ Sections[m][k].size \in Nat
  BY <1>3 DEF Section, Offsets
<1> QED BY <1>2, <1>4

(* What getReadonly collects and fillinReadOnlyFromLoader marks was        *)
(* unwritable at some time.                                                *)
WasUnwritable ==
  /\ Unwritable(base) \subseteq ever
  /\ Bytes(ranges) \subseteq ever
  /\ \A o \in Nat : IsMarked(o) => o \in ever

ImageInv == ListInv /\ WasUnwritable

LEMMA InsertSectionKeeps ==
  ASSUME TypeOK, ImageInv, InsertSection
  PROVE  ImageTypes' /\ ImageInv'
<1> DEFINE m == loop.module
           k == loop.j
           s == Sections[m][k]
<1>1. m \in Modules /\ k \in DOMAIN Sections[m]
  BY SectionLookedAt DEF InsertSection
<1>2. /\ pc = "section" /\ pc' = pc /\ rest' = rest
      /\ UNCHANGED <<target, flagbase, read, history>>
      /\ loop' = [loop EXCEPT !.j = loop.j + 1]
  BY DEF InsertSection
<1>3. UNCHANGED <<base, ever>>
  BY <1>2 DEF target, history
<1>4. loop' \in [i : Nat \ {0}, numModules : Nat,
                 module : Modules \cup {NoModule}, j : Nat \ {0}]
  BY <1>2 DEF TypeOK, ImageTypes
<1>5. rest = {}
  BY <1>2 DEF ImageInv, ListInv, RestEmpty
<1>6. ranges \in SUBSET Ranges /\ Disjoint(ranges) /\ Bytes(ranges) \subseteq ever
  BY DEF TypeOK, ImageTypes, ImageInv, ListInv, RangesDisjoint, WasUnwritable
<1>7. ranges' \in SUBSET Ranges /\ Disjoint(ranges') /\ Bytes(ranges') \subseteq ever
  <2>1. CASE ranges' = ranges
    BY <1>6, <2>1
  <2>2. CASE IsReadonly(s) /\ base[m] # NotLoaded
    <3>1. PICK first : first = base[m] + s.at
      OBVIOUS
    <3>2. PICK last : last = base[m] + s.at + s.size - 1
      OBVIOUS
    <3>3. ranges' = InsertRange(ranges, first, last)
      BY <2>2, <3>1, <3>2 DEF InsertSection
    <3>4. s.size > 0 /\ s.perms = "readonly"
      BY <2>2 DEF IsReadonly
    <3>5. first \in Nat /\ last \in Nat /\ first <= last
      BY <1>1, <2>2, <3>1, <3>2, <3>4, SectionRange
    <3>6. /\ ranges' \in SUBSET Ranges /\ Disjoint(ranges')
          /\ Bytes(ranges') = Bytes(ranges) \cup (first .. last)
      BY <1>6, <3>3, <3>5, InsertRangeCovers
    <3>7. first .. last = SectionBytes(base[m], s)
      BY <3>1, <3>2 DEF SectionBytes
    <3>8. first .. last \subseteq Unwritable(base)
      BY <1>1, <2>2, <3>4, <3>7, SectionIsUnwritable
    <3> QED BY <1>6, <3>6, <3>8 DEF ImageInv, WasUnwritable
  <2> QED BY <2>1, <2>2 DEF InsertSection
<1>8. ImageTypes'
  BY <1>2, <1>4, <1>5, <1>7 DEF TypeOK, ImageTypes
<1>9. ListInv'
  BY <1>2, <1>5, <1>7 DEF ListInv, RangesDisjoint, RestEmpty
<1>10. WasUnwritable'
  BY <1>2, <1>3, <1>7 DEF ImageInv, WasUnwritable, IsMarked
<1> QED BY <1>8, <1>9, <1>10 DEF ImageInv

LEMMA FillinKeeps ==
  ASSUME TypeOK, ImageInv, FillinReadOnly
  PROVE  /\ ImageTypes' /\ ImageInv'
         /\ \A o \in Nat : "volatile" \in GetValue(flagbase', o)
                             <=> "volatile" \in GetValue(flagbase, o)
         /\ \E r \in rest :
              /\ rest' = rest \ {r}
              /\ \A o \in Nat : IsMarked(o)' <=> IsMarked(o) \/ o \in r.first .. r.last
<1>1. PICK r \in rest :
        /\ rest' = rest \ {r}
        /\ flagbase' = SetPropertyRange(flagbase, {"readonly"}, r.first, r.last)
  BY DEF FillinReadOnly
<1>2. /\ pc = "fillin" /\ UNCHANGED <<target, pc, loop, ranges, read, history>>
  BY DEF FillinReadOnly
<1>3. r \in ranges /\ ranges \subseteq Ranges
  BY DEF TypeOK, ImageTypes
<1>4. r.first \in Nat /\ r.last \in Nat /\ r.first <= r.last
  BY <1>3 DEF Ranges
<1>a. PICK first \in Nat, last \in Nat : first = r.first /\ last = r.last /\ first <= last
  BY <1>4
<1>b. PICK flags \in SUBSET {"readonly", "volatile"} : flags = {"readonly"}
  OBVIOUS
<1>c. PICK map : map = flagbase
  OBVIOUS
<1>d. flagbase' = SetPropertyRange(map, flags, first, last)
  BY <1>1, <1>a, <1>b, <1>c
<1>5. /\ DOMAIN flagbase \subseteq Nat
      /\ \A p \in DOMAIN flagbase : flagbase[p] \in SUBSET {"readonly", "volatile"}
  BY DEF TypeOK, ImageTypes, Flags
<1>6. /\ DOMAIN flagbase' \subseteq Nat
      /\ \A p \in DOMAIN flagbase' : flagbase'[p] \in SUBSET {"readonly", "volatile"}
  <2>1. PICK F : F = {"readonly", "volatile"}
    OBVIOUS
  <2>2. /\ DOMAIN map \subseteq Nat /\ \A p \in DOMAIN map : map[p] \in SUBSET F
        /\ flags \in SUBSET F
    BY <1>5, <1>c, <2>1
  <2>3. /\ DOMAIN SetPropertyRange(map, flags, first, last) \subseteq Nat
        /\ \A q \in DOMAIN SetPropertyRange(map, flags, first, last) :
              SetPropertyRange(map, flags, first, last)[q] \in SUBSET F
    BY <2>2, PropertyRangeIsFlags
  <2> QED BY <1>d, <2>1, <2>3
<1>7. ASSUME NEW o \in Nat
      PROVE  /\ r.first <= o /\ o <= r.last =>
                  GetValue(flagbase', o) = GetValue(flagbase, o) \cup {"readonly"}
             /\ ~(r.first <= o /\ o <= r.last) =>
                  GetValue(flagbase', o) = GetValue(flagbase, o)
  <2>1. /\ first <= o /\ o <= last =>
             GetValue(SetPropertyRange(map, flags, first, last), o)
               = GetValue(map, o) \cup flags
        /\ ~(first <= o /\ o <= last) =>
             GetValue(SetPropertyRange(map, flags, first, last), o) = GetValue(map, o)
    <3>1. DOMAIN map \subseteq Nat
      BY <1>5, <1>c
    <3>2. first <= last
      BY <1>a
    <3> QED BY <3>1, <3>2, PropertyRangeRaised
  <2> QED BY <1>a, <1>b, <1>c, <1>d, <2>1
<1>8. ASSUME NEW o \in Nat
      PROVE  "volatile" \in GetValue(flagbase', o) <=> "volatile" \in GetValue(flagbase, o)
  BY <1>7
<1>9. UNCHANGED <<base, ever>>
  BY <1>2 DEF target, history
<1>10. ASSUME NEW o \in Nat, IsMarked(o)' PROVE o \in ever
  <2>1. CASE r.first <= o /\ o <= r.last
    <3>1. o \in r.first .. r.last
      BY <1>4, <2>1
    <3>2. o \in Bytes(ranges)
      BY <1>3, <3>1 DEF Bytes
    <3> QED BY <3>2 DEF ImageInv, WasUnwritable
  <2>2. CASE ~(r.first <= o /\ o <= r.last)
    <3>1. IsMarked(o)
      BY <1>7, <1>10, <2>2 DEF IsMarked
    <3> QED BY <3>1 DEF ImageInv, WasUnwritable
  <2> QED BY <2>1, <2>2
<1>11. ImageTypes'
  BY <1>1, <1>2, <1>6 DEF TypeOK, ImageTypes, Flags
<1>12. ImageInv'
  <2>1. ListInv'
    BY <1>2 DEF ImageInv, ListInv, RangesDisjoint, RestEmpty
  <2>2. WasUnwritable'
    BY <1>2, <1>9, <1>10 DEF ImageInv, WasUnwritable
  <2> QED BY <2>1, <2>2 DEF ImageInv
<1>13. ASSUME NEW o \in Nat
       PROVE  IsMarked(o)' <=> IsMarked(o) \/ o \in r.first .. r.last
  <2>1. o \in r.first .. r.last <=> r.first <= o /\ o <= r.last
    BY <1>4
  <2> QED BY <1>7, <2>1 DEF IsMarked
<1> QED BY <1>1, <1>8, <1>11, <1>12, <1>13

(* The other steps of getReadonly only move the loop.                      *)
LEMMA LoopKeeps ==
  ASSUME TypeOK, ImageInv,
         GetNumModules \/ GetModuleAtIndex \/ EndModule \/ ReturnReadonly \/ EndInit
  PROVE  ImageTypes' /\ ImageInv' /\ flagbase' = flagbase
<1>1. UNCHANGED <<target, ranges, flagbase, read, history>>
  BY DEF GetNumModules, GetModuleAtIndex, EndModule, ReturnReadonly, EndInit
<1>2. loop' \in [i : Nat \ {0}, numModules : Nat,
                 module : Modules \cup {NoModule}, j : Nat \ {0}]
  <2>1. loop \in [i : Nat \ {0}, numModules : Nat,
                  module : Modules \cup {NoModule}, j : Nat \ {0}]
        /\ modules \in Seq(Modules)
    BY DEF TypeOK, ImageTypes, TargetTypes
  <2>2. CASE GetNumModules
    BY <2>1, <2>2 DEF GetNumModules
  <2>3. CASE GetModuleAtIndex
    <3>1. loop.i \in Nat \ {0}
      BY <2>1
    <3>2. loop.i <= Len(modules) => modules[loop.i] \in Modules
      BY <2>1, <3>1
    <3>3. PICK m : m = IF loop.i <= Len(modules) THEN modules[loop.i] ELSE NoModule
      OBVIOUS
    <3>4. m \in Modules \cup {NoModule}
      BY <3>2, <3>3
    <3>5. loop' = [loop EXCEPT !.j = 1, !.module = m]
      BY <2>3, <3>3 DEF GetModuleAtIndex
    <3>6. loop' = [i |-> loop.i, numModules |-> loop.numModules, module |-> m, j |-> 1]
      BY <2>1, <3>5
    <3>7. loop.i \in Nat \ {0} /\ loop.numModules \in Nat
      BY <2>1
    <3> QED BY <3>4, <3>6, <3>7
  <2>4. CASE EndModule
    BY <2>1, <2>4 DEF EndModule, NextModule
  <2>5. CASE ReturnReadonly \/ EndInit
    BY <2>1, <2>5 DEF ReturnReadonly, EndInit
  <2> QED BY <2>2, <2>3, <2>4, <2>5
<1>3. /\ pc' \in {"getReadonly", "module", "section", "fillin", "idle",
                  "process", "target", "zero", "returned"}
      /\ rest' \subseteq ranges
      /\ pc' \in {"getReadonly", "module", "section"} => rest' = {}
  <2>1. rest \subseteq ranges
    BY DEF TypeOK, ImageTypes
  <2>2. pc \in {"getReadonly", "module", "section"} => rest = {}
    BY DEF ImageInv, ListInv, RestEmpty
  <2>3. CASE GetNumModules \/ GetModuleAtIndex \/ EndModule
    BY <2>1, <2>2, <2>3 DEF GetNumModules, GetModuleAtIndex, EndModule
  <2>4. CASE ReturnReadonly \/ EndInit
    BY <2>1, <2>4 DEF ReturnReadonly, EndInit
  <2> QED BY <2>3, <2>4
<1>4. ImageTypes'
  BY <1>1, <1>2, <1>3 DEF TypeOK, ImageTypes
<1>5. ListInv'
  BY <1>1, <1>3 DEF ImageInv, ListInv, RangesDisjoint, RestEmpty
<1>6. WasUnwritable'
  BY <1>1 DEF ImageInv, WasUnwritable, IsMarked, target, history
<1> QED BY <1>1, <1>4, <1>5, <1>6 DEF ImageInv
-----------------------------------------------------------------------------
(* loadFill.  After the reads, what bytesRead counts is one byte over and  *)
(* over: all from one source at one stop.                                  *)
FromOneRead ==
  \E byte \in Byte :
    /\ byte.from \in {"process", "file"}
    /\ \A k \in DOMAIN read.buffer : k <= read.bytesRead => read.buffer[k] = byte

ReadInv ==
  /\ pc = "process" => read.bytesRead = 0
  /\ pc \in {"target", "zero"} => FromOneRead
  /\ BufferDefined /\ OneSnapshot

LEMMA CurrentIsByte ==
  ASSUME TypeOK, NEW from \in {"process", "file"}
  PROVE  CurrentByte(from) \in Byte /\ CurrentByte(from).from = from
BY DEF TypeOK, TargetTypes, CurrentByte, Byte

LEMMA BufferType ==
  ASSUME TypeOK, NEW f, NEW buffer,
         buffer = [k \in DOMAIN read.buffer |-> f[k]],
         \A k \in DOMAIN read.buffer : f[k] \in Byte
  PROVE  buffer \in Seq(Byte) /\ DOMAIN buffer = DOMAIN read.buffer
<1>1. read.buffer \in Seq(Byte)
  BY DEF TypeOK, ImageTypes
<1>2. PICK n \in Nat : n = Len(read.buffer)
  BY <1>1
<1>3. DOMAIN read.buffer = 1..n
  BY <1>1, <1>2
<1>4. buffer \in [1..n -> Byte]
  BY <1>3
<1> QED BY <1>3, <1>4, SeqDef

LEMMA WrittenType ==
  ASSUME TypeOK, NEW n \in Nat, NEW byte \in Byte
  PROVE  /\ Written(n, byte) \in Seq(Byte)
         /\ DOMAIN Written(n, byte) = DOMAIN read.buffer
         /\ \A k \in DOMAIN read.buffer : k <= n => Written(n, byte)[k] = byte
<1>1. \A k \in DOMAIN read.buffer : read.buffer[k] \in Byte
  BY DEF TypeOK, ImageTypes
<1>2. PICK f : f = [k \in DOMAIN read.buffer |-> IF k <= n THEN byte ELSE read.buffer[k]]
  OBVIOUS
<1>3. Written(n, byte) = f
  BY <1>2 DEF Written
<1>4. \A k \in DOMAIN read.buffer : f[k] \in Byte
  BY <1>1, <1>2
<1>5. f = [k \in DOMAIN read.buffer |-> f[k]]
  BY <1>2
<1>6. f \in Seq(Byte) /\ DOMAIN f = DOMAIN read.buffer
  BY <1>4, <1>5, BufferType
<1> QED BY <1>2, <1>3, <1>6

(* What the steps of loadFill leave alone.                                 *)
LEMMA ReadFrame ==
  ASSUME TypeOK, ImageInv,
         UNCHANGED <<target, loop, ranges, rest, flagbase, history>>,
         pc' \in {"process", "target", "zero", "returned"},
         read' \in [bytesRead : Nat, failed : BOOLEAN, buffer : Seq(Byte)]
  PROVE  ImageTypes' /\ ImageInv'
<1>1. ImageTypes'
  BY DEF TypeOK, ImageTypes
<1>2. ListInv'
  BY DEF ImageInv, ListInv, RangesDisjoint, RestEmpty
<1>3. WasUnwritable'
  BY DEF ImageInv, WasUnwritable, IsMarked, target, history
<1> QED BY <1>1, <1>2, <1>3 DEF ImageInv

LEMMA LoadFillKeeps ==
  ASSUME TypeOK, ImageInv, NEW size \in ReadSizes, LoadFill(size)
  PROVE  ImageTypes' /\ ImageInv' /\ ReadInv'
<1>1. size \in Nat
  BY SectionAssumption
<1>2. Made("caller") \in Byte
  BY DEF Made, Byte
<1>3. [k \in 1..size |-> Made("caller")] \in Seq(Byte)
  BY <1>1, <1>2
<1>4. read' \in [bytesRead : Nat, failed : BOOLEAN, buffer : Seq(Byte)]
  BY <1>3 DEF LoadFill
<1>5. /\ pc' = "process" /\ read'.bytesRead = 0
      /\ UNCHANGED <<target, loop, ranges, rest, flagbase, history>>
  BY DEF LoadFill
<1> QED BY <1>4, <1>5, ReadFrame DEF ReadInv, BufferDefined, OneSnapshot

LEMMA ReadProcessKeeps ==
  ASSUME TypeOK, ImageInv, ReadInv, ReadProcess
  PROVE  ImageTypes' /\ ImageInv' /\ ReadInv'
<1>1. pc' = "target" /\ UNCHANGED <<target, loop, ranges, rest, flagbase, history>>
  BY DEF ReadProcess
<1>2. read \in [bytesRead : Nat, failed : BOOLEAN, buffer : Seq(Byte)]
  BY DEF TypeOK, ImageTypes
<1>3. ASSUME NEW n \in 0..Len(read.buffer), NEW failed \in BOOLEAN,
             read' = [bytesRead |-> n, failed |-> failed,
                      buffer |-> Written(n, CurrentByte("process"))]
      PROVE  /\ read' \in [bytesRead : Nat, failed : BOOLEAN, buffer : Seq(Byte)]
             /\ FromOneRead'
  <2>1. n \in Nat
    BY <1>2
  <2>2. PICK byte \in Byte : byte = CurrentByte("process") /\ byte.from = "process"
    BY CurrentIsByte
  <2>3. /\ Written(n, byte) \in Seq(Byte)
        /\ DOMAIN Written(n, byte) = DOMAIN read.buffer
        /\ \A k \in DOMAIN read.buffer : k <= n => Written(n, byte)[k] = byte
    BY <2>1, WrittenType
  <2>4. read'.bytesRead = n /\ read'.buffer = Written(n, byte)
    BY <1>3, <2>2
  <2>5. FromOneRead'
    BY <2>2, <2>3, <2>4 DEF FromOneRead
  <2>6. read' \in [bytesRead : Nat, failed : BOOLEAN, buffer : Seq(Byte)]
    BY <1>3, <2>1, <2>2, <2>3
  <2> QED BY <2>5, <2>6
<1>4. ASSUME read' = [read EXCEPT !.failed = TRUE], read.bytesRead = 0
      PROVE  /\ read' \in [bytesRead : Nat, failed : BOOLEAN, buffer : Seq(Byte)]
             /\ FromOneRead'
  <2>1. read'.bytesRead = 0 /\ read'.buffer = read.buffer
    BY <1>2, <1>4
  <2>2. DOMAIN read.buffer \subseteq Nat \ {0}
    BY <1>2
  <2>3. CurrentByte("file") \in Byte /\ CurrentByte("file").from = "file"
    BY CurrentIsByte
  <2>4. FromOneRead'
    BY <2>1, <2>2, <2>3 DEF FromOneRead
  <2>5. read' \in [bytesRead : Nat, failed : BOOLEAN, buffer : Seq(Byte)]
    BY <1>2, <1>4
  <2> QED BY <2>4, <2>5
<1>5. /\ read' \in [bytesRead : Nat, failed : BOOLEAN, buffer : Seq(Byte)]
      /\ FromOneRead'
  BY <1>3, <1>4 DEF ReadProcess, ReadInv
<1> QED BY <1>1, <1>5, ReadFrame DEF ReadInv, BufferDefined, OneSnapshot

LEMMA ReadTargetKeeps ==
  ASSUME TypeOK, ImageInv, ReadInv, ReadTarget
  PROVE  ImageTypes' /\ ImageInv' /\ ReadInv'
<1>1. /\ pc = "target" /\ pc' = "zero"
      /\ UNCHANGED <<target, loop, ranges, rest, flagbase, history>>
  BY DEF ReadTarget
<1>2. read \in [bytesRead : Nat, failed : BOOLEAN, buffer : Seq(Byte)]
  BY DEF TypeOK, ImageTypes
<1>3. ASSUME NEW n \in 0..Len(read.buffer),
             read' = [read EXCEPT !.bytesRead = n, !.buffer =
                        Overwritten(n, CurrentByte(IF process = "stopped"
                                                   THEN "process" ELSE "file"))]
      PROVE  /\ read' \in [bytesRead : Nat, failed : BOOLEAN, buffer : Seq(Byte)]
             /\ FromOneRead'
  <2>1. n \in Nat
    BY <1>2
  <2>2. PICK from \in {"process", "file"} :
          from = IF process = "stopped" THEN "process" ELSE "file"
    OBVIOUS
  <2>3. PICK byte \in Byte : byte = CurrentByte(from) /\ byte.from = from
    BY CurrentIsByte
  <2>4. /\ Written(n, byte) \in Seq(Byte)
        /\ DOMAIN Written(n, byte) = DOMAIN read.buffer
        /\ \A k \in DOMAIN read.buffer : k <= n => Written(n, byte)[k] = byte
    BY <2>1, WrittenType
  <2>5. read' = [read EXCEPT !.bytesRead = n, !.buffer = Written(n, byte)]
    BY <1>3, <2>2, <2>3 DEF Overwritten
  <2>6. read'.bytesRead = n /\ read'.buffer = Written(n, byte)
    BY <1>2, <2>5
  <2>7. FromOneRead'
    BY <2>2, <2>3, <2>4, <2>6 DEF FromOneRead
  <2>8. read' \in [bytesRead : Nat, failed : BOOLEAN, buffer : Seq(Byte)]
    BY <1>2, <2>1, <2>4, <2>5
  <2> QED BY <2>7, <2>8
<1>4. ASSUME UNCHANGED read
      PROVE  /\ read' \in [bytesRead : Nat, failed : BOOLEAN, buffer : Seq(Byte)]
             /\ FromOneRead'
  BY <1>1, <1>2, <1>4 DEF ReadInv, FromOneRead
<1>5. /\ read' \in [bytesRead : Nat, failed : BOOLEAN, buffer : Seq(Byte)]
      /\ FromOneRead'
  BY <1>3, <1>4 DEF ReadTarget
<1> QED BY <1>1, <1>5, ReadFrame DEF ReadInv, BufferDefined, OneSnapshot

LEMMA ZeroFillKeeps ==
  ASSUME TypeOK, ImageInv, ReadInv, ZeroFill
  PROVE  ImageTypes' /\ ImageInv' /\ ReadInv'
<1>1. /\ pc = "zero" /\ pc' = "returned"
      /\ UNCHANGED <<target, loop, ranges, rest, flagbase, history>>
      /\ read' = [read EXCEPT !.buffer = Zeroed]
  BY DEF ZeroFill
<1>2. read \in [bytesRead : Nat, failed : BOOLEAN, buffer : Seq(Byte)]
  BY DEF TypeOK, ImageTypes
<1>3. DOMAIN read.buffer \subseteq Nat
      /\ \A k \in DOMAIN read.buffer : read.buffer[k] \in Byte
  BY <1>2
<1>4. Made("zero") \in Byte /\ Made("zero").from = "zero"
  BY DEF Made, Byte
<1>5. PICK f : f = [k \in DOMAIN read.buffer |->
                      IF k > read.bytesRead THEN Made("zero") ELSE read.buffer[k]]
  OBVIOUS
<1>6. Zeroed = f
  BY <1>5 DEF Zeroed
<1>7. \A k \in DOMAIN read.buffer : f[k] \in Byte
  BY <1>3, <1>4, <1>5
<1>8. f = [k \in DOMAIN read.buffer |-> f[k]]
  BY <1>5
<1>9. f \in Seq(Byte) /\ DOMAIN f = DOMAIN read.buffer
  BY <1>7, <1>8, BufferType
<1>10. read' \in [bytesRead : Nat, failed : BOOLEAN, buffer : Seq(Byte)]
  BY <1>1, <1>2, <1>6, <1>9
<1>11. read'.buffer = f
  BY <1>1, <1>2, <1>6
<1>12. PICK byte \in Byte :
         /\ byte.from \in {"process", "file"}
         /\ \A k \in DOMAIN read.buffer : k <= read.bytesRead => read.buffer[k] = byte
  BY <1>1 DEF ReadInv, FromOneRead
<1>13. \A k \in DOMAIN f : \/ k <= read.bytesRead /\ f[k] = byte
                           \/ k > read.bytesRead /\ f[k] = Made("zero")
  BY <1>2, <1>3, <1>5, <1>9, <1>12
<1>14. BufferDefined'
  BY <1>4, <1>11, <1>12, <1>13 DEF BufferDefined
<1>15. OneSnapshot'
  <2> SUFFICES ASSUME NEW k \in DOMAIN f, NEW n \in DOMAIN f, k < n
               PROVE  f[n] = f[k] \/ f[n].from = "zero"
    BY <1>11 DEF OneSnapshot
  <2>1. CASE n <= read.bytesRead
    <3>1. k <= read.bytesRead
      BY <1>2, <1>3, <1>9, <2>1
    <3> QED BY <1>2, <1>3, <1>9, <1>13, <2>1, <3>1
  <2>2. CASE n > read.bytesRead
    BY <1>2, <1>3, <1>4, <1>9, <1>13, <2>2
  <2> QED BY <1>2, <1>3, <1>9, <2>1, <2>2
<1> QED BY <1>1, <1>10, <1>14, <1>15, ReadFrame DEF ReadInv
-----------------------------------------------------------------------------
(* A step of the target adds to ever what it makes unwritable.             *)
LEMMA TargetKeepsInv ==
  ASSUME TypeOK, ImageInv, ReadInv, TargetStep
  PROVE  ImageTypes' /\ ImageInv' /\ ReadInv'
<1>1. UNCHANGED <<pc, loop, ranges, rest, flagbase, read>>
  BY TargetKeepsImage
<1>2. ImageTypes'
  BY <1>1 DEF TypeOK, ImageTypes
<1>3. ListInv'
  BY <1>1 DEF ImageInv, ListInv, RangesDisjoint, RestEmpty
<1>4. Unwritable(base') \subseteq ever' /\ ever \subseteq ever'
  <2>1. Unwritable(base) \subseteq ever
    BY DEF ImageInv, WasUnwritable
  <2>2. ASSUME NEW m \in Modules, NEW b \in Bases, LoadModule(m, b)
        PROVE  Unwritable(base') \subseteq ever' /\ ever \subseteq ever'
    BY <2>2 DEF LoadModule
  <2>3. ASSUME NEW k \in DOMAIN modules, UnloadModule(k)
        PROVE  Unwritable(base') \subseteq ever' /\ ever \subseteq ever'
    <3>1. base \in [Modules -> Bases \cup {NotLoaded}] /\ modules[k] \in Modules
      BY DEF TypeOK, TargetTypes
    <3>2. base' = [base EXCEPT ![modules[k]] = NotLoaded] /\ ever' = ever
      BY <2>3 DEF UnloadModule
    <3>3. Unwritable([base EXCEPT ![modules[k]] = NotLoaded]) \subseteq Unwritable(base)
      BY <3>1, UnloadShrinks
    <3> QED BY <2>1, <3>2, <3>3
  <2>4. CASE RunProcess
    BY <2>1, <2>4 DEF RunProcess, history
  <2> QED BY <2>2, <2>3, <2>4 DEF TargetStep
<1>5. WasUnwritable'
  BY <1>1, <1>4 DEF ImageInv, WasUnwritable, IsMarked
<1>6. ReadInv'
  BY <1>1 DEF ReadInv, FromOneRead, BufferDefined, OneSnapshot
<1> QED BY <1>2, <1>3, <1>5, <1>6 DEF ImageInv

(* The steps before loadFill leave its buffer alone.                       *)
LEMMA ListKeepsRead ==
  ASSUME ReadInv, UNCHANGED read,
         pc' \in {"getReadonly", "module", "section", "fillin", "idle"}
  PROVE  ReadInv'
BY DEF ReadInv, BufferDefined, OneSnapshot

(* The inductive invariant of the image.                                   *)
IInv == TypeOK /\ ImageInv /\ ReadInv

LEMMA InitInv == Init => IInv
<1> SUFFICES ASSUME Init PROVE IInv
  OBVIOUS
<1>1. TypeOK /\ ListInv
  BY ListInit
<1>2. WasUnwritable
  <2>1. Unwritable(base) \subseteq ever /\ Bytes(ranges) = {}
    BY DEF Init, Bytes
  <2>2. flagbase = FirstFlags /\ DOMAIN FirstFlags \subseteq Nat
        /\ \A p \in DOMAIN FirstFlags : FirstFlags[p] \in SUBSET {"volatile"}
    BY <1>1, SectionAssumption DEF Init, TypeOK, ImageTypes
  <2>3. ASSUME NEW o \in Nat PROVE ~IsMarked(o)
    <3>1. GetValue(flagbase, o) \in SUBSET {"volatile"}
      BY <2>2, ValueIsFlags
    <3> QED BY <3>1 DEF IsMarked
  <2> QED BY <2>1, <2>3 DEF WasUnwritable
<1>3. ReadInv
  BY DEF Init, ReadInv, BufferDefined, OneSnapshot
<1> QED BY <1>1, <1>2, <1>3 DEF IInv, ImageInv

LEMMA StepInv == IInv /\ [Next]_vars => IInv'
<1> SUFFICES ASSUME IInv, [Next]_vars PROVE IInv'
  OBVIOUS
<1> USE DEF IInv
<1>1. CASE TargetStep
  <2>1. TargetTypes'
    BY <1>1, TargetTypesKept DEF TypeOK
  <2>2. ImageTypes' /\ ImageInv' /\ ReadInv'
    BY <1>1, TargetKeepsInv
  <2> QED BY <2>1, <2>2 DEF TypeOK
<1>2. CASE Step \/ \E n \in ReadSizes : LoadFill(n)
  <2>1. UNCHANGED <<target, history>>
    BY <1>2, ImageKeepsTarget
  <2>2. TargetTypes'
    BY <2>1 DEF TypeOK, TargetTypes, target, history
  <2>3. ASSUME ImageTypes', ImageInv', ReadInv' PROVE IInv'
    BY <2>2, <2>3 DEF TypeOK
  <2>4. CASE InsertSection
    <3>1. ImageTypes' /\ ImageInv'
      BY <2>4, InsertSectionKeeps
    <3>2. ReadInv'
      BY <2>4, ListKeepsRead DEF InsertSection
    <3> QED BY <2>3, <3>1, <3>2
  <2>5. CASE FillinReadOnly
    <3>1. ImageTypes' /\ ImageInv'
      BY <2>5, FillinKeeps
    <3>2. ReadInv'
      BY <2>5, ListKeepsRead DEF FillinReadOnly
    <3> QED BY <2>3, <3>1, <3>2
  <2>6. CASE GetNumModules \/ GetModuleAtIndex \/ EndModule \/ ReturnReadonly \/ EndInit
    <3>1. ImageTypes' /\ ImageInv'
      BY <2>6, LoopKeeps
    <3>2. ReadInv'
      BY <2>6, ListKeepsRead
      DEF GetNumModules, GetModuleAtIndex, EndModule, ReturnReadonly, EndInit
    <3> QED BY <2>3, <3>1, <3>2
  <2>7. CASE ReadProcess
    BY <2>3, <2>7, ReadProcessKeeps
  <2>8. CASE ReadTarget
    BY <2>3, <2>8, ReadTargetKeeps
  <2>9. CASE ZeroFill
    BY <2>3, <2>9, ZeroFillKeeps
  <2>10. CASE \E n \in ReadSizes : LoadFill(n)
    BY <2>3, <2>10, LoadFillKeeps
  <2> QED BY <1>2, <2>4, <2>5, <2>6, <2>7, <2>8, <2>9, <2>10 DEF Step
<1>3. CASE UNCHANGED vars
  <2>1. TargetTypes' /\ ImageTypes'
    BY <1>3 DEF vars, target, history, TypeOK, TargetTypes, ImageTypes
  <2>2. ImageInv'
    BY <1>3 DEF vars, target, history, ImageInv, ListInv, RangesDisjoint, RestEmpty,
                WasUnwritable, IsMarked
  <2>3. ReadInv'
    BY <1>3 DEF vars, ReadInv, FromOneRead, BufferDefined, OneSnapshot
  <2> QED BY <2>1, <2>2, <2>3 DEF TypeOK
<1> QED BY <1>1, <1>2, <1>3 DEF Next, TargetStep

LEMMA AlwaysInv == Spec => []IInv
BY InitInv, StepInv, PTL DEF Spec
-----------------------------------------------------------------------------
(* Where a byte that has always been unwritable is on its way into the map, *)
(* while no module is unloaded: in a section the loop has still to reach,   *)
(* in the list, in the rest of the list, and marked.                        *)
Holds(n, k, o) ==
  /\ n \in DOMAIN modules /\ base[modules[n]] # NotLoaded
  /\ k \in DOMAIN Sections[modules[n]]
  /\ Sections[modules[n]][k].perms = "readonly"
  /\ o \in SectionBytes(base[modules[n]], Sections[modules[n]][k])

Ahead(n, k) ==
  CASE pc = "getReadonly" -> loop.i <= n
    [] pc = "module" -> loop.i <= n /\ n <= loop.numModules
    [] pc = "section" ->
         /\ n <= loop.numModules
         /\ \/ loop.i < n
            \/ loop.i = n /\ loop.module = modules[n] /\ loop.j <= k
    [] OTHER -> FALSE

OnItsWay(o) ==
  \/ \E n, k \in Nat : Holds(n, k, o) /\ Ahead(n, k)
  \/ pc \in {"module", "section"} /\ o \in Bytes(ranges)
  \/ pc = "fillin" /\ o \in Bytes(rest)
  \/ pc \notin {"getReadonly", "module", "section"} /\ IsMarked(o)

NoneMissed ==
  /\ pc = "getReadonly" => loop.i = 1
  /\ ~unloaded => \A o \in always : OnItsWay(o)

LEMMA MissedInit == Init => NoneMissed
<1> SUFFICES ASSUME Init PROVE NoneMissed
  OBVIOUS
<1>1. pc = "getReadonly" /\ loop.i = 1 /\ modules \in Seq(Modules)
  BY InitInv DEF Init, IInv, TypeOK, TargetTypes
<1>2. ASSUME NEW o \in always PROVE OnItsWay(o)
  <2>1. PICK m \in Modules : base[m] # NotLoaded /\ o \in ModuleBytes(m, base[m], {"readonly"})
    BY <1>2 DEF Init, Unwritable
  <2>2. PICK n \in DOMAIN modules : modules[n] = m
    BY <2>1 DEF Init
  <2>3. PICK k \in DOMAIN Sections[m] :
          Sections[m][k].perms = "readonly" /\ o \in SectionBytes(base[m], Sections[m][k])
    BY <2>1 DEF ModuleBytes
  <2>4. n \in Nat /\ 1 <= n /\ k \in Nat
    <3>1. Sections[m] \in Seq(Section)
      BY SectionAssumption
    <3> QED BY <1>1, <2>2, <2>3, <3>1
  <2>5. Holds(n, k, o)
    BY <2>1, <2>2, <2>3 DEF Holds
  <2>6. Ahead(n, k)
    BY <1>1, <2>4 DEF Ahead
  <2> QED BY <2>4, <2>5, <2>6 DEF OnItsWay
<1> QED BY <1>1, <1>2 DEF NoneMissed

(* A module that is loaded comes last and moves none of the others.        *)
LEMMA LoadKeepsHolds ==
  ASSUME TypeOK, NEW m \in Modules, NEW b \in Bases, LoadModule(m, b),
         NEW n \in Nat, NEW k \in Nat, NEW o, Holds(n, k, o)
  PROVE  Holds(n, k, o)' /\ modules'[n] = modules[n]
<1>1. modules \in Seq(Modules) /\ base \in [Modules -> Bases \cup {NotLoaded}]
  BY DEF TypeOK, TargetTypes
<1>2. n \in DOMAIN modules /\ base[modules[n]] # NotLoaded
  BY DEF Holds
<1>3. modules' = Append(modules, m) /\ base' = [base EXCEPT ![m] = b] /\ base[m] = NotLoaded
  BY DEF LoadModule
<1>4. n \in DOMAIN modules' /\ modules'[n] = modules[n]
  BY <1>1, <1>2, <1>3
<1>5. modules[n] \in Modules /\ modules[n] # m
  BY <1>1, <1>2, <1>3
<1>6. base'[modules[n]] = base[modules[n]]
  BY <1>1, <1>3, <1>5
<1> QED BY <1>4, <1>6 DEF Holds

LEMMA MissedTarget ==
  ASSUME IInv, NoneMissed, TargetStep
  PROVE  NoneMissed'
<1>1. UNCHANGED <<pc, loop, ranges, rest, flagbase>>
  BY TargetKeepsImage
<1>2. pc' = "getReadonly" => loop'.i = 1
  BY <1>1 DEF NoneMissed
<1>3. ASSUME NEW m \in Modules, NEW b \in Bases, LoadModule(m, b) PROVE NoneMissed'
  <2>1. always' = always /\ unloaded' = unloaded
    BY <1>3 DEF LoadModule
  <2>2. ASSUME NEW o, OnItsWay(o) PROVE OnItsWay(o)'
    <3>1. ASSUME NEW n \in Nat, NEW k \in Nat, Holds(n, k, o), Ahead(n, k)
          PROVE  Holds(n, k, o)' /\ Ahead(n, k)'
      <4>1. Holds(n, k, o)' /\ modules'[n] = modules[n]
        BY <1>3, <3>1, LoadKeepsHolds DEF IInv
      <4> QED BY <1>1, <3>1, <4>1 DEF Ahead
    <3> QED BY <1>1, <2>2, <3>1 DEF OnItsWay, IsMarked
  <2> QED BY <1>2, <2>1, <2>2 DEF NoneMissed
<1>4. ASSUME NEW k \in DOMAIN modules, UnloadModule(k) PROVE NoneMissed'
  BY <1>2, <1>4 DEF UnloadModule, NoneMissed
<1>5. ASSUME RunProcess PROVE NoneMissed'
  <2>1. UNCHANGED <<modules, base, always, unloaded>>
    BY <1>5 DEF RunProcess, history
  <2> QED BY <1>1, <2>1 DEF NoneMissed, OnItsWay, Holds, Ahead, IsMarked
<1> QED BY <1>3, <1>4, <1>5 DEF TargetStep

(* The section the loop looks at goes into the list, with its whole range. *)
LEMMA InsertSectionCollects ==
  ASSUME IInv, InsertSection
  PROVE  /\ Bytes(ranges) \subseteq Bytes(ranges')
         /\ \A n \in Nat : \A o :
              Holds(n, loop.j, o) /\ loop.module = modules[n] => o \in Bytes(ranges')
<1> DEFINE m == loop.module
           s == Sections[m][loop.j]
<1>1. m \in Modules /\ loop.j \in DOMAIN Sections[m]
  BY SectionLookedAt DEF IInv, InsertSection
<1>2. CASE IsReadonly(s) /\ base[m] # NotLoaded
  <2>1. PICK first : first = base[m] + s.at
    OBVIOUS
  <2>2. PICK last : last = base[m] + s.at + s.size - 1
    OBVIOUS
  <2>3. ranges' = InsertRange(ranges, first, last)
    BY <1>2, <2>1, <2>2 DEF InsertSection
  <2>4. s.size > 0
    BY <1>2 DEF IsReadonly
  <2>5. first \in Nat /\ last \in Nat /\ first <= last
    BY <1>1, <1>2, <2>1, <2>2, <2>4, SectionRange DEF IInv
  <2>6. ranges \in SUBSET Ranges /\ Disjoint(ranges)
    BY DEF IInv, TypeOK, ImageTypes, ImageInv, ListInv, RangesDisjoint
  <2>7. Bytes(ranges') = Bytes(ranges) \cup (first .. last)
    BY <2>3, <2>5, <2>6, InsertRangeCovers
  <2>8. SectionBytes(base[m], s) = first .. last
    BY <2>1, <2>2 DEF SectionBytes
  <2> QED BY <2>7, <2>8 DEF Holds
<1>3. CASE ~(IsReadonly(s) /\ base[m] # NotLoaded)
  <2>1. ranges' = ranges
    BY <1>3 DEF InsertSection
  <2>2. ASSUME NEW n \in Nat, NEW o, Holds(n, loop.j, o), m = modules[n] PROVE FALSE
    <3>1. s.perms = "readonly" /\ base[m] # NotLoaded /\ o \in SectionBytes(base[m], s)
      BY <2>2 DEF Holds
    <3>2. ~(s.size > 0)
      BY <1>3, <3>1 DEF IsReadonly
    <3>3. base[m] \in Bases
      BY <1>1, <3>1 DEF IInv, TypeOK, TargetTypes
    <3>4. base[m] \in Nat
      <4>1. Bases \subseteq Offsets /\ MaxOffset \in Nat
        BY SectionAssumption
      <4> QED BY <3>3, <4>1 DEF Offsets
    <3>5. s \in Section
      BY <1>1, <3>3, SectionsInOffsets
    <3>6. s.at \in Nat /\ s.size \in Nat
      BY <3>5 DEF Section, Offsets
    <3> QED BY <3>1, <3>2, <3>4, <3>6 DEF SectionBytes
  <2> QED BY <2>1, <2>2
<1> QED BY <1>2, <1>3

(* Each step of getReadonly moves the loop over what it has dealt with.    *)
LEMMA MissedLoop ==
  ASSUME IInv, NoneMissed,
         GetNumModules \/ GetModuleAtIndex \/ EndModule \/ InsertSection \/ ReturnReadonly
  PROVE  NoneMissed'
<1>1. UNCHANGED <<modules, base, always, unloaded, flagbase>>
  BY DEF GetNumModules, GetModuleAtIndex, EndModule, InsertSection, ReturnReadonly,
         target, history
<1>2. /\ loop \in [i : Nat \ {0}, numModules : Nat,
                   module : Modules \cup {NoModule}, j : Nat \ {0}]
      /\ modules \in Seq(Modules)
  BY DEF IInv, TypeOK, ImageTypes, TargetTypes
<1>3. pc' # "getReadonly"
  BY DEF GetNumModules, GetModuleAtIndex, EndModule, InsertSection, ReturnReadonly
<1>4. ASSUME NEW n \in Nat, NEW k \in Nat, NEW o, Holds(n, k, o)
      PROVE  /\ Holds(n, k, o)' /\ modules'[n] = modules[n]
             /\ n <= Len(modules) /\ 1 <= k /\ modules[n] \in Modules
             /\ k <= NumSections(modules[n])
  <2>1. n \in DOMAIN modules /\ k \in DOMAIN Sections[modules[n]]
    BY <1>4 DEF Holds
  <2>2. modules[n] \in Modules
    BY <1>2, <2>1
  <2>3. Sections[modules[n]] \in Seq(Section) /\ NoModule \notin Modules
    BY <2>2, SectionAssumption
  <2>4. Holds(n, k, o)' /\ modules'[n] = modules[n]
    BY <1>1, <1>4 DEF Holds
  <2> QED BY <1>2, <2>1, <2>2, <2>3, <2>4 DEF NumSections
<1>5. ASSUME NEW o \in always, OnItsWay(o) PROVE OnItsWay(o)'
  <2>1. CASE GetNumModules
    <3>1. pc = "getReadonly" /\ pc' = "module" /\ loop' = [loop EXCEPT !.numModules = Len(modules)]
      BY <2>1 DEF GetNumModules
    <3>2. PICK n \in Nat, k \in Nat : Holds(n, k, o) /\ Ahead(n, k)
      BY <1>5, <3>1 DEF OnItsWay
    <3>3. loop'.i <= n /\ n <= loop'.numModules
      BY <1>2, <1>4, <3>1, <3>2 DEF Ahead
    <3>4. Holds(n, k, o)' /\ Ahead(n, k)'
      BY <1>4, <3>1, <3>2, <3>3 DEF Ahead
    <3> QED BY <3>4 DEF OnItsWay
  <2>2. CASE GetModuleAtIndex
    <3>1. /\ pc = "module" /\ pc' = "section" /\ ranges' = ranges
          /\ loop' = [loop EXCEPT !.j = 1,
                !.module = IF loop.i <= Len(modules) THEN modules[loop.i] ELSE NoModule]
      BY <2>2 DEF GetModuleAtIndex
    <3>2. CASE o \in Bytes(ranges)
      BY <3>1, <3>2 DEF OnItsWay
    <3>3. ASSUME NEW n \in Nat, NEW k \in Nat, Holds(n, k, o), Ahead(n, k)
          PROVE  OnItsWay(o)'
      <4>1. loop.i <= n /\ n <= loop.numModules
        BY <3>1, <3>3 DEF Ahead
      <4>2. loop.i = n => loop'.module = modules[n]
        BY <1>2, <1>4, <3>1, <3>3
      <4>3. loop'.i = loop.i /\ loop'.numModules = loop.numModules /\ loop'.j = 1
        BY <1>2, <3>1
      <4>4. loop.i < n \/ loop.i = n
        BY <1>2, <4>1
      <4>5. Ahead(n, k)'
        BY <1>4, <3>1, <3>3, <4>1, <4>2, <4>3, <4>4 DEF Ahead
      <4> QED BY <1>4, <3>3, <4>5 DEF OnItsWay
    <3> QED BY <1>5, <3>1, <3>2, <3>3 DEF OnItsWay
  <2>3. CASE EndModule
    <3>1. /\ pc = "section" /\ pc' = "module" /\ ranges' = ranges
          /\ loop.j > NumSections(loop.module) /\ loop' = [loop EXCEPT !.i = loop.i + 1]
      BY <2>3 DEF EndModule, NextModule
    <3>2. CASE o \in Bytes(ranges)
      BY <3>1, <3>2 DEF OnItsWay
    <3>3. ASSUME NEW n \in Nat, NEW k \in Nat, Holds(n, k, o), Ahead(n, k)
          PROVE  OnItsWay(o)'
      <4>1. n <= loop.numModules
            /\ (loop.i < n \/ (loop.module = modules[n] /\ loop.j <= k))
        BY <3>1, <3>3 DEF Ahead
      <4>2. ~(loop.module = modules[n] /\ loop.j <= k)
        <5>1. NumSections(modules[n]) \in Nat
          <6>1. modules[n] \in Modules
            BY <1>4, <3>3
          <6>2. Sections[modules[n]] \in Seq(Section)
            BY <6>1, SectionAssumption
          <6> QED BY <6>2 DEF NumSections
        <5> QED BY <1>2, <1>4, <3>1, <3>3, <5>1
      <4>3. loop'.i <= n /\ n <= loop'.numModules
        BY <1>2, <3>1, <4>1, <4>2
      <4>4. Ahead(n, k)'
        BY <3>1, <4>3 DEF Ahead
      <4> QED BY <1>4, <3>3, <4>4 DEF OnItsWay
    <3> QED BY <1>5, <3>1, <3>2, <3>3 DEF OnItsWay
  <2>4. CASE InsertSection
    <3>1. pc = "section" /\ pc' = "section" /\ loop' = [loop EXCEPT !.j = loop.j + 1]
      BY <2>4 DEF InsertSection
    <3>2. CASE o \in Bytes(ranges)
      BY <2>4, <3>1, <3>2, InsertSectionCollects DEF OnItsWay
    <3>3. ASSUME NEW n \in Nat, NEW k \in Nat, Holds(n, k, o), Ahead(n, k)
          PROVE  OnItsWay(o)'
      <4>1. CASE loop.module = modules[n] /\ k = loop.j
        <5>1. o \in Bytes(ranges')
          BY <2>4, <3>3, <4>1, InsertSectionCollects
        <5> QED BY <3>1, <5>1 DEF OnItsWay
      <4>2. CASE ~(loop.module = modules[n] /\ k = loop.j)
        <5>1. /\ n <= loop.numModules
              /\ \/ loop.i < n
                 \/ loop.i = n /\ loop.module = modules[n] /\ loop.j <= k
          BY <3>1, <3>3 DEF Ahead
        <5>2. /\ n <= loop'.numModules
              /\ \/ loop'.i < n
                 \/ loop'.i = n /\ loop'.module = modules[n] /\ loop'.j <= k
          BY <1>2, <3>1, <4>2, <5>1
        <5>3. Ahead(n, k)'
          BY <1>4, <3>1, <3>3, <5>2 DEF Ahead
        <5> QED BY <1>4, <3>3, <5>3 DEF OnItsWay
      <4> QED BY <4>1, <4>2
    <3> QED BY <1>5, <3>1, <3>2, <3>3 DEF OnItsWay
  <2>5. CASE ReturnReadonly
    <3>1. /\ pc = "module" /\ pc' = "fillin" /\ rest' = ranges
          /\ ~(loop.i <= loop.numModules)
      BY <2>5 DEF ReturnReadonly, HasModule
    <3>2. \A n, k \in Nat : ~Ahead(n, k)
      BY <1>2, <3>1 DEF Ahead
    <3>3. o \in Bytes(ranges)
      BY <1>5, <3>1, <3>2 DEF OnItsWay
    <3> QED BY <3>1, <3>3 DEF OnItsWay
  <2> QED BY <2>1, <2>2, <2>3, <2>4, <2>5
<1> QED BY <1>1, <1>3, <1>5 DEF NoneMissed

(* fillinReadOnlyFromLoader marks a range before it drops it.              *)
LEMMA MissedFillin ==
  ASSUME IInv, NoneMissed, FillinReadOnly
  PROVE  NoneMissed'
<1>1. PICK r \in rest :
        /\ rest' = rest \ {r}
        /\ \A o \in Nat : IsMarked(o)' <=> IsMarked(o) \/ o \in r.first .. r.last
  BY FillinKeeps DEF IInv
<1>2. pc = "fillin" /\ pc' = "fillin" /\ UNCHANGED <<always, unloaded>>
  BY DEF FillinReadOnly, history
<1>3. always \subseteq Nat
  <2>1. always \subseteq Offsets /\ MaxOffset \in Nat
    BY SectionAssumption DEF IInv, TypeOK, TargetTypes
  <2> QED BY <2>1 DEF Offsets
<1>4. ASSUME NEW o \in always, OnItsWay(o) PROVE OnItsWay(o)'
  <2>1. o \in Nat
    BY <1>3
  <2>2. IsMarked(o) \/ o \in Bytes(rest)
    BY <1>2, <1>4 DEF OnItsWay, Ahead
  <2>3. o \in Bytes(rest) => o \in r.first .. r.last \/ o \in Bytes(rest')
    BY <1>1 DEF Bytes
  <2>4. IsMarked(o)' \/ o \in Bytes(rest')
    BY <1>1, <2>1, <2>2, <2>3
  <2> QED BY <1>2, <2>4 DEF OnItsWay
<1> QED BY <1>2, <1>4 DEF NoneMissed

LEMMA MissedStep == IInv /\ NoneMissed /\ [Next]_vars => NoneMissed'
<1> SUFFICES ASSUME IInv, NoneMissed, [Next]_vars PROVE NoneMissed'
  OBVIOUS
<1>1. CASE TargetStep
  BY <1>1, MissedTarget
<1>2. CASE GetNumModules \/ GetModuleAtIndex \/ EndModule \/ InsertSection \/ ReturnReadonly
  BY <1>2, MissedLoop
<1>3. CASE FillinReadOnly
  BY <1>3, MissedFillin
<1>4. CASE EndInit \/ ReadProcess \/ ReadTarget \/ ZeroFill
           \/ \E n \in ReadSizes : LoadFill(n)
  <2>1. UNCHANGED <<always, unloaded, flagbase>>
    BY <1>4 DEF EndInit, ReadProcess, ReadTarget, ZeroFill, LoadFill, history
  <2>2. /\ pc \notin {"getReadonly", "module", "section"}
        /\ pc' \notin {"getReadonly", "module", "section", "fillin"}
        /\ pc = "fillin" => rest = {}
    BY <1>4 DEF EndInit, ReadProcess, ReadTarget, ZeroFill, LoadFill
  <2>3. ASSUME NEW o, OnItsWay(o) PROVE OnItsWay(o)'
    <3>1. IsMarked(o)
      BY <2>2, <2>3 DEF OnItsWay, Ahead, Bytes
    <3> QED BY <2>1, <2>2, <3>1 DEF OnItsWay, IsMarked
  <2> QED BY <2>1, <2>2, <2>3 DEF NoneMissed
<1>5. CASE UNCHANGED vars
  BY <1>5 DEF vars, target, history, NoneMissed, OnItsWay, Holds, Ahead, IsMarked
<1> QED BY <1>1, <1>2, <1>3, <1>4, <1>5 DEF Next, Step, TargetStep
-----------------------------------------------------------------------------
(* Every variable keeps its type, the history of the target included.      *)
THEOREM TypeCorrect == Spec => []TypeOK
BY AlwaysInv, PTL DEF IInv

(* getReadonly's list never overlaps itself, whatever sections the modules *)
(* have.                                                                   *)
THEOREM ListDisjoint == Spec => []RangesDisjoint
<1>1. IInv => RangesDisjoint
  BY DEF IInv, ImageInv, ListInv
<1> QED BY <1>1, AlwaysInv, PTL

(* Nothing is marked read-only that was writable since getReadonly began,  *)
(* although modules come and go between the calls it makes.                *)
THEOREM MarkedOnlyUnwritable == Spec => []MarkedWasUnwritable
<1>1. IInv => MarkedWasUnwritable
  <2> SUFFICES ASSUME IInv, NEW o \in Offsets, IsMarked(o) PROVE o \in ever
    BY DEF MarkedWasUnwritable
  <2>1. o \in Nat
    <3>1. MaxOffset \in Nat
      BY SectionAssumption
    <3> QED BY <3>1 DEF Offsets
  <2> QED BY <2>1 DEF IInv, ImageInv, WasUnwritable
<1> QED BY <1>1, AlwaysInv, PTL

(* What is unwritable all the time is marked when init is through, however *)
(* many modules are loaded meanwhile, as long as none is unloaded.         *)
THEOREM UnwritableAllMarked == Spec => []UnwritableIsMarked
<1>1. Spec => []NoneMissed
  BY MissedInit, MissedStep, AlwaysInv, PTL DEF Spec
<1>2. NoneMissed => UnwritableIsMarked
  BY DEF NoneMissed, OnItsWay, Ahead, UnwritableIsMarked
<1> QED BY <1>1, <1>2, PTL

(* loadFill hands back no byte of the caller's uninitialized buffer.       *)
THEOREM BufferIsDefined == Spec => []BufferDefined
<1>1. IInv => BufferDefined
  BY DEF IInv, ReadInv
<1> QED BY <1>1, AlwaysInv, PTL

(* The bytes of one loadFill come from one read, with zeros behind them.   *)
THEOREM SnapshotIsOne == Spec => []OneSnapshot
<1>1. IInv => OneSnapshot
  BY DEF IInv, ReadInv
<1> QED BY <1>1, AlwaysInv, PTL

(* No step changes what is volatile.                                       *)
THEOREM VolatileIsKept == Spec => VolatileKept
<1>1. IInv /\ [Next]_vars =>
        [\A o \in Offsets : "volatile" \in GetValue(flagbase', o)
                              <=> "volatile" \in GetValue(flagbase, o)]_vars
  <2> SUFFICES ASSUME IInv, Next, NEW o \in Offsets
               PROVE  "volatile" \in GetValue(flagbase', o)
                        <=> "volatile" \in GetValue(flagbase, o)
    OBVIOUS
  <2>1. o \in Nat
    <3>1. MaxOffset \in Nat
      BY SectionAssumption
    <3> QED BY <3>1 DEF Offsets
  <2>2. CASE FillinReadOnly
    BY <2>1, <2>2, FillinKeeps DEF IInv
  <2>3. CASE flagbase' = flagbase
    BY <2>3
  <2>4. FillinReadOnly \/ flagbase' = flagbase
    <3>1. CASE TargetStep
      BY <3>1, TargetKeepsImage
    <3>2. CASE Step \/ \E n \in ReadSizes : LoadFill(n)
      BY <3>2 DEF Step, GetNumModules, GetModuleAtIndex, EndModule, InsertSection,
                  ReturnReadonly, EndInit, ReadProcess, ReadTarget, ZeroFill, LoadFill
    <3> QED BY <3>1, <3>2 DEF Next, TargetStep
  <2> QED BY <2>2, <2>3, <2>4
<1> QED BY <1>1, AlwaysInv, PTL DEF Spec, VolatileKept
=============================================================================
