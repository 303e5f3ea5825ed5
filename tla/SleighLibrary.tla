--------------------------- MODULE SleighLibrary ---------------------------
(***************************************************************************)
(* The process-wide state of Ghidra's SLEIGH front end as the plugin uses  *)
(* it: the static members of SleighArchitecture (specpaths, description,   *)
(* translators), as operators on their values.  The state machine that     *)
(* owns them is in DecompileCommand.                                       *)
(*                                                                         *)
(* A .ldefs file is the sequence of the language ids it declares.  Vector  *)
(* indices start at 1 here and at 0 in the C++.                            *)
(***************************************************************************)
EXTENDS Naturals, Sequences, FiniteSets

CONSTANTS
  Languages,    \* language ids, e.g. "x86:LE:64:default"
  NoLanguage,   \* the empty id of an entry whose decoding threw before its id
  SpecFiles     \* the .ldefs files under SLEIGHHOME, in directory order

ASSUME LanguagesAssumption == NoLanguage \notin Languages
ASSUME SpecFilesAssumption == SpecFiles \in Seq(Seq(Languages))

(* An element of the static vector `description': a LanguageDescription.   *)
(* `compilers' says that the vector of that name is not empty.             *)
LanguageDescription ==
  [id : Languages \cup {NoLanguage}, compilers : BOOLEAN]

Described(language) == [id |-> language, compilers |-> TRUE]

(* description.emplace_back() runs before decode(), and within it          *)
(* compilers.emplace_back() before the tag's decode(), so a DecoderError   *)
(* leaves the new entry in the vector: without an id when it is raised     *)
(* before ATTRIB_ID is read, without a compiler when it is raised after    *)
(* that but before the first <compiler>, else with one, half decoded.      *)
Undecoded == [id |-> NoLanguage, compilers |-> FALSE]

HalfDecoded(language) ==
  {Undecoded} \cup {[id |-> language, compilers |-> begun] : begun \in BOOLEAN}

(* What loadLanguageDescription may do with one file: skip it (it cannot   *)
(* be opened, or ingestStream fails and the error goes to errs), append    *)
(* every language, or append some and let a DecoderError out.              *)
LoadOutcomes(file) ==
  LET whole(n) == [i \in 1..n |-> Described(file[i])]
  IN  {[entries |-> <<>>,               threw |-> FALSE],
       [entries |-> whole(Len(file)),   threw |-> FALSE],
       [entries |-> <<>>,               threw |-> TRUE]}
      \cup UNION {{[entries |-> Append(whole(n - 1), half), threw |-> TRUE] :
                      half \in HalfDecoded(file[n])} : n \in 1..Len(file)}

(* specpaths.matchList: every directory added by scanForSleighDirectories  *)
(* is listed again, so a home scanned n times yields its files n times.    *)
MatchList(scans) ==
  [i \in 1..(scans * Len(SpecFiles)) |->
     SpecFiles[((i - 1) % Len(SpecFiles)) + 1]]

(* resolveArchitecture keeps the first entry whose id equals the base id.  *)
MatchesAny(description, language) ==             \* faulty: any usable entry
  {i \in DOMAIN description : description[i].compilers}

Matches(description, language) ==
  {i \in DOMAIN description : description[i].id = language}

FirstMatch(description, language) ==
  CHOOSE i \in Matches(description, language) :
    \A j \in Matches(description, language) : i <= j

(***************************************************************************)
(* Translators: one Sleigh object per language index, never removed.       *)
(*   "raw"       constructed: nothing of a .sla is decoded, root is null   *)
(*   "partial"   decode() threw after the address spaces, root is null     *)
(*   "rejected"  root is set, but decode() threw "Duplicate register pairs"*)
(*   "ready"     initialize() returned                                     *)
(* `serves' is the Architecture whose loader and context the object points *)
(* to; it is Dangling once that Architecture has been destroyed.           *)
(***************************************************************************)
TranslatorStates == {"raw", "partial", "rejected", "ready"}

Translator(Arch) ==
  [state : TranslatorStates, language : Languages \cup {NoLanguage}, serves : Arch]

(* SleighArchitecture::isTranslateReused                                   *)
IsTranslateReused(translators, index) == index \in DOMAIN translators

(* SleighArchitecture::buildTranslator: Sleigh::reset on the object found, *)
(* else a new object in the map, there before initialize() has run.        *)
ReuseWithoutReset(translators, index, language, arch) ==  \* faulty: no reset
  [i \in DOMAIN translators \cup {index} |->
     IF i \in DOMAIN translators THEN translators[i]
     ELSE [state |-> "raw", language |-> language, serves |-> arch]]

ResetAll(translators, index, language, arch) ==      \* faulty: resets every object
  [i \in DOMAIN translators \cup {index} |->
     IF i \in DOMAIN translators
     THEN [translators[i] EXCEPT !.serves = arch]
     ELSE [state |-> "raw", language |-> language, serves |-> arch]]

BuildTranslator(translators, index, language, arch) ==
  [i \in DOMAIN translators \cup {index} |->
     IF i # index THEN translators[i]
     ELSE IF IsTranslateReused(translators, index)
          THEN [translators[i] EXCEPT !.serves = arch]
          ELSE [state |-> "raw", language |-> language, serves |-> arch]]

(* ~Architecture deletes the loader and the context, ~SleighArchitecture   *)
(* keeps the Sleigh object: its pointers to them dangle.                   *)
Orphan(translators, arch, dangling) ==
  [i \in DOMAIN translators |->
     IF translators[i].serves = arch
     THEN [translators[i] EXCEPT !.serves = dangling]
     ELSE translators[i]]
=============================================================================
