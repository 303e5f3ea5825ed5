------------------------- MODULE MCTargetResolution -------------------------
(***************************************************************************)
(* Instances of TargetResolution for TLC.  "app" is linked at 4 and loaded *)
(* at 0, with two functions; "lib" is linked at 0 and loaded at 1, with a  *)
(* function and a datum, so that 0 is an address in its file only and 1 is *)
(* another one when loaded; "stub", linked and loaded at 0, has no symbol. *)
(* "run" names a function of app and one of lib.                           *)
(***************************************************************************)
EXTENDS TargetResolution, TLC

Symbol(first, last, code) == [first |-> first, last |-> last, code |-> code]

MCImages == {"app", "lib", "stub"}

MCExtent ==
  "app" :> [first |-> 4, last |-> 7] @@ "lib" :> [first |-> 0, last |-> 2] @@
  "stub" :> [first |-> 0, last |-> 0]

MCSymbols ==
  "app" :> {Symbol(4, 5, TRUE), Symbol(6, 7, TRUE)} @@
  "lib" :> {Symbol(0, 1, TRUE), Symbol(2, 2, FALSE)} @@ "stub" :> {}

At(image, base) == [image |-> image, base |-> base]

MCLists ==
  {<<At("app", 0)>>, <<At("app", Invalid), At("lib", 1)>>, <<At("lib", 1)>>,
   <<At("lib", 1), At("stub", 0)>>, <<At("stub", 0), At("lib", 1)>>}

Number(n) == [lead |-> "digits", value |-> n, tail |-> FALSE]
Run == [lead |-> "letter", value |-> 0, tail |-> FALSE]
Negative == [lead |-> "minus", value |-> 1, tail |-> FALSE]
Unfinished == [lead |-> "digits", value |-> 4, tail |-> TRUE]

MCNames == MCImages \X Nat
MCTables == {TableOf(list) : list \in MCLists}

MCArguments == {Number(n) : n \in 0 .. 9} \cup {Run, Negative, Unfinished}

MCMatches ==
  [t \in MCArguments |-> IF t = Run THEN {<<"app", 6>>, <<"lib", 0>>} ELSE {}]

MCTripleArchs == {"arm64", "i386", "riscv64"}

(* The specification files that are shipped: the compilers of the ids that *)
(* a triple leads to.                                                      *)
Compilers ==
  "AARCH64:LE:64:v8A" :> {"default", "windows", "golang", "swift"} @@
  "x86:LE:64:default" :> {"windows", "clangwindows", "gcc", "golang", "swift"} @@
  "x86:LE:32:default" :>
    {"windows", "clangwindows", "gcc", "borlandcpp", "borlanddelphi", "golang"}

ASSUME CompilersDeclared ==
  \A id \in DOMAIN Compilers, words \in SUBSET {"PE", "Mach-O", "mach-o"} :
    CompilerFromFormat(words, id) \in Compilers[id]
=============================================================================
