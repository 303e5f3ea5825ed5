------------------------------ MODULE ArchMap ------------------------------
(***************************************************************************)
(* From a target's triple and the description of its first module to a     *)
(* Sleigh language id and a compiler of it (ArchMap.cpp).  A triple counts *)
(* for the text before its first dash, a description for the words that    *)
(* are anywhere in it, its path included.                                  *)
(***************************************************************************)

Unsupported == "unsupported"        \* a runtime_error

SleighIdFromTriple(arch) ==
  CASE arch \in {"arm64", "aarch64", "arm64e"} -> "AARCH64:LE:64:v8A"
    [] arch \in {"x86_64", "x86_64h"} -> "x86:LE:64:default"
    [] arch \in {"x86", "i386", "i686"} -> "x86:LE:32:default"
    [] arch \in {"arm", "armv7", "armv7s", "armv7k", "thumbv7", "thumbv7s"} ->
         "ARM:LE:32:v7"
    [] OTHER -> Unsupported

CompilerFromFormat(words, id) ==
  CASE "PE" \in words -> "windows"
    [] "PE" \notin words /\ id = "AARCH64:LE:64:v8A" -> "default"
    [] OTHER -> "gcc"
=============================================================================
