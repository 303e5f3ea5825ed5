------------------------ MODULE MCDecompileCommand ------------------------
(* Instances of DecompileCommand for TLC.  "arm" has no specification      *)
(* file, as ARM:LE:32:v7 has none under specfiles/.                        *)
EXTENDS DecompileCommand

OneFile == <<<<"x86">>>>
TwoFiles == <<<<"aarch64">>, <<"x86">>>>
X86AndArm == {"x86", "arm"}
ThreeLanguages == {"aarch64", "x86", "arm"}
=============================================================================
