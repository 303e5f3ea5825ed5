------------------------- MODULE MCEmitPrettyPrint -------------------------
(* An instance of EmitPrettyPrint for TLC: each behavior prints with some  *)
(* of the kinds of calls, and with text always.                            *)
EXTENDS EmitPrettyPrint

SomeCalls ==
  {{"group", "block"}, {"paren"}, {"space"}, {"comment", "line"},
   {"indent", "line"}, {"brace", "line"}}
=============================================================================
