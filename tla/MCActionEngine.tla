--------------------------- MODULE MCActionEngine ---------------------------
(***************************************************************************)
(* A small tree of the shape of universalAction: a root that may restart,  *)
(* an action that follows the flow, and a loop of an action, an action     *)
(* done once per function and a pool of rules; the tree "jumptable" is a   *)
(* root with one action.  Rule "a" is tried on ops of both codes, "b" on   *)
(* those of one.                                                           *)
(***************************************************************************)
EXTENDS ActionEngine, TLC

MCActions ==
  {"universal", "start", "mainloop", "heritage", "internalstorage", "oppool",
   "jumptable", "recovery"}

MCKind ==
  [a \in MCActions |->
     CASE a \in {"universal", "jumptable"} -> "restart"
       [] a = "mainloop" -> "group"
       [] a = "oppool" -> "pool"
       [] OTHER -> "leaf"]

MCFlags ==
  [a \in MCActions |->
     CASE a \in {"universal", "jumptable", "internalstorage"} -> {"onceperfunc"}
       [] a \in {"mainloop", "oppool"} -> {"repeatapply"}
       [] OTHER -> {}]

MCList ==
  [a \in MCActions |->
     CASE a = "universal" -> <<"start", "mainloop">>
       [] a = "mainloop" -> <<"heritage", "internalstorage", "oppool">>
       [] a = "jumptable" -> <<"recovery">>
       [] OTHER -> <<>>]

MCBelow ==
  [a \in MCActions |->
     CASE a = "universal" ->
            {"universal", "start", "mainloop", "heritage", "internalstorage", "oppool"}
       [] a = "mainloop" -> {"mainloop", "heritage", "internalstorage", "oppool"}
       [] a = "jumptable" -> {"jumptable", "recovery"}
       [] OTHER -> {a}]

MCRules == {"a", "b"}

MCPerOp == "load" :> <<"a", "b">> @@ "copy" :> <<"a">>

MCInitialCode == <<"load", "unborn">>

MCBreakOn ==
  {<<"universal", {"tmpaction"}>>, <<"mainloop", {"start", "action"}>>,
   <<"internalstorage", {"tmpstart", "action"}>>,
   <<"a", {"action"}>>}

MCBreakPoints ==
  {[x \in MCActions \cup MCRules |-> {}]}
  \cup {[x \in MCActions \cup MCRules |-> IF x = b[1] THEN b[2] ELSE {}] :
          b \in MCBreakOn}

MCFollowsFlow == {"start"}
=============================================================================
