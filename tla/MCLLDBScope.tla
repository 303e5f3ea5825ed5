---------------------------- MODULE MCLLDBScope ----------------------------
(* An instance of LLDBScope for TLC: a datum and a function that do not    *)
(* change.                                                                 *)
EXTENDS LLDBScope

OneTable ==
  {{[name |-> "counter", first |-> 0, last |-> 0, code |-> FALSE],
    [name |-> "run", first |-> 1, last |-> 2, code |-> TRUE]}}
=============================================================================
