----------------------------- MODULE MCStatusBroker -----------------------------
(* A small instance of StatusBroker for TLC: one session of an agent with a       *)
(* confirm event and one of Cursor, whose prompts are only inferred.              *)
EXTENDS StatusBroker

MCKeys == {<<"claude", 1>>, <<"cursor", 1>>}
================================================================================
