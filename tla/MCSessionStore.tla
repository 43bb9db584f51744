----------------------------- MODULE MCSessionStore -----------------------------
(* A small instance of SessionStore for TLC: two sessions of one agent (so that a *)
(* headline has a choice to make), one subagent beside the main thread.           *)
EXTENDS SessionStore

MCKeys == {<<"claude", 1>>, <<"claude", 2>>}
================================================================================
