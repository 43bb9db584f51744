--------------------------------- MODULE Lights ---------------------------------
(* What the server promises of the lights (StatusServer and _StatusApplier in       *)
(* tintaview/core/server.py), without sessions, timers, slots or locks: whoever     *)
(* changes the fold carries it away and hands it over sooner or later, the status   *)
(* handed over last replaces all before it, and the lights only ever change to that *)
(* one.  Until the lights are given back; then they stay so, unless the server had  *)
(* to give up on a vendor call that does not return.                                *)
(* StatusBroker.tla implements it, with FollowsLights as its refinement mapping.    *)
CONSTANTS
    Carriers,      \* who may change or read the fold
    Folds,         \* the statuses there are, "none" among them
    Nothing        \* what a carrier with empty hands carries

VARIABLES
    fold,          \* the effective status
    carried,       \* the status in each carrier's hands
    wanted,        \* the status handed over last
    light,         \* the status the lights show, or are about to when a call returns
    gate           \* "open", "closing", "released" or "abandoned"

lightVars == <<fold, carried, wanted, light, gate>>

Init ==
    /\ fold = "none" /\ carried = [c \in Carriers |-> Nothing]
    /\ wanted = "none" /\ light = "none" /\ gate = "open"

\* A changed fold is in the hands of whoever changed it, not on the lights.
Change(c) ==
    /\ carried[c] = Nothing
    /\ \E f \in Folds \ {fold} : fold' = f /\ carried' = [carried EXCEPT ![c] = f]
    /\ UNCHANGED <<wanted, light, gate>>

\* The fold is read in order to be shown again.
Read(c) ==
    /\ carried[c] = Nothing /\ carried' = [carried EXCEPT ![c] = fold]
    /\ UNCHANGED <<fold, wanted, light, gate>>

\* What is handed over replaces whatever waits, and is ignored once the gate closes.
HandOver(c) ==
    /\ carried[c] # Nothing /\ carried' = [carried EXCEPT ![c] = Nothing]
    /\ wanted' = IF gate = "open" THEN carried[c] ELSE wanted
    /\ UNCHANGED <<fold, light, gate>>

\* The lights turn to the status wanted now, never to one that it replaced.
Show ==
    /\ gate # "released" /\ light' = wanted
    /\ UNCHANGED <<fold, carried, wanted, gate>>

Close ==
    /\ gate = "open" /\ gate' = "closing"
    /\ UNCHANGED <<fold, carried, wanted, light>>

\* An orderly end: what was wanted was shown first.
Release ==
    /\ gate = "closing" /\ light = wanted
    /\ gate' = "released" /\ light' = "none"
    /\ UNCHANGED <<fold, carried, wanted>>

\* An end that could not wait: the call under way may still light the device.
Abandon ==
    /\ gate = "closing" /\ gate' = "abandoned" /\ light' \in {light, "none"}
    /\ UNCHANGED <<fold, carried, wanted>>

Next == \/ \E c \in Carriers : Change(c) \/ Read(c) \/ HandOver(c)
        \/ Show \/ Close \/ Release \/ Abandon

Spec == Init /\ [][Next]_lightVars
================================================================================
