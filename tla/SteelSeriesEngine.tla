--------------------------- MODULE SteelSeriesEngine ---------------------------
(* TintaView's SteelSeries engine (tintaview/engines/steelseries.py) over GG, the *)
(* vendor's local HTTP service, which is external: it forgets the game when it    *)
(* restarts, on a new port as a rule, and shows a colour once the event bound to  *)
(* it is fired.  The controller calls the engine under its lock, but sends its    *)
(* heartbeat without it, so that a heartbeat's answer may find another session.   *)
(* A post is done, refused, or times out with or without having had its effect.   *)
EXTENDS Integers

CONSTANTS
    Colours,       \* what the engine is asked to paint
    FailureLimit,  \* _SESSION_FAILURE_LIMIT
    MaxCalls,      \* bound: calls of the engine and restarts of GG
    MaxPorts       \* bound: the ports GG may listen on

\* Assumed in Engines.tla.
LimitAssumption == FailureLimit \in Nat \ {0} /\ MaxCalls \in Nat
PortAssumption  == MaxPorts \in Nat \ {0}

VARIABLES
    engine,   \* _address (0 if None), _failures, _last_color, the cooldown
    beat,     \* the heartbeat in flight: the address it went to, 0 if none
    gg,       \* GG: its port (0 while it does not run), the game's event and the lights
    doubt,    \* history: since the last paint that was done, a post had an effect its
              \* caller does not know of, GG restarted or the session was dropped
    calls     \* the bound's counter

tvars == <<engine, beat, gg, doubt, calls>>

NoColour == "none"
ColourAssumption == NoColour \notin Colours     \* evaluated in Engines.tla
Stopped(cooldown) == [address |-> 0, failures |-> 0, last |-> NoColour, cooldown |-> cooldown]
Started(port) == [port |-> port, game |-> FALSE, bound |-> NoColour, shown |-> "own"]

Init ==
    /\ engine = Stopped(FALSE) /\ beat = 0
    /\ gg = Started(1)
    /\ doubt = FALSE /\ calls = 0

\* External: what GG makes of a post it receives.
After(post, c) ==
    CASE post = "metadata" -> [gg EXCEPT !.game = TRUE]
      [] post = "bind"     -> [gg EXCEPT !.bound = c]
      [] post = "event"    -> [gg EXCEPT !.shown = IF gg.bound = NoColour THEN @ ELSE gg.bound]
      [] post = "remove"   -> Started(gg.port)

\* _post: the answer, what GG is after it, and whether the two may differ.  Nothing
\* answers at another address than GG's; GG knows no event of a game it forgot.
Posts(address, post, c) ==
    [ok : {FALSE}, gg : {gg}, doubt : {doubt}] \cup
    (IF address # gg.port \/ gg.port = 0 \/ (post \in {"bind", "event"} /\ ~gg.game) THEN {}
     ELSE {[ok |-> TRUE,  gg |-> After(post, c), doubt |-> doubt],
           [ok |-> FALSE, gg |-> After(post, c), doubt |-> TRUE]})

\* _note_call_result: the last failure in a row that is allowed drops the session.
Counted(e, ok) ==
    IF ok THEN [e EXCEPT !.failures = 0]
    ELSE IF e.failures + 1 < FailureLimit THEN [e EXCEPT !.failures = @ + 1]
    ELSE Stopped(e.cooldown)

\* open(): GG's address is read from coreProps.json, which may be missing or stale.
Open ==
    /\ engine.address = 0 /\ ~engine.cooldown /\ calls < MaxCalls
    /\ calls' = calls + 1
    /\ \E address \in 1 .. MaxPorts, p \in Posts(gg.port, "metadata", NoColour) :
          /\ gg.port # 0 => address = gg.port \/ ~p.ok
          /\ gg' = p.gg
          /\ engine' = IF p.ok THEN [Stopped(FALSE) EXCEPT !.address = address]
                               ELSE [engine EXCEPT !.cooldown = TRUE]
          /\ doubt' = p.doubt
    /\ UNCHANGED beat

\* Mutant: the event is fired before the colour is bound to it.
SetColorFiringFirst(c) ==
    /\ engine.address # 0 /\ calls < MaxCalls
    /\ calls' = calls + 1
    /\ \E p \in Posts(engine.address, "event", c) :
          /\ gg' = IF p.ok THEN [p.gg EXCEPT !.bound = c] ELSE p.gg
          /\ doubt' = p.doubt
          /\ engine' = Counted(IF p.ok THEN [engine EXCEPT !.last = c] ELSE engine, p.ok)
    /\ UNCHANGED beat

\* set_color(): the colour is bound to the event, and the event fired if that was done.
SetColor(c) ==
    /\ engine.address # 0 /\ calls < MaxCalls
    /\ calls' = calls + 1
    /\ \E p \in Posts(engine.address, "bind", c) :
          \/ /\ ~p.ok
             /\ gg' = p.gg
             /\ engine' = Counted(engine, FALSE)
             /\ doubt' = (p.doubt \/ engine'.address = 0)
          \/ /\ p.ok
             /\ \/ /\ gg' = [p.gg EXCEPT !.shown = c] /\ doubt' = FALSE
                   /\ engine' = Counted([engine EXCEPT !.last = c], TRUE)
                \/ /\ engine' = Counted(engine, FALSE)
                   /\ \/ gg' = [p.gg EXCEPT !.shown = c] /\ doubt' = TRUE
                      \/ gg' = p.gg /\ doubt' = (p.doubt \/ engine'.address = 0)
    /\ UNCHANGED beat

\* close(): the session is forgotten, then GG told; whether it heard is only logged.
Close ==
    /\ engine.address # 0
    /\ engine' = Stopped(engine.cooldown)
    /\ \E p \in Posts(engine.address, "remove", NoColour) :
          /\ gg' = p.gg
          /\ doubt' = (p.doubt \/ ~p.ok)
    /\ UNCHANGED <<beat, calls>>

\* heartbeat(), outside the controller's lock: the post, and later its answer.
BeatSent ==
    /\ engine.address # 0 /\ beat = 0
    /\ beat' = engine.address
    /\ UNCHANGED <<engine, gg, doubt, calls>>
BeatAnswered ==
    /\ beat # 0
    /\ beat' = 0
    /\ \E ok \in {FALSE} \cup (IF beat = gg.port THEN {TRUE} ELSE {}) :
          /\ engine' = Counted(engine, ok)
          /\ doubt' = (doubt \/ engine'.address # engine.address)
    /\ UNCHANGED <<gg, calls>>

\* External: GG stops, starts or restarts and knows nothing of the game; a minute passes.
GGRestarts ==
    /\ calls < MaxCalls
    /\ calls' = calls + 1
    /\ \E port \in 0 .. MaxPorts : gg' = Started(port)
    /\ doubt' = TRUE
    /\ UNCHANGED <<engine, beat>>
CooldownEnds ==
    /\ engine.cooldown
    /\ engine' = [engine EXCEPT !.cooldown = FALSE]
    /\ UNCHANGED <<beat, gg, doubt, calls>>

Next ==
    \/ Open \/ (\E c \in Colours : SetColor(c)) \/ Close \/ BeatSent \/ BeatAnswered
    \/ GGRestarts \/ CooldownEnds

Spec == Init /\ [][Next]_tvars

--------------------------------------------------------------------------------
(* Correctness *)

TypeOK ==
    /\ engine \in [address : 0 .. MaxPorts, failures : 0 .. FailureLimit - 1,
                   last : Colours \cup {NoColour}, cooldown : BOOLEAN]
    /\ beat \in 0 .. MaxPorts
    /\ gg \in [port : 0 .. MaxPorts, game : BOOLEAN, bound : Colours \cup {NoColour},
               shown : Colours \cup {"own"}]
    /\ doubt \in BOOLEAN /\ calls \in 0 .. MaxCalls

\* As long as GG goes on running and no post is in doubt, the lights show the colour the
\* engine remembers, and the user's own ones once the session is closed: no stale
\* heartbeat, retry or half-done paint takes them back.
LightsFollowTheSession ==
    ~doubt => gg.shown = IF engine.last # NoColour THEN engine.last ELSE "own"
================================================================================
