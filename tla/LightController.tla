---------------------------- MODULE LightController ----------------------------
(* TintaView's LightController (tintaview/core/controller.py) with the threads    *)
(* that enter it - the applier, the GUI's pause switch, the settings worker, the  *)
(* blink threads, the heartbeat and the thread that shuts it down - and a session *)
(* engine below it (tintaview/engines/chroma.py).                                 *)
(*                                                                                *)
(* One step is one section under the controller's lock.  The heartbeat leaves the *)
(* lock to call the engine and is split where others may run, and so is pausing.  *)
(*                                                                                *)
(* The vendor's side is external: it grants sessions, forgets them when it is     *)
(* restarted, and refuses a session it does not know.  Whether it can be reached  *)
(* to open one, what `auto` detection finds and when a cooldown ends are choices. *)
(* Assumed: a call for a session it does hold (paint, ping, DELETE) gets through. *)
EXTENDS Integers, FiniteSets

CONSTANTS
    SolidStatuses,  \* the statuses painted as one steady colour: idle and working
    AutoDetect,     \* cfg.engine.mode = "auto"
    MaxCalls        \* bound: applies, pauses, settings, vendor restarts, a shutdown

ASSUME SolidAssumption == {"none", "confirm", "off", "own"} \cap SolidStatuses = {}
ASSUME AutoAssumption  == AutoDetect \in BOOLEAN
ASSUME CallsAssumption == MaxCalls \in Nat

Statuses == SolidStatuses \cup {"none", "confirm"}
Colours  == SolidStatuses \cup {"confirm", "off", "own"}   \* own: the user's lighting

VARIABLES
    dev,       \* the cached engine, the engine objects made so far, and the vendor
    blink,     \* _blinking, _blink_generation, the current Event and the threads
    paused,    \* _paused
    wanted,    \* _wanted
    snapshot,  \* _status, what /state says of the engine
    gui,       \* the GUI thread inside set_paused: what it still has to do
    replay,    \* the status it captured when it resumed
    settings,  \* the settings worker: "idle", or "reapply" after it reset the engine
    beat,      \* the heartbeat thread: where it is, its engine, the session it pinged
    down,      \* shutdown() ran
    calls,     \* the bound's counter
    actual     \* the status the applier was last given for the store

vars == <<dev, blink, paused, wanted, snapshot, gui, replay, settings, beat, down, calls, actual>>

--------------------------------------------------------------------------------
(* The engine: operators on dev, set-valued where the vendor has a say *)

Engine(d)     == d.made[d.engine]
HasSession(d) == d.engine # 0 /\ Engine(d).uri # 0              \* engine.active
Live(d)       == HasSession(d) /\ Engine(d).uri \in d.granted

\* Names for new objects: the least number nothing refers to, as only equality matters.
Unused(inUse) == CHOOSE n \in 1 .. Cardinality(inUse) + 1 : n \notin inUse

\* The engine objects something still refers to, or that hold a session.
Kept(d) == {i \in DOMAIN d.made : d.made[i].uri # 0 \/ i = beat.engine}

Switched(d, name) ==
    LET new == Unused(Kept(d))
    IN  [d EXCEPT !.made = [i \in Kept(d) \cup {new} |-> IF i = new THEN [name |-> name, uri |-> 0]
                                                                  ELSE d.made[i]],
                  !.engine = new]

Dropped(d) == [d EXCEPT !.made = [i \in Kept(d) |-> d.made[i]], !.engine = 0]

\* _get_engine: built on first use; `auto` looks again when it found nothing before.
GetEngine(d) ==
    IF d.engine = 0
    THEN {Switched(d, name) : name \in IF AutoDetect THEN {"none", "chroma"} ELSE {"chroma"}}
    ELSE {d} \cup {Switched(d, name) : name \in IF AutoDetect /\ Engine(d).name = "none"
                                                THEN {"chroma"} ELSE {}}

\* The engine's open(): the vendor grants a session, or cannot be reached.
Opened(d) ==
    {d} \cup {[d EXCEPT !.made[d.engine].uri = s, !.granted = @ \cup {s}] :
                s \in IF HasSession(d) \/ Engine(d).name = "none" THEN {}
                      ELSE {Unused(d.granted \cup {d.made[i].uri : i \in DOMAIN d.made}
                                             \cup {beat.uri})}}

\* close(), unless it is not active: the session is deleted and the vendor takes its lighting back.
Closed(d) ==
    IF HasSession(d)
    THEN LET left == d.granted \ {Engine(d).uri}
         IN  [d EXCEPT !.made[d.engine].uri = 0, !.granted = left,
                       !.colour = IF left = {} THEN "own" ELSE @]
    ELSE d

\* set_color: a session the vendor refuses is dropped, at once (a 4xx) or after more calls.
Painted(d, colour) ==
    IF Live(d) THEN {[d EXCEPT !.colour = colour]}
    ELSE {d} \cup {[d EXCEPT !.made[i].uri = 0] : i \in IF HasSession(d) THEN {d.engine} ELSE {}}

\* _ensure_open_locked
EnsureOpen(d) == UNION {Opened(e) : e \in GetEngine(d)}

\* _set_solid_locked
SetSolid(d, colour) == UNION {Painted(e, colour) : e \in GetEngine(d)}

(* The blink: operators on blink *)

\* The counter's next value: one that no thread was born with.
NextGeneration(b) == Unused({t.gen : t \in b.threads} \cup {b.generation})

StartBlink(b) ==
    LET g == NextGeneration(b)
    IN  IF b.blinking THEN b
        ELSE [blinking |-> TRUE, generation |-> g,
              threads  |-> b.threads \cup {[gen |-> g, stopped |-> FALSE, on |-> FALSE,
                                            awake |-> FALSE]}]

\* Mutant: a stop that leaves the flag up.
StopBlinkKeepingTheFlag(b) ==
    [b EXCEPT !.generation = NextGeneration(b),
              !.threads = {[t EXCEPT !.stopped = TRUE] : t \in b.threads}]

\* The Event of the thread started last is set (the older ones' were set before it was
\* started), and whatever still runs is stale from here on.
StopBlink(b) ==
    [b EXCEPT !.blinking = FALSE, !.generation = NextGeneration(b),
              !.threads = {[t EXCEPT !.stopped = TRUE] : t \in b.threads}]

\* A thread the loop's test under the lock lets paint.
MayPaint(t) == ~t.stopped /\ t.gen = blink.generation

(* /state *)

StatusOf(d, p) == IF d.engine = 0 THEN [name |-> "none", active |-> FALSE, paused |-> p]
                  ELSE [name |-> Engine(d).name, active |-> HasSession(d), paused |-> p]

\* _refresh_status_locked, at the end of every section that may change the engine.
Refresh == snapshot' = StatusOf(dev', paused)

--------------------------------------------------------------------------------
Init ==
    /\ dev = [engine |-> 0, made |-> <<>>, granted |-> {}, colour |-> "own"]
    /\ blink = [blinking |-> FALSE, generation |-> 0, threads |-> {}]
    /\ paused = FALSE /\ wanted = "none" /\ actual = "none"
    /\ snapshot = StatusOf(dev, FALSE)
    /\ gui = "idle" /\ replay = "none" /\ settings = "idle"
    /\ beat = [pc |-> "waiting", engine |-> 0, uri |-> 0]
    /\ down = FALSE /\ calls = 0

Called == calls < MaxCalls /\ calls' = calls + 1

\* Mutant: pausing only releases the device, and the next status takes it back.
DriveWhilePaused(s) ==
    /\ wanted' = s
    /\ \/ /\ s = "none"
          /\ dev' = Closed(dev) /\ blink' = StopBlink(blink) /\ Refresh
       \/ /\ s = "confirm"
          /\ dev' \in EnsureOpen(dev)
          /\ blink' = StartBlink(blink) /\ Refresh
       \/ /\ s \in SolidStatuses
          /\ dev' \in UNION {SetSolid(d, s) : d \in EnsureOpen(dev)}
          /\ blink' = StopBlink(blink) /\ Refresh

\* apply(): release for none, blink for confirm, paint for the rest; only remembered
\* while paused.
Drive(s) ==
    /\ wanted' = s
    /\ \/ paused /\ UNCHANGED <<dev, blink, snapshot>>
       \/ /\ ~paused /\ s = "none"
          /\ dev' = Closed(dev) /\ blink' = StopBlink(blink) /\ Refresh
       \/ /\ ~paused /\ s = "confirm"
          /\ dev' \in EnsureOpen(dev)
          /\ blink' = StartBlink(blink) /\ Refresh
       \/ /\ ~paused /\ s \in SolidStatuses
          /\ dev' \in UNION {SetSolid(d, s) : d \in EnsureOpen(dev)}
          /\ blink' = StopBlink(blink) /\ Refresh

\* The applier's thread has a status for the controller.
Apply(s) ==
    /\ ~down /\ Called
    /\ Drive(s)
    /\ actual' = s
    /\ UNCHANGED <<paused, gui, replay, settings, beat, down>>

\* Mutant: resuming goes back to whatever the device showed last.
SetPausedRememberingTheColour(p) ==
    /\ ~down /\ gui = "idle" /\ p # paused /\ Called
    /\ paused' = p
    /\ gui' = IF p THEN "release" ELSE "replay"
    /\ replay' = dev.colour
    /\ snapshot' = StatusOf(dev, p)
    /\ UNCHANGED <<dev, blink, wanted, settings, beat, down, actual>>

\* set_paused(), first section: the switch is thrown.
SetPaused(p) ==
    /\ ~down /\ gui = "idle" /\ p # paused /\ Called
    /\ paused' = p
    /\ gui' = IF p THEN "release" ELSE "replay"
    /\ replay' = wanted
    /\ snapshot' = StatusOf(dev, p)
    /\ UNCHANGED <<dev, blink, wanted, settings, beat, down, actual>>

\* Its second section when pausing: the device is handed back.
Release ==
    /\ gui = "release"
    /\ dev' = Closed(dev) /\ blink' = StopBlink(blink)
    /\ gui' = "idle" /\ replay' = "none"
    /\ UNCHANGED <<paused, wanted, settings, beat, down, calls, actual>>
    /\ Refresh

\* Its second section when resuming: the status captured in the first one is applied.
Replay ==
    /\ gui = "replay"
    /\ Drive(replay)
    /\ gui' = "idle" /\ replay' = "none"
    /\ UNCHANGED <<paused, settings, beat, down, calls, actual>>

\* Mutant: the engine is dropped without being closed first.
ResetWithoutClosing ==
    /\ settings = "idle" /\ Called
    /\ dev' = Dropped(dev)
    /\ blink' = StopBlink(blink)
    /\ settings' = "reapply"
    /\ UNCHANGED <<paused, wanted, gui, replay, beat, down, actual>>
    /\ Refresh

\* Mutant: /state is not told that the engine was dropped.
ResetInSilence ==
    /\ settings = "idle" /\ Called
    /\ dev' = Dropped(Closed(dev))
    /\ blink' = StopBlink(blink)
    /\ settings' = "reapply"
    /\ UNCHANGED <<paused, wanted, snapshot, gui, replay, beat, down, actual>>

\* reset_engine(), after the engine was changed in Settings.
Reset ==
    /\ settings = "idle" /\ Called
    /\ dev' = Dropped(Closed(dev))
    /\ blink' = StopBlink(blink)
    /\ settings' = "reapply"
    /\ UNCHANGED <<paused, wanted, gui, replay, beat, down, actual>>
    /\ Refresh

\* The settings worker has the applier repeat the store's status.
Reapply ==
    /\ settings = "reapply" /\ ~down
    /\ Drive(actual)
    /\ settings' = "idle"
    /\ UNCHANGED <<paused, gui, replay, beat, down, calls, actual>>

\* shutdown(), called by the GUI's thread; blink and heartbeat threads are left to end.
ShutDown ==
    /\ ~down /\ gui = "idle" /\ Called
    /\ dev' = Closed(dev) /\ blink' = StopBlink(blink)
    /\ down' = TRUE
    /\ UNCHANGED <<paused, wanted, gui, replay, settings, beat, actual>>
    /\ Refresh

(* A blink thread: _blink_loop *)

Others(t) == blink.threads \ {t}

\* The head of the loop: a set Event ends it.
BlinkWake(t) ==
    /\ ~t.awake
    /\ blink' = [blink EXCEPT !.threads = Others(t) \cup
                    (IF t.stopped THEN {} ELSE {[t EXCEPT !.awake = TRUE, !.on = ~@]})]
    /\ UNCHANGED <<dev, paused, wanted, snapshot, gui, replay, settings, beat, down, calls, actual>>

\* Mutant: the loop trusts its test before the lock.
BlinkPaintUnchecked(t) ==
    /\ t.awake
    /\ blink' = [blink EXCEPT !.threads = Others(t) \cup {[t EXCEPT !.awake = FALSE]}]
    /\ dev' \in SetSolid(dev, IF t.on THEN "confirm" ELSE "off")
    /\ UNCHANGED <<paused, wanted, gui, replay, settings, beat, down, calls, actual>>
    /\ Refresh

\* Mutant: the off half is never painted.
BlinkPaintAlwaysOn(t) ==
    /\ t.awake
    /\ IF MayPaint(t)
       THEN /\ blink' = [blink EXCEPT !.threads = Others(t) \cup {[t EXCEPT !.awake = FALSE]}]
            /\ dev' \in SetSolid(dev, "confirm")
            /\ Refresh
       ELSE blink' = [blink EXCEPT !.threads = Others(t)] /\ UNCHANGED <<dev, snapshot>>
    /\ UNCHANGED <<paused, wanted, gui, replay, settings, beat, down, calls, actual>>

\* Under the lock: a stale thread ends, the current one paints its half.
BlinkPaint(t) ==
    /\ t.awake
    /\ IF MayPaint(t)
       THEN /\ blink' = [blink EXCEPT !.threads = Others(t) \cup {[t EXCEPT !.awake = FALSE]}]
            /\ dev' \in SetSolid(dev, IF t.on THEN "confirm" ELSE "off")
            /\ Refresh
       ELSE blink' = [blink EXCEPT !.threads = Others(t)] /\ UNCHANGED <<dev, snapshot>>
    /\ UNCHANGED <<paused, wanted, gui, replay, settings, beat, down, calls, actual>>

(* The heartbeat's thread: _heartbeat_loop *)

\* Under the lock: which engine to ping, if any.  The thread may have been woken just
\* before shutdown() told it to end.
BeatCapture ==
    /\ beat.pc = "waiting" /\ ~paused
    /\ dev.engine # 0
    /\ beat' = [pc |-> "captured", engine |-> dev.engine, uri |-> 0]
    /\ UNCHANGED <<dev, blink, paused, wanted, snapshot, gui, replay, settings, down, calls, actual>>

\* Outside the lock: the engine's session is read and, if it has one, its ping goes out.
BeatSend ==
    /\ beat.pc = "captured"
    /\ beat' = IF dev.made[beat.engine].uri = 0
               THEN [beat EXCEPT !.pc = "refresh"]
               ELSE [beat EXCEPT !.pc = "sent", !.uri = dev.made[beat.engine].uri]
    /\ UNCHANGED <<dev, blink, paused, wanted, snapshot, gui, replay, settings, down, calls, actual>>

\* The answer: a session the vendor does not know is dropped, or the failure is counted.
BeatAnswer ==
    /\ beat.pc = "sent"
    /\ dev' \in {dev} \cup {[dev EXCEPT !.made[beat.engine].uri = 0] :
                              u \in {beat.uri} \ dev.granted}
    /\ beat' = [beat EXCEPT !.pc = "refresh", !.uri = 0]
    /\ UNCHANGED <<blink, paused, wanted, snapshot, gui, replay, settings, down, calls, actual>>

BeatRefresh ==
    /\ beat.pc = "refresh"
    /\ beat' = [pc |-> "waiting", engine |-> 0, uri |-> 0]
    /\ UNCHANGED <<dev, blink, paused, wanted, gui, replay, settings, down, calls, actual>>
    /\ Refresh

\* External: the vendor's software is restarted and forgets its sessions.
VendorRestart ==
    /\ dev.granted # {} /\ Called
    /\ dev' = [dev EXCEPT !.granted = {}, !.colour = "own"]
    /\ UNCHANGED <<blink, paused, wanted, snapshot, gui, replay, settings, beat, down, actual>>

BlinkThread(t) == BlinkWake(t) \/ BlinkPaint(t)
Heartbeat      == BeatCapture \/ BeatSend \/ BeatAnswer \/ BeatRefresh

Next ==
    \/ \E s \in Statuses : Apply(s)
    \/ \E p \in BOOLEAN : SetPaused(p)
    \/ Release \/ Replay \/ Reset \/ Reapply \/ ShutDown
    \/ \E t \in blink.threads : BlinkThread(t)
    \/ Heartbeat
    \/ VendorRestart

Spec == Init /\ [][Next]_vars

\* The blink threads run; everything else may stop at any time.
FairSpec == Spec /\ WF_vars(\E t \in blink.threads : BlinkThread(t))

--------------------------------------------------------------------------------
(* Properties *)

TypeOK ==
    /\ \A i \in DOMAIN dev.made : i \in Nat \ {0} /\ dev.made[i] \in [name : {"none", "chroma"}, uri : Nat]
    /\ dev.engine \in DOMAIN dev.made \cup {0} /\ dev.granted \subseteq Nat \ {0}
    /\ dev.colour \in Colours
    /\ blink.blinking \in BOOLEAN /\ blink.generation \in Nat
    /\ blink.threads \subseteq [gen : Nat \ {0}, stopped : BOOLEAN, on : BOOLEAN, awake : BOOLEAN]
    /\ paused \in BOOLEAN /\ down \in BOOLEAN
    /\ {wanted, replay, actual} \subseteq Statuses
    /\ snapshot \in [name : {"none", "chroma"}, active : BOOLEAN, paused : BOOLEAN]
    /\ gui \in {"idle", "release", "replay"} /\ settings \in {"idle", "reapply"}
    /\ beat.pc \in {"waiting", "captured", "sent", "refresh"}
    /\ beat.engine \in DOMAIN dev.made \cup {0} /\ beat.uri \in Nat
    /\ calls \in 0 .. MaxCalls

\* No tick of a blink that was stopped or restarted paints over a steady status: while the
\* engine's session is alive, the device shows the status the controller drives.
SteadyStaysSteady ==
    /\ wanted \in SolidStatuses /\ ~paused /\ ~down
    /\ gui = "idle" /\ settings = "idle" /\ Live(dev)
    => dev.colour = wanted

\* An engine object that was dropped in Settings, or replaced by detection, holds no
\* session: nobody would ever close it.
OnlyTheCachedEngineHolds ==
    \A i \in DOMAIN dev.made : i # dev.engine => dev.made[i].uri = 0

\* While lighting is paused, and after shutdown, no engine is open and no blink thread may
\* paint, whatever arrives from hooks, Settings or the heartbeat in the meantime.
PausedIsReleased ==
    (paused /\ gui = "idle") \/ down
    => /\ \A i \in DOMAIN dev.made : dev.made[i].uri = 0
       /\ \A t \in blink.threads : ~MayPaint(t)

\* `blinking` promises a blink: exactly one thread may paint while it is set, none else.
\* Two would paint opposite halves; none would leave a prompt unseen.
BlinkingIsOneThread ==
    Cardinality({t \in blink.threads : MayPaint(t)}) = IF blink.blinking THEN 1 ELSE 0

\* /state's lock-free copy says what the engine is, except between a heartbeat's verdict
\* and the refresh that follows it.
SnapshotIsTrue == beat.pc # "refresh" => snapshot = StatusOf(dev, paused)

\* A confirm keeps blinking: as long as it is on and the session is alive, both halves are
\* painted again and again.
BlinkGoesOn ==
    \A half \in {"confirm", "off"} :
        (blink.blinking /\ Live(dev)) ~> (dev.colour = half \/ ~blink.blinking \/ ~Live(dev))

\* What the comment on _wanted promises: once lighting is resumed, the lights come back to
\* what is actually happening.
ResumedIsActual == ~paused /\ gui = "idle" /\ settings = "idle" => wanted = actual
================================================================================
