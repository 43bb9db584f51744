------------------------------ MODULE StatusBroker ------------------------------
(* TintaView's StatusServer (tintaview/core/server.py) with its threads: the HTTP *)
(* workers, the stall detector, the watchdog, the tray's re-send after a settings *)
(* change, the applier and the thread that calls stop().                          *)
(*                                                                                *)
(* One step is what a thread does under one lock: a call of the StallDetector, of *)
(* the StateStore (SessionMap.tla) or of the applier's condition variable.  What  *)
(* lies between two of them - a worker that holds the new fold and has not yet    *)
(* handed it to the applier - is where another thread may run.  A worker's ack    *)
(* goes out before its first step, so an agent's next hook may be in the hands of *)
(* a second worker before the first has touched the store.                        *)
(*                                                                                *)
(* `applied` stands for the lights: the status LightController.apply was last     *)
(* given (LightController.tla has what it does with it).                          *)
EXTENDS SessionMap

CONSTANTS
    Workers,       \* HTTP worker threads that may be handling an event at once
    EnabledAgents, \* cfg.is_enabled: events of other agents are dropped
    StallAgents,   \* agents with confirm_detection = "stall" (Cursor)
    StallSeconds,  \* ticks from a tool-start to its stall deadline
    Resends,       \* bound: whether Settings is used, so that the tray re-sends the status
    MaxInputs      \* bound: connections, settings changes and a quit, in a behaviour

ASSUME StallAssumption  == StallSeconds \in Nat \ {0}
ASSUME BoundAssumption  == MaxInputs \in Nat /\ Resends \in BOOLEAN
ASSUME ThreadAssumption == {"stall", "watchdog", "tray"} \cap Workers = {}

Threads == Workers \cup {"stall", "watchdog", "tray"}
Nothing == "nothing"      \* an empty slot (Python's None)

VARIABLES
    sessions,  \* the StateStore
    armed,     \* StallDetector._armed: key -> ticks left to its deadline
    due,       \* keys tick() popped and has not called on_stall for yet
    stale,     \* the watchdog's list from expired(), not yet given to end_many()
    pc,        \* where each thread stands
    event,     \* the event each worker is handling
    held,      \* each thread's local `effective`: a fold not yet requested
    slot,      \* _StatusApplier._wanted
    applier,   \* the applier thread: "waiting", "applying" or "ended"
    applying,  \* the status it took from the slot last
    stopping,  \* _StatusApplier._stopping
    applied,   \* the status last given to controller.apply; "none" once it is shut down
    phase,     \* how far stop() has come
    joined,    \* stop() saw the applier thread end before its join timed out
    inputs,    \* connections, settings changes and quits so far (the bound's counter)
    started,   \* keys whose last received event is a tool-start
    mayBeRed,  \* keys a confirm was received for, or a stall agent's tool-start
    accepted,  \* the status of the last request the applier accepted
    current,   \* threads whose held fold is the store's newest one
    fresh      \* the last accepted request carried the newest fold

store    == <<sessions, armed, due, stale>>
threads  == <<pc, event, held>>
mailbox  == <<slot, applier, applying, stopping, applied>>
history  == <<inputs, started, mayBeRed, accepted, current, fresh>>
vars     == <<store, threads, mailbox, phase, joined, history>>

NoEvent == [kind |-> Nothing]

Init ==
    /\ sessions = <<>> /\ armed = <<>> /\ due = {} /\ stale = {}
    /\ pc = [t \in Threads |-> "ready"]
    /\ event = [w \in Workers |-> NoEvent]
    /\ held = [t \in Threads |-> "none"]
    /\ slot = Nothing /\ applier = "waiting" /\ applying = "none" /\ stopping = FALSE
    /\ applied = "none"
    /\ phase = "serving" /\ joined = FALSE
    /\ inputs = 0 /\ started = {} /\ mayBeRed = {}
    /\ accepted = "none" /\ current = {} /\ fresh = TRUE

--------------------------------------------------------------------------------
(* Steps shared by the threads *)

Disarm(ks) == [k \in DOMAIN armed \ ks |-> armed[k]]

\* Where a thread goes once it has nothing to hand over: tick() calls back for every
\* popped key in turn, the others are done.
Resume(t, dueAfter) == IF t = "stall" /\ dueAfter # {} THEN "mutate" ELSE "ready"

\* One call of a StateStore mutator by thread t; a changed fold is carried to Request.
CallStore(t, after, dueAfter) ==
    LET returned == Returned(sessions, after)
    IN  /\ sessions' = after
        /\ IF returned = NoChange
           THEN /\ pc' = [pc EXCEPT ![t] = Resume(t, dueAfter)]
                /\ UNCHANGED <<held, current, fresh>>
           ELSE /\ pc' = [pc EXCEPT ![t] = "request"]
                /\ held' = [held EXCEPT ![t] = returned]
                /\ current' = {t}
                /\ fresh' = FALSE
        /\ UNCHANGED <<mailbox, phase, joined, inputs, started, mayBeRed,
                       accepted>>

\* Mutant: a request made while the applier is busy is dropped as redundant.
OfferUnlessBusy(s) ==
    /\ slot' = IF applier = "applying" THEN slot ELSE s
    /\ accepted' = s
    /\ applier' = IF applier = "ended" THEN "waiting" ELSE applier

\* _StatusApplier.request under its condition variable: the newest status wins, and a
\* thread that is not alive is started.
Offer(s) ==
    /\ slot' = s
    /\ accepted' = s
    /\ applier' = IF applier = "ended" THEN "waiting" ELSE applier

\* Mutant: a request is taken even after stop() began.
RequestWhileStopping(t) ==
    /\ pc[t] = "request"
    /\ Offer(held[t])
    /\ fresh' = (t \in current)
    /\ pc' = [pc EXCEPT ![t] = Resume(t, due)]
    /\ held' = [held EXCEPT ![t] = "none"]
    /\ current' = current \ {t}
    /\ UNCHANGED <<store, event, applying, stopping, applied, phase, joined,
                   inputs, started, mayBeRed>>

\* A thread hands its fold to the applier, which ignores it once stop() was called.
Request(t) ==
    /\ pc[t] = "request"
    /\ IF stopping
       THEN UNCHANGED <<slot, applier, accepted, fresh>>
       ELSE Offer(held[t]) /\ fresh' = (t \in current)
    /\ pc' = [pc EXCEPT ![t] = Resume(t, due)]
    /\ held' = [held EXCEPT ![t] = "none"]
    /\ current' = current \ {t}
    /\ UNCHANGED <<store, event, applying, stopping, applied, phase, joined,
                   inputs, started, mayBeRed>>

--------------------------------------------------------------------------------
(* HTTP workers: StatusServer.handle_event *)

\* A connection is accepted: its worker thread may run at any later time, stop() or not.
Accept(w) ==
    /\ phase = "serving" /\ pc[w] = "ready"
    /\ inputs < MaxInputs
    /\ inputs' = inputs + 1
    /\ pc' = [pc EXCEPT ![w] = "accepted"]
    /\ UNCHANGED <<store, event, held, mailbox, phase, joined, started, mayBeRed, accepted,
                   current, fresh>>

\* Where an event leads after its session's timer was disarmed.
\* Mutant: every agent's tool-start is watched for a stall.
NextStepArmingAll(e) == IF e.kind = "tool-start" THEN "arm" ELSE "mutate"

NextStep(e) == IF e.kind = "tool-start" /\ e.key[1] \in StallAgents THEN "arm" ELSE "mutate"

\* An event that may leave its session red: a question, or what may hide one.
Asks(e) == e.kind = "confirm" \/ (e.kind = "tool-start" /\ e.key[1] \in StallAgents)

\* Mutant: one event empties the whole table of timers.
ReceiveDisarmingAll(w, e) ==
    /\ pc[w] = "accepted"
    /\ e.key[1] \in EnabledAgents
    /\ armed' = Disarm(Keys)
    /\ pc' = [pc EXCEPT ![w] = NextStep(e)]
    /\ event' = [event EXCEPT ![w] = e]
    /\ started' = IF e.kind = "tool-start" THEN started \cup {e.key} ELSE started \ {e.key}
    /\ mayBeRed' = IF Asks(e) THEN mayBeRed \cup {e.key} ELSE mayBeRed
    /\ UNCHANGED <<sessions, due, stale, held, mailbox, phase, joined, inputs, accepted,
                   current, fresh>>

\* The worker has acknowledged its hook and takes the event: whatever it is, its session's
\* stall timer is disarmed.
Receive(w, e) ==
    /\ pc[w] = "accepted"
    /\ e.key[1] \in EnabledAgents
    /\ armed' = Disarm({e.key})
    /\ pc' = [pc EXCEPT ![w] = NextStep(e)]
    /\ event' = [event EXCEPT ![w] = e]
    /\ started' = IF e.kind = "tool-start" THEN started \cup {e.key} ELSE started \ {e.key}
    /\ mayBeRed' = IF Asks(e) THEN mayBeRed \cup {e.key} ELSE mayBeRed
    /\ UNCHANGED <<sessions, due, stale, held, mailbox, phase, joined, inputs, accepted,
                   current, fresh>>

\* An event of a disabled agent, a request that is no event (/state, /healthz), or a
\* connection that never sends one: nothing happens.
Ignore(w) ==
    /\ pc[w] = "accepted"
    /\ pc' = [pc EXCEPT ![w] = "ready"]
    /\ UNCHANGED <<store, event, held, mailbox, phase, joined, history>>

\* A tool-start of a stall agent starts its timer, before the store hears of it.
Arm(w) ==
    /\ pc[w] = "arm"
    /\ armed' = [k \in DOMAIN armed \cup {event[w].key} |->
                   IF k = event[w].key THEN StallSeconds ELSE armed[k]]
    /\ pc' = [pc EXCEPT ![w] = "mutate"]
    /\ UNCHANGED <<sessions, due, stale, event, held, mailbox, phase, joined, history>>

Handle(w) ==
    /\ pc[w] = "mutate"
    /\ CallStore(w, Handled(sessions, event[w]), due)
    /\ event' = [event EXCEPT ![w] = NoEvent]
    /\ UNCHANGED <<armed, due, stale>>

(* The stall detector's thread *)

Elapsed == {k \in DOMAIN armed : armed[k] = 0}

\* tick(): pop every session past its deadline, then call back outside the lock.
StallTick ==
    /\ pc["stall"] = "ready" /\ phase \in {"serving", "ingress closed"}
    /\ Elapsed # {}
    /\ armed' = Disarm(Elapsed)
    /\ due' = Elapsed
    /\ pc' = [pc EXCEPT !["stall"] = "mutate"]
    /\ UNCHANGED <<sessions, stale, event, held, mailbox, phase, joined, history>>

\* _on_stall for one popped session.
StallFire(k) ==
    /\ pc["stall"] = "mutate" /\ k \in due
    /\ due' = due \ {k}
    /\ CallStore("stall", SetStatus(sessions, k, "confirm", Keep, NoRequest, Main), due \ {k})
    /\ UNCHANGED <<armed, stale, event>>

(* The watchdog's thread *)

WatchdogScan ==
    /\ pc["watchdog"] = "ready" /\ phase \in {"serving", "ingress closed"}
    /\ Expired(sessions) # {}
    /\ stale' = Expired(sessions)
    /\ pc' = [pc EXCEPT !["watchdog"] = "mutate"]
    /\ UNCHANGED <<sessions, armed, due, event, held, mailbox, phase, joined, history>>

WatchdogRetire ==
    /\ pc["watchdog"] = "mutate"
    /\ stale' = {}
    /\ CallStore("watchdog", EndMany(sessions, stale), due)
    /\ UNCHANGED <<armed, due, event>>

(* The tray, after a settings change: apply_status() reads the fold, then requests it. *)

TrayRead ==
    /\ Resends /\ pc["tray"] = "ready" /\ phase = "serving"
    /\ inputs < MaxInputs
    /\ inputs' = inputs + 1
    /\ held' = [held EXCEPT !["tray"] = Effective(sessions)]
    /\ pc' = [pc EXCEPT !["tray"] = "request"]
    /\ current' = current \cup {"tray"}
    /\ UNCHANGED <<store, event, mailbox, phase, joined, started, mayBeRed, accepted, fresh>>

(* The applier's thread: _StatusApplier._run *)

Take ==
    /\ applier = "waiting" /\ slot # Nothing
    /\ applier' = "applying"
    /\ applying' = slot
    /\ slot' = Nothing
    /\ UNCHANGED <<store, threads, stopping, applied, phase, joined, history>>

Apply ==
    /\ applier = "applying"
    /\ applied' = applying
    /\ applying' = "none"
    /\ applier' = "waiting"
    /\ UNCHANGED <<store, threads, slot, stopping, phase, joined, history>>

\* stop() was called and nothing is left in the slot.
ApplierEnd ==
    /\ applier = "waiting" /\ slot = Nothing /\ stopping
    /\ applier' = "ended"
    /\ UNCHANGED <<store, threads, slot, applying, stopping, applied, phase, joined, history>>

(* StatusServer.stop(), ingress first.  Workers are daemon threads that nothing joins;  *)
(* the joins of the two loops may time out, so stop() never waits for them here.        *)

StopIngress ==
    /\ phase = "serving"
    /\ inputs < MaxInputs
    /\ inputs' = inputs + 1
    /\ phase' = "ingress closed"
    /\ UNCHANGED <<store, threads, mailbox, joined, started, mayBeRed, accepted, current, fresh>>

StopLoops ==
    /\ phase = "ingress closed"
    /\ phase' = "loops stopped"
    /\ UNCHANGED <<store, threads, mailbox, joined, history>>

StopApplier ==
    /\ phase = "loops stopped"
    /\ stopping' = TRUE
    /\ phase' = "joining"
    /\ UNCHANGED <<store, threads, slot, applier, applying, applied, joined, history>>

\* Mutant: stop() waits until nothing is being applied, not until the thread has ended.
JoinWhenIdle ==
    /\ phase = "joining" /\ applier # "applying"
    /\ joined' = TRUE
    /\ phase' = "joined"
    /\ UNCHANGED <<store, threads, mailbox, history>>

\* The applier's thread has ended within the join's timeout.
Join ==
    /\ phase = "joining" /\ applier = "ended"
    /\ joined' = TRUE
    /\ phase' = "joined"
    /\ UNCHANGED <<store, threads, mailbox, history>>

\* A wedged vendor call outlasts the join's timeout: stop() goes on without the thread.
JoinTimeout ==
    /\ phase = "joining" /\ applier # "ended"
    /\ phase' = "joined"
    /\ UNCHANGED <<store, threads, mailbox, joined, history>>

\* controller.shutdown()
ShutDown ==
    /\ phase = "joined"
    /\ applied' = "none"
    /\ phase' = "released"
    /\ UNCHANGED <<store, threads, slot, applier, applying, stopping, joined, history>>

(* Time *)

Tick ==
    /\ sessions' = [k \in DOMAIN sessions |->
                      [sessions[k] EXCEPT !.silent = IF @ > WatchdogTimeout THEN @ ELSE @ + 1]]
    /\ armed' = [k \in DOMAIN armed |-> IF armed[k] = 0 THEN 0 ELSE armed[k] - 1]
    /\ UNCHANGED <<due, stale, threads, mailbox, phase, joined, history>>

Receiving(w) == Ignore(w) \/ (\E k \in Keys : \E e \in EventsOf(k) : Receive(w, e))
Worker(w) == Receiving(w) \/ Arm(w) \/ Handle(w) \/ Request(w)
Stall     == StallTick \/ (\E k \in Keys : StallFire(k)) \/ Request("stall")
Watchdog  == WatchdogScan \/ WatchdogRetire \/ Request("watchdog")
Tray      == TrayRead \/ Request("tray")
Applier   == Take \/ Apply \/ ApplierEnd
Stop      == StopIngress \/ StopLoops \/ StopApplier \/ Join \/ JoinTimeout \/ ShutDown

Next ==
    \/ \E w \in Workers : Accept(w) \/ Worker(w)
    \/ Stall \/ Watchdog \/ Tray \/ Applier \/ Stop \/ Tick

Spec == Init /\ [][Next]_vars

\* Every started thread runs on; nobody has to send events, open Settings or quit.  The
\* watchdog is not needed for what is promised below, so nothing is assumed of it.
FairSpec ==
    /\ Spec
    /\ \A w \in Workers : WF_vars(Worker(w))
    /\ WF_vars(Stall) /\ WF_vars(Request("tray")) /\ WF_vars(Applier) /\ WF_vars(Tick)

--------------------------------------------------------------------------------
(* Properties *)

TypeOK ==
    /\ DOMAIN sessions \subseteq Keys /\ sessions \in [DOMAIN sessions -> Session]
    /\ DOMAIN armed \subseteq Keys /\ armed \in [DOMAIN armed -> 0 .. StallSeconds]
    /\ due \subseteq Keys /\ stale \subseteq Keys
    /\ pc \in [Threads -> {"ready", "accepted", "arm", "mutate", "request"}]
    /\ event \in [Workers -> {NoEvent} \cup UNION {EventsOf(k) : k \in Keys}]
    /\ held \in [Threads -> Folds]
    /\ slot \in Folds \cup {Nothing} /\ applying \in Folds /\ applied \in Folds
    /\ applier \in {"waiting", "applying", "ended"}
    /\ stopping \in BOOLEAN /\ joined \in BOOLEAN /\ fresh \in BOOLEAN
    /\ phase \in {"serving", "ingress closed", "loops stopped", "joining", "joined", "released"}
    /\ inputs \in 0 .. MaxInputs /\ accepted \in Folds /\ started \subseteq Keys /\ mayBeRed \subseteq Keys
    /\ current \subseteq Threads

\* Nothing is pending in the applier and nothing is being applied (its wait_idle).
ApplierIdle == slot = Nothing /\ applier # "applying"

\* As long as the thread that made the newest change of the fold was also the last to hand
\* its fold over, the lights of an idle applier show the store's effective status - with
\* any number of workers, promotions, retirements, re-sends and statuses superseded in the
\* slot.  An overtaken hand-over is the only way the lights can be left wrong.
FreshLightsAreRight ==
    ApplierIdle /\ fresh /\ phase # "released" => applied = Effective(sessions)

\* What handle_event's docstring promises of two events on two workers: once every thread
\* is done, the lights are the store's effective status.
QuietLightsAreRight ==
    /\ ApplierIdle /\ phase = "serving"
    /\ \A t \in Threads : pc[t] # "request"
    => applied = Effective(sessions)

\* After an orderly stop() no event still in flight re-opens the engine: if the applier's
\* thread ended within its join, the lights stay released.
ReleasedStaysReleased == phase = "released" /\ joined => applied = "none"

\* A session is red only if a confirm was received for it, or it is one of a stall agent that
\* started a tool: an agent with a confirm event of its own is never painted red for being
\* slow, nor one session for another one's silence.
NoRedWithoutAConfirm ==
    \A k \in DOMAIN sessions : sessions[k].status = "confirm" => k \in mayBeRed

\* Every accepted status reaches the lights, or is superseded by a newer one that does, or
\* the server stops: no wake-up of the applier is lost.
AcceptedIsApplied == (applied # accepted) ~> (applied = accepted \/ stopping)

\* A session whose last sign of life is a tool-start that armed its timer turns red in the
\* end, whatever the other sessions do, unless it speaks again, is retired, or the server
\* stops.
StalledTurnsRed ==
    \A k \in {j \in Keys : j[1] \in StallAgents} :
        (k \in DOMAIN armed /\ k \in started)
            ~> \/ k \in DOMAIN sessions /\ sessions[k].status = "confirm"
               \/ k \notin DOMAIN sessions
               \/ k \notin started
               \/ phase # "serving"

\* What stalldetect.py says of its two safety rules: any event after the tool-start disarms
\* the session, so a promotion only ever follows a tool-start that nothing followed.
PromotionFollowsSilence ==
    [][\A k \in Keys : StallFire(k) => k \in started]_vars

\* The refinement of Lights.tla: a thread carries the fold between its two critical
\* sections, and the lights are committed to a status when the applier takes it.
Promise == INSTANCE Lights WITH
    Carriers <- Threads,
    fold     <- Effective(sessions),
    carried  <- [t \in Threads |-> IF pc[t] = "request" THEN held[t] ELSE Nothing],
    wanted   <- accepted,
    light    <- IF applier = "applying" THEN applying ELSE applied,
    gate     <- IF phase = "released" THEN IF joined THEN "released" ELSE "abandoned"
                ELSE IF stopping THEN "closing" ELSE "open"

\* The threads, timers and the slot implement what Lights.tla promises: no fold is lost on
\* its way to the applier, a superseded status is never shown after the one that replaced
\* it, stop() shows what it accepted before it releases, and nothing is shown after that.
FollowsLights == Promise!Spec
================================================================================
