------------------------------ MODULE GHubEngine -------------------------------
(* TintaView's G HUB engine (tintaview/engines/ghub.py): GHubEngine, the call     *)
(* pump below it and the vendor's LED SDK below that.                             *)
(*                                                                                *)
(* One thread calls the engine (the controller's, under its lock, or the sidecar  *)
(* worker's main loop).  Every SDK call runs on the pump's thread, because the    *)
(* SDK is initialised per thread; the caller waits for it, and a wait may time    *)
(* out while the call goes on.  One step is one section under the pump's lock,    *)
(* one SDK call, or what the caller does between two calls.                       *)
(*                                                                                *)
(* The SDK is external.  A call of it takes as long as it likes, may refuse or    *)
(* raise, does nothing on a thread that did not initialise it, and a lighting     *)
(* call that differs from the one before it shows the colour of the one before.   *)
(* The lights go back to their owner once no thread holds the SDK.                *)
EXTENDS Integers, Sequences, FiniteSets

CONSTANTS
    Colours,        \* what the engine is asked to paint
    InitAttempts,   \* _INIT_ATTEMPTS
    FailureLimit,   \* _SET_FAILURE_LIMIT
    MaxCalls        \* bound: calls of the engine

\* Assumed in Engines.tla.
ColourAssumption  == "own" \notin Colours
AttemptAssumption == InitAttempts \in Nat \ {0} /\ FailureLimit \in Nat \ {0}
CallsAssumption   == MaxCalls \in Nat

VARIABLES
    eng,     \* the engine: _saved, _initialized, _set_failures, status_note, its cooldown
    caller,  \* where the calling thread stands, its colour, attempt and joined thread
    queue,   \* _CallPump._pending
    running, \* the pump's live threads, and the job each one runs
    thread,  \* _CallPump._thread, 0 if None
    stopped, \* _CallPump._stopped
    reply,   \* what the call the caller waits for came to, once it did
    sdk,     \* the threads that hold the SDK, the last lighting call, the colour shown
    clean,   \* history: no wait has timed out and no SDK call has raised
    lit,     \* history: the colour last painted and, as far as it went, committed
    calls    \* the bound's counter

pump  == <<queue, running, thread, stopped>>
gvars == <<eng, caller, pump, reply, sdk, clean, lit, calls>>

Nothing == "nothing"
NoJob   == [kind |-> Nothing, colour |-> Nothing, nudged |-> FALSE, waited |-> FALSE]
Job(kind, colour, nudged, waited) ==
    [kind |-> kind, colour |-> colour, nudged |-> nudged, waited |-> waited]
Released == [held |-> {}, sent |-> <<"own", FALSE>>, shown |-> "own"]
AtRest   == [at |-> "idle", colour |-> Nothing, attempt |-> 0, joins |-> 0]
Answers  == {"ok", "refused", "raised", "none"}

Init ==
    /\ eng = [saved |-> FALSE, initialized |-> FALSE, failures |-> 0, note |-> FALSE,
              cooldown |-> FALSE]
    /\ caller = AtRest
    /\ queue = <<>> /\ running = <<>> /\ thread = 0 /\ stopped = FALSE
    /\ reply = Nothing
    /\ sdk = Released
    /\ clean = TRUE /\ lit = Nothing /\ calls = 0

--------------------------------------------------------------------------------
(* The pump *)

\* A thread's name: the least number no thread has that lives or holds the SDK.
NewThread == CHOOSE n \in 1 .. Cardinality(DOMAIN running \cup sdk.held) + 1 :
                n \notin DOMAIN running \cup sdk.held

\* What a new job supersedes: a paint drops paints and commits, a commit only commits.
DroppedBy(kind) ==
    CASE kind = "paint" -> {"paint", "commit"} [] kind = "commit" -> {"commit"} [] OTHER -> {}

\* The others stay in order: the n-th left is the one with n of them up to it (SelectSeq
\* with an operator would say the same and keep the provers out).
Without(q, kinds) ==
    LET kept == {i \in DOMAIN q : q[i].kind \notin kinds}
    IN  [n \in 1 .. Cardinality(kept) |->
            q[CHOOSE i \in kept : Cardinality(kept \cap 1 .. i) = n]]

\* _enqueue onto q: a thread is started if none is known.
EnqueueOn(q, job) ==
    /\ stopped' = FALSE
    /\ queue' = Append(Without(q, DroppedBy(job.kind)), job)
    /\ IF thread = 0
       THEN /\ thread' = NewThread
            /\ running' = [t \in DOMAIN running \cup {NewThread} |->
                             IF t \in DOMAIN running THEN running[t] ELSE NoJob]
       ELSE UNCHANGED <<thread, running>>

\* call(): the job is queued and its caller waits at a place named after the job.
CallOn(q, kind, c) ==
    /\ EnqueueOn(q, Job(kind, c.colour, FALSE, TRUE))
    /\ caller' = [c EXCEPT !.at = kind]
    /\ reply' = Nothing

Call(kind, c) == CallOn(queue, kind, c)

\* stop(): the queue is dropped, the thread is told to end and joined for a second.
StopPump ==
    /\ stopped' = TRUE /\ thread' = 0 /\ queue' = <<>>
    /\ UNCHANGED running
    /\ caller' = [AtRest EXCEPT !.at = "join", !.joins = thread]
    /\ reply' = Nothing

\* drop_pending: no colour job that has not begun runs after it.
WithoutColours == Without(queue, {"paint", "commit"})

\* _run under the lock: a thread that sees the stop ends, else it takes the oldest job.
ThreadEnds(t) ==
    /\ running[t] = NoJob /\ stopped
    /\ running' = [u \in DOMAIN running \ {t} |-> running[u]]
    /\ UNCHANGED <<eng, caller, queue, thread, stopped, reply, sdk, clean, lit, calls>>

ThreadTakes(t) ==
    /\ running[t] = NoJob /\ ~stopped /\ queue # <<>>
    /\ running' = [running EXCEPT ![t] = Head(queue)]
    /\ queue' = Tail(queue)
    /\ UNCHANGED <<eng, caller, thread, stopped, reply, sdk, clean, lit, calls>>

\* A lighting call: one that repeats the last is ignored, any other shows the last.
Lighting(job) ==
    IF sdk.sent = <<job.colour, job.nudged>> THEN sdk
    ELSE [sdk EXCEPT !.shown = sdk.sent[1], !.sent = <<job.colour, job.nudged>>]

\* External: the SDK after a call on thread t that returns true, for each kind of call.
SdkAfter(t, job) ==
    CASE job.kind = "init"                  -> [sdk EXCEPT !.held = @ \cup {t}]
      [] job.kind \in {"paint", "commit"}   -> Lighting(job)
      [] job.kind \in {"shutdown", "exit"}  -> IF sdk.held \subseteq {t} THEN Released
                                               ELSE [sdk EXCEPT !.held = @ \ {t}]
      [] OTHER                              -> sdk

\* External: what a call may come to.  A thread without the SDK gets no light changed.
SdkAnswers(t, job) ==
    IF job.kind \in {"paint", "commit"} /\ t \notin sdk.held THEN {"refused", "raised"}
    ELSE IF job.kind \in {"shutdown", "exit"} THEN {"ok", "raised"}
    ELSE {"ok", "refused", "raised"}

\* The SDK call returns; its caller is told, if it still waits.
ThreadRuns(t) ==
    LET job == running[t]
    IN  /\ job # NoJob
        /\ running' = [running EXCEPT ![t] = NoJob]
        /\ \E answer \in SdkAnswers(t, job) :
              /\ sdk' = IF answer = "ok" THEN SdkAfter(t, job) ELSE sdk
              /\ reply' = IF job.waited THEN answer ELSE reply
              /\ clean' = (clean /\ answer # "raised")
              /\ lit' = IF job.kind = "commit" /\ answer # "ok" THEN Nothing ELSE lit
        /\ UNCHANGED <<eng, caller, queue, thread, stopped, calls>>

Waiting == {"init", "target", "save", "paint", "restore", "shutdown", "exit"}

\* Mutant: close() waits for its calls as long as they take.
WaitTimesOutUnlessClosing ==
    /\ caller.at \in Waiting \ {"restore", "shutdown"} /\ reply = Nothing
    /\ reply' = "none"
    /\ queue' = [i \in DOMAIN queue |-> [queue[i] EXCEPT !.waited = FALSE]]
    /\ running' = [t \in DOMAIN running |-> [running[t] EXCEPT !.waited = FALSE]]
    /\ clean' = FALSE
    /\ UNCHANGED <<eng, caller, thread, stopped, sdk, lit, calls>>

\* A wait runs out: the caller goes on with None, and its job stays where it is.
WaitTimesOut ==
    /\ caller.at \in Waiting /\ reply = Nothing
    /\ reply' = "none"
    /\ queue' = [i \in DOMAIN queue |-> [queue[i] EXCEPT !.waited = FALSE]]
    /\ running' = [t \in DOMAIN running |-> [running[t] EXCEPT !.waited = FALSE]]
    /\ clean' = FALSE
    /\ UNCHANGED <<eng, caller, thread, stopped, sdk, lit, calls>>

--------------------------------------------------------------------------------
(* The engine *)

Answered(at) == caller.at = at /\ reply # Nothing

Return == caller' = AtRest /\ reply' = Nothing

\* note_failure: the engine refuses to open until the cooldown is over.
Unavailable(e) == [e EXCEPT !.cooldown = TRUE]

\* open(): refused in a cooldown, and without a DLL; a held SDK is not initialised again.
Open ==
    /\ caller.at = "idle" /\ ~eng.saved /\ ~eng.cooldown /\ calls < MaxCalls
    /\ calls' = calls + 1 /\ lit' = Nothing
    /\ \/ /\ ~eng.initialized
          /\ eng' = Unavailable(eng)
          /\ UNCHANGED <<caller, pump, reply>>
       \/ /\ Call(IF eng.initialized THEN "target" ELSE "init",
                  [AtRest EXCEPT !.attempt = 1])
          /\ UNCHANGED eng
    /\ UNCHANGED <<sdk, clean>>

\* _ensure_initialized: a refused or late init is retried; what it raises leaves open().
InitAnswered ==
    /\ Answered("init")
    /\ \/ /\ reply = "ok"
          /\ eng' = [eng EXCEPT !.initialized = TRUE]
          /\ Call("target", caller)
       \/ /\ reply \in {"refused", "none"} /\ caller.attempt < InitAttempts
          /\ UNCHANGED eng
          /\ Call("init", [caller EXCEPT !.attempt = @ + 1])
       \/ /\ reply \in {"refused", "none"} /\ caller.attempt = InitAttempts
          /\ eng' = Unavailable(eng)
          /\ Return /\ UNCHANGED pump
       \/ /\ reply = "raised"
          /\ Return /\ UNCHANGED <<eng, pump>>
    /\ UNCHANGED <<sdk, clean, lit, calls>>

TargetAnswered ==
    /\ Answered("target")
    /\ IF reply = "raised" THEN Return /\ UNCHANGED pump ELSE Call("save", caller)
    /\ UNCHANGED <<eng, sdk, clean, lit, calls>>

\* The session is open although the user's lighting could not be saved.
SaveAnswered ==
    /\ Answered("save")
    /\ eng' = IF reply = "raised" THEN eng
              ELSE [eng EXCEPT !.saved = TRUE, !.failures = 0, !.note = FALSE,
                               !.cooldown = FALSE]
    /\ Return
    /\ UNCHANGED <<pump, sdk, clean, lit, calls>>

\* set_color(): a no-op while no session is open.
SetColor(c) ==
    /\ caller.at = "idle" /\ eng.saved /\ calls < MaxCalls
    /\ calls' = calls + 1
    /\ Call("paint", [AtRest EXCEPT !.colour = c])
    /\ UNCHANGED <<eng, sdk, clean, lit>>

\* _note_paint_result: the third failure in a row raises the note, once, and with it a
\* cooldown (the count goes on in the code; past the limit nothing reads it).
Noted(e, ok) ==
    IF ok THEN [e EXCEPT !.failures = 0, !.note = FALSE]
    ELSE LET n == IF e.failures < FailureLimit THEN e.failures + 1 ELSE FailureLimit
         IN  IF n < FailureLimit \/ e.note THEN [e EXCEPT !.failures = n]
             ELSE Unavailable([e EXCEPT !.failures = n, !.note = TRUE])

\* Mutant: the commit is sent without the nudge, as the same call once more.
CommitOfTheSame(c) == Job("commit", c, FALSE, FALSE)

\* The second lighting call a colour needs, 1% off it so that it is a new call.
CommitOf(c) == Job("commit", c, TRUE, FALSE)

\* A paint that did not answer is neither committed nor counted; one that raised is
\* only counted.
PaintAnswered ==
    /\ Answered("paint")
    /\ IF reply \in {"ok", "refused"} THEN EnqueueOn(queue, CommitOf(caller.colour))
                                      ELSE UNCHANGED pump
    /\ eng' = IF reply = "none" THEN eng ELSE Noted(eng, reply = "ok")
    /\ lit' = IF reply = "ok" THEN caller.colour ELSE Nothing
    /\ Return
    /\ UNCHANGED <<sdk, clean, calls>>

\* close(): an open session drops its colours and waits for the pump; without one there
\* is only the pump to stop.
Close ==
    /\ caller.at = "idle" /\ calls < MaxCalls
    /\ calls' = calls + 1 /\ lit' = Nothing
    /\ IF eng.saved
       THEN /\ queue' = WithoutColours
            /\ caller' = [AtRest EXCEPT !.at = "drain"]
            /\ UNCHANGED <<running, thread, stopped, reply>>
       ELSE StopPump
    /\ eng' = [eng EXCEPT !.saved = FALSE]
    /\ UNCHANGED <<sdk, clean>>

\* wait_idle: until nothing is queued or in flight, or until it times out.
PumpIdle == queue = <<>> /\ \A t \in DOMAIN running : running[t] = NoJob
Drained ==
    /\ caller.at = "drain"
    /\ clean' = (clean /\ PumpIdle)
    /\ \E restore \in BOOLEAN :  \* cfg.restore_on_release
          Call(IF restore THEN "restore" ELSE "shutdown", caller)
    /\ UNCHANGED <<eng, sdk, lit, calls>>

\* Mutant: close() only restores the lighting, and keeps the SDK.
RestoreAnsweredKeepingTheSdk ==
    /\ Answered("restore")
    /\ eng' = [eng EXCEPT !.initialized = FALSE]
    /\ StopPump
    /\ UNCHANGED <<sdk, clean, lit, calls>>

RestoreAnswered ==
    /\ Answered("restore")
    /\ Call("shutdown", caller)
    /\ UNCHANGED <<eng, sdk, clean, lit, calls>>

\* Mutant: the next open takes the SDK for initialised.
ShutdownAnsweredStillInitialised ==
    /\ Answered("shutdown")
    /\ StopPump
    /\ UNCHANGED <<eng, sdk, clean, lit, calls>>

\* However the shutdown went, the next open() initialises anew, on a new thread.
ShutdownAnswered ==
    /\ Answered("shutdown")
    /\ eng' = [eng EXCEPT !.initialized = FALSE]
    /\ StopPump
    /\ UNCHANGED <<sdk, clean, lit, calls>>

\* The join ends with the thread, or after a second without it.
Joined ==
    /\ caller.at = "join"
    /\ clean' = (clean /\ caller.joins \notin DOMAIN running)
    /\ Return
    /\ UNCHANGED <<eng, pump, sdk, lit, calls>>

\* _shutdown_at_exit: the last release, for an engine that still holds the SDK.
Exit ==
    /\ caller.at = "idle"
    /\ IF eng.initialized THEN CallOn(WithoutColours, "exit", AtRest)
       ELSE caller' = [AtRest EXCEPT !.at = "gone"] /\ UNCHANGED <<pump, reply>>
    /\ UNCHANGED <<eng, sdk, clean, lit, calls>>

ExitAnswered ==
    /\ Answered("exit")
    /\ caller' = [AtRest EXCEPT !.at = "gone"]
    /\ UNCHANGED <<eng, pump, reply, sdk, clean, lit, calls>>

\* External: a minute passes and the cooldown is over.
CooldownEnds ==
    /\ eng.cooldown
    /\ eng' = [eng EXCEPT !.cooldown = FALSE]
    /\ UNCHANGED <<caller, pump, reply, sdk, clean, lit, calls>>

--------------------------------------------------------------------------------
CallerSteps ==
    \/ InitAnswered \/ TargetAnswered \/ SaveAnswered \/ PaintAnswered \/ Drained
    \/ RestoreAnswered \/ ShutdownAnswered \/ Joined \/ ExitAnswered \/ WaitTimesOut

Calls == Open \/ (\E c \in Colours : SetColor(c)) \/ Close \/ Exit

PumpThread(t) == ThreadEnds(t) \/ ThreadTakes(t) \/ ThreadRuns(t)

Next ==
    /\ caller.at # "gone"
    /\ \/ Calls \/ CallerSteps \/ CooldownEnds
       \/ \E t \in DOMAIN running : PumpThread(t)

\* The caller's waits run out, so it always gets on; nothing makes an SDK call return.
Fairness == WF_gvars(caller.at # "gone" /\ CallerSteps)

Spec == Init /\ [][Next]_gvars /\ Fairness

--------------------------------------------------------------------------------
(* Correctness *)

Jobs == {NoJob} \cup
        [kind : Waiting \cup {"commit"}, colour : Colours \cup {Nothing},
         nudged : BOOLEAN, waited : BOOLEAN]

TypeOK ==
    /\ eng \in [saved : BOOLEAN, initialized : BOOLEAN, failures : 0 .. FailureLimit,
                note : BOOLEAN, cooldown : BOOLEAN]
    /\ caller \in [at : Waiting \cup {"idle", "drain", "join", "gone"},
                   colour : Colours \cup {Nothing}, attempt : 0 .. InitAttempts, joins : Nat]
    /\ queue \in Seq(Jobs)
    /\ DOMAIN running \subseteq Nat \ {0} /\ \A t \in DOMAIN running : running[t] \in Jobs
    /\ thread \in Nat /\ stopped \in BOOLEAN
    /\ reply \in Answers \cup {Nothing}
    /\ sdk.held \subseteq Nat /\ sdk.shown \in Colours \cup {"own"}
    /\ clean \in BOOLEAN /\ lit \in Colours \cup {Nothing} /\ calls \in 0 .. MaxCalls

Resting == caller.at \in {"idle", "gone"}

\* Once a closed engine's call has returned (or the process is gone) the lights are the
\* user's own and neither a thread nor a queued commit is left to take them back, as
\* long as every wait was answered and nothing raised (GHubEngine.close).
ClosedIsReleased ==
    (Resting /\ clean /\ ~eng.saved /\ ~eng.initialized) \/ (caller.at = "gone" /\ clean)
        => sdk = Released /\ ~(\E i \in DOMAIN queue : queue[i].kind \in {"paint", "commit"})

\* An open session's calls run on a thread that initialised the SDK, and on one thread
\* only: a call on any other would be silently lost (the per-thread hazard of ghub.py).
OpenThreadHoldsTheSdk ==
    caller.at = "idle" /\ clean /\ eng.saved
        => thread \in sdk.held /\ DOMAIN running = {thread}

\* With the pump at rest the lights show the colour last painted, not the one before it
\* (_commit_paint), as long as the SDK accepted both calls.
PaintedIsShown ==
    caller.at = "idle" /\ clean /\ PumpIdle /\ lit # Nothing => sdk.shown = lit

\* Whatever the SDK does, a call of the engine comes back (the waits of _CallPump.call).
CallsReturn == caller.at \notin {"idle", "gone"} ~> caller.at \in {"idle", "gone"}
================================================================================
