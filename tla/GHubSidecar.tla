------------------------------ MODULE GHubSidecar ------------------------------
(* The G HUB engine when it paints through a python.exe child                     *)
(* (tintaview/engines/ghub_sidecar.py): the sidecar's branches of GHubEngine, the *)
(* RPC client GHubSidecar and the worker process at the other end of the pipes.   *)
(*                                                                                *)
(* One thread calls the engine, and one request is in flight at a time.  A worker *)
(* takes as long as it likes over a request, may print a line that is no reply,   *)
(* and may die; its reader turns every line it printed, and its end, into an      *)
(* entry of its reply queue.  A killed process does nothing more, but poll() may  *)
(* not say so for a while.  What the worker's own engine does with the SDK is     *)
(* GHubEngine.tla; here it is open or not.                                        *)
EXTENDS Integers, Sequences, FiniteSets

CONSTANTS
    FailureLimit,  \* _SET_FAILURE_LIMIT
    MaxRequests    \* bound: requests in a behaviour

\* Assumed in Engines.tla.
LimitAssumption == FailureLimit \in Nat \ {0} /\ MaxRequests \in Nat

VARIABLES
    front,    \* GHubEngine: _saved, _set_failures, status_note, its cooldown
    client,   \* GHubSidecar: _proc (0 if None) and _broken
    rpc,      \* the request in flight: its command, its id, the worker it went to
    nextId,   \* GHubSidecar._next_id
    workers,  \* per process ever started: its state, pipes, and whether its engine is open
    halted   \* _stop_sidecar_at_exit has run

svars == <<front, client, rpc, nextId, workers, halted>>

Idle == [cmd |-> "none", id |-> 0, to |-> 0]
Up   == [state |-> "up", stdin |-> <<>>, replies |-> <<>>, open |-> FALSE]
Garbage == [id |-> 0, ok |-> FALSE]    \* a line json.loads or the id check refuses
Eof     == [id |-> -1, ok |-> FALSE]   \* the reader's None

Init ==
    /\ front = [saved |-> FALSE, failures |-> 0, note |-> FALSE, cooldown |-> FALSE]
    /\ client = [proc |-> 0, broken |-> FALSE]
    /\ rpc = Idle /\ nextId = 1 /\ workers = <<>> /\ halted = FALSE

Polls(w) == workers[w].state # "dead"          \* poll() is None
Alive    == client.proc # 0 /\ ~client.broken /\ Polls(client.proc)
Active   == front.saved /\ Alive               \* GHubEngine.active

Killed(ws, w) ==
    IF ws[w].state = "up"
    THEN [ws EXCEPT ![w] = [Up EXCEPT !.state = "killed", !.replies = Append(ws[w].replies, Eof)]]
    ELSE ws

\* _reap_locked: the worker before this one is killed, waited for and forgotten.
Buried == IF client.proc = 0 THEN workers
          ELSE [workers EXCEPT ![client.proc] = [Up EXCEPT !.state = "dead"]]

\* The parent's side of an engine call that is over.
Refused(f)   == [f EXCEPT !.saved = FALSE, !.cooldown = TRUE]
Opened(f)    == [f EXCEPT !.saved = TRUE, !.failures = 0, !.note = FALSE, !.cooldown = FALSE]
Painted(f, ok) ==
    IF ok THEN [f EXCEPT !.failures = 0, !.note = FALSE]
    ELSE LET n == IF f.failures < FailureLimit THEN f.failures + 1 ELSE FailureLimit
         IN  IF n < FailureLimit \/ f.note THEN [f EXCEPT !.failures = n]
             ELSE [f EXCEPT !.failures = n, !.note = TRUE, !.cooldown = TRUE]

\* _request_unlocked writes one line; the worker has it once it reads.
Send(cmd, w, ws) ==
    /\ rpc' = [cmd |-> cmd, id |-> nextId, to |-> w]
    /\ nextId' = nextId + 1
    /\ workers' = [ws EXCEPT ![w].stdin = Append(@, [cmd |-> cmd, id |-> nextId])]

\* open(): a worker that does not answer any more is buried and a new one started, with
\* a queue of its own; then the request.  Without a python.exe there is none to start.
Open ==
    /\ rpc = Idle /\ ~halted /\ ~Active /\ ~front.cooldown /\ nextId <= MaxRequests
    /\ \/ /\ Alive
          /\ Send("open", client.proc, workers)
          /\ UNCHANGED <<front, client>>
       \/ /\ ~Alive
          /\ LET w == Len(workers) + 1
             IN  /\ client' = [proc |-> w, broken |-> FALSE]
                 /\ Send("open", w, Append(Buried, Up))
          /\ UNCHANGED front
       \/ /\ ~Alive
          /\ front' = Refused(front)
          /\ workers' = Buried
          /\ client' = [client EXCEPT !.proc = 0]
          /\ UNCHANGED <<rpc, nextId>>
    /\ UNCHANGED halted

\* set_color(): a worker that is not there counts as a failed paint.
SetColor ==
    /\ rpc = Idle /\ ~halted /\ front.saved /\ nextId <= MaxRequests
    /\ IF Alive THEN Send("set_color", client.proc, workers) /\ UNCHANGED front
       ELSE front' = Painted(front, FALSE) /\ UNCHANGED <<rpc, nextId, workers>>
    /\ UNCHANGED <<client, halted>>

\* close(): the session is over for the parent before the worker is told.
Close ==
    /\ rpc = Idle /\ ~halted /\ front.saved /\ nextId <= MaxRequests
    /\ front' = [front EXCEPT !.saved = FALSE]
    /\ IF Alive THEN Send("close", client.proc, workers) ELSE UNCHANGED <<rpc, nextId, workers>>
    /\ UNCHANGED <<client, halted>>

\* What a request that failed, or was answered, does to the engine that made it.
Outcome(failed, ok) ==
    CASE rpc.cmd = "open"      -> IF failed \/ ~ok THEN Refused(front) ELSE Opened(front)
      [] rpc.cmd = "set_color" -> IF failed THEN Painted([front EXCEPT !.note = TRUE], FALSE)
                                            ELSE Painted(front, ok)
      [] OTHER                 -> front

\* _discard: the worker is broken from now on and its process killed (its queue is
\* replaced in the code; here each worker has its own).
Discard ==
    /\ client' = [client EXCEPT !.broken = TRUE]
    /\ workers' = Killed(workers, rpc.to)

\* stop() waits for the worker's end, and kills it if need be, once its request is over.
Ended(ws) == [ws EXCEPT ![rpc.to] = [Up EXCEPT !.state = "dead"]]

Fail ==
    /\ front' = Outcome(TRUE, FALSE)
    /\ rpc' = Idle
    /\ IF rpc.cmd = "stop" THEN /\ workers' = Ended(workers)
                                /\ client' = [client EXCEPT !.broken = TRUE]
                           ELSE Discard
    /\ UNCHANGED <<nextId, halted>>

\* The write to a worker that is gone fails, or its reply is late.
WriteFails == rpc # Idle /\ workers[rpc.to].state # "up" /\ Fail
TimesOut   == rpc # Idle /\ workers[rpc.to].replies = <<>> /\ Fail

\* The next line of the queue is this request's reply, or the worker is discarded.
TakeReply ==
    /\ rpc # Idle /\ workers[rpc.to].replies # <<>>
    /\ LET line == Head(workers[rpc.to].replies)
           read == [workers EXCEPT ![rpc.to].replies = Tail(@)]
       IN  IF line.id # rpc.id THEN Fail
           ELSE /\ front' = Outcome(FALSE, line.ok)
                /\ rpc' = Idle
                /\ workers' = IF rpc.cmd = "stop" THEN Ended(read) ELSE read
                /\ UNCHANGED <<client, nextId, halted>>

\* _stop_sidecar_at_exit: the last worker is told to close and waited for.
StopAtExit ==
    /\ rpc = Idle /\ ~halted
    /\ halted' = TRUE
    /\ client' = [client EXCEPT !.proc = 0]
    /\ IF client.proc # 0 /\ Polls(client.proc) THEN Send("stop", client.proc, workers)
       ELSE UNCHANGED <<rpc, nextId, workers>>
    /\ UNCHANGED front

\* External: a minute passes and the cooldown is over.
CooldownEnds ==
    /\ front.cooldown
    /\ front' = [front EXCEPT !.cooldown = FALSE]
    /\ UNCHANGED <<client, rpc, nextId, workers, halted>>

--------------------------------------------------------------------------------
(* The worker process (worker_main) *)

Reply(w, open, ok) ==
    workers' = [workers EXCEPT
        ![w].stdin = Tail(@), ![w].open = open,
        ![w].replies = Append(@, [id |-> Head(workers[w].stdin).id, ok |-> ok])]

\* An open engine is closed first, so that the user's lighting is saved anew.
\* The SDK may be refused, and what raises is answered as a refusal.
WorkerOpen(w) ==
    /\ Head(workers[w].stdin).cmd = "open"
    /\ \E ok \in BOOLEAN : Reply(w, ok, ok)

\* A paint of an open engine is reported done whatever the SDK made of it.
WorkerPaint(w) ==
    /\ Head(workers[w].stdin).cmd = "set_color"
    /\ Reply(w, workers[w].open, workers[w].open)

WorkerClose(w) ==
    /\ Head(workers[w].stdin).cmd \in {"close", "stop"}
    /\ Reply(w, FALSE, TRUE)

\* External: the process crashes, with whatever it had not answered.
WorkerDies(w) ==
    /\ workers' = [Killed(workers, w) EXCEPT ![w].state = "dead"]

\* External: a DLL writes a line of its own to the worker's stdout.
WorkerPrints(w) ==
    /\ Len(workers[w].replies) < 1
    /\ workers' = [workers EXCEPT ![w].replies = Append(@, Garbage)]

WorkerReads(w) ==
    /\ workers[w].stdin # <<>>
    /\ WorkerOpen(w) \/ WorkerPaint(w) \/ WorkerClose(w)

Worker(w) ==
    /\ workers[w].state = "up"
    /\ WorkerReads(w) \/ WorkerDies(w) \/ WorkerPrints(w)
    /\ UNCHANGED <<front, client, rpc, nextId, halted>>

\* A killed process is gone, and poll() says so.
WorkerGone(w) ==
    /\ workers[w].state = "killed"
    /\ workers' = [workers EXCEPT ![w].state = "dead"]
    /\ UNCHANGED <<front, client, rpc, nextId, halted>>

--------------------------------------------------------------------------------
Client == WriteFails \/ TimesOut \/ TakeReply

Next ==
    \/ Open \/ SetColor \/ Close \/ StopAtExit \/ CooldownEnds \/ Client
    \/ \E w \in DOMAIN workers : Worker(w) \/ WorkerGone(w)

\* The client's wait ends with a reply or by its timeout.
Fairness == WF_svars(Client)

Spec == Init /\ [][Next]_svars /\ Fairness

--------------------------------------------------------------------------------
(* Correctness *)

TypeOK ==
    /\ front \in [saved : BOOLEAN, failures : 0 .. FailureLimit, note : BOOLEAN,
                  cooldown : BOOLEAN]
    /\ client.proc \in {0} \cup DOMAIN workers
    /\ rpc.cmd \in {"none", "open", "set_color", "close", "stop"}
    /\ \A w \in DOMAIN workers : workers[w].state \in {"up", "killed", "dead"}

\* Between requests the pipe of a worker that will be asked again is in step: no request
\* unread, no late reply waiting to be taken for the next request's (_discard).
PipeInStep ==
    rpc = Idle /\ Alive /\ workers[client.proc].state = "up"
        => /\ workers[client.proc].stdin = <<>>
           /\ \A i \in DOMAIN workers[client.proc].replies :
                 workers[client.proc].replies[i].id <= 0

\* Between requests parent and worker agree on whether the session is open: the
\* controller paints only where something is held, and opens again where nothing is.
BothSidesAgree ==
    rpc = Idle /\ Alive /\ workers[client.proc].state = "up"
        => (front.saved <=> workers[client.proc].open)

\* No two workers hold the SDK, and none does after the process has halted its own.
OneWorkerPaints ==
    /\ Cardinality({w \in DOMAIN workers : workers[w].open}) <= 1
    /\ halted /\ rpc = Idle => \A w \in DOMAIN workers : ~workers[w].open

\* A worker that hangs or dies does not hold up its caller.
RequestsReturn == rpc # Idle ~> rpc = Idle
================================================================================
