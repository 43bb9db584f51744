--------------------------- MODULE StatusBrokerProofs ---------------------------
(* Proofs about StatusBroker: for any number of workers, sessions and inputs.     *)
EXTENDS StatusBroker, SessionMapLemmas

(* The invariants, by name *)

\* A worker that is about to call the detector or the store has an event to call it with.
EventsInHand ==
    \A w \in Workers : pc[w] \in {"arm", "mutate"} => event[w] \in UNION {EventsOf(k) : k \in Keys}

\* A thread counted as current has a fold in its hand, and it is the store's.
CurrentHoldsTheFold ==
    \A t \in current : pc[t] = "request" /\ held[t] = Effective(sessions)

FreshIsAccepted == fresh => accepted = Effective(sessions)

\* The last accepted status is in the slot, or being applied, or on the lights.
MailboxKeepsTheLast ==
    /\ slot # Nothing => slot = accepted
    /\ slot = Nothing /\ applier = "applying" => applying = accepted
    /\ ApplierIdle /\ phase # "released" => applied = accepted

\* The applier's thread ends only once stop() was called and its slot is empty; stop()
\* reaches the controller after that, unless it lost patience.
StopIsOrderly ==
    /\ applier = "ended" => stopping /\ slot = Nothing
    /\ phase \in {"joining", "joined", "released"} => stopping
    /\ joined => applier = "ended" /\ phase \in {"joined", "released"}

HandOver == /\ EventsInHand /\ CurrentHoldsTheFold /\ FreshIsAccepted
            /\ MailboxKeepsTheLast /\ StopIsOrderly /\ ReleasedStaysReleased

Inv == TypeOK /\ HandOver

--------------------------------------------------------------------------------
(* Types *)

LEMMA NothingIsNoFold == Nothing \notin Folds
BY DEF Nothing, Folds, Statuses

LEMMA ThreadNames ==
    ASSUME NEW w \in Workers PROVE w \in Threads /\ w \notin {"stall", "watchdog", "tray"}
BY ThreadAssumption DEF Threads

LEMMA InitInv == Init => Inv
<1> SUFFICES ASSUME Init PROVE Inv
  OBVIOUS
<1>1. \A S : /\ DOMAIN sessions = {} /\ sessions \in [DOMAIN sessions -> S]
            /\ DOMAIN armed = {} /\ armed \in [DOMAIN armed -> S]
  BY DEF Init
<1>2. 0 \in 0 .. MaxInputs
  BY BoundAssumption
<1>3. TypeOK
  BY <1>1, <1>2 DEF Init, TypeOK, Folds
<1>4. EventsInHand
  BY ThreadNames DEF Init, EventsInHand
<1>5. CurrentHoldsTheFold /\ FreshIsAccepted
  BY <1>1 DEF Init, CurrentHoldsTheFold, FreshIsAccepted, Effective
<1>6. MailboxKeepsTheLast /\ StopIsOrderly /\ ReleasedStaysReleased
  BY DEF Init, MailboxKeepsTheLast, StopIsOrderly, ReleasedStaysReleased, ApplierIdle
<1>7. QED
  BY <1>3, <1>4, <1>5, <1>6 DEF Inv, HandOver

PcValues == {"ready", "accepted", "arm", "mutate", "request"}

\* A call of a mutator that leaves a well typed map keeps the types.
LEMMA CallStoreTypeOK ==
    ASSUME TypeOK, NEW t \in Threads, NEW after, MapOK(after), NEW rest, CallStore(t, after, rest)
    PROVE  /\ DOMAIN sessions' \subseteq Keys /\ sessions' \in [DOMAIN sessions' -> Session]
           /\ pc' \in [Threads -> PcValues]
           /\ held' \in [Threads -> Folds]
           /\ current' \subseteq Threads /\ fresh' \in BOOLEAN
<1>1. Returned(sessions, after) \in Folds \cup {NoChange}
  BY EffectiveInFolds DEF Returned
<1>2. Resume(t, rest) \in PcValues
  BY DEF Resume, PcValues
<1>3. QED
  BY <1>1, <1>2 DEF CallStore, TypeOK, MapOK, PcValues

\* A step in which the map, the timers and the threads' places keep their types.
LEMMA HandleTypeOK == ASSUME Inv, NEW w \in Workers, Handle(w) PROVE TypeOK'
<1>1. TypeOK /\ w \in Threads /\ MapOK(sessions)
  BY ThreadNames DEF Inv, TypeOK, MapOK
<1>2. PICK k \in Keys : event[w] \in EventsOf(k)
  BY DEF Inv, HandOver, EventsInHand, Handle
<1>3. MapOK(Handled(sessions, event[w]))
  BY <1>1, <1>2, HandledOK
<1>4. CallStore(w, Handled(sessions, event[w]), due)
  BY DEF Handle
<1>5. /\ DOMAIN sessions' \subseteq Keys /\ sessions' \in [DOMAIN sessions' -> Session]
      /\ pc' \in [Threads -> PcValues] /\ held' \in [Threads -> Folds]
      /\ current' \subseteq Threads /\ fresh' \in BOOLEAN
  BY <1>1, <1>3, <1>4, CallStoreTypeOK
<1>6. QED
  BY <1>1, <1>4, <1>5 DEF Handle, CallStore, mailbox, TypeOK, PcValues

LEMMA StallFireTypeOK == ASSUME Inv, NEW k \in Keys, StallFire(k) PROVE TypeOK'
<1>1. TypeOK /\ "stall" \in Threads /\ MapOK(sessions)
  BY DEF Inv, TypeOK, MapOK, Threads
<1> DEFINE after == SetStatus(sessions, k, "confirm", Keep, NoRequest, Main)
<1>2. MapOK(after)
  BY <1>1, SetStatusOK DEF Statuses, NoRequest, Requests, Actors
<1>3. CallStore("stall", after, due \ {k})
  BY DEF StallFire
<1> HIDE DEF after
<1>4. /\ DOMAIN sessions' \subseteq Keys /\ sessions' \in [DOMAIN sessions' -> Session]
      /\ pc' \in [Threads -> PcValues] /\ held' \in [Threads -> Folds]
      /\ current' \subseteq Threads /\ fresh' \in BOOLEAN
  BY <1>1, <1>2, <1>3, CallStoreTypeOK
<1>5. QED
  BY <1>1, <1>3, <1>4 DEF StallFire, CallStore, mailbox, TypeOK, PcValues

LEMMA WatchdogRetireTypeOK == ASSUME Inv, WatchdogRetire PROVE TypeOK'
<1>1. TypeOK /\ "watchdog" \in Threads /\ MapOK(sessions)
  BY DEF Inv, TypeOK, MapOK, Threads
<1> DEFINE after == EndMany(sessions, stale)
<1>2. MapOK(after)
  BY <1>1, EndManyOK
<1>3. CallStore("watchdog", after, due)
  BY DEF WatchdogRetire
<1> HIDE DEF after
<1>4. /\ DOMAIN sessions' \subseteq Keys /\ sessions' \in [DOMAIN sessions' -> Session]
      /\ pc' \in [Threads -> PcValues] /\ held' \in [Threads -> Folds]
      /\ current' \subseteq Threads /\ fresh' \in BOOLEAN
  BY <1>1, <1>2, <1>3, CallStoreTypeOK
<1>5. QED
  BY <1>1, <1>3, <1>4 DEF WatchdogRetire, CallStore, mailbox, TypeOK, PcValues

LEMMA TickTypeOK == ASSUME TypeOK, Tick PROVE TypeOK'
<1>1. ASSUME NEW s \in Session
      PROVE  [s EXCEPT !.silent = IF @ > WatchdogTimeout THEN @ ELSE @ + 1] \in Session
  BY TimeoutAssumption DEF Session
<1>2. DOMAIN sessions' \subseteq Keys /\ sessions' \in [DOMAIN sessions' -> Session]
  BY <1>1 DEF Tick, TypeOK
<1>3. ASSUME NEW n \in 0 .. StallSeconds
      PROVE  (IF n = 0 THEN 0 ELSE n - 1) \in 0 .. StallSeconds
  BY StallAssumption
<1>4. DOMAIN armed' \subseteq Keys /\ armed' \in [DOMAIN armed' -> 0 .. StallSeconds]
  BY <1>3 DEF Tick, TypeOK
<1>5. QED
  BY <1>2, <1>4 DEF Tick, TypeOK, threads, mailbox, history

\* The remaining steps, whose effect on the types is plain.
LEMMA OtherTypeOK ==
    ASSUME Inv,
           \/ \E w \in Workers : \/ Accept(w) \/ Ignore(w) \/ Arm(w) \/ Request(w)
                                 \/ \E k \in Keys : \E e \in EventsOf(k) : Receive(w, e)
           \/ StallTick \/ WatchdogScan \/ Request("stall") \/ Request("watchdog")
           \/ Tray \/ Applier \/ Stop
    PROVE  TypeOK'
<1> USE DEF Inv, store, threads, mailbox, history
<1>1. ASSUME NEW w \in Workers, Accept(w) PROVE TypeOK'
  BY <1>1, ThreadNames, BoundAssumption DEF Accept, TypeOK
<1>2. ASSUME NEW w \in Workers, Ignore(w) PROVE TypeOK'
  BY <1>2, ThreadNames DEF Ignore, TypeOK
<1>3. ASSUME NEW w \in Workers, Arm(w) PROVE TypeOK'
  <2>1. event[w].key \in Keys
    BY <1>3, EventFields DEF Arm, HandOver, EventsInHand
  <2>2. StallSeconds \in 0 .. StallSeconds
    BY StallAssumption
  <2>3. DOMAIN armed' \subseteq Keys /\ armed' \in [DOMAIN armed' -> 0 .. StallSeconds]
    BY <1>3, <2>1, <2>2 DEF Arm, TypeOK
  <2>4. QED
    BY <1>3, <2>3, ThreadNames DEF Arm, TypeOK
<1>4. ASSUME NEW t \in Threads, Request(t) PROVE TypeOK'
  <2>1. Resume(t, due) \in PcValues /\ "none" \in Folds /\ (t \in current) \in BOOLEAN
    BY DEF Resume, PcValues, Folds
  <2>2. /\ pc' \in [Threads -> PcValues] /\ held' \in [Threads -> Folds]
        /\ current' \subseteq Threads
    BY <1>4, <2>1 DEF Request, TypeOK, PcValues
  <2>3. /\ slot' \in Folds \cup {Nothing} /\ accepted' \in Folds /\ fresh' \in BOOLEAN
        /\ applier' \in {"waiting", "applying", "ended"}
    BY <1>4, <2>1 DEF Request, Offer, TypeOK
  <2>4. QED
    BY <1>4, <2>2, <2>3 DEF Request, TypeOK, PcValues
<1>5. ASSUME NEW w \in Workers, NEW k \in Keys, NEW e \in EventsOf(k), Receive(w, e)
      PROVE  TypeOK'
  <2>1. e.key \in Keys
    BY EventFields
  <2>2. NextStep(e) \in PcValues
    BY DEF NextStep, PcValues
  <2>3. DOMAIN armed' \subseteq Keys /\ armed' \in [DOMAIN armed' -> 0 .. StallSeconds]
    BY <1>5 DEF Receive, Disarm, TypeOK
  <2>4. event' \in [Workers -> {NoEvent} \cup UNION {EventsOf(j) : j \in Keys}]
    BY <1>5 DEF Receive, TypeOK
  <2>5. QED
    BY <1>5, <2>1, <2>2, <2>3, <2>4, ThreadNames DEF Receive, TypeOK, PcValues
<1>6. CASE StallTick
  BY <1>6 DEF StallTick, Elapsed, Disarm, Threads, TypeOK
<1>7. CASE WatchdogScan
  BY <1>7 DEF WatchdogScan, Expired, Threads, TypeOK
<1>8. CASE TrayRead
  BY <1>8, EffectiveInFolds, BoundAssumption DEF TrayRead, Threads, TypeOK
<1>9. CASE Applier
  BY <1>9, NothingIsNoFold DEF Applier, Take, Apply, ApplierEnd, TypeOK, Folds
<1>10. CASE Stop
  <2>1. CASE StopIngress
    <3>1. inputs \in 0 .. MaxInputs /\ inputs < MaxInputs /\ inputs' = inputs + 1
      BY <2>1 DEF StopIngress, TypeOK
    <3>2. inputs' \in 0 .. MaxInputs
      BY <3>1, BoundAssumption
    <3>3. QED
      BY <2>1, <3>2 DEF StopIngress, TypeOK
  <2>2. CASE StopLoops
    BY <2>2 DEF StopLoops, TypeOK
  <2>3. CASE StopApplier
    BY <2>3 DEF StopApplier, TypeOK
  <2>4. CASE Join
    BY <2>4 DEF Join, TypeOK
  <2>5. CASE JoinTimeout
    BY <2>5 DEF JoinTimeout, TypeOK
  <2>6. CASE ShutDown
    BY <2>6 DEF ShutDown, TypeOK, Folds
  <2>7. QED
    BY <1>10, <2>1, <2>2, <2>3, <2>4, <2>5, <2>6 DEF Stop
<1>11. QED
  BY <1>1, <1>2, <1>3, <1>4, <1>5, <1>6, <1>7, <1>8, <1>9, <1>10 DEF Threads, Tray

--------------------------------------------------------------------------------
(* The hand-over from the store to the lights *)

\* A call of a mutator: whoever changes the fold is the only current thread from then on.
LEMMA CallStoreHandOver ==
    ASSUME Inv, NEW t \in Threads, NEW after, NEW rest, CallStore(t, after, rest),
           t = "stall" \/ Resume(t, rest) = "ready",
           pc[t] = "mutate", \A w \in Workers : event'[w] = event[w] \/ w = t
    PROVE  HandOver'
<1>1. CASE Returned(sessions, after) = NoChange
  <2>1. Effective(sessions') = Effective(sessions)
    BY <1>1, EffectiveInFolds, NoChangeIsNoFold DEF CallStore, Returned
  <2>2. t \notin current
    BY DEF Inv, HandOver, CurrentHoldsTheFold
  <2>3. /\ pc' = [pc EXCEPT ![t] = Resume(t, rest)]
        /\ UNCHANGED <<held, current, fresh, accepted, mailbox, phase, joined>>
    BY <1>1 DEF CallStore
  <2>4. CurrentHoldsTheFold' /\ FreshIsAccepted'
    BY <2>1, <2>2, <2>3 DEF Inv, HandOver, TypeOK, CurrentHoldsTheFold, FreshIsAccepted
  <2>5. EventsInHand'
    BY <2>3, ThreadNames DEF Inv, HandOver, TypeOK, EventsInHand
  <2>6. QED
    BY <2>3, <2>4, <2>5 DEF Inv, HandOver, mailbox, MailboxKeepsTheLast, StopIsOrderly,
                            ReleasedStaysReleased, ApplierIdle
<1>2. CASE Returned(sessions, after) # NoChange
  <2>1. Returned(sessions, after) = Effective(sessions')
    BY <1>2 DEF CallStore, Returned
  <2>2. /\ pc' = [pc EXCEPT ![t] = "request"]
        /\ held' = [held EXCEPT ![t] = Effective(sessions')]
        /\ current' = {t} /\ fresh' = FALSE
        /\ UNCHANGED <<accepted, mailbox, phase, joined>>
    BY <1>2, <2>1 DEF CallStore
  <2>3. CurrentHoldsTheFold' /\ FreshIsAccepted'
    BY <2>2 DEF Inv, TypeOK, CurrentHoldsTheFold, FreshIsAccepted
  <2>4. EventsInHand'
    BY <2>2, ThreadNames DEF Inv, HandOver, TypeOK, EventsInHand
  <2>5. QED
    BY <2>2, <2>3, <2>4 DEF Inv, HandOver, mailbox, MailboxKeepsTheLast, StopIsOrderly,
                            ReleasedStaysReleased, ApplierIdle
<1>3. QED
  BY <1>1, <1>2

\* Handing a fold over: the newest accepted status is the one in the slot.
LEMMA RequestHandOver == ASSUME Inv, NEW t \in Threads, Request(t) PROVE HandOver'
<1>1. /\ pc[t] = "request" /\ pc' = [pc EXCEPT ![t] = Resume(t, due)]
      /\ current' = current \ {t} /\ held' = [held EXCEPT ![t] = "none"]
      /\ UNCHANGED <<sessions, event, applying, stopping, applied, phase, joined>>
  BY DEF Request, store
<1>2. EventsInHand'
  BY <1>1, ThreadNames DEF Inv, HandOver, TypeOK, EventsInHand, Resume
<1>3. CurrentHoldsTheFold'
  BY <1>1 DEF Inv, HandOver, TypeOK, CurrentHoldsTheFold
<1>4. CASE stopping
  BY <1>1, <1>2, <1>3, <1>4
  DEF Request, Inv, HandOver, FreshIsAccepted, MailboxKeepsTheLast, StopIsOrderly,
      ReleasedStaysReleased, ApplierIdle
<1>5. CASE ~stopping
  <2>1. /\ slot' = held[t] /\ accepted' = held[t] /\ fresh' = (t \in current)
        /\ applier' = applier /\ slot' # Nothing
    BY <1>5, NothingIsNoFold DEF Request, Offer, Inv, HandOver, StopIsOrderly, TypeOK
  <2>2. FreshIsAccepted'
    BY <1>1, <2>1 DEF FreshIsAccepted, Inv, HandOver, CurrentHoldsTheFold
  <2>3. QED
    BY <1>1, <1>2, <1>3, <1>5, <2>1, <2>2
    DEF Inv, HandOver, MailboxKeepsTheLast, StopIsOrderly, ReleasedStaysReleased, ApplierIdle
<1>6. QED
  BY <1>4, <1>5

\* The steps that call neither a mutator nor the applier's request.
LEMMA OtherHandOver ==
    ASSUME Inv,
           \/ \E w \in Workers : \/ Accept(w) \/ Ignore(w) \/ Arm(w)
                                 \/ \E k \in Keys : \E e \in EventsOf(k) : Receive(w, e)
           \/ StallTick \/ WatchdogScan \/ TrayRead \/ Applier \/ Stop \/ Tick
    PROVE  HandOver'
<1> USE DEF Inv, HandOver
<1>1. ASSUME NEW t \in Threads, pc[t] # "request", pc'[t] # "request",
             \A u \in Threads \ {t} : pc'[u] = pc[u],
             UNCHANGED <<sessions, held, current, fresh, accepted>>
      PROVE  CurrentHoldsTheFold' /\ FreshIsAccepted'
  <2>1. t \notin current
    BY <1>1 DEF CurrentHoldsTheFold
  <2>2. QED
    BY <1>1, <2>1 DEF TypeOK, CurrentHoldsTheFold, FreshIsAccepted
<1>2. ASSUME UNCHANGED <<mailbox, phase, joined, accepted>>
      PROVE  MailboxKeepsTheLast' /\ StopIsOrderly' /\ ReleasedStaysReleased'
  BY <1>2 DEF mailbox, MailboxKeepsTheLast, StopIsOrderly, ReleasedStaysReleased, ApplierIdle
<1>3. ASSUME UNCHANGED <<sessions, threads, accepted, current, fresh>>
      PROVE  EventsInHand' /\ CurrentHoldsTheFold' /\ FreshIsAccepted'
  BY <1>3 DEF threads, EventsInHand, CurrentHoldsTheFold, FreshIsAccepted
<1>4. ASSUME NEW w \in Workers,
             \/ Accept(w) \/ Ignore(w) \/ Arm(w)
             \/ \E k \in Keys : \E e \in EventsOf(k) : Receive(w, e)
      PROVE  HandOver'
  <2>1. w \in Threads
    BY ThreadNames
  <2>2. /\ pc[w] # "request" /\ pc'[w] # "request"
        /\ \A u \in Threads \ {w} : pc'[u] = pc[u]
        /\ UNCHANGED <<sessions, held, current, fresh, accepted, mailbox, phase, joined>>
    BY <1>4, <2>1 DEF Accept, Ignore, Arm, Receive, NextStep, TypeOK, store, threads, history
  <2>3. EventsInHand'
    <3>1. CASE Accept(w) \/ Ignore(w) \/ Arm(w)
      BY <3>1, <2>1, ThreadNames DEF Accept, Ignore, Arm, TypeOK, threads, EventsInHand
    <3>2. ASSUME NEW k \in Keys, NEW e \in EventsOf(k), Receive(w, e) PROVE EventsInHand'
      <4>1. event' = [event EXCEPT ![w] = e] /\ \A u \in Threads \ {w} : pc'[u] = pc[u]
        BY <3>2, <2>2 DEF Receive
      <4>2. e \in UNION {EventsOf(j) : j \in Keys}
        OBVIOUS
      <4>3. QED
        BY <4>1, <4>2, ThreadNames DEF TypeOK, EventsInHand
    <3>3. QED
      BY <1>4, <3>1, <3>2
  <2>4. QED
    BY <1>1, <1>2, <2>1, <2>2, <2>3
<1>5. CASE StallTick \/ WatchdogScan
  <2>1. PICK t \in {"stall", "watchdog"} :
          /\ pc[t] = "ready" /\ pc' = [pc EXCEPT ![t] = "mutate"]
          /\ UNCHANGED <<sessions, event, held, current, fresh, accepted, mailbox, phase, joined>>
    BY <1>5 DEF StallTick, WatchdogScan, history
  <2>2. t \in Threads /\ t \notin Workers
    BY ThreadAssumption DEF Threads
  <2>3. EventsInHand'
    BY <2>1, <2>2, ThreadNames DEF EventsInHand, TypeOK
  <2>4. pc'[t] # "request" /\ \A u \in Threads \ {t} : pc'[u] = pc[u]
    BY <2>1, <2>2 DEF TypeOK
  <2>5. QED
    BY <1>1, <1>2, <2>1, <2>2, <2>3, <2>4
<1>6. CASE TrayRead
  <2>1. "tray" \in Threads /\ "tray" \notin Workers
    BY ThreadAssumption DEF Threads
  <2>2. /\ CurrentHoldsTheFold' /\ FreshIsAccepted' /\ EventsInHand'
    BY <1>6, <2>1, ThreadNames
    DEF TrayRead, TypeOK, store, CurrentHoldsTheFold, FreshIsAccepted, EventsInHand
  <2>3. QED
    BY <1>2, <1>6, <2>2 DEF TrayRead
<1>7. CASE Applier
  <2>1. MailboxKeepsTheLast' /\ StopIsOrderly' /\ ReleasedStaysReleased'
    <3>1. CASE Take
      BY <3>1, NothingIsNoFold
      DEF Take, history, MailboxKeepsTheLast, StopIsOrderly, ReleasedStaysReleased, ApplierIdle
    <3>2. CASE Apply
      BY <3>2 DEF Apply, history, MailboxKeepsTheLast, StopIsOrderly, ReleasedStaysReleased, ApplierIdle
    <3>3. CASE ApplierEnd
      BY <3>3 DEF ApplierEnd, history, MailboxKeepsTheLast, StopIsOrderly, ReleasedStaysReleased, ApplierIdle
    <3>4. QED
      BY <1>7, <3>1, <3>2, <3>3 DEF Applier
  <2>2. QED
    BY <1>3, <1>7, <2>1 DEF Applier, Take, Apply, ApplierEnd, store, history
<1>8. CASE Stop
  <2>1. MailboxKeepsTheLast' /\ StopIsOrderly' /\ ReleasedStaysReleased'
    <3>1. CASE StopIngress \/ StopLoops
      <4>1. /\ phase \in {"serving", "ingress closed"}
            /\ phase' \in {"ingress closed", "loops stopped"}
            /\ UNCHANGED <<slot, applier, applying, stopping, applied, joined, accepted>>
        BY <3>1 DEF StopIngress, StopLoops, history, mailbox
      <4>2. QED
        BY <4>1 DEF MailboxKeepsTheLast, StopIsOrderly, ReleasedStaysReleased, ApplierIdle
    <3>2. CASE StopApplier
      BY <3>2 DEF StopApplier, history,
                  MailboxKeepsTheLast, StopIsOrderly, ReleasedStaysReleased, ApplierIdle
    <3>3. CASE Join \/ JoinTimeout
      BY <3>3 DEF Join, JoinTimeout, history, mailbox,
                  MailboxKeepsTheLast, StopIsOrderly, ReleasedStaysReleased, ApplierIdle
    <3>4. CASE ShutDown
      BY <3>4 DEF ShutDown, history,
                  MailboxKeepsTheLast, StopIsOrderly, ReleasedStaysReleased, ApplierIdle
    <3>5. QED
      BY <1>8, <3>1, <3>2, <3>3, <3>4 DEF Stop
  <2>2. QED
    BY <1>3, <1>8, <2>1
    DEF Stop, StopIngress, StopLoops, StopApplier, Join, JoinTimeout, ShutDown, store, history
<1>9. CASE Tick
  <2>1. Effective(sessions') = Effective(sessions)
    <3>1. \A k \in DOMAIN sessions : sessions[k] \in Session
      BY DEF TypeOK
    <3>2. /\ DOMAIN sessions' = DOMAIN sessions
          /\ \A k \in DOMAIN sessions : sessions'[k].status = sessions[k].status
      BY <1>9, <3>1 DEF Tick, Session
    <3>3. QED
      BY <3>2, SameStatusesSameFold
  <2>2. CurrentHoldsTheFold' /\ FreshIsAccepted' /\ EventsInHand'
    BY <1>9, <2>1
    DEF Tick, threads, history, CurrentHoldsTheFold, FreshIsAccepted, EventsInHand
  <2>3. QED
    BY <1>2, <1>9, <2>2 DEF Tick, history
<1>10. QED
  BY <1>4, <1>5, <1>6, <1>7, <1>8, <1>9

\* Every step of every thread keeps the invariant.
LEMMA NextInv == Inv /\ [Next]_vars => Inv'
<1> SUFFICES ASSUME Inv, [Next]_vars PROVE Inv'
  OBVIOUS
<1>1. ASSUME NEW w \in Workers, Handle(w) PROVE Inv'
  <2>1. w \in Threads /\ Resume(w, due) = "ready"
    BY ThreadNames DEF Resume
  <2>2. \A v \in Workers : event'[v] = event[v] \/ v = w
    BY <1>1 DEF Handle, Inv, TypeOK
  <2>3. HandOver'
    BY <1>1, <2>1, <2>2, CallStoreHandOver DEF Handle
  <2>4. QED
    BY <1>1, <2>3, HandleTypeOK DEF Inv
<1>2. ASSUME NEW k \in Keys, StallFire(k) PROVE Inv'
  <2>1. "stall" \in Threads /\ "stall" \notin Workers
    BY ThreadAssumption DEF Threads
  <2>2. HandOver'
    BY <1>2, <2>1, CallStoreHandOver DEF StallFire
  <2>3. QED
    BY <1>2, <2>2, StallFireTypeOK DEF Inv
<1>3. CASE WatchdogRetire
  <2>1. "watchdog" \in Threads /\ "watchdog" \notin Workers /\ Resume("watchdog", due) = "ready"
    BY ThreadAssumption DEF Threads, Resume
  <2>2. HandOver'
    BY <1>3, <2>1, CallStoreHandOver DEF WatchdogRetire
  <2>3. QED
    BY <1>3, <2>2, WatchdogRetireTypeOK DEF Inv
<1>4. ASSUME NEW t \in Threads, Request(t) PROVE Inv'
  <2>1. TypeOK'
    BY <1>4, OtherTypeOK DEF Threads, Tray
  <2>2. QED
    BY <1>4, <2>1, RequestHandOver DEF Inv
<1>5. CASE Tick
  BY <1>5, TickTypeOK, OtherHandOver DEF Inv
<1>6. CASE \/ \E w \in Workers : Accept(w) \/ Receiving(w) \/ Arm(w)
           \/ StallTick \/ WatchdogScan \/ TrayRead \/ Applier \/ Stop
  BY <1>6, OtherTypeOK, OtherHandOver DEF Inv, Receiving, Tray
<1>7. CASE UNCHANGED vars
  <2>1. TypeOK'
    BY <1>7 DEF vars, store, threads, mailbox, history, Inv, TypeOK
  <2>2. HandOver'
    BY <1>7 DEF vars, store, threads, mailbox, history, Inv, HandOver, EventsInHand,
                CurrentHoldsTheFold, FreshIsAccepted, MailboxKeepsTheLast, StopIsOrderly,
                ReleasedStaysReleased, ApplierIdle
  <2>3. QED
    BY <2>1, <2>2 DEF Inv
<1>8. QED
  BY <1>1, <1>2, <1>3, <1>4, <1>5, <1>6, <1>7
  DEF Next, Worker, Stall, Watchdog, Tray, Threads

LEMMA InvHolds == Spec => []Inv
BY InitInv, NextInv, PTL DEF Spec

\* The broker's variables keep their types, whatever the threads do.
THEOREM TypesHold == Spec => []TypeOK
BY InvHolds, PTL DEF Inv

\* With any number of threads, the lights of an idle applier are the store's effective
\* status unless a hand-over was overtaken (_StatusApplier and handle_event).
THEOREM FreshHandOversAreShown == Spec => []FreshLightsAreRight
<1>1. Inv => FreshLightsAreRight
  BY DEF Inv, HandOver, FreshIsAccepted, MailboxKeepsTheLast, FreshLightsAreRight
<1>2. QED
  BY <1>1, InvHolds, PTL

--------------------------------------------------------------------------------
(* What may turn a session red *)

\* A worker that may still arm a timer, or make a session wait, has the reason in its hand.
ReasonInHand ==
    \A w \in Workers :
        /\ pc[w] = "arm" => event[w].key \in mayBeRed
        /\ pc[w] = "mutate" /\ event[w].kind = "confirm" => event[w].key \in mayBeRed

\* A timer runs, and a promotion is pending, only for a session that may be red.
TimedMayBeRed == DOMAIN armed \cup due \subseteq mayBeRed

RedInv == ReasonInHand /\ TimedMayBeRed /\ NoRedWithoutAConfirm

\* The red sessions of a map.
RedIn(ss) == {k \in DOMAIN ss : ss[k].status = "confirm"}

\* An event turns no session red but its own, and that one only if it is a confirm.
LEMMA HandledReds ==
    ASSUME NEW ss, MapOK(ss), NEW k \in Keys, NEW e \in EventsOf(k)
    PROVE  RedIn(Handled(ss, e)) \subseteq RedIn(ss) \cup (IF e.kind = "confirm" THEN {e.key} ELSE {})
<1> SUFFICES ASSUME NEW j \in RedIn(Handled(ss, e)), j \notin RedIn(ss)
             PROVE  e.kind = "confirm" /\ j = e.key
  OBVIOUS
<1>1. e.key = k
  BY EventFields
<1>2. j = k
  BY HandledOthers DEF RedIn
<1>3. e.kind = "confirm"
  <2>1. k \in DOMAIN Handled(ss, e) /\ Handled(ss, e)[k].status = "confirm"
    BY <1>2 DEF RedIn
  <2>2. k \in DOMAIN ss => ss[k].status # "confirm"
    BY <1>2 DEF RedIn
  <2>3. QED
    BY <2>1, <2>2, HandledOwn DEF Fresh, MapOK, Session
<1>4. QED
  BY <1>1, <1>2, <1>3

\* A step that only takes timers, pending promotions and red sessions away keeps RedInv, if
\* it leaves the workers' reasons alone.
LEMMA CalmStep ==
    ASSUME RedInv, mayBeRed \subseteq mayBeRed', RedIn(sessions') \subseteq RedIn(sessions),
           DOMAIN armed' \cup due' \subseteq DOMAIN armed \cup due,
           \A w \in Workers : /\ pc'[w] \in {"arm", "mutate"} => pc'[w] = pc[w]
                              /\ pc'[w] \in {"arm", "mutate"} => event'[w] = event[w]
    PROVE  RedInv'
BY DEF RedInv, ReasonInHand, TimedMayBeRed, NoRedWithoutAConfirm, RedIn

\* A call of a mutator by one thread, as the reds see it.
LEMMA CallStorePlaces ==
    ASSUME TypeOK, NEW t \in Threads, NEW after, NEW rest, CallStore(t, after, rest),
           t = "stall" \/ Resume(t, rest) = "ready"
    PROVE  /\ sessions' = after /\ mayBeRed' = mayBeRed
           /\ \A u \in Threads \ {t} : pc'[u] = pc[u]
           /\ t # "stall" => pc'[t] \in {"ready", "request"}
BY DEF CallStore, TypeOK

\* Every step keeps the reasons.
LEMMA NextRed == TypeOK /\ EventsInHand /\ RedInv /\ [Next]_vars => RedInv'
<1> SUFFICES ASSUME TypeOK, EventsInHand, RedInv, [Next]_vars PROVE RedInv'
  OBVIOUS
<1>1. MapOK(sessions)
  BY DEF TypeOK, MapOK
<1>2. ASSUME NEW w \in Workers, Handle(w) PROVE RedInv'
  <2>1. PICK k \in Keys : event[w] \in EventsOf(k)
    BY <1>2 DEF Handle, EventsInHand
  <2>2. w \in Threads /\ w # "stall" /\ Resume(w, due) = "ready"
    BY ThreadNames DEF Resume
  <2>3. /\ sessions' = Handled(sessions, event[w]) /\ mayBeRed' = mayBeRed
        /\ \A u \in Threads \ {w} : pc'[u] = pc[u]
        /\ pc'[w] \in {"ready", "request"}
    BY <1>2, <2>2, CallStorePlaces DEF Handle
  <2>4. RedIn(sessions') \subseteq RedIn(sessions) \cup
            (IF event[w].kind = "confirm" THEN {event[w].key} ELSE {})
    BY <1>1, <2>1, <2>3, HandledReds
  <2>5. event[w].kind = "confirm" => event[w].key \in mayBeRed
    BY <1>2 DEF Handle, RedInv, ReasonInHand
  <2>6. NoRedWithoutAConfirm'
    BY <2>3, <2>4, <2>5 DEF RedInv, NoRedWithoutAConfirm, RedIn
  <2>7. ReasonInHand' /\ TimedMayBeRed'
    BY <1>2, <2>3, ThreadNames DEF Handle, RedInv, ReasonInHand, TimedMayBeRed, TypeOK
  <2>8. QED
    BY <2>6, <2>7 DEF RedInv
<1>3. ASSUME NEW k \in Keys, StallFire(k) PROVE RedInv'
  <2> DEFINE after == SetStatus(sessions, k, "confirm", Keep, NoRequest, Main)
  <2>1. RedIn(after) \subseteq RedIn(sessions) \cup {k}
    BY DEF RedIn, SetStatus, Put
  <2>2. "stall" \in Threads /\ \A w \in Workers : w \in Threads \ {"stall"}
    BY ThreadNames DEF Threads
  <2>3. CallStore("stall", after, due \ {k}) /\ k \in due
    BY <1>3 DEF StallFire
  <2> HIDE DEF after
  <2>4. sessions' = after /\ mayBeRed' = mayBeRed /\ \A u \in Threads \ {"stall"} : pc'[u] = pc[u]
    BY <2>2, <2>3, CallStorePlaces
  <2>5. NoRedWithoutAConfirm'
    BY <2>1, <2>3, <2>4 DEF RedInv, NoRedWithoutAConfirm, TimedMayBeRed, RedIn
  <2>6. ReasonInHand' /\ TimedMayBeRed'
    BY <1>3, <2>2, <2>4 DEF StallFire, RedInv, ReasonInHand, TimedMayBeRed
  <2>7. QED
    BY <2>5, <2>6 DEF RedInv
<1>4. CASE WatchdogRetire
  <2>1. "watchdog" \in Threads /\ Resume("watchdog", due) = "ready"
        /\ \A w \in Workers : w \in Threads \ {"watchdog"}
    BY ThreadNames DEF Threads, Resume
  <2>2. RedIn(EndMany(sessions, stale)) \subseteq RedIn(sessions)
    BY DEF RedIn, EndMany
  <2>3. /\ sessions' = EndMany(sessions, stale) /\ mayBeRed' = mayBeRed
        /\ \A w \in Workers : pc'[w] = pc[w]
    BY <1>4, <2>1, CallStorePlaces DEF WatchdogRetire
  <2>4. QED
    BY <1>4, <2>2, <2>3, CalmStep DEF WatchdogRetire
<1>5. ASSUME NEW w \in Workers, Arm(w) PROVE RedInv'
  <2>1. event[w].key \in mayBeRed /\ sessions' = sessions /\ mayBeRed' = mayBeRed
    BY <1>5 DEF Arm, RedInv, ReasonInHand, history
  <2>2. NoRedWithoutAConfirm' /\ TimedMayBeRed'
    BY <1>5, <2>1 DEF Arm, RedInv, NoRedWithoutAConfirm, TimedMayBeRed
  <2>3. ReasonInHand'
    BY <1>5, <2>1, ThreadNames DEF Arm, RedInv, ReasonInHand, TypeOK
  <2>4. QED
    BY <2>2, <2>3 DEF RedInv
<1>6. ASSUME NEW w \in Workers, NEW k \in Keys, NEW e \in EventsOf(k), Receive(w, e)
      PROVE  RedInv'
  <2>1. /\ sessions' = sessions /\ mayBeRed \subseteq mayBeRed'
        /\ pc' = [pc EXCEPT ![w] = NextStep(e)] /\ event' = [event EXCEPT ![w] = e]
        /\ Asks(e) => e.key \in mayBeRed'
    BY <1>6 DEF Receive
  <2>2. (NextStep(e) = "arm" => Asks(e)) /\ (e.kind = "confirm" => Asks(e))
    BY DEF NextStep, Asks
  <2>3. ReasonInHand'
    BY <2>1, <2>2, ThreadNames DEF RedInv, ReasonInHand, TypeOK
  <2>4. NoRedWithoutAConfirm' /\ TimedMayBeRed'
    BY <1>6, <2>1 DEF Receive, Disarm, RedInv, NoRedWithoutAConfirm, TimedMayBeRed
  <2>5. QED
    BY <2>3, <2>4 DEF RedInv
<1>7. ASSUME NEW t \in Threads, Request(t) PROVE RedInv'
  <2>1. UNCHANGED <<store, event, mayBeRed>> /\ pc' = [pc EXCEPT ![t] = Resume(t, due)]
    BY <1>7 DEF Request
  <2>2. \A w \in Workers : pc'[w] = pc[w] \/ pc'[w] = "ready"
    BY <2>1, ThreadNames DEF TypeOK, Resume
  <2>3. QED
    BY <2>1, <2>2, CalmStep DEF store
<1>8. ASSUME NEW w \in Workers, Accept(w) \/ Ignore(w) PROVE RedInv'
  <2>1. /\ UNCHANGED <<store, event, mayBeRed>>
        /\ \A v \in Workers : pc'[v] = pc[v] \/ pc'[v] \in {"accepted", "ready"}
    BY <1>8, ThreadNames DEF Accept, Ignore, TypeOK, history
  <2>2. QED
    BY <2>1, CalmStep DEF store
<1>9. CASE StallTick \/ WatchdogScan \/ TrayRead
  <2>1. /\ UNCHANGED <<sessions, event, mayBeRed>>
        /\ DOMAIN armed' \cup due' \subseteq DOMAIN armed \cup due
    BY <1>9 DEF StallTick, Elapsed, Disarm, WatchdogScan, TrayRead, history, store
  <2>2. \A w \in Workers : pc'[w] = pc[w]
    BY <1>9, ThreadNames DEF StallTick, WatchdogScan, TrayRead, TypeOK
  <2>3. QED
    BY <2>1, <2>2, CalmStep
<1>10. CASE Applier \/ Stop \/ UNCHANGED vars
  <2>1. UNCHANGED <<sessions, armed, due, pc, event, mayBeRed>>
    BY <1>10 DEF Applier, Take, Apply, ApplierEnd, Stop, StopIngress, StopLoops, StopApplier,
                 Join, JoinTimeout, ShutDown, vars, store, threads, history
  <2>2. QED
    BY <2>1, CalmStep
<1>11. CASE Tick
  <2>1. RedIn(sessions') \subseteq RedIn(sessions)
    <3>1. \A k \in DOMAIN sessions : sessions[k] \in Session
      BY DEF TypeOK
    <3>2. QED
      BY <1>11, <3>1 DEF Tick, RedIn, Session
  <2>2. DOMAIN armed' = DOMAIN armed /\ UNCHANGED <<due, pc, event, mayBeRed>>
    BY <1>11 DEF Tick, threads, history
  <2>3. QED
    BY <2>1, <2>2, CalmStep
<1>12. QED
  BY <1>2, <1>3, <1>4, <1>5, <1>6, <1>7, <1>8, <1>9, <1>10, <1>11
  DEF Next, Worker, Receiving, Stall, Watchdog, Tray, Threads

\* A session is red only for a reason: a confirm of its own, or a tool-start of a stall
\* agent (_stall_seconds_for, StallDetector.tick and _on_stall).
THEOREM RedHasAReason == Spec => []NoRedWithoutAConfirm
<1>1. Init => RedInv
  BY ThreadNames DEF Init, RedInv, ReasonInHand, TimedMayBeRed, NoRedWithoutAConfirm
<1>2. Inv /\ RedInv /\ [Next]_vars => RedInv'
  BY NextRed DEF Inv, HandOver
<1>3. RedInv => NoRedWithoutAConfirm
  BY DEF RedInv
<1>4. QED
  BY <1>1, <1>2, <1>3, InvHolds, PTL DEF Spec

\* No event still in flight re-opens the engine after an orderly stop (StatusServer.stop).
THEOREM StopReleasesTheLights == Spec => []ReleasedStaysReleased
BY InvHolds, PTL DEF Inv, HandOver

--------------------------------------------------------------------------------
(* The broker implements Lights.tla, for any number of workers, sessions, inputs    *)
(* and ticks: every step of StatusBroker is a step of Lights or changes nothing of  *)
(* it, under Inv.                                                                   *)

\* The mapping, part by part.
Carried  == [t \in Threads |-> IF pc[t] = "request" THEN held[t] ELSE Nothing]
Shown    == IF applier = "applying" THEN applying ELSE applied
GateThen == IF phase = "released" THEN IF joined THEN "released" ELSE "abandoned"
            ELSE IF stopping THEN "closing" ELSE "open"
Mapped   == <<Effective(sessions), Carried, accepted, Shown, GateThen>>

\* What Lights.tla calls its state is Mapped, and this is what its actions say of it.
LEMMA Unmapped == UNCHANGED Mapped => UNCHANGED Promise!lightVars
BY DEF Mapped, Carried, Shown, GateThen, Promise!lightVars

LEMMA InitMaps == Init => Promise!Init
<1> SUFFICES ASSUME Init PROVE Promise!Init
  OBVIOUS
<1>1. Effective(sessions) = "none"
  BY DEF Init, Effective
<1>2. QED
  BY <1>1 DEF Init, Promise!Init

\* A step that leaves pc, held and the fold alone leaves everybody's hands alone; so does
\* one that moves a thread between places where it has nothing to hand over.
LEMMA HandsKept ==
    ASSUME TypeOK, NEW t \in Threads, pc[t] # "request", pc'[t] # "request",
           \A u \in Threads \ {t} : pc'[u] = pc[u], UNCHANGED held
    PROVE  UNCHANGED Carried
BY DEF Carried

\* A mutator: a fold that does not change is nobody's, a changed one is the caller's.
LEMMA CallStoreMaps ==
    ASSUME Inv, NEW t \in Threads, NEW after, NEW rest, CallStore(t, after, rest), pc[t] = "mutate"
    PROVE  Promise!Next \/ UNCHANGED Promise!lightVars
<1>1. UNCHANGED <<accepted, Shown, GateThen>> /\ sessions' = after
  BY DEF CallStore, mailbox, Shown, GateThen
<1>2. CASE Returned(sessions, after) = NoChange
  <2>1. Effective(sessions') = Effective(sessions)
    BY <1>2, EffectiveInFolds, NoChangeIsNoFold DEF CallStore, Returned
  <2>2. pc' = [pc EXCEPT ![t] = Resume(t, rest)] /\ UNCHANGED held
    BY <1>2 DEF CallStore
  <2>3. pc'[t] # "request" /\ \A u \in Threads \ {t} : pc'[u] = pc[u]
    BY <2>2 DEF Inv, TypeOK, Resume
  <2>4. UNCHANGED Carried
    BY <2>2, <2>3, HandsKept DEF Inv
  <2>5. QED
    BY <1>1, <2>1, <2>4, Unmapped DEF Mapped
<1>3. CASE Returned(sessions, after) # NoChange
  <2>1. /\ Effective(sessions') \in Folds \ {Effective(sessions)}
        /\ Returned(sessions, after) = Effective(sessions')
    BY <1>1, <1>3, EffectiveInFolds DEF Returned
  <2>2. /\ pc' = [pc EXCEPT ![t] = "request"]
        /\ held' = [held EXCEPT ![t] = Effective(sessions')]
    BY <1>3, <2>1 DEF CallStore
  <2>3. Carried[t] = Nothing /\ Carried' = [Carried EXCEPT ![t] = Effective(sessions')]
    BY <2>2 DEF Inv, TypeOK, Carried
  <2>4. Promise!Change(t)
    BY <1>1, <2>1, <2>3 DEF Promise!Change, Carried, Shown, GateThen
  <2>5. QED
    BY <2>4 DEF Promise!Next
<1>4. QED
  BY <1>2, <1>3

\* The applier's request, or what stop() makes of it.
LEMMA RequestMaps == ASSUME Inv, NEW t \in Threads, Request(t) PROVE Promise!HandOver(t)
<1>1. /\ pc[t] = "request" /\ pc' = [pc EXCEPT ![t] = Resume(t, due)]
      /\ held' = [held EXCEPT ![t] = "none"]
      /\ UNCHANGED <<sessions, applying, stopping, applied, phase, joined>>
  BY DEF Request, store
<1>2. pc'[t] # "request"
  BY <1>1 DEF Inv, TypeOK, Resume
<1>3. Carried[t] = held[t] /\ held[t] # Nothing /\ Carried' = [Carried EXCEPT ![t] = Nothing]
  BY <1>1, <1>2, NothingIsNoFold DEF Inv, TypeOK, Carried
<1>4. accepted' = (IF GateThen = "open" THEN held[t] ELSE accepted)
  BY DEF Request, Offer, GateThen, Inv, HandOver, StopIsOrderly
<1>5. UNCHANGED Shown
  BY <1>1 DEF Request, Offer, Shown
<1>6. QED
  BY <1>1, <1>3, <1>4, <1>5 DEF Promise!HandOver, Carried, Shown, GateThen

\* A status is shown when it is taken from the slot.
LEMMA ApplierMaps == ASSUME Inv, Applier PROVE Promise!Next \/ UNCHANGED Promise!lightVars
<1>1. UNCHANGED <<Effective(sessions), Carried, accepted, GateThen>>
  BY DEF Applier, Take, Apply, ApplierEnd, store, threads, history, Carried, GateThen
<1>2. CASE Take
  <2>1. Shown' = accepted /\ GateThen # "released"
    BY <1>2 DEF Take, Shown, GateThen, Inv, HandOver, MailboxKeepsTheLast, StopIsOrderly
  <2>2. Promise!Show
    BY <1>1, <2>1 DEF Promise!Show, Carried, Shown, GateThen
  <2>3. QED
    BY <2>2 DEF Promise!Next
<1>3. CASE Apply \/ ApplierEnd
  <2>1. UNCHANGED Shown
    BY <1>3 DEF Apply, ApplierEnd, Shown
  <2>2. QED
    BY <1>1, <2>1, Unmapped DEF Mapped
<1>4. QED
  BY <1>2, <1>3 DEF Applier

\* stop(): the gate closes, and the lights are given back, in order or without waiting.
LEMMA StopMaps == ASSUME Inv, Stop PROVE Promise!Next \/ UNCHANGED Promise!lightVars
<1>1. UNCHANGED <<Effective(sessions), Carried, accepted>>
  BY DEF Stop, StopIngress, StopLoops, StopApplier, Join, JoinTimeout, ShutDown,
         store, threads, history, Carried
<1>2. CASE StopIngress \/ StopLoops \/ Join \/ JoinTimeout
  <2>1. /\ phase # "released" /\ phase' # "released"
        /\ UNCHANGED <<applier, applying, applied, stopping>>
    BY <1>2 DEF StopIngress, StopLoops, Join, JoinTimeout, mailbox
  <2>2. UNCHANGED Shown /\ UNCHANGED GateThen
    BY <2>1 DEF Shown, GateThen
  <2>3. QED
    BY <1>1, <2>2, Unmapped DEF Mapped
<1>3. CASE StopApplier
  <2>1. ~stopping => GateThen = "open" /\ GateThen' = "closing"
    BY <1>3 DEF StopApplier, GateThen
  <2>2. stopping => UNCHANGED GateThen
    BY <1>3 DEF StopApplier, GateThen
  <2>3. UNCHANGED Shown
    BY <1>3 DEF StopApplier, Shown
  <2>4. CASE stopping
    BY <1>1, <2>2, <2>3, <2>4, Unmapped DEF Mapped
  <2>5. CASE ~stopping
    <3>1. Promise!Close
      BY <1>1, <2>1, <2>3, <2>5 DEF Promise!Close, Carried, Shown, GateThen
    <3>2. QED
      BY <3>1 DEF Promise!Next
  <2>6. QED
    BY <2>4, <2>5
<1>4. CASE ShutDown
  <2>1. GateThen = "closing"
    BY <1>4 DEF ShutDown, GateThen, Inv, HandOver, StopIsOrderly
  <2>2. CASE joined
    <3>1. GateThen' = "released" /\ Shown = accepted /\ Shown' = "none"
      BY <1>4, <2>2 DEF ShutDown, GateThen, Shown, Inv, HandOver, StopIsOrderly,
                        MailboxKeepsTheLast, ApplierIdle
    <3>2. Promise!Release
      BY <1>1, <2>1, <3>1 DEF Promise!Release, Carried, Shown, GateThen
    <3>3. QED
      BY <3>2 DEF Promise!Next
  <2>3. CASE ~joined
    <3>1. GateThen' = "abandoned" /\ Shown' \in {Shown, "none"}
      BY <1>4, <2>3 DEF ShutDown, GateThen, Shown
    <3>2. Promise!Abandon
      BY <1>1, <2>1, <3>1 DEF Promise!Abandon, Carried, Shown, GateThen
    <3>3. QED
      BY <3>2 DEF Promise!Next
  <2>4. QED
    BY <2>2, <2>3
<1>5. QED
  BY <1>2, <1>3, <1>4 DEF Stop

\* The tray reads the fold to show it again.
LEMMA TrayMaps == ASSUME Inv, TrayRead PROVE Promise!Next
<1>1. "tray" \in Threads
  BY DEF Threads
<1>2. Carried["tray"] = Nothing /\ Carried' = [Carried EXCEPT !["tray"] = Effective(sessions)]
  BY <1>1 DEF TrayRead, Inv, TypeOK, Carried
<1>3. UNCHANGED <<Effective(sessions), accepted, Shown, GateThen>>
  BY DEF TrayRead, store, mailbox, Shown, GateThen
<1>4. Promise!Read("tray")
  BY <1>2, <1>3 DEF Promise!Read, Carried, Shown, GateThen
<1>5. QED
  BY <1>1, <1>4 DEF Promise!Next

\* The steps that Lights.tla knows nothing of.
LEMMA OthersMap ==
    ASSUME Inv,
           \/ \E w \in Workers : \/ Accept(w) \/ Ignore(w) \/ Arm(w)
                                 \/ \E k \in Keys : \E e \in EventsOf(k) : Receive(w, e)
           \/ StallTick \/ WatchdogScan \/ Tick
    PROVE  UNCHANGED Promise!lightVars
<1>1. UNCHANGED <<mailbox, phase, joined, accepted, held>>
  BY DEF Accept, Ignore, Arm, Receive, StallTick, WatchdogScan, Tick, threads, history
<1>2. Effective(sessions') = Effective(sessions)
  <2>1. CASE Tick
    <3>1. \A k \in DOMAIN sessions : sessions[k] \in Session
      BY DEF Inv, TypeOK
    <3>2. /\ DOMAIN sessions' = DOMAIN sessions
          /\ \A k \in DOMAIN sessions : sessions'[k].status = sessions[k].status
      BY <2>1, <3>1 DEF Tick, Session
    <3>3. QED
      BY <3>2, SameStatusesSameFold
  <2>2. CASE ~Tick
    BY <2>2 DEF Accept, Ignore, Arm, Receive, StallTick, WatchdogScan, store
  <2>3. QED
    BY <2>1, <2>2
<1>3. UNCHANGED Carried
  <2>1. ASSUME NEW w \in Workers,
               \/ Accept(w) \/ Ignore(w) \/ Arm(w)
               \/ \E k \in Keys : \E e \in EventsOf(k) : Receive(w, e)
        PROVE  UNCHANGED Carried
    <3>1. w \in Threads
      BY ThreadNames
    <3>2. /\ pc[w] # "request" /\ pc'[w] # "request"
          /\ \A u \in Threads \ {w} : pc'[u] = pc[u]
      BY <2>1, <3>1 DEF Accept, Ignore, Arm, Receive, NextStep, Inv, TypeOK
    <3>3. QED
      BY <1>1, <3>1, <3>2, HandsKept DEF Inv
  <2>2. CASE StallTick \/ WatchdogScan
    <3>1. PICK t \in {"stall", "watchdog"} : pc[t] = "ready" /\ pc' = [pc EXCEPT ![t] = "mutate"]
      BY <2>2 DEF StallTick, WatchdogScan
    <3>2. t \in Threads
      BY DEF Threads
    <3>3. pc'[t] # "request" /\ \A u \in Threads \ {t} : pc'[u] = pc[u]
      BY <3>1, <3>2 DEF Inv, TypeOK
    <3>4. QED
      BY <1>1, <3>1, <3>2, <3>3, HandsKept DEF Inv
  <2>3. CASE Tick
    BY <2>3 DEF Tick, threads, Carried
  <2>4. QED
    BY <2>1, <2>2, <2>3
<1>4. QED
  BY <1>1, <1>2, <1>3, Unmapped DEF mailbox, Mapped, Shown, GateThen

\* Every step is one of Lights.tla, or a stutter there.
LEMMA StepMaps == Inv /\ [Next]_vars => [Promise!Next]_(Promise!lightVars)
<1> SUFFICES ASSUME Inv, [Next]_vars PROVE Promise!Next \/ UNCHANGED Promise!lightVars
  OBVIOUS
<1>1. ASSUME NEW w \in Workers, Handle(w) PROVE Promise!Next \/ UNCHANGED Promise!lightVars
  BY <1>1, ThreadNames, CallStoreMaps DEF Handle
<1>2. ASSUME NEW k \in Keys, StallFire(k) PROVE Promise!Next \/ UNCHANGED Promise!lightVars
  BY <1>2, CallStoreMaps DEF StallFire, Threads
<1>3. CASE WatchdogRetire
  BY <1>3, CallStoreMaps DEF WatchdogRetire, Threads
<1>4. ASSUME NEW t \in Threads, Request(t) PROVE Promise!Next
  BY <1>4, RequestMaps DEF Promise!Next
<1>5. CASE Applier \/ Stop \/ TrayRead
  BY <1>5, ApplierMaps, StopMaps, TrayMaps
<1>6. CASE \/ \E w \in Workers : Accept(w) \/ Receiving(w) \/ Arm(w)
           \/ StallTick \/ WatchdogScan \/ Tick
  BY <1>6, OthersMap DEF Receiving
<1>7. CASE UNCHANGED vars
  <2>1. UNCHANGED Mapped
    BY <1>7 DEF vars, store, threads, mailbox, history, Mapped, Carried, Shown, GateThen
  <2>2. QED
    BY <2>1, Unmapped
<1>8. QED
  BY <1>1, <1>2, <1>3, <1>4, <1>5, <1>6, <1>7
  DEF Next, Worker, Stall, Watchdog, Tray, Threads

\* The broker keeps the promise of Lights.tla: no change of the fold is lost on its way, no
\* superseded status follows its successor, and stop() ends it in order.
THEOREM BrokerImplementsLights == Spec => FollowsLights
BY InitMaps, StepMaps, InvHolds, PTL DEF Spec, FollowsLights, Promise!Spec
================================================================================
