----------------------------- MODULE EnginesProofs -----------------------------
(* The engines behind make_engine, for any devices, colours, orders, machines and *)
(* limits, and any number of calls.                                               *)
(*                                                                                *)
(* G HUB in process: as long as every wait is answered and nothing raises, one    *)
(* thread holds the SDK exactly while a session is open, and the lights show what *)
(* was painted last.  Through a worker: no reply is ever taken for another        *)
(* request's, parent and worker agree on the session, and one process at most     *)
(* holds the SDK, whatever times out, crashes or prints stray lines.  The user's  *)
(* lighting comes back from OpenRGB and nothing without a Direct mode is painted; *)
(* SteelSeries' lights follow the session; the wizard and the doctor tell what a  *)
(* tray would find.  The parts' invariants make one of Engines: whichever engine  *)
(* make_engine picked, the steps it drives leave the others' state be.            *)
EXTENDS Engines, SequenceTheorems, FiniteSetTheorems, WellFoundedInduction, TLAPS

\* An instance of a module has a Cardinality of its own, which is the same.
LEMMA CardinalityIs == ASSUME NEW S PROVE Sidecar!Cardinality(S) = Cardinality(S)
BY DEF Sidecar!Cardinality, Cardinality

--------------------------------------------------------------------------------
(* Numbers                                                                        *)

\* A set of numbers has a least element: what the numbers' being well founded says.
LEMMA LeastExists ==
    ASSUME NEW T \in SUBSET Nat, T # {}
    PROVE  \E i \in T : \A j \in T : i <= j
<1> DEFINE Less == {p \in Nat \X Nat : p[1] < p[2]}
<1>1. IsWellFoundedOn(Less, Nat)
  BY NatLessThanWellFounded DEF OpToRel
<1>2. PICK i \in T : \A j \in T : <<j, i>> \notin Less
  <2> HIDE DEF Less
  <2> QED
  BY <1>1, WFMin
<1>3. ASSUME NEW j \in T PROVE i <= j
  <2>1. i \in Nat /\ j \in Nat /\ <<j, i>> \notin Less
    BY <1>2
  <2>2. ~(j < i)
    BY <2>1
  <2>3. QED
    BY <2>1, <2>2
<1>4. QED
  BY <1>3
\* The n-th element of a set of indices.
LEMMA Nth ==
    ASSUME NEW m \in Nat, NEW K \in SUBSET (1 .. m), NEW n \in 1 .. Cardinality(K)
    PROVE  \E i \in K : Cardinality(K \cap 1 .. i) = n
<1> DEFINE T == {i \in Nat : Cardinality(K \cap 1 .. i) >= n}
<1>1. IsFiniteSet(K) /\ Cardinality(K) \in Nat
  <2>1. IsFiniteSet(1 .. m)
    BY FS_Interval
  <2>2. IsFiniteSet(K)
    BY <2>1, FS_Subset
  <2>3. QED
    BY <2>2, FS_CardinalityType
<1>2. \A i \in Nat : IsFiniteSet(K \cap 1 .. i) /\ Cardinality(K \cap 1 .. i) \in Nat
  BY <1>1, FS_Intersection, FS_CardinalityType, FS_Subset
<1>3. m \in T
  <2>1. K \cap 1 .. m = K
    OBVIOUS
  <2>2. QED
    BY <1>1, <2>1
<1>4. PICK i \in T : \A j \in T : i <= j
  <2> HIDE DEF T
  <2>1. T \in SUBSET Nat /\ T # {}
    BY <1>3 DEF T
  <2>2. QED
    BY <2>1, LeastExists
<1>5. i # 0
  <2>1. K \cap 1 .. 0 = {}
    OBVIOUS
  <2>2. QED
    BY <1>2, <2>1, <1>4, FS_EmptySet
<1>6. i - 1 \in Nat /\ Cardinality(K \cap 1 .. (i - 1)) < n
  <2>1. i - 1 \in Nat /\ i - 1 \notin T
    BY <1>4, <1>5
  <2>2. QED
    BY <2>1, <1>2
<1>7. Cardinality(K \cap 1 .. i) >= n
  BY <1>4
<1>8. i \in K
  <2>1. SUFFICES ASSUME i \notin K PROVE FALSE
    OBVIOUS
  <2>2. K \cap 1 .. i = K \cap 1 .. (i - 1)
    BY <2>1, <1>6
  <2>3. QED
    BY <2>2, <1>2, <1>6, <1>7
<1>9. Cardinality(K \cap 1 .. i) = Cardinality(K \cap 1 .. (i - 1)) + 1
  <2>1. K \cap 1 .. i = (K \cap 1 .. (i - 1)) \cup {i} /\ i \notin K \cap 1 .. (i - 1)
    BY <1>6, <1>8
  <2>2. QED
    BY <2>1, <1>2, <1>6, FS_AddElement
<1>10. Cardinality(K) \in Nat /\ n \in Nat /\ Cardinality(K \cap 1 .. (i - 1)) \in Nat
  BY <1>1, <1>2, <1>6
<1>11. Cardinality(K \cap 1 .. i) = n
  BY <1>6, <1>7, <1>9, <1>10
<1>12. QED
  BY <1>8, <1>11

--------------------------------------------------------------------------------
(* The pump's queue as data                                                       *)

\* What is left of a queue is made of what was in it.
LEMMA WithoutKeeps ==
    ASSUME NEW S, NEW q \in Seq(S), NEW kinds PROVE GHub!Without(q, kinds) \in Seq(S)
<1> DEFINE kept == {i \in DOMAIN q : q[i].kind \notin kinds}
           nth(n) == CHOOSE i \in kept : Cardinality(kept \cap 1 .. i) = n
<1>1. kept \in SUBSET (1 .. Len(q)) /\ Len(q) \in Nat
  OBVIOUS
<1>2. Cardinality(kept) \in Nat
  <2> HIDE DEF kept
  <2>1. IsFiniteSet(1 .. Len(q))
    BY <1>1, FS_Interval
  <2>2. IsFiniteSet(kept)
    BY <1>1, <2>1, FS_Subset
  <2>3. QED
    BY <2>2, FS_CardinalityType
<1>3. ASSUME NEW n \in 1 .. Cardinality(kept) PROVE nth(n) \in kept
  <2> HIDE DEF kept
  <2>1. \E i \in kept : Cardinality(kept \cap 1 .. i) = n
    BY <1>1, Nth
  <2>2. QED
    BY <2>1
<1>4. ASSUME NEW n \in 1 .. Cardinality(kept) PROVE q[nth(n)] \in S
  <2> HIDE DEF nth
  <2>1. nth(n) \in 1 .. Len(q)
    BY <1>1, <1>3
  <2>2. QED
    BY <2>1
<1>5. [n \in 1 .. Cardinality(kept) |-> q[nth(n)]] \in Seq(S)
  <2> HIDE DEF nth, kept
  <2>1. QED
    BY <1>2, <1>4
<1>6. GHub!Without(q, kinds) = [n \in 1 .. Cardinality(kept) |-> q[nth(n)]]
  BY DEF GHub!Without, GHub!Cardinality, Cardinality
<1>7. QED
  <2> HIDE DEF nth, kept
  <2>1. QED
    BY <1>5, <1>6

LEMMA WithoutEmpty == ASSUME NEW kinds PROVE GHub!Without(<<>>, kinds) = <<>>
<1> DEFINE kept == {i \in DOMAIN <<>> : <<>>[i].kind \notin kinds}
           left == [n \in 1 .. Cardinality(kept) |->
                      <<>>[CHOOSE i \in kept : Cardinality(kept \cap 1 .. i) = n]]
<1>1. kept = {}
  OBVIOUS
<1>2. Cardinality(kept) = 0
  BY <1>1, FS_EmptySet
<1>3. left = <<>>
  <2> HIDE DEF kept
  <2>1. QED
    BY <1>2
<1>4. GHub!Without(<<>>, kinds) = left
  BY DEF GHub!Without, GHub!Cardinality, Cardinality
<1>5. QED
  <2> HIDE DEF left
  <2>1. QED
    BY <1>3, <1>4

LEMMA WithoutOne ==
    ASSUME NEW j, NEW kinds
    PROVE  GHub!Without(<<j>>, kinds) = IF j.kind \in kinds THEN <<>> ELSE <<j>>
<1> DEFINE kept == {i \in DOMAIN <<j>> : <<j>>[i].kind \notin kinds}
           nth(n) == CHOOSE i \in kept : Cardinality(kept \cap 1 .. i) = n
           left == [n \in 1 .. Cardinality(kept) |-> <<j>>[nth(n)]]
<1>1. GHub!Without(<<j>>, kinds) = left
  BY DEF GHub!Without, GHub!Cardinality, Cardinality
<1>2. CASE j.kind \in kinds
  <2>1. kept = {}
    BY <1>2
  <2>2. Cardinality(kept) = 0
    BY <2>1, FS_EmptySet
  <2>3. left = <<>>
    <3> HIDE DEF kept, nth
    <3>1. QED
      BY <2>2
  <2>4. QED
    <3> HIDE DEF left
    <3>1. QED
      BY <1>1, <1>2, <2>3
<1>3. CASE j.kind \notin kinds
  <2>1. kept = {1}
    BY <1>3
  <2>2. kept \cap 1 .. 1 = {1}
    BY <2>1
  <2>3. Cardinality(kept) = 1 /\ Cardinality(kept \cap 1 .. 1) = 1
    <3> HIDE DEF kept
    <3>1. QED
      BY <2>1, <2>2, FS_Singleton
  <2>4. nth(1) = 1
    <3> HIDE DEF kept
    <3>1. QED
      BY <2>1, <2>3
  <2>5. left = <<j>>
    <3> HIDE DEF kept, nth
    <3>1. QED
      BY <2>3, <2>4
  <2>6. QED
    <3> HIDE DEF left
    <3>1. QED
      BY <1>1, <1>3, <2>5
<1>4. QED
  BY <1>2, <1>3

--------------------------------------------------------------------------------
(* The pump: the inductive invariant                                              *)

\* What a job can be: the second half of a paint, which nobody waits for, a paint, or a
\* call without a colour.
Commits == [kind : {"commit"}, colour : Colours, nudged : {TRUE}, waited : {FALSE}]
Asks   == [kind : GHub!Waiting \ {"paint"}, colour : {GHub!Nothing}, nudged : {FALSE},
   waited : BOOLEAN]
Paints  == [kind : {"paint"}, colour : Colours, nudged : {FALSE}, waited : BOOLEAN]
Work    == Asks \cup Paints \cup Commits

Callers == [at : GHub!Waiting \cup {"idle", "drain", "join", "gone"},
            colour : Colours \cup {GHub!Nothing}, attempt : 0 .. InitAttempts, joins : Nat]

Engs == [saved : BOOLEAN, initialized : BOOLEAN, failures : 0 .. FailureLimit,
         note : BOOLEAN, cooldown : BOOLEAN]

CallerTypes ==
    /\ caller \in Callers
    /\ caller.at = "paint" => caller.colour \in Colours
    /\ caller.at # "paint" => caller.colour = GHub!Nothing
    /\ caller.at = "init" => caller.attempt \in 1 .. InitAttempts
    /\ reply \in GHub!Answers \cup {GHub!Nothing}

PumpTypes ==
    /\ queue \in Seq(Work)
    /\ running \in [DOMAIN running -> Work \cup {GHub!NoJob}]
    /\ DOMAIN running \subseteq Nat \ {0} /\ IsFiniteSet(DOMAIN running)
    /\ thread \in Nat /\ stopped \in BOOLEAN

SdkTypes ==
    /\ sdk \in [held : SUBSET Nat, sent : (Colours \cup {"own"}) \X BOOLEAN,
                shown : Colours \cup {"own"}]
    /\ IsFiniteSet(sdk.held)

EngTypes ==
    /\ eng \in Engs
    /\ clean \in BOOLEAN /\ lit \in Colours \cup {GHub!Nothing} /\ calls \in 0 .. MaxCalls

PumpTypeInv == CallerTypes /\ PumpTypes /\ SdkTypes /\ EngTypes

\* The pump at rest; with one job and no other; with a call queued behind a commit.
Quiet    == queue = <<>> /\ running[thread] = GHub!NoJob
Only(j)  == (queue = <<j>> /\ running[thread] = GHub!NoJob) \/ (queue = <<>>
  /\ running[thread] = j)
TheCall  == GHub!Job(caller.at, caller.colour, FALSE, TRUE)
Behind   == queue = <<TheCall>> /\ running[thread] \in Commits
  /\ caller.at \in {"paint", "exit"}

\* As long as no wait timed out and nothing raised, the pump's thread is the one thread
\* there is, and a thread that was stopped has nothing to do and is being joined.
Threads ==
    IF thread = 0
    THEN /\ queue = <<>>
         /\ DOMAIN running \subseteq (IF caller.at = "join" THEN {caller.joins} ELSE {})
         /\ \A t \in DOMAIN running : running[t] = GHub!NoJob
    ELSE ~stopped /\ DOMAIN running = {thread} /\ caller.at # "join"

\* Where the caller stands tells what the pump is at: the call waited for, and at rest
\* nothing, or the commit of the last paint.
Places ==
    /\ caller.at \in GHub!Waiting /\ reply = GHub!Nothing => Only(TheCall) \/ Behind
    /\ caller.at \in GHub!Waiting /\ reply # GHub!Nothing => Quiet
       /\ reply \in {"ok", "refused"}
    /\ caller.at \in {"idle", "drain"} /\ eng.initialized => Quiet
       \/ \E j \in Commits : Only(j)
    /\ caller.at = "idle" /\ ~eng.initialized /\ thread # 0 => Quiet
    /\ caller.at = "gone" => queue = <<>>

\* ... and how far the engine is between closed and open.
Phases ==
    /\ caller.at \in GHub!Waiting \cup {"drain"} => thread # 0
    /\ caller.at \in {"init", "join"} => ~eng.initialized
    /\ caller.at \in (GHub!Waiting \ {"init"}) \cup {"drain"} => eng.initialized
    /\ caller.at \in {"target", "save", "drain", "restore", "shutdown"} => ~eng.saved
    /\ caller.at \in {"idle", "paint", "init", "exit", "join"}
       => (eng.saved <=> eng.initialized)
    /\ caller.at = "idle" /\ eng.initialized => thread # 0
    /\ caller.at \notin GHub!Waiting \cup {"gone"} => reply = GHub!Nothing
    /\ caller.at = "join" => thread = 0 /\ stopped

\* The pump's thread holds the SDK from a good init to a good shutdown, and no other does.
Holding ==
    /\ caller.at # "gone"
    /\ IF caller.at = "init" THEN reply = "ok"
       ELSE eng.initialized /\ ~(caller.at \in {"shutdown", "exit"} /\ reply # GHub!Nothing)
SdkHeld == IF Holding THEN sdk.held = {thread} ELSE sdk = GHub!Released

\* The colour last painted is shown, or its commit is on its way right behind it.
LitShown ==
    /\ caller.at = "idle" /\ lit # GHub!Nothing =>
          /\ eng.saved
          /\ \/ Quiet /\ sdk.sent = <<lit, TRUE>> /\ sdk.shown = lit
             \/ Only(GHub!CommitOf(lit)) /\ sdk.sent = <<lit, FALSE>>
    /\ caller.at = "paint" /\ reply = "ok" => sdk.sent = <<caller.colour, FALSE>>
    /\ caller.at \in {"init", "target", "save", "drain", "restore", "shutdown", "join"}
          => lit = GHub!Nothing

CleanRun == Threads /\ Places /\ Phases /\ SdkHeld /\ LitShown
PumpInv == PumpTypeInv /\ (clean => CleanRun)

--------------------------------------------------------------------------------
(* The pump: types are kept, whatever times out or raises                        *)

\* A new thread's name is no other's: the sets it is chosen against are finite.
LEMMA FreshThread ==
    ASSUME PumpTypeInv
    PROVE  GHub!NewThread \in Nat \ {0} /\ GHub!NewThread \notin DOMAIN running \cup sdk.held
<1> DEFINE used == DOMAIN running \cup sdk.held
<1>1. IsFiniteSet(used) /\ Cardinality(used) \in Nat
  BY FS_Union, FS_CardinalityType DEF PumpTypeInv, PumpTypes, SdkTypes
<1>2. \E n \in 1 .. Cardinality(used) + 1 : n \notin used
  <2> HIDE DEF used
  <2>1. SUFFICES ASSUME 1 .. Cardinality(used) + 1 \subseteq used PROVE FALSE
    OBVIOUS
  <2>2. Cardinality(1 .. Cardinality(used) + 1) = Cardinality(used) + 1
    BY <1>1, FS_Interval
  <2>3. Cardinality(1 .. Cardinality(used) + 1) <= Cardinality(used)
    BY <1>1, <2>1, FS_Subset
  <2>4. QED
    BY <1>1, <2>2, <2>3
<1>3. GHub!NewThread \in 1 .. Cardinality(used) + 1 /\ GHub!NewThread \notin used
  <2>1. GHub!NewThread = CHOOSE n \in 1 .. Cardinality(used) + 1 : n \notin used
    BY DEF GHub!NewThread, GHub!Cardinality, Cardinality
  <2>2. QED
    <3> HIDE DEF used
    <3>1. QED
      BY <1>2, <2>1
<1>4. QED
  <2> HIDE DEF used
  <2>1. GHub!NewThread \in Nat \ {0}
    BY <1>1, <1>3
  <2>2. QED
    BY <1>3, <2>1 DEF used

LEMMA WorkIsJob == Work \subseteq GHub!Jobs /\ GHub!NoJob \in GHub!Jobs
  /\ GHub!NoJob \notin Work
BY DEF Work, Asks, Paints, Commits, GHub!Jobs, GHub!Waiting, GHub!NoJob, GHub!Nothing

LEMMA EnqueueTypes ==
    ASSUME PumpTypeInv, NEW q \in Seq(Work), NEW job \in Work, GHub!EnqueueOn(q, job)
    PROVE  PumpTypes'
<1>1. queue' \in Seq(Work)
  <2>1. GHub!Without(q, GHub!DroppedBy(job.kind)) \in Seq(Work)
    BY WithoutKeeps
  <2>2. QED
    BY <2>1 DEF GHub!EnqueueOn
<1>2. CASE thread = 0
  <2>1. GHub!NewThread \in Nat \ {0}
    BY FreshThread
  <2>2. IsFiniteSet(DOMAIN running \cup {GHub!NewThread})
    BY FS_AddElement DEF PumpTypeInv, PumpTypes
  <2>3. running' = [t \in DOMAIN running \cup {GHub!NewThread} |->
                      IF t \in DOMAIN running THEN running[t] ELSE GHub!NoJob]
    BY <1>2 DEF GHub!EnqueueOn
  <2>4. /\ DOMAIN running' = DOMAIN running \cup {GHub!NewThread}
        /\ running' \in [DOMAIN running' -> Work \cup {GHub!NoJob}]
    BY <2>3 DEF PumpTypeInv, PumpTypes
  <2>5. thread' = GHub!NewThread /\ stopped' = FALSE
    BY <1>2 DEF GHub!EnqueueOn
  <2>6. QED
    BY <1>1, <2>1, <2>2, <2>4, <2>5 DEF PumpTypeInv, PumpTypes
<1>3. CASE thread # 0
  BY <1>1, <1>3 DEF GHub!EnqueueOn, PumpTypeInv, PumpTypes
<1>4. QED
  BY <1>2, <1>3

LEMMA CallTypes ==
    ASSUME PumpTypeInv, NEW q \in Seq(Work), NEW kind \in GHub!Waiting, NEW c \in Callers,
           IF kind = "paint" THEN c.colour \in Colours ELSE c.colour = GHub!Nothing,
           kind = "init" => c.attempt \in 1 .. InitAttempts,
           GHub!CallOn(q, kind, c)
    PROVE  PumpTypes' /\ CallerTypes'
<1>1. GHub!Job(kind, c.colour, FALSE, TRUE) \in Work
  BY DEF GHub!Job, Work, Asks, Paints
<1>2. PumpTypes'
  BY <1>1, EnqueueTypes DEF GHub!CallOn
<1>3. QED
  BY <1>2 DEF GHub!CallOn, CallerTypes, Callers, GHub!Answers

LEMMA PumpTypesInit == 
  ASSUME GHub!AttemptAssumption, GHub!CallsAssumption, GHub!Init PROVE PumpTypeInv
<1>1. running \in [{} -> Work \cup {GHub!NoJob}] /\ DOMAIN running = {}
  BY DEF GHub!Init
<1>2. IsFiniteSet(DOMAIN running) /\ IsFiniteSet(sdk.held)
  BY <1>1, FS_EmptySet DEF GHub!Init, GHub!Released
<1>3. PumpTypes
  <2>1. /\ queue \in Seq(Work) /\ DOMAIN running \subseteq Nat \ {0}
        /\ running \in [DOMAIN running -> Work \cup {GHub!NoJob}]
    BY <1>1 DEF GHub!Init
  <2>2. QED
    BY <1>2, <2>1 DEF GHub!Init, PumpTypes
<1>4. CallerTypes
  BY DEF GHub!Init, GHub!AtRest, CallerTypes, Callers, GHub!Waiting, GHub!AttemptAssumption
<1>5. SdkTypes
  BY <1>2 DEF GHub!Init, SdkTypes, GHub!Released
<1>6. EngTypes
  BY DEF GHub!Init, EngTypes, Engs, GHub!AttemptAssumption, GHub!CallsAssumption
<1>7. QED
  BY <1>3, <1>4, <1>5, <1>6 DEF PumpTypeInv

LEMMA EngUpdates ==
    ASSUME GHub!AttemptAssumption, NEW e \in Engs
    PROVE  /\ GHub!Unavailable(e) \in Engs
           /\ [e EXCEPT !.saved = FALSE] \in Engs
           /\ [e EXCEPT !.initialized = TRUE] \in Engs
           /\ [e EXCEPT !.initialized = FALSE] \in Engs
           /\ [e EXCEPT !.cooldown = FALSE] \in Engs
           /\ [e EXCEPT !.saved = TRUE, !.failures = 0, !.note = FALSE, !.cooldown = FALSE]
                \in Engs
           /\ \A ok \in BOOLEAN : GHub!Noted(e, ok) \in Engs
<1>1. 0 \in 0 .. FailureLimit /\ FailureLimit \in 0 .. FailureLimit
  BY DEF GHub!AttemptAssumption
<1>2. ASSUME NEW n \in 0 .. FailureLimit
      PROVE  /\ [e EXCEPT !.failures = n] \in Engs
             /\ GHub!Unavailable([e EXCEPT !.failures = n, !.note = TRUE]) \in Engs
             /\ [e EXCEPT !.failures = n, !.note = FALSE] \in Engs
  BY DEF Engs, GHub!Unavailable
<1>3. ASSUME NEW ok \in BOOLEAN PROVE GHub!Noted(e, ok) \in Engs
  <2> DEFINE n == IF e.failures < FailureLimit THEN e.failures + 1 ELSE FailureLimit
  <2>1. n \in 0 .. FailureLimit
    BY DEF Engs, GHub!AttemptAssumption
  <2>2. GHub!Noted(e, ok) = IF ok THEN [e EXCEPT !.failures = 0, !.note = FALSE]
                       ELSE IF n < FailureLimit \/ e.note THEN [e EXCEPT !.failures = n]
                       ELSE GHub!Unavailable([e EXCEPT !.failures = n, !.note = TRUE])
    BY DEF GHub!Noted
  <2>3. QED
    <3> HIDE DEF n
    <3>1. QED
      BY <1>1, <1>2, <2>1, <2>2
<1>4. QED
  BY <1>1, <1>3 DEF Engs, GHub!Unavailable

LEMMA CallersAt ==
    ASSUME GHub!AttemptAssumption, NEW n \in Nat
    PROVE  /\ GHub!AtRest \in Callers /\ GHub!AtRest.at = "idle"
              /\ GHub!AtRest.colour = GHub!Nothing
           /\ [GHub!AtRest EXCEPT !.at = "drain"] \in Callers
           /\ [GHub!AtRest EXCEPT !.at = "gone"] \in Callers
           /\ [GHub!AtRest EXCEPT !.at = "join", !.joins = n] \in Callers
<1>1. GHub!AtRest \in Callers
  BY DEF GHub!AtRest, Callers, GHub!AttemptAssumption
<1>2. ASSUME NEW c \in Callers
      PROVE  /\ [c EXCEPT !.at = "drain"] \in Callers
             /\ [c EXCEPT !.at = "gone"] \in Callers
             /\ [c EXCEPT !.at = "join", !.joins = n] \in Callers
  BY DEF Callers
<1>3. GHub!AtRest.at = "idle" /\ GHub!AtRest.colour = GHub!Nothing
  BY DEF GHub!AtRest
<1>4. QED
  BY <1>1, <1>2, <1>3

LEMMA OneMoreCall ==
   ASSUME GHub!CallsAssumption, EngTypes, calls < MaxCalls PROVE calls + 1 \in 0 .. MaxCalls
BY DEF GHub!CallsAssumption, EngTypes

LEMMA StopTypes ==
    ASSUME PumpTypeInv, GHub!AttemptAssumption, GHub!StopPump PROVE PumpTypes' /\ CallerTypes'
<1>1. PumpTypes /\ thread \in Nat
  BY DEF PumpTypeInv, PumpTypes
<1>2. caller' = [GHub!AtRest EXCEPT !.at = "join", !.joins = thread] /\ reply' = GHub!Nothing
  BY DEF GHub!StopPump
<1>3. caller' \in Callers
  BY <1>1, <1>2, CallersAt
<1>4. caller'.at = "join" /\ caller'.colour = GHub!Nothing
  BY <1>2 DEF GHub!AtRest
<1>5. CallerTypes'
  BY <1>2, <1>3, <1>4 DEF CallerTypes
<1>6. queue' = <<>> /\ running' = running /\ thread' = 0 /\ stopped' = TRUE
  BY DEF GHub!StopPump
<1>7. PumpTypes'
  BY <1>1, <1>6 DEF PumpTypes
<1>8. QED
  BY <1>5, <1>7

LEMMA WaitKeepsTypes == ASSUME PumpTypeInv, GHub!WaitTimesOut PROVE PumpTypeInv'
<1>1. ASSUME NEW w \in Work PROVE [w EXCEPT !.waited = FALSE] \in Work
  BY DEF Work, Asks, Paints, Commits
<1>2. [GHub!NoJob EXCEPT !.waited = FALSE] = GHub!NoJob
  <2>1. DOMAIN GHub!NoJob = {"kind", "colour", "nudged", "waited"}
        /\ GHub!NoJob.waited = FALSE
    BY DEF GHub!NoJob
  <2> HIDE DEF GHub!NoJob
  <2>2. GHub!NoJob = [x \in DOMAIN GHub!NoJob |-> GHub!NoJob[x]]
    BY DEF GHub!NoJob
  <2>3. QED
    BY <2>1, <2>2
<1>3. queue' \in Seq(Work)
  <2>1. queue' = [i \in DOMAIN queue |-> [queue[i] EXCEPT !.waited = FALSE]]
    BY DEF GHub!WaitTimesOut
  <2>2. \A i \in DOMAIN queue : queue[i] \in Work
    BY DEF PumpTypeInv, PumpTypes
  <2>3. \A i \in DOMAIN queue : [queue[i] EXCEPT !.waited = FALSE] \in Work
    BY <1>1, <2>2
  <2>4. DOMAIN queue = 1 .. Len(queue) /\ Len(queue) \in Nat
    BY DEF PumpTypeInv, PumpTypes
  <2>5. QED
    BY <2>1, <2>3, <2>4
<1>4. /\ DOMAIN running' = DOMAIN running
      /\ running' \in [DOMAIN running -> Work \cup {GHub!NoJob}]
  <2>1. running' = [t \in DOMAIN running |-> [running[t] EXCEPT !.waited = FALSE]]
    BY DEF GHub!WaitTimesOut
  <2>2. \A t \in DOMAIN running : running[t] \in Work \cup {GHub!NoJob}
    BY DEF PumpTypeInv, PumpTypes
  <2>3. \A t \in DOMAIN running : [running[t] EXCEPT !.waited = FALSE] \in Work \cup {GHub!NoJob}
    BY <1>1, <1>2, <2>2
  <2>4. QED
    BY <2>1, <2>3
<1>5. PumpTypes'
  BY <1>3, <1>4 DEF GHub!WaitTimesOut, PumpTypeInv, PumpTypes
<1>6. CallerTypes' /\ SdkTypes' /\ EngTypes'
  BY DEF GHub!WaitTimesOut, PumpTypeInv, CallerTypes, SdkTypes, EngTypes, GHub!Answers
<1>7. QED
  BY <1>5, <1>6 DEF PumpTypeInv

LEMMA ThreadKeepsTypes ==
    ASSUME PumpTypeInv, NEW t \in DOMAIN running, GHub!PumpThread(t) PROVE PumpTypeInv'
<1> USE DEF PumpTypeInv
<1>1. CASE GHub!ThreadEnds(t)
  <2>1. IsFiniteSet(DOMAIN running \ {t})
    BY FS_RemoveElement DEF PumpTypes
  <2>2. PumpTypes'
    BY <1>1, <2>1 DEF GHub!ThreadEnds, PumpTypes
  <2>3. QED
    BY <1>1, <2>2 DEF GHub!ThreadEnds, CallerTypes, SdkTypes, EngTypes
<1>2. CASE GHub!ThreadTakes(t)
  <2>1. Head(queue) \in Work /\ Tail(queue) \in Seq(Work)
    BY <1>2 DEF GHub!ThreadTakes, PumpTypes
  <2>2. PumpTypes'
    BY <1>2, <2>1 DEF GHub!ThreadTakes, PumpTypes
  <2>3. QED
    BY <1>2, <2>2 DEF GHub!ThreadTakes, CallerTypes, SdkTypes, EngTypes
<1>3. CASE GHub!ThreadRuns(t)
  <2>1. PumpTypes'
    BY <1>3 DEF GHub!ThreadRuns, PumpTypes
  <2>2. running[t] \in Work
    BY <1>3 DEF GHub!ThreadRuns, PumpTypes
  <2>3. PICK answer \in GHub!SdkAnswers(t, running[t]) :
          /\ sdk' = IF answer = "ok" THEN GHub!SdkAfter(t, running[t]) ELSE sdk
          /\ reply' = IF running[t].waited THEN answer ELSE reply
          /\ clean' = (clean /\ answer # "raised")
          /\ lit' = IF running[t].kind = "commit" /\ answer # "ok" THEN GHub!Nothing ELSE lit
    BY <1>3 DEF GHub!ThreadRuns
  <2>4. answer \in GHub!Answers
    BY DEF GHub!SdkAnswers, GHub!Answers
  <2>5. CallerTypes' /\ EngTypes'
    BY <1>3, <2>3, <2>4 DEF GHub!ThreadRuns, CallerTypes, EngTypes
  <2>6. SdkTypes'
    <3>1. CASE sdk' = sdk
      BY <3>1 DEF SdkTypes
    <3>2. CASE sdk' = [sdk EXCEPT !.held = @ \cup {t}]
      <4>1. t \in Nat /\ IsFiniteSet(sdk.held \cup {t})
        BY FS_AddElement DEF SdkTypes, PumpTypes
      <4>2. QED
        BY <3>2, <4>1 DEF SdkTypes
    <3>3. CASE sdk' = [sdk EXCEPT !.held = @ \ {t}]
      BY <3>3, FS_RemoveElement DEF SdkTypes
    <3>4. CASE sdk' = GHub!Released
      BY <3>4, FS_EmptySet DEF SdkTypes, GHub!Released
    <3>5. CASE running[t].kind \in {"paint", "commit"} /\ sdk' = GHub!Lighting(running[t])
      <4>1. running[t].colour \in Colours /\ running[t].nudged \in BOOLEAN
        BY <2>2, <3>5 DEF Work, Asks, Paints, Commits, GHub!Waiting
      <4>2. QED
        BY <3>5, <4>1 DEF GHub!Lighting, SdkTypes
    <3>6. QED
      BY <2>3, <3>1, <3>2, <3>3, <3>4, <3>5 DEF GHub!SdkAfter
  <2>7. QED
    BY <2>1, <2>5, <2>6
<1>4. QED
  BY <1>1, <1>2, <1>3 DEF GHub!PumpThread

LEMMA CallsKeepTypes == ASSUME PumpTypeInv, GHub!AttemptAssumption, GHub!CallsAssumption,
   GHub!Calls PROVE PumpTypeInv'
<1> USE DEF PumpTypeInv
<1>s. UNCHANGED sdk => SdkTypes'
  BY DEF SdkTypes
<1>1. CASE GHub!Open
  <2>1. SdkTypes' /\ EngTypes'
    <3>1. /\ (eng' = eng \/ eng' = GHub!Unavailable(eng)) /\ UNCHANGED <<sdk, clean>>
          /\ calls' = calls + 1 /\ calls < MaxCalls /\ lit' = GHub!Nothing
      BY <1>1 DEF GHub!Open
    <3>2. EngTypes'
      BY <3>1, EngUpdates, OneMoreCall DEF EngTypes
    <3>3. QED
      BY <1>s, <3>1, <3>2
  <2>2. CASE UNCHANGED <<caller, GHub!pump, reply>>
    BY <2>1, <2>2 DEF GHub!pump, CallerTypes, PumpTypes
  <2>3. CASE GHub!Call(IF eng.initialized THEN "target" ELSE "init",
             [GHub!AtRest EXCEPT !.attempt = 1])
    <3>1. [GHub!AtRest EXCEPT !.attempt = 1] \in Callers
      BY DEF GHub!AtRest, Callers, GHub!AttemptAssumption
    <3>2. QED
      BY <2>1, <2>3, <3>1, CallTypes
         DEF GHub!Call, PumpTypes, GHub!Waiting, GHub!AtRest, GHub!AttemptAssumption
  <2>4. QED
    BY <1>1, <2>2, <2>3 DEF GHub!Open
<1>2. ASSUME NEW c \in Colours, GHub!SetColor(c) PROVE PumpTypeInv'
  <2>1. SdkTypes' /\ EngTypes'
    BY <1>2 DEF GHub!SetColor, SdkTypes, EngTypes, GHub!CallsAssumption
  <2>2. [GHub!AtRest EXCEPT !.colour = c] \in Callers
    BY DEF GHub!AtRest, Callers, GHub!AttemptAssumption
  <2>3. QED
    BY <1>2, <2>1, <2>2, CallTypes
       DEF GHub!SetColor, GHub!Call, PumpTypes, GHub!Waiting, GHub!AtRest
<1>3. CASE GHub!Close
  <2>1. SdkTypes' /\ EngTypes'
    <3>1. /\ eng' = [eng EXCEPT !.saved = FALSE] /\ UNCHANGED <<sdk, clean>>
          /\ calls' = calls + 1 /\ calls < MaxCalls /\ lit' = GHub!Nothing
      BY <1>3 DEF GHub!Close
    <3>2. EngTypes'
      BY <3>1, EngUpdates, OneMoreCall DEF EngTypes
    <3>3. QED
      BY <1>s, <3>1, <3>2
  <2>2. GHub!WithoutColours \in Seq(Work)
    BY WithoutKeeps DEF GHub!WithoutColours, PumpTypes
  <2>3. CASE eng.saved
    <3>1. /\ queue' = GHub!WithoutColours /\ UNCHANGED <<running, thread, stopped, reply>>
          /\ caller' = [GHub!AtRest EXCEPT !.at = "drain"]
      BY <1>3, <2>3 DEF GHub!Close
    <3>2. caller' \in Callers /\ caller'.at = "drain" /\ caller'.colour = GHub!Nothing
      BY <3>1, CallersAt DEF GHub!AtRest
    <3>3. QED
      BY <2>1, <2>2, <3>1, <3>2 DEF PumpTypes, CallerTypes
  <2>4. CASE ~eng.saved
    BY <1>3, <2>1, <2>4, StopTypes DEF GHub!Close
  <2>5. QED
    BY <2>1, <2>3, <2>4
<1>4. CASE GHub!Exit
  <2>1. SdkTypes' /\ EngTypes'
    BY <1>4 DEF GHub!Exit, SdkTypes, EngTypes
  <2>2. CASE eng.initialized
    <3>1. GHub!WithoutColours \in Seq(Work)
      BY WithoutKeeps DEF GHub!WithoutColours, PumpTypes
    <3>2. GHub!AtRest \in Callers
      BY DEF GHub!AtRest, Callers, GHub!AttemptAssumption
    <3>3. QED
      BY <1>4, <2>1, <2>2, <3>1, <3>2, CallTypes DEF GHub!Exit, GHub!Waiting, GHub!AtRest
  <2>3. CASE ~eng.initialized
    BY <1>4, <2>1, <2>3
       DEF GHub!Exit, GHub!pump, CallerTypes, PumpTypes, Callers, GHub!AtRest, GHub!Waiting,
           GHub!AttemptAssumption
  <2>4. QED
    BY <2>2, <2>3
<1>5. QED
  BY <1>1, <1>2, <1>3, <1>4 DEF GHub!Calls

LEMMA CallerKeepsTypes ==
    ASSUME PumpTypeInv, GHub!AttemptAssumption, GHub!CallerSteps \/ GHub!CooldownEnds
           PROVE PumpTypeInv'
<1> USE DEF PumpTypeInv
<1>a. ASSUME NEW kind \in GHub!Waiting \ {"paint", "init"}, caller.colour = GHub!Nothing,
             GHub!Call(kind, caller)
      PROVE  PumpTypes' /\ CallerTypes'
  BY <1>a, CallTypes DEF GHub!Call, PumpTypes, CallerTypes
<1>b. ASSUME GHub!Return PROVE CallerTypes'
  BY <1>b
     DEF GHub!Return, CallerTypes, Callers, GHub!AtRest, GHub!Waiting, GHub!AttemptAssumption
<1>c. ASSUME UNCHANGED GHub!pump PROVE PumpTypes'
  BY <1>c DEF GHub!pump, PumpTypes
<1>d. ASSUME GHub!StopPump PROVE PumpTypes' /\ CallerTypes'
  BY <1>d, StopTypes
<1>e. ASSUME NEW at \in GHub!Waiting \ {"paint"}, caller.at = at
             PROVE caller.colour = GHub!Nothing
  BY <1>e DEF CallerTypes
<1>1. CASE GHub!InitAnswered
  <2>1. SdkTypes' /\ EngTypes'
    BY <1>1, EngUpdates DEF GHub!InitAnswered, SdkTypes, EngTypes
  <2>2. caller.at = "init" /\ caller.colour = GHub!Nothing
        /\ "init" \in GHub!Waiting \ {"paint"}
    BY <1>1, <1>e DEF GHub!InitAnswered, GHub!Answered, GHub!Waiting
  <2>3. CASE GHub!Call("target", caller)
    BY <1>a, <2>1, <2>2, <2>3 DEF GHub!Waiting
  <2>4. CASE caller.attempt < InitAttempts
             /\ GHub!Call("init", [caller EXCEPT !.attempt = @ + 1])
    <3>1. /\ [caller EXCEPT !.attempt = @ + 1] \in Callers
          /\ [caller EXCEPT !.attempt = @ + 1].attempt \in 1 .. InitAttempts
          /\ [caller EXCEPT !.attempt = @ + 1].colour = GHub!Nothing
      BY <2>2, <2>4 DEF CallerTypes, Callers, GHub!AttemptAssumption
    <3>2. QED
      BY <2>1, <2>2, <2>4, <3>1, CallTypes DEF GHub!Call, PumpTypes
  <2>5. CASE GHub!Return /\ UNCHANGED GHub!pump
    BY <1>b, <1>c, <2>1, <2>5
  <2>6. QED
    BY <1>1, <2>3, <2>4, <2>5 DEF GHub!InitAnswered, GHub!pump
<1>2. CASE GHub!TargetAnswered
  BY <1>2, <1>a, <1>b, <1>c, <1>e
     DEF GHub!TargetAnswered, GHub!Answered, GHub!Waiting, SdkTypes, EngTypes
<1>3. CASE GHub!SaveAnswered
  <2>1. EngTypes'
    BY <1>3, EngUpdates DEF GHub!SaveAnswered, EngTypes
  <2>2. QED
    BY <1>3, <1>b, <1>c, <2>1 DEF GHub!SaveAnswered, SdkTypes
<1>4. CASE GHub!PaintAnswered
  <2>1. SdkTypes' /\ EngTypes'
    <3>1. lit' \in Colours \cup {GHub!Nothing}
      BY <1>4 DEF GHub!PaintAnswered, GHub!Answered, CallerTypes
    <3>2. QED
      BY <1>4, <3>1, EngUpdates DEF GHub!PaintAnswered, SdkTypes, EngTypes
  <2>2. GHub!CommitOf(caller.colour) \in Work
    BY <1>4
       DEF GHub!PaintAnswered, GHub!Answered, CallerTypes, GHub!CommitOf, GHub!Job, Work,
           Commits
  <2>3. PumpTypes'
    BY <1>4, <1>c, <2>2, EnqueueTypes DEF GHub!PaintAnswered, PumpTypes
  <2>4. QED
    BY <1>4, <1>b, <2>1, <2>3 DEF GHub!PaintAnswered
<1>5. CASE GHub!Drained
  <2>1. caller.colour = GHub!Nothing
    BY <1>5 DEF GHub!Drained, CallerTypes
  <2>2. QED
  BY <1>5, <1>a, <2>1 DEF GHub!Drained, SdkTypes, EngTypes, GHub!Waiting
<1>6. CASE GHub!RestoreAnswered
  BY <1>6, <1>a, <1>e
     DEF GHub!RestoreAnswered, GHub!Answered, SdkTypes, EngTypes, GHub!Waiting
<1>7. CASE GHub!ShutdownAnswered
  BY <1>7, <1>d, EngUpdates DEF GHub!ShutdownAnswered, SdkTypes, EngTypes
<1>8. CASE GHub!Joined
  BY <1>8, <1>b, <1>c DEF GHub!Joined, SdkTypes, EngTypes
<1>9. CASE GHub!ExitAnswered
  BY <1>9, <1>c
     DEF GHub!ExitAnswered, SdkTypes, EngTypes, CallerTypes, Callers, GHub!AtRest,
         GHub!Waiting, GHub!AttemptAssumption
<1>10. CASE GHub!CooldownEnds
  BY <1>10, <1>c, EngUpdates DEF GHub!CooldownEnds, SdkTypes, EngTypes, CallerTypes
<1>11. QED
  BY <1>1, <1>2, <1>3, <1>4, <1>5, <1>6, <1>7, <1>8, <1>9, <1>10, WaitKeepsTypes
     DEF GHub!CallerSteps

--------------------------------------------------------------------------------
(* The pump: a clean run stays one                                                *)

\* A job put where its predecessors were dropped is the only one queued.
LEMMA EnqueueOne ==
    ASSUME PumpTypeInv, Threads, caller.at # "join", NEW q, NEW job,
           GHub!Without(q, GHub!DroppedBy(job.kind)) = <<>>, GHub!EnqueueOn(q, job)
    PROVE  /\ queue' = <<job>> /\ ~stopped' /\ thread' # 0 /\ DOMAIN running' = {thread'}
           /\ running'[thread'] = IF thread = 0 THEN GHub!NoJob ELSE running[thread]
           /\ thread # 0 => thread' = thread
<1>1. queue' = <<job>> /\ ~stopped'
  BY DEF GHub!EnqueueOn
<1>2. CASE thread = 0
  <2>1. DOMAIN running = {}
    BY <1>2 DEF Threads
  <2>2. running' = [t \in {GHub!NewThread} |-> GHub!NoJob] /\ thread' = GHub!NewThread
    BY <1>2, <2>1 DEF GHub!EnqueueOn
  <2>3. GHub!NewThread # 0
    BY FreshThread
  <2>4. QED
    BY <1>1, <1>2, <2>2, <2>3
<1>3. CASE thread # 0
  BY <1>1, <1>3 DEF GHub!EnqueueOn, Threads
<1>4. QED
  BY <1>2, <1>3

\* The place a call is made from: nothing but a commit is on its way, and that only
\* before a paint or the exit.
LEMMA CallOne ==
    ASSUME PumpTypeInv, Threads, caller.at # "join", NEW q, NEW kind \in GHub!Waiting,
       NEW c \in Callers,
           GHub!Without(q, GHub!DroppedBy(kind)) = <<>>, GHub!CallOn(q, kind, c),
           thread # 0 => \/ running[thread] = GHub!NoJob
                         \/ running[thread] \in Commits /\ kind \in {"paint", "exit"}
    PROVE  /\ Threads' /\ Places'
           /\ caller' = [c EXCEPT !.at = kind] /\ caller'.at = kind /\ reply' = GHub!Nothing
           /\ thread' # 0 /\ (thread # 0 => thread' = thread)
<1>1. /\ caller' = [c EXCEPT !.at = kind] /\ caller'.at = kind /\ caller'.colour = c.colour
      /\ reply' = GHub!Nothing
  BY DEF GHub!CallOn, Callers
<1>2. GHub!EnqueueOn(q, GHub!Job(kind, c.colour, FALSE, TRUE))
  BY DEF GHub!CallOn
<1>3. GHub!Job(kind, c.colour, FALSE, TRUE).kind = kind
  BY DEF GHub!Job
<1>4. /\ queue' = <<GHub!Job(kind, c.colour, FALSE, TRUE)>>
      /\ ~stopped' /\ thread' # 0 /\ DOMAIN running' = {thread'}
      /\ running'[thread'] = IF thread = 0 THEN GHub!NoJob ELSE running[thread]
      /\ thread # 0 => thread' = thread
  BY <1>2, <1>3, EnqueueOne
<1>5. TheCall' = GHub!Job(kind, c.colour, FALSE, TRUE)
  BY <1>1 DEF TheCall
<1>6. caller'.at # "join" /\ caller'.at \notin {"idle", "drain", "gone"}
  BY <1>1 DEF GHub!Waiting
<1>7. Threads'
  BY <1>4, <1>6 DEF Threads
<1>8. Places'
  BY <1>1, <1>4, <1>5, <1>6 DEF Places, Only, Behind
<1>9. QED
  BY <1>1, <1>4, <1>7, <1>8

LEMMA DropsColours ==
    /\ \A kinds : GHub!Without(<<>>, kinds) = <<>>
    /\ \A j \in Commits : GHub!Without(<<j>>, {"paint", "commit"}) = <<>>
BY WithoutEmpty, WithoutOne DEF Commits

LEMMA NoJobIsNone == GHub!NoJob \notin Commits /\ \A k, c, n, w : k # GHub!Nothing
  => GHub!Job(k, c, n, w) # GHub!NoJob
BY DEF GHub!NoJob, Commits, GHub!Job, GHub!Nothing

LEMMA OpenRun == ASSUME PumpTypeInv, GHub!AttemptAssumption, CleanRun, GHub!Open
  PROVE CleanRun'
<1> USE DEF CleanRun
<1>1. caller.at = "idle" /\ ~eng.saved /\ ~eng.initialized /\ lit' = GHub!Nothing
      /\ UNCHANGED sdk
  BY DEF GHub!Open, Phases
<1>2. sdk = GHub!Released /\ reply = GHub!Nothing
  BY <1>1 DEF SdkHeld, Holding, Phases, GHub!Waiting
<1>3. thread # 0 => Quiet
  BY <1>1 DEF Places
<1>4. queue = <<>>
  BY <1>3 DEF Threads, Quiet
<1>5. CASE eng' = GHub!Unavailable(eng) /\ UNCHANGED <<caller, GHub!pump, reply>>
  <2>1. /\ caller' = caller /\ queue' = queue /\ running' = running /\ thread' = thread
        /\ stopped' = stopped /\ reply' = reply
        /\ eng'.saved = eng.saved /\ eng'.initialized = eng.initialized
    BY <1>5 DEF GHub!pump, GHub!Unavailable, PumpTypeInv, EngTypes, Engs
  <2>2. Threads' /\ Places'
    BY <1>1, <1>3, <2>1 DEF Threads, Places, Quiet, GHub!Waiting
  <2>3. Phases'
    BY <1>1, <2>1 DEF Phases, GHub!Waiting
  <2>4. SdkHeld' /\ LitShown'
    BY <1>1, <1>2, <2>1 DEF SdkHeld, Holding, LitShown
  <2>5. QED
    BY <2>2, <2>3, <2>4
<1>6. CASE GHub!Call("init", [GHub!AtRest EXCEPT !.attempt = 1]) /\ UNCHANGED eng
  <2>1. [GHub!AtRest EXCEPT !.attempt = 1] \in Callers /\ "init" \in GHub!Waiting
    BY DEF GHub!AtRest, Callers, GHub!AttemptAssumption, GHub!Waiting
  <2>2. /\ Threads' /\ Places' /\ caller'.at = "init" /\ reply' = GHub!Nothing /\ thread' # 0
    BY <1>1, <1>3, <1>4, <1>6, <2>1, CallOne, DropsColours DEF GHub!Call, Quiet
  <2>3. Phases'
    BY <1>1, <1>6, <2>2 DEF Phases, GHub!Waiting
  <2>4. SdkHeld' /\ LitShown'
    BY <1>1, <1>2, <2>2 DEF SdkHeld, Holding, LitShown, GHub!Nothing
  <2>5. QED
    BY <2>2, <2>3, <2>4
<1>7. QED
  BY <1>1, <1>5, <1>6 DEF GHub!Open

\* What an answered call leaves in a clean run.
LEMMA AnsweredIs ==
    ASSUME PumpTypeInv, CleanRun, NEW at \in GHub!Waiting, GHub!Answered(at)
    PROVE  /\ caller.at = at /\ Quiet /\ reply \in {"ok", "refused"} /\ thread # 0
           /\ queue = <<>> /\ running[thread] = GHub!NoJob
BY DEF GHub!Answered, CleanRun, Places, Phases, Quiet

LEMMA ReturnIs ==
    ASSUME GHub!Return PROVE caller'.at = "idle" /\ reply' = GHub!Nothing
BY DEF GHub!Return, GHub!AtRest

LEMMA InitAnsweredRun == ASSUME PumpTypeInv, GHub!AttemptAssumption, CleanRun,
   GHub!InitAnswered PROVE CleanRun'
<1> USE DEF CleanRun
<1>1. /\ caller.at = "init" /\ Quiet /\ reply \in {"ok", "refused"} /\ thread # 0
      /\ queue = <<>> /\ running[thread] = GHub!NoJob
  BY AnsweredIs DEF GHub!InitAnswered, GHub!Waiting
<1>2. /\ ~eng.initialized /\ ~eng.saved /\ lit = GHub!Nothing
      /\ UNCHANGED <<sdk, lit>> /\ caller \in Callers /\ eng \in Engs
  BY <1>1 DEF GHub!InitAnswered, Phases, LitShown, PumpTypeInv, CallerTypes, EngTypes
<1>3. CASE reply = "ok" /\ eng' = [eng EXCEPT !.initialized = TRUE]
           /\ GHub!Call("target", caller)
  <2>1. /\ Threads' /\ Places' /\ caller'.at = "target" /\ reply' = GHub!Nothing
           /\ thread' # 0
        /\ thread' = thread
    BY <1>1, <1>2, <1>3, CallOne, DropsColours DEF GHub!Call, GHub!Waiting
  <2>2. eng'.initialized /\ ~eng'.saved
    BY <1>2, <1>3 DEF Engs
  <2>3. sdk.held = {thread}
    BY <1>1, <1>3 DEF SdkHeld, Holding
  <2>4. QED
    BY <1>2, <2>1, <2>2, <2>3 DEF Phases, GHub!Waiting, SdkHeld, Holding, LitShown
<1>4. CASE reply = "refused" /\ UNCHANGED eng
           /\ GHub!Call("init", [caller EXCEPT !.attempt = @ + 1])
           /\ caller.attempt < InitAttempts
  <2>1. [caller EXCEPT !.attempt = @ + 1] \in Callers /\ "init" \in GHub!Waiting
    BY <1>2, <1>4 DEF Callers, GHub!Waiting, GHub!AttemptAssumption
  <2>2. /\ Threads' /\ Places' /\ caller'.at = "init" /\ reply' = GHub!Nothing /\ thread' # 0
    BY <1>1, <1>4, <2>1, CallOne, DropsColours DEF GHub!Call
  <2>3. sdk = GHub!Released
    BY <1>1, <1>4 DEF SdkHeld, Holding
  <2>4. QED
    BY <1>2, <1>4, <2>2, <2>3
       DEF Phases, GHub!Waiting, SdkHeld, Holding, LitShown, GHub!Nothing
<1>5. CASE reply = "refused" /\ eng' = GHub!Unavailable(eng) /\ GHub!Return
           /\ UNCHANGED GHub!pump
  <2>1. caller'.at = "idle" /\ reply' = GHub!Nothing /\ ~eng'.initialized /\ ~eng'.saved
    BY <1>2, <1>5, ReturnIs DEF GHub!Unavailable, Engs
  <2>2. queue' = queue /\ running' = running /\ thread' = thread /\ stopped' = stopped
    BY <1>5 DEF GHub!pump
  <2>3. sdk = GHub!Released
    BY <1>1, <1>5 DEF SdkHeld, Holding
  <2>4. Threads' /\ Places'
    BY <1>1, <2>1, <2>2 DEF Threads, Places, GHub!Waiting, Quiet
  <2>5. QED
    BY <1>2, <2>1, <2>2, <2>3, <2>4 DEF Phases, GHub!Waiting, SdkHeld, Holding, LitShown
<1>6. QED
  BY <1>1, <1>3, <1>4, <1>5 DEF GHub!InitAnswered

\* A call answered in a session is followed by another.
LEMMA NextCallRun ==
    ASSUME PumpTypeInv, CleanRun, NEW at \in {"target", "save", "restore", "drain"},
           NEW kind \in {"save", "restore", "shutdown"}, caller.at = at, Quiet,
           GHub!Call(kind, caller), UNCHANGED <<eng, sdk, lit>>
    PROVE  CleanRun'
<1> USE DEF CleanRun
<1>1. /\ eng.initialized /\ ~eng.saved /\ lit = GHub!Nothing /\ thread # 0
         /\ caller \in Callers
      /\ queue = <<>> /\ running[thread] = GHub!NoJob
  BY DEF Phases, LitShown, PumpTypeInv, CallerTypes, GHub!Waiting, Quiet
<1>2. sdk.held = {thread}
  BY <1>1 DEF SdkHeld, Holding
<1>3. /\ Threads' /\ Places' /\ caller'.at = kind /\ reply' = GHub!Nothing /\ thread' = thread
  BY <1>1, CallOne, DropsColours DEF GHub!Call, GHub!Waiting
<1>4. QED
  BY <1>1, <1>2, <1>3 DEF Phases, GHub!Waiting, SdkHeld, Holding, LitShown, GHub!Nothing

LEMMA SaveAnsweredRun == ASSUME PumpTypeInv, CleanRun, GHub!SaveAnswered PROVE CleanRun'
<1> USE DEF CleanRun
<1>1. /\ caller.at = "save" /\ Quiet /\ reply \in {"ok", "refused"} /\ thread # 0
  BY AnsweredIs DEF GHub!SaveAnswered, GHub!Waiting
<1>2. eng.initialized /\ lit = GHub!Nothing /\ eng \in Engs
  BY <1>1 DEF Phases, LitShown, PumpTypeInv, EngTypes, GHub!Waiting
<1>3. eng'.initialized /\ eng'.saved
  BY <1>1, <1>2 DEF GHub!SaveAnswered, Engs
<1>4. sdk.held = {thread}
  BY <1>1, <1>2 DEF SdkHeld, Holding
<1>5. /\ caller'.at = "idle" /\ reply' = GHub!Nothing /\ UNCHANGED <<sdk, lit>>
      /\ queue' = queue /\ running' = running /\ thread' = thread /\ stopped' = stopped
  BY ReturnIs DEF GHub!SaveAnswered, GHub!pump
<1>6. Threads' /\ Places'
  BY <1>1, <1>3, <1>5 DEF Threads, Places, GHub!Waiting, Quiet
<1>7. QED
  BY <1>1, <1>2, <1>3, <1>4, <1>5, <1>6 DEF Phases, GHub!Waiting, SdkHeld, Holding, LitShown

\* At rest in a session, or before its end: nothing but a commit is on its way.
LEMMA SessionIs ==
    ASSUME PumpTypeInv, CleanRun, caller.at = "idle", eng.initialized
    PROVE  /\ thread # 0 /\ eng.saved /\ sdk.held = {thread} /\ reply = GHub!Nothing
           /\ running[thread] = GHub!NoJob \/ running[thread] \in Commits
           /\ GHub!Without(queue, {"paint", "commit"}) = <<>>
<1>1. thread # 0 /\ eng.saved /\ sdk.held = {thread} /\ reply = GHub!Nothing
  BY DEF CleanRun, Phases, SdkHeld, Holding, GHub!Waiting
<1>2. Quiet \/ \E j \in Commits : Only(j)
  BY DEF CleanRun, Places
<1>3. QED
  BY <1>1, <1>2, DropsColours DEF Quiet, Only

LEMMA SetColorRun ==
    ASSUME PumpTypeInv, GHub!AttemptAssumption, CleanRun, NEW c \in Colours,
       GHub!SetColor(c) PROVE CleanRun'
<1> USE DEF CleanRun
<1>1. caller.at = "idle" /\ eng.saved /\ eng.initialized /\ UNCHANGED <<eng, sdk, lit>>
  BY DEF GHub!SetColor, Phases
<1>2. /\ thread # 0 /\ sdk.held = {thread}
      /\ running[thread] = GHub!NoJob \/ running[thread] \in Commits
      /\ GHub!Without(queue, {"paint", "commit"}) = <<>>
  BY <1>1, SessionIs
<1>3. [GHub!AtRest EXCEPT !.colour = c] \in Callers /\ "paint" \in GHub!Waiting
  BY DEF GHub!AtRest, Callers, GHub!AttemptAssumption, GHub!Waiting
<1>4. GHub!DroppedBy("paint") = {"paint", "commit"}
  BY DEF GHub!DroppedBy
<1>5. /\ Threads' /\ Places' /\ caller'.at = "paint" /\ reply' = GHub!Nothing
         /\ thread' = thread
  BY <1>1, <1>2, <1>3, <1>4, CallOne DEF GHub!SetColor, GHub!Call
<1>6. QED
  BY <1>1, <1>2, <1>5 DEF Phases, GHub!Waiting, SdkHeld, Holding, LitShown, GHub!Nothing

LEMMA PaintAnsweredRun == ASSUME PumpTypeInv, GHub!AttemptAssumption, CleanRun,
   GHub!PaintAnswered PROVE CleanRun'
<1> USE DEF CleanRun
<1>1. /\ caller.at = "paint" /\ Quiet /\ reply \in {"ok", "refused"} /\ thread # 0
      /\ queue = <<>> /\ running[thread] = GHub!NoJob
  BY AnsweredIs DEF GHub!PaintAnswered, GHub!Waiting
<1>2. eng.initialized /\ eng.saved /\ eng \in Engs /\ caller.colour \in Colours
  BY <1>1 DEF Phases, PumpTypeInv, EngTypes, CallerTypes, GHub!Waiting
<1>3. eng'.initialized /\ eng'.saved
  BY <1>1, <1>2 DEF GHub!PaintAnswered, GHub!Noted, GHub!Unavailable, Engs
<1>4. sdk.held = {thread}
  BY <1>1, <1>2 DEF SdkHeld, Holding
<1>5. /\ caller'.at = "idle" /\ reply' = GHub!Nothing /\ UNCHANGED sdk
      /\ lit' = IF reply = "ok" THEN caller.colour ELSE GHub!Nothing
  BY ReturnIs DEF GHub!PaintAnswered
<1>6. GHub!EnqueueOn(queue, GHub!CommitOf(caller.colour))
  BY <1>1 DEF GHub!PaintAnswered
<1>7. /\ queue' = <<GHub!CommitOf(caller.colour)>> /\ ~stopped' /\ DOMAIN running' = {thread'}
      /\ running'[thread'] = GHub!NoJob /\ thread' = thread
  BY <1>1, <1>6, EnqueueOne, DropsColours
<1>8. GHub!CommitOf(caller.colour) \in Commits
  BY <1>2 DEF GHub!CommitOf, GHub!Job, Commits
<1>9. Threads' /\ Places'
  BY <1>1, <1>3, <1>5, <1>7, <1>8 DEF Threads, Places, GHub!Waiting, Quiet, Only
<1>10. LitShown'
  BY <1>1, <1>3, <1>5, <1>7 DEF LitShown, Only
<1>11. QED
  BY <1>1, <1>3, <1>4, <1>5, <1>7, <1>9, <1>10 DEF Phases, GHub!Waiting, SdkHeld, Holding

\* The pump is stopped with nothing on its way.
LEMMA StopRun ==
    ASSUME PumpTypeInv, CleanRun, caller.at # "join", thread # 0
           => running[thread] = GHub!NoJob, GHub!StopPump,
           sdk = GHub!Released, UNCHANGED sdk, lit' = GHub!Nothing, ~eng'.initialized,
              ~eng'.saved
    PROVE  CleanRun'
<1> USE DEF CleanRun
<1>1. /\ caller'.at = "join" /\ caller'.joins = thread /\ reply' = GHub!Nothing
      /\ queue' = <<>> /\ running' = running /\ thread' = 0 /\ stopped'
  BY DEF GHub!StopPump, GHub!AtRest
<1>2. DOMAIN running \subseteq {thread} /\ \A t \in DOMAIN running : running[t] = GHub!NoJob
  BY DEF Threads
<1>3. Threads' /\ Places'
  BY <1>1, <1>2 DEF Threads, Places, GHub!Waiting
<1>4. QED
  BY <1>1, <1>3 DEF Phases, GHub!Waiting, SdkHeld, Holding, LitShown, GHub!Nothing

LEMMA CloseRun == ASSUME PumpTypeInv, GHub!AttemptAssumption, CleanRun, GHub!Close
  PROVE CleanRun'
<1> USE DEF CleanRun
<1>1. /\ caller.at = "idle" /\ eng' = [eng EXCEPT !.saved = FALSE] /\ UNCHANGED sdk
      /\ lit' = GHub!Nothing /\ eng \in Engs /\ (eng.saved <=> eng.initialized)
  BY DEF GHub!Close, PumpTypeInv, EngTypes, Phases
<1>2. ~eng'.saved /\ eng'.initialized = eng.initialized
  BY <1>1 DEF Engs
<1>3. CASE eng.saved
  <2>1. /\ thread # 0 /\ sdk.held = {thread} /\ reply = GHub!Nothing
        /\ running[thread] = GHub!NoJob \/ running[thread] \in Commits
        /\ GHub!Without(queue, {"paint", "commit"}) = <<>>
    BY <1>1, <1>3, SessionIs
  <2>2. /\ caller'.at = "drain" /\ queue' = <<>>
        /\ running' = running /\ thread' = thread /\ stopped' = stopped /\ reply' = reply
    BY <1>3, <2>1 DEF GHub!Close, GHub!WithoutColours, GHub!AtRest
  <2>3. Threads' /\ Places'
    BY <1>1, <2>1, <2>2 DEF Threads, Places, GHub!Waiting, Quiet, Only
  <2>4. QED
    BY <1>1, <1>2, <1>3, <2>1, <2>2, <2>3 DEF Phases, GHub!Waiting, SdkHeld, Holding, LitShown
<1>4. CASE ~eng.saved
  <2>1. sdk = GHub!Released
    BY <1>1, <1>4 DEF SdkHeld, Holding
  <2>2. thread # 0 => running[thread] = GHub!NoJob
    BY <1>1, <1>4 DEF Places, Quiet
  <2>3. QED
    BY <1>1, <1>2, <1>4, <2>1, <2>2, StopRun DEF GHub!Close
<1>5. QED
  BY <1>3, <1>4

LEMMA DrainedRun == ASSUME PumpTypeInv, CleanRun, GHub!Drained, clean' PROVE CleanRun'
<1>1. caller.at = "drain" /\ thread # 0 /\ GHub!PumpIdle
  BY DEF GHub!Drained, CleanRun, Phases, GHub!Waiting
<1>2. Quiet
  BY <1>1 DEF GHub!PumpIdle, Quiet, CleanRun, Threads
<1>3. PICK restore \in BOOLEAN : GHub!Call(IF restore THEN "restore" ELSE "shutdown", caller)
  BY DEF GHub!Drained
<1>4. QED
  BY <1>1, <1>2, <1>3, NextCallRun DEF GHub!Drained

LEMMA ShutdownAnsweredRun == ASSUME PumpTypeInv, CleanRun, GHub!ShutdownAnswered
  PROVE CleanRun'
<1>1. /\ caller.at = "shutdown" /\ reply # GHub!Nothing /\ reply \in {"ok", "refused"}
      /\ running[thread] = GHub!NoJob
  BY AnsweredIs DEF GHub!ShutdownAnswered, GHub!Answered, GHub!Waiting
<1>2. sdk = GHub!Released /\ lit = GHub!Nothing /\ ~eng.saved /\ eng \in Engs
  BY <1>1 DEF CleanRun, SdkHeld, Holding, LitShown, Phases, PumpTypeInv, EngTypes
<1>3. ~eng'.initialized /\ ~eng'.saved
  BY <1>2 DEF GHub!ShutdownAnswered, Engs
<1>4. QED
  BY <1>1, <1>2, <1>3, StopRun DEF GHub!ShutdownAnswered

LEMMA JoinedRun == ASSUME PumpTypeInv, CleanRun, GHub!Joined, clean' PROVE CleanRun'
<1> USE DEF CleanRun
<1>1. /\ caller.at = "join" /\ thread = 0 /\ caller.joins \notin DOMAIN running
      /\ ~eng.initialized /\ ~eng.saved /\ lit = GHub!Nothing /\ sdk = GHub!Released
         /\ queue = <<>>
  BY DEF GHub!Joined, Phases, LitShown, SdkHeld, Holding, Threads
<1>2. DOMAIN running = {}
  BY <1>1 DEF Threads
<1>3. /\ caller'.at = "idle" /\ reply' = GHub!Nothing /\ UNCHANGED <<eng, sdk, lit>>
      /\ queue' = queue /\ running' = running /\ thread' = thread /\ stopped' = stopped
  BY ReturnIs DEF GHub!Joined, GHub!pump
<1>4. Threads' /\ Places'
  BY <1>1, <1>2, <1>3 DEF Threads, Places, GHub!Waiting
<1>5. QED
  BY <1>1, <1>3, <1>4 DEF Phases, GHub!Waiting, SdkHeld, Holding, LitShown

LEMMA ExitRun == ASSUME PumpTypeInv, GHub!AttemptAssumption, CleanRun, GHub!Exit
  PROVE CleanRun'
<1> USE DEF CleanRun
<1>1. caller.at = "idle" /\ UNCHANGED <<eng, sdk, lit>>
  BY DEF GHub!Exit
<1>2. CASE eng.initialized
  <2>1. /\ thread # 0 /\ sdk.held = {thread} /\ eng.saved
        /\ running[thread] = GHub!NoJob \/ running[thread] \in Commits
        /\ GHub!WithoutColours = <<>>
    BY <1>1, <1>2, SessionIs DEF GHub!WithoutColours
  <2>2. GHub!AtRest \in Callers /\ "exit" \in GHub!Waiting
    BY DEF GHub!AtRest, Callers, GHub!AttemptAssumption, GHub!Waiting
  <2>3. /\ Threads' /\ Places' /\ caller'.at = "exit" /\ reply' = GHub!Nothing
           /\ thread' = thread
    BY <1>1, <1>2, <2>1, <2>2, CallOne, DropsColours DEF GHub!Exit
  <2>4. QED
    BY <1>1, <1>2, <2>1, <2>3 DEF Phases, GHub!Waiting, SdkHeld, Holding, LitShown
<1>3. CASE ~eng.initialized
  <2>1. /\ caller'.at = "gone" /\ reply' = reply
        /\ queue' = queue /\ running' = running /\ thread' = thread /\ stopped' = stopped
    BY <1>3 DEF GHub!Exit, GHub!pump, GHub!AtRest
  <2>2. sdk = GHub!Released /\ queue = <<>>
    BY <1>1, <1>3 DEF SdkHeld, Holding, Places, Quiet, Threads
  <2>3. Threads' /\ Places'
    BY <1>1, <2>1, <2>2 DEF Threads, Places, GHub!Waiting
  <2>4. QED
    BY <1>1, <1>3, <2>1, <2>2, <2>3 DEF Phases, GHub!Waiting, SdkHeld, Holding, LitShown
<1>4. QED
  BY <1>2, <1>3

LEMMA ExitAnsweredRun == ASSUME PumpTypeInv, CleanRun, GHub!ExitAnswered PROVE CleanRun'
<1> USE DEF CleanRun
<1>1. caller.at = "exit" /\ queue = <<>> /\ thread # 0 /\ reply # GHub!Nothing
  BY AnsweredIs DEF GHub!ExitAnswered, GHub!Answered, GHub!Waiting
<1>2. sdk = GHub!Released
  BY <1>1 DEF SdkHeld, Holding
<1>3. /\ caller'.at = "gone" /\ reply' = reply /\ UNCHANGED <<eng, sdk, lit>>
      /\ queue' = queue /\ running' = running /\ thread' = thread /\ stopped' = stopped
  BY DEF GHub!ExitAnswered, GHub!pump, GHub!AtRest
<1>4. Threads' /\ Places'
  BY <1>1, <1>3 DEF Threads, Places, GHub!Waiting
<1>5. QED
  BY <1>1, <1>2, <1>3, <1>4 DEF Phases, GHub!Waiting, SdkHeld, Holding, LitShown

LEMMA CooldownRun == ASSUME PumpTypeInv, CleanRun, GHub!CooldownEnds PROVE CleanRun'
<1>1. /\ UNCHANGED <<caller, queue, running, thread, stopped, reply, sdk, lit>>
      /\ eng'.saved = eng.saved /\ eng'.initialized = eng.initialized
  BY DEF GHub!CooldownEnds, GHub!pump, PumpTypeInv, EngTypes, Engs
<1>2. Threads' /\ Places'
  BY <1>1 DEF CleanRun, Threads, Places, Quiet, Only, Behind, TheCall
<1>3. Phases'
  BY <1>1 DEF CleanRun, Phases
<1>4. SdkHeld' /\ LitShown'
  BY <1>1 DEF CleanRun, SdkHeld, Holding, LitShown, Quiet, Only
<1>5. QED
  BY <1>2, <1>3, <1>4 DEF CleanRun

LEMMA ThreadEndsRun == ASSUME PumpTypeInv, CleanRun, NEW t \in DOMAIN running,
   GHub!ThreadEnds(t) PROVE CleanRun'
<1> USE DEF CleanRun
<1>1. /\ UNCHANGED <<eng, caller, queue, thread, stopped, reply, sdk, lit>>
      /\ running' = [u \in DOMAIN running \ {t} |-> running[u]] /\ stopped
  BY DEF GHub!ThreadEnds
<1>2. /\ thread = 0 /\ queue = <<>> /\ caller.at \notin GHub!Waiting \cup {"drain"}
      /\ caller.at = "idle" => ~eng.initialized
  BY <1>1 DEF Threads, Phases
<1>3. Threads' /\ Places'
  BY <1>1, <1>2 DEF Threads, Places
<1>4. LitShown'
  BY <1>1, <1>2 DEF LitShown, Phases, GHub!Waiting
<1>5. QED
  BY <1>1, <1>3, <1>4 DEF Phases, SdkHeld, Holding

LEMMA ThreadTakesRun == ASSUME PumpTypeInv, CleanRun, NEW t \in DOMAIN running,
   GHub!ThreadTakes(t) PROVE CleanRun'
<1> USE DEF CleanRun
<1>1. /\ UNCHANGED <<eng, caller, thread, stopped, reply, sdk, lit>>
      /\ running[t] = GHub!NoJob /\ queue # <<>>
      /\ running' = [running EXCEPT ![t] = Head(queue)] /\ queue' = Tail(queue)
  BY DEF GHub!ThreadTakes
<1>2. thread # 0 /\ t = thread
  BY <1>1 DEF Threads
<1>3. \A j : Only(j) => Only(j)'
  BY <1>1, <1>2 DEF Only
<1>4. ~Quiet /\ ~Behind /\ TheCall' = TheCall
  BY <1>1, <1>2, NoJobIsNone DEF Quiet, Behind, TheCall
<1>5. Threads'
  BY <1>1, <1>2 DEF Threads
<1>6. Places'
  <2>1. caller.at \in GHub!Waiting /\ reply = GHub!Nothing => Only(TheCall)'
    BY <1>3, <1>4 DEF Places
  <2>2. caller.at \in {"idle", "drain"} /\ eng.initialized => \E j \in Commits : Only(j)'
    BY <1>3, <1>4 DEF Places
  <2>3. QED
    BY <1>1, <1>2, <1>4, <2>1, <2>2 DEF Places
<1>7. LitShown'
  BY <1>1, <1>3, <1>4 DEF LitShown, GHub!CommitOf
<1>8. QED
  BY <1>1, <1>5, <1>6, <1>7 DEF Phases, SdkHeld, Holding

\* Which jobs a thread of a clean run can be at.
LEMMA RunsWhat ==
    ASSUME PumpTypeInv, CleanRun, caller.at # "gone", NEW t \in DOMAIN running,
       running[t] # GHub!NoJob
    PROVE  /\ t = thread /\ thread # 0 /\ ~Quiet
           /\ \/ caller.at \in GHub!Waiting /\ reply = GHub!Nothing /\ queue = <<>>
                 /\ running[t] = TheCall
              \/ Behind /\ reply = GHub!Nothing
              \/ /\ caller.at \in {"idle", "drain"} /\ eng.initialized
                 /\ queue = <<>> /\ running[t] \in Commits
<1>1. t = thread /\ thread # 0
  BY DEF CleanRun, Threads
<1>2. caller.at \in GHub!Waiting \cup {"idle", "drain", "join", "gone"}
  BY DEF PumpTypeInv, CallerTypes, Callers
<1>3. ~Quiet
  BY <1>1 DEF Quiet
<1>4. caller.at # "join"
  BY <1>1 DEF CleanRun, Threads
<1>5. QED
  <2>1. CASE caller.at \in GHub!Waiting
    BY <1>1, <1>3, <2>1 DEF CleanRun, Places, Only, Behind
  <2>2. CASE caller.at \in {"idle", "drain"}
    <3>1. eng.initialized
      BY <1>1, <1>3, <2>2 DEF CleanRun, Places, Phases, GHub!Waiting
    <3>2. QED
      BY <1>1, <1>3, <2>2, <3>1 DEF CleanRun, Places, Only
  <2>3. QED
    BY <1>2, <1>4, <1>1, <1>3, <2>1, <2>2
LEMMA ThreadRunsRun ==
    ASSUME PumpTypeInv, CleanRun, caller.at # "gone", NEW t \in DOMAIN running,
       GHub!ThreadRuns(t), clean'
    PROVE  CleanRun'
<1> USE DEF CleanRun
<1> DEFINE job == running[t]
<1>1. PICK answer \in GHub!SdkAnswers(t, job) :
        /\ sdk' = IF answer = "ok" THEN GHub!SdkAfter(t, job) ELSE sdk
        /\ reply' = IF job.waited THEN answer ELSE reply
        /\ clean' = (clean /\ answer # "raised")
        /\ lit' = IF job.kind = "commit" /\ answer # "ok" THEN GHub!Nothing ELSE lit
  BY DEF GHub!ThreadRuns
<1>2. /\ UNCHANGED <<eng, caller, queue, thread, stopped>> /\ job # GHub!NoJob
      /\ running' = [running EXCEPT ![t] = GHub!NoJob]
  BY DEF GHub!ThreadRuns
<1>3. answer \in {"ok", "refused"} /\ (job.kind \in {"shutdown", "exit"} => answer = "ok")
  BY <1>1 DEF GHub!SdkAnswers
<1>4. t = thread /\ thread # 0 /\ ~Quiet /\ running'[thread] = GHub!NoJob
  BY <1>2, RunsWhat
<1>5. Threads' /\ (queue = <<>> => Quiet')
  BY <1>2, <1>4 DEF Threads, Quiet
<1>6. CASE caller.at \in GHub!Waiting /\ reply = GHub!Nothing /\ queue = <<>> /\ job = TheCall
  <2>1. /\ job.kind = caller.at /\ job.colour = caller.colour /\ ~job.nudged /\ job.waited
        /\ job.nudged = FALSE
    BY <1>6 DEF TheCall, GHub!Job
  <2>2. reply' = answer /\ reply' # GHub!Nothing /\ lit' = lit
    BY <1>1, <1>3, <2>1, <1>6 DEF GHub!Nothing, GHub!Waiting
  <2>3. Places'
    BY <1>2, <1>3, <1>5, <1>6, <2>2 DEF Places, GHub!Waiting
  <2>4. Phases'
    BY <1>2, <1>6, <2>2 DEF Phases
  <2>5. SdkHeld'
    <3>1. CASE caller.at = "init"
      <4>1. sdk = GHub!Released
        BY <1>6, <3>1 DEF SdkHeld, Holding, GHub!Nothing
      <4>2. GHub!SdkAfter(t, job) = [sdk EXCEPT !.held = @ \cup {t}]
        BY <2>1, <3>1 DEF GHub!SdkAfter
      <4>3. QED
        BY <1>1, <1>2, <1>3, <1>4, <2>2, <3>1, <4>1, <4>2 DEF SdkHeld, Holding, GHub!Released
    <3>2. CASE caller.at \in {"shutdown", "exit"}
      <4>1. sdk.held = {thread}
        BY <1>6, <3>2 DEF SdkHeld, Holding, Phases, GHub!Waiting
      <4>2. GHub!SdkAfter(t, job) = GHub!Released
        BY <1>4, <2>1, <3>2, <4>1 DEF GHub!SdkAfter
      <4>3. QED
        BY <1>1, <1>2, <1>3, <2>1, <2>2, <3>2, <4>2 DEF SdkHeld, Holding
    <3>3. CASE caller.at \in {"target", "save", "restore", "paint"}
      <4>1. sdk.held = {thread} /\ eng.initialized
        BY <1>6, <3>3 DEF SdkHeld, Holding, Phases, GHub!Waiting
      <4>2. GHub!SdkAfter(t, job).held = sdk.held
        BY <2>1, <3>3 DEF GHub!SdkAfter, GHub!Lighting, PumpTypeInv, SdkTypes
      <4>3. QED
        BY <1>1, <1>2, <3>3, <4>1, <4>2 DEF SdkHeld, Holding
    <3>4. QED
      BY <1>6, <3>1, <3>2, <3>3 DEF GHub!Waiting
  <2>6. LitShown'
    <3>1. ASSUME caller.at = "paint", reply' = "ok" PROVE sdk'.sent = <<caller.colour, FALSE>>
      BY <1>1, <2>1, <2>2, <3>1 DEF GHub!SdkAfter, GHub!Lighting, PumpTypeInv, SdkTypes
    <3>2. QED
      BY <1>2, <1>6, <2>2, <3>1 DEF LitShown, GHub!Waiting
  <2>7. QED
    BY <1>5, <2>3, <2>4, <2>5, <2>6
<1>7. CASE job \in Commits /\ reply = GHub!Nothing /\ eng.initialized
           /\ caller.at \notin {"init", "gone"}
  <2>1. job.kind = "commit" /\ ~job.waited /\ job.colour \in Colours
    BY <1>7 DEF Commits
  <2>2. reply' = reply
    BY <1>1, <2>1
  <2>3. Phases'
    BY <1>2, <2>2 DEF Phases
  <2>4. SdkHeld'
    <3>1. sdk.held = {thread}
      BY <1>7 DEF SdkHeld, Holding
    <3>2. GHub!SdkAfter(t, job).held = sdk.held
      BY <2>1 DEF GHub!SdkAfter, GHub!Lighting, PumpTypeInv, SdkTypes
    <3>3. QED
      BY <1>1, <1>2, <1>7, <2>2, <3>1, <3>2 DEF SdkHeld, Holding
  <2>5. CASE Behind
    <3>1. Only(TheCall)' /\ TheCall' = TheCall
      BY <1>2, <1>4, <2>5 DEF Behind, Only, TheCall
    <3>2. Places'
      BY <1>2, <1>7, <2>2, <2>5, <3>1 DEF Places, Behind, GHub!Waiting
    <3>3. LitShown'
      BY <1>2, <1>7, <2>2, <2>5 DEF LitShown, Behind, GHub!Nothing
    <3>4. QED
      BY <1>5, <2>3, <2>4, <3>2, <3>3
  <2>6. CASE caller.at \in {"idle", "drain"} /\ queue = <<>>
    <3>1. Places'
      BY <1>2, <1>5, <2>2, <2>6 DEF Places, GHub!Waiting
    <3>2. ASSUME caller.at = "idle", lit' # GHub!Nothing
          PROVE  eng.saved /\ sdk'.sent = <<lit', TRUE>> /\ sdk'.shown = lit'
      <4>1. answer = "ok" /\ lit' = lit
        BY <1>1, <2>1, <3>2
      <4>2. eng.saved /\ job = GHub!CommitOf(lit) /\ sdk.sent = <<lit, FALSE>>
        BY <1>2, <1>4, <2>6, <3>2, <4>1 DEF LitShown, Only
      <4>3. job.colour = lit /\ job.nudged = TRUE
        BY <4>2 DEF GHub!CommitOf, GHub!Job
      <4>4. <<job.colour, job.nudged>> = <<lit, TRUE>> /\ sdk.sent # <<lit, TRUE>>
        <5>1. sdk.sent[2] = FALSE /\ sdk.sent[1] = lit
          BY <4>2
        <5>2. <<lit, TRUE>>[2] = TRUE
          OBVIOUS
        <5>3. sdk.sent # <<lit, TRUE>>
          BY <5>1, <5>2
        <5>4. QED
          BY <4>3, <5>3
      <4>5. sdk' = [sdk EXCEPT !.shown = sdk.sent[1], !.sent = <<job.colour, job.nudged>>]
        <5> HIDE DEF job
        <5>1. QED
          BY <1>1, <2>1, <4>1, <4>4 DEF GHub!SdkAfter, GHub!Lighting
      <4>6. sdk'.sent = <<lit, TRUE>> /\ sdk'.shown = lit
        <5> HIDE DEF job
        <5>1. QED
          <6>1. sdk.sent[1] = lit
            BY <4>2
          <6>2. sdk' = [sdk EXCEPT !.shown = lit, !.sent = <<lit, TRUE>>]
            BY <4>4, <4>5, <6>1
          <6>3. QED
            BY <6>2 DEF PumpTypeInv, SdkTypes
      <4>7. QED
        BY <4>1, <4>2, <4>6
    <3>3. LitShown'
      <4>1. caller.at = "drain" => lit' = GHub!Nothing
        BY <1>1 DEF LitShown
      <4>2. QED
        BY <1>2, <1>5, <2>6, <3>2, <4>1 DEF LitShown
    <3>4. QED
      BY <1>5, <2>3, <2>4, <3>1, <3>3
  <2>7. QED
    <3>1. caller.at \in GHub!Waiting => job # TheCall
      BY <2>1 DEF TheCall, GHub!Job, GHub!Waiting
    <3>2. QED
      <4> HIDE DEF CleanRun
      <4>1. QED
        BY <1>2, <1>7, <2>5, <2>6, <3>1, RunsWhat
<1>8. QED
  <2>1. Behind => caller.at \in {"paint", "exit"} /\ eng.initialized /\ job \in Commits
    BY <1>4 DEF Behind, Phases, GHub!Waiting
  <2>2. caller.at \in {"idle", "drain"} => reply = GHub!Nothing
    BY DEF Phases, GHub!Waiting
  <2>3. QED
    BY <1>2, <1>6, <1>7, <2>1, <2>2, RunsWhat

LEMMA PumpInvInit == ASSUME GHub!AttemptAssumption, GHub!CallsAssumption, GHub!Init
  PROVE PumpInv
<1>1. CleanRun
  BY DEF GHub!Init, CleanRun, Threads, Places, Phases, SdkHeld, Holding, LitShown,
         GHub!AtRest, GHub!Waiting
<1>2. QED
  BY <1>1, PumpTypesInit DEF PumpInv

LEMMA PumpInvStep ==
    ASSUME GHub!AttemptAssumption, GHub!CallsAssumption, PumpInv, GHub!Next PROVE PumpInv'
<1> USE DEF PumpInv
<1>1. PumpTypeInv'
  BY CallsKeepTypes, CallerKeepsTypes, ThreadKeepsTypes DEF GHub!Next
<1>2. ASSUME clean' PROVE CleanRun'
  <2>1. /\ clean
        /\ caller.at # "gone" /\ ~GHub!WaitTimesOut
    <3>1. ~GHub!WaitTimesOut
      BY <1>2 DEF GHub!WaitTimesOut
    <3>2. GHub!Calls \/ GHub!CooldownEnds => clean
      BY <1>2
         DEF GHub!Calls, GHub!Open, GHub!SetColor, GHub!Close, GHub!Exit, GHub!CooldownEnds
    <3>3. GHub!CallerSteps => clean
      BY <1>2, <3>1
         DEF GHub!CallerSteps, GHub!InitAnswered, GHub!TargetAnswered, GHub!SaveAnswered,
             GHub!PaintAnswered,
         GHub!Drained, GHub!RestoreAnswered, GHub!ShutdownAnswered, GHub!Joined,
            GHub!ExitAnswered
    <3>4. \A t \in DOMAIN running : GHub!PumpThread(t) => clean
      BY <1>2 DEF GHub!PumpThread, GHub!ThreadEnds, GHub!ThreadTakes, GHub!ThreadRuns
    <3>5. QED
      BY <3>1, <3>2, <3>3, <3>4 DEF GHub!Next
  <2>2. CASE GHub!Calls
    BY <2>1, <2>2, OpenRun, SetColorRun, CloseRun, ExitRun DEF GHub!Calls
  <2>3. CASE GHub!TargetAnswered
    <3>1. caller.at = "target" /\ Quiet /\ reply \in {"ok", "refused"}
      BY <2>1, <2>3, AnsweredIs DEF GHub!TargetAnswered, GHub!Waiting
    <3>2. QED
      BY <2>1, <2>3, <3>1, NextCallRun DEF GHub!TargetAnswered
  <2>4. CASE GHub!RestoreAnswered
    <3>1. caller.at = "restore" /\ Quiet
      BY <2>1, <2>4, AnsweredIs DEF GHub!RestoreAnswered, GHub!Waiting
    <3>2. QED
      BY <2>1, <2>4, <3>1, NextCallRun DEF GHub!RestoreAnswered
  <2>5. CASE GHub!CallerSteps /\ ~GHub!TargetAnswered /\ ~GHub!RestoreAnswered
    BY <1>2, <2>1, <2>5, InitAnsweredRun, SaveAnsweredRun, PaintAnsweredRun, DrainedRun,
       ShutdownAnsweredRun, JoinedRun, ExitAnsweredRun DEF GHub!CallerSteps
  <2>6. ASSUME NEW t \in DOMAIN running, GHub!PumpThread(t) PROVE CleanRun'
    BY <1>2, <2>1, <2>6, ThreadEndsRun, ThreadTakesRun, ThreadRunsRun DEF GHub!PumpThread
  <2>7. QED
    BY <2>1, <2>2, <2>3, <2>4, <2>5, <2>6, CooldownRun DEF GHub!Next
<1>3. QED
  BY <1>1, <1>2

LEMMA PumpInvStutters == ASSUME PumpInv, UNCHANGED GHub!gvars PROVE PumpInv'
<1>1. /\ UNCHANGED <<eng, caller, queue, running, thread, stopped, reply, sdk, clean, lit,
            calls>>
  BY DEF GHub!gvars, GHub!pump
<1>2. PumpTypeInv'
  BY <1>1 DEF PumpInv, PumpTypeInv, CallerTypes, PumpTypes, SdkTypes, EngTypes
<1>3. CleanRun' <=> CleanRun
  BY <1>1
     DEF CleanRun, Threads, Places, Phases, SdkHeld, Holding, LitShown, Quiet, Only, Behind,
         TheCall
<1>4. QED
  BY <1>1, <1>2, <1>3 DEF PumpInv

LEMMA PumpSafe ==
    ASSUME PumpInv
    PROVE  GHub!TypeOK /\ GHub!ClosedIsReleased /\ GHub!OpenThreadHoldsTheSdk
           /\ GHub!PaintedIsShown
<1> USE DEF PumpInv
<1>1. GHub!TypeOK
  <2>1. queue \in Seq(GHub!Jobs) /\ \A t \in DOMAIN running : running[t] \in GHub!Jobs
    BY WorkIsJob DEF PumpTypeInv, PumpTypes
  <2>2. QED
    BY <2>1
       DEF GHub!TypeOK, PumpTypeInv, CallerTypes, Callers, PumpTypes, SdkTypes, EngTypes, Engs
<1>2. GHub!ClosedIsReleased
  <2>1. SUFFICES ASSUME clean,
                        \/ caller.at = "gone"
                        \/ caller.at = "idle" /\ ~eng.saved /\ ~eng.initialized
                 PROVE  sdk = GHub!Released /\ queue = <<>>
    BY DEF GHub!ClosedIsReleased, GHub!Resting
  <2>2. sdk = GHub!Released
    BY <2>1 DEF CleanRun, SdkHeld, Holding
  <2>3. queue = <<>>
    BY <2>1 DEF CleanRun, Places, Quiet, Threads
  <2>4. QED
    BY <2>2, <2>3
<1>3. GHub!OpenThreadHoldsTheSdk
  BY DEF GHub!OpenThreadHoldsTheSdk, CleanRun, Phases, Threads, SdkHeld, Holding
<1>4. GHub!PaintedIsShown
  <2>1. SUFFICES ASSUME caller.at = "idle", clean, GHub!PumpIdle, lit # GHub!Nothing
                        PROVE sdk.shown = lit
    BY DEF GHub!PaintedIsShown
  <2>2. eng.saved /\ thread # 0
    BY <2>1 DEF CleanRun, LitShown, Phases
  <2>3. queue = <<>> /\ running[thread] = GHub!NoJob
    BY <2>1, <2>2 DEF GHub!PumpIdle, CleanRun, Threads
  <2>4. GHub!CommitOf(lit) # GHub!NoJob
    BY NoJobIsNone DEF GHub!CommitOf, GHub!Nothing
  <2>5. QED
    BY <2>1, <2>3, <2>4 DEF CleanRun, LitShown, Only
<1>5. QED
  BY <1>1, <1>2, <1>3, <1>4
--------------------------------------------------------------------------------
(* The sidecar: the inductive invariant                                           *)

FrontType  == [saved : BOOLEAN, failures : 0 .. FailureLimit, note : BOOLEAN,
               cooldown : BOOLEAN]
Commands   == {"open", "set_color", "close", "stop"}
Lines      == [cmd : Commands, id : Nat]
Replies    == [id : Int, ok : BOOLEAN]
WorkerType == [state : {"up", "killed", "dead"}, stdin : Seq(Lines),
               replies : Seq(Replies), open : BOOLEAN]

SidecarTypes ==
    /\ front \in FrontType
    /\ client \in [proc : Nat, broken : BOOLEAN]
    /\ client.proc \in {0} \cup DOMAIN workers
    /\ rpc \in [cmd : Commands \cup {"none"}, id : Nat, to : Nat]
    /\ nextId \in Nat \ {0}
    /\ workers \in Seq(WorkerType)
    /\ halted \in BOOLEAN

\* The request in flight went to the parent's worker, or to the last one when it stops.
RequestOK ==
    /\ rpc.cmd = "none" => rpc = Sidecar!Idle
    /\ rpc # Sidecar!Idle => rpc.id > 0 /\ rpc.to \in DOMAIN workers
    /\ rpc.cmd \in {"open", "set_color", "close"} => rpc.to = client.proc /\ ~client.broken
    /\ halted => client.proc = 0 /\ rpc.cmd \in {"none", "stop"}
    /\ rpc.cmd = "stop" => halted
    /\ rpc.cmd = "set_color" => front.saved
    /\ rpc.cmd = "close" => ~front.saved

Asked(w) == rpc # Sidecar!Idle /\ w = rpc.to

\* A worker that runs is the parent's, and not given up, or it was told to stop; only one
\* that runs has the engine open.
Process(w) ==
    /\ workers[w].state # "up" => ~workers[w].open
    /\ workers[w].state = "up" =>
          (w = client.proc /\ ~client.broken) \/ (Asked(w) /\ rpc.cmd = "stop")

\* What is in a running worker's pipes: the request in flight on its way there, or its
\* one reply on its way back, and stray lines.
Pipe(w) ==
    workers[w].state = "up" =>
        /\ workers[w].stdin # <<>> =>
              /\ Asked(w)
              /\ Len(workers[w].stdin) = 1
              /\ workers[w].stdin[1] = [cmd |-> rpc.cmd, id |-> rpc.id]
        /\ \A i \in DOMAIN workers[w].replies : workers[w].replies[i].id > 0 =>
              /\ Asked(w) /\ workers[w].replies[i].id = rpc.id
              /\ workers[w].stdin = <<>>
              /\ \A j \in DOMAIN workers[w].replies : workers[w].replies[j].id > 0 => i = j

\* The session as the worker has it, against the parent's or the reply's word for it.
Session(w) ==
    workers[w].state = "up" =>
        /\ ~Asked(w) => (front.saved <=> workers[w].open)
        /\ Asked(w) /\ rpc.cmd = "set_color" => workers[w].open
        /\ \A i \in DOMAIN workers[w].replies : workers[w].replies[i].id > 0 =>
              /\ rpc.cmd = "open" => (workers[w].replies[i].ok <=> workers[w].open)
              /\ rpc.cmd \in {"close", "stop"} => ~workers[w].open

Good(w) == Process(w) /\ Pipe(w) /\ Session(w)
SidecarInv     == SidecarTypes /\ RequestOK /\ \A w \in DOMAIN workers : Good(w)

--------------------------------------------------------------------------------
(* Workers and their pipes as data *)

LEMMA FreshIsWorker ==
    /\ Sidecar!Up \in WorkerType
    /\ \A st \in {"up", "killed", "dead"} : [Sidecar!Up EXCEPT !.state = st] \in WorkerType
BY EmptySeq DEF Sidecar!Up, WorkerType

LEMMA WorkerParts ==
    ASSUME NEW ws \in Seq(WorkerType), NEW w \in DOMAIN ws
    PROVE  /\ ws[w] \in WorkerType /\ ws[w].open \in BOOLEAN
           /\ ws[w].stdin \in Seq(Lines) /\ ws[w].replies \in Seq(Replies)
<1>1. ws[w] \in WorkerType
  BY ElementOfSeq, LenProperties
<1>2. QED
  BY <1>1 DEF WorkerType

LEMMA PutWorker ==
    ASSUME NEW ws \in Seq(WorkerType), NEW w \in DOMAIN ws, NEW r \in WorkerType
    PROVE  /\ [ws EXCEPT ![w] = r] \in Seq(WorkerType)
           /\ DOMAIN [ws EXCEPT ![w] = r] = DOMAIN ws
           /\ [ws EXCEPT ![w] = r][w] = r
           /\ \A v \in DOMAIN ws \ {w} : [ws EXCEPT ![w] = r][v] = ws[v]
BY ExceptSeq, LenProperties

LEMMA KilledFacts ==
    ASSUME NEW ws \in Seq(WorkerType), NEW w \in DOMAIN ws, ws[w].state # "up" => ~ws[w].open
    PROVE  /\ Sidecar!Killed(ws, w) \in Seq(WorkerType)
              /\ DOMAIN Sidecar!Killed(ws, w) = DOMAIN ws
           /\ \A v \in DOMAIN ws \ {w} : Sidecar!Killed(ws, w)[v] = ws[v]
           /\ Sidecar!Killed(ws, w)[w].state # "up" /\ ~Sidecar!Killed(ws, w)[w].open
<1>1. CASE ws[w].state # "up"
  BY <1>1 DEF Sidecar!Killed
<1>2. CASE ws[w].state = "up"
  <2> DEFINE r == [Sidecar!Up EXCEPT !.state = "killed", !.replies = Append(ws[w].replies,
    Sidecar!Eof)]
  <2>1. ws[w] \in WorkerType
    BY ElementOfSeq
  <2>2. Append(ws[w].replies, Sidecar!Eof) \in Seq(Replies)
    BY <2>1, AppendProperties DEF WorkerType, Replies, Sidecar!Eof
  <2>3. r \in WorkerType /\ r.state = "killed" /\ ~r.open
    BY <2>2, EmptySeq DEF Sidecar!Up, WorkerType
  <2>4. Sidecar!Killed(ws, w) = [ws EXCEPT ![w] = r]
    BY <1>2 DEF Sidecar!Killed
  <2> HIDE DEF r
  <2>5. QED
    BY <2>3, <2>4, PutWorker
<1>3. QED
  BY <1>1, <1>2

LEMMA BuriedFacts ==
    ASSUME SidecarTypes
    PROVE  /\ Sidecar!Buried \in Seq(WorkerType) /\ DOMAIN Sidecar!Buried = DOMAIN workers
           /\ \A w \in DOMAIN workers \ {client.proc} : Sidecar!Buried[w] = workers[w]
           /\ client.proc # 0 => Sidecar!Buried[client.proc].state = "dead"
              /\ ~Sidecar!Buried[client.proc].open
<1>1. CASE client.proc = 0
  BY <1>1 DEF Sidecar!Buried, SidecarTypes
<1>2. CASE client.proc # 0
  <2>1. client.proc \in DOMAIN workers
        /\ Sidecar!Buried = [workers EXCEPT ![client.proc] = [Sidecar!Up EXCEPT !.state = "dead"]]
    BY <1>2 DEF Sidecar!Buried, SidecarTypes
  <2>2. QED
    BY <2>1, FreshIsWorker, ExceptSeq DEF SidecarTypes, Sidecar!Up
<1>3. QED
  BY <1>1, <1>2

LEMMA EndedFacts ==
    ASSUME NEW ws \in Seq(WorkerType), rpc.to \in DOMAIN ws
    PROVE  /\ Sidecar!Ended(ws) \in Seq(WorkerType) /\ DOMAIN Sidecar!Ended(ws) = DOMAIN ws
           /\ \A w \in DOMAIN ws \ {rpc.to} : Sidecar!Ended(ws)[w] = ws[w]
           /\ Sidecar!Ended(ws)[rpc.to].state = "dead" /\ ~Sidecar!Ended(ws)[rpc.to].open
BY FreshIsWorker, ExceptSeq DEF Sidecar!Ended, Sidecar!Up

\* A request put into a pipe changes nothing else.
LEMMA SendFacts ==
    ASSUME NEW ws \in Seq(WorkerType), NEW w \in DOMAIN ws, NEW cmd \in Commands,
           nextId \in Nat \ {0}, Sidecar!Send(cmd, w, ws)
    PROVE  /\ workers' \in Seq(WorkerType) /\ DOMAIN workers' = DOMAIN ws
           /\ \A v \in DOMAIN ws \ {w} : workers'[v] = ws[v]
           /\ workers'[w].state = ws[w].state /\ workers'[w].open = ws[w].open
           /\ workers'[w].replies = ws[w].replies
           /\ workers'[w].stdin = Append(ws[w].stdin, [cmd |-> cmd, id |-> nextId])
           /\ rpc' = [cmd |-> cmd, id |-> nextId, to |-> w] /\ rpc' # Sidecar!Idle
           /\ nextId' \in Nat \ {0}
<1> DEFINE line == [cmd |-> cmd, id |-> nextId]
           r    == [ws[w] EXCEPT !.stdin = Append(@, line)]
<1>1. ws[w] \in WorkerType
  BY ElementOfSeq
<1>2. Append(ws[w].stdin, line) \in Seq(Lines)
  BY <1>1, AppendProperties DEF WorkerType, Lines
<1>3. r \in WorkerType
  BY <1>1, <1>2 DEF WorkerType
<1>4. workers' = [ws EXCEPT ![w] = r]
  BY DEF Sidecar!Send
<1>5. /\ r.state = ws[w].state /\ r.open = ws[w].open /\ r.replies = ws[w].replies
      /\ r.stdin = Append(ws[w].stdin, line)
  BY <1>1 DEF WorkerType
<1>6. /\ rpc' = [cmd |-> cmd, id |-> nextId, to |-> w] /\ rpc' # Sidecar!Idle
      /\ nextId' \in Nat \ {0}
  BY DEF Sidecar!Send, Sidecar!Idle, Commands
<1> HIDE DEF r
<1>7. QED
  BY <1>3, <1>4, <1>5, <1>6, PutWorker

\* A worker that does not run has nothing to be judged by.
LEMMA StoppedIsGood ==
    ASSUME NEW w, workers'[w].state # "up", ~workers'[w].open
    PROVE  Good(w)'
BY DEF Good, Process, Pipe, Session

\* Only the worker a request would go to, or went to, runs.
LEMMA OneRuns ==
    ASSUME SidecarInv, NEW w \in DOMAIN workers, workers[w].state = "up"
    PROVE  /\ rpc = Sidecar!Idle => w = client.proc /\ ~client.broken
           /\ rpc # Sidecar!Idle => w = rpc.to
BY DEF SidecarInv, SidecarTypes, RequestOK, Good, Process, Asked, Sidecar!Idle, Commands

\* A request goes to a worker with nothing in its pipe but stray lines, and to no other.
LEMMA SendIsGood ==
    ASSUME SidecarInv, NEW ws \in Seq(WorkerType), NEW w \in DOMAIN ws, NEW cmd \in Commands,
           Sidecar!Send(cmd, w, ws),
           \A v \in DOMAIN ws : ws[v].state # "up" => ~ws[v].open,
           \A v \in DOMAIN ws \ {w} : ws[v].state # "up",
           ws[w].state = "up" =>
               /\ ws[w].stdin = <<>>
               /\ \A i \in DOMAIN ws[w].replies : ws[w].replies[i].id <= 0
               /\ cmd = "set_color" => ws[w].open,
           cmd # "stop" => client'.proc = w /\ ~client'.broken
    PROVE  /\ workers' \in Seq(WorkerType) /\ DOMAIN workers' = DOMAIN ws
           /\ \A v \in DOMAIN workers' : Good(v)'
<1> DEFINE line == [cmd |-> cmd, id |-> nextId]
<1>1. /\ workers' \in Seq(WorkerType) /\ DOMAIN workers' = DOMAIN ws
      /\ \A v \in DOMAIN ws \ {w} : workers'[v] = ws[v]
      /\ workers'[w].state = ws[w].state /\ workers'[w].open = ws[w].open
      /\ workers'[w].replies = ws[w].replies
      /\ workers'[w].stdin = Append(ws[w].stdin, line)
      /\ rpc' = [cmd |-> cmd, id |-> nextId, to |-> w] /\ rpc' # Sidecar!Idle
      /\ nextId' \in Nat \ {0}
  BY SendFacts DEF SidecarInv, SidecarTypes
<1>2. ASSUME NEW v \in DOMAIN workers' \ {w} PROVE Good(v)'
  BY <1>1, <1>2, StoppedIsGood
<1>3. CASE ws[w].state # "up"
  BY <1>1, <1>3, StoppedIsGood
<1>4. CASE ws[w].state = "up"
  <2>1. Asked(w)'
    BY <1>1 DEF Asked
  <2>2. Process(w)'
    BY <1>1, <1>4, <2>1 DEF Process
  <2>3. workers'[w].stdin # <<>> /\ Len(workers'[w].stdin) = 1 /\ workers'[w].stdin[1] = line
    <3>1. line \in Lines /\ <<>> \in Seq(Lines) /\ workers'[w].stdin = Append(<<>>, line)
      BY <1>1, <1>4, EmptySeq DEF Lines, SidecarInv, SidecarTypes
    <3>2. QED
      BY <3>1
  <2>4. ws[w].replies \in Seq(Replies)
    BY WorkerParts
  <2>5. \A i \in DOMAIN workers'[w].replies : ~(workers'[w].replies[i].id > 0)
    <3> SUFFICES ASSUME NEW i \in DOMAIN ws[w].replies PROVE ~(ws[w].replies[i].id > 0)
      BY <1>1
    <3>1. ws[w].replies[i] \in Replies /\ ws[w].replies[i].id <= 0
      BY <1>4, <2>4
    <3>2. QED
      BY <3>1 DEF Replies
  <2>6. Pipe(w)'
    BY <1>1, <2>1, <2>3, <2>5 DEF Pipe
  <2>7. Session(w)'
    BY <1>1, <1>4, <2>1, <2>5 DEF Session
  <2>8. Good(w)'
    BY <2>2, <2>6, <2>7 DEF Good
  <2>9. QED
    BY <1>1, <1>2, <2>8
<1>5. QED
  BY <1>1, <1>2, <1>3, <1>4

\* Between requests the worker that will be asked has nothing but stray lines in its pipe,
\* and both sides agree on the session.
LEMMA ReadyIsQuiet ==
    ASSUME SidecarInv, rpc = Sidecar!Idle, NEW w \in DOMAIN workers, workers[w].state = "up"
    PROVE  /\ workers[w].stdin = <<>> /\ (front.saved <=> workers[w].open)
           /\ \A i \in DOMAIN workers[w].replies : workers[w].replies[i].id <= 0
<1>1. Good(w) /\ ~Asked(w)
  BY DEF SidecarInv, Asked
<1>2. workers[w].stdin = <<>> /\ (front.saved <=> workers[w].open)
  BY <1>1 DEF Good, Pipe, Session
<1>3. ASSUME NEW i \in DOMAIN workers[w].replies PROVE workers[w].replies[i].id <= 0
  <2>1. workers[w].replies \in Seq(Replies)
    BY WorkerParts DEF SidecarInv, SidecarTypes
  <2>2. workers[w].replies[i] \in Replies
    BY <2>1
  <2>3. ~(workers[w].replies[i].id > 0)
    BY <1>1 DEF Good, Pipe
  <2>4. QED
    BY <2>2, <2>3 DEF Replies
<1>4. QED
  BY <1>2, <1>3

--------------------------------------------------------------------------------
(* The engine's calls *)

LEMMA AliveIsSteady ==
    ASSUME SidecarInv, Sidecar!Alive
    PROVE  client.proc \in DOMAIN workers /\ ~client.broken
BY DEF SidecarInv, SidecarTypes, Sidecar!Alive

LEMMA SendToParents ==
    ASSUME SidecarInv, rpc = Sidecar!Idle, Sidecar!Alive, NEW cmd \in Commands \ {"stop"},
       Sidecar!Send(cmd, client.proc, workers),
           cmd = "set_color" => front.saved, UNCHANGED client
    PROVE  /\ workers' \in Seq(WorkerType) /\ DOMAIN workers' = DOMAIN workers
           /\ \A w \in DOMAIN workers' : Good(w)'
           /\ rpc' = [cmd |-> cmd, id |-> nextId, to |-> client.proc] /\ rpc' # Sidecar!Idle
           /\ nextId' \in Nat \ {0}
<1>1. client.proc \in DOMAIN workers /\ ~client.broken /\ workers \in Seq(WorkerType)
      /\ nextId \in Nat \ {0}
  BY AliveIsSteady DEF SidecarInv, SidecarTypes
<1>2. \A w \in DOMAIN workers : workers[w].state # "up" => ~workers[w].open
  BY DEF SidecarInv, Good, Process
<1>3. \A w \in DOMAIN workers \ {client.proc} : workers[w].state # "up"
  BY OneRuns
<1>4. workers[client.proc].state = "up" =>
          /\ workers[client.proc].stdin = <<>>
          /\ \A i \in DOMAIN workers[client.proc].replies : workers[client.proc].replies[i].id <= 0
          /\ cmd = "set_color" => workers[client.proc].open
  BY <1>1, ReadyIsQuiet
<1>5. cmd \in Commands /\ cmd # "stop" /\ client'.proc = client.proc /\ ~client'.broken
  BY <1>1
<1>6. /\ workers' \in Seq(WorkerType) /\ DOMAIN workers' = DOMAIN workers
      /\ \A w \in DOMAIN workers' : Good(w)'
  BY <1>1, <1>2, <1>3, <1>4, <1>5, SendIsGood
<1>7. /\ rpc' = [cmd |-> cmd, id |-> nextId, to |-> client.proc] /\ rpc' # Sidecar!Idle
      /\ nextId' \in Nat \ {0}
  BY <1>1, <1>5 DEF Sidecar!Send, Sidecar!Idle, Commands
<1>8. QED
  BY <1>6, <1>7

LEMMA SidecarOpenKeeps == ASSUME SidecarInv, Sidecar!Open PROVE SidecarInv'
<1>1. rpc = Sidecar!Idle /\ ~halted /\ UNCHANGED halted
  BY DEF Sidecar!Open
<1>2. CASE Sidecar!Alive /\ Sidecar!Send("open", client.proc, workers)
           /\ UNCHANGED <<front, client>>
  <2>1. /\ workers' \in Seq(WorkerType) /\ DOMAIN workers' = DOMAIN workers
        /\ \A w \in DOMAIN workers' : Good(w)'
        /\ rpc' = [cmd |-> "open", id |-> nextId, to |-> client.proc] /\ rpc' # Sidecar!Idle
        /\ nextId' \in Nat \ {0}
    BY <1>1, <1>2, SendToParents DEF Commands
  <2>2. QED
    BY <1>1, <1>2, <2>1, AliveIsSteady DEF SidecarInv, SidecarTypes, RequestOK, Commands
<1>3. CASE /\ ~Sidecar!Alive /\ UNCHANGED front
           /\ LET w == Len(workers) + 1
              IN  /\ client' = [proc |-> w, broken |-> FALSE]
                  /\ Sidecar!Send("open", w, Append(Sidecar!Buried, Sidecar!Up))
  <2> DEFINE w  == Len(workers) + 1
             ws == Append(Sidecar!Buried, Sidecar!Up)
  <2>1. /\ Sidecar!Buried \in Seq(WorkerType) /\ Len(Sidecar!Buried) = Len(workers)
           /\ Len(workers) \in Nat
        /\ \A v \in DOMAIN workers : Sidecar!Buried[v].state # "up" /\ ~Sidecar!Buried[v].open
    <3>1. /\ Sidecar!Buried \in Seq(WorkerType) /\ DOMAIN Sidecar!Buried = DOMAIN workers
          /\ workers \in Seq(WorkerType)
      BY BuriedFacts DEF SidecarInv, SidecarTypes
    <3>2. Len(Sidecar!Buried) = Len(workers) /\ Len(workers) \in Nat
      BY <3>1, LenProperties
    <3>3. ASSUME NEW v \in DOMAIN workers PROVE Sidecar!Buried[v].state # "up"
                 /\ ~Sidecar!Buried[v].open
      <4>1. CASE v = client.proc
        <5>1. client.proc # 0
          BY <3>1, <4>1, LenProperties
        <5>2. QED
          BY <4>1, <5>1, BuriedFacts DEF SidecarInv
      <4>2. CASE v # client.proc
        BY <1>1, <4>2, BuriedFacts, OneRuns DEF SidecarInv, Good, Process
      <4>3. QED
        BY <4>1, <4>2
    <3>4. QED
      BY <3>1, <3>2, <3>3
  <2>2. /\ ws \in Seq(WorkerType) /\ DOMAIN ws = 1 .. w /\ w \in Nat /\ w > 0
        /\ ws[w] = Sidecar!Up /\ \A v \in DOMAIN workers : ws[v] = Sidecar!Buried[v]
        /\ DOMAIN workers = 1 .. Len(workers)
    <3>1. /\ ws \in Seq(WorkerType) /\ Len(ws) = Len(Sidecar!Buried) + 1
             /\ ws[Len(Sidecar!Buried) + 1] = Sidecar!Up
          /\ \A v \in 1 .. Len(Sidecar!Buried) : ws[v] = Sidecar!Buried[v]
      BY <2>1, FreshIsWorker, AppendProperties
    <3>2. DOMAIN workers = 1 .. Len(workers) /\ DOMAIN ws = 1 .. Len(ws)
      BY <3>1, LenProperties DEF SidecarInv, SidecarTypes
    <3>3. QED
      BY <2>1, <3>1, <3>2
  <2>3. \A v \in DOMAIN ws \ {w} : ws[v].state # "up" /\ ~ws[v].open
    BY <2>1, <2>2
  <2>4. /\ ws[w].state = "up" /\ ws[w].stdin = <<>>
        /\ \A i \in DOMAIN ws[w].replies : ws[w].replies[i].id <= 0
    BY <2>2 DEF Sidecar!Up
  <2>5. Sidecar!Send("open", w, ws) /\ client' = [proc |-> w, broken |-> FALSE]
    BY <1>3
  <2> HIDE DEF ws, w
  <2>6. /\ workers' \in Seq(WorkerType) /\ DOMAIN workers' = DOMAIN ws
        /\ \A v \in DOMAIN workers' : Good(v)'
    <3>1. "open" \in Commands /\ "open" \notin {"set_color", "stop"}
      BY DEF Commands
    <3>2. w \in DOMAIN ws /\ ws \in Seq(WorkerType)
      BY <2>2
    <3>3. /\ \A v \in DOMAIN ws : ws[v].state # "up" => ~ws[v].open
          /\ \A v \in DOMAIN ws \ {w} : ws[v].state # "up"
      BY <2>3, <2>4
    <3>4. client'.proc = w /\ ~client'.broken
      BY <2>5
    <3>5. QED
      BY <2>4, <2>5, <3>1, <3>2, <3>3, <3>4, SendIsGood
  <2>7. /\ rpc' = [cmd |-> "open", id |-> nextId, to |-> w] /\ rpc' # Sidecar!Idle
        /\ nextId' \in Nat \ {0} /\ nextId \in Nat \ {0}
    BY <2>2, <2>5, SendFacts DEF SidecarInv, SidecarTypes, Commands
  <2>8. QED
    BY <1>1, <1>3, <2>2, <2>5, <2>6, <2>7 DEF SidecarInv, SidecarTypes, RequestOK, Commands
<1>4. CASE /\ ~Sidecar!Alive /\ front' = Sidecar!Refused(front) /\ workers' = Sidecar!Buried
           /\ client' = [client EXCEPT !.proc = 0] /\ UNCHANGED <<rpc, nextId>>
  <2>1. /\ workers' \in Seq(WorkerType) /\ DOMAIN workers' = DOMAIN workers
        /\ \A v \in DOMAIN workers \ {client.proc} : workers'[v] = workers[v]
        /\ client.proc # 0 => workers'[client.proc].state = "dead"
           /\ ~workers'[client.proc].open
    BY <1>4, BuriedFacts DEF SidecarInv
  <2>2. ASSUME NEW v \in DOMAIN workers PROVE workers'[v].state # "up" /\ ~workers'[v].open
    <3>1. 0 \notin DOMAIN workers
      BY LenProperties DEF SidecarInv, SidecarTypes
    <3>2. QED
      BY <1>1, <2>1, <3>1, OneRuns DEF SidecarInv, Good, Process
  <2>3. \A v \in DOMAIN workers' : Good(v)'
    BY <2>1, <2>2, StoppedIsGood
  <2>4. QED
    BY <1>1, <1>4, <2>1, <2>3
       DEF SidecarInv, SidecarTypes, RequestOK, Sidecar!Refused, Sidecar!Idle, FrontType
<1>5. QED
  BY <1>2, <1>3, <1>4 DEF Sidecar!Open

LEMMA PaintedKeeps ==
    ASSUME Sidecar!LimitAssumption, NEW f, NEW ok \in BOOLEAN,
           f \in FrontType
    PROVE  /\ Sidecar!Painted(f, ok) \in FrontType
           /\ Sidecar!Painted(f, ok).saved = f.saved
<1> DEFINE n == IF f.failures < FailureLimit THEN f.failures + 1 ELSE FailureLimit
<1>1. n \in 0 .. FailureLimit /\ 0 \in 0 .. FailureLimit
  BY DEF FrontType, Sidecar!LimitAssumption
<1> HIDE DEF n
<1>2. \/ Sidecar!Painted(f, ok) = [f EXCEPT !.failures = 0, !.note = FALSE]
      \/ Sidecar!Painted(f, ok) = [f EXCEPT !.failures = n]
      \/ Sidecar!Painted(f, ok) = [f EXCEPT !.failures = n, !.note = TRUE, !.cooldown = TRUE]
  BY DEF Sidecar!Painted, n
<1>3. QED
  BY <1>1, <1>2 DEF FrontType

LEMMA SidecarSetColorKeeps == ASSUME Sidecar!LimitAssumption, SidecarInv,
   Sidecar!SetColor PROVE SidecarInv'
<1>1. rpc = Sidecar!Idle /\ ~halted /\ front.saved /\ UNCHANGED <<client, halted>>
  BY DEF Sidecar!SetColor
<1>2. CASE Sidecar!Alive
  <2>1. Sidecar!Send("set_color", client.proc, workers) /\ UNCHANGED front
    BY <1>2 DEF Sidecar!SetColor
  <2>2. /\ workers' \in Seq(WorkerType) /\ DOMAIN workers' = DOMAIN workers
        /\ \A w \in DOMAIN workers' : Good(w)'
        /\ rpc' = [cmd |-> "set_color", id |-> nextId, to |-> client.proc]
           /\ rpc' # Sidecar!Idle
        /\ nextId' \in Nat \ {0}
    BY <1>1, <1>2, <2>1, SendToParents DEF Commands
  <2>3. QED
    BY <1>1, <1>2, <2>1, <2>2, AliveIsSteady DEF SidecarInv, SidecarTypes, RequestOK, Commands
<1>3. CASE ~Sidecar!Alive
  <2>1. front' = Sidecar!Painted(front, FALSE) /\ UNCHANGED <<rpc, nextId, workers>>
    BY <1>3 DEF Sidecar!SetColor
  <2>2. /\ front' \in FrontType
        /\ front'.saved = front.saved
    BY <2>1, PaintedKeeps DEF SidecarInv, SidecarTypes
  <2>3. \A w \in DOMAIN workers' : Good(w)'
    BY <1>1, <2>1, <2>2 DEF SidecarInv, Good, Process, Pipe, Session, Asked
  <2>4. QED
    BY <1>1, <2>1, <2>2, <2>3 DEF SidecarInv, SidecarTypes, RequestOK
<1>4. QED
  BY <1>2, <1>3

\* A worker that does not run whenever the parent's is not alive.
LEMMA NoneRuns ==
    ASSUME SidecarInv, rpc = Sidecar!Idle, ~Sidecar!Alive, NEW w \in DOMAIN workers
    PROVE  workers[w].state # "up" /\ ~workers[w].open
<1>1. workers[w].state # "up"
  <2>1. 0 \notin DOMAIN workers
    BY LenProperties DEF SidecarInv, SidecarTypes
  <2>2. QED
    BY <2>1, OneRuns DEF Sidecar!Alive, Sidecar!Polls
<1>2. QED
  BY <1>1 DEF SidecarInv, Good, Process

LEMMA SidecarCloseKeeps == ASSUME SidecarInv, Sidecar!Close PROVE SidecarInv'
<1>1. rpc = Sidecar!Idle /\ ~halted /\ UNCHANGED <<client, halted>>
      /\ front' = [front EXCEPT !.saved = FALSE]
  BY DEF Sidecar!Close
<1>0. front' \in FrontType /\ ~front'.saved
  BY <1>1 DEF SidecarInv, SidecarTypes, FrontType
<1>2. CASE Sidecar!Alive
  <2>1. Sidecar!Send("close", client.proc, workers)
    BY <1>2 DEF Sidecar!Close
  <2>2. /\ workers' \in Seq(WorkerType) /\ DOMAIN workers' = DOMAIN workers
        /\ \A w \in DOMAIN workers' : Good(w)'
        /\ rpc' = [cmd |-> "close", id |-> nextId, to |-> client.proc] /\ rpc' # Sidecar!Idle
        /\ nextId' \in Nat \ {0}
    BY <1>1, <1>2, <2>1, SendToParents DEF Commands
  <2>3. QED
    BY <1>0, <1>1, <1>2, <2>1, <2>2, AliveIsSteady
       DEF SidecarInv, SidecarTypes, RequestOK, Commands
<1>3. CASE ~Sidecar!Alive
  <2>1. UNCHANGED <<rpc, nextId, workers>>
    BY <1>3 DEF Sidecar!Close
  <2>2. \A w \in DOMAIN workers' : Good(w)'
    BY <1>1, <1>3, <2>1, NoneRuns, StoppedIsGood
  <2>3. QED
    BY <1>0, <1>1, <2>1, <2>2 DEF SidecarInv, SidecarTypes, RequestOK, Sidecar!Idle
<1>4. QED
  BY <1>2, <1>3

LEMMA SidecarStopAtExitKeeps == ASSUME SidecarInv, Sidecar!StopAtExit PROVE SidecarInv'
<1>1. /\ rpc = Sidecar!Idle /\ ~halted /\ halted' = TRUE
         /\ client' = [client EXCEPT !.proc = 0]
      /\ UNCHANGED front
  BY DEF Sidecar!StopAtExit
<1>2. /\ workers \in Seq(WorkerType) /\ nextId \in Nat \ {0} /\ 0 \notin DOMAIN workers
      /\ client.proc \in {0} \cup DOMAIN workers
      /\ \A w \in DOMAIN workers : workers[w].state # "up" => ~workers[w].open
      /\ \A w \in DOMAIN workers \ {client.proc} : workers[w].state # "up"
  BY <1>1, LenProperties, OneRuns DEF SidecarInv, SidecarTypes, Good, Process
<1>3. CASE client.proc # 0 /\ Sidecar!Polls(client.proc)
  <2>1. Sidecar!Send("stop", client.proc, workers) /\ client.proc \in DOMAIN workers
    BY <1>2, <1>3 DEF Sidecar!StopAtExit
  <2>2. workers[client.proc].state = "up" =>
            /\ workers[client.proc].stdin = <<>>
            /\ \A i \in DOMAIN workers[client.proc].replies :
                   workers[client.proc].replies[i].id <= 0
    BY <1>1, <2>1, ReadyIsQuiet
  <2>3. /\ workers' \in Seq(WorkerType) /\ DOMAIN workers' = DOMAIN workers
        /\ \A w \in DOMAIN workers' : Good(w)'
    BY <1>2, <2>1, <2>2, SendIsGood DEF Commands
  <2>4. /\ rpc' = [cmd |-> "stop", id |-> nextId, to |-> client.proc] /\ rpc' # Sidecar!Idle
        /\ nextId' \in Nat \ {0}
    BY <1>2, <2>1 DEF Sidecar!Send, Sidecar!Idle
  <2>5. QED
    BY SMTT(15), <1>1, <1>2, <2>1, <2>3, <2>4 DEF SidecarInv, SidecarTypes, RequestOK, Commands
<1>4. CASE ~(client.proc # 0 /\ Sidecar!Polls(client.proc))
  <2>1. UNCHANGED <<rpc, nextId, workers>>
    BY <1>4 DEF Sidecar!StopAtExit
  <2>2. ~Sidecar!Alive
    BY <1>4 DEF Sidecar!Alive
  <2>3. \A w \in DOMAIN workers' : Good(w)'
    BY <1>1, <2>1, <2>2, NoneRuns, StoppedIsGood
  <2>4. QED
    BY <1>1, <2>1, <2>3 DEF SidecarInv, SidecarTypes, RequestOK, Sidecar!Idle
<1>5. QED
  BY <1>3, <1>4

LEMMA SidecarCooldownKeeps == ASSUME SidecarInv, Sidecar!CooldownEnds PROVE SidecarInv'
<1>1. /\ front' = [front EXCEPT !.cooldown = FALSE]
      /\ UNCHANGED <<client, rpc, nextId, workers, halted>>
  BY DEF Sidecar!CooldownEnds
<1>2. front'.saved = front.saved /\ front' \in FrontType
  BY <1>1 DEF SidecarInv, SidecarTypes, FrontType
<1>3. \A w \in DOMAIN workers' : Good(w)'
  BY <1>1, <1>2 DEF SidecarInv, Good, Process, Pipe, Session, Asked
<1>4. QED
  BY <1>1, <1>2, <1>3 DEF SidecarInv, SidecarTypes, RequestOK

--------------------------------------------------------------------------------
(* The end of a request *)

LEMMA SidecarOutcomeKeeps ==
    ASSUME Sidecar!LimitAssumption, SidecarInv, NEW failed \in BOOLEAN, NEW ok \in BOOLEAN
    PROVE  /\ Sidecar!Outcome(failed, ok) \in FrontType
           /\ rpc.cmd # "open" => Sidecar!Outcome(failed, ok).saved = front.saved
           /\ rpc.cmd = "open" => (Sidecar!Outcome(failed, ok).saved <=> ~failed /\ ok)
<1> DEFINE noted == [front EXCEPT !.note = TRUE]
<1>1. /\ noted \in FrontType
      /\ noted.saved = front.saved
      /\ front \in FrontType
  BY DEF SidecarInv, SidecarTypes, FrontType
<1>2. CASE rpc.cmd = "open"
  <2>1. /\ Sidecar!Refused(front) \in FrontType /\ ~Sidecar!Refused(front).saved
        /\ Sidecar!Opened(front) \in FrontType /\ Sidecar!Opened(front).saved
    <3>1. 0 \in 0 .. FailureLimit
      BY DEF Sidecar!LimitAssumption
    <3>2. Sidecar!Refused(front) \in FrontType /\ ~Sidecar!Refused(front).saved
      BY <1>1 DEF Sidecar!Refused, FrontType
    <3>3. Sidecar!Opened(front) \in FrontType /\ Sidecar!Opened(front).saved
      BY <1>1, <3>1 DEF Sidecar!Opened, FrontType
    <3>4. QED
      BY <3>2, <3>3
  <2>2. Sidecar!Outcome(failed, ok) = IF failed
        \/ ~ok THEN Sidecar!Refused(front) ELSE Sidecar!Opened(front)
    BY <1>2 DEF Sidecar!Outcome
  <2>3. QED
    BY <1>2, <2>1, <2>2
<1>3. CASE rpc.cmd = "set_color"
  BY <1>1, <1>3, PaintedKeeps DEF Sidecar!Outcome
<1>4. CASE rpc.cmd \notin {"open", "set_color"}
  BY <1>1, <1>4 DEF Sidecar!Outcome
<1>5. QED
  BY <1>2, <1>3, <1>4

LEMMA SidecarFailKeeps == ASSUME Sidecar!LimitAssumption, SidecarInv, rpc # Sidecar!Idle,
   Sidecar!Fail PROVE SidecarInv'
<1>1. /\ rpc.to \in DOMAIN workers /\ workers \in Seq(WorkerType) /\ rpc.cmd # "none"
      /\ \A w \in DOMAIN workers : workers[w].state # "up" => ~workers[w].open
      /\ \A w \in DOMAIN workers \ {rpc.to} : workers[w].state # "up"
  BY OneRuns DEF SidecarInv, SidecarTypes, RequestOK, Good, Process
<1>2. /\ front' = Sidecar!Outcome(TRUE, FALSE) /\ rpc' = Sidecar!Idle
         /\ UNCHANGED <<nextId, halted>>
      /\ client' = [client EXCEPT !.broken = TRUE]
      /\ workers' = Sidecar!Ended(workers) \/ workers' = Sidecar!Killed(workers, rpc.to)
  BY DEF Sidecar!Fail, Sidecar!Discard
<1>3. /\ workers' \in Seq(WorkerType) /\ DOMAIN workers' = DOMAIN workers
      /\ \A w \in DOMAIN workers \ {rpc.to} : workers'[w] = workers[w]
      /\ workers'[rpc.to].state # "up" /\ ~workers'[rpc.to].open
  <2>1. CASE workers' = Sidecar!Ended(workers)
    BY <1>1, <2>1, EndedFacts
  <2>2. CASE workers' = Sidecar!Killed(workers, rpc.to)
    BY <1>1, <2>2, KilledFacts
  <2>3. QED
    BY <1>2, <2>1, <2>2
<1>4. \A w \in DOMAIN workers' : Good(w)'
  BY <1>1, <1>3, StoppedIsGood
<1>5. front' \in FrontType
  BY <1>2, SidecarOutcomeKeeps
<1>6. QED
  BY <1>2, <1>3, <1>4, <1>5 DEF SidecarInv, SidecarTypes, RequestOK, Sidecar!Idle

LEMMA SidecarTakeReplyKeeps ==
    ASSUME Sidecar!LimitAssumption, SidecarInv, Sidecar!TakeReply, NEW w, w = rpc.to
    PROVE  SidecarInv'
<1> DEFINE line == Head(workers[w].replies)
           r    == [workers[w] EXCEPT !.replies = Tail(@)]
           read == [workers EXCEPT ![w].replies = Tail(@)]
<1>1. /\ rpc # Sidecar!Idle /\ w \in DOMAIN workers /\ workers \in Seq(WorkerType)
         /\ rpc.id > 0
      /\ rpc.cmd # "none" /\ workers[w].replies # <<>>
  BY DEF Sidecar!TakeReply, SidecarInv, SidecarTypes, RequestOK
<1>2. CASE line.id # rpc.id
  BY <1>1, <1>2, SidecarFailKeeps DEF Sidecar!TakeReply
<1>3. CASE line.id = rpc.id
  <2>1. /\ front' = Sidecar!Outcome(FALSE, line.ok) /\ rpc' = Sidecar!Idle
        /\ workers' = (IF rpc.cmd = "stop" THEN Sidecar!Ended(read) ELSE read)
        /\ UNCHANGED <<client, nextId, halted>>
    BY <1>3 DEF Sidecar!TakeReply
  <2>2. /\ workers[w] \in WorkerType /\ workers[w].replies \in Seq(Replies)
        /\ 1 \in DOMAIN workers[w].replies /\ line = workers[w].replies[1]
        /\ line \in Replies
    BY <1>1, WorkerParts
  <2>3. /\ r \in WorkerType /\ r.state = workers[w].state /\ r.open = workers[w].open
        /\ r.stdin = workers[w].stdin /\ r.replies = Tail(workers[w].replies)
    BY <1>1, <2>2, HeadTailProperties DEF WorkerType
  <2>4. read = [workers EXCEPT ![w] = r]
    OBVIOUS
  <2>5. /\ read \in Seq(WorkerType) /\ DOMAIN read = DOMAIN workers /\ read[w] = r
        /\ \A v \in DOMAIN workers \ {w} : read[v] = workers[v]
    <3> HIDE DEF r, read
    <3>1. QED
      BY <1>1, <2>3, <2>4, PutWorker
  <2> HIDE DEF read, r, line
  <2>6. /\ workers' \in Seq(WorkerType) /\ DOMAIN workers' = DOMAIN workers
        /\ \A v \in DOMAIN workers \ {w} : workers'[v] = workers[v]
        /\ rpc.cmd = "stop" => workers'[w].state = "dead" /\ ~workers'[w].open
        /\ rpc.cmd # "stop" => workers'[w] = r
    BY <1>1, <2>1, <2>5, EndedFacts
  <2>7. front' \in FrontType
    BY <2>1, <2>2, SidecarOutcomeKeeps DEF Replies
  <2>8. ASSUME NEW v \in DOMAIN workers' PROVE Good(v)'
    <3>1. CASE v # w
      BY <1>1, <2>6, <3>1, OneRuns, StoppedIsGood DEF SidecarInv, Good, Process
    <3>2. CASE v = w /\ rpc.cmd = "stop"
      BY <2>6, <3>2, StoppedIsGood
    <3>3. CASE v = w /\ rpc.cmd # "stop" /\ workers[w].state # "up"
      BY <1>1, <2>3, <2>6, <3>3, StoppedIsGood DEF SidecarInv, Good, Process
    <3>4. CASE v = w /\ rpc.cmd # "stop" /\ workers[w].state = "up"
      <4>1. Good(w) /\ Asked(w) /\ workers'[w] = r /\ ~Asked(w)'
        BY <1>1, <2>1, <2>6, <3>4 DEF SidecarInv, Asked
      <4>2. Process(w)'
        BY <1>1, <2>1, <2>3, <3>4, <4>1
           DEF SidecarInv, RequestOK, SidecarTypes, Process, Commands
      <4>3. /\ workers[w].replies[1].id > 0 /\ workers[w].stdin = <<>>
            /\ \A j \in DOMAIN workers[w].replies : workers[w].replies[j].id > 0 => 1 = j
        BY <1>1, <1>3, <2>2, <3>4, <4>1 DEF Good, Pipe
      <4>4. \A i \in DOMAIN r.replies : ~(r.replies[i].id > 0)
        <5> SUFFICES ASSUME NEW i \in DOMAIN r.replies PROVE ~(r.replies[i].id > 0)
          OBVIOUS
        <5>1. /\ Tail(workers[w].replies) \in Seq(Replies)
              /\ Len(Tail(workers[w].replies)) = Len(workers[w].replies) - 1
              /\ \A k \in 1 .. Len(Tail(workers[w].replies)) :
                    Tail(workers[w].replies)[k] = workers[w].replies[k + 1]
          BY <1>1, <2>2, HeadTailProperties
        <5>2. i \in Nat \ {0} /\ i + 1 \in DOMAIN workers[w].replies
              /\ r.replies[i] = workers[w].replies[i + 1]
          BY <2>2, <2>3, <5>1, LenProperties
        <5>3. QED
          BY <4>3, <5>2
      <4>5. Pipe(w)'
        BY <2>3, <4>1, <4>3, <4>4 DEF Pipe
      <4>6. front'.saved <=> workers[w].open
        <5>1. /\ rpc.cmd = "open" => (line.ok <=> workers[w].open)
              /\ rpc.cmd = "close" => ~workers[w].open
              /\ rpc.cmd = "set_color" => workers[w].open
          BY <2>2, <3>4, <4>1, <4>3 DEF Good, Session
        <5>2. rpc.cmd \in {"open", "close", "set_color"} /\ line.ok \in BOOLEAN
          BY <1>1, <2>2, <3>4 DEF SidecarInv, SidecarTypes, Commands, Replies
        <5>3. /\ rpc.cmd # "open" => front'.saved = front.saved
              /\ rpc.cmd = "open" => (front'.saved <=> line.ok)
          BY <2>1, <5>2, SidecarOutcomeKeeps
        <5>4. QED
          BY <5>1, <5>2, <5>3 DEF SidecarInv, RequestOK
      <4>7. Session(w)'
        BY <2>3, <4>1, <4>4, <4>6 DEF Session
      <4>8. QED
        BY <3>4, <4>2, <4>5, <4>7 DEF Good
    <3>5. QED
      BY <3>1, <3>2, <3>3, <3>4
  <2>9. QED
    BY <2>1, <2>6, <2>7, <2>8 DEF SidecarInv, SidecarTypes, RequestOK, Sidecar!Idle
<1>4. QED
  BY <1>2, <1>3

--------------------------------------------------------------------------------
(* The worker's side *)

\* The one line in the pipe is answered once, by what becomes of the engine.
LEMMA SidecarReplyKeeps ==
    ASSUME SidecarInv, NEW w \in DOMAIN workers, workers[w].state = "up",
       workers[w].stdin # <<>>,
           NEW open \in BOOLEAN, NEW ok \in BOOLEAN, Sidecar!Reply(w, open, ok),
           UNCHANGED <<front, client, rpc, nextId, halted>>,
           rpc.cmd = "set_color" => open,
           rpc.cmd = "open" => (ok <=> open),
           rpc.cmd \in {"close", "stop"} => ~open
    PROVE  SidecarInv'
<1> DEFINE line == [id |-> Head(workers[w].stdin).id, ok |-> ok]
           r    == [workers[w] EXCEPT !.stdin = Tail(@), !.open = open,
                                      !.replies = Append(@, line)]
<1>1. /\ workers \in Seq(WorkerType) /\ workers[w] \in WorkerType
      /\ workers[w].stdin \in Seq(Lines) /\ workers[w].replies \in Seq(Replies)
      /\ Good(w)
  BY WorkerParts DEF SidecarInv, SidecarTypes
<1>2. /\ Asked(w) /\ Len(workers[w].stdin) = 1 /\ line.id = rpc.id /\ line.ok = ok
      /\ line \in Replies /\ rpc.id \in Nat
  BY <1>1 DEF Good, Pipe, SidecarInv, SidecarTypes, Replies
<1>3. /\ Tail(workers[w].stdin) \in Seq(Lines) /\ Tail(workers[w].stdin) = <<>>
      /\ Append(workers[w].replies, line) \in Seq(Replies)
  <2>1. Tail(workers[w].stdin) \in Seq(Lines) /\ Len(Tail(workers[w].stdin)) = 0
    BY <1>1, <1>2, HeadTailProperties
  <2>2. Append(workers[w].replies, line) \in Seq(Replies)
    BY <1>1, <1>2, AppendProperties
  <2>3. QED
    BY <2>1, <2>2, EmptySeq
<1> HIDE DEF line
<1>4. /\ r \in WorkerType /\ r.state = "up" /\ r.open = open
      /\ r.stdin = <<>> /\ r.replies = Append(workers[w].replies, line)
  BY <1>1, <1>3 DEF WorkerType
<1>5. workers' = [workers EXCEPT ![w] = r]
  BY DEF Sidecar!Reply, line
<1> HIDE DEF r
<1>6. /\ workers' \in Seq(WorkerType) /\ DOMAIN workers' = DOMAIN workers /\ workers'[w] = r
      /\ \A v \in DOMAIN workers \ {w} : workers'[v] = workers[v]
  BY <1>1, <1>4, <1>5, PutWorker
<1>7. ASSUME NEW v \in DOMAIN workers' \ {w} PROVE Good(v)'
  BY <1>6, <1>2, OneRuns, StoppedIsGood DEF Asked, SidecarInv, Good, Process
<1>8. Asked(w)' /\ Process(w)'
  BY <1>1, <1>2, <1>4, <1>6 DEF Asked, Good, Process
<1>9. \A i \in DOMAIN r.replies : r.replies[i].id > 0 =>
          r.replies[i] = line /\ i = Len(workers[w].replies) + 1
  <2> SUFFICES ASSUME NEW i \in DOMAIN r.replies, r.replies[i].id > 0
               PROVE  r.replies[i] = line /\ i = Len(workers[w].replies) + 1
    OBVIOUS
  <2>1. ~(i \in DOMAIN workers[w].replies /\ r.replies[i] = workers[w].replies[i])
    BY <1>1 DEF Good, Pipe
  <2>2. QED
    BY <1>1, <1>2, <1>4, <2>1, AppendProperties, LenProperties
<1>10. Pipe(w)'
  BY <1>2, <1>4, <1>6, <1>8, <1>9 DEF Pipe
<1>11. Session(w)'
  BY <1>2, <1>4, <1>6, <1>8, <1>9 DEF Session
<1>12. QED
  BY <1>6, <1>7, <1>8, <1>10, <1>11 DEF SidecarInv, SidecarTypes, RequestOK, Good

LEMMA WorkerReadsKeeps ==
    ASSUME SidecarInv, NEW w \in DOMAIN workers, workers[w].state = "up",
       Sidecar!WorkerReads(w),
           UNCHANGED <<front, client, rpc, nextId, halted>>
    PROVE  SidecarInv'
<1>1. /\ workers[w].stdin # <<>> /\ workers[w].stdin \in Seq(Lines)
      /\ workers[w].open \in BOOLEAN /\ Good(w)
  BY WorkerParts DEF Sidecar!WorkerReads, SidecarInv, SidecarTypes
<1>2. Asked(w) /\ Head(workers[w].stdin).cmd = rpc.cmd
  BY <1>1 DEF Good, Pipe
<1>3. CASE Sidecar!WorkerOpen(w)
  <2>1. PICK ok \in BOOLEAN : Sidecar!Reply(w, ok, ok) /\ rpc.cmd = "open"
    BY <1>2, <1>3 DEF Sidecar!WorkerOpen
  <2>2. QED
    BY <1>1, <2>1, SidecarReplyKeeps
<1>4. CASE Sidecar!WorkerPaint(w)
  <2>1. Sidecar!Reply(w, workers[w].open, workers[w].open) /\ rpc.cmd = "set_color"
        /\ workers[w].open
    BY <1>1, <1>2, <1>4 DEF Sidecar!WorkerPaint, Good, Session
  <2>2. QED
    BY <1>1, <2>1, SidecarReplyKeeps
<1>5. CASE Sidecar!WorkerClose(w)
  <2>1. Sidecar!Reply(w, FALSE, TRUE) /\ rpc.cmd \in {"close", "stop"}
    BY <1>2, <1>5 DEF Sidecar!WorkerClose
  <2>2. QED
    BY <1>1, <2>1, SidecarReplyKeeps
<1>6. QED
  BY <1>3, <1>4, <1>5 DEF Sidecar!WorkerReads

\* A process that ends leaves the others as they were.
LEMMA SidecarEndKeeps ==
    ASSUME SidecarInv, NEW w \in DOMAIN workers, UNCHANGED <<front, client, rpc, nextId,
       halted>>,
           workers' \in Seq(WorkerType), DOMAIN workers' = DOMAIN workers,
           workers'[w].state # "up", ~workers'[w].open,
           \A v \in DOMAIN workers \ {w} : workers'[v] = workers[v]
    PROVE  SidecarInv'
<1>1. ASSUME NEW v \in DOMAIN workers' PROVE Good(v)'
  <2>1. CASE v = w
    BY <2>1, StoppedIsGood
  <2>2. CASE v # w
    BY <2>2 DEF SidecarInv, Good, Process, Pipe, Session, Asked
  <2>3. QED
    BY <2>1, <2>2
<1>2. QED
  BY <1>1 DEF SidecarInv, SidecarTypes, RequestOK

LEMMA WorkerDiesKeeps ==
    ASSUME SidecarInv, NEW w \in DOMAIN workers, Sidecar!WorkerDies(w),
           UNCHANGED <<front, client, rpc, nextId, halted>>
    PROVE  SidecarInv'
<1> DEFINE ws == Sidecar!Killed(workers, w)
           r  == [ws[w] EXCEPT !.state = "dead"]
<1>1. /\ ws \in Seq(WorkerType) /\ DOMAIN ws = DOMAIN workers
      /\ \A v \in DOMAIN workers \ {w} : ws[v] = workers[v]
      /\ ~ws[w].open
  BY KilledFacts DEF SidecarInv, SidecarTypes, Good, Process
<1> HIDE DEF ws
<1>2. r \in WorkerType /\ r.state = "dead" /\ ~r.open
  BY ZenonT(30), <1>1, WorkerParts DEF WorkerType
<1>3. workers' = [ws EXCEPT ![w] = r]
  BY DEF Sidecar!WorkerDies, ws
<1> HIDE DEF r
<1>4. /\ workers' \in Seq(WorkerType) /\ DOMAIN workers' = DOMAIN workers /\ workers'[w] = r
      /\ \A v \in DOMAIN workers \ {w} : workers'[v] = workers[v]
  BY <1>1, <1>2, <1>3, PutWorker
<1>5. QED
  BY <1>2, <1>4, SidecarEndKeeps

LEMMA WorkerGoneKeeps == ASSUME SidecarInv, NEW w \in DOMAIN workers,
   Sidecar!WorkerGone(w) PROVE SidecarInv'
<1> DEFINE r == [workers[w] EXCEPT !.state = "dead"]
<1>1. /\ workers \in Seq(WorkerType) /\ UNCHANGED <<front, client, rpc, nextId, halted>>
      /\ ~workers[w].open
  BY DEF Sidecar!WorkerGone, SidecarInv, SidecarTypes, Good, Process
<1>2. r \in WorkerType /\ r.state = "dead" /\ ~r.open
  <2>1. workers[w] \in WorkerType
    BY <1>1, WorkerParts
  <2>2. QED
    BY <1>1, <2>1 DEF WorkerType
<1>3. workers' = [workers EXCEPT ![w] = r]
  BY DEF Sidecar!WorkerGone
<1> HIDE DEF r
<1>4. /\ workers' \in Seq(WorkerType) /\ DOMAIN workers' = DOMAIN workers /\ workers'[w] = r
      /\ \A v \in DOMAIN workers \ {w} : workers'[v] = workers[v]
  BY <1>1, <1>2, <1>3, PutWorker
<1>5. QED
  BY <1>1, <1>2, <1>4, SidecarEndKeeps

\* A stray line is nobody's reply.
LEMMA WorkerPrintsKeeps ==
    ASSUME SidecarInv, NEW w \in DOMAIN workers, workers[w].state = "up",
       Sidecar!WorkerPrints(w),
           UNCHANGED <<front, client, rpc, nextId, halted>>
    PROVE  SidecarInv'
<1> DEFINE r == [workers[w] EXCEPT !.replies = Append(@, Sidecar!Garbage)]
<1>1. /\ workers \in Seq(WorkerType) /\ workers[w] \in WorkerType
      /\ workers[w].replies \in Seq(Replies) /\ Len(workers[w].replies) = 0 /\ Good(w)
  BY WorkerParts, LenProperties DEF Sidecar!WorkerPrints, SidecarInv, SidecarTypes
<1>2. /\ Append(workers[w].replies, Sidecar!Garbage) \in Seq(Replies)
      /\ Len(Append(workers[w].replies, Sidecar!Garbage)) = 1
      /\ Append(workers[w].replies, Sidecar!Garbage)[1] = Sidecar!Garbage
  BY <1>1, AppendProperties DEF Sidecar!Garbage, Replies
<1>3. /\ r \in WorkerType /\ r.state = "up" /\ r.open = workers[w].open
      /\ r.stdin = workers[w].stdin /\ r.replies = Append(workers[w].replies, Sidecar!Garbage)
  BY <1>1, <1>2 DEF WorkerType
<1>4. workers' = [workers EXCEPT ![w] = r]
  BY DEF Sidecar!WorkerPrints
<1> HIDE DEF r
<1>5. /\ workers' \in Seq(WorkerType) /\ DOMAIN workers' = DOMAIN workers /\ workers'[w] = r
      /\ \A v \in DOMAIN workers \ {w} : workers'[v] = workers[v]
  BY <1>1, <1>3, <1>4, PutWorker
<1>6. \A i \in DOMAIN r.replies : ~(r.replies[i].id > 0)
  <2>1. DOMAIN r.replies = 1 .. 1
    BY <1>2, <1>3, LenProperties
  <2>2. QED
    BY <1>2, <1>3, <2>1 DEF Sidecar!Garbage
<1>7. ASSUME NEW v \in DOMAIN workers' PROVE Good(v)'
  <2>1. CASE v = w
    BY <1>1, <1>3, <1>5, <1>6, <2>1 DEF Good, Process, Pipe, Session, Asked
  <2>2. CASE v # w
    BY <1>5, <2>2 DEF SidecarInv, Good, Process, Pipe, Session, Asked
  <2>3. QED
    BY <2>1, <2>2
<1>8. QED
  BY <1>5, <1>7 DEF SidecarInv, SidecarTypes, RequestOK

--------------------------------------------------------------------------------
(* The theorems *)

LEMMA SidecarInit == ASSUME Sidecar!LimitAssumption, Sidecar!Init PROVE SidecarInv
<1>1. workers = <<>> /\ DOMAIN workers = {} /\ workers \in Seq(WorkerType)
  BY EmptySeq DEF Sidecar!Init
<1>2. SidecarTypes
  <2>1. 0 \in 0 .. FailureLimit
    BY DEF Sidecar!LimitAssumption
  <2>2. front \in FrontType
    BY <2>1 DEF Sidecar!Init, FrontType
  <2>3. client = [proc |-> 0, broken |-> FALSE] /\ rpc = Sidecar!Idle /\ nextId = 1
        /\ halted = FALSE
    BY DEF Sidecar!Init
  <2>4. client \in [proc : Nat, broken : BOOLEAN] /\ client.proc = 0
    BY <2>3
  <2>5. rpc \in [cmd : Commands \cup {"none"}, id : Nat, to : Nat]
    BY <2>3 DEF Sidecar!Idle
  <2>6. nextId \in Nat \ {0}
    BY <2>3
  <2>7. halted \in BOOLEAN
    BY <2>3, Zenon
  <2>8. QED
    BY <1>1, <2>2, <2>4, <2>5, <2>6, <2>7 DEF SidecarTypes
<1>3. QED
  BY <1>1, <1>2 DEF Sidecar!Init, SidecarInv, RequestOK, Sidecar!Idle

LEMMA SidecarKeeps == ASSUME Sidecar!LimitAssumption, SidecarInv,
   [Sidecar!Next]_(Sidecar!svars) PROVE SidecarInv'
<1>1. CASE Sidecar!Open
  BY <1>1, SidecarOpenKeeps
<1>2. CASE Sidecar!SetColor
  BY <1>2, SidecarSetColorKeeps
<1>3. CASE Sidecar!Close
  BY <1>3, SidecarCloseKeeps
<1>4. CASE Sidecar!StopAtExit
  BY <1>4, SidecarStopAtExitKeeps
<1>5. CASE Sidecar!CooldownEnds
  BY <1>5, SidecarCooldownKeeps
<1>6. CASE Sidecar!Client
  BY <1>6, SidecarFailKeeps, SidecarTakeReplyKeeps
     DEF Sidecar!Client, Sidecar!WriteFails, Sidecar!TimesOut
<1>7. ASSUME NEW w \in DOMAIN workers, Sidecar!Worker(w) PROVE SidecarInv'
  BY <1>7, WorkerReadsKeeps, WorkerDiesKeeps, WorkerPrintsKeeps DEF Sidecar!Worker
<1>8. ASSUME NEW w \in DOMAIN workers, Sidecar!WorkerGone(w) PROVE SidecarInv'
  BY <1>8, WorkerGoneKeeps
<1>9. CASE UNCHANGED Sidecar!svars
  BY <1>9
     DEF Sidecar!svars, SidecarInv, SidecarTypes, RequestOK, Good, Process, Pipe, Session,
         Asked
<1>10. QED
  BY <1>1, <1>2, <1>3, <1>4, <1>5, <1>6, <1>7, <1>8, <1>9 DEF Sidecar!Next

LEMMA SidecarInvHolds == ASSUME Sidecar!LimitAssumption PROVE Sidecar!Spec => []SidecarInv
<1>1. Sidecar!Init => SidecarInv
  BY SidecarInit
<1>2. SidecarInv /\ [Sidecar!Next]_(Sidecar!svars) => SidecarInv'
  BY SidecarKeeps
<1>3. QED
  BY <1>1, <1>2, PTL DEF Sidecar!Spec

\* What the invariant says of the sidecar, a state at a time.
LEMMA SidecarTyped == ASSUME SidecarInv PROVE Sidecar!TypeOK
<1>1. \A w \in DOMAIN workers : workers[w].state \in {"up", "killed", "dead"}
  BY WorkerParts DEF SidecarInv, SidecarTypes, WorkerType
<1>2. QED
  BY <1>1 DEF SidecarInv, SidecarTypes, FrontType, Commands, Sidecar!TypeOK

LEMMA PipesAreInStep == ASSUME SidecarInv PROVE Sidecar!PipeInStep
<1>1. SUFFICES ASSUME rpc = Sidecar!Idle, Sidecar!Alive, workers[client.proc].state = "up"
               PROVE  /\ workers[client.proc].stdin = <<>>
                      /\ \A i \in DOMAIN workers[client.proc].replies :
                            workers[client.proc].replies[i].id <= 0
  BY DEF Sidecar!PipeInStep
<1>2. QED
  BY <1>1, AliveIsSteady, ReadyIsQuiet

LEMMA SessionsAgree == ASSUME SidecarInv PROVE Sidecar!BothSidesAgree
BY AliveIsSteady, ReadyIsQuiet DEF Sidecar!BothSidesAgree

LEMMA OneAtMostPaints == ASSUME SidecarInv PROVE Sidecar!OneWorkerPaints
<1> DEFINE Painting == {w \in DOMAIN workers : workers[w].open}
           it       == IF rpc = Sidecar!Idle THEN client.proc ELSE rpc.to
<1>1. \A w \in Painting : workers[w].state = "up" /\ w = it
  BY OneRuns DEF SidecarInv, Good, Process
<1>2. Painting \in {{}, {it}}
  BY <1>1
<1>3. Cardinality(Painting) <= 1
  <2>1. CASE Painting = {}
    BY <2>1, FS_EmptySet
  <2>2. CASE Painting = {it}
    <3> HIDE DEF it
    <3>1. Cardinality({it}) = 1
      BY FS_Singleton
    <3>2. QED
      BY <2>2, <3>1
  <2>3. QED
    BY <1>2, <2>1, <2>2
<1>4. ASSUME halted, rpc = Sidecar!Idle, NEW w \in DOMAIN workers PROVE ~workers[w].open
  <2>1. 0 \notin DOMAIN workers /\ client.proc = 0
    BY <1>4, LenProperties DEF SidecarInv, SidecarTypes, RequestOK
  <2>2. QED
    BY <1>1, <1>4, <2>1
<1>5. Sidecar!Cardinality(Painting) <= 1
  <2> HIDE DEF Painting
  <2>1. QED
    BY <1>3, CardinalityIs
<1>6. QED
  BY <1>4, <1>5 DEF Sidecar!OneWorkerPaints

\* Between requests no request is unread in the pipe of a worker that will be asked again,
\* and no reply waits there to be taken for the next request's: every request that failed
\* has cost its worker (_discard), however often workers hang, die or print.
THEOREM RepliesAreTheirRequests ==
    ASSUME Sidecar!LimitAssumption PROVE Sidecar!Spec => []Sidecar!PipeInStep
<1>1. SidecarInv => Sidecar!PipeInStep
  BY PipesAreInStep
<1>2. QED
  BY <1>1, SidecarInvHolds, PTL

\* Between requests the parent says the session is open exactly when the worker's engine is.
THEOREM SessionIsShared ==
    ASSUME Sidecar!LimitAssumption PROVE Sidecar!Spec => []Sidecar!BothSidesAgree
<1>1. SidecarInv => Sidecar!BothSidesAgree
  BY SessionsAgree
<1>2. QED
  BY <1>1, SidecarInvHolds, PTL

\* Among all processes ever started one at most holds the SDK, and none once the last was
\* told to stop and the wait for it is over.
THEOREM OneHoldsTheSdk ==
    ASSUME Sidecar!LimitAssumption PROVE Sidecar!Spec => []Sidecar!OneWorkerPaints
<1>1. SidecarInv => Sidecar!OneWorkerPaints
  BY OneAtMostPaints
<1>2. QED
  BY <1>1, SidecarInvHolds, PTL

--------------------------------------------------------------------------------
(* OpenRGB: the inductive invariant.  As long as no device refused a call and no  *)
(* connection was lost, the snapshot is the user's own lighting and covers every  *)
(* device the engine may have changed.                                            *)

\* Nothing happened that the engine cannot make good.
Faultless == conf.restore /\ ~history.failed /\ ~history.lost /\ ~history.dropped

OpenRGBTypes ==
    /\ conf \in [directOnly : BOOLEAN, restore : BOOLEAN]
    /\ link \in [open : BOOLEAN, live : BOOLEAN, failures : Nat, cooldown : BOOLEAN]
    /\ history \in [failed : BOOLEAN, dropped : BOOLEAN, lost : BOOLEAN, closed : BOOLEAN]
    /\ DOMAIN shown = Devices /\ shown = [d \in Devices |-> shown[d]]

\* An open engine drives all candidates, a closed one none.
Driven ==
    /\ link.open => targets = OpenRGB!Candidates /\ OpenRGB!Candidates # {}
    /\ ~link.open => targets = {} /\ ~link.live
    /\ painted \subseteq OpenRGB!Candidates

\* The snapshot and the devices outside it, while there was no fault.
Noted ==
    Faultless =>
        /\ link.open => /\ DOMAIN snapshot = OpenRGB!Candidates
                        /\ \A d \in OpenRGB!Candidates : snapshot[d] = OpenRGB!Own
                        /\ \A d \in Devices \ OpenRGB!Candidates : shown[d] = OpenRGB!Own
        /\ ~link.open => \A d \in Devices : shown[d] = OpenRGB!Own

OpenRGBInv == OpenRGBTypes /\ Driven /\ Noted

LEMMA OpenRGBInit == OpenRGB!Init => OpenRGBInv
<1> SUFFICES ASSUME OpenRGB!Init PROVE OpenRGBInv
  OBVIOUS
<1>1. /\ link = OpenRGB!NoLink /\ ~link.open /\ ~link.live /\ targets = {} /\ painted = {}
      /\ shown = [d \in Devices |-> OpenRGB!Own]
  BY DEF OpenRGB!Init, OpenRGB!NoLink
<1>2. OpenRGBTypes
  <2>1. link \in [open : BOOLEAN, live : BOOLEAN, failures : Nat, cooldown : BOOLEAN]
    BY <1>1 DEF OpenRGB!NoLink
  <2>2. QED
    BY <1>1, <2>1 DEF OpenRGBTypes, OpenRGB!Init
<1>3. QED
  BY <1>1, <1>2 DEF OpenRGBInv, Driven, Noted

LEMMA OpenRGBOpenKeeps == ASSUME OpenRGB!DeviceAssumption, OpenRGBInv, OpenRGB!Open
  PROVE OpenRGBInv'
<1>1. ~link.open /\ UNCHANGED <<conf, OpenRGB!Candidates>>
  BY DEF OpenRGB!Open, OpenRGB!Active, OpenRGBInv, Driven, OpenRGB!Candidates
<1>2. CASE link' = [link EXCEPT !.cooldown = TRUE]
           /\ UNCHANGED <<targets, snapshot, shown, history, painted>>
  <2>1. link'.open = link.open /\ link'.live = link.live
        /\ link' \in [open : BOOLEAN, live : BOOLEAN, failures : Nat, cooldown : BOOLEAN]
    BY <1>2 DEF OpenRGBInv, OpenRGBTypes
  <2>2. QED
    BY <1>1, <1>2, <2>1 DEF OpenRGBInv, OpenRGBTypes, Driven, Noted, Faultless
<1>3. ASSUME NEW heard \in SUBSET OpenRGB!Candidates,
             NEW switched \in SUBSET OpenRGB!Candidates, OpenRGB!Candidates # {},
             snapshot' = IF conf.restore THEN OpenRGB!SnapshotOf(heard) ELSE <<>>,
             shown' = IF conf.directOnly THEN OpenRGB!InDirect(switched) ELSE shown,
             history' = [history EXCEPT !.closed = FALSE, !.failed = @
               \/ heard # OpenRGB!Candidates],
             link' = [open |-> TRUE, live |-> TRUE, failures |-> 0, cooldown |-> FALSE],
             targets' = OpenRGB!Candidates, painted' = {}
      PROVE  OpenRGBInv'
  <2>1. /\ link'.open /\ link'.live
        /\ link' \in [open : BOOLEAN, live : BOOLEAN, failures : Nat, cooldown : BOOLEAN]
    BY <1>3
  <2>2. DOMAIN shown' = Devices /\ shown' = [d \in Devices |-> shown'[d]]
        /\ \A d \in Devices \ OpenRGB!Candidates : shown'[d] = shown[d]
    BY <1>3 DEF OpenRGB!InDirect, OpenRGBInv, OpenRGBTypes
  <2>3. /\ history' \in [failed : BOOLEAN, dropped : BOOLEAN, lost : BOOLEAN,
                         closed : BOOLEAN]
        /\ history'.lost = history.lost /\ history'.dropped = history.dropped
        /\ ~history'.failed => ~history.failed /\ heard = OpenRGB!Candidates
    BY <1>3 DEF OpenRGBInv, OpenRGBTypes
  <2>4. OpenRGB!Candidates \subseteq Devices
    BY DEF OpenRGB!Candidates, OpenRGB!DeviceAssumption
  <2>5. ASSUME Faultless'
        PROVE  /\ DOMAIN snapshot' = OpenRGB!Candidates
               /\ \A d \in OpenRGB!Candidates : snapshot'[d] = OpenRGB!Own
               /\ \A d \in Devices \ OpenRGB!Candidates : shown'[d] = OpenRGB!Own
    <3>1. Faultless /\ heard = OpenRGB!Candidates
      BY <1>1, <2>3, <2>5 DEF Faultless
    <3>2. \A d \in Devices : shown[d] = OpenRGB!Own
      BY <1>1, <3>1 DEF OpenRGBInv, Noted
    <3>3. snapshot' = [d \in OpenRGB!Candidates |-> shown[d]]
      BY <1>3, <3>1 DEF Faultless, OpenRGB!SnapshotOf
    <3>4. QED
      BY <2>2, <2>4, <3>2, <3>3
  <2>6. QED
    BY <1>1, <1>3, <2>1, <2>2, <2>3, <2>5 DEF OpenRGBInv, OpenRGBTypes, Driven, Noted
<1>4. QED
  BY <1>2, <1>3 DEF OpenRGB!Open

LEMMA OpenRGBSetColorKeeps == ASSUME OpenRGB!LimitAssumption, OpenRGBInv, NEW c,
   OpenRGB!SetColor(c) PROVE OpenRGBInv'
<1>1. link.open /\ UNCHANGED <<conf, OpenRGB!Candidates>> /\ targets = OpenRGB!Candidates
  BY DEF OpenRGB!SetColor, OpenRGB!Active, OpenRGBInv, Driven, OpenRGB!Candidates
<1>2. PICK reached \in SUBSET (IF link.live THEN targets ELSE {}) :
          /\ shown' = [d \in Devices |-> IF d \in reached THEN [shown[d] EXCEPT !.colour = c]
                                                          ELSE shown[d]]
          /\ painted' = painted \cup reached
          /\ OpenRGB!NoteSet(reached)
  BY DEF OpenRGB!SetColor
<1>3. /\ reached \subseteq OpenRGB!Candidates /\ painted' \subseteq OpenRGB!Candidates
      /\ DOMAIN shown' = Devices /\ shown' = [d \in Devices |-> shown'[d]]
      /\ \A d \in Devices \ OpenRGB!Candidates : shown'[d] = shown[d]
  BY <1>1, <1>2 DEF OpenRGBInv, Driven
<1> DEFINE failures == IF reached # {} THEN 0 ELSE link.failures + 1
           drops    == failures = FailureLimit
<1>4. /\ link' = (IF drops THEN [OpenRGB!NoLink EXCEPT !.cooldown = link.cooldown]
                           ELSE [link EXCEPT !.failures = failures])
      /\ targets' = (IF drops THEN {} ELSE targets)
      /\ snapshot' = (IF drops THEN <<>> ELSE snapshot)
      /\ history' = [history EXCEPT !.dropped = @ \/ drops,
                                    !.failed = @ \/ (link.live /\ reached # targets)]
  BY <1>2 DEF OpenRGB!NoteSet
<1>5. failures \in Nat /\ drops \in BOOLEAN
  BY DEF OpenRGBInv, OpenRGBTypes
<1> HIDE DEF failures, drops
<1>6. /\ link' \in [open : BOOLEAN, live : BOOLEAN, failures : Nat, cooldown : BOOLEAN]
      /\ drops => ~link'.open /\ ~link'.live
      /\ ~drops => link'.open
  <2>1. CASE drops
    BY <1>4, <2>1 DEF OpenRGB!NoLink, OpenRGBInv, OpenRGBTypes
  <2>2. CASE ~drops
    BY <1>1, <1>4, <1>5, <2>2 DEF OpenRGBInv, OpenRGBTypes
  <2>3. QED
    BY <2>1, <2>2
<1>7. /\ history' \in [failed : BOOLEAN, dropped : BOOLEAN, lost : BOOLEAN, closed : BOOLEAN]
      /\ drops => history'.dropped
      /\ ~history'.failed => ~history.failed
      /\ ~history'.dropped => ~history.dropped
      /\ history'.lost = history.lost
  BY <1>4, <1>5 DEF OpenRGBInv, OpenRGBTypes
<1>8. Faultless' => Faultless /\ ~drops
  BY <1>1, <1>7 DEF Faultless
<1>9. Noted'
  BY <1>1, <1>3, <1>4, <1>6, <1>8 DEF Noted, OpenRGBInv
<1>10. QED
  BY <1>1, <1>3, <1>4, <1>6, <1>7, <1>9 DEF OpenRGBInv, OpenRGBTypes, Driven

LEMMA OpenRGBCloseKeeps == ASSUME OpenRGB!DeviceAssumption, OpenRGBInv, OpenRGB!Close
  PROVE OpenRGBInv'
<1> DEFINE noted == IF conf.restore THEN targets \cap DOMAIN snapshot ELSE {}
<1>1. /\ link.open /\ UNCHANGED <<conf, painted, OpenRGB!Candidates>>
         /\ targets = OpenRGB!Candidates
      /\ targets' = {} /\ snapshot' = <<>>
      /\ link' = [OpenRGB!NoLink EXCEPT !.cooldown = link.cooldown]
  BY DEF OpenRGB!Close, OpenRGBInv, Driven, OpenRGB!Candidates
<1>2. PICK restored \in SUBSET (IF link.live THEN noted ELSE {}) :
          /\ shown' = [d \in Devices |-> IF d \in restored THEN snapshot[d] ELSE shown[d]]
          /\ history' = [history EXCEPT !.closed = TRUE, !.lost = @ \/ ~link.live,
                                        !.failed = @ \/ (link.live /\ restored # noted)]
  BY DEF OpenRGB!Close
<1>3. /\ ~link'.open /\ ~link'.live
      /\ link' \in [open : BOOLEAN, live : BOOLEAN, failures : Nat, cooldown : BOOLEAN]
  BY <1>1 DEF OpenRGB!NoLink, OpenRGBInv, OpenRGBTypes
<1>4. /\ history' \in [failed : BOOLEAN, dropped : BOOLEAN, lost : BOOLEAN, closed : BOOLEAN]
      /\ ~history'.lost => link.live /\ ~history.lost
      /\ ~history'.lost /\ ~history'.failed => restored = noted /\ ~history.failed
      /\ history'.dropped = history.dropped
  BY <1>2 DEF OpenRGBInv, OpenRGBTypes
<1>5. DOMAIN shown' = Devices /\ shown' = [d \in Devices |-> shown'[d]]
  BY <1>2
<1>6. ASSUME Faultless', NEW d \in Devices PROVE shown'[d] = OpenRGB!Own
  <2>1. Faultless /\ restored = noted
    BY <1>1, <1>4, <1>6 DEF Faultless
  <2>2. /\ DOMAIN snapshot = OpenRGB!Candidates
           /\ \A e \in OpenRGB!Candidates : snapshot[e] = OpenRGB!Own
        /\ \A e \in Devices \ OpenRGB!Candidates : shown[e] = OpenRGB!Own
    BY <1>1, <2>1 DEF OpenRGBInv, Noted
  <2>3. restored = OpenRGB!Candidates
    BY <1>1, <2>1, <2>2 DEF Faultless
  <2>4. QED
    BY <1>2, <2>2, <2>3
<1>7. QED
  BY <1>1, <1>3, <1>4, <1>5, <1>6 DEF OpenRGBInv, OpenRGBTypes, Driven, Noted

LEMMA OpenRGBKeeps == ASSUME OpenRGB!DeviceAssumption, OpenRGB!LimitAssumption, OpenRGBInv,
   [OpenRGB!Next]_(OpenRGB!ovars) PROVE OpenRGBInv'
<1>1. CASE OpenRGB!Open
  BY <1>1, OpenRGBOpenKeeps
<1>2. ASSUME NEW c \in Colours, OpenRGB!SetColor(c) PROVE OpenRGBInv'
  BY <1>2, OpenRGBSetColorKeeps
<1>3. CASE OpenRGB!Close
  BY <1>3, OpenRGBCloseKeeps
<1>4. CASE OpenRGB!ServerRestarts \/ OpenRGB!CooldownEnds
  <2>1. /\ UNCHANGED <<conf, targets, snapshot, shown, history, painted, OpenRGB!Candidates>>
        /\ link'.open = link.open /\ (link'.live => link.live)
        /\ link' \in [open : BOOLEAN, live : BOOLEAN, failures : Nat, cooldown : BOOLEAN]
    BY <1>4
       DEF OpenRGB!ServerRestarts, OpenRGB!CooldownEnds, OpenRGBInv, OpenRGBTypes,
           OpenRGB!Candidates
  <2>2. QED
    BY <2>1 DEF OpenRGBInv, OpenRGBTypes, Driven, Noted, Faultless
<1>5. CASE UNCHANGED OpenRGB!ovars
  BY <1>5
     DEF OpenRGB!ovars, OpenRGBInv, OpenRGBTypes, Driven, Noted, Faultless, OpenRGB!Candidates
<1>6. QED
  BY <1>1, <1>2, <1>3, <1>4, <1>5 DEF OpenRGB!Next

--------------------------------------------------------------------------------
(* OpenRGB: the types                                                             *)

Shows == [mode : {"effect", "direct"}, colour : Colours \cup {"own"}]

\* What is noted of a device is something a device may show.
RGBTyped == OpenRGB!TypeOK /\ \A d \in DOMAIN snapshot : snapshot[d] \in Shows

LEMMA RGBInitTyped ==
    ASSUME OpenRGB!DeviceAssumption, OpenRGB!LimitAssumption, OpenRGB!Init PROVE RGBTyped
<1>1. /\ targets = {} /\ painted = {} /\ snapshot = <<>> /\ DOMAIN snapshot = {}
      /\ conf \in [directOnly : BOOLEAN, restore : BOOLEAN]
  BY DEF OpenRGB!Init
<1>2. link \in [open : BOOLEAN, live : BOOLEAN, failures : 0 .. FailureLimit - 1,
               cooldown : BOOLEAN]
  <2>1. 0 \in 0 .. FailureLimit - 1
    BY DEF OpenRGB!LimitAssumption
  <2>2. QED
    BY <2>1 DEF OpenRGB!Init, OpenRGB!NoLink
<1>3. OpenRGB!Own \in Shows /\ shown = [d \in Devices |-> OpenRGB!Own]
  BY DEF OpenRGB!Init, OpenRGB!Own, Shows
<1>4. calls \in 0 .. MaxCalls
  BY DEF OpenRGB!Init, OpenRGB!LimitAssumption
<1>5. history \in [failed : BOOLEAN, dropped : BOOLEAN, lost : BOOLEAN, closed : BOOLEAN]
  BY DEF OpenRGB!Init
<1>6. QED
  BY <1>1, <1>2, <1>3, <1>4, <1>5 DEF RGBTyped, OpenRGB!TypeOK, Shows

LEMMA RGBOpenTyped ==
    ASSUME OpenRGB!DeviceAssumption, OpenRGB!LimitAssumption, RGBTyped, OpenRGB!Open
    PROVE  RGBTyped'
<1>1. OpenRGB!Candidates \subseteq Devices /\ 0 \in 0 .. FailureLimit - 1
  BY DEF OpenRGB!Candidates, OpenRGB!DeviceAssumption, OpenRGB!LimitAssumption
<1>2. conf' = conf /\ calls' \in 0 .. MaxCalls
  <2>1. calls \in 0 .. MaxCalls /\ MaxCalls \in Nat
    BY DEF RGBTyped, OpenRGB!TypeOK, OpenRGB!LimitAssumption
  <2>2. conf' = conf /\ calls < MaxCalls /\ calls' = calls + 1
    BY DEF OpenRGB!Open
  <2>3. QED
    BY <2>1, <2>2
<1>3. CASE /\ link' = [link EXCEPT !.cooldown = TRUE]
           /\ UNCHANGED <<targets, snapshot, shown, history, painted>>
  BY <1>2, <1>3 DEF RGBTyped, OpenRGB!TypeOK
<1>4. ASSUME NEW heard \in SUBSET OpenRGB!Candidates,
             NEW switched \in SUBSET OpenRGB!Candidates,
             snapshot' = IF conf.restore THEN OpenRGB!SnapshotOf(heard) ELSE <<>>,
             shown' = IF conf.directOnly THEN OpenRGB!InDirect(switched) ELSE shown,
             history' = [history EXCEPT !.closed = FALSE, !.failed = @
               \/ heard # OpenRGB!Candidates],
             link' = [open |-> TRUE, live |-> TRUE, failures |-> 0, cooldown |-> FALSE],
             targets' = OpenRGB!Candidates, painted' = {}
      PROVE  RGBTyped'
  <2>1. /\ shown \in [Devices -> Shows] /\ conf \in [directOnly : BOOLEAN, restore : BOOLEAN]
        /\ history \in [failed : BOOLEAN, dropped : BOOLEAN, lost : BOOLEAN, closed : BOOLEAN]
    BY DEF RGBTyped, OpenRGB!TypeOK, Shows
  <2>2. shown' \in [Devices -> Shows]
    <3>1. \A d \in Devices : [shown[d] EXCEPT !.mode = "direct"] \in Shows
      BY <2>1 DEF Shows
    <3>2. OpenRGB!InDirect(switched) \in [Devices -> Shows]
      BY <2>1, <3>1 DEF OpenRGB!InDirect
    <3>3. QED
      BY <1>4, <2>1, <3>2
  <2>3. /\ DOMAIN snapshot' \subseteq Devices
        /\ \A d \in DOMAIN snapshot' : snapshot'[d] \in Shows
    <3>1. CASE conf.restore
      <4>1. snapshot' = [d \in heard |-> shown[d]]
        BY <1>4, <3>1 DEF OpenRGB!SnapshotOf
      <4>2. QED
        BY <1>1, <2>1, <4>1
    <3>2. CASE ~conf.restore
      BY <1>4, <3>2
    <3>3. QED
      BY <3>1, <3>2
  <2>4. history' \in [failed : BOOLEAN, dropped : BOOLEAN, lost : BOOLEAN, closed : BOOLEAN]
    BY <1>4, <2>1
  <2>5. QED
    BY <1>1, <1>2, <1>4, <2>1, <2>2, <2>3, <2>4 DEF RGBTyped, OpenRGB!TypeOK, Shows
<1>5. QED
  BY <1>3, <1>4 DEF OpenRGB!Open

LEMMA RGBSetColorTyped ==
    ASSUME OpenRGB!LimitAssumption, RGBTyped, NEW c \in Colours, OpenRGB!SetColor(c)
    PROVE  RGBTyped'
<1>1. conf' = conf /\ calls' \in 0 .. MaxCalls /\ link.open
  BY DEF OpenRGB!SetColor, OpenRGB!Active, RGBTyped, OpenRGB!TypeOK, OpenRGB!LimitAssumption
<1>2. PICK reached \in SUBSET (IF link.live THEN targets ELSE {}) :
          /\ shown' = [d \in Devices |-> IF d \in reached THEN [shown[d] EXCEPT !.colour = c]
                                                          ELSE shown[d]]
          /\ painted' = painted \cup reached
          /\ OpenRGB!NoteSet(reached)
  BY DEF OpenRGB!SetColor
<1> DEFINE failures == IF reached # {} THEN 0 ELSE link.failures + 1
           drops    == failures = FailureLimit
<1>3. /\ link' = (IF drops THEN [OpenRGB!NoLink EXCEPT !.cooldown = link.cooldown]
                           ELSE [link EXCEPT !.failures = failures])
      /\ targets' = (IF drops THEN {} ELSE targets)
      /\ snapshot' = (IF drops THEN <<>> ELSE snapshot)
      /\ history' = [history EXCEPT !.dropped = @ \/ drops,
                                    !.failed = @ \/ (link.live /\ reached # targets)]
  BY <1>2 DEF OpenRGB!NoteSet
<1>4. /\ link \in [open : BOOLEAN, live : BOOLEAN, failures : 0 .. FailureLimit - 1,
                   cooldown : BOOLEAN]
      /\ history \in [failed : BOOLEAN, dropped : BOOLEAN, lost : BOOLEAN, closed : BOOLEAN]
      /\ shown \in [Devices -> Shows] /\ targets \subseteq Devices /\ painted \subseteq Devices
      /\ DOMAIN snapshot \subseteq Devices /\ \A d \in DOMAIN snapshot : snapshot[d] \in Shows
      /\ conf \in [directOnly : BOOLEAN, restore : BOOLEAN]
  BY DEF RGBTyped, OpenRGB!TypeOK, Shows
<1>5. ~drops => failures \in 0 .. FailureLimit - 1
  BY <1>4 DEF OpenRGB!LimitAssumption
<1>6. drops \in BOOLEAN
  OBVIOUS
<1> HIDE DEF failures, drops
<1>7. link' \in [open : BOOLEAN, live : BOOLEAN, failures : 0 .. FailureLimit - 1,
                cooldown : BOOLEAN]
  <2>1. CASE drops
    <3>1. 0 \in 0 .. FailureLimit - 1
      BY DEF OpenRGB!LimitAssumption
    <3>2. QED
      BY <1>3, <1>4, <2>1, <3>1 DEF OpenRGB!NoLink
  <2>2. CASE ~drops
    BY <1>3, <1>4, <1>5, <2>2
  <2>3. QED
    BY <2>1, <2>2
<1>8. history' \in [failed : BOOLEAN, dropped : BOOLEAN, lost : BOOLEAN, closed : BOOLEAN]
  BY <1>3, <1>4, <1>6
<1>9. shown' \in [Devices -> Shows]
  <2>1. \A d \in Devices : [shown[d] EXCEPT !.colour = c] \in Shows
    BY <1>4 DEF Shows
  <2>2. QED
    BY <1>2, <1>4, <2>1
<1>10. targets' \subseteq Devices /\ painted' \subseteq Devices
  BY <1>2, <1>3, <1>4
<1>11. DOMAIN snapshot' \subseteq Devices /\ \A d \in DOMAIN snapshot' : snapshot'[d] \in Shows
  <2>1. DOMAIN <<>> = {}
    OBVIOUS
  <2>2. QED
    BY <1>3, <1>4, <2>1
<1>12. QED
  BY <1>1, <1>4, <1>7, <1>8, <1>9, <1>10, <1>11 DEF RGBTyped, OpenRGB!TypeOK, Shows

LEMMA RGBCloseTyped ==
    ASSUME OpenRGB!LimitAssumption, RGBTyped, OpenRGB!Close PROVE RGBTyped'
<1> DEFINE noted == IF conf.restore THEN targets \cap DOMAIN snapshot ELSE {}
<1>1. /\ UNCHANGED <<conf, painted, calls>> /\ targets' = {} /\ snapshot' = <<>>
      /\ link' = [OpenRGB!NoLink EXCEPT !.cooldown = link.cooldown]
  BY DEF OpenRGB!Close
<1>2. PICK restored \in SUBSET (IF link.live THEN noted ELSE {}) :
          /\ shown' = [d \in Devices |-> IF d \in restored THEN snapshot[d] ELSE shown[d]]
          /\ history' = [history EXCEPT !.closed = TRUE, !.lost = @ \/ ~link.live,
                                        !.failed = @ \/ (link.live /\ restored # noted)]
  BY DEF OpenRGB!Close
<1>3. /\ link.cooldown \in BOOLEAN /\ link.live \in BOOLEAN
      /\ history \in [failed : BOOLEAN, dropped : BOOLEAN, lost : BOOLEAN, closed : BOOLEAN]
      /\ shown \in [Devices -> Shows] /\ \A d \in DOMAIN snapshot : snapshot[d] \in Shows
  BY DEF RGBTyped, OpenRGB!TypeOK, Shows
<1>4. link' \in [open : BOOLEAN, live : BOOLEAN, failures : 0 .. FailureLimit - 1,
                cooldown : BOOLEAN]
  <2>1. 0 \in 0 .. FailureLimit - 1
    BY DEF OpenRGB!LimitAssumption
  <2>2. QED
    BY <1>1, <1>3, <2>1 DEF OpenRGB!NoLink
<1>5. history' \in [failed : BOOLEAN, dropped : BOOLEAN, lost : BOOLEAN, closed : BOOLEAN]
  BY <1>2, <1>3
<1>6. shown' \in [Devices -> Shows]
  BY <1>2, <1>3
<1>7. DOMAIN snapshot' = {}
  BY <1>1
<1>8. QED
  BY <1>1, <1>4, <1>5, <1>6, <1>7 DEF RGBTyped, OpenRGB!TypeOK, Shows

LEMMA RGBKeepsTyped ==
    ASSUME OpenRGB!DeviceAssumption, OpenRGB!LimitAssumption, RGBTyped,
           [OpenRGB!Next]_(OpenRGB!ovars)
    PROVE  RGBTyped'
<1>1. CASE OpenRGB!Open
  BY <1>1, RGBOpenTyped
<1>2. ASSUME NEW c \in Colours, OpenRGB!SetColor(c) PROVE RGBTyped'
  BY <1>2, RGBSetColorTyped
<1>3. CASE OpenRGB!Close
  BY <1>3, RGBCloseTyped
<1>4. CASE OpenRGB!ServerRestarts \/ OpenRGB!CooldownEnds
  BY <1>4 DEF OpenRGB!ServerRestarts, OpenRGB!CooldownEnds, RGBTyped, OpenRGB!TypeOK
<1>5. CASE UNCHANGED OpenRGB!ovars
  BY <1>5 DEF OpenRGB!ovars, RGBTyped, OpenRGB!TypeOK
<1>6. QED
  BY <1>1, <1>2, <1>3, <1>4, <1>5 DEF OpenRGB!Next


--------------------------------------------------------------------------------
(* SteelSeries: the inductive invariant.  A colour is remembered only by an open  *)
(* session, and only a post whose effect the engine knows of changes the lights   *)
(* without raising a doubt.                                                       *)

SteelSeriesAssumptions ==
    SteelSeries!LimitAssumption /\ SteelSeries!PortAssumption /\ SteelSeries!ColourAssumption

Sessions == [address : 0 .. MaxPorts, failures : 0 .. FailureLimit - 1,
             last : Colours \cup {SteelSeries!NoColour}, cooldown : BOOLEAN]
Vendors  == [port : 0 .. MaxPorts, game : BOOLEAN,
             bound : Colours \cup {SteelSeries!NoColour}, shown : Colours \cup {"own"}]

\* What the lights show of a session.
Remembered(e) == IF e.last # SteelSeries!NoColour THEN e.last ELSE "own"

SteelSeriesInv ==
    /\ SteelSeries!TypeOK
    /\ engine.address = 0 => engine.last = SteelSeries!NoColour
    /\ ~doubt => gg.shown = Remembered(engine)

--------------------------------------------------------------------------------
\* A session that is counted against either goes on as it was, but for the count, or ends.
LEMMA CountedIsKnown ==
    ASSUME SteelSeries!LimitAssumption, SteelSeries!PortAssumption, NEW e \in Sessions,
       NEW ok \in BOOLEAN
    PROVE  /\ SteelSeries!Counted(e, ok) \in Sessions
           /\ \/ SteelSeries!Counted(e, ok).address = e.address
                 /\ SteelSeries!Counted(e, ok).last = e.last
              \/ SteelSeries!Counted(e, ok).address = 0
                 /\ SteelSeries!Counted(e, ok).last = SteelSeries!NoColour
           /\ ok => SteelSeries!Counted(e, ok).address = e.address
              /\ SteelSeries!Counted(e, ok).last = e.last
<1>1. CASE ok
  BY <1>1 DEF SteelSeries!Counted, Sessions, SteelSeries!LimitAssumption
<1>2. CASE ~ok /\ e.failures + 1 < FailureLimit
  BY <1>2 DEF SteelSeries!Counted, Sessions, SteelSeries!LimitAssumption
<1>3. CASE ~ok /\ ~(e.failures + 1 < FailureLimit)
  <2>1. SteelSeries!Counted(e, ok) = SteelSeries!Stopped(e.cooldown)
    BY <1>3 DEF SteelSeries!Counted
  <2>2. /\ SteelSeries!Stopped(e.cooldown) \in Sessions
        /\ SteelSeries!Stopped(e.cooldown).address = 0
           /\ SteelSeries!Stopped(e.cooldown).last = SteelSeries!NoColour
    <3>1. e.cooldown \in BOOLEAN /\ 0 \in 0 .. FailureLimit - 1
      BY DEF Sessions, SteelSeries!LimitAssumption
    <3>2. 0 \in 0 .. MaxPorts
      BY DEF SteelSeries!PortAssumption
    <3>3. QED
      BY <3>1, <3>2 DEF SteelSeries!Stopped, Sessions
  <2>3. QED
    BY <1>3, <2>1, <2>2
<1>4. QED
  BY <1>1, <1>2, <1>3

\* A post leaves GG as it was, does its work, or does it and goes unanswered.
LEMMA PostsAreKnown ==
    ASSUME gg \in Vendors, doubt \in BOOLEAN, NEW address,
       NEW c \in Colours \cup {SteelSeries!NoColour},
           NEW post \in {"metadata", "bind", "remove"}, NEW p \in SteelSeries!Posts(address,
              post, c)
    PROVE  /\ p.ok \in BOOLEAN /\ p.gg \in Vendors /\ p.doubt \in BOOLEAN
           /\ ~p.ok /\ ~p.doubt => p.gg = gg /\ ~doubt
           /\ p.ok => p.doubt = doubt
           /\ p.ok /\ post # "remove" => p.gg.shown = gg.shown
           /\ p.ok /\ post = "remove" => p.gg.shown = "own"
<1>1. SteelSeries!After(post, c) \in Vendors
  BY DEF SteelSeries!After, SteelSeries!Started, Vendors
<1>2. /\ post # "remove" => SteelSeries!After(post, c).shown = gg.shown
      /\ post = "remove" => SteelSeries!After(post, c).shown = "own"
  BY DEF SteelSeries!After, SteelSeries!Started, Vendors
<1>3. \/ p.ok = FALSE /\ p.gg = gg /\ p.doubt = doubt
      \/ p.ok = TRUE /\ p.gg = SteelSeries!After(post, c) /\ p.doubt = doubt
      \/ p.ok = FALSE /\ p.gg = SteelSeries!After(post, c) /\ p.doubt = TRUE
  <2>1. \/ p \in [ok : {FALSE}, gg : {gg}, doubt : {doubt}]
        \/ p = [ok |-> TRUE,  gg |-> SteelSeries!After(post, c), doubt |-> doubt]
        \/ p = [ok |-> FALSE, gg |-> SteelSeries!After(post, c), doubt |-> TRUE]
    BY Zenon DEF SteelSeries!Posts
  <2>2. CASE p \in [ok : {FALSE}, gg : {gg}, doubt : {doubt}]
    <3>1. p.ok \in {FALSE} /\ p.gg \in {gg} /\ p.doubt \in {doubt}
      BY <2>2
    <3>2. QED
      BY <3>1, Zenon
  <2>3. CASE p = [ok |-> TRUE, gg |-> SteelSeries!After(post, c), doubt |-> doubt]
    <3>1. p.ok = TRUE /\ p.gg = SteelSeries!After(post, c) /\ p.doubt = doubt
      BY <2>3, Zenon
    <3>2. QED
      BY <3>1, Zenon
  <2>4. CASE p = [ok |-> FALSE, gg |-> SteelSeries!After(post, c), doubt |-> TRUE]
    <3>1. p.ok = FALSE /\ p.gg = SteelSeries!After(post, c) /\ p.doubt = TRUE
      BY <2>4, Zenon
    <3>2. QED
      BY <3>1, Zenon
  <2>5. QED
    BY <2>1, <2>2, <2>3, <2>4
<1>4. QED
  BY <1>1, <1>2, <1>3

LEMMA SteelSeriesInit == ASSUME SteelSeriesAssumptions, SteelSeries!Init PROVE SteelSeriesInv
<1>1. engine \in Sessions /\ gg \in Vendors /\ 0 \in 0 .. MaxPorts /\ calls \in 0 .. MaxCalls
  BY DEF SteelSeriesAssumptions, SteelSeries!Init, SteelSeries!Stopped, SteelSeries!Started,
         Sessions, Vendors,
         SteelSeries!LimitAssumption, SteelSeries!PortAssumption
<1>2. engine.last = SteelSeries!NoColour /\ gg.shown = "own"
  BY DEF SteelSeries!Init, SteelSeries!Stopped, SteelSeries!Started
<1>3. QED
  BY <1>1, <1>2
     DEF SteelSeries!Init, SteelSeriesInv, SteelSeries!TypeOK, Remembered, Sessions, Vendors

LEMMA SteelSeriesOpenKeeps == ASSUME SteelSeriesAssumptions, SteelSeriesInv,
   SteelSeries!Open PROVE SteelSeriesInv'
<1>1. PICK address \in 1 .. MaxPorts, p \in SteelSeries!Posts(gg.port, "metadata",
           SteelSeries!NoColour) :
         /\ gg' = p.gg
         /\ engine' = (IF p.ok THEN [SteelSeries!Stopped(FALSE) EXCEPT !.address = address]
                               ELSE [engine EXCEPT !.cooldown = TRUE])
         /\ doubt' = p.doubt
  BY DEF SteelSeries!Open
<1>2. /\ engine \in Sessions /\ gg \in Vendors /\ doubt \in BOOLEAN
         /\ calls' \in 0 .. MaxCalls
      /\ engine.address = 0 /\ engine.last = SteelSeries!NoColour /\ beat' \in 0 .. MaxPorts
  BY DEF SteelSeries!Open, SteelSeriesInv, SteelSeries!TypeOK, Sessions, Vendors,
         SteelSeriesAssumptions, SteelSeries!LimitAssumption
<1>3. engine' \in Sessions /\ engine'.last = SteelSeries!NoColour
  <2>1. CASE p.ok
    <3>1. engine' = [address |-> address, failures |-> 0, last |-> SteelSeries!NoColour,
          cooldown |-> FALSE]
      BY <1>1, <2>1 DEF SteelSeries!Stopped
    <3>2. address \in 0 .. MaxPorts /\ 0 \in 0 .. FailureLimit - 1
      BY DEF SteelSeriesAssumptions, SteelSeries!LimitAssumption, SteelSeries!PortAssumption
    <3>3. QED
      BY <3>1, <3>2 DEF Sessions
  <2>2. CASE ~p.ok
    BY <1>1, <1>2, <2>2 DEF Sessions
  <2>3. QED
    BY <2>1, <2>2
<1>4. gg' \in Vendors /\ doubt' \in BOOLEAN /\ (~doubt' => ~doubt /\ gg'.shown = gg.shown)
  BY <1>1, <1>2, PostsAreKnown
<1>5. QED
  BY <1>2, <1>3, <1>4 DEF SteelSeriesInv, SteelSeries!TypeOK, Remembered, Sessions, Vendors

LEMMA SteelSeriesSetColorKeeps == ASSUME SteelSeriesAssumptions, SteelSeriesInv,
   NEW c \in Colours, SteelSeries!SetColor(c) PROVE SteelSeriesInv'
<1>1. /\ engine \in Sessions /\ gg \in Vendors /\ doubt \in BOOLEAN
         /\ calls' \in 0 .. MaxCalls
      /\ engine.address # 0 /\ beat' \in 0 .. MaxPorts /\ c # SteelSeries!NoColour
         /\ SteelSeries!LimitAssumption
  BY DEF SteelSeries!SetColor, SteelSeriesInv, SteelSeries!TypeOK, Sessions, Vendors,
         SteelSeriesAssumptions, SteelSeries!LimitAssumption, SteelSeries!ColourAssumption
<1>2. PICK p \in SteelSeries!Posts(engine.address, "bind", c) :
          \/ /\ ~p.ok
             /\ gg' = p.gg
             /\ engine' = SteelSeries!Counted(engine, FALSE)
             /\ doubt' = (p.doubt \/ engine'.address = 0)
          \/ /\ p.ok
             /\ \/ /\ gg' = [p.gg EXCEPT !.shown = c] /\ doubt' = FALSE
                   /\ engine' = SteelSeries!Counted([engine EXCEPT !.last = c], TRUE)
                \/ /\ engine' = SteelSeries!Counted(engine, FALSE)
                   /\ \/ gg' = [p.gg EXCEPT !.shown = c] /\ doubt' = TRUE
                      \/ gg' = p.gg /\ doubt' = (p.doubt \/ engine'.address = 0)
  BY DEF SteelSeries!SetColor
<1>3. /\ p.ok \in BOOLEAN /\ p.gg \in Vendors /\ p.doubt \in BOOLEAN
      /\ ~p.ok /\ ~p.doubt => p.gg = gg /\ ~doubt
      /\ p.ok => p.doubt = doubt /\ p.gg.shown = gg.shown
  BY <1>1, PostsAreKnown
\* The colour was bound and fired.
<1>4. CASE /\ gg' = [p.gg EXCEPT !.shown = c] /\ doubt' = FALSE
           /\ engine' = SteelSeries!Counted([engine EXCEPT !.last = c], TRUE)
  <2>1. [engine EXCEPT !.last = c] \in Sessions
    BY <1>1 DEF Sessions
  <2>2. engine' \in Sessions /\ engine'.address = engine.address /\ engine'.last = c
    BY <1>1, <1>4, <2>1, CountedIsKnown DEF Sessions, SteelSeriesAssumptions
  <2>3. gg' \in Vendors /\ gg'.shown = c
    BY <1>3, <1>4 DEF Vendors
  <2>4. QED
    BY <1>1, <1>4, <2>2, <2>3
       DEF SteelSeriesInv, SteelSeries!TypeOK, Remembered, Sessions, Vendors
\* One of the posts failed.
<1>5. CASE /\ engine' = SteelSeries!Counted(engine, FALSE) /\ gg' \in Vendors
              /\ doubt' \in BOOLEAN
           /\ ~doubt' => ~doubt /\ gg'.shown = gg.shown /\ engine'.address # 0
  <2>1. /\ engine' \in Sessions
        /\ \/ engine'.address = engine.address /\ engine'.last = engine.last
           \/ engine'.address = 0 /\ engine'.last = SteelSeries!NoColour
    BY <1>1, <1>5, CountedIsKnown DEF SteelSeriesAssumptions
  <2>2. ASSUME ~doubt' PROVE gg'.shown = gg.shown /\ engine'.last = engine.last /\ ~doubt
    BY <1>5, <2>1, <2>2
  <2>3. engine'.address = 0 => engine'.last = SteelSeries!NoColour
    BY <1>1, <2>1
  <2>4. QED
    BY <1>1, <1>5, <2>1, <2>2, <2>3
       DEF SteelSeriesInv, SteelSeries!TypeOK, Remembered, Sessions, Vendors
<1>6. [p.gg EXCEPT !.shown = c] \in Vendors
  BY <1>3 DEF Vendors
<1>7. QED
  BY <1>2, <1>3, <1>4, <1>5, <1>6

LEMMA SteelSeriesCloseKeeps == ASSUME SteelSeriesAssumptions, SteelSeriesInv,
   SteelSeries!Close PROVE SteelSeriesInv'
<1>1. /\ engine \in Sessions /\ gg \in Vendors /\ doubt \in BOOLEAN
      /\ engine' = SteelSeries!Stopped(engine.cooldown) /\ UNCHANGED <<beat, calls>>
  BY DEF SteelSeries!Close, SteelSeriesInv, SteelSeries!TypeOK, Sessions, Vendors
<1>2. PICK p \in SteelSeries!Posts(engine.address, "remove", SteelSeries!NoColour) :
         gg' = p.gg /\ doubt' = (p.doubt \/ ~p.ok)
  BY DEF SteelSeries!Close
<1>3. engine' \in Sessions /\ engine'.last = SteelSeries!NoColour
  BY <1>1
     DEF SteelSeries!Stopped, Sessions, SteelSeriesAssumptions, SteelSeries!LimitAssumption,
         SteelSeries!PortAssumption
<1>4. gg' \in Vendors /\ doubt' \in BOOLEAN /\ (~doubt' => gg'.shown = "own")
  BY <1>1, <1>2, PostsAreKnown
<1>5. QED
  BY <1>1, <1>3, <1>4 DEF SteelSeriesInv, SteelSeries!TypeOK, Remembered, Sessions, Vendors

LEMMA SteelSeriesBeatKeeps == ASSUME SteelSeriesAssumptions, SteelSeriesInv,
   SteelSeries!BeatSent \/ SteelSeries!BeatAnswered PROVE SteelSeriesInv'
<1>1. engine \in Sessions /\ SteelSeries!LimitAssumption
  BY DEF SteelSeriesInv, SteelSeries!TypeOK, Sessions, SteelSeriesAssumptions
<1>2. CASE SteelSeries!BeatSent
  BY <1>1, <1>2
     DEF SteelSeries!BeatSent, SteelSeriesInv, SteelSeries!TypeOK, Remembered, Sessions
<1>3. CASE SteelSeries!BeatAnswered
  <2>1. PICK ok \in BOOLEAN : /\ engine' = SteelSeries!Counted(engine, ok)
                              /\ doubt' = (doubt \/ engine'.address # engine.address)
    BY <1>3 DEF SteelSeries!BeatAnswered
  <2>2. /\ engine' \in Sessions
        /\ \/ engine'.address = engine.address /\ engine'.last = engine.last
           \/ engine'.address = 0 /\ engine'.last = SteelSeries!NoColour
    BY <1>1, <2>1, CountedIsKnown DEF SteelSeriesAssumptions
  <2>3. beat' \in 0 .. MaxPorts /\ UNCHANGED <<gg, calls>>
    BY <1>3 DEF SteelSeries!BeatAnswered, SteelSeriesAssumptions, SteelSeries!PortAssumption
  <2>4. QED
    BY <1>1, <2>1, <2>2, <2>3 DEF SteelSeriesInv, SteelSeries!TypeOK, Remembered, Sessions
<1>4. QED
  BY <1>2, <1>3

LEMMA SteelSeriesKeeps == ASSUME SteelSeriesAssumptions, SteelSeriesInv,
   [SteelSeries!Next]_(SteelSeries!tvars) PROVE SteelSeriesInv'
<1>1. CASE SteelSeries!Open
  BY <1>1, SteelSeriesOpenKeeps
<1>2. ASSUME NEW c \in Colours, SteelSeries!SetColor(c) PROVE SteelSeriesInv'
  BY <1>2, SteelSeriesSetColorKeeps
<1>3. CASE SteelSeries!Close
  BY <1>3, SteelSeriesCloseKeeps
<1>4. CASE SteelSeries!BeatSent \/ SteelSeries!BeatAnswered
  BY <1>4, SteelSeriesBeatKeeps
<1>5. CASE SteelSeries!GGRestarts
  <2>1. gg' \in Vendors /\ calls' \in 0 .. MaxCalls
    BY <1>5
       DEF SteelSeries!GGRestarts, SteelSeries!Started, Vendors, SteelSeriesInv,
           SteelSeries!TypeOK, SteelSeriesAssumptions, SteelSeries!LimitAssumption
  <2>2. QED
    BY <1>5, <2>1 DEF SteelSeries!GGRestarts, SteelSeriesInv, SteelSeries!TypeOK, Vendors
<1>6. CASE SteelSeries!CooldownEnds
  BY <1>6 DEF SteelSeries!CooldownEnds, SteelSeriesInv, SteelSeries!TypeOK, Remembered
<1>7. CASE UNCHANGED SteelSeries!tvars
  BY <1>7 DEF SteelSeries!tvars, SteelSeriesInv, SteelSeries!TypeOK, Remembered
<1>8. QED
  BY <1>1, <1>2, <1>3, <1>4, <1>5, <1>6, <1>7 DEF SteelSeries!Next


--------------------------------------------------------------------------------
(* The setup: the inductive invariant.  While nothing changes, the answers an     *)
(* asker collects are what answers; nobody reports or is told while it asks.      *)

Askers == [who : {"unborn", "nobody", "wizard", "doctor"}, probes : Seq(BOOLEAN),
           at : {"idle", "probing", "ghub", "openrgb", "reprobe"}]

SetupTypes ==
    /\ machine \in Setup!MachineType /\ Setup!Possible(machine)
    /\ mode \in Setup!Modes \cup {"newer"}
    /\ asker \in Askers /\ Len(asker.probes) <= 5
    /\ report.use \in Setup!Known \cup {"unknown"} /\ report.failed \subseteq Setup!Checked
    /\ told \in {"nothing", "unsupported", "silent", "again", "set"}
    /\ steady \in BOOLEAN /\ changes \in 0 .. MaxChanges

\* Nothing is reported or told while somebody is asking, and what a steady asker was
\* answered is so.
Asking ==
    /\ asker.who # "nobody" => report = Setup!NoReport /\ told = "nothing"
    /\ asker.who = "unborn" => asker.at = "idle"
    /\ steady /\ asker.at = "probing" =>
          \A i \in DOMAIN asker.probes :
              asker.probes[i] = (Setup!Engines[i] \in Setup!Answering(machine))
    /\ asker.at # "probing" /\ asker.at # "idle" => asker.who = "wizard"

SetupInv ==
    SetupTypes /\ Asking /\ Setup!DoctorSeesWhatTheTrayDoes /\ Setup!SetMeansAnswering

LEMMA KnownAre ==
    /\ Setup!Known = {"chroma", "ghub", "steelseries", "openrgb", "none"}
    /\ DOMAIN Setup!Engines = 1 .. 5 /\ Len(Setup!Engines) = 5
    /\ {Setup!Engines[i] : i \in 1 .. 5} = Setup!Known
<1>1. DOMAIN Setup!Engines = 1 .. 5 /\ Len(Setup!Engines) = 5
  BY DEF Setup!Engines
<1>2. /\ Setup!Engines[1] = "chroma" /\ Setup!Engines[2] = "ghub"
      /\ Setup!Engines[3] = "steelseries" /\ Setup!Engines[4] = "openrgb"
      /\ Setup!Engines[5] = "none"
  BY DEF Setup!Engines
<1>3. Setup!Known = {Setup!Engines[i] : i \in 1 .. 5}
  BY <1>1 DEF Setup!Known, Setup!Range
<1>4. 1 .. 5 = {1, 2, 3, 4, 5}
  OBVIOUS
<1>5. {Setup!Engines[i] : i \in 1 .. 5} = {"chroma", "ghub", "steelseries", "openrgb", "none"}
  BY <1>2, <1>4
<1>6. QED
  BY <1>1, <1>3, <1>5

\* The first of a sequence's elements that are in a set is one of them, and none before it is.
LEMMA FirstInIs ==
    ASSUME NEW A, NEW s \in Seq(A), NEW S, NEW j \in DOMAIN s, s[j] \in S
    PROVE  \E i \in DOMAIN s : /\ Setup!FirstIn(s, S) = s[i] /\ s[i] \in S /\ i <= j
                               /\ \A k \in DOMAIN s : s[k] \in S => i <= k
<1> DEFINE T == {i \in DOMAIN s : s[i] \in S}
           Least(i) == s[i] \in S /\ \A k \in DOMAIN s : s[k] \in S => i <= k
           first == CHOOSE i \in DOMAIN s : Least(i)
<1>1. \E i \in DOMAIN s : Least(i)
  <2>1. T \in SUBSET Nat /\ T # {}
    OBVIOUS
  <2>2. \E i \in T : \A k \in T : i <= k
    <3> HIDE DEF T
    <3>1. QED
      BY <2>1, LeastExists
  <2>3. QED
    BY <2>2
<1>2. first \in DOMAIN s /\ Least(first)
  <2> HIDE DEF Least
  <2>1. QED
    BY <1>1
<1>3. Setup!FirstIn(s, S) = s[first]
  BY DEF Setup!FirstIn
<1>4. QED
  <2> HIDE DEF first
  <2>1. QED
    BY <1>2, <1>3

LEMMA FirstOfIsKnown ==
    ASSUME Setup!OrderAssumption, NEW answers PROVE Setup!FirstOf(Order, answers) \in Setup!Known
<1>1. CASE Setup!Range(Order) \cap Setup!Known \cap answers = {}
  BY <1>1, KnownAre DEF Setup!FirstOf
<1>2. CASE Setup!Range(Order) \cap Setup!Known \cap answers # {}
  <2>1. PICK j \in DOMAIN Order : Order[j] \in Setup!Known \cap answers
    BY <1>2 DEF Setup!Range
  <2>2. Setup!FirstIn(Order, Setup!Known \cap answers) \in Setup!Known \cap answers
    BY ZenonT(30), <2>1, FirstInIs DEF Setup!OrderAssumption
  <2>3. QED
    BY <1>2, <2>2 DEF Setup!FirstOf
<1>3. QED
  BY <1>1, <1>2

LEMMA ModesAre == Setup!Modes = Setup!Known \cup {"auto"} /\ "none" \in Setup!Known
                  /\ Setup!Checked \subseteq Setup!Known /\ "auto" \notin Setup!Known
BY KnownAre DEF Setup!Modes, Setup!Checked

LEMMA SetupInit == ASSUME PartsAssumption, Setup!Init PROVE SetupInv
<1>1. machine \in Setup!MachineType /\ Setup!Possible(machine)
  BY DEF Setup!Init, PartsAssumption, Setup!MachineAssumption
<1>2. asker = [who |-> "unborn", probes |-> <<>>, at |-> "idle"]
  BY DEF Setup!Init, Setup!Idle
<1>3. <<>> \in Seq(BOOLEAN) /\ Len(<<>>) = 0
  OBVIOUS
<1>4. asker \in Askers /\ Len(asker.probes) <= 5
  BY <1>2, <1>3 DEF Askers
<1>5. report = Setup!NoReport /\ told = "nothing" /\ steady = FALSE /\ changes = 0 /\ mode = "auto"
  BY DEF Setup!Init
<1>6. report.use = "unknown" /\ report.failed = {}
  BY <1>5 DEF Setup!NoReport
<1>7. changes \in 0 .. MaxChanges
  BY <1>5 DEF PartsAssumption, Setup!ChangesAssumption
<1>8. SetupTypes
  BY <1>1, <1>4, <1>5, <1>6, <1>7, ModesAre DEF SetupTypes
<1>9. Asking
  BY <1>2, <1>5 DEF Asking
<1>10. Setup!DoctorSeesWhatTheTrayDoes /\ Setup!SetMeansAnswering
  BY <1>5 DEF Setup!DoctorSeesWhatTheTrayDoes, Setup!SetMeansAnswering
<1>11. QED
  BY <1>8, <1>9, <1>10 DEF SetupInv

\* Whatever G HUB is missing, a blocker that is really so comes first.
LEMMA GHubReason ==
    ASSUME NEW m \in Setup!MachineType, ~Setup!GHubAnswers(m)
    PROVE  /\ Setup!Blockers(m) # {}
           /\ Setup!True(Setup!FirstIn(Setup!Blocking, Setup!Blockers(m)), m)
<1> DEFINE B == Setup!Blocking
           S == Setup!Blockers(m)
<1>1. /\ DOMAIN B = 1 .. 4 /\ B[1] = "dll" /\ B[2] = "stopped" /\ B[3] = "dynamic"
      /\ B[4] = "unlisted"
  BY DEF Setup!Blocking
<1>a. B \in Seq({"dll", "stopped", "dynamic", "unlisted"})
  BY DEF Setup!Blocking
<1>2. Setup!Range(B) = {B[1], B[2], B[3], B[4]}
  <2>1. 1 .. 4 = {1, 2, 3, 4}
    OBVIOUS
  <2>2. Setup!Range(B) = {B[i] : i \in 1 .. 4}
    BY <1>1 DEF Setup!Range
  <2>3. QED
    <3> HIDE DEF B
    <3>1. QED
      BY <2>1, <2>2
<1>3. "dll" \in S <=> m.dll = "none"
  BY <1>1, <1>2 DEF Setup!Blockers
<1>4. "stopped" \in S <=> Setup!GHubRunning(m) = "no"
  BY <1>1, <1>2 DEF Setup!Blockers
<1>5. PICK j \in {1, 2} : B[j] \in S
  BY <1>1, <1>3, <1>4 DEF Setup!GHubAnswers
<1> HIDE DEF B, S
<1>6. j \in DOMAIN B
  BY <1>1
<1>7. PICK i \in DOMAIN B : Setup!FirstIn(B, S) = B[i] /\ B[i] \in S /\ i <= j
  BY <1>a, <1>1, <1>5, <1>6, FirstInIs
<1>8. i \in {1, 2}
  BY <1>1, <1>7
<1>9. CASE i = 1
  BY <1>1, <1>3, <1>7, <1>9 DEF Setup!True, B, S
<1>10. CASE i = 2
  <2>1. Setup!GHubRunning(m) = "no" /\ Setup!FirstIn(B, S) = "stopped"
    BY <1>1, <1>4, <1>7, <1>10
  <2>2. ~m.agent
    BY <2>1 DEF Setup!GHubRunning
  <2>3. QED
    BY <1>7, <2>1, <2>2 DEF Setup!True, B, S
<1>11. QED
  BY <1>8, <1>9, <1>10

LEMMA ReasonIsTrue ==
    ASSUME machine \in Setup!MachineType, NEW e \in Setup!Checked \ Setup!Answering(machine)
    PROVE  Setup!True(Setup!Reason(e), machine)
<1>1. e \in Setup!Known
  BY ModesAre
<1>2. CASE e = "openrgb"
  <2>1. ~(machine.library /\ machine.server = "up")
    BY <1>1, <1>2 DEF Setup!Answering, Setup!OpenRGBAnswers
  <2>2. Setup!Reason(e) = IF machine.library THEN "server" ELSE "library"
    BY <1>2 DEF Setup!Reason
  <2>3. QED
    BY <2>1, <2>2 DEF Setup!True
<1>3. CASE e # "openrgb" /\ ~Setup!Supported(e, machine)
  <2>1. Setup!Reason(e) = "platform"
    BY <1>3 DEF Setup!Reason
  <2>2. e \in {"chroma", "ghub"}
    BY <1>3 DEF Setup!Checked
  <2>3. machine.platform # "windows"
    BY <1>3, <2>2 DEF Setup!Supported
  <2>4. QED
    BY <2>1, <2>3 DEF Setup!True
<1>4. CASE e = "chroma" /\ Setup!Supported(e, machine)
  <2>1. ~machine.synapse
    BY <1>1, <1>4 DEF Setup!Answering
  <2>2. Setup!Reason(e) = "synapse"
    BY <1>4 DEF Setup!Reason
  <2>3. QED
    BY <2>1, <2>2 DEF Setup!True
<1>5. CASE e = "ghub" /\ Setup!Supported(e, machine)
  <2>1. ~Setup!GHubAnswers(machine)
    BY <1>1, <1>5 DEF Setup!Answering
  <2>2. /\ Setup!Blockers(machine) # {}
        /\ Setup!True(Setup!FirstIn(Setup!Blocking, Setup!Blockers(machine)), machine)
    BY <2>1, GHubReason
  <2>3. Setup!Reason(e) = Setup!FirstIn(Setup!Blocking, Setup!Blockers(machine))
    BY <1>5, <2>2 DEF Setup!Reason
  <2>4. QED
    BY <2>2, <2>3
<1>6. QED
  BY <1>2, <1>3, <1>4, <1>5 DEF Setup!Checked

\* With its library there and nothing in its way, G HUB answers.
LEMMA NothingInTheWay ==
    ASSUME NEW m \in Setup!MachineType, Setup!Blockers(m) = {} PROVE Setup!GHubAnswers(m)
BY GHubReason

LEMMA SetupBegin == ASSUME PartsAssumption, SetupInv, Setup!Begin PROVE SetupInv'
<1> USE DEF SetupInv, Setup!Begin
<1>1. machine' \in Setup!MachineType /\ Setup!Possible(machine')
  BY DEF PartsAssumption, Setup!MachineAssumption
<1>2. asker' = [who |-> "nobody", probes |-> <<>>, at |-> "idle"]
  BY DEF Setup!Idle
<1>3. <<>> \in Seq(BOOLEAN) /\ Len(<<>>) = 0
  OBVIOUS
<1>4. asker' \in Askers /\ Len(asker'.probes) <= 5
  BY <1>2, <1>3 DEF Askers
<1>5. report' = Setup!NoReport /\ told' = "nothing"
  BY DEF Asking
<1>6. SetupTypes'
  BY <1>1, <1>4 DEF SetupTypes
<1>7. Asking'
  BY <1>2, <1>5 DEF Asking
<1>8. Setup!DoctorSeesWhatTheTrayDoes' /\ Setup!SetMeansAnswering'
  BY <1>5 DEF Setup!DoctorSeesWhatTheTrayDoes, Setup!SetMeansAnswering, Setup!NoReport
<1>9. QED
  BY <1>6, <1>7, <1>8

LEMMA SetupMachineChanges ==
    ASSUME PartsAssumption, SetupInv, Setup!MachineChanges PROVE SetupInv'
<1> USE DEF SetupInv, Setup!MachineChanges
<1> DEFINE Changed == {[machine EXCEPT !.synapse = ~@], [machine EXCEPT !.gg = ~@],
                 [machine EXCEPT !.agent = ~@], [machine EXCEPT !.apps = "listed"],
                 [machine EXCEPT !.dynamic = IF @ = "on" THEN "off" ELSE "on"],
                 [machine EXCEPT !.server = IF @ = "off" THEN "up" ELSE "off"]}
<1>1. machine' \in Changed /\ Setup!Possible(machine')
  OBVIOUS
<1>2. machine \in Setup!MachineType
  BY DEF SetupTypes
<1>3. Changed \subseteq Setup!MachineType
  <2>1. /\ machine.synapse \in BOOLEAN /\ machine.gg \in BOOLEAN /\ machine.agent \in BOOLEAN
        /\ [machine EXCEPT !.synapse = ~@] \in Setup!MachineType
    BY <1>2 DEF Setup!MachineType
  <2>2. [machine EXCEPT !.gg = ~@] \in Setup!MachineType
    BY <1>2 DEF Setup!MachineType
  <2>3. [machine EXCEPT !.agent = ~@] \in Setup!MachineType
    BY <1>2 DEF Setup!MachineType
  <2>4. [machine EXCEPT !.apps = "listed"] \in Setup!MachineType
    BY <1>2 DEF Setup!MachineType
  <2>5. [machine EXCEPT !.dynamic = IF @ = "on" THEN "off" ELSE "on"] \in Setup!MachineType
    BY <1>2 DEF Setup!MachineType
  <2>6. [machine EXCEPT !.server = IF @ = "off" THEN "up" ELSE "off"] \in Setup!MachineType
    BY <1>2 DEF Setup!MachineType
  <2>7. QED
    BY <2>1, <2>2, <2>3, <2>4, <2>5, <2>6
<1>4. changes' \in 0 .. MaxChanges
  BY DEF SetupTypes, PartsAssumption, Setup!ChangesAssumption
<1>5. SetupTypes'
  BY <1>1, <1>3, <1>4 DEF SetupTypes
<1>6. steady' = FALSE /\ UNCHANGED <<mode, asker, report, told>>
  OBVIOUS
<1>7. Asking'
  BY <1>6 DEF Asking
<1>8. Setup!DoctorSeesWhatTheTrayDoes' /\ Setup!SetMeansAnswering'
  BY <1>6 DEF Setup!DoctorSeesWhatTheTrayDoes, Setup!SetMeansAnswering
<1>9. QED
  BY <1>5, <1>7, <1>8

LEMMA SetupAsk ==
    ASSUME SetupInv, NEW who \in {"wizard", "doctor"}, Setup!Ask(who) PROVE SetupInv'
<1> USE DEF SetupInv, Setup!Ask
<1>1. <<>> \in Seq(BOOLEAN) /\ Len(<<>>) = 0 /\ DOMAIN <<>> = {}
  OBVIOUS
<1>2. asker' = [who |-> who, probes |-> <<>>, at |-> "probing"]
  OBVIOUS
<1>3. asker' \in Askers /\ Len(asker'.probes) <= 5
  BY <1>1, <1>2 DEF Askers
<1>4. report'.use = "unknown" /\ report'.failed = {}
  BY DEF Setup!NoReport
<1>5. SetupTypes'
  BY <1>3, <1>4 DEF SetupTypes
<1>6. Asking'
  BY <1>1, <1>2 DEF Asking
<1>7. Setup!DoctorSeesWhatTheTrayDoes' /\ Setup!SetMeansAnswering'
  BY DEF Setup!DoctorSeesWhatTheTrayDoes, Setup!SetMeansAnswering, Setup!NoReport
<1>8. QED
  BY <1>5, <1>6, <1>7

LEMMA SetupProbe == ASSUME SetupInv, Setup!Probe PROVE SetupInv'
<1> USE DEF SetupInv
<1> DEFINE p == asker.probes
           b == Setup!Engines[Len(p) + 1] \in Setup!Answering(machine)
<1>1. /\ p \in Seq(BOOLEAN) /\ Len(p) < 5 /\ asker.at = "probing" /\ asker \in Askers
      /\ UNCHANGED <<machine, mode, report, told, steady, changes>>
  BY KnownAre DEF SetupTypes, Askers, Setup!Probe
<1>2. asker' = [asker EXCEPT !.probes = Append(p, b)]
  BY DEF Setup!Probe
<1>3. /\ Append(p, b) \in Seq(BOOLEAN) /\ Len(Append(p, b)) = Len(p) + 1
      /\ DOMAIN Append(p, b) = DOMAIN p \cup {Len(p) + 1}
      /\ Append(p, b)[Len(p) + 1] = b
      /\ \A i \in DOMAIN p : Append(p, b)[i] = p[i]
  <2> HIDE DEF b, p
  <2>1. b \in BOOLEAN
    BY DEF b
  <2>2. QED
    BY <1>1, <2>1
<1>4. /\ asker'.who = asker.who /\ asker'.at = asker.at /\ asker'.probes = Append(p, b)
      /\ asker' \in Askers
  BY <1>1, <1>2, <1>3 DEF Askers
<1>5. SetupTypes'
  <2>1. Len(asker'.probes) <= 5
    <3> HIDE DEF p, b
    <3>1. Len(p) \in Nat
      BY <1>1
    <3>2. QED
      BY <1>1, <1>3, <1>4, <3>1
  <2>2. QED
    BY <1>1, <1>4, <2>1 DEF SetupTypes
<1>6. Asking'
  <2>1. ASSUME steady, NEW i \in DOMAIN asker'.probes
        PROVE  asker'.probes[i] = (Setup!Engines[i] \in Setup!Answering(machine))
    <3>1. CASE i = Len(p) + 1
      BY <1>3, <1>4, <3>1
    <3>2. CASE i \in DOMAIN p
      BY <1>1, <1>3, <1>4, <2>1, <3>2 DEF Asking
    <3>3. QED
      BY <1>3, <1>4, <3>1, <3>2
  <2>2. Setup!Answering(machine)' = Setup!Answering(machine)
    BY <1>1 DEF Setup!Answering, Setup!GHubAnswers, Setup!OpenRGBAnswers
  <2>3. QED
    BY <1>1, <1>4, <2>1, <2>2 DEF Asking
<1>7. Setup!DoctorSeesWhatTheTrayDoes' /\ Setup!SetMeansAnswering'
  BY <1>1 DEF Setup!DoctorSeesWhatTheTrayDoes, Setup!SetMeansAnswering, Setup!Answering,
              Setup!Picked, Setup!GHubAnswers, Setup!OpenRGBAnswers
<1>8. QED
  BY <1>5, <1>6, <1>7

\* A steady asker that asked every engine knows exactly those that answer.
LEMMA ProbedIsAnswering ==
    ASSUME SetupInv, Setup!Probed, steady PROVE Setup!Answered = Setup!Answering(machine)
<1> DEFINE p == asker.probes
           A == Setup!Answering(machine)
<1>1. Len(p) = 5 /\ p \in Seq(BOOLEAN) /\ asker.at = "probing"
  BY KnownAre DEF Setup!Probed, SetupInv, SetupTypes, Askers
<1>2. DOMAIN p = 1 .. 5
  <2> HIDE DEF p
  <2>1. QED
    BY <1>1
<1>3. \A i \in 1 .. 5 : p[i] = (Setup!Engines[i] \in A)
  BY <1>1, <1>2 DEF SetupInv, Asking
<1>4. A \subseteq {Setup!Engines[i] : i \in 1 .. 5}
  BY KnownAre DEF Setup!Answering
<1>5. Setup!Answered = {Setup!Engines[i] : i \in {j \in 1 .. 5 : p[j]}}
  BY <1>2 DEF Setup!Answered
<1>6. QED
  <2> HIDE DEF p, A
  <2>1. {Setup!Engines[i] : i \in {j \in 1 .. 5 : p[j]}} = A
    BY <1>3, <1>4
  <2>2. QED
    BY <1>5, <2>1 DEF A

\* An asker that is done, or about to prepare an engine, is well formed.
LEMMA AskerMoves ==
    ASSUME SetupInv PROVE
    /\ Setup!Idle \in Askers /\ Setup!Idle.who = "nobody" /\ Setup!Idle.at = "idle"
    /\ Len(Setup!Idle.probes) <= 5
    /\ \A at \in {"ghub", "openrgb", "reprobe"} :
          LET a == [asker EXCEPT !.at = at]
          IN  a \in Askers /\ a.who = asker.who /\ a.at = at /\ a.probes = asker.probes
<1>1. <<>> \in Seq(BOOLEAN) /\ Len(<<>>) = 0
  OBVIOUS
<1>2. /\ Setup!Idle \in Askers /\ Setup!Idle.who = "nobody" /\ Setup!Idle.at = "idle"
      /\ Setup!Idle.probes = <<>>
  BY <1>1 DEF Setup!Idle, Askers
<1>3. asker \in Askers
  BY DEF SetupInv, SetupTypes
<1>4. QED
  BY <1>1, <1>2, <1>3 DEF Askers

LEMMA SetupDoctorReports ==
    ASSUME PartsAssumption, SetupInv, Setup!DoctorReports PROVE SetupInv'
<1>1. /\ asker' = Setup!Idle /\ told' = told /\ told = "nothing" /\ Setup!Probed
      /\ UNCHANGED <<machine, mode, steady, changes>>
  BY DEF SetupInv, Asking, Setup!DoctorReports
<1>2. /\ report'.use = Setup!InUse(Setup!Answered)
      /\ report'.failed = {e \in Setup!Checked \ Setup!Answered : e = mode}
      /\ report'.why = [e \in Setup!Checked |-> IF e \in Setup!Answered THEN "nothing"
                                                ELSE Setup!Reason(e)]
  BY DEF Setup!DoctorReports
<1>3. /\ machine \in Setup!MachineType /\ mode \in Setup!Modes \cup {"newer"}
  BY DEF SetupInv, SetupTypes
<1>4. Setup!FirstOf(Order, Setup!Answered) \in Setup!Known
  BY FirstOfIsKnown DEF PartsAssumption
<1>5. SetupTypes'
  <2>1. report'.use \in Setup!Known
    BY <1>2, <1>4, ModesAre DEF Setup!InUse
  <2>2. report'.failed \subseteq Setup!Checked
    BY <1>2
  <2>3. QED
    BY <1>1, <2>1, <2>2, AskerMoves DEF SetupInv, SetupTypes
<1>6. Asking'
  BY <1>1, AskerMoves DEF Asking
<1>7. ASSUME steady, mode \in Setup!Modes \ {"steelseries"}
      PROVE  /\ report'.use = Setup!Picked(mode, Setup!Answering(machine))
             /\ report'.failed = {e \in Setup!Checked : mode = e /\ e \notin Setup!Answering(machine)}
             /\ \A e \in Setup!Checked :
                   IF e \in Setup!Answering(machine) THEN report'.why[e] = "nothing"
                   ELSE Setup!True(report'.why[e], machine)
  <2> DEFINE A == Setup!Answering(machine)
  <2>1. Setup!Answered = A
    BY <1>1, <1>7, ProbedIsAnswering
  <2>2. report'.use = Setup!Picked(mode, A)
    BY <1>2, <1>7, <2>1, KnownAre DEF Setup!InUse, Setup!Picked, Setup!Checked, Setup!Modes
  <2>3. report'.failed = {e \in Setup!Checked : mode = e /\ e \notin A}
    BY <1>2, <2>1
  <2>4. ASSUME NEW e \in Setup!Checked
        PROVE  IF e \in A THEN report'.why[e] = "nothing" ELSE Setup!True(report'.why[e], machine)
    <3>1. report'.why[e] = IF e \in A THEN "nothing" ELSE Setup!Reason(e)
      BY <1>2, <2>1
    <3>2. CASE e \in A
      BY <3>1, <3>2
    <3>3. CASE e \notin A
      BY <1>3, <3>1, <3>3, ReasonIsTrue
    <3>4. QED
      BY <3>2, <3>3
  <2>5. QED
    BY <2>2, <2>3, <2>4
<1>8. Setup!DoctorSeesWhatTheTrayDoes'
  BY <1>1, <1>7 DEF Setup!DoctorSeesWhatTheTrayDoes, Setup!Picked, Setup!Answering,
                    Setup!GHubAnswers, Setup!OpenRGBAnswers
<1>9. Setup!SetMeansAnswering'
  BY <1>1 DEF Setup!SetMeansAnswering
<1>10. QED
  BY <1>5, <1>6, <1>8, <1>9 DEF SetupInv

\* A choice the wizard saves, once nobody reports and "set" is only said of what answers.
LEMMA SetupSaves ==
    ASSUME SetupInv, NEW choice \in Setup!Modes,
           NEW said \in {"nothing", "unsupported", "silent", "again", "set"},
           asker.who = "wizard", Setup!Saves(choice, said), steady' \in BOOLEAN,
           machine' \in Setup!MachineType, Setup!Possible(machine'),
           said = "set" => choice \in {"ghub", "openrgb"} /\ choice \in Setup!Answering(machine')
    PROVE  SetupInv'
<1>1. /\ asker' = Setup!Idle /\ mode' = choice /\ told' = said /\ UNCHANGED <<report, changes>>
  BY DEF Setup!Saves
<1>2. report' = Setup!NoReport
  BY <1>1 DEF SetupInv, Asking
<1>3. SetupTypes'
  BY <1>1, AskerMoves DEF SetupInv, SetupTypes
<1>4. Asking'
  BY <1>1, AskerMoves DEF Asking
<1>5. Setup!DoctorSeesWhatTheTrayDoes'
  BY <1>2 DEF Setup!DoctorSeesWhatTheTrayDoes, Setup!NoReport
<1>6. Setup!SetMeansAnswering'
  BY <1>1 DEF Setup!SetMeansAnswering, Setup!Answering, Setup!GHubAnswers, Setup!OpenRGBAnswers
<1>7. QED
  BY <1>3, <1>4, <1>5, <1>6 DEF SetupInv

\* The wizard stops to prepare an engine.
LEMMA SetupPrepares ==
    ASSUME SetupInv, NEW at \in {"ghub", "openrgb", "reprobe"}, asker.who = "wizard",
           asker' = [asker EXCEPT !.at = at], UNCHANGED <<mode, report, told, changes>>,
           steady' \in BOOLEAN, machine' \in Setup!MachineType, Setup!Possible(machine')
    PROVE  SetupInv'
<1>1. report = Setup!NoReport /\ told = "nothing"
  BY DEF SetupInv, Asking
<1>2. /\ asker' \in Askers /\ asker'.who = "wizard" /\ asker'.at = at
      /\ asker'.probes = asker.probes
  BY AskerMoves
<1>3. SetupTypes'
  BY <1>2 DEF SetupInv, SetupTypes
<1>4. Asking'
  BY <1>1, <1>2 DEF Asking
<1>5. Setup!DoctorSeesWhatTheTrayDoes' /\ Setup!SetMeansAnswering'
  BY <1>1 DEF Setup!DoctorSeesWhatTheTrayDoes, Setup!SetMeansAnswering, Setup!NoReport
<1>6. QED
  BY <1>3, <1>4, <1>5 DEF SetupInv

LEMMA SetupWizardChooses == ASSUME SetupInv, Setup!WizardChooses PROVE SetupInv'
<1>1. /\ asker.who = "wizard" /\ machine' = machine /\ machine \in Setup!MachineType
      /\ Setup!Possible(machine) /\ steady \in BOOLEAN
  BY DEF Setup!WizardChooses, SetupInv, SetupTypes
<1>2. PICK choice \in Setup!Modes :
          IF choice \in {"ghub", "openrgb"}
            THEN /\ asker' = [asker EXCEPT !.at = choice]
                 /\ UNCHANGED <<mode, report, told, steady, changes>>
            ELSE Setup!Saves(choice, IF choice \in {"auto", "none"} THEN "nothing"
                               ELSE IF ~Setup!Supported(choice, machine) THEN "unsupported"
                               ELSE IF choice \notin Setup!Answered THEN "silent"
                               ELSE "nothing")
                 /\ UNCHANGED steady
  BY DEF Setup!WizardChooses
<1>3. CASE choice \in {"ghub", "openrgb"}
  BY <1>1, <1>2, <1>3, SetupPrepares
<1>4. CASE choice \notin {"ghub", "openrgb"}
  <2>1. PICK said \in {"nothing", "unsupported", "silent"} :
            Setup!Saves(choice, said) /\ UNCHANGED steady
    BY <1>2, <1>4
  <2>2. QED
    BY <1>1, <2>1, SetupSaves
<1>5. QED
  BY <1>3, <1>4

LEMMA SetupPrepareGHub == ASSUME SetupInv, Setup!PrepareGHub PROVE SetupInv'
<1>1. /\ asker.who = "wizard" /\ machine \in Setup!MachineType /\ Setup!Possible(machine)
      /\ steady' = TRUE /\ "ghub" \in Setup!Modes /\ "ghub" \in Setup!Known
  BY KnownAre, ModesAre DEF Setup!PrepareGHub, SetupInv, SetupTypes, Asking
<1>2. CASE machine.dll = "none"
  <2>1. PICK installed \in BOOLEAN :
            /\ installed => machine.platform = "windows"
            /\ machine' = IF installed THEN [machine EXCEPT !.dll = "installed"] ELSE machine
    BY <1>2 DEF Setup!PrepareGHub
  <2>2. machine' \in Setup!MachineType
    BY <1>1, <2>1 DEF Setup!MachineType
  <2>3. Setup!Possible(machine')
    BY <1>1, <2>1 DEF Setup!Possible, Setup!MachineType
  <2>4. Setup!Saves("ghub", "again")
    BY <1>2 DEF Setup!PrepareGHub
  <2>5. QED
    BY <1>1, <2>2, <2>3, <2>4, SetupSaves
<1>3. CASE machine.dll # "none"
  <2>1. /\ machine' = machine
        /\ Setup!Saves("ghub", IF Setup!Blockers(machine) = {} THEN "set" ELSE "again")
    BY <1>3 DEF Setup!PrepareGHub
  <2>2. Setup!Blockers(machine) = {} => "ghub" \in Setup!Answering(machine')
    BY <1>1, <2>1, NothingInTheWay DEF Setup!Answering
  <2>3. QED
    BY <1>1, <2>1, <2>2, SetupSaves
<1>4. QED
  BY <1>2, <1>3

LEMMA SetupPrepareLibrary == ASSUME SetupInv, Setup!PrepareLibrary PROVE SetupInv'
<1>1. /\ asker.who = "wizard" /\ machine \in Setup!MachineType /\ Setup!Possible(machine)
      /\ steady' = TRUE
  BY DEF Setup!PrepareLibrary, SetupInv, SetupTypes, Asking
<1>2. PICK installed \in BOOLEAN : machine' = [machine EXCEPT !.library = @ \/ installed]
  BY DEF Setup!PrepareLibrary
<1>3. machine' \in Setup!MachineType
  BY <1>1, <1>2 DEF Setup!MachineType
<1>4. Setup!Possible(machine')
  BY <1>1, <1>2 DEF Setup!Possible, Setup!MachineType
<1>5. QED
  BY <1>1, <1>3, <1>4, SetupPrepares DEF Setup!PrepareLibrary

LEMMA SetupPrepareOpenRGB == ASSUME SetupInv, Setup!PrepareOpenRGB PROVE SetupInv'
<1>1. /\ asker.who = "wizard" /\ machine' = machine /\ machine \in Setup!MachineType
      /\ Setup!Possible(machine) /\ steady' = TRUE
      /\ "openrgb" \in Setup!Modes /\ "openrgb" \in Setup!Known
  BY KnownAre, ModesAre DEF Setup!PrepareOpenRGB, SetupInv, SetupTypes, Asking
<1>2. Setup!Saves("openrgb", IF Setup!OpenRGBAnswers(machine) THEN "set" ELSE "again")
  BY DEF Setup!PrepareOpenRGB
<1>3. Setup!OpenRGBAnswers(machine) => "openrgb" \in Setup!Answering(machine')
  BY <1>1 DEF Setup!Answering
<1>4. QED
  BY <1>1, <1>2, <1>3, SetupSaves

LEMMA SetupKeeps ==
    ASSUME PartsAssumption, SetupInv, Setup!Next \/ UNCHANGED survey PROVE SetupInv'
<1>1. CASE Setup!Begin
  BY <1>1, SetupBegin
<1>2. CASE Setup!MachineChanges
  BY <1>2, SetupMachineChanges
<1>3. CASE Setup!Ask("wizard") \/ Setup!Ask("doctor")
  BY <1>3, SetupAsk
<1>4. CASE Setup!Probe
  BY <1>4, SetupProbe
<1>5. CASE Setup!DoctorReports
  BY <1>5, SetupDoctorReports
<1>6. CASE Setup!WizardChooses
  BY <1>6, SetupWizardChooses
<1>7. CASE Setup!PrepareGHub \/ Setup!PrepareLibrary \/ Setup!PrepareOpenRGB
  BY <1>7, SetupPrepareGHub, SetupPrepareLibrary, SetupPrepareOpenRGB
<1>8. CASE UNCHANGED survey
  <2>1. UNCHANGED <<machine, mode, asker, report, told, steady, changes>>
    BY <1>8 DEF survey
  <2>2. SetupTypes' /\ Asking'
    BY <2>1 DEF SetupInv, SetupTypes, Asking, Setup!Answering, Setup!GHubAnswers,
                Setup!OpenRGBAnswers
  <2>3. Setup!DoctorSeesWhatTheTrayDoes' /\ Setup!SetMeansAnswering'
    BY <2>1 DEF SetupInv, Setup!DoctorSeesWhatTheTrayDoes, Setup!SetMeansAnswering,
                Setup!Answering, Setup!Picked, Setup!GHubAnswers, Setup!OpenRGBAnswers
  <2>4. QED
    BY <2>2, <2>3 DEF SetupInv
<1>9. QED
  BY <1>1, <1>2, <1>3, <1>4, <1>5, <1>6, <1>7, <1>8 DEF Setup!Next

LEMMA SetupSafe ==
    ASSUME SetupInv
    PROVE  Setup!TypeOK /\ Setup!DoctorSeesWhatTheTrayDoes /\ Setup!SetMeansAnswering
BY KnownAre DEF SetupInv, SetupTypes, Askers, Setup!TypeOK

--------------------------------------------------------------------------------
(* The engines together: what one drives leaves the others be                     *)

\* The engines share nothing but the count of calls, so each one's invariant outlives the
\* others' steps.
EnginesInv ==
    /\ pick \in Known \cup {"unmade", "sidecar", "setup"}
    /\ PumpInv /\ SidecarInv /\ OpenRGBInv /\ RGBTyped /\ SteelSeriesInv /\ SetupInv

LEMMA PumpRests ==
    ASSUME PumpInv, UNCHANGED others, calls' \in 0 .. MaxCalls PROVE PumpInv'
<1>1. UNCHANGED <<eng, caller, queue, running, thread, stopped, reply, sdk, clean, lit>>
  BY DEF others
<1>2. PumpTypeInv'
  BY <1>1 DEF PumpInv, PumpTypeInv, CallerTypes, PumpTypes, SdkTypes, EngTypes
<1>3. CleanRun' <=> CleanRun
  BY <1>1 DEF CleanRun, Threads, Places, Phases, SdkHeld, Holding, LitShown, Quiet, Only,
              Behind, TheCall
<1>4. QED
  BY <1>1, <1>2, <1>3 DEF PumpInv

LEMMA SidecarRests ==
    ASSUME PartsAssumption, SidecarInv, UNCHANGED <<front, client, rpc, nextId, workers, halted>>
    PROVE  SidecarInv'
BY SidecarKeeps DEF PartsAssumption, Sidecar!svars

LEMMA OpenRGBRests ==
    ASSUME OpenRGBInv, RGBTyped, calls' \in 0 .. MaxCalls,
           UNCHANGED <<conf, link, targets, snapshot, shown, history, painted>>
    PROVE  OpenRGBInv' /\ RGBTyped'
<1>1. OpenRGBInv'
  BY DEF OpenRGBInv, OpenRGBTypes, Driven, Noted, Faultless, OpenRGB!Candidates
<1>2. RGBTyped'
  BY DEF RGBTyped, OpenRGB!TypeOK
<1>3. QED
  BY <1>1, <1>2

LEMMA SteelSeriesRests ==
    ASSUME SteelSeriesInv, UNCHANGED <<engine, beat, doubt>>, gg' \in Vendors,
           gg'.shown = gg.shown, calls' \in 0 .. MaxCalls
    PROVE  SteelSeriesInv'
BY DEF SteelSeriesInv, SteelSeries!TypeOK, Remembered, Vendors

LEMMA CallsAreCounted == ASSUME SteelSeriesInv PROVE calls \in 0 .. MaxCalls /\ gg \in Vendors
BY DEF SteelSeriesInv, SteelSeries!TypeOK, Vendors

LEMMA EnginesInit == ASSUME PartsAssumption, Init PROVE EnginesInv
<1>1. PumpInv
  BY PumpInvInit DEF Init, PartsAssumption
<1>2. SidecarInv
  BY SidecarInit DEF Init, PartsAssumption
<1>3. OpenRGBInv /\ RGBTyped
  BY OpenRGBInit, RGBInitTyped DEF Init, PartsAssumption
<1>4. SteelSeriesInv
  BY SteelSeriesInit DEF Init, PartsAssumption, SteelSeriesAssumptions
<1>5. SetupInv
  BY SetupInit DEF Init
<1>6. QED
  BY <1>1, <1>2, <1>3, <1>4, <1>5 DEF Init, EnginesInv

LEMMA MakeKeeps == ASSUME PartsAssumption, EnginesInv, Make PROVE EnginesInv'
<1>1. /\ UNCHANGED <<others, calls, front, client, rpc, nextId, workers, halted, conf, link,
                     targets, snapshot, shown, history, painted, engine, beat, doubt, survey>>
      /\ calls \in 0 .. MaxCalls /\ gg \in Vendors
  BY CallsAreCounted DEF Make, EnginesInv
<1>2. PICK wanted \in Setup!Modes \cup {"newer"}, answers \in SUBSET Known,
           windowless \in BOOLEAN :
          LET picked == Setup!Picked(wanted, answers)
          IN  /\ pick' = IF picked = "ghub" /\ windowless THEN "sidecar" ELSE picked
              /\ gg' = [gg EXCEPT !.game = (wanted = "auto" /\ picked = "steelseries")]
  BY DEF Make
<1>3. Setup!Picked(wanted, answers) \in Known
  BY FirstOfIsKnown, ModesAre DEF Setup!Picked, PartsAssumption, Known
<1>4. pick' \in Known \cup {"unmade", "sidecar", "setup"}
  BY <1>2, <1>3
<1>5. gg' \in Vendors /\ gg'.shown = gg.shown
  BY <1>1, <1>2 DEF Vendors
<1>6. PumpInv' /\ SidecarInv' /\ OpenRGBInv' /\ RGBTyped' /\ SteelSeriesInv' /\ SetupInv'
  BY <1>1, <1>5, PumpRests, SidecarRests, OpenRGBRests, SteelSeriesRests, SetupKeeps
     DEF EnginesInv
<1>7. QED
  BY <1>4, <1>6 DEF EnginesInv

LEMMA DriveGHubKeeps == ASSUME PartsAssumption, EnginesInv, DriveGHub PROVE EnginesInv'
<1>1. PumpInv' /\ calls' \in 0 .. MaxCalls
  <2>1. PumpInv'
    BY PumpInvStep DEF DriveGHub, EnginesInv, PartsAssumption
  <2>2. QED
    BY <2>1 DEF PumpInv, PumpTypeInv, EngTypes
<1>2. UNCHANGED <<pick, front, client, rpc, nextId, workers, halted, conf, link, targets,
                  snapshot, shown, history, painted, engine, beat, gg, doubt, survey>>
  BY DEF DriveGHub
<1>3. SidecarInv' /\ OpenRGBInv' /\ RGBTyped' /\ SteelSeriesInv' /\ SetupInv'
  BY <1>1, <1>2, CallsAreCounted, SidecarRests, OpenRGBRests, SteelSeriesRests, SetupKeeps
     DEF EnginesInv
<1>4. QED
  BY <1>1, <1>2, <1>3 DEF EnginesInv

LEMMA DriveSidecarKeeps == ASSUME PartsAssumption, EnginesInv, DriveSidecar PROVE EnginesInv'
<1>1. SidecarInv'
  BY SidecarKeeps DEF DriveSidecar, EnginesInv, PartsAssumption
<1>2. UNCHANGED <<pick, others, calls, conf, link, targets, snapshot, shown, history,
                  painted, engine, beat, gg, doubt, survey>>
  BY DEF DriveSidecar
<1>3. PumpInv' /\ OpenRGBInv' /\ RGBTyped' /\ SteelSeriesInv' /\ SetupInv'
  BY <1>2, CallsAreCounted, PumpRests, OpenRGBRests, SteelSeriesRests, SetupKeeps
     DEF EnginesInv
<1>4. QED
  BY <1>1, <1>2, <1>3 DEF EnginesInv

LEMMA DriveOpenRGBKeeps == ASSUME PartsAssumption, EnginesInv, DriveOpenRGB PROVE EnginesInv'
<1>1. OpenRGBInv' /\ RGBTyped' /\ calls' \in 0 .. MaxCalls
  <2>1. OpenRGBInv' /\ RGBTyped'
    BY OpenRGBKeeps, RGBKeepsTyped DEF DriveOpenRGB, EnginesInv, PartsAssumption
  <2>2. QED
    BY <2>1 DEF RGBTyped, OpenRGB!TypeOK
<1>2. UNCHANGED <<pick, others, front, client, rpc, nextId, workers, halted, engine, beat,
                  gg, doubt, survey>>
  BY DEF DriveOpenRGB
<1>3. PumpInv' /\ SidecarInv' /\ SteelSeriesInv' /\ SetupInv'
  BY <1>1, <1>2, CallsAreCounted, PumpRests, SidecarRests, SteelSeriesRests, SetupKeeps
     DEF EnginesInv
<1>4. QED
  BY <1>1, <1>2, <1>3 DEF EnginesInv

LEMMA DriveSteelSeriesKeeps ==
    ASSUME PartsAssumption, EnginesInv, DriveSteelSeries PROVE EnginesInv'
<1>1. SteelSeriesInv' /\ calls' \in 0 .. MaxCalls
  <2>1. SteelSeriesInv'
    BY SteelSeriesKeeps DEF DriveSteelSeries, EnginesInv, PartsAssumption, SteelSeriesAssumptions
  <2>2. QED
    BY <2>1 DEF SteelSeriesInv, SteelSeries!TypeOK
<1>2. UNCHANGED <<pick, others, front, client, rpc, nextId, workers, halted, conf, link,
                  targets, snapshot, shown, history, painted, survey>>
  BY DEF DriveSteelSeries
<1>3. PumpInv' /\ SidecarInv' /\ OpenRGBInv' /\ RGBTyped' /\ SetupInv'
  BY <1>1, <1>2, PumpRests, SidecarRests, OpenRGBRests, SetupKeeps DEF EnginesInv
<1>4. QED
  BY <1>1, <1>2, <1>3 DEF EnginesInv

LEMMA DriveSetupKeeps == ASSUME PartsAssumption, EnginesInv, DriveSetup PROVE EnginesInv'
<1>1. SetupInv'
  BY SetupKeeps DEF DriveSetup, EnginesInv
<1>2. UNCHANGED <<pick, others, calls, front, client, rpc, nextId, workers, halted, conf, link,
                  targets, snapshot, shown, history, painted, engine, beat, gg, doubt>>
  BY DEF DriveSetup
<1>3. PumpInv' /\ SidecarInv' /\ OpenRGBInv' /\ RGBTyped' /\ SteelSeriesInv'
  BY <1>2, CallsAreCounted, PumpRests, SidecarRests, OpenRGBRests, SteelSeriesRests
     DEF EnginesInv
<1>4. QED
  BY <1>1, <1>2, <1>3 DEF EnginesInv

LEMMA EnginesStutter == ASSUME PartsAssumption, EnginesInv, UNCHANGED vars PROVE EnginesInv'
<1>1. /\ UNCHANGED <<pick, others, calls, front, client, rpc, nextId, workers, halted, conf,
                     link, targets, snapshot, shown, history, painted, engine, beat, gg,
                     doubt, survey>>
  BY DEF vars
<1>2. PumpInv' /\ SidecarInv' /\ OpenRGBInv' /\ RGBTyped' /\ SteelSeriesInv' /\ SetupInv'
  BY <1>1, CallsAreCounted, PumpRests, SidecarRests, OpenRGBRests, SteelSeriesRests,
     SetupKeeps DEF EnginesInv
<1>3. QED
  BY <1>1, <1>2 DEF EnginesInv

LEMMA EnginesInvHolds == Spec => []EnginesInv
<1>1. Init => EnginesInv
  BY EnginesInit, PartsAssumption
<1>2. EnginesInv /\ [Next]_vars => EnginesInv'
  <2> SUFFICES ASSUME EnginesInv, [Next]_vars PROVE EnginesInv'
    OBVIOUS
  <2>1. QED
    BY PartsAssumption, MakeKeeps, DriveGHubKeeps, DriveSidecarKeeps, DriveOpenRGBKeeps,
       DriveSteelSeriesKeeps, DriveSetupKeeps, EnginesStutter DEF Next
<1>3. QED
  BY <1>1, <1>2, PTL DEF Spec

--------------------------------------------------------------------------------
(* The engines' correctness                                                       *)

\* Type correctness of every engine and of the setup, for any devices, colours, orders,
\* machines and limits: no step of one reaches into another's state.
THEOREM EnginesTypeCorrect == Spec => []TypeOK
<1>1. EnginesInv => TypeOK
  BY PumpSafe, SidecarTyped, SetupSafe DEF EnginesInv, TypeOK, RGBTyped, SteelSeriesInv
<1>2. QED
  BY <1>1, EnginesInvHolds, PTL

\* While no wait for the SDK ran out and nothing raised: once the engine is closed, or the
\* process gone, no thread holds the SDK, the lights are the user's own, and no paint or
\* commit is left to take them back.
THEOREM ClosedGHubIsReleased == Spec => []ClosedIsReleased
<1>1. EnginesInv => ClosedIsReleased
  BY PumpSafe DEF EnginesInv, ClosedIsReleased
<1>2. QED
  BY <1>1, EnginesInvHolds, PTL

\* While no wait ran out, an open engine's pump thread is the one that holds the SDK, as
\* the SDK asks: every call comes from the thread that began the session.
THEOREM OneThreadCallsTheSdk == Spec => []OpenThreadHoldsTheSdk
<1>1. EnginesInv => OpenThreadHoldsTheSdk
  BY PumpSafe DEF EnginesInv, OpenThreadHoldsTheSdk
<1>2. QED
  BY <1>1, EnginesInvHolds, PTL

\* While no wait ran out, the colour last painted is shown once the pump is at rest: its
\* commit is never dropped with the paints that newer ones replace.
THEOREM LastPaintIsShown == Spec => []PaintedIsShown
<1>1. EnginesInv => PaintedIsShown
  BY PumpSafe DEF EnginesInv, PaintedIsShown
<1>2. QED
  BY <1>1, EnginesInvHolds, PTL

\* Whoever asks on the other side of a boundary is answered with what is so: the sidecar's
\* parent by its worker, the tray's choice by the doctor, and the user by the wizard.
THEOREM AskersAreToldTheTruth == Spec => []BothSidesAgree
<1>1. EnginesInv => BothSidesAgree
  BY PipesAreInStep, SessionsAgree, OneAtMostPaints, SetupSafe DEF EnginesInv, BothSidesAgree
<1>2. QED
  BY <1>1, EnginesInvHolds, PTL

\* A closed OpenRGB engine whose calls all got through leaves every device as the user had
\* it, and no device is ever painted that has no Direct mode where one is required, or was
\* not asked for.
THEOREM UsersLightingComesBack == Spec => []ReleasedIsRestored
<1>1. OpenRGBInv => OpenRGB!ReleasedIsRestored
  <2> SUFFICES ASSUME OpenRGBInv PROVE OpenRGB!ReleasedIsRestored
    OBVIOUS
  <2>1. painted \subseteq OpenRGB!Candidates
    BY DEF OpenRGBInv, Driven
  <2>2. ASSUME Faultless, ~link.open PROVE shown = [d \in Devices |-> OpenRGB!Own]
    BY <2>2 DEF OpenRGBInv, OpenRGBTypes, Noted
  <2>3. QED
    BY <2>1, <2>2 DEF OpenRGB!ReleasedIsRestored, Faultless
<1>2. EnginesInv => ReleasedIsRestored
  BY <1>1 DEF EnginesInv, ReleasedIsRestored
<1>3. QED
  BY <1>2, EnginesInvHolds, PTL

\* While no post to GG is in doubt the lights show what the SteelSeries engine remembers,
\* whatever the order of paints, closes, late heartbeats and dropped sessions.
THEOREM LightsAreTheSessions == Spec => []LightsFollowTheSession
<1>1. SteelSeriesInv => SteelSeries!LightsFollowTheSession
  BY DEF SteelSeriesInv, SteelSeries!LightsFollowTheSession, Remembered
<1>2. EnginesInv => LightsFollowTheSession
  BY <1>1 DEF EnginesInv, LightsFollowTheSession
<1>3. QED
  BY <1>2, EnginesInvHolds, PTL
================================================================================
