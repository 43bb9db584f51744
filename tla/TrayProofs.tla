------------------------------- MODULE TrayProofs -------------------------------
(* Theorems about the tray (Tray).  A behaviour follows one part, so each part has   *)
(* an inductive invariant of its own, kept under that part's guard: JobsInv, IconInv, *)
(* NotifyInv, SignInInv, UsageInv, PanelInv, DialogInv, CreditInv, TranscriptInv.    *)
(* What a step does to the other parts is in the types, TypesHold.                   *)
EXTENDS Tray, DataLemmas

--------------------------------------------------------------------------------
(* Jobs: worker threads, stdout, and the rebuild after Settings.                  *)

Workers == {"doctor", "startup", "hooks", "update"}

\* A thread's record; the diagnosis is the doctor's own and only job.
ThreadTypes ==
    /\ threads \in [DOMAIN threads ->
                      [worker : Workers, job : Workers \cup {"check", "install"},
                       step : {"starting", "working", "leaving"}, saved : Nat]]
    /\ \A n \in DOMAIN threads : threads[n].job = "doctor" <=> threads[n].worker = "doctor"
    /\ runs \in 0 .. MaxRuns /\ DOMAIN threads \subseteq 1 .. runs
    /\ questions \in 0 .. MaxQuestions /\ stdout \in Nat

\* A lock is taken exactly while its worker's one thread lives.
LocksAreThreads ==
    /\ \A m, n \in DOMAIN threads : threads[m].worker = threads[n].worker => m = n
    /\ held = {threads[n].worker : n \in DOMAIN threads}

Diagnosing(n) == threads[n].job = "doctor" /\ threads[n].step = "working"

\* Only a diagnosis at work has stdout, and it took it from the process itself.
StdoutIsLent ==
    /\ (\A n \in DOMAIN threads : ~Diagnosing(n)) => stdout = Jobs!Own
    /\ \A n \in DOMAIN threads : Diagnosing(n) => threads[n].saved = Jobs!Own

\* What the rebuild has left to do: an engine that was not reset is the configured one.
LightsAreOnTheirWay ==
    /\ settings \in [mode : Modes, palette : Palettes]
    /\ lights \in [mode : Modes \cup {Jobs!None}, palette : Palettes]
    /\ rebuild \in {"idle", "resetting", "applying"}
    /\ rebuild = "idle" /\ ~dropped => lights = Jobs!Lights
    /\ rebuild = "applying" /\ ~dropped => lights.mode \in {Jobs!None, settings.mode}

JobsInv == ThreadTypes /\ LocksAreThreads /\ StdoutIsLent /\ LightsAreOnTheirWay

\* What the rest of a step must leave alone for each part of the invariant.
LEMMA ThreadsRest ==
    ASSUME JobsInv, UNCHANGED <<threads, held, runs, stdout>>, questions' \in 0 .. MaxQuestions
    PROVE  ThreadTypes' /\ LocksAreThreads' /\ StdoutIsLent'
BY DEF JobsInv, ThreadTypes, LocksAreThreads, StdoutIsLent, Diagnosing

LEMMA LightsRest ==
    ASSUME JobsInv, UNCHANGED Jobs!lighting
    PROVE  LightsAreOnTheirWay'
BY DEF JobsInv, LightsAreOnTheirWay, Jobs!lighting, Jobs!Lights

LEMMA JobsBegin == ASSUME Jobs!JobsAssumption, Jobs!Init PROVE JobsInv
<1>1. DOMAIN threads = {} /\ held = {} /\ runs = 0 /\ stdout = Jobs!Own /\ questions = 0
  BY DEF Jobs!Init
<1>2. ThreadTypes
  <2>1. threads \in [DOMAIN threads ->
                      [worker : Workers, job : Workers \cup {"check", "install"},
                       step : {"starting", "working", "leaving"}, saved : Nat]]
    BY DEF Jobs!Init
  <2>2. QED
    BY <1>1, <2>1 DEF ThreadTypes, Jobs!JobsAssumption, Jobs!Own
<1>3. LocksAreThreads /\ StdoutIsLent
  BY <1>1 DEF LocksAreThreads, StdoutIsLent
<1>4. LightsAreOnTheirWay
  BY DEF Jobs!Init, LightsAreOnTheirWay, Jobs!Lights
<1>5. QED
  BY <1>2, <1>3, <1>4 DEF JobsInv

\* Starting a worker keeps its lock and its thread in step.
LEMMA StartKeeps ==
    ASSUME Jobs!JobsAssumption, JobsInv, NEW worker \in Workers,
           NEW job \in Workers \cup {"check", "install"}, job = "doctor" <=> worker = "doctor",
           Jobs!Start(worker, job), UNCHANGED stdout, questions' \in 0 .. MaxQuestions
    PROVE  ThreadTypes' /\ LocksAreThreads' /\ StdoutIsLent'
<1>1. CASE ~Jobs!Free(worker)
  BY <1>1, ThreadsRest DEF Jobs!Start
<1>2. CASE Jobs!Free(worker)
  <2> DEFINE m == runs + 1
             new == Jobs!Thread(worker, job)
  <2>1. /\ worker \notin held /\ runs \in Nat /\ runs < MaxRuns
        /\ held' = held \cup {worker} /\ runs' = m
        /\ DOMAIN threads' = DOMAIN threads \cup {m}
        /\ m \notin DOMAIN threads /\ threads'[m] = new
        /\ \A n \in DOMAIN threads : n # m /\ threads'[n] = threads[n]
    BY <1>2 DEF Jobs!Start, Jobs!Free, JobsInv, ThreadTypes
  <2>2. /\ new.worker = worker /\ new.job = job /\ new.step = "starting"
        /\ new \in [worker : Workers, job : Workers \cup {"check", "install"},
                    step : {"starting", "working", "leaving"}, saved : Nat]
    BY DEF Jobs!Thread, Jobs!Own
  <2>3. ThreadTypes'
    <3>1. threads' = [n \in DOMAIN threads' |-> threads'[n]]
      BY <1>2 DEF Jobs!Start
    <3>2. \A n \in DOMAIN threads' :
             /\ threads'[n] \in [worker : Workers, job : Workers \cup {"check", "install"},
                                 step : {"starting", "working", "leaving"}, saved : Nat]
             /\ threads'[n].job = "doctor" <=> threads'[n].worker = "doctor"
      <4> HIDE DEF new, m
      <4> QED
        BY <2>1, <2>2 DEF JobsInv, ThreadTypes
    <3>3. DOMAIN threads' \subseteq 1 .. runs' /\ runs' \in 0 .. MaxRuns
      BY <2>1 DEF JobsInv, ThreadTypes, Jobs!JobsAssumption
    <3>4. QED
      BY <3>1, <3>2, <3>3 DEF JobsInv, ThreadTypes
  <2>4. LocksAreThreads'
    <3> HIDE DEF new, m
    <3>1. \A n \in DOMAIN threads : threads[n].worker # worker
      BY <2>1 DEF JobsInv, LocksAreThreads
    <3>2. QED
      BY <2>1, <2>2, <3>1 DEF JobsInv, LocksAreThreads
  <2>5. StdoutIsLent'
    <3> HIDE DEF new, m
    <3> QED
      BY <2>1, <2>2 DEF JobsInv, StdoutIsLent, Diagnosing
  <2>6. QED
    BY <2>3, <2>4, <2>5
<1>3. QED
  BY <1>1, <1>2

LEMMA WorkerKeeps ==
    ASSUME Jobs!JobsAssumption, JobsInv, NEW n \in DOMAIN threads,
           Jobs!Begins(n) \/ Jobs!Emits(n) \/ Jobs!Releases(n)
    PROVE  JobsInv'
<1>1. UNCHANGED <<runs, questions>> /\ UNCHANGED Jobs!lighting
  BY DEF Jobs!Begins, Jobs!Emits, Jobs!Releases
<1>2. LightsAreOnTheirWay'
  BY <1>1, LightsRest
<1> DEFINE T == [worker : Workers, job : Workers \cup {"check", "install"},
                 step : {"starting", "working", "leaving"}, saved : Nat]
<1>3. threads[n] \in T /\ threads \in [DOMAIN threads -> T] /\ stdout \in Nat
  BY DEF JobsInv, ThreadTypes
<1>4. CASE Jobs!Begins(n)
  <2>1. /\ threads[n].step = "starting" /\ held' = held
        /\ DOMAIN threads' = DOMAIN threads
        /\ threads'[n] = [threads[n] EXCEPT !.step = "working", !.saved = stdout]
        /\ \A m \in DOMAIN threads : m # n => threads'[m] = threads[m]
        /\ threads' \in [DOMAIN threads -> T]
        /\ stdout' = IF threads[n].job = "doctor" THEN n ELSE stdout
    BY <1>3, <1>4 DEF Jobs!Begins
  <2>2. /\ threads'[n].worker = threads[n].worker /\ threads'[n].job = threads[n].job
        /\ threads'[n].step = "working" /\ threads'[n].saved = stdout
    BY <1>3, <2>1
  <2>3. n \in Nat
    BY DEF JobsInv, ThreadTypes
  <2>4. ThreadTypes' /\ LocksAreThreads'
    <3>1. \A m \in DOMAIN threads : /\ threads'[m].worker = threads[m].worker
                                    /\ threads'[m].job = threads[m].job
      BY <2>1, <2>2
    <3>2. stdout' \in Nat
      BY <1>3, <2>1, <2>3
    <3>3. ThreadTypes'
      BY <1>1, <2>1, <3>1, <3>2 DEF JobsInv, ThreadTypes
    <3>4. LocksAreThreads'
      BY <2>1, <3>1 DEF JobsInv, LocksAreThreads
    <3>5. QED
      BY <3>3, <3>4
  <2>5. StdoutIsLent'
    <3>1. CASE threads[n].job = "doctor"
      <4>1. \A m \in DOMAIN threads : threads[m].job = "doctor" => m = n
        BY <3>1 DEF JobsInv, ThreadTypes, LocksAreThreads
      <4>2. stdout = Jobs!Own
        BY <2>1, <4>1 DEF JobsInv, StdoutIsLent, Diagnosing
      <4>3. QED
        BY <2>1, <2>2, <3>1, <4>1, <4>2 DEF StdoutIsLent, Diagnosing
    <3>2. CASE threads[n].job # "doctor"
      <4>1. /\ \A m \in DOMAIN threads : Diagnosing(m)' <=> Diagnosing(m)
            /\ \A m \in DOMAIN threads : Diagnosing(m)' => threads'[m].saved = threads[m].saved
        BY <2>1, <2>2, <3>2 DEF Diagnosing
      <4>2. QED
        BY <2>1, <3>2, <4>1 DEF JobsInv, StdoutIsLent
    <3>3. QED
      BY <3>1, <3>2
  <2>6. QED
    BY <1>2, <2>4, <2>5 DEF JobsInv
<1>5. CASE Jobs!Emits(n)
  <2>1. /\ threads[n].step = "working" /\ held' = held
        /\ DOMAIN threads' = DOMAIN threads
        /\ threads'[n] = [threads[n] EXCEPT !.step = "leaving"]
        /\ \A m \in DOMAIN threads : m # n => threads'[m] = threads[m]
        /\ threads' \in [DOMAIN threads -> T]
        /\ stdout' = IF threads[n].job = "doctor" THEN threads[n].saved ELSE stdout
    BY <1>3, <1>5 DEF Jobs!Emits
  <2>2. /\ threads'[n].worker = threads[n].worker /\ threads'[n].job = threads[n].job
        /\ threads'[n].step = "leaving"
    BY <1>3, <2>1
  <2>3. stdout' \in Nat
    BY <1>3, <2>1
  <2>4. ThreadTypes' /\ LocksAreThreads'
    BY <1>1, <2>1, <2>2, <2>3 DEF JobsInv, ThreadTypes, LocksAreThreads
  <2>5. StdoutIsLent'
    <3>1. CASE threads[n].job = "doctor"
      <4>1. \A m \in DOMAIN threads : threads[m].job = "doctor" => m = n
        BY <3>1 DEF JobsInv, ThreadTypes, LocksAreThreads
      <4>2. threads[n].saved = Jobs!Own
        BY <2>1, <3>1 DEF JobsInv, StdoutIsLent, Diagnosing
      <4>3. QED
        BY <2>1, <2>2, <3>1, <4>1, <4>2 DEF StdoutIsLent, Diagnosing
    <3>2. CASE threads[n].job # "doctor"
      BY <2>1, <2>2, <3>2 DEF JobsInv, StdoutIsLent, Diagnosing
    <3>3. QED
      BY <3>1, <3>2
  <2>6. QED
    BY <1>2, <2>4, <2>5 DEF JobsInv
<1>6. CASE Jobs!Releases(n)
  <2>1. /\ threads[n].step = "leaving" /\ held' = held \ {threads[n].worker}
        /\ DOMAIN threads' = DOMAIN threads \ {n}
        /\ \A m \in DOMAIN threads' : threads'[m] = threads[m]
        /\ threads' \in [DOMAIN threads' -> T] /\ stdout' = stdout
    BY <1>3, <1>6 DEF Jobs!Releases
  <2>2. ThreadTypes'
    BY <1>1, <2>1 DEF JobsInv, ThreadTypes
  <2>3. LocksAreThreads'
    BY <2>1 DEF JobsInv, LocksAreThreads
  <2>4. StdoutIsLent'
    BY <2>1 DEF JobsInv, StdoutIsLent, Diagnosing
  <2>5. QED
    BY <1>2, <2>2, <2>3, <2>4 DEF JobsInv
<1>7. QED
  BY <1>4, <1>5, <1>6

LEMMA JobsKeep == ASSUME Jobs!JobsAssumption, JobsInv, Jobs!Next PROVE JobsInv'
<1>1. CASE Jobs!WorkerStep
  BY <1>1, WorkerKeeps DEF Jobs!WorkerStep
<1>2. questions \in 0 .. MaxQuestions
  BY DEF JobsInv, ThreadTypes
<1>3. CASE Jobs!Launch
  <2>1. PICK worker \in {"startup", "hooks"} : Jobs!Start(worker, worker)
    BY <1>3 DEF Jobs!Launch
  <2>2. UNCHANGED <<stdout, questions>> /\ UNCHANGED Jobs!lighting
    BY <1>3 DEF Jobs!Launch
  <2>3. QED
    BY <1>2, <2>1, <2>2, StartKeeps, LightsRest DEF JobsInv, Workers
<1>4. CASE Jobs!RunDiagnostics
  BY <1>2, <1>4, StartKeeps, LightsRest DEF JobsInv, Workers, Jobs!RunDiagnostics
<1>5. CASE Jobs!CheckUpdates
  BY <1>2, <1>5, StartKeeps, LightsRest DEF JobsInv, Workers, Jobs!CheckUpdates
<1>6. CASE Jobs!Deliver
  <2>1. questions' \in 0 .. MaxQuestions
    BY <1>2, <1>6 DEF Jobs!Deliver, Jobs!JobsAssumption
  <2>2. QED
    BY <1>6, <2>1, ThreadsRest, LightsRest DEF JobsInv, Jobs!Deliver
<1>7. CASE Jobs!AnswerQuestion
  <2>1. questions' \in 0 .. MaxQuestions
    BY <1>2, <1>7 DEF Jobs!AnswerQuestion, Jobs!JobsAssumption
  <2>2. UNCHANGED stdout /\ UNCHANGED Jobs!lighting
    BY <1>7 DEF Jobs!AnswerQuestion
  <2>3. CASE Jobs!Start("update", "install")
    BY <2>1, <2>2, <2>3, StartKeeps, LightsRest DEF JobsInv, Workers
  <2>4. CASE UNCHANGED <<threads, held, runs>>
    BY <2>1, <2>2, <2>4, ThreadsRest, LightsRest DEF JobsInv
  <2>5. QED
    BY <1>7, <2>3, <2>4 DEF Jobs!AnswerQuestion
<1>8. CASE Jobs!ApplySettings
  <2>1. ThreadTypes' /\ LocksAreThreads' /\ StdoutIsLent'
    BY <1>2, <1>8, ThreadsRest DEF Jobs!ApplySettings
  <2>2. LightsAreOnTheirWay'
    BY <1>8 DEF Jobs!ApplySettings, JobsInv, LightsAreOnTheirWay, Jobs!Lights
  <2>3. QED
    BY <2>1, <2>2 DEF JobsInv
<1>9. CASE Jobs!Resets
  <2>1. ThreadTypes' /\ LocksAreThreads' /\ StdoutIsLent'
    BY <1>2, <1>9, ThreadsRest DEF Jobs!Resets
  <2>2. LightsAreOnTheirWay'
    BY <1>9 DEF Jobs!Resets, JobsInv, LightsAreOnTheirWay, Jobs!Lights
  <2>3. QED
    BY <2>1, <2>2 DEF JobsInv
<1>10. CASE Jobs!Applies
  <2>1. ThreadTypes' /\ LocksAreThreads' /\ StdoutIsLent'
    BY <1>2, <1>10, ThreadsRest DEF Jobs!Applies
  <2>2. LightsAreOnTheirWay'
    BY <1>10 DEF Jobs!Applies, JobsInv, LightsAreOnTheirWay, Jobs!Lights
  <2>3. QED
    BY <2>1, <2>2 DEF JobsInv
<1>11. QED
  BY <1>1, <1>3, <1>4, <1>5, <1>6, <1>7, <1>8, <1>9, <1>10 DEF Jobs!Next

LEMMA JobsStay == ASSUME JobsInv, UNCHANGED jobVars PROVE JobsInv'
<1>1. UNCHANGED <<threads, held, runs, stdout>> /\ questions' \in 0 .. MaxQuestions
  BY DEF jobVars, JobsInv, ThreadTypes
<1>2. UNCHANGED Jobs!lighting
  BY DEF jobVars, Jobs!lighting
<1>3. QED
  BY <1>1, <1>2, ThreadsRest, LightsRest DEF JobsInv

JobsHold == part = "jobs" => JobsInv

LEMMA JobsAlways == Spec => []JobsHold
<1>1. Init => JobsHold
  BY PartsAssumption, JobsBegin DEF Init, JobsHold
<1>2. JobsHold /\ [Next]_trayVars => JobsHold'
  <2> SUFFICES ASSUME JobsHold, [Next]_trayVars, part' = "jobs" PROVE JobsInv'
    BY DEF JobsHold
  <2>1. CASE JobSteps
    BY <2>1, PartsAssumption, JobsKeep DEF JobSteps, JobsHold
  <2>2. CASE UNCHANGED trayVars
    BY <2>2, JobsStay DEF trayVars, JobsHold
  <2>3. CASE Next /\ ~JobSteps
    BY <2>3 DEF Next, IconSteps, PanelSteps, DialogSteps, TranscriptSteps, SignInSteps,
                CreditSteps, UsageSteps, NotifySteps, Rest
  <2>4. QED
    BY <2>1, <2>2, <2>3
<1>3. QED
  BY <1>1, <1>2, PTL DEF Spec

\* A worker never runs twice at once, a lock is held exactly while its thread lives, stdout
\* comes back to the process, and after Settings the lights are the ones configured
\* (workers.py's _GuardedWorker and TrayApp._refresh_lighting).
THEOREM OneJobPerWorker == Spec => []JobsTakeTurns
<1>1. JobsHold => JobsTakeTurns
  <2>1. JobsInv => Jobs!OneJobAtATime
    BY DEF JobsInv, LocksAreThreads, StdoutIsLent, Diagnosing, Jobs!OneJobAtATime
  <2>2. JobsInv => Jobs!LightsFollowTheSettings
    BY DEF JobsInv, LightsAreOnTheirWay, Jobs!LightsFollowTheSettings
  <2>3. QED
    BY <2>1, <2>2 DEF JobsHold, JobsTakeTurns
<1>2. QED
  BY <1>1, JobsAlways, PTL
--------------------------------------------------------------------------------
(* Numbers                                                                        *)

\* What an interval owes by a time: no more than the time, and ever more of it.
LEMMA DivFacts ==
    ASSUME NEW k \in Nat \ {0}, NEW a \in Nat
    PROVE  a \div k \in Nat /\ k * (a \div k) <= a /\ a < k * (a \div k) + k
OBVIOUS

LEMMA DivBound ==
    ASSUME NEW k \in Nat \ {0}, NEW a \in Nat
    PROVE  a \div k \in 0 .. a
<1> DEFINE q == a \div k
<1>1. q \in Nat /\ k * q <= a
  BY DivFacts
<1> HIDE DEF q
<1>2. q <= k * q
  BY <1>1
<1>3. QED
  BY <1>1, <1>2 DEF q

LEMMA DivMonotone ==
    ASSUME NEW k \in Nat \ {0}, NEW a \in Nat, NEW b \in Nat, a <= b
    PROVE  a \div k <= b \div k
<1> DEFINE p == a \div k
           q == b \div k
<1>1. p \in Nat /\ q \in Nat /\ k * p <= a /\ b < k * q + k
  BY DivFacts
<1> HIDE DEF p, q
<1>2. SUFFICES ASSUME q < p PROVE FALSE
  BY <1>1 DEF p, q
<1>3. k * (q + 1) <= k * p
  BY <1>1, <1>2
<1>4. QED
  BY <1>1, <1>3
--------------------------------------------------------------------------------
(* Icon: what the desktop shows, and the reminders of an unanswered confirm.      *)

IconTypes ==
    /\ agents \in [Agents -> Icon!Statuses] /\ now \in 0 .. MaxTime
    /\ conf \in [colour : Colours, after : Intervals]
    /\ dim \in BOOLEAN /\ prev \in Icon!Statuses /\ bell.entries \in 0 .. LogSize
    /\ bell.unread \in BOOLEAN /\ request \in {"none", "held", "lost"}

\* The latch that drew last knows what the desktop shows, and the other one knows nothing.
OneLatchKnows ==
    \/ latch = [icon |-> {shell}, anim |-> {}]
    \/ latch = [icon |-> {}, anim |-> {shell}]

\* The clock of a confirm, and what was said of it, run from the same poll: every reminder
\* counts at least one interval, the command came with the first, and as long as nobody
\* touched Settings exactly the intervals passed by the last poll were counted.
ConfirmIsTimed ==
    /\ nag \in [since : (0 .. MaxTime) \cup {Icon!Unset}, sent : 0 .. MaxTime, ran : BOOLEAN]
    /\ said \in [at : (0 .. MaxTime) \cup {Icon!Unset}, nags : Nat, commands : Nat, steady : BOOLEAN]
    /\ nag.since = Icon!Unset <=> prev # "confirm"
    /\ nag.since = Icon!Unset => nag = Icon!Quiet /\ said = Icon!NothingSaid
    /\ nag.since # Icon!Unset =>
          /\ nag.since <= said.at /\ said.at <= now
          /\ said.nags <= nag.sent /\ nag.sent <= said.at - nag.since
          /\ said.steady => nag.sent = IF conf.after = 0 THEN 0
                                       ELSE (said.at - nag.since) \div conf.after
    /\ nag.ran <=> said.nags > 0
    /\ said.commands = IF said.nags > 0 THEN 1 ELSE 0

IconInv == IconTypes /\ OneLatchKnows /\ ConfirmIsTimed /\ Icon!IconFollowsTheState

LEMMA EffectiveIsStatus == Icon!Effective \in Icon!Statuses
BY DEF Icon!Effective, Icon!Statuses

LEMMA IconBegins == ASSUME Icon!IconAssumption, Icon!Init PROVE IconInv
<1>1. IconTypes
  <2>1. bell.entries = 0 /\ bell.unread = FALSE /\ now = 0 /\ dim = FALSE /\ prev = "none"
    BY DEF Icon!Init
  <2>2. agents \in [Agents -> Icon!Statuses]
    BY DEF Icon!Init, Icon!Statuses
  <2>3. bell.entries \in 0 .. LogSize /\ now \in 0 .. MaxTime /\ prev \in Icon!Statuses
    BY <2>1 DEF Icon!IconAssumption, Icon!Statuses
  <2>4. conf \in [colour : Colours, after : Intervals] /\ request \in {"none", "held", "lost"}
    BY DEF Icon!Init
  <2>5. dim \in BOOLEAN /\ bell.unread \in BOOLEAN
    BY <2>1
  <2>6. QED
    BY <2>2, <2>3, <2>4, <2>5 DEF IconTypes
<1>2. OneLatchKnows
  BY DEF Icon!Init, OneLatchKnows
<1>3. ConfirmIsTimed
  BY DEF Icon!Init, Icon!IconAssumption, ConfirmIsTimed, Icon!Quiet, Icon!NothingSaid, Icon!Unset
<1>4. Icon!IconFollowsTheState
  BY DEF Icon!Init, Icon!IconFollowsTheState, Icon!Badged, Icon!Active, Icon!Brand
<1>5. QED
  BY <1>1, <1>2, <1>3, <1>4 DEF IconInv

\* Either helper leaves the desktop with its icon, drawn now or drawn before.
LEMMA SetIconShows ==
    ASSUME OneLatchKnows, NEW icon, NEW r, NEW unread, Icon!SetIcon(icon, r, unread)
    PROVE  /\ shell' = Icon!Badged(icon, Icon!Active(r), unread) /\ request' = Icon!Noticed(r)
           /\ OneLatchKnows'
BY DEF OneLatchKnows, Icon!SetIcon

LEMMA UpdateAnimIconShows ==
    ASSUME OneLatchKnows, NEW r, NEW unread, Icon!UpdateAnimIcon(r, unread)
    PROVE  /\ shell' = Icon!Badged(Icon!Pulse(now), Icon!Active(r), unread)
           /\ request' = Icon!Noticed(r) /\ OneLatchKnows'
BY DEF OneLatchKnows, Icon!UpdateAnimIcon

\* A poll, whoever called for it: the icon follows what it saw.
LEMMA ShowStateShows ==
    ASSUME IconInv, NEW status \in Icon!Statuses, NEW r \in {"none", "held", "lost"},
           NEW unread \in BOOLEAN, Icon!ShowState(status, r, unread), prev' = status,
           bell'.unread = unread, unread => bell'.entries > 0
    PROVE  /\ OneLatchKnows' /\ Icon!IconFollowsTheState' /\ dim' \in BOOLEAN
           /\ request' \in {"none", "held", "lost"}
<1>1. OneLatchKnows /\ dim \in BOOLEAN
  BY DEF IconInv, IconTypes
<1>2. CASE status = "confirm"
  <2>1. CASE "blink" \in timers
    <3>1. timers' = {"blink"} /\ request' = r /\ dim' = dim /\ latch' = latch /\ shell' = shell
      BY <1>2, <2>1 DEF Icon!ShowState
    <3>2. prev = "confirm"
      BY <2>1 DEF IconInv, Icon!IconFollowsTheState
    <3>3. shell.icon.mark \in {"confirm", "blink", "dim"}
      BY <3>2 DEF IconInv, Icon!IconFollowsTheState
    <3>4. QED
      BY <1>1, <1>2, <3>1, <3>3 DEF OneLatchKnows, Icon!IconFollowsTheState
  <2>2. CASE "blink" \notin timers
    <3>1. /\ timers' = {"blink"} /\ dim' = FALSE
          /\ Icon!SetIcon(Icon!Mark("confirm", conf'.colour), r, unread)
      BY <1>2, <2>2 DEF Icon!ShowState
    <3>2. /\ shell' = Icon!Badged(Icon!Mark("confirm", conf'.colour), Icon!Active(r), unread)
          /\ request' = Icon!Noticed(r) /\ OneLatchKnows'
      BY <1>1, <3>1, SetIconShows
    <3>3. shell'.icon.mark = "confirm" /\ request' \in {"none", "held", "lost"}
      BY <3>2 DEF Icon!Badged, Icon!Mark, Icon!Noticed
    <3>4. QED
      BY <1>2, <3>1, <3>2, <3>3 DEF Icon!IconFollowsTheState
  <2>3. QED
    BY <2>1, <2>2
<1>3. CASE status = "working"
  <2>1. timers' = {"anim"} /\ Icon!UpdateAnimIcon(r, unread) /\ dim' = dim
    BY <1>3 DEF Icon!ShowState
  <2>2. /\ shell' = Icon!Badged(Icon!Pulse(now), Icon!Active(r), unread)
        /\ request' = Icon!Noticed(r) /\ OneLatchKnows'
    BY <1>1, <2>1, UpdateAnimIconShows
  <2>3. /\ shell'.icon.mark = "working" /\ shell'.icon.colour = conf'.colour
        /\ shell'.bubble = unread /\ shell'.shield = (r = "held")
        /\ request' = IF r = "lost" THEN "none" ELSE r
    BY <2>2 DEF Icon!Badged, Icon!Pulse, Icon!Noticed, Icon!Active
  <2>4. QED
    BY <1>1, <1>3, <2>1, <2>2, <2>3 DEF Icon!IconFollowsTheState
<1>4. CASE status \notin {"confirm", "working"}
  <2>1. timers' = {} /\ Icon!SetIcon(Icon!Brand, r, unread) /\ dim' = dim
    BY <1>4 DEF Icon!ShowState
  <2>2. /\ shell' = Icon!Badged(Icon!Brand, Icon!Active(r), unread)
        /\ request' = Icon!Noticed(r) /\ OneLatchKnows'
    BY <1>1, <2>1, SetIconShows
  <2>3. /\ shell'.icon = Icon!Brand /\ shell'.bubble = unread /\ shell'.shield = (r = "held")
        /\ request' = IF r = "lost" THEN "none" ELSE r
    BY <2>2 DEF Icon!Badged, Icon!Noticed, Icon!Active
  <2>4. QED
    BY <1>1, <1>4, <2>1, <2>2, <2>3 DEF Icon!IconFollowsTheState
<1>5. QED
  BY <1>2, <1>3, <1>4

\* The same poll and the reminders: those owed by now are counted, in one go.
LEMMA TrackConfirmTimes ==
    ASSUME Icon!IconAssumption, IconInv, NEW status \in Icon!Statuses,
           Icon!TrackConfirm(status), prev' = status, now' = now,
           conf' \in [colour : Colours, after : Intervals]
    PROVE  ConfirmIsTimed'
<1>1. /\ now \in 0 .. MaxTime /\ conf.after \in Nat /\ conf'.after \in Nat
      /\ nag \in [since : (0 .. MaxTime) \cup {Icon!Unset}, sent : 0 .. MaxTime, ran : BOOLEAN]
      /\ said \in [at : (0 .. MaxTime) \cup {Icon!Unset}, nags : Nat, commands : Nat,
                   steady : BOOLEAN]
      /\ Icon!Unset = -1 /\ MaxTime \in Nat
  BY DEF IconInv, IconTypes, ConfirmIsTimed, Icon!IconAssumption, Icon!Unset
<1>6. /\ said.nags \in Nat /\ said.commands \in Nat
      /\ nag.ran = TRUE \/ nag.ran = FALSE
  BY <1>1
<1>2. CASE status # "confirm"
  <2>1. nag' = Icon!Quiet /\ said' = Icon!NothingSaid
    BY <1>2 DEF Icon!TrackConfirm
  <2>2. /\ nag'.since = Icon!Unset /\ nag'.ran = FALSE /\ said'.nags = 0 /\ said'.commands = 0
        /\ nag' \in [since : (0 .. MaxTime) \cup {Icon!Unset}, sent : 0 .. MaxTime, ran : BOOLEAN]
        /\ said' \in [at : (0 .. MaxTime) \cup {Icon!Unset}, nags : Nat, commands : Nat,
                      steady : BOOLEAN]
    BY <1>1, <2>1 DEF Icon!Quiet, Icon!NothingSaid
  <2>3. ~(said'.nags > 0)
    BY <2>2
  <2>4. QED
    BY <1>2, <2>1, <2>2, <2>3 DEF ConfirmIsTimed
<1>3. CASE status = "confirm" /\ nag.since = Icon!Unset
  <2>1. nag = Icon!Quiet /\ said = Icon!NothingSaid
    BY <1>3 DEF IconInv, ConfirmIsTimed
  <2>2. /\ nag' = [since |-> now, sent |-> 0, ran |-> FALSE]
        /\ said' = [at |-> now, nags |-> 0, commands |-> 0, steady |-> (conf' = conf)]
    <3>1. nag' = [nag EXCEPT !.since = now]
      BY <1>3 DEF Icon!TrackConfirm
    <3>2. nag'.sent = nag.sent /\ nag'.ran = nag.ran
      BY <1>1, <3>1
    <3>3. said' = [at |-> now, nags |-> said.nags + 0, commands |-> said.commands + 0,
                   steady |-> said.steady /\ UNCHANGED conf]
      BY <1>3, <3>2 DEF Icon!TrackConfirm
    <3>4. nag' = [since |-> now, sent |-> 0, ran |-> FALSE]
      BY <2>1, <3>1 DEF Icon!Quiet
    <3>5. /\ said.nags + 0 = 0 /\ said.commands + 0 = 0
          /\ (said.steady /\ UNCHANGED conf) = (conf' = conf)
      BY <2>1 DEF Icon!NothingSaid
    <3>6. QED
      BY <3>3, <3>4, <3>5
  <2>3. conf'.after # 0 => (now - now) \div conf'.after = 0
    <3>1. now - now = 0
      BY <1>1
    <3>2. conf'.after # 0 => 0 \div conf'.after = 0
      BY <1>1, DivBound
    <3>3. QED
      BY <3>1, <3>2
  <2>4. /\ nag'.since = now /\ nag'.sent = 0 /\ nag'.ran = FALSE
        /\ said'.at = now /\ said'.nags = 0 /\ said'.commands = 0 /\ said'.steady \in BOOLEAN
    BY <2>2
  <2>5. /\ nag' \in [since : (0 .. MaxTime) \cup {Icon!Unset}, sent : 0 .. MaxTime, ran : BOOLEAN]
        /\ said' \in [at : (0 .. MaxTime) \cup {Icon!Unset}, nags : Nat, commands : Nat,
                      steady : BOOLEAN]
    BY <1>1, <2>2
  <2>6. now # Icon!Unset /\ now - now = 0
    BY <1>1
  <2>7. QED
    BY <1>1, <1>3, <2>3, <2>4, <2>5, <2>6 DEF ConfirmIsTimed
<1>4. CASE status = "confirm" /\ nag.since # Icon!Unset
  <2> DEFINE waited == now - nag.since
             due == waited \div conf'.after
             first == IF nag.ran # TRUE THEN 1 ELSE 0
             owed == conf'.after # 0 /\ due > nag.sent
  <2>1. /\ nag.since \in 0 .. MaxTime /\ nag.since <= said.at /\ said.at <= now
        /\ said.at \in 0 .. MaxTime
        /\ said.nags <= nag.sent /\ nag.sent <= said.at - nag.since
        /\ said.steady => nag.sent = IF conf.after = 0 THEN 0
                                     ELSE (said.at - nag.since) \div conf.after
        /\ nag.ran <=> said.nags > 0
        /\ said.commands = IF said.nags > 0 THEN 1 ELSE 0
    BY <1>1, <1>4 DEF IconInv, ConfirmIsTimed
  <2>2. waited \in Nat /\ waited <= MaxTime /\ said.at - nag.since \in Nat
        /\ said.at - nag.since <= waited
    BY <1>1, <2>1
  <2>3. conf'.after # 0 => /\ due \in 0 .. waited
                           /\ (said.at - nag.since) \div conf'.after <= due
                           /\ (said.at - nag.since) \div conf'.after \in Nat
    <3> HIDE DEF waited
    <3> QED
      BY <1>1, <2>2, DivBound, DivMonotone
  <2>7. (nag.ran => first = 0) /\ (~nag.ran => first = 1) /\ first \in {0, 1}
    <3>1. CASE nag.ran = TRUE
      <4>1. first = 0
        BY <3>1, Zenon
      <4>2. QED
        BY <3>1, <4>1
    <3>2. CASE nag.ran = FALSE
      <4>1. nag.ran # TRUE
        BY <3>2
      <4>2. first = 1
        BY <4>1, Zenon
      <4>3. QED
        BY <3>2, <4>2
    <3>3. QED
      BY <1>6, <3>1, <3>2
  <2> HIDE DEF due
  <2>4. CASE owed
    <3>1. nag' = [nag EXCEPT !.sent = due, !.ran = TRUE]
      <4>1. ~(conf'.after = 0 \/ Icon!Due <= nag.sent) /\ Icon!Due = due
        BY <1>1, <2>3, <2>4 DEF Icon!Due, due
      <4>2. QED
        BY <1>4, <4>1 DEF Icon!TrackConfirm
    <3>2. nag'.since = nag.since /\ nag'.sent = due /\ nag'.ran = TRUE /\ due # nag.sent
      BY <1>1, <2>3, <2>4, <3>1
    <3>3. said' = [at |-> now, nags |-> said.nags + 1,
                   commands |-> said.commands + first,
                   steady |-> said.steady /\ UNCHANGED conf]
      BY <1>4, <3>2 DEF Icon!TrackConfirm
    <3>4. /\ said'.at = now /\ said'.nags = said.nags + 1 /\ said'.commands = 1
          /\ said'.steady => said.steady /\ UNCHANGED conf
      <4>1. /\ said'.at = now /\ said'.nags = said.nags + 1
            /\ said'.commands = said.commands + first
            /\ said'.steady = (said.steady /\ UNCHANGED conf)
        BY <3>3
      <4>2. said'.commands = 1
        <5> HIDE DEF first
        <5> QED
          BY <1>6, <2>1, <2>7, <4>1
      <4>3. QED
        BY <4>1, <4>2
    <3>5. /\ nag' \in [since : (0 .. MaxTime) \cup {Icon!Unset}, sent : 0 .. MaxTime, ran : BOOLEAN]
          /\ said' \in [at : (0 .. MaxTime) \cup {Icon!Unset}, nags : Nat, commands : Nat,
                        steady : BOOLEAN]
      <4>1. due \in 0 .. MaxTime
        BY <1>1, <2>2, <2>3, <2>4
      <4>2. said.commands + first \in Nat /\ said.nags + 1 \in Nat
        <5> HIDE DEF first
        <5> QED
          BY <1>6, <2>7
      <4>3. QED
        BY <1>1, <3>1, <3>3, <4>1, <4>2
    <3>6. said'.nags <= nag'.sent /\ nag'.sent <= said'.at - nag'.since /\ said'.nags > 0
      BY <1>1, <2>1, <2>2, <2>3, <2>4, <3>2, <3>4
    <3>7. nag'.sent = IF conf'.after = 0 THEN 0 ELSE (said'.at - nag'.since) \div conf'.after
      BY <2>4, <3>2, <3>4 DEF due
    <3>8. QED
      BY <1>1, <1>4, <2>1, <3>2, <3>4, <3>5, <3>6, <3>7 DEF ConfirmIsTimed
  <2>5. CASE ~owed
    <3>1. nag' = nag
      <4>1. conf'.after = 0 \/ Icon!Due <= nag.sent
        BY <1>1, <2>3, <2>5 DEF Icon!Due, due
      <4>2. QED
        BY <1>4, <4>1 DEF Icon!TrackConfirm
    <3>2. said' = [at |-> now, nags |-> said.nags + 0, commands |-> said.commands + 0,
                   steady |-> said.steady /\ UNCHANGED conf]
      BY <1>4, <3>1 DEF Icon!TrackConfirm
    <3>3. /\ said'.at = now /\ said'.nags = said.nags /\ said'.commands = said.commands
          /\ said'.steady => said.steady /\ UNCHANGED conf
      <4>1. /\ said'.at = now /\ said'.nags = said.nags + 0
            /\ said'.commands = said.commands + 0
            /\ said'.steady = (said.steady /\ UNCHANGED conf)
        BY <3>2
      <4>2. said.nags + 0 = said.nags /\ said.commands + 0 = said.commands
        BY <1>6
      <4>3. QED
        BY <4>1, <4>2
    <3>4. said' \in [at : (0 .. MaxTime) \cup {Icon!Unset}, nags : Nat, commands : Nat,
                     steady : BOOLEAN]
      BY <1>1, <3>2
    <3>5. said'.steady => nag'.sent = IF conf'.after = 0 THEN 0
                                      ELSE (said'.at - nag'.since) \div conf'.after
      <4>1. SUFFICES ASSUME said.steady, conf' = conf
                     PROVE  nag.sent = IF conf'.after = 0 THEN 0 ELSE due
        BY <3>1, <3>3 DEF due
      <4>2. QED
        BY <1>1, <2>1, <2>3, <2>5, <4>1
    <3>6. nag'.sent <= said'.at - nag'.since
      BY <1>1, <2>1, <3>1, <3>3
    <3>7. QED
      BY <1>1, <1>4, <2>1, <3>1, <3>3, <3>4, <3>5, <3>6 DEF ConfirmIsTimed, IconInv
  <2>6. QED
    BY <2>4, <2>5
<1>5. QED
  BY <1>2, <1>3, <1>4

LEMMA ApplyStateKeeps ==
    ASSUME Icon!IconAssumption, IconInv, NEW r \in {"none", "held", "lost"},
           NEW unread \in BOOLEAN, Icon!ApplyState(r, unread), UNCHANGED <<agents, now>>,
           conf' \in [colour : Colours, after : Intervals], bell'.unread = unread,
           bell'.entries \in 0 .. LogSize, unread => bell'.entries > 0
    PROVE  IconInv'
<1>1. /\ Icon!ShowState(Icon!Effective, r, unread) /\ prev' = Icon!Effective
      /\ Icon!TrackConfirm(Icon!Effective) /\ Icon!Effective \in Icon!Statuses
  BY EffectiveIsStatus DEF Icon!ApplyState
<1>2. ConfirmIsTimed'
  BY <1>1, TrackConfirmTimes
<1>3. /\ OneLatchKnows' /\ Icon!IconFollowsTheState' /\ dim' \in BOOLEAN
      /\ request' \in {"none", "held", "lost"}
  BY <1>1, ShowStateShows
<1>4. IconTypes'
  BY <1>1, <1>3 DEF IconInv, IconTypes
<1>5. QED
  BY <1>2, <1>3, <1>4 DEF IconInv

\* What a step that polls nothing leaves alone.
LEMMA NagsRest ==
    ASSUME IconInv, UNCHANGED <<conf, prev, nag, said>>, now' \in 0 .. MaxTime, now <= now'
    PROVE  ConfirmIsTimed'
<1>1. now \in 0 .. MaxTime
  BY DEF IconInv, IconTypes
<1>2. nag.since # Icon!Unset => said.at \in Int
  BY DEF IconInv, ConfirmIsTimed, Icon!Unset
<1>3. QED
  BY <1>1, <1>2 DEF IconInv, ConfirmIsTimed

LEMMA IconRests ==
    ASSUME IconInv, UNCHANGED <<timers, latch, shell, prev, conf, bell, request>>
    PROVE  OneLatchKnows' /\ Icon!IconFollowsTheState'
BY DEF IconInv, OneLatchKnows, Icon!IconFollowsTheState

LEMMA SetUnreadKeeps ==
    ASSUME Icon!IconAssumption, IconInv, NEW entries \in 0 .. LogSize, NEW unread \in BOOLEAN,
           Icon!SetUnread(entries, unread), unread => entries > 0
    PROVE  IconInv'
<1>1. /\ UNCHANGED <<agents, now, conf>> /\ bell' = [entries |-> entries, unread |-> unread]
      /\ bell'.entries = entries /\ bell'.unread = unread
      /\ conf' \in [colour : Colours, after : Intervals] /\ request \in {"none", "held", "lost"}
  BY DEF Icon!SetUnread, IconInv, IconTypes
<1>2. CASE unread # bell.unread
  BY <1>1, <1>2, ApplyStateKeeps DEF Icon!SetUnread
<1>3. CASE unread = bell.unread
  <2>1. UNCHANGED <<timers, dim, latch, shell, prev, nag, request, said>>
    BY <1>3 DEF Icon!SetUnread
  <2>2. now' \in 0 .. MaxTime /\ now <= now'
    BY <1>1 DEF IconInv, IconTypes
  <2>3. OneLatchKnows' /\ Icon!IconFollowsTheState'
    BY <1>1, <1>3, <2>1 DEF IconInv, OneLatchKnows, Icon!IconFollowsTheState
  <2>4. QED
    BY <1>1, <2>1, <2>2, <2>3, NagsRest DEF IconInv, IconTypes
<1>4. QED
  BY <1>2, <1>3

LEMMA IconKeeps == ASSUME Icon!IconAssumption, IconInv, Icon!Next PROVE IconInv'
<1>1. /\ now \in 0 .. MaxTime /\ MaxTime \in Nat /\ LogSize \in Nat \ {0}
      /\ conf \in [colour : Colours, after : Intervals] /\ request \in {"none", "held", "lost"}
      /\ bell.entries \in 0 .. LogSize /\ bell.unread \in BOOLEAN
      /\ bell.unread => bell.entries > 0
  BY DEF IconInv, IconTypes, Icon!IconAssumption, Icon!IconFollowsTheState
<1>2. CASE Icon!Report
  <2>1. agents' \in [Agents -> Icon!Statuses]
    BY <1>2 DEF Icon!Report, IconInv, IconTypes
  <2>2. QED
    BY <1>1, <1>2, <2>1, IconRests, NagsRest DEF Icon!Report, IconInv, IconTypes
<1>3. CASE Icon!Tick
  <2>1. now' \in 0 .. MaxTime /\ now <= now'
    BY <1>1, <1>3 DEF Icon!Tick
  <2>2. QED
    BY <1>3, <2>1, IconRests, NagsRest DEF Icon!Tick, IconInv, IconTypes
<1>4. CASE Icon!PollState
  BY <1>1, <1>4, ApplyStateKeeps DEF Icon!PollState
<1>5. CASE Icon!OnBlink
  <2> DEFINE mark == IF dim' THEN "dim" ELSE "blink"
  <2>1. /\ UNCHANGED <<agents, now, conf, timers, prev, nag, bell, said>> /\ dim' = ~dim
        /\ Icon!SetIcon(Icon!Mark(mark, conf.colour), request, bell.unread) /\ prev = "confirm"
    BY <1>5 DEF Icon!OnBlink, IconInv, Icon!IconFollowsTheState
  <2>2. /\ shell' = Icon!Badged(Icon!Mark(mark, conf.colour), Icon!Active(request), bell.unread)
        /\ request' = Icon!Noticed(request) /\ OneLatchKnows'
    BY <2>1, SetIconShows DEF IconInv
  <2>3. shell'.icon.mark = mark /\ request' \in {"none", "held", "lost"}
    BY <1>1, <2>2 DEF Icon!Badged, Icon!Mark, Icon!Noticed
  <2>4. Icon!IconFollowsTheState'
    BY <2>1, <2>3 DEF IconInv, Icon!IconFollowsTheState
  <2>5. ConfirmIsTimed'
    BY <1>1, <2>1, NagsRest
  <2>6. QED
    BY <2>1, <2>2, <2>3, <2>4, <2>5 DEF IconInv, IconTypes
<1>6. CASE Icon!OnAnimTick
  <2>1. /\ UNCHANGED <<agents, now, conf, timers, dim, prev, nag, bell, said>>
        /\ Icon!UpdateAnimIcon(request, bell.unread) /\ prev = "working"
    BY <1>6 DEF Icon!OnAnimTick, IconInv, Icon!IconFollowsTheState
  <2>2. /\ shell' = Icon!Badged(Icon!Pulse(now), Icon!Active(request), bell.unread)
        /\ request' = Icon!Noticed(request) /\ OneLatchKnows'
    BY <2>1, UpdateAnimIconShows DEF IconInv
  <2>3. /\ shell'.icon.mark = "working" /\ shell'.icon.colour = conf'.colour
        /\ shell'.bubble = bell.unread /\ shell'.shield = (request = "held")
        /\ request' = IF request = "lost" THEN "none" ELSE request
    BY <2>2 DEF Icon!Badged, Icon!Pulse, Icon!Noticed, Icon!Active
  <2>4. Icon!IconFollowsTheState'
    BY <1>1, <2>1, <2>3 DEF IconInv, Icon!IconFollowsTheState
  <2>5. ConfirmIsTimed'
    BY <1>1, <2>1, NagsRest
  <2>6. QED
    BY <1>1, <2>1, <2>2, <2>3, <2>4, <2>5 DEF IconInv, IconTypes
<1>7. CASE Icon!NotifyRequested
  <2> DEFINE entries == IF bell.entries < LogSize THEN bell.entries + 1 ELSE bell.entries
  <2>1. entries \in 0 .. LogSize /\ entries > 0
    BY <1>1
  <2>2. Icon!SetUnread(entries, TRUE)
    BY <1>7 DEF Icon!NotifyRequested
  <2>3. QED
    BY <2>1, <2>2, SetUnreadKeeps
<1>8. CASE Icon!OpenNotifications \/ Icon!ClearNotifications
  <2>1. 0 \in 0 .. LogSize
    BY <1>1
  <2>2. QED
    BY <1>1, <1>8, <2>1, SetUnreadKeeps DEF Icon!OpenNotifications, Icon!ClearNotifications
<1>9. CASE Icon!SetKeepAwake
  <2>1. PICK r \in {Icon!Acquired(TRUE), Icon!Acquired(FALSE), "none"} :
           Icon!ApplyState(r, bell.unread)
    BY <1>9 DEF Icon!SetKeepAwake
  <2>2. r \in {"none", "held", "lost"}
    BY DEF Icon!Acquired
  <2>3. QED
    BY <1>1, <1>9, <2>1, <2>2, ApplyStateKeeps DEF Icon!SetKeepAwake
<1>10. CASE Icon!ChildExits
  <2>1. Icon!IconFollowsTheState' /\ OneLatchKnows'
    BY <1>10 DEF Icon!ChildExits, IconInv, Icon!IconFollowsTheState, OneLatchKnows
  <2>2. QED
    BY <1>1, <1>10, <2>1, NagsRest DEF Icon!ChildExits, IconInv, IconTypes
<1>11. CASE Icon!ApplySettings
  BY <1>1, <1>11, ApplyStateKeeps DEF Icon!ApplySettings
<1>12. QED
  BY <1>2, <1>3, <1>4, <1>5, <1>6, <1>7, <1>8, <1>9, <1>10, <1>11 DEF Icon!Next

LEMMA IconStays == ASSUME IconInv, UNCHANGED iconVars PROVE IconInv'
<1>1. now' \in 0 .. MaxTime /\ now <= now' /\ ConfirmIsTimed'
  BY NagsRest DEF iconVars, IconInv, IconTypes
<1>2. OneLatchKnows' /\ Icon!IconFollowsTheState'
  BY IconRests DEF iconVars
<1>3. QED
  BY <1>1, <1>2 DEF iconVars, IconInv, IconTypes

IconHolds == part = "icon" => IconInv

LEMMA IconAlways == Spec => []IconHolds
<1>1. Init => IconHolds
  BY PartsAssumption, IconBegins DEF Init, IconHolds
<1>2. IconHolds /\ [Next]_trayVars => IconHolds'
  <2> SUFFICES ASSUME IconHolds, [Next]_trayVars, part' = "icon" PROVE IconInv'
    BY DEF IconHolds
  <2>1. CASE IconSteps
    BY <2>1, PartsAssumption, IconKeeps DEF IconSteps, IconHolds
  <2>2. CASE UNCHANGED trayVars
    BY <2>2, IconStays DEF trayVars, IconHolds
  <2>3. CASE Next /\ ~IconSteps
    BY <2>3 DEF Next, JobSteps, PanelSteps, DialogSteps, TranscriptSteps, SignInSteps,
                CreditSteps, UsageSteps, NotifySteps, Rest
  <2>4. QED
    BY <2>1, <2>2, <2>3
<1>3. QED
  BY <1>1, <1>2, PTL DEF Spec

\* What the desktop shows is the last status polled, in the colours of Settings and with
\* the badges of the bell and of the request, although two latches suppress the repaints
\* (TrayApp._apply_state, _set_icon, _update_anim_icon).
THEOREM IconIsTheState == Spec => []IconFollowsTheState
<1>1. IconHolds => IconFollowsTheState
  BY DEF IconHolds, IconInv, IconFollowsTheState
<1>2. QED
  BY <1>1, IconAlways, PTL
--------------------------------------------------------------------------------
(* The notify_user tool: messages, replies, and what the user saw.                *)

Says  == {"result", "error", "not running", "refused", "delivered", "no tray"}
Item  == [n : Nat, kind : Notify!Kinds]
Reply == [n : Nat, says : Says]
Number == Nat
Bad   == {"not running", "refused", "no tray"}

\* Every reply so far, written or about to be; every message that reached the tray.
Replied == outbox \o mcp.replies
Reached == shown \o emitted

ToolStates ==
    [line : Seq(Item), replies : Seq(Reply), call : [n : Nat, port : Nat],
     url : DaemonPorts \cup {Notify!None}]
DaemonStates == [port : DaemonPorts, at : {"off", "headless", "tray", "quitting"}]

NotifyTypes ==
    /\ inbox \in Seq(Seq(Item)) /\ outbox \in Seq(Reply)
    /\ mcp \in ToolStates
    /\ mcp.line = <<>> => mcp.call = Notify!NotCalling /\ mcp.replies = <<>>
    /\ posts \subseteq Item /\ emitted \in Seq(Number) /\ shown \in Seq(Number)
    /\ wanted \in DaemonPorts
    /\ daemon \in DaemonStates
    /\ items \in Nat

InOrder(line) == \A i, j \in DOMAIN line : i < j => line[i].n < line[j].n

\* What is still to be answered is numbered in the order it was sent.
QueueInOrder ==
    /\ InOrder(mcp.line) /\ \A i \in DOMAIN mcp.line : mcp.line[i].n \in 1 .. items
    /\ \A k \in DOMAIN inbox :
          InOrder(inbox[k]) /\ \A i \in DOMAIN inbox[k] : inbox[k][i].n \in 1 .. items
    /\ \A i \in DOMAIN mcp.line, k \in DOMAIN inbox : \A j \in DOMAIN inbox[k] :
          mcp.line[i].n < inbox[k][j].n
    /\ \A k, l \in DOMAIN inbox : k < l =>
          \A i \in DOMAIN inbox[k], j \in DOMAIN inbox[l] : inbox[k][i].n < inbox[l][j].n

\* A message that was answered: it was sent before all that was not.
Past(n) ==
    /\ n \in 1 .. items
    /\ \A i \in DOMAIN mcp.line : n < mcp.line[i].n
    /\ \A k \in DOMAIN inbox : \A i \in DOMAIN inbox[k] : n < inbox[k][i].n

LEMMA AppendToConcat ==
    ASSUME NEW S, NEW s \in Seq(S), NEW t \in Seq(S), NEW e \in S
    PROVE  s \o Append(t, e) = Append(s \o t, e)
<1>1. Append(t, e) = t \o <<e>> /\ Append(s \o t, e) = (s \o t) \o <<e>>
  <2>1. s \o t \in Seq(S)
    BY ConcatProperties
  <2>2. QED
    BY <2>1, AppendIsConcat
<1>2. <<e>> \in Seq(S)
  OBVIOUS
<1>3. QED
  BY <1>1, <1>2, ConcatAssociative

\* Appending adds one element, after all the others.
LEMMA Appended ==
    ASSUME NEW S, NEW s \in Seq(S), NEW e \in S, NEW t, t = Append(s, e)
    PROVE  /\ t \in Seq(S) /\ DOMAIN s \subseteq DOMAIN t
           /\ \A i \in DOMAIN s : t[i] = s[i]
           /\ \E last \in DOMAIN t : /\ t[last] = e
                                     /\ \A i \in DOMAIN t : i \in DOMAIN s \/ i = last
                                     /\ \A i \in DOMAIN t : ~(last < i)
<1>1. /\ t \in Seq(S) /\ Len(t) = Len(s) + 1 /\ Len(s) \in Nat
      /\ \A i \in 1 .. Len(s) : t[i] = s[i]
      /\ t[Len(s) + 1] = e
  BY AppendProperties
<1>2. DOMAIN s = 1 .. Len(s) /\ DOMAIN t = 1 .. Len(s) + 1
  BY <1>1
<1>3. QED
  BY <1>1, <1>2

LEMMA LinesUnchanged ==
    ASSUME QueueInOrder, UNCHANGED <<inbox, items>>, mcp'.line = mcp.line
    PROVE  QueueInOrder' /\ \A n : Past(n) => Past(n)'
BY DEF QueueInOrder, Past, InOrder

LEMMA SendsLine ==
    ASSUME Notify!NotifyAssumption, NotifyTypes, QueueInOrder, NEW batch \in Batches,
           Notify!Sends(batch)
    PROVE  /\ inbox' \in Seq(Seq(Item)) /\ items' \in Nat
           /\ QueueInOrder' /\ \A n : Past(n) => Past(n)'
<1> DEFINE line == [i \in DOMAIN batch |-> [n |-> items + i, kind |-> batch[i]]]
<1>1. PICK k \in 1 .. 2 : batch \in [1 .. k -> Notify!Kinds]
  BY DEF Notify!NotifyAssumption
<1>2. Len(batch) = k /\ DOMAIN batch = 1 .. k
  BY <1>1
<1>3. /\ items' = items + k /\ inbox' = Append(inbox, line) /\ mcp' = mcp
      /\ items \in Nat /\ inbox \in Seq(Seq(Item)) /\ k \in Nat
  BY <1>1, <1>2 DEF Notify!Sends, NotifyTypes, ToolStates, DaemonStates
<1>4. line \in Seq(Item) /\ DOMAIN line = 1 .. k /\ \A i \in 1 .. k : line[i].n = items + i
  <2>1. line \in [1 .. k -> Item]
    BY <1>1, <1>2, <1>3 DEF Item
  <2>2. QED
    BY <1>2, <1>3, <2>1
<1> HIDE DEF line
<1>5. /\ inbox' \in Seq(Seq(Item)) /\ DOMAIN inbox' = 1 .. Len(inbox) + 1
      /\ \A i \in 1 .. Len(inbox) : inbox'[i] = inbox[i]
      /\ inbox'[Len(inbox) + 1] = line /\ DOMAIN inbox = 1 .. Len(inbox) /\ Len(inbox) \in Nat
  BY <1>3, <1>4, AppendProperties
<1>6. \A l \in DOMAIN inbox' : l \in DOMAIN inbox \/ (l = Len(inbox) + 1 /\ inbox'[l] = line)
  BY <1>5
<1>7. \A n \in 1 .. items : \A i \in DOMAIN line : n < line[i].n /\ line[i].n \in 1 .. items'
  BY <1>3, <1>4
<1>8. \A n \in 1 .. items : n \in 1 .. items'
  BY <1>3
<1>9. InOrder(line) /\ \A i \in DOMAIN line : line[i].n \in 1 .. items'
  BY <1>3, <1>4 DEF InOrder
<1>10. \A n : Past(n) => Past(n)'
  BY <1>3, <1>5, <1>6, <1>7, <1>8 DEF Past
<1>11. QueueInOrder'
  <2>1. InOrder(mcp'.line) /\ \A i \in DOMAIN mcp'.line : mcp'.line[i].n \in 1 .. items'
    BY <1>3, <1>8 DEF QueueInOrder
  <2>2. ASSUME NEW l \in DOMAIN inbox'
        PROVE  InOrder(inbox'[l]) /\ \A i \in DOMAIN inbox'[l] : inbox'[l][i].n \in 1 .. items'
    <3>1. CASE l \in DOMAIN inbox
      BY <1>5, <1>8, <3>1 DEF QueueInOrder
    <3>2. CASE inbox'[l] = line
      BY <1>9, <3>2
    <3>3. QED
      BY <1>6, <3>1, <3>2
  <2>3. ASSUME NEW i \in DOMAIN mcp'.line, NEW l \in DOMAIN inbox', NEW j \in DOMAIN inbox'[l]
        PROVE  mcp'.line[i].n < inbox'[l][j].n
    <3>1. mcp'.line[i] = mcp.line[i] /\ i \in DOMAIN mcp.line /\ mcp.line[i].n \in 1 .. items
      BY <1>3, <2>3 DEF QueueInOrder
    <3>2. CASE l \in DOMAIN inbox
      BY <1>5, <2>3, <3>1, <3>2 DEF QueueInOrder
    <3>3. CASE inbox'[l] = line
      BY <1>7, <2>3, <3>1, <3>3
    <3>4. QED
      BY <1>6, <3>2, <3>3
  <2>4. ASSUME NEW g \in DOMAIN inbox', NEW h \in DOMAIN inbox', g < h,
               NEW i \in DOMAIN inbox'[g], NEW j \in DOMAIN inbox'[h]
        PROVE  inbox'[g][i].n < inbox'[h][j].n
    <3>1. g \in DOMAIN inbox /\ inbox'[g] = inbox[g]
      BY <1>5, <2>4
    <3>2. CASE h \in DOMAIN inbox
      BY <1>5, <2>4, <3>1, <3>2 DEF QueueInOrder
    <3>3. CASE inbox'[h] = line
      <4>1. inbox[g][i].n \in 1 .. items
        BY <2>4, <3>1 DEF QueueInOrder
      <4>2. QED
        BY <1>7, <2>4, <3>1, <3>3, <4>1
    <3>4. QED
      BY <1>6, <3>2, <3>3
  <2>5. QED
    BY <2>1, <2>2, <2>3, <2>4 DEF QueueInOrder
<1>12. items' \in Nat
  BY <1>3
<1>13. QED
  BY <1>5, <1>10, <1>11, <1>12

LEMMA ReadsLine ==
    ASSUME NotifyTypes, QueueInOrder, Notify!Reads
    PROVE  /\ inbox' \in Seq(Seq(Item)) /\ mcp'.line \in Seq(Item) /\ mcp'.replies = <<>>
           /\ mcp'.call = mcp.call /\ mcp'.url = mcp.url
           /\ mcp' = [mcp EXCEPT !.line = mcp'.line, !.replies = <<>>]
           /\ QueueInOrder' /\ \A n : Past(n) => Past(n)'
<1>1. /\ mcp' = [mcp EXCEPT !.line = Head(inbox), !.replies = <<>>] /\ inbox' = Tail(inbox)
      /\ inbox # <<>> /\ items' = items /\ inbox \in Seq(Seq(Item))
  BY DEF Notify!Reads, NotifyTypes, ToolStates, DaemonStates
<1>2. /\ mcp'.line = Head(inbox) /\ mcp'.replies = <<>> /\ mcp'.call = mcp.call
      /\ mcp'.url = mcp.url
  BY <1>1 DEF NotifyTypes, ToolStates, DaemonStates
<1>3. /\ Head(inbox) \in Seq(Item) /\ Head(inbox) = inbox[1] /\ 1 \in DOMAIN inbox
      /\ inbox' \in Seq(Seq(Item))
      /\ \A l \in DOMAIN inbox' : /\ l \in Nat /\ l + 1 \in DOMAIN inbox /\ 1 < l + 1
                                   /\ inbox'[l] = inbox[l + 1]
  BY <1>1, HeadTailProperties
<1>4. \A n : Past(n) => Past(n)'
  BY <1>1, <1>2, <1>3 DEF Past
<1>5. QueueInOrder'
  <2>1. \A g, h \in DOMAIN inbox' : g < h => g + 1 < h + 1
    BY <1>3
  <2>2. QED
    BY <1>1, <1>2, <1>3, <2>1 DEF QueueInOrder
<1>6. QED
  BY <1>1, <1>2, <1>3, <1>4, <1>5

\* The head of the line is answered: it joins the past, and every reply keeps its place.
LEMMA HeadIsAnswered ==
    ASSUME NotifyTypes, QueueInOrder, mcp.line # <<>>, mcp'.line = Tail(mcp.line),
           UNCHANGED <<inbox, items>>
    PROVE  /\ mcp'.line \in Seq(Item) /\ Head(mcp.line) \in Item
           /\ QueueInOrder' /\ \A n : Past(n) => Past(n)'
           /\ \A n : n = Head(mcp.line).n => Past(n)' /\ ~Past(n)
           /\ \A n : Past(n) => n < Head(mcp.line).n
<1>1. mcp.line \in Seq(Item)
  BY DEF NotifyTypes, ToolStates, DaemonStates
<1>2. /\ Head(mcp.line) = mcp.line[1] /\ 1 \in DOMAIN mcp.line /\ Head(mcp.line) \in Item
      /\ mcp'.line \in Seq(Item)
      /\ \A i \in DOMAIN mcp'.line : /\ i \in Nat /\ i + 1 \in DOMAIN mcp.line /\ 1 < i + 1
                                      /\ mcp'.line[i] = mcp.line[i + 1]
  BY <1>1, HeadTailProperties
<1>3. \A n : Past(n) => Past(n)'
  BY <1>2 DEF Past
<1>4. QueueInOrder'
  <2>1. \A g, h \in DOMAIN mcp'.line : g < h => g + 1 < h + 1
    BY <1>2
  <2>2. QED
    BY <1>2, <2>1 DEF QueueInOrder, InOrder
<1>5. ASSUME NEW n, n = Head(mcp.line).n PROVE Past(n)'
  <2>1. n = mcp.line[1].n
    BY <1>2, <1>5
  <2>2. n \in 1 .. items'
    BY <1>2, <2>1 DEF QueueInOrder
  <2>3. \A i \in DOMAIN mcp'.line : n < mcp'.line[i].n
    BY <1>2, <2>1 DEF QueueInOrder, InOrder
  <2>4. \A k \in DOMAIN inbox' : \A i \in DOMAIN inbox'[k] : n < inbox'[k][i].n
    BY <1>2, <2>1 DEF QueueInOrder
  <2>5. QED
    BY <2>2, <2>3, <2>4 DEF Past
<1>6. \A n : Past(n) => n < Head(mcp.line).n
  BY <1>2 DEF Past
<1>7. \A n : n = Head(mcp.line).n => ~Past(n)
  BY <1>2, <1>6 DEF Item
<1>8. QED
  BY <1>2, <1>3, <1>4, <1>5, <1>6, <1>7

LEMMA ReplyToReplies ==
    ASSUME NEW s \in Seq(Reply), NEW t \in Seq(Reply), NEW e \in Reply
    PROVE  s \o Append(t, e) = Append(s \o t, e)
BY AppendToConcat

LEMMA RepliesAppend ==
    ASSUME NotifyTypes, mcp.line # <<>>, NEW m, NEW what,
           what \in Says \cup {Notify!Silent},
           m = [mcp EXCEPT !.url = m.url], m.url \in DaemonPorts \cup {Notify!None},
           Notify!Replies(what, m)
    PROVE  /\ mcp' \in ToolStates
           /\ outbox' \in Seq(Reply)
           /\ mcp'.line = Tail(mcp.line) /\ mcp'.call = Notify!NotCalling
           /\ mcp'.line = <<>> => mcp'.replies = <<>>
           /\ Replied \in Seq(Reply) /\ Head(mcp.line) \in Item
           /\ Replied' = IF what = Notify!Silent THEN Replied
                         ELSE Append(Replied, [n |-> Head(mcp.line).n, says |-> what])
<1> DEFINE rest == Tail(mcp.line)
           reply == [n |-> Head(mcp.line).n, says |-> what]
           all == IF what = Notify!Silent THEN mcp.replies ELSE Append(mcp.replies, reply)
<1>1. /\ mcp.line \in Seq(Item) /\ mcp.replies \in Seq(Reply) /\ outbox \in Seq(Reply)
      /\ m.line = mcp.line /\ m.replies = mcp.replies
  BY DEF NotifyTypes, ToolStates, DaemonStates
<1>2. rest \in Seq(Item) /\ Head(mcp.line) \in Item
  BY <1>1, HeadTailProperties
<1>3. what # Notify!Silent => reply \in Reply
  BY <1>2 DEF Reply, Says, Item
<1>4. all \in Seq(Reply)
  BY <1>1, <1>3, AppendProperties
<1>5. /\ mcp' = [m EXCEPT !.line = rest, !.call = Notify!NotCalling,
                          !.replies = IF rest = <<>> THEN <<>> ELSE all]
      /\ outbox' = IF rest = <<>> THEN outbox \o all ELSE outbox
  BY <1>1 DEF Notify!Replies
<1>6. /\ mcp' \in ToolStates
      /\ mcp'.line = rest /\ mcp'.call = Notify!NotCalling
      /\ mcp'.replies = IF rest = <<>> THEN <<>> ELSE all
  <2> HIDE DEF rest, all
  <2>1. <<>> \in Seq(Reply) /\ Notify!NotCalling \in [n : Nat, port : Nat]
    <3>1. <<>> \in Seq(Reply)
      BY EmptySeq
    <3>2. QED
      BY <3>1 DEF Notify!NotCalling, Notify!None
  <2>2. QED
    BY <1>2, <1>4, <1>5, <2>1 DEF NotifyTypes, ToolStates, DaemonStates
<1>7. Replied' = outbox \o all
  <2> HIDE DEF rest, all
  <2>1. CASE rest = <<>>
    <3>1. (outbox \o all) \o <<>> = outbox \o all
      BY <1>1, <1>4, ConcatEmptySeq, ConcatProperties
    <3>2. QED
      BY <1>5, <1>6, <2>1, <3>1 DEF Replied
  <2>2. CASE rest # <<>>
    BY <1>5, <1>6, <2>2 DEF Replied
  <2>3. QED
    BY <2>1, <2>2
<1>8. Replied \in Seq(Reply) /\ outbox' \in Seq(Reply)
  BY <1>1, <1>4, <1>5, ConcatProperties DEF Replied
<1>9. what # Notify!Silent => outbox \o Append(mcp.replies, reply) = Append(Replied, reply)
  <2> HIDE DEF reply, all, rest
  <2>1. \A s, t \in Seq(Reply), e \in Reply : s \o Append(t, e) = Append(s \o t, e)
    BY ReplyToReplies
  <2>2. QED
    BY <1>1, <1>3, <2>1 DEF Replied
<1>10. QED
  BY <1>2, <1>6, <1>7, <1>8, <1>9 DEF Replied

\* The same, for what the tool may say.
LEMMA Replying ==
    ASSUME NotifyTypes, mcp.line # <<>>, NEW url \in DaemonPorts \cup {Notify!None},
           NEW what \in Says \cup {Notify!Silent},
           Notify!Replies(what, [mcp EXCEPT !.url = url])
    PROVE  /\ mcp' \in ToolStates
           /\ outbox' \in Seq(Reply)
           /\ mcp'.line = Tail(mcp.line) /\ mcp'.call = Notify!NotCalling
           /\ mcp'.line = <<>> => mcp'.replies = <<>>
           /\ Replied \in Seq(Reply)
           /\ \E r \in Reply : /\ r.n = Head(mcp.line).n
                               /\ IF what = Notify!Silent
                                  THEN r.says = "result" /\ Replied' = Replied
                                  ELSE r.says = what /\ Replied' = Append(Replied, r)
<1> DEFINE m == [mcp EXCEPT !.url = url]
           says == IF what = Notify!Silent THEN "result" ELSE what
           r == [n |-> Head(mcp.line).n, says |-> says]
<1>1. m.url = url /\ m = [mcp EXCEPT !.url = m.url] /\ Notify!Replies(what, m)
  BY DEF NotifyTypes, ToolStates, DaemonStates
<1> HIDE DEF m
<1>2. /\ mcp' \in ToolStates
      /\ outbox' \in Seq(Reply)
      /\ mcp'.line = Tail(mcp.line) /\ mcp'.call = Notify!NotCalling
      /\ mcp'.line = <<>> => mcp'.replies = <<>>
      /\ Replied \in Seq(Reply) /\ Head(mcp.line) \in Item
      /\ Replied' = IF what = Notify!Silent THEN Replied
                    ELSE Append(Replied, [n |-> Head(mcp.line).n, says |-> what])
  BY <1>1, RepliesAppend
<1>3. r \in Reply /\ r.n = Head(mcp.line).n /\ r.says = says
  BY <1>2 DEF Reply, Says, Item, Notify!Silent
<1>4. CASE what = Notify!Silent
  <2>1. says = "result"
    BY <1>4
  <2> HIDE DEF r
  <2>2. QED
    BY <1>2, <1>3, <1>4, <2>1
<1>5. CASE what # Notify!Silent
  <2>1. says = what
    BY <1>5
  <2>2. Replied' = Append(Replied, r)
    BY <1>2, <1>5, <2>1
  <2> HIDE DEF r
  <2>3. QED
    BY <1>2, <1>3, <1>5, <2>1, <2>2
<1>6. QED
  BY <1>4, <1>5

RepliesInv ==
    /\ \A i, j \in DOMAIN Replied : i < j => Replied[i].n < Replied[j].n
    /\ \A i \in DOMAIN Replied : Past(Replied[i].n)

\* A call under way is about the head of the line.
CallInv ==
    mcp.call = Notify!NotCalling \/ (mcp.line # <<>> /\ mcp.call.n = Head(mcp.line).n)

\* A call that the daemon is still at is the tool's own, or one it gave up on.
PostsInv ==
    /\ \A n \in slow : Past(n)
    /\ \A p \in posts : /\ p.n \in 1 .. items
                        /\ p.n \in slow \/ p.n = mcp.call.n
                        /\ \A i \in DOMAIN Reached : Reached[i] # p.n
    /\ \A p, q \in posts : p.n = q.n => p = q

\* What reached the tray is over and done with, once, and in order but for the late.
ReachedInv ==
    /\ \A i \in DOMAIN Reached : Past(Reached[i])
    /\ \A i, j \in DOMAIN Reached : i < j =>
          Reached[i] # Reached[j] /\ (Reached[i] < Reached[j] \/ Reached[j] \in slow)

\* Nothing waits for a tray that is not there, or only what a quitting one took with it.
TrayInv ==
    /\ daemon.at \in {"off", "headless"} => emitted = <<>>
    /\ daemon.at = "quitting" => \A i \in DOMAIN emitted : emitted[i] \in unlucky

HonestInv ==
    /\ \A i \in DOMAIN Replied : Replied[i].says = "delivered" =>
          Replied[i].n \in unlucky \/ \E j \in DOMAIN Reached : Reached[j] = Replied[i].n
    /\ \A i \in DOMAIN Replied, j \in DOMAIN Reached :
          Replied[i].says \in Bad /\ Replied[i].n = Reached[j] => Reached[j] \in slow \cup unlucky

NotifyInv == /\ NotifyTypes /\ QueueInOrder /\ RepliesInv /\ CallInv /\ PostsInv
             /\ ReachedInv /\ TrayInv /\ HonestInv

LEMMA NotifyBegins == ASSUME Notify!NotifyAssumption, Notify!Init PROVE NotifyInv
<1>1. /\ inbox = <<>> /\ outbox = <<>> /\ posts = {} /\ emitted = <<>> /\ shown = <<>>
      /\ mcp = [line |-> <<>>, replies |-> <<>>, call |-> Notify!NotCalling, url |-> Notify!None]
      /\ wanted \in DaemonPorts /\ daemon = [port |-> wanted, at |-> "off"]
      /\ items = 0 /\ slow = {} /\ unlucky = {}
  BY DEF Notify!Init, Notify!NotifyAssumption
<1>2. /\ inbox \in Seq(Seq(Item)) /\ outbox \in Seq(Reply) /\ emitted \in Seq(Number)
      /\ shown \in Seq(Number) /\ <<>> \in Seq(Item) /\ <<>> \in Seq(Reply)
  BY <1>1, EmptySeq
<1>3. NotifyTypes
  BY <1>1, <1>2 DEF NotifyTypes, ToolStates, DaemonStates, Notify!NotCalling, Notify!None
<1>4. DOMAIN mcp.line = {} /\ DOMAIN inbox = {} /\ Replied = <<>> /\ Reached = <<>>
  BY <1>1 DEF Replied, Reached
<1>5. QED
  BY <1>1, <1>3, <1>4 DEF NotifyInv, QueueInOrder, InOrder, RepliesInv, CallInv, PostsInv,
     ReachedInv, TrayInv, HonestInv

LEMMA RepliesGrow ==
    ASSUME Replied \in Seq(Reply), NEW r \in Reply, Replied' = Append(Replied, r)
    PROVE  /\ DOMAIN Replied \subseteq DOMAIN Replied'
           /\ \A i \in DOMAIN Replied : Replied'[i] = Replied[i]
           /\ \E last \in DOMAIN Replied' :
                 /\ Replied'[last] = r
                 /\ \A i \in DOMAIN Replied' : i \in DOMAIN Replied \/ i = last
                 /\ \A i \in DOMAIN Replied' : ~(last < i)
BY Appended

\* Adding a reply about the head of the line.
LEMMA ReplyKeeps ==
    ASSUME NotifyInv, mcp.line # <<>>, mcp'.line = Tail(mcp.line), UNCHANGED <<inbox, items>>,
           Replied \in Seq(Reply), NEW r \in Reply, r.n = Head(mcp.line).n,
           Replied' = Append(Replied, r)
    PROVE  RepliesInv'
<1>1. /\ \A n : Past(n) => Past(n)'
      /\ \A n : n = Head(mcp.line).n => Past(n)' /\ ~Past(n)
      /\ \A n : Past(n) => n < Head(mcp.line).n
  BY HeadIsAnswered DEF NotifyInv
<1>2. /\ DOMAIN Replied \subseteq DOMAIN Replied'
      /\ \A i \in DOMAIN Replied : Replied'[i] = Replied[i]
  BY RepliesGrow
<1>3. PICK last \in DOMAIN Replied' :
         /\ Replied'[last] = r
         /\ \A i \in DOMAIN Replied' : i \in DOMAIN Replied \/ i = last
         /\ \A i \in DOMAIN Replied' : ~(last < i)
  BY RepliesGrow
<1>4. \A i \in DOMAIN Replied : Past(Replied[i].n)
  BY DEF NotifyInv, RepliesInv
<1>5. ASSUME NEW i \in DOMAIN Replied', NEW n, n = Replied'[i].n PROVE Past(n)'
  BY <1>1, <1>2, <1>3, <1>4, <1>5
<1>6. ASSUME NEW i \in DOMAIN Replied', NEW j \in DOMAIN Replied', i < j
      PROVE  Replied'[i].n < Replied'[j].n
  <2>1. i \in DOMAIN Replied /\ Replied'[i] = Replied[i]
    BY <1>2, <1>3, <1>6
  <2>2. CASE j \in DOMAIN Replied
    BY <1>2, <1>6, <2>1, <2>2 DEF NotifyInv, RepliesInv
  <2>3. CASE j = last
    BY <1>1, <1>3, <1>4, <2>1, <2>3
  <2>4. QED
    BY <1>3, <2>2, <2>3
<1>7. QED
  BY <1>5, <1>6 DEF RepliesInv

\* What a tray that quits takes with it is all that ever leaves the history of a step.
OnlyTheUnluckyLeave ==
    /\ DOMAIN Reached' \subseteq DOMAIN Reached
    /\ \A i \in DOMAIN Reached' : Reached'[i] = Reached[i]
    /\ \A i \in DOMAIN Reached \ DOMAIN Reached' : Reached[i] \in unlucky

\* A step on which nothing is answered and nothing new reaches the tray.
LEMMA QuietKeeps ==
    ASSUME NotifyInv, NotifyTypes', QueueInOrder', \A n : Past(n) => Past(n)', Replied' = Replied,
           OnlyTheUnluckyLeave, slow' = slow, unlucky \subseteq unlucky', posts' \subseteq posts,
           1 .. items \subseteq 1 .. items', mcp'.call.n = mcp.call.n, CallInv', TrayInv'
    PROVE  NotifyInv'
<1>1. RepliesInv'
  <2>1. \A i \in DOMAIN Replied : Past(Replied[i].n)'
    BY DEF NotifyInv, RepliesInv
  <2>2. ASSUME NEW i \in DOMAIN Replied', NEW n, n = Replied'[i].n PROVE Past(n)'
    BY <2>2 DEF NotifyInv, RepliesInv
  <2>3. QED
    BY <2>2 DEF NotifyInv, RepliesInv
<1>2. PostsInv'
  <2>1. \A n \in slow' : Past(n)'
    BY DEF NotifyInv, PostsInv
  <2>2. QED
    BY <2>1 DEF NotifyInv, PostsInv, OnlyTheUnluckyLeave
<1>3. ReachedInv'
  <2>1. ASSUME NEW i \in DOMAIN Reached', NEW n, n = Reached'[i] PROVE Past(n)'
    BY <2>1 DEF NotifyInv, ReachedInv, OnlyTheUnluckyLeave
  <2>2. QED
    BY <2>1 DEF NotifyInv, ReachedInv, OnlyTheUnluckyLeave
<1>4. HonestInv'
  BY DEF NotifyInv, HonestInv, OnlyTheUnluckyLeave
<1>5. QED
  BY <1>1, <1>2, <1>3, <1>4 DEF NotifyInv

\* The head of the line is answered, with nothing, a result, or that it did not get there.
LEMMA AnsweredKeeps ==
    ASSUME NotifyInv, NotifyTypes', mcp.line # <<>>, mcp'.line = Tail(mcp.line),
           mcp'.call = Notify!NotCalling, UNCHANGED <<inbox, items>>,
           Replied \in Seq(Reply), NEW r \in Reply, r.n = Head(mcp.line).n, r.says # "delivered",
           Replied' = Replied \/ Replied' = Append(Replied, r),
           OnlyTheUnluckyLeave, unlucky' = unlucky, slow \subseteq slow',
           \A n \in slow' : n \in slow \/ n = Head(mcp.line).n,
           posts' \subseteq posts, \A p \in posts' : p.n \in slow', TrayInv'
    PROVE  NotifyInv'
<1>1. /\ QueueInOrder' /\ \A n : Past(n) => Past(n)'
      /\ \A n : n = Head(mcp.line).n => Past(n)' /\ ~Past(n)
  BY HeadIsAnswered DEF NotifyInv
<1>2. CallInv'
  BY DEF CallInv
<1>3. RepliesInv'
  <2>1. CASE Replied' = Replied
    <3>1. ASSUME NEW i \in DOMAIN Replied', NEW n, n = Replied'[i].n PROVE Past(n)'
      BY <1>1, <2>1, <3>1 DEF NotifyInv, RepliesInv
    <3>2. QED
      BY <2>1, <3>1 DEF NotifyInv, RepliesInv
  <2>2. CASE Replied' = Append(Replied, r)
    BY <2>2, ReplyKeeps
  <2>3. QED
    BY <2>1, <2>2
<1>4. PostsInv'
  <2>1. \A n \in slow' : Past(n)'
    BY <1>1 DEF NotifyInv, PostsInv
  <2>2. ASSUME NEW p \in posts'
        PROVE  /\ p.n \in 1 .. items' /\ p.n \in slow'
               /\ \A i \in DOMAIN Reached' : Reached'[i] # p.n
    BY <2>2 DEF NotifyInv, PostsInv, OnlyTheUnluckyLeave
  <2>3. \A p, q \in posts' : p.n = q.n => p = q
    BY DEF NotifyInv, PostsInv
  <2>4. QED
    BY <2>1, <2>2, <2>3 DEF PostsInv
<1>5. ReachedInv'
  <2>1. ASSUME NEW i \in DOMAIN Reached', NEW n, n = Reached'[i] PROVE Past(n)'
    BY <1>1, <2>1 DEF NotifyInv, ReachedInv, OnlyTheUnluckyLeave
  <2>2. QED
    BY <2>1 DEF NotifyInv, ReachedInv, OnlyTheUnluckyLeave
<1>6. HonestInv'
  <2>1. CASE Replied' = Replied
    BY <2>1 DEF NotifyInv, HonestInv, OnlyTheUnluckyLeave
  <2>2. CASE Replied' = Append(Replied, r)
    <3>1. \A i \in DOMAIN Replied : i \in DOMAIN Replied' /\ Replied'[i] = Replied[i]
      BY <2>2, RepliesGrow
    <3>2. PICK last \in DOMAIN Replied' :
             /\ Replied'[last] = r
             /\ \A i \in DOMAIN Replied' : i \in DOMAIN Replied \/ i = last
      BY <2>2, RepliesGrow
    <3>3. \A j \in DOMAIN Reached : Reached[j] # r.n
      BY <1>1 DEF NotifyInv, ReachedInv
    <3>4. ASSUME NEW i \in DOMAIN Replied', Replied'[i].says = "delivered"
          PROVE  \/ Replied'[i].n \in unlucky'
                 \/ \E j \in DOMAIN Reached' : Reached'[j] = Replied'[i].n
      BY <3>1, <3>2, <3>4 DEF NotifyInv, HonestInv, OnlyTheUnluckyLeave
    <3>5. ASSUME NEW i \in DOMAIN Replied', NEW j \in DOMAIN Reached', Replied'[i].says \in Bad,
                 Replied'[i].n = Reached'[j]
          PROVE  Reached'[j] \in slow' \cup unlucky'
      BY <3>1, <3>2, <3>3, <3>5 DEF NotifyInv, HonestInv, OnlyTheUnluckyLeave
    <3>6. QED
      BY <3>4, <3>5 DEF HonestInv
  <2>3. QED
    BY <2>1, <2>2
<1>7. QED
  BY <1>1, <1>2, <1>3, <1>4, <1>5, <1>6 DEF NotifyInv

\* A call goes out to the daemon about the head of the line.
LEMMA CallKeeps ==
    ASSUME NotifyInv, NotifyTypes', mcp.line # <<>>, mcp.call = Notify!NotCalling,
           UNCHANGED <<inbox, outbox, emitted, shown, items, slow, unlucky, daemon>>,
           mcp'.line = mcp.line, mcp'.replies = mcp.replies, mcp'.call.n = Head(mcp.line).n,
           posts' = posts \cup {Head(mcp.line)}
    PROVE  NotifyInv'
<1>1. QueueInOrder' /\ \A n : Past(n) <=> Past(n)'
  BY LinesUnchanged DEF NotifyInv, Past
<1>2. Replied' = Replied /\ Reached' = Reached
  BY DEF Replied, Reached
<1>3. /\ Head(mcp.line).n \in 1 .. items
      /\ \A n : Past(n) => n < Head(mcp.line).n
      /\ \A n : Past(n) => n \in Nat
      /\ Head(mcp.line).n \in Nat
  BY HeadTailProperties DEF NotifyInv, NotifyTypes, ToolStates, DaemonStates, QueueInOrder, Past
<1>4. \A n : Past(n) => n # Head(mcp.line).n
  BY <1>3
<1>5. \A p \in posts : p.n \in slow /\ p.n # Head(mcp.line).n
  <2>1. \A p \in posts : p.n # Notify!NotCalling.n
    BY DEF NotifyInv, PostsInv, Notify!NotCalling, Notify!None
  <2>2. QED
    BY <1>4, <2>1 DEF NotifyInv, PostsInv
<1>6. PostsInv'
  <2>1. \A n \in slow' : Past(n)'
    BY <1>1 DEF NotifyInv, PostsInv
  <2>2. \A i \in DOMAIN Reached : Reached[i] # Head(mcp.line).n
    BY <1>4 DEF NotifyInv, ReachedInv
  <2>3. ASSUME NEW p \in posts'
        PROVE  /\ p.n \in 1 .. items'
               /\ p.n \in slow' \/ p.n = mcp'.call.n
               /\ \A i \in DOMAIN Reached' : Reached'[i] # p.n
    BY <1>2, <1>3, <1>5, <2>2 DEF NotifyInv, PostsInv
  <2>4. \A p, q \in posts' : p.n = q.n => p = q
    BY <1>5 DEF NotifyInv, PostsInv
  <2>5. QED
    BY <2>1, <2>3, <2>4 DEF PostsInv
<1>7. RepliesInv'
  <2>1. ASSUME NEW i \in DOMAIN Replied', NEW n, n = Replied'[i].n PROVE Past(n)'
    BY <1>1, <1>2, <2>1 DEF NotifyInv, RepliesInv
  <2>2. QED
    BY <1>2, <2>1 DEF NotifyInv, RepliesInv
<1>8. ReachedInv'
  <2>1. ASSUME NEW i \in DOMAIN Reached', NEW n, n = Reached'[i] PROVE Past(n)'
    BY <1>1, <1>2, <2>1 DEF NotifyInv, ReachedInv
  <2>2. QED
    BY <1>2, <2>1 DEF NotifyInv, ReachedInv
<1>9. HonestInv' /\ TrayInv' /\ CallInv'
  BY <1>2 DEF NotifyInv, HonestInv, TrayInv, CallInv
<1>10. QED
  BY <1>1, <1>6, <1>7, <1>8, <1>9 DEF NotifyInv

LEMMA EmittedGrows ==
    ASSUME emitted \in Seq(Number), NEW n \in Number, emitted' = Append(emitted, n)
    PROVE  \A i \in DOMAIN emitted' :
              (i \in DOMAIN emitted /\ emitted'[i] = emitted[i]) \/ emitted'[i] = n
BY Appended

LEMMA ReachedAppends ==
    ASSUME shown \in Seq(Number), emitted \in Seq(Number), NEW n \in Number, shown' = shown,
           emitted' = Append(emitted, n)
    PROVE  Reached \in Seq(Number) /\ Reached' = Append(Reached, n)
<1>1. Reached \in Seq(Number)
  BY ConcatProperties DEF Reached
<1>2. Reached' = Append(Reached, n)
  BY AppendToConcat DEF Reached
<1>3. QED
  BY <1>1, <1>2

LEMMA ReachedGrows ==
    ASSUME Reached \in Seq(Number), NEW n \in Number, Reached' = Append(Reached, n)
    PROVE  /\ DOMAIN Reached \subseteq DOMAIN Reached'
           /\ \A i \in DOMAIN Reached : Reached'[i] = Reached[i]
           /\ \E last \in DOMAIN Reached' :
                 /\ Reached'[last] = n
                 /\ \A i \in DOMAIN Reached' : i \in DOMAIN Reached \/ i = last
                 /\ \A i \in DOMAIN Reached' : ~(last < i)
BY Appended

LEMMA PostIsNumbered ==
    ASSUME NotifyInv, NEW p \in posts
    PROVE  /\ p \in Item /\ p.n \in Nat /\ p.n \in 1 .. items /\ p.n # Notify!NotCalling.n
           /\ p.n \in Number
<1>1. p \in Item /\ items \in Nat /\ p.n \in 1 .. items
  BY DEF NotifyInv, NotifyTypes, ToolStates, DaemonStates, PostsInv
<1>2. p.n \in Nat /\ p.n > 0
  BY <1>1
<1>3. Notify!NotCalling.n = 0
  BY DEF Notify!NotCalling, Notify!None
<1>4. QED
  BY <1>1, <1>2, <1>3 DEF Number

\* The daemon's answer, in time or after the tool gave up: the message may reach the tray.
LEMMA AnswerKeeps ==
    ASSUME NotifyInv, NotifyTypes', NEW p \in posts, posts' = posts \ {p},
           UNCHANGED <<inbox, items, shown, slow, daemon>>,
           NEW r \in Reply, r.n = p.n, NEW says \in {"delivered", "refused", "no tray"},
           r.says = says, NEW reached \in BOOLEAN,
           says = "delivered" <=> reached, reached => daemon.at \in {"tray", "quitting"},
           emitted' = IF reached THEN Append(emitted, p.n) ELSE emitted,
           unlucky' = IF reached /\ daemon.at = "quitting" THEN unlucky \cup {p.n} ELSE unlucky,
           \/ mcp.call.n # p.n /\ UNCHANGED <<mcp, outbox>>
           \/ /\ mcp.call.n = p.n /\ mcp.line # <<>> /\ mcp'.line = Tail(mcp.line)
              /\ mcp'.call = Notify!NotCalling /\ Replied \in Seq(Reply)
              /\ Replied' = Append(Replied, r)
    PROVE  NotifyInv'
<1> DEFINE own == mcp.call.n = p.n
<1>1. /\ p \in Item /\ p.n \in Nat /\ p.n \in 1 .. items /\ p.n # Notify!NotCalling.n
      /\ p.n \in Number
      /\ own \/ p.n \in slow
      /\ \A i \in DOMAIN Reached : Reached[i] # p.n
  <2>1. /\ p \in Item /\ p.n \in Nat /\ p.n \in 1 .. items /\ p.n # Notify!NotCalling.n
        /\ p.n \in Number
    BY PostIsNumbered
  <2>4. (own \/ p.n \in slow) /\ \A i \in DOMAIN Reached : Reached[i] # p.n
    BY DEF NotifyInv, PostsInv
  <2>5. QED
    BY <2>1, <2>4
<1>2. own => mcp.line # <<>> /\ p.n = Head(mcp.line).n
  BY <1>1 DEF NotifyInv, CallInv
<1>3. QueueInOrder' /\ \A n : Past(n) => Past(n)'
  <2>1. CASE own
    BY <2>1, HeadIsAnswered DEF NotifyInv
  <2>2. CASE ~own
    BY <2>2, LinesUnchanged DEF NotifyInv
  <2>3. QED
    BY <2>1, <2>2
<1>4. /\ \A n : n = p.n => Past(n)'
      /\ own => \A n : Past(n) => n < p.n
      /\ own => \A n : Past(n) => n # p.n
  <2>1. CASE own
    BY <1>1, <1>2, <2>1, HeadIsAnswered DEF NotifyInv
  <2>2. CASE ~own
    BY <1>1, <1>3, <2>2 DEF NotifyInv, PostsInv
  <2>3. QED
    BY <2>1, <2>2
<1>5. CallInv'
  BY <1>2 DEF NotifyInv, CallInv
<1>6. RepliesInv'
  <2>1. CASE own
    <3>1. r.n = Head(mcp.line).n /\ Replied' = Append(Replied, r)
      BY <1>2, <2>1
    <3>2. QED
      BY <1>2, <2>1, <3>1, ReplyKeeps
  <2>2. CASE ~own
    <3>1. Replied' = Replied
      BY <2>2 DEF Replied
    <3>2. ASSUME NEW i \in DOMAIN Replied', NEW n, n = Replied'[i].n PROVE Past(n)'
      BY <1>3, <3>1, <3>2 DEF NotifyInv, RepliesInv
    <3>3. QED
      BY <3>1, <3>2 DEF NotifyInv, RepliesInv
  <2>3. QED
    BY <2>1, <2>2
<1>7. /\ DOMAIN Reached \subseteq DOMAIN Reached'
      /\ \A i \in DOMAIN Reached : Reached'[i] = Reached[i]
      /\ \A i \in DOMAIN Reached' : i \in DOMAIN Reached \/ (reached /\ Reached'[i] = p.n)
      /\ \A i, j \in DOMAIN Reached' : i < j => i \in DOMAIN Reached
      /\ reached => \E j \in DOMAIN Reached' : Reached'[j] = p.n
  <2>1. CASE reached
    <3>1. /\ shown \in Seq(Number) /\ emitted \in Seq(Number) /\ emitted' = Append(emitted, p.n)
          /\ p.n \in Number
      BY <1>1, <2>1 DEF NotifyInv, NotifyTypes, ToolStates, DaemonStates
    <3> Reached \in Seq(Number) /\ Reached' = Append(Reached, p.n)
      BY <3>1, ReachedAppends
    <3>2. /\ DOMAIN Reached \subseteq DOMAIN Reached'
          /\ \A i \in DOMAIN Reached : Reached'[i] = Reached[i]
      BY <3>1, ReachedGrows
    <3>3. PICK last \in DOMAIN Reached' :
                 /\ Reached'[last] = p.n
                 /\ \A i \in DOMAIN Reached' : i \in DOMAIN Reached \/ i = last
                 /\ \A i \in DOMAIN Reached' : ~(last < i)
      BY <3>1, ReachedGrows
    <3>4. QED
      BY <2>1, <3>2, <3>3
  <2>2. CASE ~reached
    <3>1. Reached' = Reached
      BY <2>2 DEF Reached
    <3>2. QED
      BY <2>2, <3>1
  <2>3. QED
    BY <2>1, <2>2
<1>8. PostsInv'
  <2>1. \A n \in slow' : Past(n)'
    BY <1>3 DEF NotifyInv, PostsInv
  <2>2. ASSUME NEW q \in posts'
        PROVE  /\ q.n \in 1 .. items' /\ q.n # p.n
               /\ q.n \in slow' \/ q.n = mcp'.call.n
               /\ \A i \in DOMAIN Reached' : Reached'[i] # q.n
    <3>1. q \in posts /\ q.n # p.n
      BY <2>2 DEF NotifyInv, PostsInv
    <3>2. q.n \in 1 .. items' /\ \A i \in DOMAIN Reached' : Reached'[i] # q.n
      BY <1>7, <3>1 DEF NotifyInv, PostsInv
    <3>3. q.n \in slow' \/ q.n = mcp'.call.n
      BY <3>1 DEF NotifyInv, PostsInv
    <3>4. QED
      BY <3>1, <3>2, <3>3
  <2>3. \A x, y \in posts' : x.n = y.n => x = y
    BY DEF NotifyInv, PostsInv
  <2>4. QED
    BY <2>1, <2>2, <2>3 DEF PostsInv
<1>9. ReachedInv'
  <2>1. ASSUME NEW i \in DOMAIN Reached', NEW n, n = Reached'[i] PROVE Past(n)'
    BY <1>3, <1>4, <1>7, <2>1 DEF NotifyInv, ReachedInv
  <2>2. ASSUME NEW i \in DOMAIN Reached', NEW j \in DOMAIN Reached', i < j
        PROVE  Reached'[i] # Reached'[j] /\ (Reached'[i] < Reached'[j] \/ Reached'[j] \in slow')
    <3>1. i \in DOMAIN Reached /\ Reached'[i] = Reached[i]
      BY <1>7, <2>2
    <3>2. CASE j \in DOMAIN Reached
      BY <1>7, <2>2, <3>1, <3>2 DEF NotifyInv, ReachedInv
    <3>3. CASE Reached'[j] = p.n
      <4>1. Past(Reached[i])
        BY <3>1 DEF NotifyInv, ReachedInv
      <4>2. QED
        BY <1>1, <1>4, <3>1, <3>3, <4>1
    <3>4. QED
      BY <1>7, <3>2, <3>3
  <2>3. QED
    BY <2>1, <2>2 DEF ReachedInv
<1>10. TrayInv'
  <2>1. CASE reached
    <3>1. emitted \in Seq(Number) /\ emitted' = Append(emitted, p.n) /\ p.n \in Number
      BY <1>1, <2>1 DEF NotifyInv, NotifyTypes, ToolStates, DaemonStates
    <3>2. \A i \in DOMAIN emitted' :
             (i \in DOMAIN emitted /\ emitted'[i] = emitted[i]) \/ emitted'[i] = p.n
      BY <3>1, EmittedGrows
    <3>3. QED
      BY <2>1, <3>2 DEF NotifyInv, TrayInv
  <2>2. CASE ~reached
    BY <2>2 DEF NotifyInv, TrayInv
  <2>3. QED
    BY <2>1, <2>2
<1>11. HonestInv'
  <2>1. \A i \in DOMAIN Replied' :
           \/ i \in DOMAIN Replied /\ Replied'[i] = Replied[i]
           \/ own /\ Replied'[i].n = p.n /\ Replied'[i].says = says
    <3>1. CASE own
      BY <3>1, RepliesGrow
    <3>2. CASE ~own
      BY <3>2 DEF Replied
    <3>3. QED
      BY <3>1, <3>2
  <2>2. ASSUME NEW i \in DOMAIN Replied', Replied'[i].says = "delivered"
        PROVE  Replied'[i].n \in unlucky' \/ \E j \in DOMAIN Reached' : Reached'[j] = Replied'[i].n
    <3>1. CASE i \in DOMAIN Replied /\ Replied'[i] = Replied[i]
      BY <1>7, <2>2, <3>1 DEF NotifyInv, HonestInv
    <3>2. CASE Replied'[i].n = p.n /\ Replied'[i].says = says
      BY <1>7, <2>2, <3>2
    <3>3. QED
      BY <2>1, <3>1, <3>2
  <2>3. ASSUME NEW i \in DOMAIN Replied', NEW j \in DOMAIN Reached', Replied'[i].says \in Bad,
               Replied'[i].n = Reached'[j]
        PROVE  Reached'[j] \in slow' \cup unlucky'
    <3>1. CASE /\ i \in DOMAIN Replied /\ Replied'[i] = Replied[i]
               /\ j \in DOMAIN Reached
      BY <1>7, <2>3, <3>1 DEF NotifyInv, HonestInv
    <3>2. CASE i \in DOMAIN Replied /\ Replied'[i] = Replied[i] /\ Reached'[j] = p.n
      <4>1. Past(Replied[i].n)
        BY <3>2 DEF NotifyInv, RepliesInv
      <4>2. QED
        BY <1>1, <1>4, <2>3, <3>2, <4>1
    <3>3. CASE own /\ Replied'[i].n = p.n /\ Replied'[i].says = says
      <4>1. ~reached
        BY <2>3, <3>3 DEF Bad
      <4>2. QED
        BY <1>1, <1>7, <2>3, <3>3, <4>1
    <3>4. QED
      BY <1>7, <2>1, <3>1, <3>2, <3>3
  <2>4. QED
    BY <2>2, <2>3 DEF HonestInv
<1>12. QED
  BY <1>3, <1>5, <1>6, <1>8, <1>9, <1>10, <1>11 DEF NotifyInv

\* Between two questions the only calls the daemon is at are those the tool gave up on.
LEMMA ThoseGivenUpOn ==
    ASSUME NotifyInv, mcp.call = Notify!NotCalling
    PROVE  \A p \in posts : p.n \in slow
<1>1. \A p \in posts : p.n # mcp.call.n
  BY PostIsNumbered
<1>2. QED
  BY <1>1 DEF NotifyInv, PostsInv

LEMMA ShowsFirst ==
    ASSUME shown \in Seq(Number), emitted \in Seq(Number), emitted # <<>>,
           shown' = Append(shown, Head(emitted)), emitted' = Tail(emitted)
    PROVE  shown' \in Seq(Number) /\ emitted' \in Seq(Number) /\ Reached' = Reached
<1> DEFINE first == Head(emitted)
           rest == Tail(emitted)
<1>1. first \in Number /\ rest \in Seq(Number) /\ emitted = <<first>> \o rest
  BY HeadTailProperties
<1>2. <<first>> \in Seq(Number) /\ shown' \in Seq(Number) /\ shown' = shown \o <<first>>
  BY <1>1, AppendProperties, AppendIsConcat
<1> HIDE DEF first, rest
<1>3. (shown \o <<first>>) \o rest = shown \o (<<first>> \o rest)
  BY <1>1, <1>2, ConcatAssociative
<1>4. emitted' = rest
  BY DEF rest
<1>5. QED
  BY <1>1, <1>2, <1>3, <1>4 DEF Reached

LEMMA ShownComesFirst ==
    ASSUME shown \in Seq(Number), emitted \in Seq(Number)
    PROVE  /\ DOMAIN shown \subseteq DOMAIN Reached
           /\ \A i \in DOMAIN shown : Reached[i] = shown[i]
           /\ \A i \in DOMAIN Reached \ DOMAIN shown :
                 \E j \in DOMAIN emitted : Reached[i] = emitted[j]
<1>1. /\ Len(shown) \in Nat /\ Len(emitted) \in Nat
      /\ DOMAIN shown = 1 .. Len(shown) /\ DOMAIN emitted = 1 .. Len(emitted)
  OBVIOUS
<1>2. /\ Len(Reached) = Len(shown) + Len(emitted) /\ DOMAIN Reached = 1 .. Len(Reached)
      /\ \A i \in 1 .. Len(Reached) :
            Reached[i] = IF i <= Len(shown) THEN shown[i] ELSE emitted[i - Len(shown)]
  BY ConcatProperties DEF Reached
<1>3. \A i \in DOMAIN Reached \ DOMAIN shown :
         i - Len(shown) \in DOMAIN emitted /\ Reached[i] = emitted[i - Len(shown)]
  BY <1>1, <1>2
<1>4. QED
  BY <1>1, <1>2, <1>3

LEMMA NotifyFacts ==
    ASSUME NotifyInv
    PROVE  /\ NotifyTypes /\ QueueInOrder /\ items \in Nat /\ 1 .. items \subseteq 1 .. items
           /\ mcp.url \in DaemonPorts \cup {Notify!None} /\ CallInv /\ TrayInv
           /\ shown \in Seq(Number) /\ emitted \in Seq(Number) /\ outbox \in Seq(Reply)
BY DEF NotifyInv, NotifyTypes, ToolStates, DaemonStates

LEMMA SameReached == ASSUME Reached' = Reached PROVE OnlyTheUnluckyLeave
BY DEF OnlyTheUnluckyLeave

LEMMA SendsKeeps ==
    ASSUME Notify!NotifyAssumption, NotifyInv, NEW b \in Batches, Notify!Sends(b)
    PROVE  NotifyInv'
<1>1. /\ inbox' \in Seq(Seq(Item)) /\ items' \in Nat /\ QueueInOrder'
      /\ \A n : Past(n) => Past(n)'
  BY NotifyFacts, SendsLine
<1>2. /\ UNCHANGED <<outbox, mcp, posts, wanted, daemon, emitted, shown, slow, unlucky>>
      /\ items' = items + Len(b)
  BY DEF Notify!Sends
<1>3. 1 .. items \subseteq 1 .. items'
  <2>1. PICK k \in 1 .. 2 : b \in [1 .. k -> Notify!Kinds]
    BY DEF Notify!NotifyAssumption
  <2>2. items \in Nat /\ items' = items + k
    BY NotifyFacts, <1>2, <2>1
  <2>3. QED
    BY <2>2
<1>4. NotifyTypes'
  BY <1>1, <1>2 DEF NotifyInv, NotifyTypes, ToolStates, DaemonStates
<1>5. Replied' = Replied /\ Reached' = Reached /\ CallInv' /\ TrayInv'
  BY NotifyFacts, <1>2 DEF Replied, Reached, CallInv, TrayInv
<1>6. QED
  BY <1>1, <1>2, <1>3, <1>4, <1>5, SameReached, QuietKeeps

LEMMA ReadsKeeps == ASSUME NotifyInv, Notify!Reads PROVE NotifyInv'
<1>1. /\ inbox' \in Seq(Seq(Item)) /\ mcp'.line \in Seq(Item) /\ mcp'.replies = <<>>
      /\ mcp'.call = mcp.call /\ mcp' = [mcp EXCEPT !.line = mcp'.line, !.replies = <<>>]
      /\ QueueInOrder' /\ \A n : Past(n) => Past(n)'
  BY NotifyFacts, ReadsLine
<1>2. /\ UNCHANGED <<outbox, posts, wanted, daemon, emitted, shown, items, slow, unlucky>>
      /\ mcp.line = <<>> /\ mcp.replies = <<>> /\ mcp.call = Notify!NotCalling
  BY NotifyFacts DEF Notify!Reads, NotifyTypes, ToolStates, DaemonStates
<1>3. NotifyTypes'
  <2>1. <<>> \in Seq(Reply)
    BY EmptySeq
  <2>2. mcp' \in ToolStates
    BY NotifyFacts, <1>1, <2>1 DEF NotifyTypes, ToolStates, DaemonStates
  <2>3. QED
    BY NotifyFacts, <1>1, <1>2, <2>2 DEF NotifyTypes, ToolStates, DaemonStates
<1>4. Replied' = Replied /\ Reached' = Reached /\ CallInv' /\ TrayInv'
  BY NotifyFacts, <1>1, <1>2 DEF Replied, Reached, CallInv, TrayInv
<1>5. QED
  BY NotifyFacts, <1>1, <1>2, <1>3, <1>4, SameReached, QuietKeeps

\* The tool says something of the head of the line, and the daemon has no part in it.
LEMMA SaysKeeps ==
    ASSUME NotifyInv, mcp.line # <<>>, NEW url \in DaemonPorts \cup {Notify!None},
           NEW what \in {"result", "error", "not running", Notify!Silent},
           Notify!Replies(what, [mcp EXCEPT !.url = url]),
           UNCHANGED <<inbox, posts, wanted, daemon, emitted, shown, items, unlucky>>,
           \/ slow' = slow /\ mcp.call = Notify!NotCalling
           \/ slow' = slow \cup {mcp.call.n} /\ mcp.call # Notify!NotCalling
    PROVE  NotifyInv'
<1>1. /\ mcp' \in ToolStates
      /\ outbox' \in Seq(Reply)
      /\ mcp'.line = Tail(mcp.line) /\ mcp'.call = Notify!NotCalling
      /\ mcp'.line = <<>> => mcp'.replies = <<>>
      /\ Replied \in Seq(Reply)
  BY NotifyFacts, Replying DEF Says
<1>2. PICK r \in Reply : /\ r.n = Head(mcp.line).n
                         /\ IF what = Notify!Silent
                            THEN r.says = "result" /\ Replied' = Replied
                            ELSE r.says = what /\ Replied' = Append(Replied, r)
  BY NotifyFacts, Replying DEF Says
<1>3. r.says # "delivered" /\ (Replied' = Replied \/ Replied' = Append(Replied, r))
  BY <1>2 DEF Notify!Silent
<1>4. NotifyTypes'
  BY NotifyFacts, <1>1 DEF NotifyTypes, ToolStates, DaemonStates
<1>5. Reached' = Reached /\ TrayInv'
  BY NotifyFacts DEF Reached, TrayInv
<1>6. /\ slow \subseteq slow' /\ \A n \in slow' : n \in slow \/ n = Head(mcp.line).n
      /\ \A p \in posts' : p.n \in slow'
  <2>1. CASE slow' = slow /\ mcp.call = Notify!NotCalling
    BY <2>1, ThoseGivenUpOn
  <2>2. CASE slow' = slow \cup {mcp.call.n} /\ mcp.call # Notify!NotCalling
    BY <2>2 DEF NotifyInv, PostsInv, CallInv
  <2>3. QED
    BY <2>1, <2>2
<1>7. UNCHANGED <<inbox, items>> /\ unlucky' = unlucky /\ posts' \subseteq posts
  OBVIOUS
<1>8. QED
  BY <1>1, <1>2, <1>3, <1>4, <1>5, <1>6, <1>7, SameReached, AnsweredKeeps

LEMMA HandlesKeeps == ASSUME NotifyInv, Notify!Handles PROVE NotifyInv'
<1> DEFINE kind == Head(mcp.line).kind
           what == IF kind = Notify!Silent THEN Notify!Silent
                   ELSE IF kind = "ping" THEN "result" ELSE "error"
<1>1. /\ UNCHANGED <<inbox, posts, wanted, daemon, emitted, shown, items, slow, unlucky>>
      /\ mcp.line # <<>> /\ mcp.call = Notify!NotCalling /\ Notify!Replies(what, mcp)
  BY DEF Notify!Handles
<1>2. what \in {"result", "error", "not running", Notify!Silent}
  OBVIOUS
<1> HIDE DEF what
<1>3. mcp = [mcp EXCEPT !.url = mcp.url] /\ mcp.url \in DaemonPorts \cup {Notify!None}
  BY NotifyFacts DEF NotifyTypes, ToolStates, DaemonStates
<1>4. Notify!Replies(what, [mcp EXCEPT !.url = mcp.url])
  BY <1>1, <1>3
<1>5. QED
  BY <1>1, <1>2, <1>3, <1>4, SaysKeeps

LEMMA TimesOutKeeps == ASSUME NotifyInv, Notify!TimesOut PROVE NotifyInv'
<1>1. /\ UNCHANGED <<inbox, posts, wanted, daemon, emitted, shown, items, unlucky>>
      /\ mcp.call # Notify!NotCalling /\ Notify!Replies("not running", mcp)
      /\ slow' = slow \cup {mcp.call.n}
  BY DEF Notify!TimesOut
<1>2. mcp = [mcp EXCEPT !.url = mcp.url] /\ mcp.url \in DaemonPorts \cup {Notify!None}
  BY NotifyFacts DEF NotifyTypes, ToolStates, DaemonStates
<1>3. Notify!Replies("not running", [mcp EXCEPT !.url = mcp.url]) /\ mcp.line # <<>>
  BY NotifyFacts, <1>1, <1>2 DEF CallInv
<1>4. QED
  BY <1>1, <1>2, <1>3, SaysKeeps

LEMMA CallsKeeps == ASSUME Notify!NotifyAssumption, NotifyInv, Notify!Calls PROVE NotifyInv'
<1> DEFINE port == IF mcp.url = Notify!None THEN wanted ELSE mcp.url
           item == Head(mcp.line)
<1>1. /\ mcp.line # <<>> /\ mcp.call = Notify!NotCalling
      /\ UNCHANGED <<inbox, wanted, daemon, emitted, shown, items, slow, unlucky>>
  BY DEF Notify!Calls
<1>2. \/ /\ mcp' = [mcp EXCEPT !.url = port, !.call = [n |-> item.n, port |-> port]]
         /\ posts' = posts \cup {item} /\ outbox' = outbox
      \/ Notify!Replies("not running", [mcp EXCEPT !.url = port]) /\ posts' = posts
  BY DEF Notify!Calls
<1>3. port \in DaemonPorts \cup {Notify!None} /\ item \in Item
  BY NotifyFacts, <1>1, HeadTailProperties DEF NotifyTypes, ToolStates, DaemonStates
<1> HIDE DEF port
<1>4. CASE /\ mcp' = [mcp EXCEPT !.url = port, !.call = [n |-> item.n, port |-> port]]
           /\ posts' = posts \cup {item} /\ outbox' = outbox
  <2>1. port \in Nat
    BY <1>3 DEF Notify!NotifyAssumption, Notify!None
  <2>2. [n |-> item.n, port |-> port] \in [n : Nat, port : Nat]
    BY <1>3, <2>1 DEF Item
  <2>3. /\ mcp'.line = mcp.line /\ mcp'.replies = mcp.replies /\ mcp'.call.n = item.n
        /\ mcp' \in ToolStates
    BY NotifyFacts, <1>3, <1>4, <2>2 DEF NotifyTypes, ToolStates, DaemonStates
  <2>4. NotifyTypes'
    BY NotifyFacts, <1>1, <1>3, <1>4, <2>3 DEF NotifyTypes, ToolStates, DaemonStates
  <2>5. QED
    BY <1>1, <1>4, <2>3, <2>4, CallKeeps
<1>5. CASE Notify!Replies("not running", [mcp EXCEPT !.url = port]) /\ posts' = posts
  BY <1>1, <1>3, <1>5, SaysKeeps
<1>6. QED
  BY <1>2, <1>4, <1>5

LEMMA AnswersKeeps == ASSUME NotifyInv, NEW p \in posts, Notify!Answers(p) PROVE NotifyInv'
<1> DEFINE reached == Notify!Notified(p)
           says == IF p.kind = "blank" THEN "refused"
                   ELSE IF reached THEN "delivered" ELSE "no tray"
<1>1. /\ UNCHANGED <<inbox, wanted, daemon, shown, items, slow>> /\ posts' = posts \ {p}
      /\ emitted' = IF reached THEN Append(emitted, p.n) ELSE emitted
      /\ unlucky' = IF reached /\ daemon.at = "quitting" THEN unlucky \cup {p.n} ELSE unlucky
      /\ IF mcp.call.n = p.n THEN Notify!Replies(says, mcp) ELSE UNCHANGED <<mcp, outbox>>
  BY DEF Notify!Answers
<1>2. /\ reached \in BOOLEAN /\ says \in {"delivered", "refused", "no tray"}
      /\ says = "delivered" <=> reached
      /\ reached => daemon.at \in {"tray", "quitting"}
  BY DEF Notify!Notified
<1> HIDE DEF reached, says
<1>3. p.n \in Number /\ p.n \in Nat /\ p.n # Notify!NotCalling.n
  BY PostIsNumbered
<1>4. emitted' \in Seq(Number)
  BY NotifyFacts, <1>1, <1>3, AppendProperties
<1>5. CASE mcp.call.n = p.n
  <2>1. mcp.line # <<>> /\ Head(mcp.line).n = p.n
    BY NotifyFacts, <1>3, <1>5 DEF CallInv
  <2>2. mcp = [mcp EXCEPT !.url = mcp.url] /\ mcp.url \in DaemonPorts \cup {Notify!None}
    BY NotifyFacts DEF NotifyTypes, ToolStates, DaemonStates
  <2>3. Notify!Replies(says, [mcp EXCEPT !.url = mcp.url])
    BY <1>1, <1>5, <2>2
  <2>4. says \in Says \cup {Notify!Silent} /\ says # Notify!Silent
    BY <1>2 DEF Notify!Silent, Says
  <2>5. /\ mcp' \in ToolStates
        /\ outbox' \in Seq(Reply)
        /\ mcp'.line = Tail(mcp.line) /\ mcp'.call = Notify!NotCalling
        /\ mcp'.line = <<>> => mcp'.replies = <<>>
        /\ Replied \in Seq(Reply)
    BY NotifyFacts, <2>1, <2>2, <2>3, <2>4, Replying
  <2>6. PICK r \in Reply : r.n = p.n /\ r.says = says /\ Replied' = Append(Replied, r)
    <3>1. PICK r \in Reply : /\ r.n = Head(mcp.line).n
                             /\ IF says = Notify!Silent
                                THEN r.says = "result" /\ Replied' = Replied
                                ELSE r.says = says /\ Replied' = Append(Replied, r)
      BY NotifyFacts, <2>1, <2>2, <2>3, <2>4, Replying
    <3>2. r.n = p.n /\ r.says = says /\ Replied' = Append(Replied, r)
      BY <2>1, <2>4, <3>1
    <3>3. QED
      BY <3>2
  <2>7. NotifyTypes'
    BY NotifyFacts, <1>1, <1>4, <2>5 DEF NotifyTypes, ToolStates, DaemonStates
  <2>8. QED
    BY <1>1, <1>2, <1>5, <2>1, <2>5, <2>6, <2>7, AnswerKeeps
<1>6. CASE mcp.call.n # p.n
  <2>1. mcp' = mcp /\ outbox' = outbox
    BY <1>1, <1>6
  <2>2. NotifyTypes'
    BY NotifyFacts, <1>1, <1>4, <2>1 DEF NotifyTypes, ToolStates, DaemonStates
  <2>3. PICK r \in Reply : r.n = p.n /\ r.says = says
    <3>1. [n |-> p.n, says |-> says] \in Reply
      BY <1>2, <1>3 DEF Reply, Says
    <3>2. QED
      BY <3>1
  <2>4. QED
    BY <1>1, <1>2, <1>6, <2>1, <2>2, <2>3, AnswerKeeps
<1>7. QED
  BY <1>5, <1>6

\* The tray's own steps: nothing of the line changes.
LEMMA LineStays ==
    ASSUME NotifyInv, UNCHANGED <<inbox, outbox, mcp, items, slow>>, posts' \subseteq posts,
           unlucky \subseteq unlucky', emitted' \in Seq(Number), shown' \in Seq(Number),
           wanted' \in DaemonPorts,
           daemon' \in DaemonStates,
           OnlyTheUnluckyLeave, TrayInv'
    PROVE  NotifyInv'
<1>1. QueueInOrder' /\ \A n : Past(n) => Past(n)'
  BY NotifyFacts, LinesUnchanged
<1>2. NotifyTypes' /\ CallInv' /\ Replied' = Replied
  BY NotifyFacts DEF NotifyTypes, ToolStates, DaemonStates, CallInv, Replied
<1>3. QED
  BY NotifyFacts, <1>1, <1>2, QuietKeeps

LEMMA ShowsKeeps == ASSUME NotifyInv, Notify!Shows PROVE NotifyInv'
<1>1. /\ daemon.at = "tray" /\ emitted # <<>>
      /\ shown' = Append(shown, Head(emitted)) /\ emitted' = Tail(emitted)
      /\ UNCHANGED <<inbox, outbox, mcp, posts, wanted, daemon, items, slow, unlucky>>
  BY DEF Notify!Shows
<1>2. shown' \in Seq(Number) /\ emitted' \in Seq(Number) /\ Reached' = Reached
  BY NotifyFacts, <1>1, ShowsFirst
<1>3. TrayInv'
  BY <1>1 DEF TrayInv
<1>4. wanted' \in DaemonPorts /\ daemon' \in DaemonStates
  BY NotifyFacts, <1>1 DEF NotifyTypes, ToolStates, DaemonStates
<1>5. QED
  BY <1>1, <1>2, <1>3, <1>4, SameReached, LineStays

LEMMA StartsKeeps == ASSUME NotifyInv, Notify!Starts \/ Notify!TrayComes PROVE NotifyInv'
<1>1. /\ UNCHANGED <<inbox, outbox, mcp, posts, wanted, emitted, shown, items, slow, unlucky>>
      /\ daemon.at \in {"off", "headless"} /\ daemon'.at \in {"headless", "tray"}
      /\ daemon' \in DaemonStates
  <2>1. CASE Notify!Starts
    BY NotifyFacts, <2>1 DEF Notify!Starts, NotifyTypes, ToolStates, DaemonStates
  <2>2. CASE Notify!TrayComes
    BY NotifyFacts, <2>2 DEF Notify!TrayComes, NotifyTypes, ToolStates, DaemonStates
  <2>3. QED
    BY <2>1, <2>2
<1>2. Reached' = Reached /\ TrayInv' /\ wanted' \in DaemonPorts
  BY NotifyFacts, <1>1 DEF Reached, TrayInv, NotifyTypes, ToolStates, DaemonStates
<1>3. QED
  BY NotifyFacts, <1>1, <1>2, SameReached, LineStays

LEMMA QuitsKeeps == ASSUME NotifyInv, Notify!Quits PROVE NotifyInv'
<1>1. /\ UNCHANGED <<inbox, outbox, mcp, posts, wanted, emitted, shown, items, slow>>
      /\ daemon'.at = "quitting" /\ unlucky' = unlucky \cup Notify!Range(emitted)
      /\ daemon' \in DaemonStates
  BY NotifyFacts DEF Notify!Quits, NotifyTypes, ToolStates, DaemonStates
<1>2. Reached' = Reached /\ wanted' \in DaemonPorts
  BY NotifyFacts, <1>1 DEF Reached, NotifyTypes, ToolStates, DaemonStates
<1>3. TrayInv'
  BY <1>1 DEF TrayInv, Notify!Range
<1>4. QED
  BY NotifyFacts, <1>1, <1>2, <1>3, SameReached, LineStays

LEMMA MovesKeeps == ASSUME NotifyInv, NEW q \in DaemonPorts, Notify!Moves(q) PROVE NotifyInv'
<1>1. /\ UNCHANGED <<inbox, outbox, mcp, posts, daemon, emitted, shown, items, slow, unlucky>>
      /\ wanted' = q
  BY DEF Notify!Moves
<1>2. Reached' = Reached /\ TrayInv'
  BY NotifyFacts, <1>1 DEF Reached, TrayInv
<1>3. daemon' \in DaemonStates
  BY NotifyFacts, <1>1 DEF NotifyTypes, ToolStates, DaemonStates
<1>4. QED
  BY NotifyFacts, <1>1, <1>2, <1>3, SameReached, LineStays

LEMMA ExitsKeeps == ASSUME NotifyInv, Notify!Exits PROVE NotifyInv'
<1>1. /\ daemon.at \in {"headless", "quitting"} /\ daemon' = [daemon EXCEPT !.at = "off"]
      /\ posts' = {} /\ emitted' = <<>>
      /\ IF mcp.call # Notify!NotCalling THEN Notify!Replies("not running", mcp)
         ELSE UNCHANGED <<mcp, outbox>>
      /\ UNCHANGED <<inbox, wanted, shown, items, slow, unlucky>>
  BY DEF Notify!Exits
<1>2. /\ emitted' \in Seq(Number) /\ shown' \in Seq(Number) /\ wanted' \in DaemonPorts
      /\ daemon' \in DaemonStates
  BY NotifyFacts, <1>1, EmptySeq DEF NotifyTypes, ToolStates, DaemonStates
<1>3. OnlyTheUnluckyLeave
  <2>1. Reached' = shown
    BY NotifyFacts, <1>1, ConcatEmptySeq DEF Reached
  <2>2. \A i \in DOMAIN emitted : emitted[i] \in unlucky
    <3>1. CASE daemon.at = "headless"
      <4>1. emitted = <<>>
        BY NotifyFacts, <3>1 DEF TrayInv
      <4>2. QED
        BY <4>1
    <3>2. CASE daemon.at = "quitting"
      BY NotifyFacts, <3>2 DEF TrayInv
    <3>3. QED
      BY <1>1, <3>1, <3>2
  <2>3. QED
    BY NotifyFacts, <2>1, <2>2, ShownComesFirst DEF OnlyTheUnluckyLeave
<1>4. TrayInv'
  BY NotifyFacts, <1>1 DEF TrayInv, NotifyTypes, ToolStates, DaemonStates
<1>5. CASE mcp.call # Notify!NotCalling
  <2>1. mcp = [mcp EXCEPT !.url = mcp.url] /\ mcp.url \in DaemonPorts \cup {Notify!None}
    BY NotifyFacts DEF NotifyTypes, ToolStates, DaemonStates
  <2>2. Notify!Replies("not running", [mcp EXCEPT !.url = mcp.url]) /\ mcp.line # <<>>
    BY NotifyFacts, <1>1, <1>5, <2>1 DEF CallInv
  <2>3. "not running" \in Says \cup {Notify!Silent} /\ "not running" # Notify!Silent
    BY DEF Notify!Silent, Says
  <2>4. /\ mcp' \in ToolStates
        /\ outbox' \in Seq(Reply)
        /\ mcp'.line = Tail(mcp.line) /\ mcp'.call = Notify!NotCalling
        /\ mcp'.line = <<>> => mcp'.replies = <<>>
        /\ Replied \in Seq(Reply)
    BY NotifyFacts, <2>1, <2>2, <2>3, Replying
  <2>5. PICK r \in Reply : /\ r.n = Head(mcp.line).n /\ r.says = "not running"
                           /\ Replied' = Append(Replied, r)
    BY NotifyFacts, <2>1, <2>2, <2>3, Replying
  <2>6. NotifyTypes'
    BY NotifyFacts, <1>1, <1>2, <2>4 DEF NotifyTypes, ToolStates, DaemonStates
  <2>7. /\ unlucky' = unlucky /\ slow' = slow /\ posts' \subseteq posts /\ UNCHANGED <<inbox, items>>
        /\ \A q \in posts' : q.n \in slow'
        /\ r.says # "delivered"
    BY <1>1, <2>5
  <2>8. QED
    BY <1>3, <1>4, <2>2, <2>4, <2>5, <2>6, <2>7, AnsweredKeeps
<1>6. CASE mcp.call = Notify!NotCalling
  BY <1>1, <1>2, <1>3, <1>4, <1>6, LineStays
<1>7. QED
  BY <1>5, <1>6

LEMMA NotifyKeeps == ASSUME Notify!NotifyAssumption, NotifyInv, Notify!Next PROVE NotifyInv'
BY SendsKeeps, ReadsKeeps, HandlesKeeps, CallsKeeps, TimesOutKeeps, AnswersKeeps, ShowsKeeps,
   StartsKeeps, QuitsKeeps, ExitsKeeps, MovesKeeps DEF Notify!Next

LEMMA NotifyStays == ASSUME NotifyInv, UNCHANGED notifyVars PROVE NotifyInv'
<1>1. UNCHANGED <<inbox, outbox, mcp, posts, wanted, daemon, emitted, shown, items, slow, unlucky>>
  BY DEF notifyVars
<1>2. /\ wanted \in DaemonPorts
      /\ daemon \in DaemonStates
  BY DEF NotifyInv, NotifyTypes, ToolStates, DaemonStates
<1>3. Reached' = Reached /\ TrayInv'
  BY NotifyFacts, <1>1 DEF Reached, TrayInv
<1>4. QED
  BY NotifyFacts, <1>1, <1>2, <1>3, SameReached, LineStays

NotifyHolds == part = "notify" => NotifyInv

LEMMA NotifyAlways == Spec => []NotifyHolds
<1>1. Init => NotifyHolds
  BY PartsAssumption, NotifyBegins DEF Init, NotifyHolds
<1>2. NotifyHolds /\ [Next]_trayVars => NotifyHolds'
  <2> SUFFICES ASSUME NotifyHolds, [Next]_trayVars, part' = "notify" PROVE NotifyInv'
    BY DEF NotifyHolds
  <2>1. CASE NotifySteps
    BY <2>1, PartsAssumption, NotifyKeeps DEF NotifySteps, NotifyHolds
  <2>2. CASE UNCHANGED trayVars
    BY <2>2, NotifyStays DEF trayVars, NotifyHolds
  <2>3. CASE Next /\ ~NotifySteps
    BY <2>3 DEF Next, IconSteps, JobSteps, PanelSteps, DialogSteps, TranscriptSteps, SignInSteps,
                CreditSteps, UsageSteps, Rest
  <2>4. QED
    BY <2>1, <2>2, <2>3
<1>3. QED
  BY <1>1, <1>2, PTL DEF Spec

\* What was written of the replies comes first among them.
LEMMA WrittenComesFirst ==
    ASSUME outbox \in Seq(Reply), mcp.replies \in Seq(Reply)
    PROVE  /\ DOMAIN outbox \subseteq DOMAIN Replied
           /\ \A i \in DOMAIN outbox : Replied[i] = outbox[i]
<1>1. /\ Len(outbox) \in Nat /\ Len(mcp.replies) \in Nat /\ DOMAIN outbox = 1 .. Len(outbox)
  OBVIOUS
<1>2. /\ Len(Replied) = Len(outbox) + Len(mcp.replies) /\ DOMAIN Replied = 1 .. Len(Replied)
      /\ \A i \in 1 .. Len(Replied) :
            Replied[i] = IF i <= Len(outbox) THEN outbox[i] ELSE mcp.replies[i - Len(outbox)]
  BY ConcatProperties DEF Replied
<1>3. QED
  BY <1>1, <1>2

LEMMA NotifyIsSafe ==
    ASSUME NotifyInv PROVE Notify!MessagesAreHonest /\ Notify!RepliesInOrder
<1>1. /\ DOMAIN outbox \subseteq DOMAIN Replied
      /\ \A i \in DOMAIN outbox : Replied[i] = outbox[i]
  BY WrittenComesFirst DEF NotifyInv, NotifyTypes, ToolStates, DaemonStates
<1>2. Notify!RepliesInOrder
  BY <1>1 DEF NotifyInv, RepliesInv, Notify!RepliesInOrder
<1>3. /\ \A x \in Notify!Range(shown) \cup Notify!Range(emitted) :
            \E j \in DOMAIN Reached : Reached[j] = x
      /\ \A j \in DOMAIN Reached : Reached[j] \in Notify!Range(shown) \cup Notify!Range(emitted)
  <2>1. /\ Len(shown) \in Nat /\ Len(emitted) \in Nat
        /\ DOMAIN shown = 1 .. Len(shown) /\ DOMAIN emitted = 1 .. Len(emitted)
    BY NotifyFacts
  <2>2. /\ Len(Reached) = Len(shown) + Len(emitted) /\ DOMAIN Reached = 1 .. Len(Reached)
        /\ \A i \in 1 .. Len(Reached) :
              Reached[i] = IF i <= Len(shown) THEN shown[i] ELSE emitted[i - Len(shown)]
    BY NotifyFacts, ConcatProperties DEF Reached
  <2>3. \A i \in DOMAIN shown : i \in DOMAIN Reached /\ Reached[i] = shown[i]
    BY <2>1, <2>2
  <2>4. \A i \in DOMAIN emitted : /\ i + Len(shown) \in DOMAIN Reached
                                  /\ Reached[i + Len(shown)] = emitted[i]
    BY <2>1, <2>2
  <2>5. \A j \in DOMAIN Reached : \/ j \in DOMAIN shown /\ Reached[j] = shown[j]
                                  \/ /\ j - Len(shown) \in DOMAIN emitted
                                     /\ Reached[j] = emitted[j - Len(shown)]
    BY <2>1, <2>2
  <2>6. QED
    BY <2>3, <2>4, <2>5 DEF Notify!Range
<1>4. Notify!Told("delivered") \subseteq Notify!Range(shown) \cup Notify!Range(emitted) \cup unlucky
  BY <1>1, <1>3 DEF NotifyInv, HonestInv, Notify!Told
<1>5. \A n \in Notify!Range(shown) \cup Notify!Range(emitted) :
         (n \in Notify!Told("no tray") \cup Notify!Told("not running") \cup Notify!Told("refused"))
            => n \in slow \cup unlucky
  <2> SUFFICES ASSUME NEW n \in Notify!Range(shown) \cup Notify!Range(emitted),
                      NEW what \in Bad, n \in Notify!Told(what)
               PROVE  n \in slow \cup unlucky
    BY DEF Bad
  <2>1. PICK i \in DOMAIN outbox : outbox[i].says = what /\ outbox[i].n = n
    BY DEF Notify!Told
  <2>2. PICK j \in DOMAIN Reached : Reached[j] = n
    BY <1>3
  <2>3. QED
    BY <1>1, <2>1, <2>2 DEF NotifyInv, HonestInv
<1>6. \A i, j \in DOMAIN Reached : i < j =>
         Reached[i] # Reached[j] /\ (Reached[i] < Reached[j] \/ Reached[j] \in slow)
  BY DEF NotifyInv, ReachedInv
<1>7. QED
  BY <1>2, <1>4, <1>5, <1>6 DEF Notify!MessagesAreHonest, Reached

LEMMA NagsAreOnTime == ASSUME IconInv PROVE Icon!NagsOnSchedule
<1>1. said.commands = IF said.nags > 0 THEN 1 ELSE 0
  BY DEF IconInv, ConfirmIsTimed, Icon!NothingSaid
<1>2. ASSUME prev = "confirm"
      PROVE  /\ said.nags <= said.at - nag.since
             /\ said.steady => nag.sent = IF conf.after = 0 THEN 0
                                          ELSE (said.at - nag.since) \div conf.after
  <2>1. nag.since # Icon!Unset
    BY <1>2 DEF IconInv, ConfirmIsTimed
  <2>2. /\ nag.since \in Int /\ said.at \in Int /\ nag.sent \in Int /\ said.nags \in Int
        /\ said.nags <= nag.sent /\ nag.sent <= said.at - nag.since
    BY <2>1 DEF IconInv, ConfirmIsTimed, Icon!Unset
  <2>3. said.nags <= said.at - nag.since
    BY <2>2
  <2>4. QED
    BY <2>1, <2>3 DEF IconInv, ConfirmIsTimed
<1>3. QED
  BY <1>1, <1>2 DEF Icon!NagsOnSchedule

\* A reminder of an unanswered confirm goes out once for every interval that a poll has
\* seen pass and runs the user's command once (TrayApp._check_nag), however late polls are
\* and whatever Settings changes; and what notify_user tells an agent of its message is
\* so, in the order asked (core/mcp.py, StatusServer._route_notify), although calls time
\* out, ports move, and a tray comes late or quits with messages on their way.
THEOREM UserIsTold == Spec => []NagsOnSchedule
<1>1. IconHolds /\ NotifyHolds => NagsOnSchedule
  BY NagsAreOnTime, NotifyIsSafe DEF IconHolds, NotifyHolds, NagsOnSchedule
<1>2. QED
  BY <1>1, IconAlways, NotifyAlways, PTL

--------------------------------------------------------------------------------
(* Signing in: the token a fetch read, and what happened to it since.              *)

\* While a fetch is under way for a user who was signed in all along, the stored token is
\* the honoured one, and the fetch's own was replaced as often as it says.
SignInInv ==
    /\ SignIn!TypeOK
    /\ signedIn \in BOOLEAN /\ renewed \in Nat /\ ask.token \in Nat /\ ask.retried \in BOOLEAN
    /\ ask = SignIn!Resting \/ ask.phase = "posting"
    /\ ask.retried => provider = "cursor"
    /\ signedIn /\ ask.phase = "posting" =>
          /\ SignIn!SignedIn
          /\ ask.retried => renewed >= 1
          /\ ask.token # accepted => renewed > IF ask.retried THEN 1 ELSE 0

LEMMA SignInBegins == ASSUME SignIn!SignInAssumption, SignIn!Init PROVE SignInInv
BY DEF SignIn!Init, SignIn!SignInAssumption, SignInInv, SignIn!TypeOK, SignIn!Stored,
       SignIn!Resting, SignIn!Results

\* The agent and the server: a renewal is counted, and anything else is no longer signed in.
LEMMA TokenKeeps ==
    ASSUME SignIn!SignInAssumption, SignInInv,
           SignIn!Renew \/ SignIn!TokenGoes \/ SignIn!Expire
    PROVE  SignInInv'
<1>1. UNCHANGED <<provider, ask, verdict>>
  BY DEF SignIn!Renew, SignIn!TokenGoes, SignIn!Expire
<1>2. CASE SignIn!Renew
  BY <1>1, <1>2 DEF SignInInv, SignIn!TypeOK, SignIn!Renew, SignIn!Stored, SignIn!SignedIn,
                    SignIn!SignInAssumption, SignIn!Resting
<1>3. CASE SignIn!TokenGoes
  <2>1. signedIn' = FALSE /\ renewed' = renewed
    BY <1>3 DEF SignIn!TokenGoes
  <2>2. SignIn!TypeOK'
    BY <1>1, <1>3 DEF SignInInv, SignIn!TypeOK, SignIn!TokenGoes, SignIn!Without, SignIn!NoToken,
                      SignIn!SignInAssumption, SignIn!Results
  <2>3. /\ signedIn' \in BOOLEAN /\ renewed' \in Nat /\ ask'.token \in Nat /\ ask'.retried \in BOOLEAN
        /\ ask' = SignIn!Resting \/ ask'.phase = "posting"
        /\ ask'.retried => provider' = "cursor"
    BY <1>1, <2>1, Zenon DEF SignInInv
  <2>4. QED
    BY <2>1, <2>2, <2>3, Zenon DEF SignInInv, SignIn!Resting
<1>4. CASE SignIn!Expire
  <2>1. signedIn' = FALSE /\ renewed' = renewed
    BY <1>4 DEF SignIn!Expire
  <2>2. SignIn!TypeOK'
    BY <1>1, <1>4 DEF SignInInv, SignIn!TypeOK, SignIn!Expire, SignIn!Without, SignIn!NoToken,
                      SignIn!SignInAssumption, SignIn!Results
  <2>3. /\ signedIn' \in BOOLEAN /\ renewed' \in Nat /\ ask'.token \in Nat /\ ask'.retried \in BOOLEAN
        /\ ask' = SignIn!Resting \/ ask'.phase = "posting"
        /\ ask'.retried => provider' = "cursor"
    BY <1>1, <2>1, Zenon DEF SignInInv
  <2>4. QED
    BY <2>1, <2>2, <2>3, Zenon DEF SignInInv, SignIn!Resting
<1>5. QED
  BY <1>2, <1>3, <1>4

\* A fetch that ends leaves nothing to promise.
LEMMA EndsKeeps ==
    ASSUME SignInInv, NEW result \in SignIn!Results, SignIn!Ends(result),
           UNCHANGED <<provider, store, accepted, issued>>, signedIn' \in BOOLEAN, renewed' \in Nat
    PROVE  SignInInv'
BY DEF SignInInv, SignIn!TypeOK, SignIn!Ends, SignIn!Resting, SignIn!NoToken

LEMMA FetchKeeps ==
    ASSUME SignInInv, SignIn!Begin \/ SignIn!Refused \/ SignIn!Honoured \/ SignIn!Fails
    PROVE  SignInInv'
<1>1. UNCHANGED <<provider, store, accepted, issued>>
  BY DEF SignIn!Begin, SignIn!Refused, SignIn!Honoured, SignIn!Fails
<1>2. signedIn' \in BOOLEAN /\ renewed' \in Nat
  <2>1. SignIn!SignedIn \in BOOLEAN
    BY Zenon DEF SignIn!SignedIn
  <2>2. CASE SignIn!Begin
    <3>1. signedIn' = SignIn!SignedIn /\ renewed' = 0
      BY <2>2 DEF SignIn!Begin
    <3>2. QED
      BY <2>1, <3>1
  <2>3. CASE signedIn' = signedIn /\ renewed' = renewed
    BY <2>3, Zenon DEF SignInInv
  <2>4. QED
    BY <2>2, <2>3 DEF SignIn!Refused, SignIn!Honoured, SignIn!Fails
<1>3. CASE \E result \in SignIn!Results : SignIn!Ends(result)
  BY <1>1, <1>2, <1>3, EndsKeeps
<1>4. CASE SignIn!Begin /\ SignIn!Asks(store.token, FALSE)
  BY <1>1, <1>2, <1>4 DEF SignInInv, SignIn!TypeOK, SignIn!Begin, SignIn!Asks, SignIn!SignedIn,
                          SignIn!Resting
<1>5. CASE SignIn!Refused /\ provider = "cursor" /\ ~ask.retried /\ SignIn!Asks(store.token, TRUE)
  BY <1>1, <1>2, <1>5 DEF SignInInv, SignIn!TypeOK, SignIn!Refused, SignIn!Asks, SignIn!SignedIn
<1>6. (\E result \in SignIn!Results : SignIn!Ends(result))
      \/ (SignIn!Begin /\ SignIn!Asks(store.token, FALSE))
      \/ (SignIn!Refused /\ provider = "cursor" /\ ~ask.retried /\ SignIn!Asks(store.token, TRUE))
  <2>1. {"rows", "transient", "auth"} \cup SignIn!Totals \subseteq SignIn!Results
    BY DEF SignIn!Totals, SignIn!Results
  <2>2. CASE SignIn!Begin
    <3>1. SignIn!Untokened(store.why) \subseteq SignIn!Results
      BY <2>1 DEF SignIn!Untokened, SignInInv, SignIn!TypeOK
    <3>2. QED
      BY <2>2, <3>1 DEF SignIn!Begin
  <2>3. CASE SignIn!Refused
    BY <2>1, <2>3 DEF SignIn!Refused, SignInInv, SignIn!TypeOK
  <2>4. CASE SignIn!Honoured \/ SignIn!Fails
    BY <2>1, <2>4 DEF SignIn!Honoured, SignIn!Fails
  <2>5. QED
    BY <2>2, <2>3, <2>4
<1>7. QED
  BY <1>3, <1>4, <1>5, <1>6

LEMMA SignInKeeps == ASSUME SignIn!SignInAssumption, SignInInv, SignIn!Next PROVE SignInInv'
BY TokenKeeps, FetchKeeps DEF SignIn!Next

LEMMA SignInStays == ASSUME SignInInv, UNCHANGED signInVars PROVE SignInInv'
BY DEF SignInInv, signInVars, SignIn!TypeOK, SignIn!Resting, SignIn!SignedIn, SignIn!NoToken,
       SignIn!Results

\* No step ends a fetch with a call to sign in that a signed-in user has not earned.
LEMMA NobodyIsAskedTwice ==
    ASSUME SignInInv, SignIn!Next, verdict' = "auth", ask' = SignIn!Resting,
           ask # SignIn!Resting, signedIn
    PROVE  renewed > IF provider = "cursor" THEN 1 ELSE 0
<1>1. ask.phase = "posting" /\ SignIn!SignedIn
  BY DEF SignInInv, SignIn!Resting
<1>2. SignIn!Refused /\ SignIn!Ends("auth")
  <2>1. ask.phase = "posting" /\ ask.phase # "idle" /\ ask' # ask
    BY DEF SignInInv, SignIn!Resting
  <2>2. ~(SignIn!Renew \/ SignIn!TokenGoes \/ SignIn!Expire \/ SignIn!Begin)
    BY <2>1 DEF SignIn!Renew, SignIn!TokenGoes, SignIn!Expire, SignIn!Begin
  <2>3. ~(SignIn!Honoured \/ SignIn!Fails)
    BY DEF SignIn!Honoured, SignIn!Fails, SignIn!Ends, SignIn!Totals
  <2>4. SignIn!Refused
    BY <2>2, <2>3 DEF SignIn!Next
  <2>5. ~SignIn!Asks(store.token, TRUE)
    BY DEF SignIn!Asks, SignIn!Resting
  <2>6. \A result \in SignIn!Totals : ~SignIn!Ends(result)
    BY DEF SignIn!Totals, SignIn!Ends
  <2>7. QED
    BY <2>4, <2>5, <2>6 DEF SignIn!Refused, SignInInv, SignIn!TypeOK
<1>3. ask.token # accepted
  BY <1>2 DEF SignIn!Refused
<1>4. provider = "cursor" => ask.retried
  <2>1. ~SignIn!Asks(store.token, TRUE)
    BY DEF SignIn!Asks, SignIn!Resting
  <2>2. QED
    BY <1>1, <1>2, <2>1 DEF SignIn!Refused, SignIn!SignedIn
<1>5. QED
  BY <1>1, <1>3, <1>4 DEF SignInInv

SignInHolds == part = "signin" => SignInInv

LEMMA SignInAlways == Spec => []SignInHolds
<1>1. Init => SignInHolds
  BY PartsAssumption, SignInBegins DEF Init, SignInHolds
<1>2. SignInHolds /\ [Next]_trayVars => SignInHolds'
  <2> SUFFICES ASSUME SignInHolds, [Next]_trayVars, part' = "signin" PROVE SignInInv'
    BY DEF SignInHolds
  <2>1. CASE SignInSteps
    BY <2>1, PartsAssumption, SignInKeeps DEF SignInSteps, SignInHolds
  <2>2. CASE UNCHANGED trayVars
    BY <2>2, SignInStays DEF trayVars, SignInHolds
  <2>3. CASE Next /\ ~SignInSteps
    BY <2>3 DEF Next, IconSteps, JobSteps, PanelSteps, DialogSteps, TranscriptSteps, UsageSteps,
                CreditSteps, NotifySteps, Rest
  <2>4. QED
    BY <2>1, <2>2, <2>3
<1>3. QED
  BY <1>1, <1>2, PTL DEF Spec

\* Nobody who was signed in all through a fetch is told to sign in, also when Cursor
\* renewed its token between the read and the request (the providers' fetch, and the
\* retry of providers/cursor.py); of Claude's this holds unless the login was renewed.
THEOREM NoFalseAlarm == Spec => SignedInIsNotAskedTo
<1>1. SignInHolds /\ [Next]_trayVars =>
        [verdict' = "auth" /\ ask' = SignIn!Resting /\ ask # SignIn!Resting /\ signedIn =>
            renewed > IF provider = "cursor" THEN 1 ELSE 0]_signInVars
  <2> SUFFICES ASSUME SignInHolds, [Next]_trayVars, ~UNCHANGED signInVars,
                      verdict' = "auth", ask' = SignIn!Resting, ask # SignIn!Resting, signedIn
               PROVE  renewed > IF provider = "cursor" THEN 1 ELSE 0
    OBVIOUS
  <2>1. SignInSteps
    BY DEF Next, trayVars, signInVars, IconSteps, JobSteps, PanelSteps, DialogSteps,
           TranscriptSteps, UsageSteps, CreditSteps, NotifySteps, Rest
  <2>2. QED
    BY <2>1, NobodyIsAskedTwice DEF SignInSteps, SignInHolds
<1>2. QED
  BY <1>1, SignInAlways, PTL DEF Spec, SignedInIsNotAskedTo, SignIn!SignedInIsNotAskedTo,
                                 SignIn!signInVars, signInVars
--------------------------------------------------------------------------------
(* Usage: what a service remembers, what the files hold, and what was answered.    *)

LEMMA DivisionBounds ==
    ASSUME NEW n \in Nat, NEW w \in Nat \ {0}
    PROVE  n \div w \in Nat /\ (n \div w) * w <= n /\ n < (n \div w) * w + w
OBVIOUS

LEMMA TimesGrows == ASSUME NEW p \in Nat, NEW q \in Nat, NEW w \in Nat, p < q PROVE p * w + w <= q * w
<1>1. PICK d \in Nat : q = p + 1 + d
  <2>1. q - p - 1 \in Nat /\ q = p + 1 + (q - p - 1)
    OBVIOUS
  <2>2. QED
    BY <2>1
<1>2. q * w = p * w + w + d * w
  BY <1>1
<1>3. d * w \in Nat /\ p * w \in Nat
  OBVIOUS
<1>4. QED
  BY <1>2, <1>3

\* A window of length w is still the one of an earlier hour until it closes.
LEMMA SameWindow ==
    ASSUME NEW h \in Nat, NEW at \in Nat, at <= h, NEW w \in Nat \ {0}
    PROVE  (at \div w + 1) * w > h <=> at \div w = h \div w
<1> DEFINE p == at \div w
           q == h \div w
<1>1. /\ p \in Nat /\ p * w <= at /\ at < p * w + w
      /\ q \in Nat /\ q * w <= h /\ h < q * w + w
  BY DivisionBounds
<1> HIDE DEF p, q
<1>2. (p + 1) * w = p * w + w
  BY <1>1
<1>3. p * w \in Nat /\ q * w \in Nat
  BY <1>1
<1>4. CASE p < q
  BY <1>1, <1>2, <1>3, <1>4, TimesGrows
<1>5. CASE q < p
  BY <1>1, <1>2, <1>3, <1>5, TimesGrows
<1>6. CASE p = q
  BY <1>1, <1>2, <1>3, <1>6
<1>7. QED
  BY <1>1, <1>4, <1>5, <1>6 DEF p, q
Outcomes == {"ok", "transient", "auth"}

\* What is kept is of hours that have come.
UsageTypes ==
    /\ Usage!TypeOK
    /\ \A k \in {files, mind["tray"], mind["doctor"]} :
          /\ k.of \in [Asked -> Usage!Never .. hour] /\ k.samples \in [Asked -> SUBSET (1 .. hour)]
          /\ DOMAIN k = {"of", "samples"}
    /\ DOMAIN mind = Usage!Services /\ DOMAIN pass = Usage!Services
    /\ given.any \in [Asked -> SUBSET (1 .. hour)]
    /\ given.tray \in [Asked -> {Usage!Never} \cup 1 .. hour]

\* The tray remembers the newest answer it got, and every sample is of an answer.
MemoryIsTrue ==
    /\ \A a \in Asked : given.tray[a] # Usage!Never => mind["tray"].of[a] = given.tray[a]
    /\ \A a \in Asked, k \in {files, mind["tray"], mind["doctor"]} : k.samples[a] \subseteq given.any[a]

\* A pass is over within its hour, and the tray's is the cache policy's.
PassesAreOfThisHour ==
    /\ \A s \in Usage!Services : pass[s] # Usage!NoPass =>
          /\ DOMAIN pass[s] = Asked
          /\ \A a \in Asked : Usage!IsNew(pass[s][a]) => pass[s][a].at = hour
    /\ pass["tray"] # Usage!NoPass =>
          \A a \in Asked : \E o \in Outcomes : pass["tray"][a] = Usage!Policy(a, o, mind["tray"].of)

\* Unless something went wrong, a service that nobody wrote after knows what the files do,
\* and they hold the newest answer of all.
FilesAreUpToDate ==
    amiss = {} =>
       /\ Usage!RestartKeepsTheAnswers
       /\ \A s \in Usage!Services \ apart :
             s = "tray" \/ pass[s] # Usage!NoPass => mind[s].of = files.of

UsageInv == UsageTypes /\ MemoryIsTrue /\ PassesAreOfThisHour /\ FilesAreUpToDate

LEMMA NewestHour ==
    ASSUME NEW h \in Nat, NEW S \in SUBSET (1 .. h), h \in S
    PROVE  Usage!Max(S) = h
<1>1. \E x \in S : \A y \in S : x >= y
  OBVIOUS
<1>2. \A x \in S : (\A y \in S : x >= y) => x = h
  OBVIOUS
<1> DEFINE m == Usage!Max(S)
<1>3. m \in S /\ \A y \in S : m >= y
  BY <1>1, Zenon DEF Usage!Max
<1>4. QED
  BY <1>2, <1>3

LEMMA UsageBegins == ASSUME Usage!UsageAssumption, Usage!Init PROVE UsageInv
<1>1. /\ hour = 1 /\ LastHour \in Nat \ {0} /\ amiss = {} /\ apart = {}
      /\ \A s \in Usage!Services : pass[s] = Usage!NoPass
      /\ DOMAIN pass = Usage!Services /\ DOMAIN mind = Usage!Services
  BY DEF Usage!Init, Usage!UsageAssumption
<1>2. /\ given.any = [a \in Asked |-> {}]
      /\ given.tray = [a \in Asked |-> Usage!Never]
  BY DEF Usage!Init, Usage!Empty, Usage!NoHours
<1>3. /\ mind["tray"] = files /\ mind["doctor"] = Usage!Empty
      /\ files.samples = [a \in Asked |-> {}] /\ Usage!Empty.samples = [a \in Asked |-> {}]
      /\ Usage!Empty.of = [a \in Asked |-> Usage!Never]
      /\ files.of \in [Asked -> {0, Usage!Never}]
  BY DEF Usage!Init, Usage!Empty, Usage!Services, Usage!Undated
<1>4. \A k \in {files, mind["tray"], mind["doctor"]} :
         /\ k.of \in [Asked -> {0, -1}]
         /\ k.samples = [a \in Asked |-> {}]
         /\ DOMAIN k = {"of", "samples"}
  <2>1. DOMAIN files = {"of", "samples"} /\ DOMAIN Usage!Empty = {"of", "samples"}
    BY DEF Usage!Init, Usage!Empty
  <2>2. Usage!Never = -1
    BY DEF Usage!Never
  <2>3. files.of \in [Asked -> {0, -1}] /\ Usage!Empty.of \in [Asked -> {0, -1}]
    BY <1>3, <2>2
  <2>4. QED
    BY <1>3, <2>1, <2>3
<1>5. UsageTypes
  <2>1. Usage!TypeOK
    BY <1>1, <1>4 DEF Usage!TypeOK, Usage!Never
  <2>2. QED
    BY <1>1, <1>2, <1>4, <2>1 DEF UsageTypes, Usage!Never
<1>6. MemoryIsTrue
  BY <1>2, <1>4 DEF MemoryIsTrue
<1>7. PassesAreOfThisHour
  BY <1>1 DEF PassesAreOfThisHour, Usage!Services
<1>8. FilesAreUpToDate
  BY <1>1, <1>2, <1>3 DEF FilesAreUpToDate, Usage!RestartKeepsTheAnswers, Usage!Services
<1>9. QED
  BY <1>5, <1>6, <1>7, <1>8 DEF UsageInv

LEMMA PolicyAnswers ==
    ASSUME NEW a, NEW o, NEW kept, o # "rows", Usage!IsNew(Usage!Policy(a, o, kept))
    PROVE  Usage!Policy(a, o, kept).at = hour
BY DEF Usage!IsNew, Usage!Policy, Usage!Result

\* The policy is the same for the rest of the hour, as long as the memory is.
LEMMA PolicyLasts ==
    ASSUME hour' = hour, mind'["tray"].of = mind["tray"].of, NEW a, NEW o,
           NEW r, r = Usage!Policy(a, o, mind["tray"].of)
    PROVE  r = Usage!Policy(a, o, mind["tray"].of)'
BY DEF Usage!Policy, Usage!MayStandIn, Usage!Closes, Usage!StillFresh, Usage!Result,
       Usage!Undated, Usage!Never

LEMMA PassesLast ==
    ASSUME UsageInv, hour' = hour, mind'["tray"].of = mind["tray"].of,
           pass' = pass \/ (\E s \in Usage!Services : pass' = [pass EXCEPT ![s] = Usage!NoPass])
    PROVE  PassesAreOfThisHour'
<1>1. \A s \in Usage!Services : pass'[s] = pass[s] \/ pass'[s] = Usage!NoPass
  BY DEF UsageInv, UsageTypes
<1>2. "tray" \in Usage!Services
  BY DEF Usage!Services
<1>3. ASSUME NEW s \in Usage!Services, pass'[s] # Usage!NoPass
      PROVE  /\ DOMAIN pass'[s] = Asked
             /\ \A a \in Asked : Usage!IsNew(pass'[s][a]) => pass'[s][a].at = hour
  BY <1>1, <1>3 DEF UsageInv, PassesAreOfThisHour
<1>4. ASSUME pass'["tray"] # Usage!NoPass, NEW a \in Asked
      PROVE  \E o \in Outcomes : pass'["tray"][a] = Usage!Policy(a, o, mind["tray"].of)'
  <2>1. pass'["tray"] = pass["tray"] /\ pass["tray"] # Usage!NoPass
    BY <1>1, <1>2, <1>4
  <2>2. PICK o \in Outcomes : pass["tray"][a] = Usage!Policy(a, o, mind["tray"].of)
    BY <2>1 DEF UsageInv, PassesAreOfThisHour
  <2>3. pass["tray"][a] = Usage!Policy(a, o, mind["tray"].of)'
    BY <2>2, PolicyLasts
  <2>4. QED
    BY <2>1, <2>3
<1>5. QED
  BY <1>3, <1>4 DEF PassesAreOfThisHour, Usage!NoPass, Usage!IsNew

LEMMA TrayAsksKeeps == ASSUME UsageInv, Usage!TrayAsks PROVE UsageInv'
<1>1. UNCHANGED <<hour, mind, files, given, apart, amiss>> /\ pass["tray"] = Usage!NoPass
  BY DEF Usage!TrayAsks
<1>2. PICK outcome \in [Asked -> Outcomes] :
         pass' = [pass EXCEPT !["tray"] = [a \in Asked |-> Usage!Policy(a, outcome[a], mind["tray"].of)]]
  <2>1. {"ok"} \cup {"transient", "auth"} = Outcomes
    BY DEF Outcomes
  <2>2. QED
    BY <2>1, Zenon DEF Usage!TrayAsks, Usage!AskThemAll
<1>3. /\ pass'["tray"] = [a \in Asked |-> Usage!Policy(a, outcome[a], mind["tray"].of)]
      /\ pass'["doctor"] = pass["doctor"] /\ DOMAIN pass' = Usage!Services
  BY <1>2 DEF UsageInv, UsageTypes, Usage!Services
<1>4. UsageTypes'
  BY <1>1, <1>3 DEF UsageInv, UsageTypes, Usage!TypeOK, Usage!Services, Usage!Never
<1>5. MemoryIsTrue'
  BY <1>1 DEF UsageInv, MemoryIsTrue, Usage!Never
<1>6. PassesAreOfThisHour'
  <2>1. \A a \in Asked : /\ outcome[a] \in Outcomes
                         /\ pass'["tray"][a] = Usage!Policy(a, outcome[a], mind["tray"].of)
    BY <1>2, <1>3
  <2>2. ASSUME NEW a \in Asked
        PROVE  pass'["tray"][a] = Usage!Policy(a, outcome[a], mind["tray"].of)'
    BY <1>1, <2>1, PolicyLasts
  <2>3. ASSUME NEW a \in Asked, Usage!IsNew(pass'["tray"][a])
        PROVE  pass'["tray"][a].at = hour
    <3>1. outcome[a] # "rows"
      BY <2>1 DEF Outcomes
    <3>2. Usage!IsNew(Usage!Policy(a, outcome[a], mind["tray"].of))
      BY <2>1, <2>3
    <3>3. Usage!Policy(a, outcome[a], mind["tray"].of).at = hour
      BY <3>1, <3>2, PolicyAnswers
    <3>4. QED
      BY <2>1, <3>3
  <2>4. DOMAIN pass'["tray"] = Asked
    BY <1>3
  <2>5. \A a \in Asked : \E o \in Outcomes : pass'["tray"][a] = Usage!Policy(a, o, mind["tray"].of)'
    BY <2>1, <2>2
  <2>6. ASSUME NEW s \in Usage!Services, pass'[s] # Usage!NoPass
        PROVE  /\ DOMAIN pass'[s] = Asked
               /\ \A a \in Asked : Usage!IsNew(pass'[s][a]) => pass'[s][a].at = hour
    BY <1>3, <2>3, <2>4, <2>6 DEF Usage!Services, UsageInv, PassesAreOfThisHour
  <2>7. QED
    BY <1>1, <2>5, <2>6 DEF PassesAreOfThisHour, Usage!NoPass, Usage!IsNew
<1>7. FilesAreUpToDate'
  BY <1>1, <1>3 DEF UsageInv, FilesAreUpToDate, Usage!RestartKeepsTheAnswers, Usage!Services
<1>8. QED
  BY <1>4, <1>5, <1>6, <1>7 DEF UsageInv

LEMMA DoctorAsksKeeps == ASSUME UsageInv, Usage!DoctorAsks PROVE UsageInv'
<1>1. /\ UNCHANGED <<hour, files, given, amiss>> /\ apart' = apart \ {"doctor"}
      /\ mind' = [mind EXCEPT !["doctor"] = files]
  BY DEF Usage!DoctorAsks
<1>2. PICK outcome \in [Asked -> {"ok"} \cup {"transient"}] :
         pass' = [pass EXCEPT !["doctor"] = [a \in Asked |-> Usage!Policy(a, outcome[a], Usage!Empty.of)]]
  BY Zenon DEF Usage!DoctorAsks, Usage!AskThemAll
<1>3. /\ pass'["doctor"] = [a \in Asked |-> Usage!Policy(a, outcome[a], Usage!Empty.of)]
      /\ pass'["tray"] = pass["tray"] /\ DOMAIN pass' = Usage!Services
  BY <1>2 DEF UsageInv, UsageTypes, Usage!Services
<1>4. mind'["doctor"] = files /\ mind'["tray"] = mind["tray"] /\ DOMAIN mind' = Usage!Services
  BY <1>1 DEF UsageInv, UsageTypes, Usage!Services
<1>5. UsageTypes'
  BY <1>1, <1>3, <1>4 DEF UsageInv, UsageTypes, Usage!TypeOK, Usage!Services, Usage!Never
<1>6. MemoryIsTrue'
  BY <1>1, <1>4 DEF UsageInv, MemoryIsTrue, Usage!Never
<1>7. PassesAreOfThisHour'
  <2>1. \A a \in Asked : /\ outcome[a] # "rows"
                         /\ pass'["doctor"][a] = Usage!Policy(a, outcome[a], Usage!Empty.of)
    BY <1>2, <1>3
  <2>2. ASSUME NEW a \in Asked, Usage!IsNew(pass'["doctor"][a])
        PROVE  pass'["doctor"][a].at = hour
    <3>1. Usage!IsNew(Usage!Policy(a, outcome[a], Usage!Empty.of))
      BY <2>1, <2>2
    <3>2. Usage!Policy(a, outcome[a], Usage!Empty.of).at = hour
      BY <2>1, <3>1, PolicyAnswers
    <3>3. QED
      BY <2>1, <3>2
  <2>3. DOMAIN pass'["doctor"] = Asked
    BY <1>3
  <2>4. ASSUME NEW s \in Usage!Services, pass'[s] # Usage!NoPass
        PROVE  /\ DOMAIN pass'[s] = Asked
               /\ \A a \in Asked : Usage!IsNew(pass'[s][a]) => pass'[s][a].at = hour
    BY <1>3, <2>2, <2>3, <2>4 DEF Usage!Services, UsageInv, PassesAreOfThisHour
  <2>5. ASSUME pass'["tray"] # Usage!NoPass, NEW a \in Asked
        PROVE  \E o \in Outcomes : pass'["tray"][a] = Usage!Policy(a, o, mind["tray"].of)'
    <3>1. PICK o \in Outcomes : pass["tray"][a] = Usage!Policy(a, o, mind["tray"].of)
      BY <1>3, <2>5 DEF UsageInv, PassesAreOfThisHour
    <3>2. pass["tray"][a] = Usage!Policy(a, o, mind["tray"].of)'
      BY <1>1, <1>4, <3>1, PolicyLasts
    <3>3. QED
      BY <1>3, <3>2
  <2>6. QED
    BY <1>1, <2>4, <2>5 DEF PassesAreOfThisHour, Usage!NoPass, Usage!IsNew
<1>8. FilesAreUpToDate'
  <2>1. amiss = {} => Usage!RestartKeepsTheAnswers'
    BY <1>1 DEF UsageInv, FilesAreUpToDate, Usage!RestartKeepsTheAnswers
  <2>2. ASSUME amiss = {}, NEW s \in Usage!Services \ apart', s = "tray" \/ pass'[s] # Usage!NoPass
        PROVE  mind'[s].of = files.of
    BY <1>1, <1>4, <2>2 DEF UsageInv, FilesAreUpToDate, Usage!Services
  <2>3. QED
    BY <1>1, <2>1, <2>2 DEF FilesAreUpToDate, Usage!NoPass
<1>9. QED
  BY <1>5, <1>6, <1>7, <1>8 DEF UsageInv

LEMMA HourPassesKeeps == ASSUME Usage!UsageAssumption, UsageInv, Usage!HourPasses PROVE UsageInv'
<1>1. /\ UNCHANGED <<mind, files, pass, given, apart, amiss>>
      /\ hour' = hour + 1 /\ hour < LastHour /\ LastHour \in Nat /\ hour \in Nat
      /\ \A s \in Usage!Services : pass[s] = Usage!NoPass
  BY DEF Usage!HourPasses, Usage!UsageAssumption, UsageInv, UsageTypes, Usage!TypeOK
<1>2. /\ 1 .. hour \subseteq 1 .. hour' /\ Usage!Never .. hour \subseteq Usage!Never .. hour'
      /\ hour' \in 1 .. LastHour
  BY <1>1 DEF Usage!Never
<1>3. Usage!TypeOK'
  BY <1>1, <1>2 DEF UsageInv, UsageTypes, Usage!TypeOK, Usage!Never
<1>4. UsageTypes'
  <2>1. ASSUME NEW k \in {files, mind["tray"], mind["doctor"]}
        PROVE  /\ k.of \in [Asked -> Usage!Never .. hour'] /\ k.samples \in [Asked -> SUBSET (1 .. hour')]
               /\ DOMAIN k = {"of", "samples"}
    <3>1. /\ k.of \in [Asked -> Usage!Never .. hour] /\ k.samples \in [Asked -> SUBSET (1 .. hour)]
          /\ DOMAIN k = {"of", "samples"}
      BY DEF UsageInv, UsageTypes
    <3>2. QED
      BY <1>2, <3>1
  <2>2. /\ given.any \in [Asked -> SUBSET (1 .. hour')]
        /\ given.tray \in [Asked -> {Usage!Never} \cup 1 .. hour']
    BY <1>2 DEF UsageInv, UsageTypes
  <2>3. QED
    BY <1>1, <1>3, <2>1, <2>2 DEF UsageInv, UsageTypes, Usage!Services, Usage!Never
<1>5. MemoryIsTrue'
  BY <1>1 DEF UsageInv, MemoryIsTrue, Usage!Never
<1>6. PassesAreOfThisHour'
  BY <1>1 DEF PassesAreOfThisHour, Usage!Services, Usage!NoPass
<1>7. FilesAreUpToDate'
  BY <1>1 DEF UsageInv, FilesAreUpToDate, Usage!RestartKeepsTheAnswers, Usage!Services, Usage!NoPass
<1>8. QED
  BY <1>4, <1>5, <1>6, <1>7 DEF UsageInv

LEMMA TrayRestartsKeeps == ASSUME UsageInv, Usage!TrayRestarts PROVE UsageInv'
<1>1. /\ UNCHANGED <<hour, files, amiss>> /\ apart' = apart \ {"tray"}
      /\ mind'["tray"] = files /\ mind'["doctor"] = mind["doctor"] /\ DOMAIN mind' = Usage!Services
      /\ pass'["tray"] = Usage!NoPass /\ pass'["doctor"] = pass["doctor"]
      /\ DOMAIN pass' = Usage!Services
      /\ given'.any = given.any /\ given'.tray = [a \in Asked |-> Usage!Never]
  <2>1. given'.any = given.any /\ given'.tray = [a \in Asked |-> Usage!Never]
    BY DEF Usage!TrayRestarts, Usage!Empty, UsageInv, UsageTypes
  <2>2. QED
    BY <2>1 DEF Usage!TrayRestarts, UsageInv, UsageTypes, Usage!Services
<1>2. UsageTypes'
  BY <1>1 DEF UsageInv, UsageTypes, Usage!TypeOK, Usage!Services, Usage!Never
<1>3. MemoryIsTrue'
  BY <1>1 DEF UsageInv, MemoryIsTrue, Usage!Never
<1>4. PassesAreOfThisHour'
  BY <1>1 DEF UsageInv, PassesAreOfThisHour, Usage!Services, Usage!NoPass, Usage!IsNew
<1>5. FilesAreUpToDate'
  BY <1>1 DEF UsageInv, FilesAreUpToDate, Usage!RestartKeepsTheAnswers, Usage!Services, Usage!NoPass
<1>6. QED
  BY <1>2, <1>3, <1>4, <1>5 DEF UsageInv

\* What the end of a pass leaves: its fresh answers are this hour's.
EndsPass(s) ==
    /\ hour' = hour /\ hour \in Nat /\ hour \in 1 .. hour
    /\ pass'[s] = Usage!NoPass /\ DOMAIN pass' = Usage!Services
    /\ \A t \in Usage!Services : t # s => pass'[t] = pass[t]
    /\ pass' = [pass EXCEPT ![s] = Usage!NoPass]
    /\ given'.tray = [a \in Asked |-> IF s = "tray" /\ a \in Usage!Fresh(s) THEN hour ELSE given.tray[a]]
    /\ given'.any = [a \in Asked |-> given.any[a] \cup (IF a \in Usage!Fresh(s) THEN {hour} ELSE {})]
    /\ Usage!Fresh(s) \subseteq Asked
    /\ \A a \in Usage!Fresh(s) : pass[s][a].at = hour
    /\ given'.any \in [Asked -> SUBSET (1 .. hour)]
    /\ given'.tray \in [Asked -> {Usage!Never} \cup 1 .. hour]
    /\ \A a \in Asked : given.any[a] \subseteq given'.any[a]
    /\ \A a \in Usage!Fresh(s) : hour \in given'.any[a]

LEMMA PassEnds ==
    ASSUME UsageInv, NEW s \in Usage!Services, Usage!PassOver(s)
    PROVE  EndsPass(s)
<1> DEFINE F == Usage!Fresh(s)
<1>1. hour' = hour /\ hour \in Nat /\ hour \in 1 .. hour /\ pass[s] # Usage!NoPass
  BY DEF Usage!PassOver, UsageInv, UsageTypes, Usage!TypeOK
<1>2. F \subseteq Asked /\ \A a \in F : pass[s][a].at = hour
  BY <1>1 DEF Usage!Fresh, UsageInv, PassesAreOfThisHour
<1> HIDE DEF F
<1>3. /\ given'.tray = [a \in Asked |-> IF s = "tray" /\ a \in F THEN hour ELSE given.tray[a]]
      /\ given'.any = [a \in Asked |-> given.any[a] \cup (IF a \in F THEN {hour} ELSE {})]
  BY DEF Usage!PassOver, F
<1>4. /\ given'.any \in [Asked -> SUBSET (1 .. hour)]
      /\ given'.tray \in [Asked -> {Usage!Never} \cup 1 .. hour]
      /\ \A a \in Asked : given.any[a] \subseteq given'.any[a]
      /\ \A a \in F : hour \in given'.any[a]
  <2>1. given.any \in [Asked -> SUBSET (1 .. hour)] /\ given.tray \in [Asked -> {Usage!Never} \cup 1 .. hour]
    BY DEF UsageInv, UsageTypes
  <2>2. \A a \in Asked : given'.any[a] \in SUBSET (1 .. hour) /\ given.any[a] \subseteq given'.any[a]
    BY <1>1, <1>3, <2>1
  <2>3. \A a \in Asked : given'.tray[a] \in {Usage!Never} \cup 1 .. hour
    BY <1>1, <1>3, <2>1
  <2>4. QED
    BY <1>2, <1>3, <2>2, <2>3
<1>5. /\ pass' = [pass EXCEPT ![s] = Usage!NoPass] /\ pass'[s] = Usage!NoPass
      /\ DOMAIN pass' = Usage!Services
      /\ \A t \in Usage!Services : t # s => pass'[t] = pass[t]
  BY DEF Usage!PassOver, UsageInv, UsageTypes
<1>6. QED
  BY <1>1, <1>2, <1>3, <1>4, <1>5 DEF EndsPass, F

\* A memory of hours that have come, and of samples that were answers.
Sound(k) ==
    /\ k.of \in [Asked -> Usage!Never .. hour] /\ k.samples \in [Asked -> SUBSET (1 .. hour)]
    /\ DOMAIN k = {"of", "samples"}

LEMMA RememberedIsSound ==
    ASSUME UsageInv, NEW s \in Usage!Services, EndsPass(s)
    PROVE  /\ Usage!Remembered(s) \in [Asked -> Usage!Never .. hour]
           /\ \A a \in Usage!Fresh(s) : Usage!Remembered(s)[a] = hour
           /\ \A a \in Asked \ Usage!Fresh(s) : Usage!Remembered(s)[a] = mind[s].of[a]
<1>1. mind[s].of \in [Asked -> Usage!Never .. hour]
  BY DEF UsageInv, UsageTypes, Usage!Services
<1>2. /\ \A a \in Asked : Usage!Remembered(s)[a] = IF a \in Usage!Fresh(s) THEN pass[s][a].at ELSE mind[s].of[a]
      /\ Usage!Remembered(s) = [a \in Asked |-> Usage!Remembered(s)[a]]
  BY DEF Usage!Remembered
<1>3. hour \in Usage!Never .. hour
  BY DEF EndsPass, Usage!Never
<1>4. QED
  BY <1>1, <1>2, <1>3 DEF EndsPass

LEMMA RecordedIsSound ==
    ASSUME UsageInv, NEW s \in Usage!Services, EndsPass(s)
    PROVE  /\ Usage!Recorded(s) \in [Asked -> SUBSET (1 .. hour)]
           /\ \A a \in Asked : Usage!Recorded(s)[a] \subseteq given'.any[a]
<1>1. /\ mind[s].samples \in [Asked -> SUBSET (1 .. hour)]
      /\ \A a \in Asked : mind[s].samples[a] \subseteq given.any[a]
  BY DEF UsageInv, UsageTypes, MemoryIsTrue, Usage!Services
<1>2. \A a \in Asked : Usage!Recorded(s)[a] \subseteq
                          mind[s].samples[a] \cup (IF a \in Usage!Fresh(s) THEN {hour} ELSE {})
  BY DEF Usage!Recorded
<1>3. \A a \in Asked : Usage!Recorded(s)[a] \subseteq given'.any[a]
  BY <1>1, <1>2 DEF EndsPass
<1>4. \A a \in Asked : given'.any[a] \subseteq 1 .. hour
  BY DEF EndsPass
<1>5. Usage!Recorded(s) = [a \in Asked |-> Usage!Recorded(s)[a]]
  BY DEF Usage!Recorded
<1>6. QED
  BY <1>3, <1>4, <1>5

\* Whatever service ends its pass, what both of them and the files then hold is sound.
LEMMA MemoriesStay ==
    ASSUME Usage!UsageAssumption, UsageInv, NEW s \in Usage!Services, EndsPass(s), NEW memory,
           Usage!Kept(s, memory), memory.of \in {mind[s].of, Usage!Remembered(s)},
           Usage!Fresh(s) # {} => memory.of = Usage!Remembered(s),
           memory.samples \in {mind[s].samples, Usage!Recorded(s)},
           DOMAIN memory = {"of", "samples"}, files' \in {files, memory},
           files' = files \/ (files'.of = Usage!Remembered(s) /\ files'.samples = Usage!Recorded(s)),
           apart' \subseteq Usage!Services, amiss' \subseteq {"failed", "overwritten"}
    PROVE  /\ UsageTypes' /\ MemoryIsTrue' /\ PassesAreOfThisHour'
           /\ mind'["tray"] = IF s = "tray" THEN memory ELSE mind["tray"]
<1>1. /\ s = "tray" => mind'["tray"] = memory /\ mind'["doctor"] = mind["doctor"]
      /\ s = "doctor" => mind'["tray"] = mind["tray"] /\ mind'["doctor"] = Usage!Empty
      /\ DOMAIN mind' = Usage!Services
  BY DEF Usage!Kept, UsageInv, UsageTypes, Usage!Services
<1>2. s \in {"tray", "doctor"}
  BY DEF Usage!Services
<1>3. /\ mind[s].of \in [Asked -> Usage!Never .. hour]
      /\ mind[s].samples \in [Asked -> SUBSET (1 .. hour)]
      /\ \A a \in Asked : mind[s].samples[a] \subseteq given'.any[a]
  BY <1>2 DEF UsageInv, UsageTypes, MemoryIsTrue, EndsPass
<1>4. Sound(memory) /\ \A a \in Asked : memory.samples[a] \subseteq given'.any[a]
  BY <1>3, RememberedIsSound, RecordedIsSound DEF Sound
<1>5. Sound(Usage!Empty) /\ \A a \in Asked : Usage!Empty.samples[a] \subseteq given'.any[a]
  <2>1. Usage!Never \in Usage!Never .. hour
    BY DEF EndsPass, Usage!Never
  <2>2. QED
    BY <2>1 DEF Sound, Usage!Empty
<1>6. \A k \in {files, mind["tray"], mind["doctor"]} :
         Sound(k) /\ \A a \in Asked : k.samples[a] \subseteq given'.any[a]
  BY DEF UsageInv, UsageTypes, MemoryIsTrue, EndsPass, Sound
<1>7. Sound(files') /\ \A a \in Asked : files'.samples[a] \subseteq given'.any[a]
  BY <1>6, RememberedIsSound, RecordedIsSound DEF Sound
<1>8. \A k \in {files', mind'["tray"], mind'["doctor"]} :
         Sound(k) /\ \A a \in Asked : k.samples[a] \subseteq given'.any[a]
  BY <1>1, <1>2, <1>4, <1>5, <1>6, <1>7
<1>9. UsageTypes'
  <2>1. hour' = hour /\ hour \in 1 .. LastHour /\ LastHour \in Nat
    BY DEF EndsPass, UsageInv, UsageTypes, Usage!TypeOK, Usage!UsageAssumption
  <2>2. ASSUME NEW k \in {files', mind'["tray"], mind'["doctor"]}
        PROVE  k.of \in [Asked -> Usage!Never .. LastHour] /\ k.samples \in [Asked -> SUBSET (1 .. LastHour)]
    <3>1. Usage!Never .. hour \subseteq Usage!Never .. LastHour /\ 1 .. hour \subseteq 1 .. LastHour
      BY <2>1 DEF Usage!Never
    <3>2. Sound(k)
      BY <1>8
    <3>3. QED
      BY <3>1, <3>2 DEF Sound
  <2>3. Usage!TypeOK'
    BY <2>1, <2>2 DEF Usage!TypeOK, Usage!Services, Usage!Never
  <2>4. QED
    BY <1>1, <1>8, <2>1, <2>3 DEF EndsPass, UsageTypes, Sound, Usage!Services, Usage!Never
<1>10. MemoryIsTrue'
  <2>1. ASSUME NEW a \in Asked, given'.tray[a] # Usage!Never
        PROVE  mind'["tray"].of[a] = given'.tray[a]
    <3>1. CASE s = "tray" /\ a \in Usage!Fresh(s)
      <4>1. mind'["tray"].of = Usage!Remembered(s)
        BY <1>1, <3>1
      <4>2. given'.tray[a] = hour
        BY <3>1 DEF EndsPass
      <4>3. Usage!Remembered(s)[a] = hour
        BY <3>1, RememberedIsSound
      <4>4. QED
        BY <4>1, <4>2, <4>3
    <3>2. CASE ~(s = "tray" /\ a \in Usage!Fresh(s))
      <4>1. given'.tray[a] = given.tray[a]
        BY <3>2 DEF EndsPass
      <4>2. mind["tray"].of[a] = given.tray[a]
        BY <2>1, <4>1 DEF UsageInv, MemoryIsTrue
      <4>3. mind'["tray"].of[a] = mind["tray"].of[a]
        BY <1>1, <1>2, <3>2, RememberedIsSound
      <4>4. QED
        BY <4>1, <4>2, <4>3
    <3>3. QED
      BY <3>1, <3>2
  <2>2. QED
    BY <1>8, <2>1 DEF MemoryIsTrue, Usage!Never
<1>11. PassesAreOfThisHour'
  <2>1. CASE s = "tray"
    <3>1. pass'["tray"] = Usage!NoPass /\ pass'["doctor"] = pass["doctor"] /\ hour' = hour
      BY <2>1 DEF EndsPass, Usage!Services
    <3>2. QED
      BY <3>1 DEF UsageInv, PassesAreOfThisHour, Usage!Services, Usage!NoPass, Usage!IsNew
  <2>2. CASE s = "doctor"
    BY <1>1, <2>2, PassesLast DEF EndsPass
  <2>3. QED
    BY <1>2, <2>1, <2>2
<1>12. QED
  BY <1>1, <1>2, <1>9, <1>10, <1>11

\* The files are written by a service that knows what they held, or the loss is noted.
LEMMA SavedIsNewest ==
    ASSUME UsageInv, NEW s \in Usage!Services, EndsPass(s), pass[s] # Usage!NoPass,
           files'.of = Usage!Remembered(s), amiss = {}, s \notin apart
    PROVE  Usage!UpToDate
<1> SUFFICES ASSUME NEW a \in Asked, given'.any[a] # {}
             PROVE  files'.of[a] = Usage!Max(given'.any[a])
  BY DEF Usage!UpToDate
<1>1. mind[s].of = files.of
  BY DEF UsageInv, FilesAreUpToDate
<1>2. CASE a \in Usage!Fresh(s)
  <2>1. files'.of[a] = hour
    BY <1>2, RememberedIsSound
  <2>2. given'.any[a] \in SUBSET (1 .. hour) /\ hour \in given'.any[a] /\ hour \in Nat
    BY <1>2 DEF EndsPass
  <2>3. QED
    BY <2>1, <2>2, NewestHour
<1>3. CASE a \notin Usage!Fresh(s)
  <2>1. given'.any[a] = given.any[a]
    BY <1>3 DEF EndsPass
  <2>2. files.of[a] = Usage!Max(given.any[a])
    BY <2>1 DEF UsageInv, FilesAreUpToDate, Usage!RestartKeepsTheAnswers
  <2>3. files'.of[a] = files.of[a]
    BY <1>1, <1>3, RememberedIsSound
  <2>4. QED
    BY <2>1, <2>2, <2>3
<1>4. QED
  BY <1>2, <1>3

LEMMA EndSavedKeeps ==
    ASSUME Usage!UsageAssumption, UsageInv, NEW s \in Usage!Services, Usage!EndSaved(s)
    PROVE  UsageInv'
<1>1. /\ EndsPass(s) /\ pass[s] # Usage!NoPass
      /\ files' = [of |-> Usage!Remembered(s), samples |-> Usage!Recorded(s)]
      /\ Usage!Kept(s, files') /\ apart' = Usage!Services \ {s}
      /\ amiss' = IF Usage!UpToDate THEN {} ELSE amiss \cup (IF s \in apart THEN {"overwritten"} ELSE {})
  BY PassEnds DEF Usage!EndSaved, Usage!PassOver
<1>2. files'.of = Usage!Remembered(s) /\ files'.samples = Usage!Recorded(s)
  BY <1>1
<1>3. amiss' \subseteq {"failed", "overwritten"}
  BY <1>1 DEF UsageInv, UsageTypes, Usage!TypeOK
<1>4. /\ UsageTypes' /\ MemoryIsTrue' /\ PassesAreOfThisHour'
      /\ mind'["tray"] = IF s = "tray" THEN files' ELSE mind["tray"]
  <2>1. DOMAIN files' = {"of", "samples"}
    BY <1>1
  <2>2. QED
    BY <1>1, <1>2, <1>3, <2>1, MemoriesStay
<1>5. amiss' = {} => Usage!UpToDate
  <2>1. CASE amiss = {} /\ s \notin apart
    BY <1>1, <1>2, <2>1, SavedIsNewest
  <2>2. CASE amiss # {} \/ s \in apart
    BY <1>1, <2>2
  <2>3. QED
    BY <2>1, <2>2
<1>6. FilesAreUpToDate'
  <2>1. amiss' = {} => Usage!RestartKeepsTheAnswers'
    BY <1>5 DEF Usage!RestartKeepsTheAnswers, Usage!UpToDate, Usage!Max
  <2>2. ASSUME NEW t \in Usage!Services \ apart', t = "tray" \/ pass'[t] # Usage!NoPass
        PROVE  mind'[t].of = files'.of
    <3>1. t = s /\ t = "tray"
      BY <1>1, <2>2 DEF EndsPass
    <3>2. QED
      BY <1>4, <3>1
  <2>3. QED
    BY <2>1, <2>2 DEF FilesAreUpToDate, Usage!NoPass, Usage!Services
<1>7. QED
  BY <1>4, <1>6 DEF UsageInv

LEMMA EndUnsavedKeeps ==
    ASSUME Usage!UsageAssumption, UsageInv, NEW s \in Usage!Services, Usage!EndUnsaved(s)
    PROVE  UsageInv'
<1> DEFINE memory == [mind[s] EXCEPT !.of = Usage!Remembered(s)]
<1>1. /\ EndsPass(s) /\ UNCHANGED <<files, apart>> /\ Usage!Kept(s, memory)
      /\ amiss' = amiss \cup {"failed"}
  BY PassEnds DEF Usage!EndUnsaved
<1>2. PICK kept : kept = memory
  OBVIOUS
<1>3. kept.of = Usage!Remembered(s) /\ kept.samples = mind[s].samples /\ DOMAIN kept = {"of", "samples"}
  <2>1. DOMAIN mind[s] = {"of", "samples"}
    BY DEF UsageInv, UsageTypes, Usage!Services
  <2>2. QED
    BY <1>2, <2>1
<1> HIDE DEF memory
<1>4. amiss' \subseteq {"failed", "overwritten"} /\ apart' \subseteq Usage!Services
  BY <1>1 DEF UsageInv, UsageTypes, Usage!TypeOK
<1>5. UsageTypes' /\ MemoryIsTrue' /\ PassesAreOfThisHour'
  BY <1>1, <1>2, <1>3, <1>4, MemoriesStay
<1>6. FilesAreUpToDate'
  BY <1>1 DEF FilesAreUpToDate
<1>7. QED
  BY <1>5, <1>6 DEF UsageInv

LEMMA EndIdleKeeps ==
    ASSUME Usage!UsageAssumption, UsageInv, NEW s \in Usage!Services, Usage!EndIdle(s)
    PROVE  UsageInv'
<1>1. /\ EndsPass(s) /\ UNCHANGED <<files, apart, amiss>> /\ Usage!Kept(s, mind[s])
      /\ Usage!Fresh(s) = {}
  BY PassEnds DEF Usage!EndIdle
<1>2. PICK kept : kept = mind[s]
  OBVIOUS
<1>3. DOMAIN kept = {"of", "samples"}
  BY <1>2 DEF UsageInv, UsageTypes, Usage!Services
<1>4. amiss' \subseteq {"failed", "overwritten"} /\ apart' \subseteq Usage!Services
  BY <1>1 DEF UsageInv, UsageTypes, Usage!TypeOK
<1>5. /\ UsageTypes' /\ MemoryIsTrue' /\ PassesAreOfThisHour'
      /\ mind'["tray"] = IF s = "tray" THEN kept ELSE mind["tray"]
  BY <1>1, <1>2, <1>3, <1>4, MemoriesStay
<1>6. FilesAreUpToDate'
  <2>1. given'.any = given.any
    <3>1. given.any \in [Asked -> SUBSET (1 .. hour)] /\ given'.any \in [Asked -> SUBSET (1 .. hour)]
      BY <1>1 DEF EndsPass, UsageInv, UsageTypes
    <3>2. \A a \in Asked : given'.any[a] = given.any[a]
      BY <1>1 DEF EndsPass
    <3>3. QED
      BY <3>1, <3>2
  <2>2. ASSUME amiss = {}, NEW t \in Usage!Services \ apart, t = "tray" \/ pass'[t] # Usage!NoPass
        PROVE  mind'[t].of = files.of
    <3>1. t = "tray" \/ pass[t] # Usage!NoPass
      BY <1>1, <2>2 DEF EndsPass
    <3>2. mind[t].of = files.of
      BY <2>2, <3>1 DEF UsageInv, FilesAreUpToDate
    <3>3. CASE t = "tray"
      BY <1>2, <1>5, <3>2, <3>3
    <3>4. CASE t # "tray"
      <4>1. t = "doctor" /\ s # "doctor"
        BY <1>1, <2>2, <3>4 DEF EndsPass, Usage!Services
      <4>2. mind'["doctor"] = mind["doctor"]
        BY <1>1, <4>1 DEF Usage!Kept, UsageInv, UsageTypes, Usage!Services
      <4>3. QED
        BY <3>2, <4>1, <4>2
    <3>5. QED
      BY <3>3, <3>4
  <2>3. amiss = {} => Usage!RestartKeepsTheAnswers'
    BY <1>1, <2>1 DEF UsageInv, FilesAreUpToDate, Usage!RestartKeepsTheAnswers
  <2>4. QED
    BY <1>1, <2>2, <2>3 DEF FilesAreUpToDate, Usage!NoPass, Usage!Services
<1>7. QED
  BY <1>5, <1>6 DEF UsageInv

LEMMA UsageKeeps == ASSUME Usage!UsageAssumption, UsageInv, Usage!Next PROVE UsageInv'
BY TrayAsksKeeps, DoctorAsksKeeps, HourPassesKeeps, TrayRestartsKeeps, EndIdleKeeps,
   EndSavedKeeps, EndUnsavedKeeps DEF Usage!Next

LEMMA UsageStays == ASSUME UsageInv, UNCHANGED usageVars PROVE UsageInv'
<1>1. UNCHANGED <<hour, mind, files, pass, passes, given, apart, amiss>>
  BY DEF usageVars
<1>2. UsageTypes' /\ MemoryIsTrue'
  BY <1>1 DEF UsageInv, UsageTypes, MemoryIsTrue, Usage!TypeOK, Usage!Services, Usage!Never
<1>3. PassesAreOfThisHour'
  BY <1>1, PassesLast
<1>4. FilesAreUpToDate'
  BY <1>1 DEF UsageInv, FilesAreUpToDate, Usage!RestartKeepsTheAnswers, Usage!Services, Usage!NoPass
<1>5. QED
  BY <1>2, <1>3, <1>4 DEF UsageInv

\* Rows that stand in are of windows that are open, and rows withheld are of none.
LEMMA StandingIn ==
    ASSUME Usage!UsageAssumption, hour \in Nat, NEW a \in Asked, NEW at \in 1 .. hour, NEW o \in Outcomes
    PROVE  /\ Usage!MayStandIn(a, at, o) => \A w \in Windows[a] : at \div w = hour \div w
           /\ o = "transient" /\ ~Usage!MayStandIn(a, at, o) =>
                 IF Windows[a] = {} THEN hour - at > KeptFor
                 ELSE \E w \in Windows[a] : at \div w # hour \div w
<1>1. at # Usage!Undated /\ at \in Nat /\ at <= hour /\ Windows[a] \subseteq Nat \ {0} /\ KeptFor \in Nat
  BY DEF Usage!Undated, Usage!UsageAssumption
<1>2. Usage!Closes(a, at) = {(at \div w + 1) * w : w \in Windows[a]}
  BY <1>1 DEF Usage!Closes
<1>3. \A w \in Windows[a] : (at \div w + 1) * w > hour <=> at \div w = hour \div w
  BY <1>1, SameWindow
<1>4. ASSUME Usage!MayStandIn(a, at, o), NEW w \in Windows[a]
      PROVE  at \div w = hour \div w
  <2>1. (at \div w + 1) * w \in Usage!Closes(a, at)
    BY <1>2
  <2>2. (at \div w + 1) * w > hour
    BY <1>1, <1>4, <2>1 DEF Usage!MayStandIn
  <2>3. QED
    BY <1>3, <2>2
<1>5. ASSUME o = "transient", ~Usage!MayStandIn(a, at, o), Windows[a] = {}
      PROVE  hour - at > KeptFor
  <2>1. Usage!Closes(a, at) = {}
    BY <1>2, <1>5
  <2>2. ~(hour - at <= KeptFor)
    BY <1>1, <1>5, <2>1 DEF Usage!MayStandIn
  <2>3. QED
    BY <1>1, <2>2
<1>6. ASSUME o = "transient", ~Usage!MayStandIn(a, at, o), Windows[a] # {}
      PROVE  \E w \in Windows[a] : at \div w # hour \div w
  <2>1. Usage!Closes(a, at) # {}
    BY <1>2, <1>6
  <2>2. PICK end \in Usage!Closes(a, at) : ~(end > hour)
    BY <1>1, <1>6, <2>1 DEF Usage!MayStandIn
  <2>3. PICK w \in Windows[a] : end = (at \div w + 1) * w
    BY <1>2
  <2>4. QED
    BY <1>3, <2>2, <2>3
<1>7. QED
  BY <1>4, <1>5, <1>6

LEMMA AnswersAreSafe ==
    ASSUME Usage!UsageAssumption, UsageInv
    PROVE  Usage!StandInsAreTheLatest /\ Usage!ReadingsAreAnswers /\ Usage!RestartKeepsTheAnswers
<1>1. Usage!ReadingsAreAnswers
  BY DEF UsageInv, MemoryIsTrue, Usage!ReadingsAreAnswers
<1>2. Usage!RestartKeepsTheAnswers
  BY DEF UsageInv, FilesAreUpToDate, Usage!RestartKeepsTheAnswers
<1>3. Usage!StandInsAreTheLatest
  <2> SUFFICES ASSUME NEW a \in DOMAIN pass["tray"], NEW r, r = pass["tray"][a],
                      NEW newest, newest = given.tray[a]
               PROVE  /\ r.cached => \A w \in Windows[a] : r.at = Usage!Undated \/ r.at \div w = hour \div w
                      /\ r.cached /\ newest # Usage!Never => r.at = newest
                      /\ r.kind = "transient" /\ newest # Usage!Never =>
                            IF Windows[a] = {} THEN hour - newest > KeptFor
                            ELSE \E w \in Windows[a] : newest \div w # hour \div w
    BY DEF Usage!StandInsAreTheLatest
  <2> DEFINE at == mind["tray"].of[a]
  <2>1. pass["tray"] # Usage!NoPass /\ a \in Asked
    <3>1. pass["tray"] # Usage!NoPass
      BY DEF Usage!NoPass
    <3>2. QED
      BY <3>1 DEF UsageInv, PassesAreOfThisHour, Usage!Services
  <2>2. PICK o \in Outcomes : r = Usage!Policy(a, o, mind["tray"].of)
    BY <2>1 DEF UsageInv, PassesAreOfThisHour
  <2>3. /\ hour \in Nat /\ at \in Usage!Never .. hour /\ (newest # Usage!Never => at = newest /\ newest \in 1 .. hour)
    BY <2>1 DEF UsageInv, UsageTypes, Usage!TypeOK, MemoryIsTrue
  <2>4. r.cached => r.at = at /\ at # Usage!Never /\ Usage!MayStandIn(a, at, o)
    BY <2>2 DEF Usage!Policy, Usage!Result
  <2>5. r.kind = "transient" => o = "transient" /\ (at = Usage!Never \/ ~Usage!MayStandIn(a, at, o))
    BY <2>2 DEF Usage!Policy, Usage!Result
  <2> HIDE DEF at
  <2>6. at = Usage!Never \/ at = Usage!Undated \/ at \in 1 .. hour
    BY <2>3 DEF Usage!Never, Usage!Undated
  <2>7. ASSUME r.cached, r.at # Usage!Undated, NEW w \in Windows[a]
        PROVE  r.at \div w = hour \div w
    <3>1. at \in 1 .. hour /\ r.at = at
      BY <2>4, <2>6, <2>7
    <3>2. QED
      BY <2>1, <2>3, <2>4, <2>7, <3>1, StandingIn
  <2>8. ASSUME r.kind = "transient", newest # Usage!Never
        PROVE  IF Windows[a] = {} THEN hour - newest > KeptFor
               ELSE \E w \in Windows[a] : newest \div w # hour \div w
    BY <2>1, <2>3, <2>5, <2>8, StandingIn
  <2>9. QED
    BY <2>3, <2>4, <2>7, <2>8
<1>4. QED
  BY <1>1, <1>2, <1>3

UsageHolds == part = "usage" => UsageInv

LEMMA UsageAlways == Spec => []UsageHolds
<1>1. Init => UsageHolds
  BY PartsAssumption, UsageBegins DEF Init, UsageHolds
<1>2. UsageHolds /\ [Next]_trayVars => UsageHolds'
  <2> SUFFICES ASSUME UsageHolds, [Next]_trayVars, part' = "usage" PROVE UsageInv'
    BY DEF UsageHolds
  <2>1. CASE UsageSteps
    BY <2>1, PartsAssumption, UsageKeeps DEF UsageSteps, UsageHolds
  <2>2. CASE UNCHANGED trayVars
    BY <2>2, UsageStays DEF trayVars, UsageHolds
  <2>3. CASE Next /\ ~UsageSteps
    BY <2>3 DEF Next, IconSteps, JobSteps, PanelSteps, DialogSteps, TranscriptSteps, SignInSteps,
                CreditSteps, NotifySteps, Rest
  <2>4. QED
    BY <2>1, <2>2, <2>3
<1>3. QED
  BY <1>1, <1>2, PTL DEF Spec

\* Rows that stand in for an answer are the newest this tray got and their windows are
\* open, a failure is shown only when they have nothing left to say, no reading of the
\* forecast was taken in an outage, and a restart loses no answer unless a save failed or
\* the other service wrote over it (UsageService._apply_cache_policy, fetch_all;
\* UsageCache.update_many; TrendStore.record).
THEOREM RestartsForgetNothing == Spec => []AnswersAreKept
<1>1. UsageHolds => AnswersAreKept
  BY PartsAssumption, AnswersAreSafe DEF UsageHolds, AnswersAreKept
<1>2. QED
  BY <1>1, UsageAlways, PTL

--------------------------------------------------------------------------------
(* The panel.                                                                      *)

\* _reorder_results, of the keys and of the enabled agents.
Placed(k, e) ==
    LET first == Within(e, Range(k)) IN  first \o Within(k, Range(k) \ Range(first))

LEMMA PlacedIsReordered ==
    ASSUME NEW k, NEW c
    PROVE  Panel!Reordered(k, c) = Placed(k, c.enabled)
BY DEF Panel!Reordered, Panel!Within, Panel!Without, Panel!Range, Placed, Within, Range

\* Placing neither loses nor repeats an element, and placing again changes nothing.
LEMMA PlacedKeeps ==
    ASSUME NEW X, NEW k \in Seq(X), NEW e \in Seq(X)
    PROVE  /\ Placed(k, e) \in Seq(X)
           /\ Range(Placed(k, e)) = Range(k)
           /\ Placed(Placed(k, e), e) = Placed(k, e)
           /\ IsInjective(k) /\ IsInjective(e) => IsInjective(Placed(k, e))
<1>1. PICK f \in Seq(X) : f = Within(e, Range(k)) /\ Range(f) = Range(e) \cap Range(k)
  <2>1. /\ Within(e, Range(k)) \in Seq(X)
        /\ Range(Within(e, Range(k))) = Range(e) \cap Range(k)
    BY WithinRange
  <2>2. QED
    BY <2>1, Zenon
<1>2. PICK r \in Seq(X) : r = Within(k, Range(k) \ Range(f))
                          /\ Range(r) = Range(k) \cap (Range(k) \ Range(f))
  <2>1. /\ Within(k, Range(k) \ Range(f)) \in Seq(X)
        /\ Range(Within(k, Range(k) \ Range(f))) = Range(k) \cap (Range(k) \ Range(f))
    BY WithinRange
  <2>2. QED
    BY <2>1, Zenon
<1>3. Placed(k, e) = f \o r
  BY <1>1, <1>2 DEF Placed
<1>4. PICK p \in Seq(X) : p = f \o r /\ Range(p) = Range(f) \cup Range(r)
  <2>1. f \o r \in Seq(X) /\ Range(f \o r) = Range(f) \cup Range(r)
    BY RangeConcat
  <2>2. QED
    BY <2>1, Zenon
<1>5. Range(p) = Range(k) /\ Range(f) \cap Range(r) = {}
  BY <1>1, <1>2, <1>4
<1>6. Placed(p, e) = p
  <2>1. Within(e, Range(p)) = f
    BY <1>1, <1>5
  <2>2. Range(p) \ Range(f) = Range(r)
    BY <1>4, <1>5
  <2>3. Within(p, Range(r)) = Within(f, Range(r)) \o Within(r, Range(r))
    BY <1>4, WithinConcat
  <2>4. Within(f, Range(r)) = <<>>
    BY <1>5, WithinNone
  <2>5. Within(r, Range(r)) = r
    BY WithinAll
  <2>6. <<>> \o r = r
    OBVIOUS
  <2>7. Placed(p, e) = f \o Within(p, Range(p) \ Range(f))
    BY <2>1 DEF Placed
  <2>8. QED
    BY <1>4, <2>2, <2>3, <2>4, <2>5, <2>6, <2>7
<1>7. ASSUME IsInjective(k), IsInjective(e) PROVE IsInjective(p)
  <2>1. IsInjective(f) /\ IsInjective(r)
    BY <1>1, <1>2, <1>7, WithinInjective
  <2>2. QED
    BY <1>4, <1>5, <2>1, ConcatInjective
<1>8. QED
  BY <1>3, <1>4, <1>5, <1>6, <1>7

Levelled == Levels \cup {Panel!Error}
Answers ==
    {m \in [keys : Seq(Providers), of : UNION {[S -> Levelled] : S \in SUBSET Providers}] :
        IsInjective(m.keys) /\ m.of \in [Range(m.keys) -> Levelled]}

\* A fetch asks about a config's agents, each once, and answers for each of them.
FetchTypes ==
    /\ fetches \in 0 .. MaxFetches
    /\ fetch \in [phase : {"idle", "asking", "running"}, about : Seq(Providers)]
    /\ fetch.phase # "running" => fetch.about = <<>>
    /\ IsInjective(fetch.about)
    /\ delivered \in Seq(Answers)

\* The sections are in the order of Settings, and what a fetch may still bring is known.
SectionsInOrder ==
    /\ config \in PanelConfigs
    /\ results \in [keys : Seq(Providers), of : [Providers -> Levelled]]
    /\ IsInjective(results.keys)
    /\ Placed(results.keys, config.enabled) = results.keys
    /\ Range(results.keys) \subseteq Range(config.enabled) \cup late
    /\ Panel!UnderWay \subseteq Range(config.enabled) \cup late

\* A latch is set exactly for the windows that rang and were not seen under since.
AlertsLatched ==
    /\ alerted \subseteq Providers
    /\ rang = [p \in Providers |-> IF p \in alerted THEN 1 ELSE 0]

\* The panel as it is laid out now.
Flyouts(h) == [visible : BOOLEAN, height : {h}, collapsed : SUBSET Providers, armed : BOOLEAN]
Laid(f, r, c) ==
    /\ f \in Flyouts(Panel!Height(r, f.collapsed, c))
    /\ f.armed <=> f.visible /\ c.clocks
PanelLaidOut == Laid(flyout, results, config)

NewestLookup ==
    /\ net \in [by : Nat, loading : BOOLEAN, token : 0 .. MaxTokens]
    /\ lookups \subseteq 1 .. MaxTokens
    /\ Panel!NewestAddressWins

PanelInv == FetchTypes /\ SectionsInOrder /\ AlertsLatched /\ PanelLaidOut /\ NewestLookup

LEMMA PanelLimits ==
    /\ Levels \subseteq Nat /\ MaxFetches \in Nat /\ MaxTokens \in Nat
    /\ \A c \in PanelConfigs : /\ c \in Panel!Configs
                               /\ c.enabled \in Seq(Providers) /\ IsInjective(c.enabled)
                               /\ c.threshold \in Nat /\ c.alerts \in BOOLEAN
                               /\ c.network \in BOOLEAN /\ c.clocks \in BOOLEAN
<1>1. Panel!PanelAssumption
  BY PartsAssumption
<1>2. PanelConfigs \subseteq Panel!Configs
  BY <1>1 DEF Panel!PanelAssumption
<1>3. \A c \in Panel!Configs : /\ c.enabled \in Seq(Providers) /\ c.threshold \in Nat
                               /\ c.alerts \in BOOLEAN /\ c.network \in BOOLEAN /\ c.clocks \in BOOLEAN
  BY DEF Panel!Configs
<1>4. \A c \in PanelConfigs : IsInjective(c.enabled)
  BY <1>1 DEF Panel!PanelAssumption, Panel!IsInjective, IsInjective
<1>5. QED
  BY <1>1, <1>2, <1>3, <1>4 DEF Panel!PanelAssumption

\* A fetch begins with nobody to ask about.
LEMMA StartFetchKeeps ==
    ASSUME FetchTypes, Panel!StartFetch
    PROVE  /\ fetches' \in 0 .. MaxFetches
           /\ fetch' \in [phase : {"idle", "asking", "running"}, about : Seq(Providers)]
           /\ fetch'.phase # "running" => fetch'.about = <<>>
           /\ fetch'.about = fetch.about
<1>1. CASE UNCHANGED <<fetch, fetches>>
  BY <1>1 DEF FetchTypes
<1>2. CASE /\ fetch = Panel!Idle /\ fetches < MaxFetches
           /\ fetch' = [Panel!Idle EXCEPT !.phase = "asking"] /\ fetches' = fetches + 1
  <2>1. fetch = [phase |-> "idle", about |-> <<>>] /\ fetch' = [phase |-> "asking", about |-> <<>>]
    BY <1>2 DEF Panel!Idle
  <2>2. fetches' \in 0 .. MaxFetches
    BY <1>2, PanelLimits DEF FetchTypes
  <2>3. <<>> \in Seq(Providers)
    OBVIOUS
  <2>4. QED
    BY <2>1, <2>2, <2>3
<1>3. QED
  BY <1>1, <1>2 DEF Panel!StartFetch

LEMMA FetchIsTyped ==
    ASSUME FetchTypes, config \in PanelConfigs, Panel!Next
    PROVE  FetchTypes'
<1>1. ASSUME fetch'.about = fetch.about,
             fetches' \in 0 .. MaxFetches,
             fetch' \in [phase : {"idle", "asking", "running"}, about : Seq(Providers)],
             fetch'.phase # "running" => fetch'.about = <<>>,
             delivered' \in Seq(Answers)
      PROVE  FetchTypes'
  BY <1>1 DEF FetchTypes
<1>2. CASE Panel!StartFetch /\ UNCHANGED delivered
  BY <1>1, <1>2, StartFetchKeeps DEF FetchTypes
<1>3. CASE UNCHANGED <<fetch, fetches, delivered>>
  BY <1>3 DEF FetchTypes
<1>4. CASE Panel!WorkerReadsConfig
  <2>1. fetch' = [phase |-> "running", about |-> config.enabled] /\ UNCHANGED <<fetches, delivered>>
    BY <1>4 DEF Panel!WorkerReadsConfig
  <2>2. config.enabled \in Seq(Providers) /\ IsInjective(config.enabled)
    BY PanelLimits
  <2>3. QED
    BY <2>1, <2>2 DEF FetchTypes
<1>5. CASE Panel!WorkerEnds
  <2>1. fetch' = Panel!Idle /\ UNCHANGED fetches
    BY <1>5 DEF Panel!WorkerEnds
  <2>2. /\ fetch' \in [phase : {"idle", "asking", "running"}, about : Seq(Providers)]
        /\ fetch'.about = <<>> /\ IsInjective(<<>>)
    BY <2>1 DEF Panel!Idle, IsInjective
  <2>3. delivered' \in Seq(Answers)
    <3>1. CASE UNCHANGED delivered
      BY <3>1 DEF FetchTypes
    <3>2. ASSUME NEW of \in [Panel!Range(fetch.about) -> Levels \cup {Panel!Error}],
                 delivered' = Append(delivered, [keys |-> fetch.about, of |-> of])
          PROVE  delivered' \in Seq(Answers)
      <4>1. of \in [Range(fetch.about) -> Levelled]
        BY DEF Panel!Range, Range, Levelled
      <4>2. fetch.about \in Seq(Providers) /\ IsInjective(fetch.about)
        BY DEF FetchTypes
      <4>3. Range(fetch.about) \in SUBSET Providers
        BY <4>2 DEF Range
      <4>4. of \in UNION {[S -> Levelled] : S \in SUBSET Providers}
        BY <4>1, <4>3
      <4>5. [keys |-> fetch.about, of |-> of] \in Answers
        BY <4>1, <4>2, <4>4 DEF Answers
      <4>6. QED
        BY <3>2, <4>5 DEF FetchTypes
    <3>3. QED
      BY <1>5, <3>1, <3>2 DEF Panel!WorkerEnds
  <2>4. QED
    BY <2>1, <2>2, <2>3 DEF FetchTypes
<1>6. CASE Panel!ApplyResults
  <2>1. delivered # <<>> /\ delivered' = Tail(delivered) /\ UNCHANGED <<fetch, fetches>>
    BY <1>6 DEF Panel!ApplyResults
  <2>2. delivered' \in Seq(Answers)
    BY <2>1 DEF FetchTypes
  <2>3. QED
    BY <2>1, <2>2 DEF FetchTypes
<1>7. CASE Panel!Activated
  <2>1. UNCHANGED delivered /\ (Panel!StartFetch \/ UNCHANGED <<fetch, fetches>>)
    BY <1>7 DEF Panel!Activated
  <2>2. QED
    BY <1>2, <1>3, <2>1
<1>8. CASE Panel!Refresh
  BY <1>2, <1>8 DEF Panel!Refresh
<1>9. CASE Panel!ApplySettings
  BY <1>2, <1>9 DEF Panel!ApplySettings
<1>10. CASE \/ Panel!ShowRequested \/ Panel!Hide \/ Panel!GuardPasses \/ Panel!Toggle
            \/ Panel!ClockTick \/ Panel!NetInfo
  BY <1>3, <1>10 DEF Panel!ShowRequested, Panel!Hide, Panel!GuardPasses, Panel!Toggle,
                     Panel!ClockTick, Panel!NetInfo
<1>11. QED
  BY <1>4, <1>5, <1>6, <1>7, <1>8, <1>9, <1>10 DEF Panel!Next

\* What a fetch may still bring, by the parts it is in.
LEMMA UnderWayIs ==
    /\ Panel!UnderWay = Range(fetch.about)
                        \cup UNION {Range(delivered[i].keys) : i \in DOMAIN delivered}
    /\ Panel!UnderWay' = Range(fetch'.about)
                         \cup UNION {Range(delivered'[i].keys) : i \in DOMAIN delivered'}
BY DEF Panel!UnderWay, Panel!Range, Range

\* Steps that hand on what is under way bring nothing new.
LEMMA HandedOn ==
    ASSUME FetchTypes, config \in PanelConfigs, Panel!Next, ~Panel!ApplySettings
    PROVE  Panel!UnderWay' \subseteq Panel!UnderWay \cup Range(config.enabled)
<1> DEFINE All(d) == UNION {Range(d[i].keys) : i \in DOMAIN d}
<1>1. CASE fetch'.about = fetch.about /\ UNCHANGED delivered
  BY <1>1, UnderWayIs
<1>2. CASE Panel!WorkerReadsConfig
  <2>1. fetch'.about = config.enabled /\ UNCHANGED delivered
    BY <1>2 DEF Panel!WorkerReadsConfig
  <2>2. QED
    BY <2>1, UnderWayIs
<1>3. CASE Panel!WorkerEnds
  <2>1. fetch'.about = <<>> /\ Range(<<>>) = {}
    BY <1>3 DEF Panel!WorkerEnds, Panel!Idle, Range
  <2>2. All(delivered') \subseteq All(delivered) \cup Range(fetch.about)
    <3>1. CASE UNCHANGED delivered
      BY <3>1
    <3>2. ASSUME NEW m, m.keys = fetch.about, delivered' = Append(delivered, m)
          PROVE  All(delivered') \subseteq All(delivered) \cup Range(fetch.about)
      <4>1. delivered \in Seq(Answers)
        BY DEF FetchTypes
      <4>2. /\ DOMAIN delivered' = 1 .. Len(delivered) + 1 /\ DOMAIN delivered = 1 .. Len(delivered)
            /\ Len(delivered) \in Nat
            /\ \A i \in 1 .. Len(delivered) : delivered'[i] = delivered[i]
            /\ delivered'[Len(delivered) + 1] = m
        BY <3>2, <4>1
      <4>3. \A i \in DOMAIN delivered' :
               (i \in DOMAIN delivered /\ delivered'[i] = delivered[i]) \/ delivered'[i] = m
        BY <4>2
      <4>4. \A i \in DOMAIN delivered' :
               Range(delivered'[i].keys) \subseteq All(delivered) \cup Range(fetch.about)
        BY <3>2, <4>3
      <4>5. QED
        BY <4>4
    <3>3. QED
      BY <1>3, <3>1, <3>2 DEF Panel!WorkerEnds
  <2>3. QED
    BY <2>1, <2>2, UnderWayIs
<1>4. CASE Panel!ApplyResults
  <2>1. UNCHANGED fetch /\ delivered \in Seq(Answers) /\ delivered # <<>> /\ delivered' = Tail(delivered)
    BY <1>4 DEF Panel!ApplyResults, FetchTypes
  <2>2. \A i \in DOMAIN delivered' : i + 1 \in DOMAIN delivered /\ delivered'[i] = delivered[i + 1]
    BY <2>1
  <2>3. All(delivered') \subseteq All(delivered)
    <3>1. \A i \in DOMAIN delivered' : Range(delivered'[i].keys) \subseteq All(delivered)
      BY <2>2
    <3>2. QED
      BY <3>1
  <2>4. QED
    BY <2>1, <2>3, UnderWayIs
<1>5. CASE Panel!Refresh \/ Panel!Activated
  <2>1. UNCHANGED delivered /\ (Panel!StartFetch \/ UNCHANGED <<fetch, fetches>>)
    BY <1>5 DEF Panel!Activated, Panel!Refresh
  <2>2. QED
    BY <1>1, <2>1, StartFetchKeeps
<1>6. CASE \/ Panel!ShowRequested \/ Panel!Hide \/ Panel!GuardPasses \/ Panel!Toggle
           \/ Panel!ClockTick \/ Panel!NetInfo
  BY <1>1, <1>6 DEF Panel!ShowRequested, Panel!Hide, Panel!GuardPasses, Panel!Toggle,
                    Panel!ClockTick, Panel!NetInfo
<1>7. QED
  BY <1>2, <1>3, <1>4, <1>5, <1>6 DEF Panel!Next

\* Two filters of Filters, as the panel's instance has them.
LEMMA PanelFilters ==
    ASSUME NEW s, NEW S
    PROVE  /\ Panel!Within(s, S) = Within(s, S)
           /\ Panel!Without(s, S) = Within(s, Range(s) \ S)
<1>1. \A T : Panel!Within(s, T) = Within(s, T)
  BY Zenon DEF Panel!Within, Within
<1>2. Panel!Range(s) = Range(s)
  BY Zenon DEF Panel!Range, Range
<1>3. Panel!Without(s, S) = Panel!Within(s, Range(s) \ S)
  BY <1>2, Zenon DEF Panel!Without
<1>4. QED
  BY <1>1, <1>3, Zenon

\* The sections after a poll's results are merged into them.
LEMMA MergedInOrder ==
    ASSUME FetchTypes, SectionsInOrder, Panel!ApplyResults
    PROVE  /\ results' \in [keys : Seq(Providers), of : [Providers -> Levelled]]
           /\ IsInjective(results'.keys)
           /\ Placed(results'.keys, config.enabled) = results'.keys
           /\ Range(results'.keys) \subseteq Range(config.enabled) \cup late
<1>1. PICK m : m = Head(delivered)
  OBVIOUS
<1>2. m \in Answers /\ 1 \in DOMAIN delivered /\ m = delivered[1]
  BY <1>1 DEF FetchTypes, Panel!ApplyResults
<1>3. m.keys \in Seq(Providers) /\ IsInjective(m.keys) /\ m.of \in [Range(m.keys) -> Levelled]
  BY <1>2 DEF Answers
<1>4. PICK old \in Seq(Providers) : old = results.keys
  BY DEF SectionsInOrder
<1>5. PICK fresh \in Seq(Providers) :
         /\ fresh = Within(m.keys, Range(m.keys) \ Range(old))
         /\ Range(fresh) = Range(m.keys) \cap (Range(m.keys) \ Range(old))
  <2>1. /\ Within(m.keys, Range(m.keys) \ Range(old)) \in Seq(Providers)
        /\ Range(Within(m.keys, Range(m.keys) \ Range(old)))
             = Range(m.keys) \cap (Range(m.keys) \ Range(old))
    BY <1>3, WithinRange
  <2>2. QED
    BY <2>1, Zenon
<1>6. PICK both \in Seq(Providers) : both = old \o fresh /\ Range(both) = Range(old) \cup Range(fresh)
  <2>1. old \o fresh \in Seq(Providers) /\ Range(old \o fresh) = Range(old) \cup Range(fresh)
    BY RangeConcat
  <2>2. QED
    BY <2>1, Zenon
<1>7. IsInjective(both)
  <2>1. IsInjective(fresh)
    BY <1>3, <1>5, WithinInjective
  <2>2. IsInjective(old) /\ Range(old) \cap Range(fresh) = {}
    BY <1>4, <1>5 DEF SectionsInOrder
  <2>3. QED
    BY <1>6, <2>1, <2>2, ConcatInjective
<1>8. PICK e \in Seq(Providers) : e = config.enabled /\ IsInjective(e)
  BY PanelLimits DEF SectionsInOrder
<1>9. results' = [keys |-> Placed(both, e),
                  of |-> [p \in Providers |-> IF p \in Range(m.keys) THEN m.of[p] ELSE results.of[p]]]
  <2>1. Panel!Range(m.keys) = Range(m.keys) /\ Panel!Range(results.keys) = Range(old)
    BY <1>4 DEF Panel!Range, Range
  <2>2. Panel!Without(m.keys, Panel!Range(results.keys)) = fresh
    BY <1>5, <2>1, PanelFilters
  <2>3. Panel!Reordered(results.keys \o fresh, config) = Placed(both, e)
    BY <1>4, <1>6, <1>8, PlacedIsReordered
  <2>4. QED
    BY <1>1, <2>1, <2>2, <2>3 DEF Panel!ApplyResults
<1>10. /\ Placed(both, e) \in Seq(Providers) /\ Range(Placed(both, e)) = Range(both)
       /\ Placed(Placed(both, e), e) = Placed(both, e) /\ IsInjective(Placed(both, e))
  BY <1>7, <1>8, PlacedKeeps
<1>11. [p \in Providers |-> IF p \in Range(m.keys) THEN m.of[p] ELSE results.of[p]] \in [Providers -> Levelled]
  <2>1. results.of \in [Providers -> Levelled]
    BY DEF SectionsInOrder
  <2>2. QED
    BY <1>3, <2>1
<1>12. Range(both) \subseteq Range(config.enabled) \cup late
  <2>1. Range(m.keys) \subseteq Panel!UnderWay
    BY <1>2, UnderWayIs
  <2>2. QED
    BY <1>4, <1>5, <1>6, <2>1 DEF SectionsInOrder
<1>13. QED
  BY <1>8, <1>9, <1>10, <1>11, <1>12

LEMMA SectionsStayInOrder ==
    ASSUME FetchTypes, SectionsInOrder, Panel!Next
    PROVE  SectionsInOrder'
<1>1. config \in PanelConfigs
  BY DEF SectionsInOrder
<1>2. CASE Panel!ApplySettings
  <2>1. PICK c \in PanelConfigs :
           /\ config' = c
           /\ results' = [results EXCEPT !.keys =
                            Panel!Reordered(Panel!Within(results.keys, Panel!Range(c.enabled)), c)]
           /\ late' = Panel!UnderWay \ Panel!Range(c.enabled)
           /\ Panel!StartFetch /\ UNCHANGED delivered
    BY <1>2 DEF Panel!ApplySettings
  <2>2. PICK e \in Seq(Providers) : e = c.enabled /\ IsInjective(e)
    BY PanelLimits
  <2>3. Panel!Range(c.enabled) = Range(e)
    BY <2>2 DEF Panel!Range, Range
  <2>4. PICK old \in Seq(Providers) : old = results.keys /\ IsInjective(old)
    BY DEF SectionsInOrder
  <2>5. PICK kept \in Seq(Providers) :
           kept = Within(old, Range(e)) /\ Range(kept) = Range(old) \cap Range(e)
    <3>1. /\ Within(old, Range(e)) \in Seq(Providers)
          /\ Range(Within(old, Range(e))) = Range(old) \cap Range(e)
      BY WithinRange
    <3>2. QED
      BY <3>1, Zenon
  <2>6. IsInjective(kept)
    BY <2>4, <2>5, WithinInjective
  <2>7. results' = [results EXCEPT !.keys = Placed(kept, e)]
    <3>1. Panel!Within(results.keys, Panel!Range(c.enabled)) = kept
      BY <2>3, <2>4, <2>5, PanelFilters
    <3>2. Panel!Reordered(kept, c) = Placed(kept, e)
      BY <2>2, PlacedIsReordered
    <3>3. QED
      BY <2>1, <3>1, <3>2
  <2>8. /\ Placed(kept, e) \in Seq(Providers) /\ Range(Placed(kept, e)) = Range(kept)
        /\ Placed(Placed(kept, e), e) = Placed(kept, e) /\ IsInjective(Placed(kept, e))
    BY <2>2, <2>6, PlacedKeeps
  <2>9. results \in [keys : Seq(Providers), of : [Providers -> Levelled]]
    BY DEF SectionsInOrder
  <2>10. results' \in [keys : Seq(Providers), of : [Providers -> Levelled]] /\ results'.keys = Placed(kept, e)
    BY <2>7, <2>8, <2>9
  <2>11. Panel!UnderWay' = Panel!UnderWay
    <3>1. fetch'.about = fetch.about
      BY <2>1, StartFetchKeeps
    <3>2. QED
      BY <2>1, <3>1, UnderWayIs
  <2>12. Panel!UnderWay' \subseteq Range(e) \cup late'
    BY <2>1, <2>3, <2>11
  <2>13. QED
    BY <2>1, <2>2, <2>5, <2>8, <2>10, <2>12 DEF SectionsInOrder
<1>3. ASSUME ~Panel!ApplySettings
      PROVE  Panel!UnderWay' \subseteq Range(config.enabled) \cup late
  BY <1>1, <1>3, HandedOn DEF SectionsInOrder
<1>4. CASE Panel!ApplyResults
  <2>1. UNCHANGED <<config, late>> /\ (Panel!UnderWay' \subseteq Range(config.enabled) \cup late)
    <3>1. CASE Panel!ApplySettings
      BY <1>4, <3>1 DEF Panel!ApplyResults, Panel!ApplySettings
    <3>2. CASE ~Panel!ApplySettings
      BY <1>3, <1>4, <3>2 DEF Panel!ApplyResults
    <3>3. QED
      BY <3>1, <3>2
  <2>2. QED
    BY <1>1, <1>4, <2>1, MergedInOrder DEF SectionsInOrder
<1>5. CASE ~Panel!ApplySettings /\ ~Panel!ApplyResults
  <2>1. UNCHANGED <<config, results, late>>
    BY <1>5 DEF Panel!Next, Panel!Refresh, Panel!WorkerReadsConfig, Panel!WorkerEnds, Panel!Activated,
                Panel!ShowRequested, Panel!Hide, Panel!GuardPasses, Panel!Toggle, Panel!ClockTick,
                Panel!NetInfo
  <2>2. QED
    BY <1>3, <1>5, <2>1 DEF SectionsInOrder
<1>6. QED
  BY <1>2, <1>4, <1>5

LEMMA AlertsStayLatched ==
    ASSUME FetchTypes, SectionsInOrder, AlertsLatched, Panel!Next
    PROVE  AlertsLatched'
<1>1. CASE UNCHANGED <<alerted, rang>>
  BY <1>1 DEF AlertsLatched
<1>2. CASE Panel!ApplyResults
  <2>1. PICK m : m = Head(delivered) /\ Panel!CheckUsageAlerts(m)
    BY <1>2 DEF Panel!ApplyResults
  <2>2. m \in Answers
    BY <1>2, <2>1 DEF FetchTypes, Panel!ApplyResults
  <2>3. m.keys \in Seq(Providers) /\ m.of \in [Range(m.keys) -> Levelled]
    BY <2>2 DEF Answers
  <2>4. Range(m.keys) \subseteq Providers
    BY <2>3 DEF Range
  <2>5. Panel!LimitRows(m) = {p \in Range(m.keys) : m.of[p] # Panel!Error}
    BY DEF Panel!LimitRows, Panel!Range, Range
  <2>6. \A p \in Panel!LimitRows(m) : p \in Providers /\ m.of[p] \in Nat
    BY <2>3, <2>4, <2>5, PanelLimits DEF Levelled
  <2>7. config.threshold \in Nat
    BY PanelLimits DEF SectionsInOrder
  <2>8. Panel!Under(m) \cap Panel!Crossed(m) = {} /\ Panel!Crossed(m) \subseteq Providers \ alerted
    BY <2>6, <2>7 DEF Panel!Under, Panel!Crossed
  <2>9. CASE UNCHANGED <<alerted, rang>>
    BY <1>1, <2>9
  <2>10. CASE /\ alerted' = (alerted \ Panel!Under(m)) \cup Panel!Crossed(m)
              /\ rang' = [p \in Providers |-> IF p \in Panel!Under(m) THEN 0
                                              ELSE IF p \in Panel!Crossed(m) THEN rang[p] + 1 ELSE rang[p]]
    <3>1. alerted' \subseteq Providers
      BY <2>8, <2>10 DEF AlertsLatched
    <3>2. \A p \in Providers : (IF p \in Panel!Under(m) THEN 0
                                ELSE IF p \in Panel!Crossed(m) THEN rang[p] + 1 ELSE rang[p])
                               = IF p \in (alerted \ Panel!Under(m)) \cup Panel!Crossed(m) THEN 1 ELSE 0
      <4>1. \A p \in Providers : rang[p] = IF p \in alerted THEN 1 ELSE 0
        BY DEF AlertsLatched
      <4>2. QED
        BY <2>8, <4>1
    <3>3. rang' = [p \in Providers |-> IF p \in (alerted \ Panel!Under(m)) \cup Panel!Crossed(m) THEN 1 ELSE 0]
      BY <2>10, <3>2
    <3>4. rang' = [p \in Providers |-> IF p \in alerted' THEN 1 ELSE 0]
      BY <2>10, <3>3
    <3>5. QED
      BY <3>1, <3>4 DEF AlertsLatched
  <2>11. QED
    BY <2>1, <2>9, <2>10 DEF Panel!CheckUsageAlerts
<1>3. CASE Panel!ApplySettings
  <2>1. PICK c \in PanelConfigs :
           /\ alerted' = IF c.threshold # config.threshold THEN {} ELSE alerted
           /\ rang' = IF c.threshold # config.threshold THEN [p \in Providers |-> 0] ELSE rang
    BY <1>3 DEF Panel!ApplySettings
  <2>2. CASE c.threshold # config.threshold
    BY <2>1, <2>2 DEF AlertsLatched
  <2>3. CASE c.threshold = config.threshold
    BY <1>1, <2>1, <2>3
  <2>4. QED
    BY <2>2, <2>3
<1>4. CASE ~Panel!ApplySettings /\ ~Panel!ApplyResults
  BY <1>1, <1>4 DEF Panel!Next, Panel!Refresh, Panel!WorkerReadsConfig, Panel!WorkerEnds,
                    Panel!Activated, Panel!ShowRequested, Panel!Hide, Panel!GuardPasses,
                    Panel!Toggle, Panel!ClockTick, Panel!NetInfo
<1>5. QED
  BY <1>2, <1>3, <1>4

\* Every step lays the panel out again for what it shows then.
LEMMA LaidAnew ==
    ASSUME NEW f, NEW r, NEW c, Laid(f, r, c), NEW s, NEW d, d.clocks \in BOOLEAN
    PROVE  Laid(Panel!SetResults(f, s, d), s, d)
<1>1. PICK h : f \in Flyouts(h)
  BY DEF Laid
<1>2. PICK k : k = Panel!Height(s, f.collapsed, d)
  OBVIOUS
<1>3. PICK b \in BOOLEAN : b = (f.visible /\ d.clocks)
  OBVIOUS
<1>4. PICK g : g = [f EXCEPT !.height = k, !.armed = b]
  OBVIOUS
<1>5. g \in Flyouts(k) /\ g.visible = f.visible /\ g.armed = b /\ g.collapsed = f.collapsed
  <2>1. g \in Flyouts(k)
    BY <1>1, <1>4 DEF Flyouts
  <2>2. g.visible = f.visible /\ g.armed = b /\ g.collapsed = f.collapsed
    BY <1>1, <1>4 DEF Flyouts
  <2>3. QED
    BY <2>1, <2>2
<1>6. Panel!SetResults(f, s, d) = g
  BY <1>2, <1>3, <1>4, Zenon DEF Panel!SetResults
<1>7. QED
  BY <1>2, <1>3, <1>5, <1>6, Zenon DEF Laid

LEMMA LaidSteps ==
    ASSUME NEW f, NEW r, NEW c, Laid(f, r, c), c.clocks \in BOOLEAN
    PROVE  /\ Laid([f EXCEPT !.visible = TRUE, !.armed = c.clocks], r, c)
           /\ Laid(Panel!Hidden(f), r, c)
           /\ Laid([f EXCEPT !.armed = f.visible /\ c.clocks], r, c)
           /\ \A S \in SUBSET Providers :
                 Laid([f EXCEPT !.collapsed = S, !.height = Panel!Height(r, S, c)], r, c)
           /\ f.collapsed \in SUBSET Providers
<1>1. PICK h : h = Panel!Height(r, f.collapsed, c) /\ f \in Flyouts(h)
  BY DEF Laid
<1>2. f.armed <=> f.visible /\ c.clocks
  BY DEF Laid
<1>3. f.collapsed \in SUBSET Providers
  BY <1>1 DEF Flyouts
<1>4. Laid([f EXCEPT !.visible = TRUE, !.armed = c.clocks], r, c)
  <2>1. PICK v \in BOOLEAN, b \in BOOLEAN : v = TRUE /\ b = c.clocks
    OBVIOUS
  <2>2. PICK g : g = [f EXCEPT !.visible = v, !.armed = b]
    OBVIOUS
  <2>3. g \in Flyouts(h) /\ g.visible = v /\ g.armed = b /\ g.collapsed = f.collapsed
    <3>1. g \in Flyouts(h)
      BY <1>1, <2>2 DEF Flyouts
    <3>2. g.visible = v /\ g.armed = b /\ g.collapsed = f.collapsed
      BY <1>1, <2>2 DEF Flyouts
    <3>3. QED
      BY <3>1, <3>2
  <2>4. Laid(g, r, c)
    BY <1>1, <2>1, <2>3, Zenon DEF Laid
  <2>5. QED
    BY <2>1, <2>2, <2>4, Zenon
<1>5. Laid(Panel!Hidden(f), r, c)
  <2>1. PICK v \in BOOLEAN, b \in BOOLEAN : v = FALSE /\ b = FALSE
    OBVIOUS
  <2>2. PICK g : g = [f EXCEPT !.visible = v, !.armed = b]
    OBVIOUS
  <2>3. g \in Flyouts(h) /\ g.visible = v /\ g.armed = b /\ g.collapsed = f.collapsed
    <3>1. g \in Flyouts(h)
      BY <1>1, <2>2 DEF Flyouts
    <3>2. g.visible = v /\ g.armed = b /\ g.collapsed = f.collapsed
      BY <1>1, <2>2 DEF Flyouts
    <3>3. QED
      BY <3>1, <3>2
  <2>4. Laid(g, r, c)
    BY <1>1, <2>1, <2>3, Zenon DEF Laid
  <2>5. QED
    BY <2>1, <2>2, <2>4, Zenon DEF Panel!Hidden
<1>6. Laid([f EXCEPT !.armed = f.visible /\ c.clocks], r, c)
  <2>1. PICK b \in BOOLEAN : b = (f.visible /\ c.clocks)
    OBVIOUS
  <2>2. PICK g : g = [f EXCEPT !.armed = b]
    OBVIOUS
  <2>3. g \in Flyouts(h) /\ g.visible = f.visible /\ g.armed = b /\ g.collapsed = f.collapsed
    <3>1. g \in Flyouts(h)
      BY <1>1, <2>2 DEF Flyouts
    <3>2. g.visible = f.visible /\ g.armed = b /\ g.collapsed = f.collapsed
      BY <1>1, <2>2 DEF Flyouts
    <3>3. QED
      BY <3>1, <3>2
  <2>4. Laid(g, r, c)
    BY <1>1, <2>1, <2>3, Zenon DEF Laid
  <2>5. QED
    BY <2>1, <2>2, <2>4, Zenon
<1>7. ASSUME NEW T \in SUBSET Providers
      PROVE  Laid([f EXCEPT !.collapsed = T, !.height = Panel!Height(r, T, c)], r, c)
  <2>1. PICK k : k = Panel!Height(r, T, c)
    OBVIOUS
  <2>2. PICK g : g = [f EXCEPT !.collapsed = T, !.height = k]
    OBVIOUS
  <2>3. g \in Flyouts(k) /\ g.visible = f.visible /\ g.armed = f.armed /\ g.collapsed = T
    <3>1. g \in Flyouts(k)
      BY <1>1, <2>2 DEF Flyouts
    <3>2. g.visible = f.visible /\ g.armed = f.armed /\ g.collapsed = T
      BY <1>1, <2>2 DEF Flyouts
    <3>3. QED
      BY <3>1, <3>2
  <2>4. Laid(g, r, c)
    BY <1>2, <2>1, <2>3, Zenon DEF Laid
  <2>5. QED
    BY <2>1, <2>2, <2>4, Zenon
<1>8. QED
  BY <1>3, <1>4, <1>5, <1>6, <1>7

LEMMA PanelStaysLaidOut ==
    ASSUME FetchTypes, SectionsInOrder, SectionsInOrder', PanelLaidOut, Panel!Next
    PROVE  PanelLaidOut'
<1>1. Laid(flyout, results, config) /\ config.clocks \in BOOLEAN
  BY PanelLimits DEF PanelLaidOut, SectionsInOrder
<1>2. config' \in PanelConfigs
  BY DEF SectionsInOrder
<1>3. config'.clocks \in BOOLEAN
  BY <1>2, PanelLimits
<1>4. SUFFICES Laid(flyout', results', config')
  BY DEF PanelLaidOut
<1>5. CASE UNCHANGED <<flyout, results, config>>
  BY <1>1, <1>5
<1>6. CASE Panel!ApplyResults \/ Panel!ApplySettings
  <2>1. flyout' = Panel!SetResults(flyout, results', config')
    BY <1>6 DEF Panel!ApplyResults, Panel!ApplySettings
  <2>2. Laid(Panel!SetResults(flyout, results', config'), results', config')
    BY <1>1, <1>3, LaidAnew
  <2>3. QED
    BY <2>1, <2>2
<1>7. CASE (Panel!Activated /\ ~flyout.visible) \/ Panel!ShowRequested
  <2>1. /\ UNCHANGED <<config, results>>
        /\ flyout' = Panel!Show(IF results.keys = <<>> THEN flyout
                                ELSE Panel!SetResults(flyout, results, config))
    BY <1>7 DEF Panel!Activated, Panel!ShowRequested
  <2>2. PICK f : f = (IF results.keys = <<>> THEN flyout ELSE Panel!SetResults(flyout, results, config))
    OBVIOUS
  <2>3. Laid(f, results, config)
    <3>1. Laid(Panel!SetResults(flyout, results, config), results, config)
      BY <1>1, LaidAnew
    <3>2. QED
      BY <1>1, <2>2, <3>1
  <2>4. flyout' = [f EXCEPT !.visible = TRUE, !.armed = config.clocks]
    BY <2>1, <2>2 DEF Panel!Show
  <2>5. Laid([f EXCEPT !.visible = TRUE, !.armed = config.clocks], results, config)
    BY <1>1, <2>3, LaidSteps
  <2>6. QED
    BY <2>1, <2>4, <2>5
<1>8. CASE (Panel!Activated /\ flyout.visible) \/ Panel!Hide
  <2>1. UNCHANGED <<config, results>> /\ flyout' = Panel!Hidden(flyout)
    BY <1>8 DEF Panel!Activated, Panel!Hide
  <2>2. QED
    BY <1>1, <2>1, LaidSteps
<1>9. CASE Panel!Toggle
  <2>1. PICK S :
           /\ UNCHANGED <<config, results>>
           /\ \E k \in Panel!Range(results.keys) :
                 S = IF k \in flyout.collapsed THEN flyout.collapsed \ {k} ELSE flyout.collapsed \cup {k}
           /\ flyout' = [flyout EXCEPT !.collapsed = S, !.height = Panel!Height(results, S, config)]
    BY <1>9 DEF Panel!Toggle
  <2>2. flyout.collapsed \in SUBSET Providers
    BY <1>1, LaidSteps
  <2>3. Panel!Range(results.keys) \subseteq Providers
    <3>1. results.keys \in Seq(Providers)
      BY DEF SectionsInOrder
    <3>2. QED
      BY <3>1 DEF Panel!Range
  <2>4. S \in SUBSET Providers
    BY <2>1, <2>2, <2>3
  <2>5. QED
    BY <1>1, <2>1, <2>4, LaidSteps
<1>10. CASE Panel!ClockTick
  <2>1. UNCHANGED <<config, results>> /\ flyout' = [flyout EXCEPT !.armed = flyout.visible /\ config.clocks]
    BY <1>10 DEF Panel!ClockTick
  <2>2. Laid([flyout EXCEPT !.armed = flyout.visible /\ config.clocks], results, config)
    BY <1>1, LaidSteps
  <2>3. QED
    BY <2>1, <2>2
<1>11. CASE Panel!Refresh \/ Panel!WorkerReadsConfig \/ Panel!WorkerEnds \/ Panel!GuardPasses \/ Panel!NetInfo
  BY <1>5, <1>11 DEF Panel!Refresh, Panel!WorkerReadsConfig, Panel!WorkerEnds, Panel!GuardPasses,
                     Panel!NetInfo
<1>12. QED
  BY <1>6, <1>7, <1>8, <1>9, <1>10, <1>11 DEF Panel!Next

\* A newer lookup is the only one that is listened to.
LEMMA NewestStaysTheLast ==
    ASSUME NewestLookup, config \in PanelConfigs, Panel!Next
    PROVE  NewestLookup'
<1>1. CASE UNCHANGED <<net, lookups>>
  BY <1>1 DEF NewestLookup, Panel!NewestAddressWins
<1>2. CASE Panel!RefreshNetwork
  <2>1. CASE /\ net.token < MaxTokens
             /\ net' = [by |-> 0, loading |-> TRUE, token |-> net.token + 1]
             /\ lookups' = lookups \cup {net.token + 1}
    <3>1. net.token \in 0 .. MaxTokens
      BY DEF NewestLookup
    <3>2. net.token + 1 \in 1 .. MaxTokens
      BY <2>1, <3>1, PanelLimits
    <3>3. net' \in [by : Nat, loading : BOOLEAN, token : 0 .. MaxTokens] /\ net'.by = 0
      BY <2>1, <3>2, PanelLimits
    <3>4. lookups' \subseteq 1 .. MaxTokens
      BY <2>1, <3>2 DEF NewestLookup
    <3>5. QED
      BY <3>3, <3>4 DEF NewestLookup, Panel!NewestAddressWins
  <2>2. QED
    BY <1>1, <1>2, <2>1 DEF Panel!RefreshNetwork
<1>3. CASE Panel!NetInfo
  <2>1. PICK token \in lookups, found \in BOOLEAN :
           /\ lookups' = lookups \ {token}
           /\ net' = IF token # net.token THEN net
                     ELSE [net EXCEPT !.by = IF found THEN token ELSE 0, !.loading = FALSE]
    BY <1>3 DEF Panel!NetInfo
  <2>2. lookups' \subseteq 1 .. MaxTokens /\ token \in Nat
    BY <2>1 DEF NewestLookup
  <2>3. CASE token # net.token
    BY <2>1, <2>2, <2>3 DEF NewestLookup, Panel!NewestAddressWins
  <2>4. CASE token = net.token
    <3>1. PICK b \in Nat : b = (IF found THEN token ELSE 0) /\ (b # 0 => b = net.token)
      BY <2>2, <2>4
    <3>2. net' = [by |-> b, loading |-> FALSE, token |-> net.token] /\ net.token \in 0 .. MaxTokens
      BY <2>1, <2>4, <3>1 DEF NewestLookup
    <3>3. QED
      BY <2>2, <3>1, <3>2 DEF NewestLookup, Panel!NewestAddressWins
  <2>5. QED
    BY <2>3, <2>4
<1>4. CASE Panel!Activated \/ Panel!ShowRequested
  BY <1>1, <1>2, <1>4 DEF Panel!Activated, Panel!ShowRequested
<1>5. CASE \/ Panel!Refresh \/ Panel!WorkerReadsConfig \/ Panel!WorkerEnds \/ Panel!ApplyResults
           \/ Panel!Hide \/ Panel!GuardPasses \/ Panel!Toggle \/ Panel!ClockTick \/ Panel!ApplySettings
  BY <1>1, <1>5 DEF Panel!Refresh, Panel!WorkerReadsConfig, Panel!WorkerEnds, Panel!ApplyResults,
                    Panel!Hide, Panel!GuardPasses, Panel!Toggle, Panel!ClockTick, Panel!ApplySettings
<1>6. QED
  BY <1>3, <1>4, <1>5 DEF Panel!Next

LEMMA PanelBegins ==
    ASSUME Panel!Init
    PROVE  PanelInv
<1>1. config \in PanelConfigs /\ config.clocks \in BOOLEAN /\ config.enabled \in Seq(Providers)
  BY PanelLimits DEF Panel!Init
<1>2. results = [keys |-> <<>>, of |-> [p \in Providers |-> Panel!Error]]
  BY DEF Panel!Init
<1>3. <<>> \in Seq(Providers) /\ Range(<<>>) = {} /\ IsInjective(<<>>)
  BY DEF Range, IsInjective
<1>4. FetchTypes
  <2>1. fetch = [phase |-> "idle", about |-> <<>>] /\ delivered = <<>> /\ fetches = 0
    BY DEF Panel!Init, Panel!Idle
  <2>2. <<>> \in Seq(Answers) /\ 0 \in 0 .. MaxFetches
    BY PanelLimits
  <2>3. QED
    BY <1>3, <2>1, <2>2 DEF FetchTypes
<1>5. SectionsInOrder
  <2>1. Placed(<<>>, config.enabled) = <<>>
    <3>1. Within(config.enabled, {}) = <<>>
      BY <1>1, WithinNone
    <3>2. Placed(<<>>, config.enabled) = <<>> \o Within(<<>>, {} \ Range(<<>>))
      BY <1>3, <3>1 DEF Placed
    <3>3. QED
      BY <3>2, WithinEmpty
  <2>2. Panel!UnderWay = {}
    <3>1. fetch.about = <<>> /\ delivered = <<>>
      BY DEF Panel!Init, Panel!Idle
    <3>2. DOMAIN <<>> = {}
      OBVIOUS
    <3>3. QED
      BY <1>3, <3>1, <3>2, UnderWayIs
  <2>3. [p \in Providers |-> Panel!Error] \in [Providers -> Levelled]
    BY DEF Levelled
  <2>4. QED
    BY <1>1, <1>2, <1>3, <2>1, <2>2, <2>3 DEF SectionsInOrder
<1>6. AlertsLatched
  BY DEF Panel!Init, AlertsLatched
<1>7. PanelLaidOut
  <2>1. flyout = [visible |-> FALSE, height |-> Panel!Height(results, {}, config), collapsed |-> {},
                  armed |-> FALSE]
    BY DEF Panel!Init
  <2>2. /\ flyout.collapsed = {} /\ flyout.visible = FALSE /\ flyout.armed = FALSE
        /\ flyout \in Flyouts(Panel!Height(results, {}, config))
    BY <2>1 DEF Flyouts
  <2>3. QED
    BY <2>2, Zenon DEF PanelLaidOut, Laid
<1>8. NewestLookup
  BY PanelLimits DEF Panel!Init, NewestLookup, Panel!NewestAddressWins
<1>9. QED
  BY <1>4, <1>5, <1>6, <1>7, <1>8 DEF PanelInv

LEMMA PanelKeeps ==
    ASSUME PanelInv, Panel!Next
    PROVE  PanelInv'
<1>1. FetchTypes /\ SectionsInOrder /\ AlertsLatched /\ PanelLaidOut /\ NewestLookup /\ config \in PanelConfigs
  BY DEF PanelInv, SectionsInOrder
<1>2. FetchTypes' /\ SectionsInOrder' /\ AlertsLatched' /\ NewestLookup'
  BY <1>1, FetchIsTyped, SectionsStayInOrder, AlertsStayLatched, NewestStaysTheLast
<1>3. PanelLaidOut'
  BY <1>1, <1>2, PanelStaysLaidOut
<1>4. QED
  BY <1>2, <1>3 DEF PanelInv

LEMMA PanelStays ==
    ASSUME PanelInv, UNCHANGED panelVars
    PROVE  PanelInv'
<1>1. UNCHANGED <<config, fetch, delivered, fetches, results, alerted, rang, flyout, net, lookups, late>>
  BY DEF panelVars
<1>2. FetchTypes' /\ AlertsLatched' /\ NewestLookup'
  BY <1>1 DEF PanelInv, FetchTypes, AlertsLatched, NewestLookup, Panel!NewestAddressWins
<1>3. Panel!UnderWay' = Panel!UnderWay
  BY <1>1, UnderWayIs
<1>4. SectionsInOrder'
  BY <1>1, <1>3 DEF PanelInv, SectionsInOrder
<1>5. PanelLaidOut'
  <2>1. Laid(flyout', results', config')
    BY <1>1 DEF PanelInv, PanelLaidOut
  <2>2. QED
    BY <2>1 DEF PanelLaidOut
<1>6. QED
  BY <1>2, <1>4, <1>5 DEF PanelInv

LEMMA PanelIsSafe ==
    ASSUME PanelInv
    PROVE  Panel!PanelIsCurrent /\ Panel!NewestAddressWins /\ Panel!AlertsOncePerCrossing /\ Panel!TypeOK
<1>1. /\ flyout \in Flyouts(Panel!Height(results, flyout.collapsed, config))
      /\ flyout.armed <=> flyout.visible /\ config.clocks
  BY DEF PanelInv, PanelLaidOut, Laid
<1>2. flyout.height = Panel!Height(results, flyout.collapsed, config) /\ flyout.collapsed \subseteq Providers
  BY <1>1 DEF Flyouts
<1>3. flyout.armed = (flyout.visible /\ config.clocks)
  <2>1. flyout.armed \in BOOLEAN
    BY <1>1 DEF Flyouts
  <2>2. QED
    BY <1>1, <2>1, Zenon
<1>4. Panel!Reordered(results.keys, config) = results.keys
  BY PlacedIsReordered DEF PanelInv, SectionsInOrder
<1>5. \A s : Panel!Range(s) = Range(s)
  BY DEF Panel!Range, Range
<1>6. Panel!PanelIsCurrent
  BY <1>2, <1>3, <1>4, <1>5, Zenon DEF PanelInv, SectionsInOrder, Panel!PanelIsCurrent
<1>7. Panel!NewestAddressWins /\ Panel!AlertsOncePerCrossing
  BY DEF PanelInv, NewestLookup, AlertsLatched, Panel!AlertsOncePerCrossing
<1>8. Panel!TypeOK
  <2>1. /\ config \in PanelConfigs /\ fetches \in 0 .. MaxFetches
        /\ fetch.phase \in {"idle", "asking", "running"} /\ fetch.about \in Seq(Providers)
        /\ results.keys \in Seq(Providers) /\ results.of \in [Providers -> Levels \cup {Panel!Error}]
        /\ alerted \subseteq Providers /\ net.token \in 0 .. MaxTokens /\ lookups \subseteq 1 .. MaxTokens
    BY DEF PanelInv, FetchTypes, SectionsInOrder, AlertsLatched, NewestLookup, Levelled
  <2>2. Panel!Range(fetch.about) \subseteq Providers /\ Panel!Range(results.keys) \subseteq Providers
    BY <2>1 DEF Panel!Range
  <2>3. Panel!IsInjective(results.keys)
    BY DEF PanelInv, SectionsInOrder, Panel!IsInjective, IsInjective
  <2>4. QED
    BY <1>2, <2>1, <2>2, <2>3 DEF Panel!TypeOK
<1>9. QED
  BY <1>6, <1>7, <1>8

PanelHolds == part = "panel" => PanelInv

LEMMA PanelAlways == Spec => []PanelHolds
<1>1. Init => PanelHolds
  BY PanelBegins DEF Init, PanelHolds
<1>2. PanelHolds /\ [Next]_trayVars => PanelHolds'
  <2> SUFFICES ASSUME PanelHolds, [Next]_trayVars, part' = "panel" PROVE PanelInv'
    BY DEF PanelHolds
  <2>1. CASE PanelSteps
    BY <2>1, PanelKeeps DEF PanelSteps, PanelHolds
  <2>2. CASE UNCHANGED trayVars
    BY <2>2, PanelStays DEF trayVars, PanelHolds
  <2>3. CASE Next /\ ~PanelSteps
    BY <2>3 DEF Next, IconSteps, JobSteps, UsageSteps, DialogSteps, TranscriptSteps, SignInSteps,
                CreditSteps, NotifySteps, Rest
  <2>4. QED
    BY <2>1, <2>2, <2>3
<1>3. QED
  BY <1>1, <1>2, PTL DEF Spec

\* The panel is laid out for the results, folds and bands of now, in the order of Settings,
\* each section once, its clock ticks while it is seen; an agent that was disabled comes back
\* only with an answer that was under way then (TrayApp._apply_results, _reorder_results,
\* _apply_settings; Flyout._layout); an address is the newest lookup's (_on_net_info), and a
\* window over the threshold rings once (_check_usage_alerts).
THEOREM PanelShowsWhatIs == Spec => []PanelIsCurrent
<1>1. PanelHolds => PanelIsCurrent
  BY PanelIsSafe DEF PanelHolds, PanelIsCurrent
<1>2. QED
  BY <1>1, PanelAlways, PTL


--------------------------------------------------------------------------------
(* Dialog: a config, the file it is written to, and what is read back.            *)

\* The lighting engines of a config, those the code itself names among them.
Names == STRING \cup {"chroma", "ghub", "steelseries", "openrgb"}
Fields == {"version", "order", "mode", "icon", "device", "chime", "awake", "collapsed",
           "command", "enabled", "tables"}

\* A config no consumer can choke on.
IsConfig(cfg) ==
    /\ DOMAIN cfg = Fields
    /\ cfg.version \in Int /\ cfg.order \in Seq(Names) /\ cfg.command \in Seq(STRING)
    /\ cfg.mode # Dialog!Junk /\ cfg.icon # Dialog!Junk /\ cfg.device # Dialog!Junk
    /\ cfg.enabled # {}

\* A file as tomllib reads it, whatever values it holds.
IsFile(file) ==
    ~Dialog!Unreadable(file) =>
        /\ DOMAIN file.raw = Fields
        /\ file.raw.version \in Int /\ file.raw.order \in Seq(Names)
        /\ Dialog!Parsed(file.raw.command) \in Seq(STRING)

LEMMA DefaultsAreAConfig ==
    /\ DOMAIN Dialog!Defaults = Fields
    /\ IsConfig(Dialog!Defaults)
<1>1. DOMAIN Dialog!Defaults = Fields
  BY DEF Dialog!Defaults, Fields
<1>2. Dialog!Defaults.version \in Int
  <2>1. Latest \in Nat
    BY PartsAssumption DEF Dialog!ConfigAssumption
  <2>2. QED
    BY <2>1 DEF Dialog!Defaults
<1>3. Dialog!Defaults.order \in Seq(Names)
  <2>1. {"chroma", "ghub", "steelseries", "openrgb"} \subseteq Names
    BY DEF Names
  <2>2. <<"chroma", "ghub", "steelseries", "openrgb">> \in Seq(Names)
    BY <2>1
  <2>3. QED
    BY <2>2 DEF Dialog!Defaults
<1>4. Dialog!Defaults.command \in Seq(STRING)
  BY DEF Dialog!Defaults
<1>5. /\ Dialog!Defaults.mode # Dialog!Junk /\ Dialog!Defaults.icon # Dialog!Junk
      /\ Dialog!Defaults.device # Dialog!Junk
  BY DEF Dialog!Defaults, Dialog!Junk
<1>6. Dialog!Defaults.enabled # {}
  BY DEF Dialog!Defaults
<1>7. QED
  BY <1>1, <1>2, <1>3, <1>4, <1>5, <1>6 DEF IsConfig

\* The dialog's copies of the operators are those the lemmas are about.
LEMMA DialogStrings ==
    ASSUME NEW s, NEW toml
    PROVE  /\ Dialog!TomlString(s) = TomlString(s) /\ Dialog!Parsed(toml) = Parsed(toml)
           /\ Dialog!Readable(toml) = Readable(toml) /\ Dialog!Legal(s) = Legal(s)
<1>1. \A t, c, by : Dialog!Replace(t, c, by) = Replace(t, c, by)
  BY DEF Dialog!Replace, Replace
<1>2. Dialog!Escaped(s) = Escaped(s)
  BY <1>1 DEF Dialog!Escaped, Escaped
<1>3. \A t : Dialog!Scanned(t) = Scanned(t)
  BY DEF Dialog!Scanned, Scanned, Dialog!Read, Read, Dialog!Escapes, Escapes, Dialog!Controls, Controls
<1>4. Dialog!TomlString(s) = TomlString(s) /\ Dialog!Parsed(toml) = Parsed(toml)
  BY <1>2, <1>3 DEF Dialog!TomlString, TomlString, Dialog!Parsed, Parsed
<1>5. Dialog!Readable(toml) = Readable(toml) /\ Dialog!Legal(s) = Legal(s)
  BY <1>3 DEF Dialog!Readable, Readable, Dialog!Legal, Legal, Dialog!Controls, Controls
<1>6. QED
  BY <1>4, <1>5

LEMMA DialogSequences ==
    ASSUME NEW s, NEW S
    PROVE  /\ Dialog!Within(s, S) = Within(s, S) /\ Dialog!Range(s) = Range(s)
BY DEF Dialog!Within, Within, Dialog!Range, Range

LEMMA CommandSurvives ==
    ASSUME NEW s \in Seq(STRING)
    PROVE  /\ Dialog!Readable(Dialog!TomlString(s)) => Dialog!Parsed(Dialog!TomlString(s)) = s
           /\ Dialog!Legal(s) => Dialog!Readable(Dialog!TomlString(s))
BY DialogStrings, StringsSurvive

\* An engine that is missing is put in, and the others stay as they are.
LEMMA InsertedEngine ==
    ASSUME NEW o \in Seq(Names), NEW e \in Names, NEW after, NEW S
    PROVE  /\ Dialog!Inserted(o, e, after) \in Seq(Names)
           /\ Range(Dialog!Inserted(o, e, after)) = Range(o) \cup {e}
           /\ e \in Range(o) \/ e \notin S
              => Within(Dialog!Inserted(o, e, after), S) = Within(o, S)
<1>1. CASE e \in Range(o)
  <2>1. Dialog!Inserted(o, e, after) = o
    BY <1>1, DialogSequences DEF Dialog!Inserted
  <2>2. QED
    BY <1>1, <2>1
<1>2. CASE e \notin Range(o) /\ after \in Range(o)
  <2>1. PICK i \in DOMAIN o : i = CHOOSE j \in DOMAIN o : o[j] = after
    <3>1. \E j \in DOMAIN o : o[j] = after
      BY <1>2 DEF Range
    <3>2. QED
      BY <3>1
  <2>2. i \in 0 .. Len(o)
    OBVIOUS
  <2>3. Dialog!Inserted(o, e, after) = Spliced(o, i, e)
    BY <1>2, <2>1, DialogSequences DEF Dialog!Inserted, Spliced
  <2>4. QED
    BY <1>2, <2>2, <2>3, WithinInserted DEF Inserting
<1>3. CASE e \notin Range(o) /\ after \notin Range(o)
  <2>1. Dialog!Inserted(o, e, after) = <<e>> \o o
    BY <1>3, DialogSequences DEF Dialog!Inserted
  <2>2. 0 \in 0 .. Len(o)
    OBVIOUS
  <2>3. Spliced(o, 0, e) = <<e>> \o o
    <3>1. SubSeq(o, 1, 0) = <<>> /\ SubSeq(o, 0 + 1, Len(o)) = o /\ <<e>> \in Seq(Names)
      BY SubSeqFull, SubSeqEmpty
    <3>2. <<>> \o <<e>> = <<e>>
      BY <3>1, ConcatEmptySeq
    <3>3. QED
      BY <3>1, <3>2 DEF Spliced
  <2>4. Spliced(o, 0, e) \in Seq(Names) /\ Inserting(Spliced(o, 0, e), o, e, S)
    BY <2>2, WithinInserted
  <2>5. Dialog!Inserted(o, e, after) = Spliced(o, 0, e)
    BY <2>1, <2>3
  <2>6. QED
    BY <1>3, <2>4, <2>5 DEF Inserting
<1>4. QED
  BY <1>1, <1>2, <1>3

\* The order brought up to date has the new engines, and the old ones as they were.
Updated(new, old, version) ==
    /\ new \in Seq(Names)
    /\ Within(new, Range(old)) = old
    /\ version < Latest => {"ghub", "steelseries"} \subseteq Range(new)
LEMMA OrderIsUpdated ==
    ASSUME NEW o \in Seq(Names), NEW version \in Int
    PROVE  Updated(Dialog!Migrated(o, version), o, version)
<1>0. Latest \in Int
  BY PartsAssumption DEF Dialog!ConfigAssumption
<1>1. Within(o, Range(o)) = o
  BY WithinAll
<1>2. CASE version >= Latest
  <2>1. Dialog!Migrated(o, version) = o
    BY <1>2 DEF Dialog!Migrated
  <2>2. QED
    BY <1>0, <1>1, <1>2, <2>1 DEF Updated
<1>3. CASE ~(version >= Latest)
  <2>0. "ghub" \in Names /\ "steelseries" \in Names
    BY DEF Names
  <2>1. PICK p \in Seq(Names) : p = Dialog!Inserted(o, "ghub", "chroma")
    <3>1. Dialog!Inserted(o, "ghub", "chroma") \in Seq(Names)
      BY <2>0, InsertedEngine
    <3>2. QED
      BY <3>1, Zenon
  <2>2. Range(p) = Range(o) \cup {"ghub"} /\ Within(p, Range(o)) = Within(o, Range(o))
    BY <2>0, <2>1, InsertedEngine
  <2>3. PICK q \in Seq(Names) : q = Dialog!Inserted(p, "steelseries", "ghub")
    <3>1. Dialog!Inserted(p, "steelseries", "ghub") \in Seq(Names)
      BY <2>0, InsertedEngine
    <3>2. QED
      BY <3>1, Zenon
  <2>4. /\ Range(q) = Range(p) \cup {"steelseries"}
        /\ Within(q, Range(o)) = Within(p, Range(o))
    BY <2>0, <2>2, <2>3, InsertedEngine
  <2>5. Dialog!Migrated(o, version) = q
    BY <1>3, <2>1, <2>3 DEF Dialog!Migrated
  <2>6. QED
    BY <1>1, <2>2, <2>4, <2>5 DEF Updated
<1>4. QED
  BY <1>2, <1>3

\* What load() makes of a file it can read, field by field.
ReadAs(cfg, raw) ==
    /\ DOMAIN cfg = Fields
    /\ cfg.order = Dialog!Migrated(raw.order, raw.version)
    /\ cfg.version = IF cfg.order # raw.order THEN Latest ELSE raw.version
    /\ cfg.mode = Dialog!Coerced(raw.mode, Dialog!Defaults.mode)
    /\ cfg.icon = Dialog!Coerced(raw.icon, Dialog!Defaults.icon)
    /\ cfg.device = Dialog!Coerced(raw.device, Dialog!Defaults.device)
    /\ cfg.enabled = IF raw.enabled = {} THEN Dialog!Defaults.enabled ELSE raw.enabled
    /\ cfg.command = Dialog!Parsed(raw.command)
    /\ cfg.awake = raw.awake /\ cfg.collapsed = raw.collapsed /\ cfg.chime = raw.chime
    /\ cfg.tables = raw.tables
LEMMA LoadReads ==
    ASSUME NEW file, ~Dialog!Unreadable(file), DOMAIN file.raw = Fields
    PROVE  ReadAs(Dialog!Load(file), file.raw)
<1>1. PICK raw : raw = file.raw
  OBVIOUS
<1>2. PICK order, version :
        /\ order = Dialog!Migrated(raw.order, raw.version)
        /\ version = IF order # raw.order THEN Latest ELSE raw.version
  OBVIOUS
<1>3. PICK mode, icon, device :
        /\ mode = Dialog!Coerced(raw.mode, Dialog!Defaults.mode)
        /\ icon = Dialog!Coerced(raw.icon, Dialog!Defaults.icon)
        /\ device = Dialog!Coerced(raw.device, Dialog!Defaults.device)
  OBVIOUS
<1>4. PICK enabled, command :
        /\ enabled = IF raw.enabled = {} THEN Dialog!Defaults.enabled ELSE raw.enabled
        /\ command = Dialog!Parsed(raw.command)
  OBVIOUS
<1>5. PICK cfg : cfg = Dialog!Load(file)
  OBVIOUS
<1>6. cfg = [raw EXCEPT !.order = order, !.version = version, !.mode = mode, !.icon = icon,
                        !.device = device, !.enabled = enabled, !.command = command]
  BY <1>1, <1>2, <1>3, <1>4, <1>5 DEF Dialog!Load
<1>7. /\ DOMAIN cfg = Fields
      /\ cfg.order = order /\ cfg.version = version /\ cfg.mode = mode /\ cfg.icon = icon
      /\ cfg.device = device /\ cfg.enabled = enabled /\ cfg.command = command
      /\ cfg.awake = raw.awake /\ cfg.collapsed = raw.collapsed /\ cfg.chime = raw.chime
      /\ cfg.tables = raw.tables
  BY <1>1, <1>6 DEF Fields
<1>8. ReadAs(cfg, raw)
  BY <1>2, <1>3, <1>4, <1>7 DEF ReadAs
<1>9. QED
  BY <1>1, <1>5, <1>8

\* What load() makes of any file is usable.
LEMMA LoadIsAConfig ==
    ASSUME NEW file, IsFile(file)
    PROVE  IsConfig(Dialog!Load(file))
<1>1. CASE Dialog!Unreadable(file)
  BY <1>1, DefaultsAreAConfig DEF Dialog!Load
<1>2. CASE ~Dialog!Unreadable(file)
  <2>1. PICK raw, cfg : raw = file.raw /\ cfg = Dialog!Load(file)
    OBVIOUS
  <2>2. /\ DOMAIN raw = Fields /\ raw.version \in Int /\ raw.order \in Seq(Names)
        /\ Dialog!Parsed(raw.command) \in Seq(STRING)
    BY <1>2, <2>1 DEF IsFile
  <2>3. ReadAs(cfg, raw)
    BY <1>2, <2>1, <2>2, LoadReads
  <2>4. cfg.order \in Seq(Names)
    BY <2>2, <2>3, OrderIsUpdated DEF Updated, ReadAs
  <2>5. cfg.version \in Int
    BY <2>2, <2>3, PartsAssumption DEF Dialog!ConfigAssumption, ReadAs
  <2>6. cfg.mode # Dialog!Junk /\ cfg.icon # Dialog!Junk /\ cfg.device # Dialog!Junk
    BY <2>3, DefaultsAreAConfig DEF Dialog!Coerced, IsConfig, ReadAs
  <2>7. cfg.enabled # {}
    BY <2>3, DefaultsAreAConfig DEF IsConfig, ReadAs
  <2>8. QED
    BY <2>1, <2>2, <2>3, <2>4, <2>5, <2>6, <2>7 DEF IsConfig, ReadAs
<1>3. QED
  BY <1>1, <1>2

\* What the tray chooses of a config it has loaded again: the same.
LEMMA TablesAreDetected ==
    ASSUME NEW cfg, DOMAIN cfg = Fields
    PROVE  Dialog!Detection(Dialog!WithTables(cfg).tables) = Dialog!Detection(cfg.tables)
<1>1. PICK tables : /\ tables = Dialog!WithTables(cfg).tables
                    /\ tables = [a \in DOMAIN Adapters |->
                         IF a \in cfg.enabled /\ cfg.tables[a] = Dialog!NoTable
                         THEN "event" ELSE cfg.tables[a]]
  BY DEF Dialog!WithTables, Fields
<1>2. "event" # Dialog!NoTable
  BY DEF Dialog!NoTable
<1>3. \A a \in DOMAIN Adapters : \/ tables[a] = cfg.tables[a]
                                 \/ tables[a] = "event" /\ cfg.tables[a] = Dialog!NoTable
  BY <1>1
<1>4. \A a \in DOMAIN Adapters :
        (IF tables[a] = Dialog!NoTable THEN "event" ELSE tables[a])
        = (IF cfg.tables[a] = Dialog!NoTable THEN "event" ELSE cfg.tables[a])
  BY <1>2, <1>3
<1>5. QED
  BY <1>1, <1>4 DEF Dialog!Detection

LEMMA TablesAreAdded ==
    ASSUME NEW cfg, IsConfig(cfg)
    PROVE  /\ IsConfig(Dialog!WithTables(cfg))
           /\ Dialog!Chosen(Dialog!WithTables(cfg)) = Dialog!Chosen(cfg)
<1>1. PICK t : Dialog!WithTables(cfg) = [cfg EXCEPT !.tables = t]
  BY DEF Dialog!WithTables
<1>2. PICK c : c = Dialog!WithTables(cfg)
  OBVIOUS
<1>3. DOMAIN c = Fields /\ \A x \in Fields : x # "tables" => c[x] = cfg[x]
  BY <1>1, <1>2 DEF IsConfig
<1>4. /\ c.version = cfg.version /\ c.order = cfg.order /\ c.command = cfg.command
      /\ c.mode = cfg.mode /\ c.icon = cfg.icon /\ c.device = cfg.device
      /\ c.enabled = cfg.enabled /\ c.awake = cfg.awake /\ c.collapsed = cfg.collapsed
      /\ c.chime = cfg.chime
  BY <1>3 DEF Fields
<1>5. Dialog!Detection(c.tables) = Dialog!Detection(cfg.tables)
  BY <1>2, TablesAreDetected DEF IsConfig
<1>6. IsConfig(c)
  BY <1>3, <1>4 DEF IsConfig
<1>7. Dialog!Chosen(c) = Dialog!Chosen(cfg)
  BY <1>4, <1>5 DEF Dialog!Chosen
<1>8. QED
  BY <1>2, <1>6, <1>7

\* A saved config comes back, if its command is one tomllib reads.
IsLoadedAs(file, chosen) ==
    Dialog!Legal(chosen.command) => Dialog!Chosen(Dialog!Load(file)) = chosen
LEMMA SavedIsLoaded ==
    ASSUME NEW cfg, IsConfig(cfg)
    PROVE  IsFile(Dialog!Dumps(cfg)) /\ IsLoadedAs(Dialog!Dumps(cfg), Dialog!Chosen(cfg))
<1>1. PICK c : c = Dialog!WithTables(cfg) /\ IsConfig(c)
               /\ Dialog!Chosen(c) = Dialog!Chosen(cfg)
  BY TablesAreAdded
<1>2. c.command = cfg.command
  BY <1>1 DEF Dialog!WithTables, IsConfig, Fields
<1>3. PICK raw : raw = [c EXCEPT !.command = Dialog!TomlString(cfg.command)]
  OBVIOUS
<1>4. Dialog!Dumps(cfg) = [kind |-> "toml", raw |-> raw]
  BY <1>1, <1>3 DEF Dialog!Dumps
<1>5. DOMAIN raw = Fields /\ \A x \in Fields : x # "command" => raw[x] = c[x]
  BY <1>1, <1>3 DEF IsConfig
<1>6. /\ raw.version = c.version /\ raw.order = c.order /\ raw.tables = c.tables
      /\ raw.mode = c.mode /\ raw.icon = c.icon /\ raw.device = c.device
      /\ raw.enabled = c.enabled /\ raw.awake = c.awake /\ raw.collapsed = c.collapsed
      /\ raw.chime = c.chime
  BY <1>5 DEF Fields
<1>7. /\ c.command \in Seq(STRING) /\ raw.command = Dialog!TomlString(c.command)
      /\ Dialog!Readable(raw.command) => Dialog!Parsed(raw.command) = c.command
      /\ Dialog!Legal(c.command) => Dialog!Readable(raw.command)
  <2>1. raw.command = Dialog!TomlString(cfg.command)
    BY <1>1, <1>3 DEF IsConfig, Fields
  <2>2. cfg.command \in Seq(STRING)
    BY DEF IsConfig
  <2>3. QED
    BY <1>2, <2>1, <2>2, CommandSurvives
<1>8. PICK file : file = Dialog!Dumps(cfg) /\ file.kind = "toml" /\ file.raw = raw
  BY <1>4
<1>9. Dialog!Unreadable(file) <=> ~Dialog!Readable(raw.command)
  BY <1>8 DEF Dialog!Unreadable
<1>10. IsFile(file)
  BY <1>1, <1>5, <1>6, <1>7, <1>8, <1>9 DEF IsFile, IsConfig
<1>11. ASSUME Dialog!Legal(c.command) PROVE Dialog!Chosen(Dialog!Load(file)) = Dialog!Chosen(c)
  <2>1. PICK d : d = Dialog!Load(file) /\ ReadAs(d, raw)
    BY <1>5, <1>7, <1>8, <1>9, <1>11, LoadReads
  <2>2. /\ d.mode = c.mode /\ d.icon = c.icon /\ d.device = c.device /\ d.enabled = c.enabled
        /\ d.command = c.command
    BY <1>1, <1>6, <1>7, <1>11, <2>1 DEF Dialog!Coerced, IsConfig, ReadAs
  <2>3. Dialog!Chosen(d) = Dialog!Chosen(c)
    BY <1>6, <2>1, <2>2 DEF Dialog!Chosen, ReadAs
  <2>4. QED
    BY <2>1, <2>3
<1>12. Dialog!Chosen(cfg).command = c.command
  BY <1>2 DEF Dialog!Chosen
<1>13. QED
  BY <1>1, <1>8, <1>10, <1>11, <1>12 DEF IsLoadedAs

DialogTypes ==
    /\ dialog.phase \in {"closed", "open", "prompting"} /\ running \in BOOLEAN
    /\ dialog = [phase |-> dialog.phase, result |-> dialog.result]
    /\ behind \subseteq {"failed", "overwritten"}
    /\ DOMAIN choice = DOMAIN Dialog!Chosen(Dialog!Defaults)

ConfigsAreUsable == IsConfig(live) /\ IsFile(disk)

\* What an OK that waits for its question will leave: it owns all but these two.
Pending(result, cfg) ==
    [Dialog!Chosen(result) EXCEPT !.awake = cfg.awake, !.collapsed = cfg.collapsed]

\* The last choices are in force, or will be once the dialog has closed.
ChoicesInForce ==
    /\ ~running => dialog.phase = "closed"
    /\ running /\ dialog.phase # "prompting" => Dialog!Chosen(live) = choice
    /\ dialog.phase = "prompting" => IsConfig(dialog.result) /\ choice = Pending(dialog.result, live)

DialogInv == DialogTypes /\ ConfigsAreUsable /\ ChoicesInForce /\ Dialog!ChoicesSurviveARestart

LEMMA DialogStarts == Init => DialogInv
<1> SUFFICES ASSUME Init PROVE DialogInv
  OBVIOUS
<1>1. /\ disk \in Files /\ running = ~Dialog!Raises(disk)
      /\ live = (IF running THEN Dialog!Load(disk) ELSE Dialog!Defaults)
      /\ choice = Dialog!Chosen(live)
      /\ dialog = [phase |-> "closed", result |-> Dialog!Defaults] /\ behind = {}
  BY DEF Init, Dialog!Init, Dialog!Closed
<1>2. IsFile(disk)
  <2>1. \A f \in Files : ~Dialog!Unreadable(f) =>
          /\ DOMAIN f.raw = DOMAIN Dialog!Defaults
          /\ f.raw.version \in Int /\ f.raw.order \in Seq(STRING)
          /\ Dialog!Parsed(f.raw.command) \in Seq(STRING)
    BY PartsAssumption DEF Dialog!SettingsAssumption
  <2>2. Seq(STRING) \subseteq Seq(Names)
    <3>1. STRING \subseteq Names
      BY DEF Names
    <3>2. QED
      BY <3>1, SeqMonotonic
  <2>3. QED
    BY <1>1, <2>1, <2>2, DefaultsAreAConfig DEF IsFile, Dialog!Unreadable
<1>3. IsConfig(live)
  BY <1>1, <1>2, LoadIsAConfig, DefaultsAreAConfig
<1>4. DialogTypes
  BY <1>1 DEF DialogTypes, Dialog!Chosen
<1>5. QED
  BY <1>1, <1>2, <1>3, <1>4
  DEF DialogInv, ConfigsAreUsable, ChoicesInForce, Dialog!ChoicesSurviveARestart

\* The three fields a menu or the panel changes.
Menus(cfg, new, field, value) ==
    /\ IsConfig(new)
    /\ Dialog!Chosen(new) = [Dialog!Chosen(cfg) EXCEPT ![field] = value]
    /\ field # "awake" => new.awake = cfg.awake
    /\ field # "collapsed" => new.collapsed = cfg.collapsed
    /\ field \in {"awake", "collapsed"} => new[field] = value
LEMMA MenuChanges ==
    ASSUME NEW cfg, IsConfig(cfg), NEW value, NEW field \in {"chime", "awake", "collapsed"}
    PROVE  Menus(cfg, [cfg EXCEPT ![field] = value], field, value)
<1>1. PICK new : new = [cfg EXCEPT ![field] = value]
  OBVIOUS
<1>2. DOMAIN new = Fields /\ new[field] = value /\ \A x \in Fields \ {field} : new[x] = cfg[x]
  BY <1>1 DEF IsConfig, Fields
<1>3. /\ new.version = cfg.version /\ new.order = cfg.order /\ new.command = cfg.command
      /\ new.mode = cfg.mode /\ new.icon = cfg.icon /\ new.device = cfg.device
      /\ new.enabled = cfg.enabled /\ new.tables = cfg.tables
      /\ new.chime = IF field = "chime" THEN value ELSE cfg.chime
      /\ new.awake = IF field = "awake" THEN value ELSE cfg.awake
      /\ new.collapsed = IF field = "collapsed" THEN value ELSE cfg.collapsed
  BY <1>2 DEF Fields
<1>4. IsConfig(new)
  BY <1>2, <1>3 DEF IsConfig
<1>5. Dialog!Chosen(new) = [Dialog!Chosen(cfg) EXCEPT ![field] = value]
  BY <1>3 DEF Dialog!Chosen
<1>6. QED
  BY <1>1, <1>2, <1>3, <1>4, <1>5 DEF Menus

\* What the dialog makes of the live config.
LEMMA ResultIsAConfig ==
    ASSUME IsConfig(live), NEW e \in Edits, e.ticks # {}
    PROVE  /\ IsConfig(Dialog!Result(e))
           /\ Dialog!Result(e).awake = live.awake /\ Dialog!Result(e).collapsed = live.collapsed
<1>0. e.mode # Dialog!Junk /\ e.command \in Seq(STRING)
  BY PartsAssumption DEF Dialog!SettingsAssumption
<1>1. PICK a : a = [live EXCEPT !.enabled = e.ticks, !.chime = e.chime, !.mode = e.mode,
                                !.command = e.command]
  OBVIOUS
<1>2. /\ IsConfig(a) /\ a.awake = live.awake /\ a.collapsed = live.collapsed
  BY <1>0, <1>1 DEF IsConfig, Fields
<1>3. PICK b : b = Dialog!Seeded(a, e.ticks \ live.enabled)
  OBVIOUS
<1>4. PICK t : b = [a EXCEPT !.tables = t]
  BY <1>3 DEF Dialog!Seeded
<1>5. IsConfig(b) /\ b.awake = a.awake /\ b.collapsed = a.collapsed
  BY <1>2, <1>4 DEF IsConfig, Fields
<1>6. PICK c : c = Dialog!Coloured(b, e.colour)
  OBVIOUS
<1>7. IsConfig(c) /\ c.awake = b.awake /\ c.collapsed = b.collapsed
  <2>1. CASE e.colour = "edited"
    <3>1. c = [b EXCEPT !.icon = "picked", !.device = "picked"]
      BY <1>6, <2>1 DEF Dialog!Coloured
    <3>2. QED
      BY <1>5, <3>1 DEF IsConfig, Fields, Dialog!Junk
  <2>2. CASE e.colour = "reset"
    <3>1. c = [b EXCEPT !.icon = Dialog!Defaults.icon, !.device = Dialog!Defaults.device]
      BY <1>6, <2>2 DEF Dialog!Coloured
    <3>2. QED
      BY <1>5, <3>1, DefaultsAreAConfig DEF IsConfig, Fields
  <2>3. CASE e.colour \notin {"edited", "reset"}
    <3>1. c = b
      BY <1>6, <2>3 DEF Dialog!Coloured
    <3>2. QED
      BY <1>5, <3>1
  <2>4. QED
    BY <2>1, <2>2, <2>3
<1>8. Dialog!Result(e) = c
  BY <1>1, <1>3, <1>6 DEF Dialog!Result
<1>9. QED
  BY <1>2, <1>5, <1>7, <1>8

LEMMA AppliedIsPending ==
    ASSUME IsConfig(live), NEW cfg, IsConfig(cfg)
    PROVE  IsConfig(Dialog!Applied(cfg)) /\ Dialog!Chosen(Dialog!Applied(cfg)) = Pending(cfg, live)
<1>1. PICK new : new = Dialog!Applied(cfg)
  OBVIOUS
<1>2. /\ DOMAIN new = Fields
      /\ new.version = live.version /\ new.order = live.order
      /\ new.awake = live.awake /\ new.collapsed = live.collapsed
      /\ new.enabled = cfg.enabled /\ new.tables = cfg.tables /\ new.chime = cfg.chime
      /\ new.mode = cfg.mode /\ new.command = cfg.command
      /\ new.icon = cfg.icon /\ new.device = cfg.device
  BY <1>1 DEF Dialog!Applied, IsConfig, Fields
<1>3. IsConfig(new)
  BY <1>2 DEF IsConfig
<1>4. Dialog!Chosen(new) = Pending(cfg, live)
  <2>1. PICK d : d = Dialog!Detection(cfg.tables)
    OBVIOUS
  <2>2. PICK r : r = [awake |-> live.awake, collapsed |-> live.collapsed, chime |-> cfg.chime,
                      mode |-> cfg.mode, icon |-> cfg.icon, device |-> cfg.device,
                      command |-> cfg.command, enabled |-> cfg.enabled, detection |-> d]
    OBVIOUS
  <2>3. Dialog!Chosen(new) = r
    BY <1>2, <2>1, <2>2 DEF Dialog!Chosen
  <2>4. Pending(cfg, live) = r
    <3>1. PICK c : c = Dialog!Chosen(cfg)
      OBVIOUS
    <3>2. c = [awake |-> cfg.awake, collapsed |-> cfg.collapsed, chime |-> cfg.chime,
               mode |-> cfg.mode, icon |-> cfg.icon, device |-> cfg.device,
               command |-> cfg.command, enabled |-> cfg.enabled, detection |-> d]
      BY <2>1, <3>1 DEF Dialog!Chosen
    <3>3. [c EXCEPT !.awake = live.awake, !.collapsed = live.collapsed] = r
      <4>1. PICK f : f = [c EXCEPT !.awake = live.awake, !.collapsed = live.collapsed]
        OBVIOUS
      <4>2. DOMAIN f = DOMAIN c /\ DOMAIN c = DOMAIN r /\ f = [x \in DOMAIN f |-> f[x]]
        BY <2>2, <3>2, <4>1
      <4>3. /\ f.awake = live.awake /\ f.collapsed = live.collapsed /\ f.chime = c.chime
            /\ f.mode = c.mode /\ f.icon = c.icon /\ f.device = c.device
            /\ f.command = c.command /\ f.enabled = c.enabled /\ f.detection = c.detection
        BY <3>2, <4>1
      <4>4. f = r
        BY <2>2, <3>2, <4>2, <4>3
      <4>5. QED
        BY <4>1, <4>4
    <3>4. QED
      BY <3>1, <3>3 DEF Pending
  <2>5. QED
    BY <2>3, <2>4
<1>5. QED
  BY <1>1, <1>3, <1>4

\* Setting one of two fields that are set already.
LEMMA SetAgain ==
    ASSUME NEW c, NEW x, NEW y, NEW v
    PROVE  /\ [[c EXCEPT !.awake = x, !.collapsed = y] EXCEPT !.awake = v]
                 = [c EXCEPT !.awake = v, !.collapsed = y]
           /\ [[c EXCEPT !.awake = x, !.collapsed = y] EXCEPT !.collapsed = v]
                 = [c EXCEPT !.awake = x, !.collapsed = v]
BY Zenon

\* A menu's change is in force, and saved unless the save failed or an OK waits.
LEMMA SavedLive ==
    ASSUME DialogInv, running, NEW cfg, Dialog!SaveLive(cfg), NEW field, NEW value,
           Menus(live, cfg, field, value), field \in {"chime", "awake", "collapsed"},
           choice' = (IF dialog.phase = "prompting" /\ field = "chime" THEN choice
                      ELSE [choice EXCEPT ![field] = value]),
           UNCHANGED <<dialog, running>>
    PROVE  DialogInv'
<1>0. /\ IsConfig(live) /\ IsFile(disk) /\ IsConfig(cfg)
      /\ live' = Dialog!WithTables(cfg)
      /\ \/ /\ disk' = Dialog!Dumps(cfg)
            /\ behind' = IF dialog.phase = "prompting" THEN behind \cup {"overwritten"} ELSE {}
         \/ disk' = disk /\ behind' = behind \cup {"failed"}
  BY DEF DialogInv, ConfigsAreUsable, Menus, Dialog!SaveLive
<1>1. IsConfig(live') /\ Dialog!Chosen(live') = Dialog!Chosen(cfg)
  BY <1>0, TablesAreAdded
<1>2. IsFile(disk') /\ (disk' = Dialog!Dumps(cfg) => IsLoadedAs(disk', Dialog!Chosen(cfg)))
  BY <1>0, SavedIsLoaded
<1>3. DialogTypes'
  <2>1. DOMAIN choice' = DOMAIN choice
    OBVIOUS
  <2>2. behind' \subseteq {"failed", "overwritten"}
    BY <1>0 DEF DialogInv, DialogTypes
  <2>3. QED
    BY <2>1, <2>2 DEF DialogInv, DialogTypes
<1>4. CASE dialog.phase = "prompting"
  <2>1. IsConfig(dialog.result) /\ choice = Pending(dialog.result, live)
    BY <1>4 DEF DialogInv, ChoicesInForce
  <2>2. /\ live'.awake = IF field = "awake" THEN value ELSE live.awake
        /\ live'.collapsed = IF field = "collapsed" THEN value ELSE live.collapsed
    <3>1. cfg.awake = live'.awake /\ cfg.collapsed = live'.collapsed
      BY <1>0 DEF Dialog!WithTables, IsConfig, Fields
    <3>2. QED
      BY <3>1 DEF Menus
  <2>3. choice' = Pending(dialog.result, live')
    <3>1. PICK c : c = Dialog!Chosen(dialog.result) /\ {"awake", "collapsed"} \subseteq DOMAIN c
      <4>1. {"awake", "collapsed"} \subseteq DOMAIN Dialog!Chosen(dialog.result)
        BY DEF Dialog!Chosen
      <4>2. QED
        BY <4>1, Zenon
    <3>2. Pending(dialog.result, live) = [c EXCEPT !.awake = live.awake, !.collapsed = live.collapsed]
      BY <3>1 DEF Pending
    <3>3. Pending(dialog.result, live') = [c EXCEPT !.awake = live'.awake, !.collapsed = live'.collapsed]
      BY <3>1 DEF Pending
    <3>4. CASE field = "chime"
      BY <1>4, <2>1, <2>2, <3>2, <3>3, <3>4
    <3>5. CASE field = "awake"
      <4>1. choice' = [choice EXCEPT !.awake = value]
        BY <3>5
      <4>2. choice' = [[c EXCEPT !.awake = live.awake, !.collapsed = live.collapsed] EXCEPT !.awake = value]
        BY <2>1, <3>2, <4>1, Zenon
      <4>3. choice' = [c EXCEPT !.awake = value, !.collapsed = live.collapsed]
        BY <4>2, SetAgain, Zenon
      <4>4. live'.awake = value /\ live'.collapsed = live.collapsed
        BY <2>2, <3>5
      <4>5. QED
        BY <3>3, <4>3, <4>4, Zenon
    <3>6. CASE field = "collapsed"
      <4>1. choice' = [choice EXCEPT !.collapsed = value]
        BY <3>6
      <4>2. choice' = [[c EXCEPT !.awake = live.awake, !.collapsed = live.collapsed] EXCEPT !.collapsed = value]
        BY <2>1, <3>2, <4>1, Zenon
      <4>3. choice' = [c EXCEPT !.awake = live.awake, !.collapsed = value]
        BY <4>2, SetAgain, Zenon
      <4>4. live'.awake = live.awake /\ live'.collapsed = value
        BY <2>2, <3>6
      <4>5. QED
        BY <3>3, <4>3, <4>4, Zenon
    <3>7. QED
      BY <3>4, <3>5, <3>6
  <2>4. behind' # {}
    BY <1>0, <1>4
  <2>5. ChoicesInForce'
    BY <1>4, <2>1, <2>3 DEF ChoicesInForce
  <2>6. Dialog!ChoicesSurviveARestart'
    BY <2>4 DEF Dialog!ChoicesSurviveARestart
  <2>7. QED
    BY <1>1, <1>2, <1>3, <2>5, <2>6 DEF DialogInv, ConfigsAreUsable
<1>5. CASE dialog.phase # "prompting"
  <2>1. Dialog!Chosen(cfg) = choice'
    BY <1>5 DEF DialogInv, ChoicesInForce, Menus
  <2>2. ChoicesInForce'
    BY <1>1, <1>5, <2>1 DEF ChoicesInForce
  <2>3. Dialog!ChoicesSurviveARestart'
    BY <1>0, <1>2, <1>5, <2>1 DEF Dialog!ChoicesSurviveARestart, IsLoadedAs
  <2>4. QED
    BY <1>1, <1>2, <1>3, <2>2, <2>3 DEF DialogInv, ConfigsAreUsable
<1>6. QED
  BY <1>4, <1>5

LEMMA MenuSteps ==
    ASSUME DialogInv, Dialog!SetSound \/ Dialog!SetKeepAwake \/ Dialog!CollapseSection
    PROVE  DialogInv'
<1>0. IsConfig(live)
  BY DEF DialogInv, ConfigsAreUsable
<1>1. CASE Dialog!SetSound
  <2>1. PICK on \in BOOLEAN :
          /\ Dialog!SaveLive([live EXCEPT !.chime = on])
          /\ choice' = IF dialog.phase = "prompting" THEN choice ELSE [choice EXCEPT !.chime = on]
    BY <1>1 DEF Dialog!SetSound
  <2>2. PICK cfg, field : field = "chime" /\ cfg = [live EXCEPT ![field] = on]
    OBVIOUS
  <2>3. Menus(live, cfg, field, on)
    BY <1>0, <2>2, MenuChanges
  <2>4. choice' = (IF dialog.phase = "prompting" /\ field = "chime" THEN choice
                   ELSE [choice EXCEPT ![field] = on])
    BY <2>1, <2>2
  <2>5. Dialog!SaveLive(cfg) /\ running /\ UNCHANGED <<dialog, running>>
    BY <1>1, <2>1, <2>2 DEF Dialog!SetSound
  <2>6. QED
    BY <2>2, <2>3, <2>4, <2>5, SavedLive
<1>2. CASE Dialog!SetKeepAwake
  <2>1. PICK on \in BOOLEAN :
          Dialog!SaveLive([live EXCEPT !.awake = on]) /\ choice' = [choice EXCEPT !.awake = on]
    BY <1>2 DEF Dialog!SetKeepAwake
  <2>2. PICK cfg, field : field = "awake" /\ cfg = [live EXCEPT ![field] = on]
    OBVIOUS
  <2>3. Menus(live, cfg, field, on)
    BY <1>0, <2>2, MenuChanges
  <2>4. choice' = (IF dialog.phase = "prompting" /\ field = "chime" THEN choice
                   ELSE [choice EXCEPT ![field] = on])
    BY <2>1, <2>2
  <2>5. Dialog!SaveLive(cfg) /\ running /\ UNCHANGED <<dialog, running>>
    BY <1>2, <2>1, <2>2 DEF Dialog!SetKeepAwake
  <2>6. QED
    BY <2>2, <2>3, <2>4, <2>5, SavedLive
<1>3. CASE Dialog!CollapseSection
  <2>1. PICK folded :
          /\ Dialog!SaveLive([live EXCEPT !.collapsed = folded])
          /\ choice' = [choice EXCEPT !.collapsed = folded]
    BY <1>3 DEF Dialog!CollapseSection
  <2>2. PICK cfg, field : field = "collapsed" /\ cfg = [live EXCEPT ![field] = folded]
    OBVIOUS
  <2>3. Menus(live, cfg, field, folded)
    BY <1>0, <2>2, MenuChanges
  <2>4. choice' = (IF dialog.phase = "prompting" /\ field = "chime" THEN choice
                   ELSE [choice EXCEPT ![field] = folded])
    BY <2>1, <2>2
  <2>5. Dialog!SaveLive(cfg) /\ running /\ UNCHANGED <<dialog, running>>
    BY <1>3, <2>1, <2>2 DEF Dialog!CollapseSection
  <2>6. QED
    BY <2>2, <2>3, <2>4, <2>5, SavedLive
<1>4. QED
  BY <1>1, <1>2, <1>3

LEMMA DialogCloses ==
    ASSUME DialogInv, Dialog!Open \/ Dialog!Answer \/ Dialog!Reject
    PROVE  DialogInv'
<1>1. CASE Dialog!Open \/ Dialog!Reject
  <2>1. /\ dialog.phase # "prompting" /\ dialog' \in {[dialog EXCEPT !.phase = "open"], Dialog!Closed}
        /\ UNCHANGED <<live, disk, running, choice, behind>>
        /\ ~running => dialog' = Dialog!Closed
    BY <1>1 DEF Dialog!Open, Dialog!Reject
  <2>2. /\ dialog'.phase \in {"open", "closed"} /\ (~running => dialog'.phase = "closed")
        /\ dialog' = [phase |-> dialog'.phase, result |-> dialog'.result]
    BY <2>1 DEF Dialog!Closed, DialogInv, DialogTypes
  <2>3. DialogTypes'
    BY <2>1, <2>2 DEF DialogInv, DialogTypes
  <2>4. ChoicesInForce'
    BY <2>1, <2>2 DEF DialogInv, ChoicesInForce
  <2>5. QED
    BY <2>1, <2>3, <2>4 DEF DialogInv, ConfigsAreUsable, Dialog!ChoicesSurviveARestart
<1>2. CASE Dialog!Answer
  <2>1. /\ dialog.phase = "prompting" /\ live' = Dialog!Applied(dialog.result)
        /\ dialog' = [phase |-> "closed", result |-> Dialog!Defaults]
        /\ UNCHANGED <<disk, running, choice, behind>>
    BY <1>2 DEF Dialog!Answer, Dialog!Closed
  <2>2. IsConfig(live) /\ IsConfig(dialog.result) /\ choice = Pending(dialog.result, live)
    BY <2>1 DEF DialogInv, ConfigsAreUsable, ChoicesInForce
  <2>3. IsConfig(live') /\ Dialog!Chosen(live') = choice
    BY <2>1, <2>2, AppliedIsPending
  <2>4. DialogTypes'
    BY <2>1 DEF DialogInv, DialogTypes
  <2>5. ChoicesInForce'
    BY <2>1, <2>3 DEF ChoicesInForce
  <2>6. QED
    BY <2>1, <2>3, <2>4, <2>5 DEF DialogInv, ConfigsAreUsable, Dialog!ChoicesSurviveARestart
<1>3. QED
  BY <1>1, <1>2

\* An OK is saved at once, and applied at once or when its question is answered.
LEMMA AcceptKeepsChoices ==
    ASSUME DialogInv, Dialog!Accept
    PROVE  DialogInv'
<1>1. PICK e \in Edits : \E missing \in SUBSET DOMAIN Adapters :
        /\ e.ticks # {}
        /\ disk' = Dialog!Dumps(Dialog!Result(e)) /\ choice' = Dialog!Chosen(Dialog!Result(e))
        /\ behind' = {}
        /\ IF missing = {} THEN live' = Dialog!Applied(Dialog!WithTables(Dialog!Result(e)))
                                /\ dialog' = Dialog!Closed
           ELSE dialog' = [phase |-> "prompting", result |-> Dialog!WithTables(Dialog!Result(e))]
                /\ UNCHANGED live
  BY DEF Dialog!Accept
<1>2. dialog.phase = "open" /\ running' = running /\ running /\ IsConfig(live)
  BY DEF Dialog!Accept, DialogInv, ChoicesInForce, ConfigsAreUsable, DialogTypes
<1>3. PICK result : /\ result = Dialog!Result(e) /\ IsConfig(result)
                    /\ result.awake = live.awake /\ result.collapsed = live.collapsed
  BY <1>1, <1>2, ResultIsAConfig
<1>4. PICK cfg : /\ cfg = Dialog!WithTables(result) /\ IsConfig(cfg)
                 /\ Dialog!Chosen(cfg) = Dialog!Chosen(result)
  BY <1>3, TablesAreAdded
<1>5. /\ disk' = Dialog!Dumps(result) /\ choice' = Dialog!Chosen(result) /\ behind' = {}
      /\ \/ live' = Dialog!Applied(cfg) /\ dialog' = Dialog!Closed
         \/ dialog' = [phase |-> "prompting", result |-> cfg] /\ live' = live
  BY <1>1, <1>3, <1>4
<1>6. IsFile(disk') /\ IsLoadedAs(disk', choice')
  BY <1>3, <1>5, SavedIsLoaded
<1>7. Pending(cfg, live) = choice'
  <2>1. PICK c : c = Dialog!Chosen(result)
    OBVIOUS
  <2>2. DOMAIN c = DOMAIN Dialog!Chosen(result) /\ c.awake = live.awake /\ c.collapsed = live.collapsed
    BY <1>3, <2>1 DEF Dialog!Chosen
  <2>3. c = [x \in DOMAIN c |-> c[x]]
    BY <2>1 DEF Dialog!Chosen
  <2>4. [c EXCEPT !.awake = live.awake, !.collapsed = live.collapsed] = c
    BY <2>2, <2>3
  <2>5. QED
    BY <1>4, <1>5, <2>1, <2>4 DEF Pending
<1>8. CASE live' = Dialog!Applied(cfg) /\ dialog' = Dialog!Closed
  <2>1. IsConfig(live') /\ Dialog!Chosen(live') = choice'
    BY <1>2, <1>4, <1>7, <1>8, AppliedIsPending
  <2>2. DialogTypes'
    BY <1>2, <1>5, <1>8 DEF DialogInv, DialogTypes, Dialog!Closed, Dialog!Chosen
  <2>3. ChoicesInForce'
    BY <1>2, <1>8, <2>1 DEF ChoicesInForce, Dialog!Closed
  <2>4. QED
    BY <1>6, <2>1, <2>2, <2>3
    DEF DialogInv, ConfigsAreUsable, Dialog!ChoicesSurviveARestart, IsLoadedAs
<1>9. CASE dialog' = [phase |-> "prompting", result |-> cfg] /\ live' = live
  <2>1. DialogTypes'
    BY <1>2, <1>5, <1>9 DEF DialogInv, DialogTypes, Dialog!Chosen
  <2>2. ChoicesInForce'
    BY <1>2, <1>4, <1>7, <1>9 DEF ChoicesInForce
  <2>3. QED
    BY <1>2, <1>6, <1>9, <2>1, <2>2
    DEF DialogInv, ConfigsAreUsable, Dialog!ChoicesSurviveARestart, IsLoadedAs
<1>10. QED
  BY <1>5, <1>8, <1>9

LEMMA ProcessSteps ==
    ASSUME DialogInv, Dialog!Ends \/ Dialog!Start
    PROVE  DialogInv'
<1>1. CASE Dialog!Ends
  <2>1. /\ running /\ running' = FALSE /\ dialog' = [phase |-> "closed", result |-> Dialog!Defaults]
        /\ live' = live /\ choice' = choice
        /\ disk' = disk \/ (dialog.phase # "prompting" /\ disk' = Dialog!Dumps(live))
        /\ behind' = IF disk' = disk THEN behind ELSE {}
    BY <1>1 DEF Dialog!Ends, Dialog!Closed, Dialog!LeftByACrash
  <2>2. IsConfig(live) /\ IsFile(disk)
    BY DEF DialogInv, ConfigsAreUsable
  <2>3. IsFile(disk') /\ Dialog!ChoicesSurviveARestart'
    <3>1. CASE disk' = disk
      BY <2>1, <2>2, <3>1 DEF DialogInv, Dialog!ChoicesSurviveARestart
    <3>2. CASE dialog.phase # "prompting" /\ disk' = Dialog!Dumps(live)
      <4>1. Dialog!Chosen(live) = choice
        BY <2>1, <3>2 DEF DialogInv, ChoicesInForce
      <4>2. IsFile(disk') /\ IsLoadedAs(disk', Dialog!Chosen(live))
        BY <2>2, <3>2, SavedIsLoaded
      <4>3. QED
        BY <2>1, <4>1, <4>2 DEF Dialog!ChoicesSurviveARestart, IsLoadedAs
    <3>3. QED
      BY <2>1, <3>1, <3>2
  <2>4. DialogTypes'
    BY <2>1 DEF DialogInv, DialogTypes
  <2>5. ChoicesInForce'
    BY <2>1 DEF ChoicesInForce
  <2>6. QED
    BY <2>1, <2>2, <2>3, <2>4, <2>5 DEF DialogInv, ConfigsAreUsable
<1>2. CASE Dialog!Start
  <2>1. /\ ~running /\ running' = TRUE /\ live' = Dialog!Load(disk)
        /\ choice' = Dialog!Chosen(Dialog!Load(disk)) /\ behind' = {}
        /\ disk' = disk /\ dialog' = dialog
    BY <1>2 DEF Dialog!Start
  <2>2. IsFile(disk) /\ dialog.phase = "closed"
    BY <2>1 DEF DialogInv, ConfigsAreUsable, ChoicesInForce
  <2>3. IsConfig(live')
    BY <2>1, <2>2, LoadIsAConfig
  <2>4. DialogTypes'
    BY <2>1 DEF DialogInv, DialogTypes, Dialog!Chosen
  <2>5. ChoicesInForce'
    BY <2>1, <2>2 DEF ChoicesInForce
  <2>6. QED
    BY <2>1, <2>2, <2>3, <2>4, <2>5
    DEF DialogInv, ConfigsAreUsable, Dialog!ChoicesSurviveARestart
<1>3. QED
  BY <1>1, <1>2

LEMMA DialogKeeps ==
    ASSUME DialogInv, Dialog!Next
    PROVE  DialogInv'
<1>1. CASE Dialog!SetSound \/ Dialog!SetKeepAwake \/ Dialog!CollapseSection
  BY <1>1, MenuSteps
<1>2. CASE Dialog!Open \/ Dialog!Answer \/ Dialog!Reject
  BY <1>2, DialogCloses
<1>3. CASE Dialog!Accept
  BY <1>3, AcceptKeepsChoices
<1>4. CASE Dialog!Ends \/ Dialog!Start
  BY <1>4, ProcessSteps
<1>5. QED
  BY <1>1, <1>2, <1>3, <1>4 DEF Dialog!Next

LEMMA DialogStays ==
    ASSUME DialogInv, UNCHANGED settingsVars
    PROVE  DialogInv'
BY DEF DialogInv, DialogTypes, ConfigsAreUsable, ChoicesInForce, Dialog!ChoicesSurviveARestart,
       settingsVars

LEMMA DialogIsSafe ==
    ASSUME DialogInv
    PROVE  /\ Dialog!TypeOK
           /\ Dialog!LoadedIsUsable /\ Dialog!LatestChoiceWins /\ Dialog!ChoicesSurviveARestart
<1>1. Dialog!TypeOK
  BY DefaultsAreAConfig DEF DialogInv, DialogTypes, ConfigsAreUsable, IsConfig, Dialog!TypeOK
<1>2. Dialog!LatestChoiceWins /\ Dialog!ChoicesSurviveARestart
  BY DEF DialogInv, ChoicesInForce, Dialog!LatestChoiceWins
<1>3. Dialog!LoadedIsUsable
  <2>1. IsFile(disk)
    BY DEF DialogInv, ConfigsAreUsable
  <2>2. PICK cfg : cfg = Dialog!Load(disk) /\ IsConfig(cfg)
    BY <2>1, LoadIsAConfig
  <2>3. ASSUME ~Dialog!Unreadable(disk)
        PROVE  /\ Dialog!Within(cfg.order, Dialog!Range(disk.raw.order)) = disk.raw.order
               /\ disk.raw.version < Latest => {"ghub", "steelseries"} \subseteq Dialog!Range(cfg.order)
    <3>1. ReadAs(cfg, disk.raw)
      BY <2>1, <2>2, <2>3, LoadReads DEF IsFile
    <3>2. PICK o, v : o = disk.raw.order /\ v = disk.raw.version
      OBVIOUS
    <3>3. o \in Seq(Names) /\ v \in Int /\ cfg.order = Dialog!Migrated(o, v)
      BY <2>1, <2>3, <3>1, <3>2 DEF IsFile, ReadAs
    <3>4. Updated(cfg.order, o, v)
      BY <3>3, OrderIsUpdated
    <3>5. QED
      BY <3>2, <3>4, DialogSequences DEF Updated
  <2>4. QED
    BY <2>2, <2>3 DEF IsConfig, Dialog!LoadedIsUsable
<1>4. QED
  BY <1>1, <1>2, <1>3

DialogHolds == part = "dialog" => DialogInv
LEMMA DialogAlways == Spec => []DialogHolds
<1>1. Init => DialogHolds
  BY DialogStarts DEF DialogHolds
<1>2. DialogHolds /\ [Next]_trayVars => DialogHolds'
  <2> SUFFICES ASSUME part = "dialog" => DialogInv, [Next]_trayVars, part' = "dialog"
               PROVE  DialogInv'
    BY DEF DialogHolds
  <2>1. CASE DialogSteps
    BY <2>1, DialogKeeps DEF DialogSteps
  <2>2. CASE ~DialogSteps
    <3>1. part = "dialog" /\ UNCHANGED settingsVars
      BY <2>2 DEF Next, Rest, IconSteps, PanelSteps, JobSteps, TranscriptSteps, SignInSteps,
                  CreditSteps, UsageSteps, NotifySteps, trayVars
    <3>2. QED
      BY <3>1, DialogStays
  <2>3. QED
    BY <2>1, <2>2
<1>3. QED
  BY <1>1, <1>2, PTL DEF Spec

\* Whatever the file held that load() returns from, and however the dialog's copy
\* interleaves with the menu, the config is usable, the last choice of every field is in
\* force, and it is there again after the process has ended at any point, unless a string
\* holds a control character.
THEOREM SettingsAreKept == Spec => []SettingsLast
<1>1. DialogHolds => SettingsLast
  BY DialogIsSafe DEF DialogHolds, SettingsLast
<1>2. QED
  BY <1>1, DialogAlways, PTL

--------------------------------------------------------------------------------
(* Types: what is left of them, of the transcripts and of the credits.             *)

Records == [at : 0 .. MaxClock, id : Messages \cup {Transcripts!NoId}, tokens : Tokens]
TranscriptTypes ==
    /\ agent \in {"claude", "codex"} /\ clock \in 0 .. MaxClock /\ mtime \in 0 .. MaxClock
    /\ Len(lines) \in 0 .. MaxLines
    /\ lines \in Seq(Records)
    /\ scan = [phase |-> scan.phase, key |-> scan.key, read |-> scan.read, now |-> scan.now]
    /\ scan.phase \in {"idle", "statted", "read"}

LEMMA TranscriptsAreTyped ==
    ASSUME TranscriptTypes, [Transcripts!Next]_transcriptVars
    PROVE  TranscriptTypes'
<1> USE DEF TranscriptTypes, Records
<1>0. MaxClock \in Nat /\ MaxLines \in Nat
  BY PartsAssumption DEF Transcripts!TranscriptAssumption
<1>1. CASE Transcripts!Tick
  BY <1>0, <1>1 DEF Transcripts!Tick
<1>2. CASE Transcripts!AppendLine
  <2>1. PICK l \in Records :
          lines' = Append(lines, l)
    BY <1>2 DEF Transcripts!AppendLine, Transcripts!Line
  <2>2. /\ Len(lines) < MaxLines /\ mtime' = clock /\ UNCHANGED <<agent, clock, scan>>
    BY <1>2 DEF Transcripts!AppendLine
  <2>3. /\ Append(lines, l) \in Seq(Records)
        /\ Len(Append(lines, l)) = Len(lines) + 1
    OBVIOUS
  <2>4. QED
    BY <1>0, <2>1, <2>2, <2>3
<1>3. CASE Transcripts!PollStats
  <2>1. /\ UNCHANGED <<agent, clock, lines, mtime>>
        /\ scan' = scan \/ scan' = [phase |-> "statted", key |-> <<mtime, Len(lines)>>, read |-> <<>>, now |-> clock]
    BY <1>3 DEF Transcripts!PollStats
  <2>2. QED
    BY <2>1
<1>4. CASE Transcripts!PollReads
  <2>1. /\ UNCHANGED <<agent, clock, lines, mtime>>
        /\ scan' = [scan EXCEPT !.phase = "read", !.read = lines]
    BY <1>4 DEF Transcripts!PollReads
  <2>2. scan' = [phase |-> "read", key |-> scan.key, read |-> lines, now |-> scan.now]
    BY <2>1
  <2>3. QED
    BY <2>1, <2>2
<1>5. CASE Transcripts!PollStores
  <2>1. UNCHANGED <<agent, clock, lines, mtime>> /\ scan' = Transcripts!NoScan
    BY <1>5 DEF Transcripts!PollStores
  <2>2. QED
    BY <2>1 DEF Transcripts!NoScan
<1>6. CASE UNCHANGED transcriptVars
  BY <1>6 DEF transcriptVars
<1>7. QED
  BY <1>1, <1>2, <1>3, <1>4, <1>5, <1>6 DEF Transcripts!Next

\* Credits are spent one at a time.
CreditTypes ==
    /\ day \in 0 .. MaxDay /\ used \in 0 .. day
    /\ quota.at \in Credits!Never .. day /\ balance.at \in Credits!Never .. day
    /\ junie \in [Sessions -> [cost : Nat, updated : Credits!Never .. day]]

LEMMA CreditsAreTyped ==
    ASSUME CreditTypes, [Credits!Next]_creditVars
    PROVE  CreditTypes'
<1> USE DEF CreditTypes, Credits!Never
<1>0. MaxDay \in Nat
  BY PartsAssumption DEF Credits!CreditAssumption
<1>1. ASSUME Credits!Advance
      PROVE  /\ day' \in 0 .. MaxDay /\ day' = day + 1 /\ Credits!Carried \in 0 .. day
             /\ junie \in [Sessions -> [cost : Nat, updated : Credits!Never .. day']]
  <2>1. day' = day + 1 /\ day' \in 0 .. MaxDay
    BY <1>0, <1>1 DEF Credits!Advance
  <2>2. Credits!Carried \in 0 .. day
    BY <1>1 DEF Credits!Carried
  <2>3. \A s \in Sessions : junie[s] \in [cost : Nat, updated : Credits!Never .. day']
    BY <2>1
  <2>4. QED
    BY <2>1, <2>2, <2>3
<1>2. CASE Credits!DayPasses
  BY <1>1, <1>2 DEF Credits!DayPasses
<1>3. CASE Credits!JunieWorks
  <2>1. PICK s \in Sessions :
          /\ junie' = [junie EXCEPT ![s] = [cost |-> junie[s].cost + 1, updated |-> day']]
          /\ used' = Credits!Carried + (IF s \in OwnKey THEN 0 ELSE 1)
    BY <1>3 DEF Credits!JunieWorks
  <2>2. Credits!Advance /\ UNCHANGED <<quota, balance>>
    BY <1>3 DEF Credits!JunieWorks
  <2>3. used' \in 0 .. day'
    BY <1>1, <2>1, <2>2
  <2>4. [cost |-> junie[s].cost + 1, updated |-> day'] \in [cost : Nat, updated : Credits!Never .. day']
    BY <1>1, <2>2
  <2>5. junie' \in [Sessions -> [cost : Nat, updated : Credits!Never .. day']]
    BY <1>1, <2>1, <2>2, <2>4
  <2>6. QED
    BY <1>1, <2>2, <2>3, <2>5
<1>4. CASE Credits!IdeWrites
  <2>1. PICK spent \in {0, 1} : used' = Credits!Carried + spent
    BY <1>4 DEF Credits!IdeWrites
  <2>2. Credits!Advance /\ junie' = junie
    BY <1>4 DEF Credits!IdeWrites
  <2>3. quota'.at \in {quota.at, day'} /\ balance'.at \in {balance.at, day'}
    BY <1>4 DEF Credits!IdeWrites
  <2>4. QED
    BY <1>1, <2>1, <2>2, <2>3
<1>5. CASE Credits!FetchCredits
  BY <1>5 DEF Credits!FetchCredits
<1>6. CASE UNCHANGED creditVars
  BY <1>6 DEF creditVars
<1>7. QED
  BY <1>2, <1>3, <1>4, <1>5, <1>6 DEF Credits!Next

TypesHold ==
    /\ part = "transcripts" => TranscriptTypes
    /\ part = "credits" => CreditTypes
LEMMA TypesAlways == Spec => []TypesHold
<1>1. Init => TypesHold
  <2> SUFFICES ASSUME Init PROVE TypesHold
    OBVIOUS
  <2>1. TranscriptTypes
    <3>1. MaxClock \in Nat /\ MaxLines \in Nat
      BY PartsAssumption DEF Transcripts!TranscriptAssumption
    <3>2. /\ agent \in {"claude", "codex"} /\ clock = 0 /\ lines = <<>> /\ mtime = 0
          /\ scan = [phase |-> "idle", key |-> <<>>, read |-> <<>>, now |-> 0]
      BY DEF Init, Transcripts!Init, Transcripts!NoScan
    <3>3. QED
      BY <3>1, <3>2 DEF TranscriptTypes
  <2>2. CreditTypes
    <3>1. MaxDay \in Nat
      BY PartsAssumption DEF Credits!CreditAssumption
    <3>2. /\ day = 0 /\ used = 0 /\ quota.at = Credits!Never /\ balance.at = Credits!Never
          /\ junie = [s \in Sessions |-> [cost |-> 0, updated |-> Credits!Never]]
      BY DEF Init, Credits!Init
    <3>3. QED
      BY <3>1, <3>2 DEF CreditTypes, Credits!Never
  <2>3. QED
    BY <2>1, <2>2 DEF TypesHold
<1>2. TypesHold /\ [Next]_trayVars => TypesHold'
  <2> SUFFICES ASSUME TypesHold, [Next]_trayVars PROVE TypesHold'
    OBVIOUS
  <2>1. part' = "transcripts" => part = "transcripts" /\ [Transcripts!Next]_transcriptVars
    BY DEF Next, IconSteps, PanelSteps, DialogSteps, JobSteps, TranscriptSteps, SignInSteps,
           CreditSteps, UsageSteps, NotifySteps, Rest, trayVars, transcriptVars
  <2>2. part' = "credits" => part = "credits" /\ [Credits!Next]_creditVars
    BY DEF Next, IconSteps, PanelSteps, DialogSteps, JobSteps, TranscriptSteps, SignInSteps,
           CreditSteps, UsageSteps, NotifySteps, Rest, trayVars, creditVars
  <2>3. QED
    BY <2>1, <2>2, TranscriptsAreTyped, CreditsAreTyped DEF TypesHold
<1>3. QED
  BY <1>1, <1>2, PTL DEF Spec

\* The types of the other parts follow from their invariants.
LEMMA PartsAreTyped ==
    ASSUME part \in Parts, JobsHold, IconHolds, NotifyHolds, SignInHolds, UsageHolds, PanelHolds,
           DialogHolds, TypesHold
    PROVE  TypeOK
<1>1. CASE part = "icon"
  <2>1. IconInv
    BY <1>1 DEF IconHolds
  <2>2. Icon!Cardinality({shell}) = 1
    <3>1. Cardinality({shell}) = 1
      BY FS_Singleton
    <3>2. QED
      BY <3>1 DEF Icon!Cardinality, Cardinality
  <2>3. latch.icon \cup latch.anim = {shell}
    BY <2>1 DEF IconInv, OneLatchKnows
  <2>4. timers \in {{}, {"blink"}, {"anim"}}
    BY <2>1 DEF IconInv, Icon!IconFollowsTheState
  <2>5. nag.since \in (0 .. MaxTime) \cup {Icon!Unset} /\ nag.sent \in 0 .. MaxTime
    BY <2>1 DEF IconInv, ConfirmIsTimed
  <2>6. Icon!TypeOK
    BY <2>1, <2>2, <2>3, <2>4, <2>5 DEF IconInv, IconTypes, Icon!TypeOK
  <2>7. QED
    BY <1>1, <2>6 DEF TypeOK
<1>2. CASE part = "panel"
  BY <1>2, PanelIsSafe DEF PanelHolds, TypeOK
<1>3. CASE part = "dialog"
  BY <1>3, DialogIsSafe DEF DialogHolds, TypeOK
<1>4. CASE part = "jobs"
  <2>1. Jobs!TypeOK
    <3>1. JobsInv
      BY <1>4 DEF JobsHold
    <3>2. DOMAIN threads \subseteq 1 .. MaxRuns
      <4>1. MaxRuns \in Nat
        BY PartsAssumption DEF Jobs!JobsAssumption
      <4>2. QED
        BY <3>1, <4>1 DEF JobsInv, ThreadTypes
    <3>3. held \subseteq {"doctor", "startup", "hooks", "update"}
      BY <3>1 DEF JobsInv, ThreadTypes, LocksAreThreads, Workers
    <3>4. QED
      BY <3>1, <3>2, <3>3 DEF JobsInv, ThreadTypes, LightsAreOnTheirWay, Jobs!TypeOK
  <2>2. QED
    BY <1>4, <2>1 DEF TypeOK
<1>5. CASE part = "transcripts"
  <2>1. Transcripts!TypeOK
    BY <1>5 DEF TypesHold, TranscriptTypes, Transcripts!TypeOK
  <2>2. QED
    BY <1>5, <2>1 DEF TypeOK
<1>6. CASE part = "signin"
  BY <1>6 DEF SignInHolds, SignInInv, TypeOK
<1>7. CASE part = "credits"
  <2>1. Credits!TypeOK
    <3>1. CreditTypes
      BY <1>7 DEF TypesHold
    <3>2. MaxDay \in Nat /\ day \in Nat /\ day <= MaxDay
      BY <3>1, PartsAssumption DEF CreditTypes, Credits!CreditAssumption
    <3>3. \A s \in Sessions : junie[s].cost \in Nat /\ junie[s].updated \in Credits!Never .. MaxDay
      BY <3>1, <3>2 DEF CreditTypes, Credits!Never
    <3>4. QED
      BY <3>1, <3>2, <3>3 DEF CreditTypes, Credits!TypeOK, Credits!Never
  <2>2. QED
    BY <1>7, <2>1 DEF TypeOK
<1>8. CASE part = "usage"
  BY <1>8 DEF UsageHolds, UsageInv, UsageTypes, TypeOK
<1>9. CASE part = "notify"
  <2>1. Notify!TypeOK
    <3>1. NotifyTypes /\ PostsInv
      BY <1>9 DEF NotifyHolds, NotifyInv
    <3>2. mcp.url \in DaemonPorts \cup {Notify!None}
      BY <3>1 DEF NotifyTypes, ToolStates
    <3>3. \A p \in posts : p.n \in 1 .. items /\ p.kind \in Notify!Kinds
      BY <3>1 DEF NotifyTypes, PostsInv, Item
    <3>4. QED
      BY <3>1, <3>2, <3>3 DEF NotifyTypes, DaemonStates, Notify!TypeOK
  <2>2. QED
    BY <1>9, <2>1 DEF TypeOK
<1>10. QED
  BY <1>1, <1>2, <1>3, <1>4, <1>5, <1>6, <1>7, <1>8, <1>9 DEF Parts

PartIsOne == part \in Parts
\* Every part's state has its type at every step, whichever part is followed.
THEOREM TrayIsTyped == Spec => []TypeOK
<1>1. Init => PartIsOne
  BY DEF Init, PartIsOne
<1>2. PartIsOne /\ [Next]_trayVars => PartIsOne'
  BY DEF PartIsOne, Next, IconSteps, PanelSteps, DialogSteps, JobSteps, TranscriptSteps, SignInSteps,
         CreditSteps, UsageSteps, NotifySteps, Rest, trayVars
<1>3. PartIsOne /\ JobsHold /\ IconHolds /\ NotifyHolds /\ SignInHolds /\ UsageHolds /\ PanelHolds
         /\ DialogHolds /\ TypesHold => TypeOK
  BY PartsAreTyped DEF PartIsOne
<1>4. QED
  BY <1>1, <1>2, <1>3, JobsAlways, IconAlways, NotifyAlways, SignInAlways, UsageAlways, PanelAlways,
     DialogAlways, TypesAlways, PTL DEF Spec
--------------------------------------------------------------------------------
(* Credits: what an IDE wrote, what Junie's sessions cost since, and the account.   *)

LEMMA CostsAreSums == ASSUME NEW S, NEW cost PROVE Credits!SumCosts(S, cost) = SumOver(S, cost)
BY Zenon DEF Credits!SumCosts, Credits!MapThenSumSet, Credits!MapThenFoldSet, SumOver, AnyOf

\* The quotient of a number and what is left of it are one.
LEMMA Quotient ==
    ASSUME NEW w \in Nat \ {0}, NEW q \in Nat, NEW n \in Nat, q * w <= n, n < q * w + w
    PROVE  n \div w = q
<1> DEFINE p == n \div w
<1>1. p \in Nat /\ p * w <= n /\ n < p * w + w
  BY DivisionBounds
<1> HIDE DEF p
<1>2. p * w \in Nat /\ q * w \in Nat
  BY <1>1
<1>3. CASE p < q
  BY <1>1, <1>2, <1>3, TimesGrows
<1>4. CASE q < p
  BY <1>1, <1>2, <1>4, TimesGrows
<1>5. QED
  BY <1>1, <1>3, <1>4 DEF p

\* _period: any end of a period, not later than the one to come, leads to that one.
LEMMA PeriodIsFound ==
    ASSUME NEW w \in Nat \ {0}, NEW d \in Nat, NEW m \in Nat, m <= d \div w + 1
    PROVE  (IF m * w > d THEN m * w ELSE m * w + ((d - m * w) \div w + 1) * w) - w = (d \div w) * w
<1> DEFINE k == d \div w
<1>1. k \in Nat /\ k * w <= d /\ d < k * w + w
  BY DivisionBounds
<1> HIDE DEF k
<1>2. m * w \in Nat /\ k * w \in Nat
  BY <1>1
<1>3. m <= k + 1
  BY DEF k
<1>4. CASE m * w > d
  <2>1. m = k + 1
    BY <1>1, <1>2, <1>3, <1>4, TimesGrows
  <2>2. m * w = k * w + w
    BY <1>1, <2>1
  <2>3. QED
    BY <1>2, <1>4, <2>2 DEF k
<1>5. CASE ~(m * w > d)
  <2>1. m <= k
    <3>1. m = k + 1 => m * w = k * w + w
      BY <1>1
    <3>2. QED
      BY <1>1, <1>2, <1>3, <1>5, <3>1
  <2>2. PICK e \in Nat : e = k - m
    BY <1>1, <2>1
  <2>3. k * w = m * w + e * w /\ (e + 1) * w = e * w + w /\ e * w \in Nat
    <3>1. k = m + e
      BY <1>1, <2>2
    <3>2. (m + e) * w = m * w + e * w
      OBVIOUS
    <3>3. QED
      BY <3>1, <3>2
  <2>4. d - m * w \in Nat /\ e * w <= d - m * w /\ d - m * w < e * w + w
    BY <1>1, <1>2, <1>5, <2>3
  <2>5. (d - m * w) \div w = e
    BY <2>4, Quotient
  <2>6. QED
    BY <1>2, <1>5, <2>3, <2>5 DEF k
<1>6. QED
  BY <1>4, <1>5

\* The next day is of the same period, or it begins one.
LEMMA NextDay ==
    ASSUME NEW w \in Nat \ {0}, NEW d \in Nat
    PROVE  /\ (d + 1) % w # 0 => (d + 1) \div w = d \div w
           /\ (d + 1) % w = 0 => ((d + 1) \div w) * w = d + 1
           /\ d \div w <= (d + 1) \div w
<1> DEFINE k == d \div w
           q == (d + 1) \div w
<1>1. k \in Nat /\ k * w <= d /\ d < k * w + w
  BY DivisionBounds
<1>2. q \in Nat /\ d + 1 = (q * w) + ((d + 1) % w) /\ (d + 1) % w \in 0 .. (w - 1)
  OBVIOUS
<1> HIDE DEF k, q
<1>3. k * w \in Nat /\ q * w \in Nat
  BY <1>1, <1>2
<1>4. k <= q
  <2>1. CASE q < k
    BY <1>1, <1>2, <1>3, <2>1, TimesGrows
  <2>2. QED
    BY <1>1, <1>2, <2>1
<1>5. ASSUME (d + 1) % w # 0 PROVE q <= k
  <2>1. q * w <= d
    BY <1>2, <1>3, <1>5
  <2>2. CASE k < q
    BY <1>1, <1>2, <1>3, <2>1, <2>2, TimesGrows
  <2>3. QED
    BY <1>1, <1>2, <2>2
<1>6. QED
  BY <1>1, <1>2, <1>3, <1>4, <1>5 DEF k, q

PeriodBegan == (day \div Period) * Period
Billed == Sessions \ OwnKey

\* What a session cost after the last IDE wrote.
Unseen == [s \in Sessions |-> junie[s].cost - seen[s]]

CreditData ==
    /\ seen \in [Sessions -> Nat] /\ \A s \in Sessions : seen[s] <= junie[s].cost
    /\ quota.used \in Nat /\ balance.left \in Int /\ Allowance - balance.left \in Nat

\* A refill is the end of a period that has begun.
RefillEndsAPeriod == \E m \in Nat : m <= day \div Period + 1 /\ quota.refill = m * Period

\* What the newest source says was used.
Written == IF Credits!NewestIsBalance THEN Allowance - balance.left ELSE quota.used

\* The account is what the newest source of this period says and what Junie cost since.
AccountIsWritten ==
    Credits!SourceAt >= PeriodBegan => used = Written + SumOver(Billed, Unseen)

\* What a session cost before the newest source, the IDE that wrote it had seen.
OlderIsSeen == \A s \in Sessions : junie[s].updated < Credits!SourceAt => Unseen[s] = 0

CreditInv == CreditData /\ RefillEndsAPeriod /\ AccountIsWritten /\ OlderIsSeen

LEMMA CreditConstants ==
    /\ IsFiniteSet(Sessions) /\ IsFiniteSet(Billed) /\ Billed \subseteq Sessions
    /\ Allowance \in Nat /\ Period \in Nat \ {0} /\ MaxDay \in Nat
<1>1. Billed \in SUBSET Sessions
  BY DEF Billed
<1>2. IsFiniteSet(Sessions) /\ Allowance \in Nat /\ Period \in Nat \ {0} /\ MaxDay \in Nat
  BY PartsAssumption DEF Credits!CreditAssumption, Credits!IsFiniteSet, IsFiniteSet
<1>3. QED
  BY <1>1, <1>2, FS_Subset

LEMMA SourceIsPast ==
    ASSUME CreditTypes
    PROVE  Credits!SourceAt \in -1 .. day /\ PeriodBegan \in Nat /\ PeriodBegan <= day
<1>1. day \in Nat
  BY CreditConstants DEF CreditTypes
<1>2. PeriodBegan \in Nat /\ PeriodBegan <= day
  BY <1>1, CreditConstants, DivisionBounds DEF PeriodBegan
<1>3. QED
  BY <1>1, <1>2 DEF CreditTypes, Credits!SourceAt, Credits!Never

LEMMA UnseenCounts ==
    ASSUME CreditTypes, CreditData
    PROVE  Counts(Billed, Unseen) /\ \A s \in Sessions : Unseen[s] \in Nat
<1>1. \A s \in Sessions : junie[s].cost \in Nat /\ seen[s] \in Nat /\ seen[s] <= junie[s].cost
  BY DEF CreditTypes, CreditData
<1>2. \A s \in Sessions : Unseen[s] \in Nat
  BY <1>1 DEF Unseen
<1>3. QED
  BY <1>2, CreditConstants DEF Counts

LEMMA CreditsBegin == ASSUME Credits!Init, CreditTypes PROVE CreditInv
<1>1. /\ seen = [s \in Sessions |-> 0] /\ day = 0
      /\ junie = [s \in Sessions |-> [cost |-> 0, updated |-> -1]]
      /\ quota = [at |-> -1, used |-> 0, refill |-> Period]
      /\ balance = [at |-> -1, left |-> Allowance]
  <2>1. \A s \in Sessions : Credits!Costs[s] = 0
    BY DEF Credits!Init, Credits!Costs
  <2>2. seen = [s \in Sessions |-> 0]
    BY <2>1 DEF Credits!Init, Credits!Costs
  <2>3. QED
    BY <2>2 DEF Credits!Init, Credits!Never
<1>2. CreditData
  BY <1>1, CreditConstants DEF CreditData
<1>3. RefillEndsAPeriod
  <2>1. 1 \in Nat /\ 1 <= 0 \div Period + 1 /\ Period = 1 * Period
    BY CreditConstants
  <2>2. QED
    BY <1>1, <2>1 DEF RefillEndsAPeriod
<1>4. Credits!SourceAt = -1
  BY <1>1 DEF Credits!SourceAt, Credits!NewestIsBalance, Credits!Never
<1>5. AccountIsWritten
  BY <1>4, SourceIsPast DEF AccountIsWritten
<1>6. OlderIsSeen
  BY <1>1, <1>4 DEF OlderIsSeen
<1>7. QED
  BY <1>2, <1>3, <1>5, <1>6 DEF CreditInv

\* A day later: the period is the same, and so is the account, or the sources are of an
\* earlier one.
LEMMA CreditDay ==
    ASSUME CreditTypes, CreditTypes', CreditInv, Credits!Advance
    PROVE  /\ RefillEndsAPeriod /\ UNCHANGED quota => RefillEndsAPeriod'
           /\ day' = day + 1 /\ day \in Nat
           /\ \/ PeriodBegan' = PeriodBegan /\ Credits!Carried = used
              \/ PeriodBegan' = day'
<1>1. day' = day + 1 /\ day \in Nat
  BY CreditConstants DEF Credits!Advance, CreditTypes
<1>2. /\ (day + 1) % Period # 0 => (day + 1) \div Period = day \div Period
      /\ (day + 1) % Period = 0 => ((day + 1) \div Period) * Period = day + 1
      /\ day \div Period <= (day + 1) \div Period
  BY <1>1, CreditConstants, NextDay
<1>3. (day + 1) % Period = 0 => PeriodBegan' = day'
  BY <1>1, <1>2 DEF PeriodBegan
<1>4. (day + 1) % Period # 0 => PeriodBegan' = PeriodBegan /\ Credits!Carried = used
  BY <1>1, <1>2 DEF PeriodBegan, Credits!Carried
<1>5. RefillEndsAPeriod /\ UNCHANGED quota => RefillEndsAPeriod'
  <2> SUFFICES ASSUME RefillEndsAPeriod, UNCHANGED quota PROVE RefillEndsAPeriod'
    OBVIOUS
  <2>1. PICK m \in Nat : m <= day \div Period + 1 /\ quota.refill = m * Period
    BY DEF RefillEndsAPeriod
  <2>2. day \div Period \in Nat /\ (day + 1) \div Period \in Nat
    BY <1>1, CreditConstants, DivisionBounds
  <2>3. m <= (day + 1) \div Period + 1
    BY <1>2, <2>1, <2>2
  <2>4. QED
    BY <1>1, <2>1, <2>3 DEF RefillEndsAPeriod
<1>6. QED
  BY <1>1, <1>3, <1>4, <1>5

LEMMA DayKeepsCredits ==
    ASSUME CreditTypes, CreditTypes', CreditInv, Credits!DayPasses
    PROVE  CreditInv'
<1>1. Credits!Advance /\ used' = Credits!Carried /\ UNCHANGED <<quota, balance, junie, seen>>
  BY DEF Credits!DayPasses
<1>2. /\ Unseen' = Unseen /\ Written' = Written /\ Credits!SourceAt' = Credits!SourceAt
      /\ CreditData' /\ OlderIsSeen'
  BY <1>1 DEF Unseen, Written, Credits!SourceAt, Credits!NewestIsBalance, CreditInv, CreditData,
              OlderIsSeen
<1>3. RefillEndsAPeriod'
  BY <1>1, CreditDay DEF CreditInv
<1>4. AccountIsWritten'
  <2>1. CASE PeriodBegan' = PeriodBegan /\ Credits!Carried = used
    BY <1>1, <1>2, <2>1 DEF CreditInv, AccountIsWritten
  <2>2. CASE PeriodBegan' = day'
    <3>1. Credits!SourceAt \in -1 .. day /\ day' = day + 1
      BY <1>1, SourceIsPast, CreditDay
    <3>2. ~(Credits!SourceAt' >= PeriodBegan')
      BY <1>2, <2>2, <3>1, CreditConstants DEF CreditTypes
    <3>3. QED
      BY <3>2 DEF AccountIsWritten
  <2>3. QED
    BY <1>1, <2>1, <2>2, CreditDay
<1>5. QED
  BY <1>2, <1>3, <1>4 DEF CreditInv

LEMMA JunieKeepsCredits ==
    ASSUME CreditTypes, CreditTypes', CreditInv, Credits!JunieWorks
    PROVE  CreditInv'
<1>1. Credits!Advance /\ UNCHANGED <<quota, balance, seen>>
  BY DEF Credits!JunieWorks
<1>2. PICK s \in Sessions :
        /\ junie' = [junie EXCEPT ![s] = [cost |-> junie[s].cost + 1, updated |-> day']]
        /\ used' = Credits!Carried + (IF s \in OwnKey THEN 0 ELSE 1)
  BY DEF Credits!JunieWorks
<1>3. /\ Written' = Written /\ Credits!SourceAt' = Credits!SourceAt
  BY <1>1 DEF Written, Credits!SourceAt, Credits!NewestIsBalance
<1>4. /\ \A r \in Sessions : junie[r].cost \in Nat /\ seen[r] \in Nat /\ seen[r] <= junie[r].cost
      /\ \A r \in Sessions \ {s} : junie'[r] = junie[r]
      /\ junie'[s].cost = junie[s].cost + 1 /\ junie'[s].updated = day'
  BY <1>2 DEF CreditInv, CreditData, CreditTypes
<1>5. /\ Unseen'[s] = Unseen[s] + 1
      /\ \A r \in Sessions \ {s} : Unseen'[r] = Unseen[r]
  BY <1>1, <1>4 DEF Unseen
<1>6. CreditData'
  <2>1. \A r \in Sessions : seen[r] <= junie'[r].cost
    BY <1>4
  <2>2. QED
    BY <1>1, <2>1 DEF CreditInv, CreditData
<1>7. day' = day + 1 /\ Credits!SourceAt \in -1 .. day /\ day \in Nat
  BY <1>1, SourceIsPast, CreditDay
<1>8. OlderIsSeen'
  <2> SUFFICES ASSUME NEW r \in Sessions, junie'[r].updated < Credits!SourceAt'
               PROVE  Unseen'[r] = 0
    BY DEF OlderIsSeen
  <2>1. r # s
    BY <1>3, <1>4, <1>7
  <2>2. QED
    BY <1>3, <1>4, <1>5, <2>1 DEF CreditInv, OlderIsSeen
<1>9. RefillEndsAPeriod'
  BY <1>1, CreditDay DEF CreditInv
<1>10. SumOver(Billed, Unseen') = SumOver(Billed, Unseen) + (IF s \in OwnKey THEN 0 ELSE 1)
  <2>1. Counts(Billed, Unseen)
    BY UnseenCounts DEF CreditInv
  <2>2. SumOver(Billed, Unseen) \in Nat
    BY <2>1, SumIsNat
  <2>3. CASE s \in Billed
    <3>1. SumOver(Billed, Unseen') = SumOver(Billed, Unseen) + 1
      BY <1>5, <2>1, <2>3, SumGrows, CreditConstants
    <3>2. QED
      BY <2>3, <3>1 DEF Billed
  <2>4. CASE s \notin Billed
    <3>1. \A r \in Billed : Unseen'[r] = Unseen[r]
      BY <1>5, <2>4, CreditConstants
    <3>2. SumOver(Billed, Unseen') = SumOver(Billed, Unseen)
      BY <2>1, <3>1, SumSame
    <3>3. QED
      BY <2>2, <2>4, <3>2 DEF Billed
  <2>5. QED
    BY <2>3, <2>4
<1>11. AccountIsWritten'
  <2>1. CASE PeriodBegan' = PeriodBegan /\ Credits!Carried = used
    <3>1. SUFFICES ASSUME Credits!SourceAt >= PeriodBegan
                   PROVE  used' = Written + SumOver(Billed, Unseen')
      BY <1>3, <2>1 DEF AccountIsWritten
    <3>2. used = Written + SumOver(Billed, Unseen)
      BY <3>1 DEF CreditInv, AccountIsWritten
    <3>3. SumOver(Billed, Unseen) \in Nat /\ Written \in Int
      BY UnseenCounts, SumIsNat DEF CreditInv, CreditData, Written
    <3>4. QED
      BY <1>2, <1>10, <2>1, <3>2, <3>3
  <2>2. CASE PeriodBegan' = day'
    <3>1. ~(Credits!SourceAt' >= PeriodBegan')
      BY <1>3, <1>7, <2>2
    <3>2. QED
      BY <3>1 DEF AccountIsWritten
  <2>3. QED
    BY <1>1, <2>1, <2>2, CreditDay
<1>12. QED
  BY <1>6, <1>8, <1>9, <1>11 DEF CreditInv

LEMMA IdeKeepsCredits ==
    ASSUME CreditTypes, CreditTypes', CreditInv, Credits!IdeWrites
    PROVE  CreditInv'
<1>1. Credits!Advance /\ junie' = junie /\ seen' = Credits!Costs
  BY DEF Credits!IdeWrites
<1>2. day' = day + 1 /\ day \in Nat
  BY <1>1, CreditDay
<1>0. PICK u \in Nat : used' = u
  BY DEF CreditTypes
<1>3. \A s \in Sessions : seen'[s] = junie'[s].cost /\ junie'[s].cost \in Nat
  BY <1>1 DEF Credits!Costs, CreditTypes
<1>4. \A s \in Sessions : Unseen'[s] = 0
  BY <1>3 DEF Unseen
<1>5. OlderIsSeen'
  BY <1>4 DEF OlderIsSeen
<1>6. SumOver(Billed, Unseen') = 0
  <2>1. Counts(Billed, Unseen')
    BY <1>4, CreditConstants DEF Counts
  <2>2. QED
    BY <1>4, <2>1, SumOfNothing, CreditConstants
<1>7. seen' \in [Sessions -> Nat] /\ \A s \in Sessions : seen'[s] <= junie'[s].cost
  <2>1. seen' = [s \in Sessions |-> junie[s].cost]
    BY <1>1 DEF Credits!Costs
  <2>2. QED
    BY <1>1, <1>3, <2>1
<1>8. quota.at \in -1 .. day /\ balance.at \in -1 .. day
  BY DEF CreditTypes, Credits!Never
<1>9. CASE /\ quota' = [at |-> day', used |-> used', refill |-> (day' \div Period + 1) * Period]
           /\ UNCHANGED balance
  <2>1. ~Credits!NewestIsBalance'
    BY <1>2, <1>8, <1>9 DEF Credits!NewestIsBalance
  <2>2. Written' = used'
    BY <1>9, <2>1 DEF Written
  <2>3. AccountIsWritten'
    <3>1. u = u + 0
      OBVIOUS
    <3>2. used' = Written' + SumOver(Billed, Unseen')
      BY <1>0, <1>6, <2>2, <3>1
    <3>3. QED
      BY <3>2 DEF AccountIsWritten
  <2>4. CreditData'
    BY <1>0, <1>7, <1>9 DEF CreditInv, CreditData
  <2>5. RefillEndsAPeriod'
    <3>1. day' \div Period \in Nat
      BY <1>2, CreditConstants, DivisionBounds
    <3>2. quota'.refill = (day' \div Period + 1) * Period
      BY <1>9
    <3>3. QED
      BY <3>1, <3>2 DEF RefillEndsAPeriod
  <2>6. QED
    BY <1>5, <2>3, <2>4, <2>5 DEF CreditInv
<1>10. CASE balance' = [at |-> day', left |-> Allowance - used'] /\ UNCHANGED quota
  <2>1. Credits!NewestIsBalance'
    BY <1>2, <1>8, <1>10 DEF Credits!NewestIsBalance, Credits!Never
  <2>2. Allowance - balance'.left = used' /\ balance'.left \in Int
    <3>1. balance'.left = Allowance - u
      BY <1>0, <1>10
    <3>2. QED
      BY <1>0, <3>1, CreditConstants
  <2>3. AccountIsWritten'
    <3>1. u = u + 0
      OBVIOUS
    <3>2. used' = Written' + SumOver(Billed, Unseen')
      BY <1>0, <1>6, <2>1, <2>2, <3>1 DEF Written
    <3>3. QED
      BY <3>2 DEF AccountIsWritten
  <2>4. CreditData'
    BY <1>0, <1>7, <1>10, <2>2 DEF CreditInv, CreditData
  <2>5. RefillEndsAPeriod'
    BY <1>1, <1>10, CreditDay DEF CreditInv
  <2>6. QED
    BY <1>5, <2>3, <2>4, <2>5 DEF CreditInv
<1>11. QED
  BY <1>9, <1>10 DEF Credits!IdeWrites

LEMMA CreditsKeep ==
    ASSUME CreditTypes, CreditTypes', CreditInv, [Credits!Next]_creditVars
    PROVE  CreditInv'
<1>1. CASE Credits!FetchCredits \/ UNCHANGED creditVars
  <2>1. UNCHANGED <<day, used, quota, balance, junie, seen>>
    BY <1>1 DEF Credits!FetchCredits, creditVars
  <2>2. /\ Unseen' = Unseen /\ Written' = Written /\ Credits!SourceAt' = Credits!SourceAt
        /\ PeriodBegan' = PeriodBegan
    BY <2>1 DEF Unseen, Written, Credits!SourceAt, Credits!NewestIsBalance, PeriodBegan
  <2>3. CreditData' /\ RefillEndsAPeriod'
    BY <2>1 DEF CreditInv, CreditData, RefillEndsAPeriod
  <2>4. AccountIsWritten' /\ OlderIsSeen'
    BY <2>1, <2>2 DEF CreditInv, AccountIsWritten, OlderIsSeen
  <2>5. QED
    BY <2>3, <2>4 DEF CreditInv
<1>2. QED
  BY <1>1, DayKeepsCredits, JunieKeepsCredits, IdeKeepsCredits DEF Credits!Next

\* What a poll adds to the newest source is at least what that source had not seen, and no
\* more if it had seen nothing of the sessions that went on.
LEMMA CreditsPromise ==
    ASSUME CreditTypes, CreditInv, Credits!FetchCredits, credits'.dated, ~credits'.stale
    PROVE  /\ credits'.used >= credits'.truth
           /\ (\A s \in Sessions : junie[s].updated >= Credits!SourceAt => seen[s] = 0)
                => credits'.used = credits'.truth
<1>1. /\ credits'.used = (IF Credits!NewestIsBalance THEN Credits!WithLive ELSE quota.used)
                         + Credits!CreditsSince(Credits!SourceAt)
      /\ ~(Credits!SourceAt < Credits!PeriodStart) /\ credits'.truth = used
  <2>1. /\ credits'.used = (IF Credits!NewestIsBalance THEN Credits!WithLive ELSE quota.used)
                           + (IF Credits!Stale THEN 0 ELSE Credits!CreditsSince(Credits!SourceAt))
        /\ credits'.truth = used /\ credits'.stale = Credits!Stale
        /\ credits'.dated = (quota.at # Credits!Never)
    BY DEF Credits!FetchCredits
  <2>2. quota.at # Credits!Never /\ ~Credits!Stale
    BY <2>1
  <2>3. ~(Credits!SourceAt < Credits!PeriodStart)
    BY <2>2 DEF Credits!Stale
  <2>4. QED
    BY <2>1, <2>2, <2>3
<1>2. Credits!PeriodStart = PeriodBegan
  <2>1. PICK m \in Nat : m <= day \div Period + 1 /\ quota.refill = m * Period
    BY DEF CreditInv, RefillEndsAPeriod
  <2>2. day \in Nat
    BY DEF CreditTypes
  <2>3. (IF m * Period > day THEN m * Period
         ELSE m * Period + ((day - m * Period) \div Period + 1) * Period) - Period
          = (day \div Period) * Period
    BY <2>1, <2>2, CreditConstants, PeriodIsFound
  <2>4. QED
    BY <2>1, <2>3 DEF Credits!PeriodStart, PeriodBegan
<1>3. (IF Credits!NewestIsBalance THEN Credits!WithLive ELSE quota.used) = Written
  <2>1. Credits!WithLive = Allowance - balance.left
    <3> DEFINE n == Allowance - balance.left
    <3>1. n \in Nat
      BY DEF CreditInv, CreditData
    <3> HIDE DEF n
    <3>2. \E x \in {0, n} : \A y \in {0, n} : x >= y
      BY <3>1
    <3>3. \A x \in {0, n} : (\A y \in {0, n} : x >= y) => x = n
      BY <3>1
    <3>4. Credits!Max({0, n}) = n
      <4> DEFINE m == Credits!Max({0, n})
      <4>1. m \in {0, n} /\ \A y \in {0, n} : m >= y
        BY <3>2, Zenon DEF Credits!Max
      <4>2. QED
        BY <3>3, <4>1
    <3>5. QED
      BY <3>4 DEF n, Credits!WithLive
  <2>2. QED
    BY <2>1 DEF Written
<1>4. used = Written + SumOver(Billed, Unseen)
  <2>1. Credits!SourceAt >= PeriodBegan
    BY <1>1, <1>2, SourceIsPast
  <2>2. QED
    BY <2>1 DEF CreditInv, AccountIsWritten
<1> DEFINE R == {s \in Billed : junie[s].updated >= Credits!SourceAt}
<1>5. R \in SUBSET Billed
  OBVIOUS
<1>6. Credits!CreditsSince(Credits!SourceAt) = SumOver(R, Credits!Costs)
  BY CostsAreSums DEF Credits!CreditsSince, Billed
<1>7. Counts(Billed, Unseen) /\ \A s \in Sessions : Unseen[s] \in Nat
  BY UnseenCounts DEF CreditInv
<1>8. SumOver(Billed, Unseen) = SumOver(R, Unseen)
  <2>1. ASSUME NEW s \in Billed \ R
        PROVE  Unseen[s] = 0
    <3>1. s \in Sessions /\ ~(junie[s].updated >= Credits!SourceAt)
      BY CreditConstants
    <3>2. junie[s].updated \in -1 .. day /\ Credits!SourceAt \in -1 .. day
      BY <3>1, SourceIsPast DEF CreditTypes, Credits!Never
    <3>3. junie[s].updated < Credits!SourceAt
      BY <3>1, <3>2
    <3>4. QED
      BY <3>1, <3>3 DEF CreditInv, OlderIsSeen
  <2> HIDE DEF R
  <2>2. QED
    BY <1>5, <1>7, <2>1, SumOfWhatCounts
<1>9. /\ Counts(R, Unseen) /\ Counts(R, Credits!Costs)
      /\ \A s \in R : Unseen[s] <= Credits!Costs[s] /\ (seen[s] = 0 => Unseen[s] = Credits!Costs[s])
  <2>1. ASSUME NEW s \in R
        PROVE  /\ Credits!Costs[s] \in Nat /\ Unseen[s] <= Credits!Costs[s]
               /\ seen[s] = 0 => Unseen[s] = Credits!Costs[s]
    <3>1. s \in Sessions
      BY CreditConstants
    <3>2. junie[s].cost \in Nat /\ seen[s] \in Nat /\ seen[s] <= junie[s].cost
      BY <3>1 DEF CreditTypes, CreditInv, CreditData
    <3>3. Credits!Costs[s] = junie[s].cost /\ Unseen[s] = junie[s].cost - seen[s]
      BY <3>1 DEF Credits!Costs, Unseen
    <3>4. QED
      BY <3>2, <3>3
  <2> HIDE DEF R
  <2>2. Counts(R, Unseen)
    BY <1>5, <1>7, SumsStayFinite
  <2>3. QED
    BY <2>1, <2>2 DEF Counts
<1>10. SumOver(R, Unseen) <= SumOver(R, Credits!Costs)
  <2> HIDE DEF R
  <2> QED
    BY <1>9, SumAtMost
<1>11. SumOver(R, Unseen) \in Nat /\ SumOver(R, Credits!Costs) \in Nat /\ Written \in Int
  <2>1. Written \in Int
    BY DEF Written, CreditInv, CreditData
  <2> HIDE DEF R
  <2>2. QED
    BY <1>9, <2>1, SumIsNat
<1>12. ASSUME \A s \in Sessions : junie[s].updated >= Credits!SourceAt => seen[s] = 0
       PROVE  SumOver(R, Unseen) = SumOver(R, Credits!Costs)
  <2>1. \A s \in R : seen[s] = 0
    BY <1>12, CreditConstants
  <2> HIDE DEF R
  <2>2. QED
    BY <1>9, <2>1, SumAtMost
<1> HIDE DEF R
<1>13. credits'.used = Written + SumOver(R, Credits!Costs) /\ credits'.truth = Written + SumOver(R, Unseen)
  BY <1>1, <1>3, <1>4, <1>6, <1>8
<1>14. QED
  BY <1>10, <1>11, <1>12, <1>13

CreditHolds == part = "credits" => CreditInv

LEMMA CreditsAlways == Spec => []CreditHolds
<1>1. Init /\ TypesHold => CreditHolds
  BY CreditsBegin DEF Init, TypesHold, CreditHolds
<1>2. TypesHold /\ TypesHold' /\ CreditHolds /\ [Next]_trayVars => CreditHolds'
  <2> SUFFICES ASSUME TypesHold, TypesHold', CreditHolds, [Next]_trayVars, part' = "credits"
               PROVE  CreditInv'
    BY DEF CreditHolds
  <2>1. part = "credits" /\ [Credits!Next]_creditVars
    BY DEF Next, IconSteps, PanelSteps, DialogSteps, JobSteps, TranscriptSteps, SignInSteps,
           CreditSteps, UsageSteps, NotifySteps, Rest, trayVars, creditVars
  <2>2. QED
    BY <2>1, CreditsKeep DEF TypesHold, CreditHolds
<1>3. QED
  BY <1>1, <1>2, TypesAlways, PTL DEF Spec

\* The figures of a poll that are not marked as last period's never promise credits that
\* are gone, whichever of the IDEs' files is the newest, whoever spent since, and wherever
\* the period turned in between (_fetch, _period and credits_since).
THEOREM CreditsAreNotPromised == Spec => CreditsAddUp
<1>1. TypesHold /\ CreditHolds /\ [Next]_trayVars =>
        [credits' # credits /\ credits'.dated /\ ~credits'.stale =>
            /\ credits'.used >= credits'.truth
            /\ (\A s \in Sessions : junie[s].updated >= Credits!SourceAt => seen[s] = 0)
                  => credits'.used = credits'.truth]_creditVars
  <2> SUFFICES ASSUME TypesHold, CreditHolds, [Next]_trayVars, credits' # credits,
                      credits'.dated, ~credits'.stale
               PROVE  /\ credits'.used >= credits'.truth
                      /\ (\A s \in Sessions : junie[s].updated >= Credits!SourceAt => seen[s] = 0)
                            => credits'.used = credits'.truth
    OBVIOUS
  <2>1. CreditSteps
    BY DEF Next, trayVars, creditVars, IconSteps, PanelSteps, DialogSteps, JobSteps,
           TranscriptSteps, SignInSteps, UsageSteps, NotifySteps, Rest
  <2>2. CreditTypes /\ CreditInv /\ Credits!Next
    BY <2>1 DEF CreditSteps, TypesHold, CreditHolds
  <2>3. Credits!FetchCredits
    BY <2>2 DEF Credits!Next, Credits!DayPasses, Credits!JunieWorks, Credits!IdeWrites
  <2>4. QED
    BY <2>2, <2>3, CreditsPromise
<1>2. QED
  BY <1>1, CreditsAlways, TypesAlways, PTL DEF Spec, CreditsAddUp, Credits!CreditsAddUp,
                                           Credits!creditVars, creditVars
--------------------------------------------------------------------------------
(* Transcripts: what a parse keeps of the lines, and what a poll counts of that.    *)

LEMMA LargestIs ==
    ASSUME NEW S \in SUBSET Int, NEW m \in S, \A y \in S : y <= m
    PROVE  Transcripts!Max(S) = m
<1>1. \A x \in S : (\A y \in S : x >= y) => x = m
  OBVIOUS
<1> DEFINE n == Transcripts!Max(S)
<1>2. n \in S /\ \A y \in S : n >= y
  <2>1. \E x \in S : \A y \in S : x >= y
    OBVIOUS
  <2>2. QED
    BY <2>1, Zenon DEF Transcripts!Max
<1>3. QED
  BY <1>1, <1>2

LEMMA LeastIs ==
    ASSUME NEW S \in SUBSET Int, NEW m \in S, \A y \in S : m <= y
    PROVE  Transcripts!Min(S) = m
<1>1. \A x \in S : (\A y \in S : x <= y) => x = m
  OBVIOUS
<1> DEFINE n == Transcripts!Min(S)
<1>2. n \in S /\ \A y \in S : n <= y
  <2>1. \E x \in S : \A y \in S : x <= y
    BY Zenon
  <2>2. QED
    BY <2>1, Zenon DEF Transcripts!Min
<1>3. QED
  BY <1>1, <1>2

\* Positions of a sequence have a first and a last one.
LEMMA Ends ==
    ASSUME NEW X, NEW s \in Seq(X), NEW S \in SUBSET (DOMAIN s), S # {}
    PROVE  /\ Transcripts!Max(S) \in S /\ \A y \in S : y <= Transcripts!Max(S)
           /\ Transcripts!Min(S) \in S /\ \A y \in S : Transcripts!Min(S) <= y
<1>1. S \in SUBSET Int /\ IsFiniteSet(S)
  <2>1. DOMAIN s = 1 .. Len(s) /\ Len(s) \in Nat
    OBVIOUS
  <2>2. IsFiniteSet(1 .. Len(s)) /\ S \subseteq 1 .. Len(s)
    BY <2>1, FS_Interval
  <2>3. QED
    BY <2>1, <2>2, FS_Subset
<1>2. PICK a, b \in S : \A y \in S : a <= y /\ y <= b
  BY <1>1, Extremes
<1>3. Transcripts!Max(S) = b /\ Transcripts!Min(S) = a
  BY <1>1, <1>2, LargestIs, LeastIs
<1>4. QED
  BY <1>2, <1>3

LEMMA TokensAreSums ==
    ASSUME NEW f, NEW S
    PROVE  Transcripts!SumFunctionOnSet(f, S) = SumOver(S, f)
BY Zenon DEF Transcripts!SumFunctionOnSet, Transcripts!FoldFunctionOnSet, Transcripts!MapThenFoldSet,
             SumOver, AnyOf

\* What one line more makes of the records.
Joined == [p \in Seq(Records) \X Records |-> Transcripts!Merged(p[1], p[2])]
RecordsUpTo(g, s, n) ==
    g = [i \in 0 .. n |-> IF i = 0 THEN <<>> ELSE Transcripts!Merged(g[i - 1], s[i])]

LEMMA RecordsAre ==
    ASSUME NEW l \in Records
    PROVE  /\ l.at \in Nat /\ l.tokens \in Tokens /\ l.tokens \in Nat
           /\ l.id \in Messages \/ l.id = Transcripts!NoId
<1>1. MaxClock \in Nat /\ Tokens \subseteq Nat
  BY PartsAssumption DEF Transcripts!TranscriptAssumption
<1>2. l.tokens \in Tokens /\ l.at \in 0 .. MaxClock /\ l.id \in Messages \cup {Transcripts!NoId}
  BY DEF Records
<1>3. l.tokens \in Nat
  BY <1>1, <1>2, Zenon
<1>4. l.at \in Nat
  BY <1>1, <1>2
<1>5. QED
  BY <1>2, <1>3, <1>4, Zenon

LEMMA MergedIsRecords ==
    ASSUME NEW r \in Seq(Records), NEW l \in Records
    PROVE  /\ Transcripts!Merged(r, l) \in Seq(Records)
           /\ Transcripts!Same(r, l) = {} => Transcripts!Merged(r, l) = Append(r, l)
           /\ Transcripts!Same(r, l) # {} =>
                 \E i \in Transcripts!Same(r, l) :
                    LET m == Transcripts!Merged(r, l)
                    IN  /\ DOMAIN m = DOMAIN r /\ \A j \in DOMAIN r : j # i => m[j] = r[j]
                        /\ m[i].at = r[i].at /\ m[i].id = r[i].id
                        /\ m[i].tokens = IF l.tokens >= r[i].tokens THEN l.tokens ELSE r[i].tokens
<1>1. CASE Transcripts!Same(r, l) = {}
  <2>1. Transcripts!Merged(r, l) = Append(r, l)
    BY <1>1 DEF Transcripts!Merged
  <2>2. QED
    BY <1>1, <2>1
<1>2. CASE Transcripts!Same(r, l) # {}
  <2>1. PICK i \in Transcripts!Same(r, l) : i = CHOOSE j \in Transcripts!Same(r, l) : TRUE
    BY <1>2
  <2>2. PICK k : k = Transcripts!Max({r[i].tokens, l.tokens})
    OBVIOUS
  <2>3. Transcripts!Merged(r, l) = [r EXCEPT ![i].tokens = k]
    BY <1>2, <2>1, <2>2, Zenon DEF Transcripts!Merged
  <2>4. i \in DOMAIN r
    BY DEF Transcripts!Same
  <2>5. PICK q \in Records : q = r[i]
    BY <2>4
  <2>6. q.tokens \in Tokens /\ l.tokens \in Tokens /\ q.tokens \in Nat /\ l.tokens \in Nat
    BY RecordsAre
  <2>7. k \in Tokens /\ k = IF l.tokens >= q.tokens THEN l.tokens ELSE q.tokens
    <3>1. PICK h : h = IF l.tokens >= q.tokens THEN l.tokens ELSE q.tokens
      OBVIOUS
    <3>2. {q.tokens, l.tokens} \in SUBSET Int /\ h \in {q.tokens, l.tokens}
      BY <2>6, <3>1
    <3>3. \A y \in {q.tokens, l.tokens} : y <= h
      BY <2>6, <3>1
    <3>4. k = h
      BY <2>2, <2>5, <3>2, <3>3, LargestIs
    <3>5. QED
      BY <2>6, <3>1, <3>4
  <2>8. PICK m : m = [r EXCEPT ![i].tokens = k]
    OBVIOUS
  <2>9. PICK e : e = [q EXCEPT !.tokens = k]
    OBVIOUS
  <2>10. e = [at |-> q.at, id |-> q.id, tokens |-> k] /\ e \in Records
    BY <2>7, <2>9 DEF Records
  <2>11. m = [r EXCEPT ![i] = e]
    BY <2>5, <2>8, <2>9
  <2>12. /\ m \in Seq(Records) /\ DOMAIN m = DOMAIN r /\ m[i] = e
         /\ \A j \in DOMAIN r : j # i => m[j] = r[j]
    BY <2>4, <2>10, <2>11
  <2>13. QED
    BY <1>2, <2>3, <2>5, <2>7, <2>8, <2>10, <2>12
<1>3. QED
  BY <1>1, <1>2

LEMMA CollapsedIsFold ==
    ASSUME NEW s \in Seq(Records)
    PROVE  IsFold(Transcripts!Collapsed(s), s, <<>>, Joined) /\ Transcripts!Collapsed(s) \in Seq(Records)
<1>1. PICK n \in Nat : n = Len(s)
  OBVIOUS
<1>2. <<>> \in Seq(Records) /\ Joined \in [Seq(Records) \X Records -> Seq(Records)]
  <2>1. \A p \in Seq(Records) \X Records : Transcripts!Merged(p[1], p[2]) \in Seq(Records)
    BY MergedIsRecords
  <2>2. QED
    BY <2>1 DEF Joined
<1>3. PICK f \in [0 .. n -> Seq(Records)] : Folds(f, s, <<>>, Joined)
  <2>1. \E f \in [0 .. Len(s) -> Seq(Records)] : Folds(f, s, <<>>, Joined)
    BY <1>2, FoldsExist
  <2>2. QED
    BY <1>1, <2>1, Zenon
<1>4. \A i \in 0 .. n : f[i] = IF i = 0 THEN <<>> ELSE Transcripts!Merged(f[i - 1], s[i])
  <2>1. f[0] = <<>>
    BY <1>3 DEF Folds
  <2>2. ASSUME NEW i \in 1 .. n
        PROVE  f[i] = Transcripts!Merged(f[i - 1], s[i])
    <3>1. PICK u \in Seq(Records), x \in Records : u = f[i - 1] /\ x = s[i]
      <4>1. i - 1 \in 0 .. n
        OBVIOUS
      <4>2. f[i - 1] \in Seq(Records) /\ s[i] \in Records
        BY <1>1, <4>1
      <4>3. QED
        BY <4>2, Zenon
    <3>2. f[i] = Joined[<<u, x>>]
      BY <1>1, <1>3, <3>1 DEF Folds
    <3>3. Joined[<<u, x>>] = Transcripts!Merged(u, x)
      BY DEF Joined
    <3>4. QED
      BY <3>1, <3>2, <3>3
  <2>3. ASSUME NEW i \in 0 .. n
        PROVE  f[i] = IF i = 0 THEN <<>> ELSE Transcripts!Merged(f[i - 1], s[i])
    <3>1. i = 0 \/ i \in 1 .. n
      OBVIOUS
    <3>2. QED
      BY <2>1, <2>2, <3>1
  <2>4. QED
    BY <2>3
<1>5. f = [i \in 0 .. n |-> f[i]]
  OBVIOUS
<1>6. RecordsUpTo(f, s, n)
  BY <1>4, <1>5, Zenon DEF RecordsUpTo
<1>7. PICK w : RecordsUpTo(w, s, n) /\ Transcripts!Collapsed(s) = w[n]
  <2> DEFINE v == CHOOSE v : v = [i \in 0 .. n |->
                                     IF i = 0 THEN <<>> ELSE Transcripts!Merged(v[i - 1], s[i])]
  <2>1. RecordsUpTo(v, s, n)
    BY <1>6, Zenon DEF RecordsUpTo
  <2>2. Transcripts!Collapsed(s) = v[n]
    BY <1>1, Zenon DEF Transcripts!Collapsed
  <2> HIDE DEF v
  <2>3. QED
    BY <2>1, <2>2
<1>8. w[n] = f[n]
  <2>1. \A i \in 0 .. n : w[i] = IF i = 0 THEN <<>> ELSE Transcripts!Merged(w[i - 1], s[i])
    BY <1>7 DEF RecordsUpTo
  <2>2. 0 \in 0 .. n /\ n \in 0 .. n /\ \A i \in 1 .. n : i \in 0 .. n /\ i # 0
    OBVIOUS
  <2>3. GoesAlong(w, f, n)
    BY <1>4, <2>1, <2>2 DEF GoesAlong
  <2>4. SameTo(w, f, n)
    BY <2>3, Alike
  <2>5. QED
    BY <2>2, <2>4 DEF SameTo
<1>9. f[n] \in Seq(Records)
  OBVIOUS
<1>10. QED
  BY <1>1, <1>3, <1>7, <1>8, <1>9 DEF IsFold

LEMMA CollapsedEmpty == Transcripts!Collapsed(<<>>) = <<>>
<1>1. <<>> \in Seq(Records)
  OBVIOUS
<1>2. IsFold(Transcripts!Collapsed(<<>>), <<>>, <<>>, Joined)
  BY <1>1, CollapsedIsFold
<1>3. QED
  BY <1>2, FoldEmpty

LEMMA CollapsedAppend ==
    ASSUME NEW s \in Seq(Records), NEW l \in Records, NEW t, t = Append(s, l)
    PROVE  /\ Transcripts!Collapsed(t) = Transcripts!Merged(Transcripts!Collapsed(s), l)
           /\ Transcripts!Collapsed(s) \in Seq(Records)
<1>1. t \in Seq(Records)
  OBVIOUS
<1>2. PICK u \in Seq(Records) : u = Transcripts!Collapsed(s) /\ IsFold(u, s, <<>>, Joined)
  BY CollapsedIsFold
<1>3. PICK v : v = Transcripts!Collapsed(t) /\ IsFold(v, t, <<>>, Joined)
  BY <1>1, CollapsedIsFold
<1>4. v = Joined[<<u, l>>]
  BY <1>2, <1>3, FoldAppend
<1>5. Joined[<<u, l>>] = Transcripts!Merged(u, l)
  BY DEF Joined
<1>6. QED
  BY <1>2, <1>3, <1>4, <1>5

\* A message's first and last line, and what counts of a file: the messages whose first
\* line is inside the window, at what their last line says, and the lines without an id.
FirstOf(s, id) == s[Transcripts!Min(Transcripts!Lines(s, id))]
LastOf(s, id) == s[Transcripts!Max(Transcripts!Lines(s, id))]
Told(s, c) == {id \in Messages : Transcripts!Lines(s, id) # {} /\ FirstOf(s, id).at >= c}
Spent(s) == [id \in Messages |-> IF Transcripts!Lines(s, id) = {} THEN 0 ELSE LastOf(s, id).tokens]
Inside(s, c) == {i \in DOMAIN s : s[i].at >= c}
Loose(s, c) == {i \in Transcripts!Lines(s, Transcripts!NoId) : s[i].at >= c}
Amounts(s) == [i \in DOMAIN s |-> s[i].tokens]

\* t is s with l at its end, the position n.
Longer(s, l, t, n) ==
    /\ n \in Nat \ {0} /\ n \notin DOMAIN s /\ DOMAIN t = DOMAIN s \cup {n} /\ t[n] = l
    /\ \A i \in DOMAIN s : i <= n /\ t[i] = s[i]
    /\ Transcripts!Lines(t, l.id) = Transcripts!Lines(s, l.id) \cup {n}
    /\ \A id : id # l.id => Transcripts!Lines(t, id) = Transcripts!Lines(s, id)

LEMMA LinesAppend ==
    ASSUME NEW s \in Seq(Records), NEW l \in Records, NEW t, t = Append(s, l), NEW n, n = Len(s) + 1
    PROVE  Longer(s, l, t, n)
<1>1. /\ n \in Nat \ {0} /\ DOMAIN s = 1 .. n - 1 /\ DOMAIN t = 1 .. n /\ t[n] = l
      /\ \A i \in 1 .. n - 1 : t[i] = s[i]
  OBVIOUS
<1>2. /\ n \notin DOMAIN s /\ DOMAIN t = DOMAIN s \cup {n}
      /\ \A i \in DOMAIN s : i <= n /\ t[i] = s[i]
  BY <1>1
<1>3. \A id : Transcripts!Lines(t, id) = Transcripts!Lines(s, id) \cup (IF l.id = id THEN {n} ELSE {})
  BY <1>1, <1>2 DEF Transcripts!Lines
<1>4. Transcripts!Lines(t, l.id) = Transcripts!Lines(s, l.id) \cup {n}
  BY <1>3
<1>5. \A id : id # l.id => Transcripts!Lines(t, id) = Transcripts!Lines(s, id)
  BY <1>3
<1>6. QED
  BY <1>1, <1>2, <1>4, <1>5 DEF Longer

LaterEnds(s, l, t) ==
    /\ \A id : id # l.id /\ Transcripts!Lines(s, id) # {} =>
                FirstOf(t, id) = FirstOf(s, id) /\ LastOf(t, id) = LastOf(s, id)
    /\ LastOf(t, l.id) = l
    /\ FirstOf(t, l.id) = IF Transcripts!Lines(s, l.id) = {} THEN l ELSE FirstOf(s, l.id)
LEMMA FirstAndLast ==
    ASSUME NEW s \in Seq(Records), NEW l \in Records, NEW t, t = Append(s, l)
    PROVE  LaterEnds(s, l, t)
<1>1. PICK n : n = Len(s) + 1
  OBVIOUS
<1>2. /\ n \in Nat \ {0} /\ n \notin DOMAIN s /\ DOMAIN t = DOMAIN s \cup {n} /\ t[n] = l
      /\ \A i \in DOMAIN s : i <= n /\ t[i] = s[i]
      /\ Transcripts!Lines(t, l.id) = Transcripts!Lines(s, l.id) \cup {n}
      /\ \A id : id # l.id => Transcripts!Lines(t, id) = Transcripts!Lines(s, id)
  <2>1. Longer(s, l, t, n)
    BY <1>1, LinesAppend
  <2>2. QED
    BY <2>1 DEF Longer
<1>3. \A id : Transcripts!Lines(s, id) \in SUBSET (DOMAIN s)
  BY DEF Transcripts!Lines
<1>4. ASSUME NEW id, id # l.id, Transcripts!Lines(s, id) # {}
      PROVE  FirstOf(t, id) = FirstOf(s, id) /\ LastOf(t, id) = LastOf(s, id)
  <2>1. /\ Transcripts!Max(Transcripts!Lines(s, id)) \in DOMAIN s
        /\ Transcripts!Min(Transcripts!Lines(s, id)) \in DOMAIN s
    BY <1>3, <1>4, Ends
  <2>2. QED
    BY <1>2, <1>4, <2>1 DEF FirstOf, LastOf
<1>5. PICK S, T : S = Transcripts!Lines(s, l.id) /\ T = Transcripts!Lines(t, l.id)
  OBVIOUS
<1>6. T = S \cup {n} /\ T \in SUBSET Int /\ S \in SUBSET (DOMAIN s)
  <2>1. DOMAIN s \subseteq Int
    OBVIOUS
  <2>2. QED
    BY <1>2, <1>3, <1>5, <2>1
<1>7. LastOf(t, l.id) = l
  <2>1. \A y \in T : y <= n
    BY <1>2, <1>6
  <2>2. Transcripts!Max(T) = n
    BY <1>6, <2>1, LargestIs
  <2>3. QED
    BY <1>2, <1>5, <2>2 DEF LastOf
<1>8. CASE S = {}
  <2>1. \A y \in T : n <= y
    BY <1>2, <1>6, <1>8
  <2>2. Transcripts!Min(T) = n
    BY <1>6, <2>1, LeastIs
  <2>3. FirstOf(t, l.id) = l
    BY <1>2, <1>5, <2>2 DEF FirstOf
  <2>4. QED
    BY <1>4, <1>5, <1>7, <1>8, <2>3 DEF LaterEnds
<1>9. CASE S # {}
  <2>1. PICK m : m = Transcripts!Min(S)
    OBVIOUS
  <2>2. m \in S /\ \A y \in S : m <= y
    BY <1>6, <1>9, <2>1, Ends
  <2>3. m \in DOMAIN s /\ m \in T /\ m <= n
    BY <1>2, <1>6, <2>2
  <2>4. \A y \in T : m <= y
    BY <1>6, <2>2, <2>3
  <2>5. Transcripts!Min(T) = m
    BY <1>6, <2>3, <2>4, LeastIs
  <2>6. FirstOf(t, l.id) = FirstOf(s, l.id)
    BY <1>2, <1>5, <2>1, <2>3, <2>5 DEF FirstOf
  <2>7. QED
    BY <1>4, <1>5, <1>7, <1>9, <2>6 DEF LaterEnds
<1>10. QED
  BY <1>8, <1>9

LEMMA AmountsCount ==
    ASSUME NEW s \in Seq(Records), NEW S \in SUBSET (DOMAIN s)
    PROVE  Counts(S, Amounts(s)) /\ \A i \in DOMAIN s : Amounts(s)[i] = s[i].tokens /\ s[i].tokens \in Nat
<1>1. IsFiniteSet(S)
  <2>1. DOMAIN s = 1 .. Len(s) /\ Len(s) \in Nat
    OBVIOUS
  <2>2. IsFiniteSet(1 .. Len(s)) /\ S \subseteq 1 .. Len(s)
    BY <2>1, FS_Interval
  <2>3. QED
    BY <2>2, FS_Subset
<1>2. \A i \in DOMAIN s : s[i] \in Records
  OBVIOUS
<1>3. \A i \in DOMAIN s : Amounts(s)[i] = s[i].tokens /\ s[i].tokens \in Nat
  BY <1>2, RecordsAre DEF Amounts
<1>4. QED
  BY <1>1, <1>3 DEF Counts

LEMMA SpentIsNat ==
    ASSUME NEW s \in Seq(Records), NEW id \in Messages
    PROVE  /\ Spent(s)[id] \in Nat
           /\ Transcripts!Lines(s, id) # {} => Spent(s)[id] = LastOf(s, id).tokens
<1>1. CASE Transcripts!Lines(s, id) = {}
  BY <1>1 DEF Spent
<1>2. CASE Transcripts!Lines(s, id) # {}
  <2>1. Transcripts!Lines(s, id) \in SUBSET (DOMAIN s)
    BY DEF Transcripts!Lines
  <2>2. PICK m \in DOMAIN s : m = Transcripts!Max(Transcripts!Lines(s, id))
    BY <1>2, <2>1, Ends
  <2>3. s[m] \in Records
    OBVIOUS
  <2>4. s[m].tokens \in Nat
    BY <2>3, RecordsAre
  <2>5. QED
    BY <1>2, <2>2, <2>4 DEF Spent, LastOf
<1>3. QED
  BY <1>1, <1>2

\* The records are the messages of the file, each once, with its first line's time and its
\* last line's tokens, and the lines without an id.
KnownBy(s, r) ==
    /\ \A i \in DOMAIN r : r[i].id # Transcripts!NoId =>
          /\ Transcripts!Lines(s, r[i].id) # {}
          /\ r[i].at = FirstOf(s, r[i].id).at /\ r[i].tokens = LastOf(s, r[i].id).tokens
    /\ \A id \in Messages : Transcripts!Lines(s, id) # {} => \E i \in DOMAIN r : r[i].id = id
    /\ \A i, j \in DOMAIN r : r[i].id = r[j].id /\ r[i].id # Transcripts!NoId => i = j

\* A line reports no less than the message's lines before it.
Later(s, l) == Transcripts!Lines(s, l.id) # {} => LastOf(s, l.id).tokens <= l.tokens

LEMMA NewIsNew ==
    ASSUME NEW s, NEW r, KnownBy(s, r), NEW l \in Records, Transcripts!Same(r, l) = {},
           l.id # Transcripts!NoId
    PROVE  l.id \in Messages /\ Transcripts!Lines(s, l.id) = {} /\ \A i \in DOMAIN r : r[i].id # l.id
<1>1. l.id \in Messages
  BY RecordsAre
<1>2. \A i \in DOMAIN r : r[i].id # l.id
  BY DEF Transcripts!Same
<1>3. QED
  BY <1>1, <1>2 DEF KnownBy

LEMMA KnownAppend ==
    ASSUME NEW s \in Seq(Records), NEW l \in Records, NEW t, t = Append(s, l), Later(s, l),
           NEW r \in Seq(Records), KnownBy(s, r), NEW q, q = Transcripts!Merged(r, l)
    PROVE  KnownBy(t, q)
<1>1. PICK n : Longer(s, l, t, n)
  <2>1. Longer(s, l, t, Len(s) + 1)
    BY LinesAppend
  <2>2. QED
    BY <2>1, Zenon
<1>2. LaterEnds(s, l, t)
  BY FirstAndLast
<1>3. /\ n \in Transcripts!Lines(t, l.id)
      /\ \A id : id # l.id => Transcripts!Lines(t, id) = Transcripts!Lines(s, id)
  BY <1>1 DEF Longer
<1>4. CASE Transcripts!Same(r, l) = {}
  <2>1. q = Append(r, l)
    BY <1>4, MergedIsRecords
  <2>2. PICK m \in Nat : DOMAIN q = DOMAIN r \cup {m} /\ m \notin DOMAIN r /\ q[m] = l /\ \A i \in DOMAIN r : q[i] = r[i]
    <3>1. Longer(r, l, q, Len(r) + 1)
      BY <2>1, LinesAppend
    <3>2. QED
      BY <3>1 DEF Longer
  <2>3. \A i \in DOMAIN r : r[i].id # Transcripts!NoId => r[i].id # l.id
    BY <1>4, NewIsNew
  <2>4. ASSUME NEW i \in DOMAIN q, q[i].id # Transcripts!NoId
        PROVE  /\ Transcripts!Lines(t, q[i].id) # {}
               /\ q[i].at = FirstOf(t, q[i].id).at /\ q[i].tokens = LastOf(t, q[i].id).tokens
    <3>1. CASE i \in DOMAIN r
      <4>1. PICK id : id = r[i].id /\ id # Transcripts!NoId /\ id # l.id
        BY <2>2, <2>3, <2>4, <3>1
      <4>2. /\ Transcripts!Lines(s, id) # {}
            /\ r[i].at = FirstOf(s, id).at /\ r[i].tokens = LastOf(s, id).tokens
        BY <3>1, <4>1 DEF KnownBy
      <4>3. FirstOf(t, id) = FirstOf(s, id) /\ LastOf(t, id) = LastOf(s, id)
        BY <1>2, <4>1, <4>2 DEF LaterEnds
      <4>4. Transcripts!Lines(t, id) # {}
        BY <1>3, <4>1, <4>2
      <4>5. QED
        BY <2>2, <3>1, <4>1, <4>2, <4>3, <4>4
    <3>2. CASE i = m
      <4>1. q[i] = l /\ l.id # Transcripts!NoId
        BY <2>2, <2>4, <3>2
      <4>2. Transcripts!Lines(s, l.id) = {}
        BY <1>4, <4>1, NewIsNew
      <4>3. FirstOf(t, l.id) = l /\ LastOf(t, l.id) = l
        BY <1>2, <4>2 DEF LaterEnds
      <4>4. QED
        BY <1>3, <4>1, <4>3
    <3>3. QED
      BY <2>2, <3>1, <3>2
  <2>5. ASSUME NEW id \in Messages, Transcripts!Lines(t, id) # {}
        PROVE  \E i \in DOMAIN q : q[i].id = id
    <3>1. CASE id = l.id
      BY <2>2, <3>1
    <3>2. CASE id # l.id
      <4>1. Transcripts!Lines(s, id) # {}
        BY <1>3, <2>5, <3>2
      <4>2. PICK i \in DOMAIN r : r[i].id = id
        BY <4>1 DEF KnownBy
      <4>3. QED
        BY <2>2, <4>2
    <3>3. QED
      BY <3>1, <3>2
  <2>6. ASSUME NEW i \in DOMAIN q, NEW j \in DOMAIN q, q[i].id = q[j].id, q[i].id # Transcripts!NoId
        PROVE  i = j
    <3>1. i \in DOMAIN r /\ j \in DOMAIN r => i = j
      BY <2>2, <2>6 DEF KnownBy
    <3>2. QED
      BY <2>2, <2>3, <2>6, <3>1
  <2>7. QED
    BY <2>4, <2>5, <2>6 DEF KnownBy
<1>5. CASE Transcripts!Same(r, l) # {}
  <2>1. PICK i0 \in Transcripts!Same(r, l) :
          /\ DOMAIN q = DOMAIN r /\ \A j \in DOMAIN r : j # i0 => q[j] = r[j]
          /\ q[i0].at = r[i0].at /\ q[i0].id = r[i0].id
          /\ q[i0].tokens = IF l.tokens >= r[i0].tokens THEN l.tokens ELSE r[i0].tokens
    BY <1>5, MergedIsRecords
  <2>2. i0 \in DOMAIN r /\ l.id # Transcripts!NoId /\ r[i0].id = l.id
    BY DEF Transcripts!Same
  <2>3. /\ Transcripts!Lines(s, l.id) # {}
        /\ r[i0].at = FirstOf(s, l.id).at /\ r[i0].tokens = LastOf(s, l.id).tokens
    BY <2>2 DEF KnownBy
  <2>4. q[i0].tokens = l.tokens
    BY <2>1, <2>3 DEF Later
  <2>5. FirstOf(t, l.id) = FirstOf(s, l.id) /\ LastOf(t, l.id) = l
    BY <1>2, <2>3 DEF LaterEnds
  <2>6. \A i \in DOMAIN q : q[i].id = r[i].id
    BY <2>1
  <2>7. ASSUME NEW i \in DOMAIN q, q[i].id # Transcripts!NoId
        PROVE  /\ Transcripts!Lines(t, q[i].id) # {}
               /\ q[i].at = FirstOf(t, q[i].id).at /\ q[i].tokens = LastOf(t, q[i].id).tokens
    <3>1. CASE i = i0
      BY <1>3, <2>1, <2>2, <2>3, <2>4, <2>5, <3>1
    <3>2. CASE i # i0
      <4>1. PICK id : id = r[i].id /\ id # Transcripts!NoId /\ id # l.id
        BY <2>1, <2>2, <2>6, <2>7, <3>2 DEF KnownBy
      <4>2. /\ Transcripts!Lines(s, id) # {}
            /\ r[i].at = FirstOf(s, id).at /\ r[i].tokens = LastOf(s, id).tokens
        BY <2>1, <4>1 DEF KnownBy
      <4>3. FirstOf(t, id) = FirstOf(s, id) /\ LastOf(t, id) = LastOf(s, id)
        BY <1>2, <4>1, <4>2 DEF LaterEnds
      <4>4. Transcripts!Lines(t, id) # {}
        BY <1>3, <4>1, <4>2
      <4>5. QED
        BY <2>1, <3>2, <4>1, <4>2, <4>3, <4>4
    <3>3. QED
      BY <3>1, <3>2
  <2>8. ASSUME NEW id \in Messages, Transcripts!Lines(t, id) # {}
        PROVE  \E i \in DOMAIN q : q[i].id = id
    <3>1. CASE id = l.id
      BY <2>1, <2>2, <3>1
    <3>2. CASE id # l.id
      <4>1. Transcripts!Lines(s, id) # {}
        BY <1>3, <2>8, <3>2
      <4>2. PICK i \in DOMAIN r : r[i].id = id
        BY <4>1 DEF KnownBy
      <4>3. QED
        BY <2>1, <2>6, <4>2
    <3>3. QED
      BY <3>1, <3>2
  <2>9. \A i, j \in DOMAIN q : q[i].id = q[j].id /\ q[i].id # Transcripts!NoId => i = j
    BY <2>1, <2>6 DEF KnownBy
  <2>10. QED
    BY <2>7, <2>8, <2>9 DEF KnownBy
<1>6. QED
  BY <1>4, <1>5

\* And so the records inside the window say what the messages and lines inside it do.
CountedOnce(s, r, c) ==
    /\ IsFiniteSet(Told(s, c))
    /\ SumOver(Inside(r, c), Amounts(r)) = SumOver(Told(s, c), Spent(s)) + SumOver(Loose(s, c), Amounts(s))
Gain(l, c) == IF l.at >= c THEN l.tokens ELSE 0

WithIt(T, S, x, l, c) == (l.at >= c => T = S \cup {x}) /\ (~(l.at >= c) => T = S)

\* Positions that count, in a sequence and in the one with a line more.
Gains(T, t, S, s, l, c) == SumOver(T, Amounts(t)) = SumOver(S, Amounts(s)) + Gain(l, c)
LEMMA OneMore ==
    ASSUME NEW s \in Seq(Records), NEW l \in Records, NEW t \in Seq(Records), NEW c \in Int,
           NEW n, Longer(s, l, t, n), NEW S \in SUBSET (DOMAIN s), NEW T, WithIt(T, S, n, l, c)
    PROVE  Gains(T, t, S, s, l, c)
<1>1. PICK f, g : f = Amounts(s) /\ g = Amounts(t)
  OBVIOUS
<1>3. Counts(S, f) /\ \A i \in DOMAIN s : f[i] = s[i].tokens
  BY <1>1, AmountsCount
<1>4. \A i \in DOMAIN t : g[i] = t[i].tokens /\ t[i].tokens \in Nat
  BY <1>1, AmountsCount
<1>5. g[n] = l.tokens /\ l.tokens \in Nat /\ n \notin S /\ \A i \in S : g[i] = f[i]
  BY <1>3, <1>4 DEF Longer
<1>6. CASE l.at >= c
  <2>0. Counts(S, f) /\ n \notin S /\ g[n] \in Nat /\ \A i \in S : g[i] = f[i]
    BY <1>3, <1>5
  <2>1. TermMore(S \cup {n}, g, S, f, n)
    BY <2>0, SumPlus
  <2>2. T = S \cup {n} /\ Gain(l, c) = l.tokens
    BY <1>6 DEF Gain, WithIt
  <2>3. SumOver(T, Amounts(t)) = SumOver(S, Amounts(s)) + g[n]
    BY <1>1, <2>1, <2>2, Zenon DEF TermMore
  <2>4. QED
    BY <1>5, <2>2, <2>3 DEF Gains
<1>7. CASE ~(l.at >= c)
  <2>1. SumOver(S, g) = SumOver(S, f) /\ SumOver(S, f) \in Nat
    BY <1>3, <1>5, SumSame, SumIsNat
  <2>2. T = S /\ Gain(l, c) = 0
    BY <1>7 DEF Gain, WithIt
  <2>3. SumOver(T, Amounts(t)) = SumOver(S, Amounts(s)) /\ SumOver(S, Amounts(s)) \in Nat
    BY <1>1, <2>1, <2>2, Zenon
  <2>4. QED
    BY <2>2, <2>3 DEF Gains
<1>8. QED
  BY <1>6, <1>7

LEMMA LooseAre == ASSUME NEW s, NEW c PROVE Loose(s, c) \in SUBSET (DOMAIN s) /\ Inside(s, c) \in SUBSET (DOMAIN s)
BY DEF Loose, Inside, Transcripts!Lines

\* What a line of a message leaves as it was: the other messages.
OthersAlike(s, l, t, c) ==
    \A id \in Messages : id # l.id =>
        (id \in Told(t, c) <=> id \in Told(s, c)) /\ Spent(t)[id] = Spent(s)[id]
LEMMA OthersStay ==
    ASSUME NEW s, NEW l, NEW t, NEW n, NEW c, Longer(s, l, t, n), LaterEnds(s, l, t)
    PROVE  OthersAlike(s, l, t, c)
<1> SUFFICES ASSUME NEW id \in Messages, id # l.id
             PROVE  (id \in Told(t, c) <=> id \in Told(s, c)) /\ Spent(t)[id] = Spent(s)[id]
  BY DEF OthersAlike
<1>1. Transcripts!Lines(t, id) = Transcripts!Lines(s, id)
  BY DEF Longer
<1>2. CASE Transcripts!Lines(s, id) = {}
  BY <1>1, <1>2 DEF Told, Spent
<1>3. CASE Transcripts!Lines(s, id) # {}
  <2>1. FirstOf(t, id) = FirstOf(s, id) /\ LastOf(t, id) = LastOf(s, id)
    BY <1>3 DEF LaterEnds
  <2>2. QED
    BY <1>1, <1>3, <2>1 DEF Told, Spent
<1>4. QED
  BY <1>2, <1>3

LooseNext(s, l, t, n, c) ==
    /\ l.id # Transcripts!NoId => Loose(t, c) = Loose(s, c)
    /\ l.id = Transcripts!NoId => WithIt(Loose(t, c), Loose(s, c), n, l, c)
LEMMA LooseAppend ==
    ASSUME NEW s, NEW l, NEW t, NEW n, NEW c, Longer(s, l, t, n)
    PROVE  LooseNext(s, l, t, n, c)
<1>1. \A i \in Transcripts!Lines(s, Transcripts!NoId) : t[i] = s[i]
  BY DEF Longer, Transcripts!Lines
<1>2. CASE l.id # Transcripts!NoId
  <2>1. Transcripts!Lines(t, Transcripts!NoId) = Transcripts!Lines(s, Transcripts!NoId)
    BY <1>2 DEF Longer
  <2>2. QED
    BY <1>1, <1>2, <2>1 DEF Loose, LooseNext
<1>3. CASE l.id = Transcripts!NoId
  <2>1. Transcripts!Lines(t, Transcripts!NoId) = Transcripts!Lines(s, Transcripts!NoId) \cup {n} /\ t[n] = l
    BY <1>3 DEF Longer
  <2>2. Loose(t, c) = Loose(s, c) \cup {i \in {n} : t[i].at >= c}
    BY <1>1, <2>1 DEF Loose
  <2>3. QED
    BY <1>3, <2>1, <2>2 DEF WithIt, LooseNext
<1>4. QED
  BY <1>2, <1>3

LEMMA SpentCounts ==
    ASSUME NEW s \in Seq(Records), NEW S \in SUBSET Messages, IsFiniteSet(S)
    PROVE  Counts(S, Spent(s))
BY SpentIsNat DEF Counts

LEMMA CountAppend ==
    ASSUME NEW s \in Seq(Records), NEW l \in Records, NEW t, t = Append(s, l), Later(s, l), NEW c \in Int,
           NEW r \in Seq(Records), KnownBy(s, r), NEW q, q = Transcripts!Merged(r, l), CountedOnce(s, r, c)
    PROVE  CountedOnce(t, q, c)
<1>1. PICK n : Longer(s, l, t, n)
  <2>1. Longer(s, l, t, Len(s) + 1)
    BY LinesAppend
  <2>2. QED
    BY <2>1, Zenon
<1>2. LaterEnds(s, l, t)
  BY FirstAndLast
<1>3. \A id \in Messages : id # l.id =>
         (id \in Told(t, c) <=> id \in Told(s, c)) /\ Spent(t)[id] = Spent(s)[id]
  <2>1. OthersAlike(s, l, t, c)
    BY <1>1, <1>2, OthersStay
  <2>2. QED
    BY <2>1 DEF OthersAlike
<1>4. t \in Seq(Records) /\ l.tokens \in Nat /\ l.at \in Int /\ Transcripts!NoId \notin Messages
  BY RecordsAre, PartsAssumption DEF Transcripts!TranscriptAssumption
<1>5. PICK S, T : S = Told(s, c) /\ T = Told(t, c)
  OBVIOUS
<1>6. PICK f, g : f = Spent(s) /\ g = Spent(t)
  OBVIOUS
<1>7. S \in SUBSET Messages /\ T \in SUBSET Messages /\ IsFiniteSet(S) /\ Counts(S, f)
  <2>1. S \in SUBSET Messages /\ T \in SUBSET Messages /\ IsFiniteSet(S)
    BY <1>5 DEF Told, CountedOnce
  <2>2. QED
    BY <1>6, <2>1, SpentCounts
<1>8. PICK loose, more : loose = SumOver(Loose(s, c), Amounts(s)) /\ more = SumOver(Loose(t, c), Amounts(t))
  OBVIOUS
<1>9. PICK before, after : before = SumOver(Inside(r, c), Amounts(r)) /\ after = SumOver(Inside(q, c), Amounts(q))
  OBVIOUS
<1>10. before \in Nat /\ loose \in Nat /\ SumOver(S, f) \in Nat /\ Gain(l, c) \in Nat
  <2>1. before \in Nat
    BY <1>9, LooseAre, AmountsCount, SumIsNat
  <2>2. loose \in Nat
    BY <1>8, LooseAre, AmountsCount, SumIsNat
  <2>3. Gain(l, c) \in Nat
    BY <1>4 DEF Gain
  <2>4. QED
    BY <1>7, <2>1, <2>2, <2>3, SumIsNat
<1>11. before = SumOver(S, f) + loose
  BY <1>5, <1>6, <1>8, <1>9 DEF CountedOnce
<1>12. SUFFICES IsFiniteSet(T) /\ after = SumOver(T, g) + more
  BY <1>5, <1>6, <1>8, <1>9 DEF CountedOnce
<1>13. l.id # Transcripts!NoId => more = loose
  <2> SUFFICES ASSUME l.id # Transcripts!NoId PROVE more = loose
    OBVIOUS
  <2>1. Loose(t, c) = Loose(s, c)
    <3>1. LooseNext(s, l, t, n, c)
      BY <1>1, LooseAppend
    <3>2. QED
      BY <3>1 DEF LooseNext
  <2>2. Counts(Loose(s, c), Amounts(s)) /\ \A i \in DOMAIN s : Amounts(s)[i] = s[i].tokens
    BY LooseAre, AmountsCount
  <2>3. \A i \in DOMAIN t : Amounts(t)[i] = t[i].tokens
    BY <1>4, LooseAre, AmountsCount
  <2>4. \A i \in Loose(s, c) : Amounts(t)[i] = Amounts(s)[i]
    BY <1>1, <2>2, <2>3, LooseAre DEF Longer
  <2>5. QED
    BY <1>8, <2>1, <2>2, <2>4, SumSame
<1>14. CASE Transcripts!Same(r, l) = {}
  <2>1. after = before + Gain(l, c)
    <3>1. q = Append(r, l)
      BY <1>14, MergedIsRecords
    <3>2. PICK m : Longer(r, l, q, m)
      <4>1. Longer(r, l, q, Len(r) + 1)
        BY <3>1, LinesAppend
      <4>2. QED
        BY <4>1, Zenon
    <3>3. WithIt(Inside(q, c), Inside(r, c), m, l, c)
      BY <3>2 DEF Longer, Inside, WithIt
    <3>4. Inside(r, c) \in SUBSET (DOMAIN r)
      BY LooseAre
    <3>5. q \in Seq(Records)
      BY MergedIsRecords
    <3>6. Gains(Inside(q, c), q, Inside(r, c), r, l, c)
      BY <3>2, <3>3, <3>4, <3>5, OneMore
    <3>7. QED
      BY <1>9, <3>6 DEF Gains
  <2>2. CASE l.id = Transcripts!NoId
    <3>1. T = S /\ \A id \in S : g[id] = f[id]
      BY <1>3, <1>4, <1>5, <1>6, <1>7, <2>2
    <3>2. SumOver(T, g) = SumOver(S, f)
      BY <1>7, <3>1, SumSame
    <3>3. more = loose + Gain(l, c)
      <4>1. WithIt(Loose(t, c), Loose(s, c), n, l, c)
        <5>1. LooseNext(s, l, t, n, c)
          BY <1>1, LooseAppend
        <5>2. QED
          BY <2>2, <5>1 DEF LooseNext
      <4>2. Loose(s, c) \in SUBSET (DOMAIN s)
        BY LooseAre
      <4>3. Gains(Loose(t, c), t, Loose(s, c), s, l, c)
        BY <1>1, <1>4, <4>1, <4>2, OneMore
      <4>4. QED
        BY <1>8, <4>3 DEF Gains
    <3>4. QED
      BY <1>7, <1>10, <1>11, <2>1, <3>1, <3>2, <3>3
  <2>3. CASE l.id # Transcripts!NoId
    <3>1. l.id \in Messages /\ Transcripts!Lines(s, l.id) = {}
      BY <1>14, <2>3, NewIsNew
    <3>2. FirstOf(t, l.id) = l /\ LastOf(t, l.id) = l /\ Transcripts!Lines(t, l.id) # {}
      BY <1>1, <1>2, <3>1 DEF LaterEnds, Longer
    <3>3. l.id \notin S /\ WithIt(T, S, l.id, l, c)
      <4>1. l.id \notin S
        BY <1>5, <3>1 DEF Told
      <4>2. l.id \in T <=> l.at >= c
        BY <1>5, <3>1, <3>2 DEF Told
      <4>3. \A id \in Messages : id # l.id => (id \in T <=> id \in S)
        BY <1>3, <1>5
      <4>4. T \ {l.id} = S
        BY <1>7, <4>1, <4>3
      <4>5. QED
        BY <4>1, <4>2, <4>4 DEF WithIt
    <3>4. g[l.id] = l.tokens
      BY <1>4, <1>6, <3>1, <3>2, SpentIsNat
    <3>5. \A id \in S : g[id] = f[id]
      BY <1>3, <1>6, <1>7, <3>3
    <3>6. CASE l.at >= c
      <4>1. T = S \cup {l.id} /\ Gain(l, c) = l.tokens
        BY <3>3, <3>6 DEF Gain, WithIt
      <4>2. Counts(S \cup {l.id}, g) /\ SumOver(S \cup {l.id}, g) = SumOver(S, f) + g[l.id]
        <5>1. PICK x : x = l.id
          OBVIOUS
        <5>2. x \notin S /\ g[x] \in Nat
          BY <1>4, <3>3, <3>4, <5>1
        <5>3. TermMore(S \cup {x}, g, S, f, x)
          BY <1>7, <3>5, <5>2, SumPlus
        <5>4. QED
          BY <5>1, <5>3 DEF TermMore
      <4>3. Counts(T, g) /\ SumOver(T, g) = SumOver(S, f) + l.tokens
        BY <3>4, <4>1, <4>2
      <4>4. IsFiniteSet(T)
        BY <4>3 DEF Counts
      <4>5. QED
        BY <1>4, <1>10, <1>11, <1>13, <2>1, <2>3, <4>1, <4>3, <4>4
    <3>7. CASE ~(l.at >= c)
      <4>1. T = S /\ Gain(l, c) = 0
        BY <3>3, <3>7 DEF Gain, WithIt
      <4>2. SumOver(T, g) = SumOver(S, f)
        BY <1>7, <3>5, <4>1, SumSame
      <4>3. QED
        BY <1>7, <1>10, <1>11, <1>13, <2>1, <2>3, <4>1, <4>2
    <3>8. QED
      BY <3>6, <3>7
  <2>4. QED
    BY <2>2, <2>3
<1>15. CASE Transcripts!Same(r, l) # {}
  <2>1. PICK i \in Transcripts!Same(r, l) :
          /\ DOMAIN q = DOMAIN r /\ \A j \in DOMAIN r : j # i => q[j] = r[j]
          /\ q[i].at = r[i].at /\ q[i].id = r[i].id
          /\ q[i].tokens = IF l.tokens >= r[i].tokens THEN l.tokens ELSE r[i].tokens
    BY <1>15, MergedIsRecords
  <2>2. i \in DOMAIN r /\ l.id # Transcripts!NoId /\ r[i].id = l.id /\ l.id \in Messages
    <3>1. i \in DOMAIN r /\ l.id # Transcripts!NoId /\ r[i].id = l.id
      BY DEF Transcripts!Same
    <3>2. QED
      BY <3>1, RecordsAre
  <2>3. /\ Transcripts!Lines(s, l.id) # {}
        /\ r[i].at = FirstOf(s, l.id).at /\ r[i].tokens = LastOf(s, l.id).tokens
    BY <2>2 DEF KnownBy
  <2>4. q[i].tokens = l.tokens
    BY <2>1, <2>3 DEF Later
  <2>5. FirstOf(t, l.id) = FirstOf(s, l.id) /\ LastOf(t, l.id) = l /\ Transcripts!Lines(t, l.id) # {}
    BY <1>1, <1>2, <2>3 DEF LaterEnds, Longer
  <2>6. f[l.id] = r[i].tokens /\ g[l.id] = l.tokens
    BY <1>4, <1>6, <2>2, <2>3, <2>5, SpentIsNat
  <2>7. T = S /\ (l.id \in S <=> r[i].at >= c)
    <3>1. (l.id \in S <=> r[i].at >= c) /\ (l.id \in T <=> r[i].at >= c)
      BY <1>5, <2>2, <2>3, <2>5 DEF Told
    <3>2. \A id \in Messages : id # l.id => (id \in T <=> id \in S)
      BY <1>3, <1>5
    <3>3. \A id \in Messages : id \in T <=> id \in S
      BY <3>1, <3>2, Zenon
    <3>4. T = S
      BY <1>7, <3>3
    <3>5. QED
      BY <3>1, <3>4, Zenon
  <2>8. \A id \in S \ {l.id} : g[id] = f[id]
    BY <1>3, <1>6, <1>7
  <2>9. PICK I : I = Inside(r, c)
    OBVIOUS
  <2>10. Inside(q, c) = I /\ (i \in I <=> r[i].at >= c) /\ I \in SUBSET (DOMAIN r)
    <3>1. \A j \in DOMAIN r : q[j].at = r[j].at
      BY <2>1
    <3>2. QED
      BY <2>1, <2>2, <2>9, <3>1 DEF Inside
  <2>11. q \in Seq(Records)
    BY MergedIsRecords
  <2>12. PICK a, b : a = Amounts(r) /\ b = Amounts(q)
    OBVIOUS
  <2>13. /\ Counts(I, a) /\ \A j \in DOMAIN r : a[j] = r[j].tokens /\ r[j].tokens \in Nat
         /\ \A j \in DOMAIN q : b[j] = q[j].tokens
    BY <2>10, <2>11, <2>12, AmountsCount
  <2>14. a[i] = r[i].tokens /\ b[i] = l.tokens /\ a[i] \in Nat /\ \A j \in I \ {i} : b[j] = a[j]
    BY <2>1, <2>2, <2>4, <2>10, <2>13
  <2>15. CASE r[i].at >= c
    <3>1. i \in I /\ l.id \in S
      BY <2>7, <2>10, <2>15
    <3>2. SumOver(I, b) + a[i] = SumOver(I, a) + b[i]
      BY <1>4, <2>13, <2>14, <3>1, SumChanges
    <3>3. Counts(S, g) /\ SumOver(S, g) + f[l.id] = SumOver(S, f) + g[l.id]
      BY <1>4, <1>7, <2>6, <2>8, <3>1, SumChanges
    <3>4. SumOver(S, g) \in Nat /\ SumOver(I, b) \in Nat
      <4>1. Counts(I, b)
        BY <2>10, <2>11, <2>1, <2>12, AmountsCount
      <4>2. QED
        BY <3>3, <4>1, SumIsNat
    <3>5. after = SumOver(I, b) /\ before = SumOver(I, a)
      BY <1>9, <2>9, <2>10, <2>12
    <3>6. SumOver(T, g) = SumOver(S, g)
      BY <2>7
    <3>7. PICK u, v, w, x \in Nat : u = SumOver(I, b) /\ v = SumOver(S, g) /\ w = SumOver(S, f) /\ x = r[i].tokens
      <4>1. r[i].tokens \in Nat
        BY <2>2, <2>13
      <4>2. QED
        BY <1>10, <3>4, <4>1, Zenon
    <3>8. u + x = before + l.tokens /\ v + x = w + l.tokens /\ before = w + loose /\ more = loose
      BY <1>11, <1>13, <2>2, <2>6, <2>14, <3>2, <3>3, <3>5, <3>7
    <3>9. u = v + more
      <4>1. PICK y, z \in Nat : y = l.tokens /\ z = loose
        BY <1>4, <1>10, Zenon
      <4>2. u + x = w + z + y /\ v + x = w + y /\ more = z
        BY <3>8, <4>1
      <4>3. QED
        BY <4>2
    <3>10. QED
      BY <1>7, <2>7, <3>5, <3>6, <3>7, <3>9
  <2>16. CASE ~(r[i].at >= c)
    <3>1. i \notin I /\ l.id \notin S
      BY <2>7, <2>10, <2>16
    <3>2. SumOver(I, b) = SumOver(I, a)
      <4>1. \A j \in I : b[j] = a[j]
        BY <2>14, <3>1
      <4>2. QED
        BY <2>13, <4>1, SumSame
    <3>3. SumOver(S, g) = SumOver(S, f)
      <4>1. \A id \in S : g[id] = f[id]
        BY <2>8, <3>1
      <4>2. QED
        BY <1>7, <4>1, SumSame
    <3>4. after = SumOver(I, b) /\ before = SumOver(I, a)
      BY <1>9, <2>9, <2>10, <2>12
    <3>5. QED
      BY <1>7, <1>10, <1>11, <1>13, <2>2, <2>7, <3>2, <3>3, <3>4
  <2>17. QED
    BY <2>15, <2>16
<1>16. QED
  BY <1>14, <1>15

\* The counts of a message, or of a Codex session, only grow.
Grown(s) == \A i, j \in DOMAIN s : i <= j /\ s[i].id = s[j].id => s[i].tokens <= s[j].tokens

LEMMA GrownBefore ==
    ASSUME NEW s \in Seq(Records), NEW l \in Records, NEW t, t = Append(s, l), Grown(t)
    PROVE  Grown(s) /\ Later(s, l)
<1>1. PICK n : Longer(s, l, t, n)
  <2>1. Longer(s, l, t, Len(s) + 1)
    BY LinesAppend
  <2>2. QED
    BY <2>1, Zenon
<1>2. DOMAIN t = DOMAIN s \cup {n} /\ t[n] = l /\ \A i \in DOMAIN s : i <= n /\ t[i] = s[i]
  BY <1>1 DEF Longer
<1>3. Grown(s)
  BY <1>2 DEF Grown
<1>4. Later(s, l)
  <2> SUFFICES ASSUME Transcripts!Lines(s, l.id) # {} PROVE LastOf(s, l.id).tokens <= l.tokens
    BY DEF Later
  <2>1. Transcripts!Lines(s, l.id) \in SUBSET (DOMAIN s)
    BY DEF Transcripts!Lines
  <2>2. PICK m \in Transcripts!Lines(s, l.id) : m = Transcripts!Max(Transcripts!Lines(s, l.id))
    BY <2>1, Ends
  <2>3. m \in DOMAIN t /\ n \in DOMAIN t /\ m <= n /\ t[m].id = t[n].id /\ t[m] = s[m]
    BY <1>2, <2>2 DEF Transcripts!Lines
  <2>4. t[m].tokens <= t[n].tokens
    BY <2>3 DEF Grown
  <2>5. QED
    BY <1>2, <2>2, <2>3, <2>4 DEF LastOf
<1>5. QED
  BY <1>3, <1>4

\* What a parse of a Claude transcript is, it is for every transcript.
LEMMA ClaudeCounts ==
    ASSUME NEW s \in Seq(Records), Grown(s), NEW c \in Int
    PROVE  CountedOnce(s, Transcripts!Collapsed(s), c)
<1> DEFINE Right(u) == KnownBy(u, Transcripts!Collapsed(u)) /\ CountedOnce(u, Transcripts!Collapsed(u), c)
           P == {u \in Seq(Records) : Grown(u) => Right(u)}
<1>1. <<>> \in P
  <2>1. <<>> \in Seq(Records) /\ DOMAIN <<>> = {}
    OBVIOUS
  <2>2. PICK e : e = <<>>
    OBVIOUS
  <2>3. e \in Seq(Records) /\ DOMAIN e = {} /\ Transcripts!Collapsed(e) = e
    BY <2>1, <2>2, CollapsedEmpty
  <2>4. \A id : Transcripts!Lines(e, id) = {}
    BY <2>3 DEF Transcripts!Lines
  <2>5. KnownBy(e, e)
    BY <2>3, <2>4 DEF KnownBy
  <2>6. Told(e, c) = {} /\ Inside(e, c) = {} /\ Loose(e, c) = {}
    BY <2>3, <2>4 DEF Told, Inside, Loose
  <2>7. /\ IsFiniteSet({}) /\ SumOver(Told(e, c), Spent(e)) = 0
        /\ SumOver(Inside(e, c), Amounts(e)) = 0 /\ SumOver(Loose(e, c), Amounts(e)) = 0
    BY <2>6, FS_EmptySet, SumEmpty
  <2>8. CountedOnce(e, e, c)
    BY <2>6, <2>7 DEF CountedOnce
  <2>9. QED
    BY <2>2, <2>3, <2>5, <2>8
<1>2. ASSUME NEW u \in Seq(Records), NEW l \in Records, u \in P
      PROVE  Append(u, l) \in P
  <2>1. PICK t \in Seq(Records) : t = Append(u, l)
    <3>1. Append(u, l) \in Seq(Records)
      OBVIOUS
    <3>2. QED
      BY <3>1, Zenon
  <2>2. SUFFICES ASSUME Grown(t) PROVE Right(t)
    BY <2>1
  <2>3. Grown(u) /\ Later(u, l)
    BY <2>1, <2>2, GrownBefore
  <2>4. Right(u)
    BY <1>2, <2>3
  <2>5. PICK r \in Seq(Records) :
          r = Transcripts!Collapsed(u) /\ Transcripts!Collapsed(t) = Transcripts!Merged(r, l)
    <3>1. /\ Transcripts!Collapsed(t) = Transcripts!Merged(Transcripts!Collapsed(u), l)
          /\ Transcripts!Collapsed(u) \in Seq(Records)
      BY <2>1, CollapsedAppend
    <3>2. QED
      BY <3>1, Zenon
  <2>6. PICK q : q = Transcripts!Merged(r, l)
    OBVIOUS
  <2>7. KnownBy(t, q) /\ CountedOnce(t, q, c)
    BY <2>1, <2>3, <2>4, <2>5, <2>6, KnownAppend, CountAppend
  <2>8. QED
    BY <2>5, <2>6, <2>7
<1>3. Seq(Records) \subseteq P
  <2> HIDE DEF P
  <2> QED
    BY <1>1, <1>2, AllSequences
<1>4. QED
  BY <1>3

\* What a Codex session's total grew by inside the window: with each line of it, and from
\* the newest line before it to the last.

Ordered(s) == \A i, j \in DOMAIN s : i <= j => s[i].at <= s[j].at
Earlier(s, c) == {i \in DOMAIN s : s[i].at < c}
Increments(s) == [i \in DOMAIN s |-> s[i].tokens - Transcripts!Base(s, i)]
Gained(s, c) == SumOver(Inside(s, c), Increments(s))
Baseline(s, c) == IF Earlier(s, c) = {} THEN 0 ELSE s[Transcripts!Max(Earlier(s, c))].tokens
Grew(s, c) == s[Len(s)].tokens - Baseline(s, c)
Covers(s, c) ==
    /\ Counts(Inside(s, c), Increments(s)) /\ Gained(s, c) \in Nat
    /\ s # <<>> => /\ Baseline(s, c) \in Nat /\ Grew(s, c) <= Gained(s, c)
                   /\ ~Transcripts!Restarted(s, c) => Grew(s, c) = Gained(s, c)

LEMMA GainsAre ==
    ASSUME NEW s \in Seq(Records)
    PROVE  \A i \in DOMAIN s : Increments(s)[i] \in Nat
<1>1. \A i \in DOMAIN s : s[i] \in Records /\ (i # 1 => s[i - 1] \in Records)
  OBVIOUS
<1>2. \A i \in DOMAIN s : s[i].tokens \in Nat /\ (i # 1 => s[i - 1].tokens \in Nat)
  BY <1>1, RecordsAre
<1>3. ASSUME NEW i \in DOMAIN s PROVE Increments(s)[i] \in Nat
  <2>1. PICK k \in Nat : k = s[i].tokens
    BY <1>2
  <2>2. Increments(s)[i] = k - Transcripts!Base(s, i)
    BY <2>1 DEF Increments
  <2>3. CASE i = 1 \/ k < s[i - 1].tokens
    <3>1. Transcripts!Base(s, i) = 0
      BY <2>1, <2>3 DEF Transcripts!Base
    <3>2. QED
      BY <2>2, <3>1
  <2>4. CASE ~(i = 1 \/ k < s[i - 1].tokens)
    <3>1. PICK p \in Nat : p = s[i - 1].tokens
      BY <1>2, <2>4
    <3>2. Transcripts!Base(s, i) = p /\ p <= k
      BY <2>1, <2>4, <3>1 DEF Transcripts!Base
    <3>3. QED
      BY <2>2, <3>2
  <2>5. QED
    BY <2>3, <2>4
<1>4. QED
  BY <1>3

\* A line from inside the window adds what it gained and leaves the rest as it is.
LEMMA LineGains ==
    ASSUME NEW u \in Seq(Records), NEW l \in Records, NEW c \in Int, NEW t, t = Append(u, l),
           Covers(u, c), l.at >= c
    PROVE  Covers(t, c)
<1>1. PICK n \in Nat \ {0} : n = Len(u) + 1
  OBVIOUS
<1>2. /\ DOMAIN u = 1 .. n - 1 /\ DOMAIN t = 1 .. n /\ Len(t) = n /\ t[n] = l /\ t # <<>>
      /\ n \notin DOMAIN u /\ t \in Seq(Records) /\ \A i \in 1 .. n - 1 : t[i] = u[i]
  BY <1>1
<1>3. l.at \in Nat /\ l.tokens \in Nat
  BY RecordsAre
<1>4. Inside(t, c) = Inside(u, c) \cup {n} /\ n \notin Inside(u, c)
  BY <1>2, <1>3 DEF Inside
<1>5. Earlier(t, c) = Earlier(u, c) /\ Earlier(u, c) \subseteq DOMAIN u
  BY <1>2, <1>3 DEF Earlier
<1>6. \A i \in Inside(u, c) : Increments(t)[i] = Increments(u)[i]
  <2>1. ASSUME NEW i \in 1 .. n - 1 PROVE Increments(t)[i] = Increments(u)[i]
    <3>1. t[i] = u[i] /\ (i # 1 => t[i - 1] = u[i - 1]) /\ i \in DOMAIN t /\ i \in DOMAIN u
      BY <1>2
    <3>2. QED
      BY <3>1 DEF Increments, Transcripts!Base
  <2>2. QED
    BY <1>2, <2>1 DEF Inside
<1>7. Increments(t)[n] \in Nat
  <2>1. n \in DOMAIN t /\ t \in Seq(Records)
    BY <1>2
  <2>2. \A i \in DOMAIN t : Increments(t)[i] \in Nat
    BY <2>1, GainsAre
  <2>3. QED
    BY <2>1, <2>2, Zenon
<1>8. Counts(Inside(u, c), Increments(u)) /\ Gained(u, c) \in Nat
  BY DEF Covers
<1>9. TermMore(Inside(u, c) \cup {n}, Increments(t), Inside(u, c), Increments(u), n)
  BY <1>4, <1>6, <1>7, <1>8, SumPlus
<1>10. Counts(Inside(t, c), Increments(t)) /\ Gained(t, c) = Gained(u, c) + Increments(t)[n]
  BY <1>4, <1>9, Zenon DEF TermMore, Gained
<1>11. Baseline(t, c) = Baseline(u, c)
  <2>1. CASE Earlier(u, c) = {}
    BY <1>5, <2>1 DEF Baseline
  <2>2. CASE Earlier(u, c) # {}
    <3>1. Transcripts!Max(Earlier(u, c)) \in DOMAIN u
      BY <1>5, <2>2, Ends
    <3>2. QED
      BY <1>2, <1>5, <2>2, <3>1 DEF Baseline
  <2>3. QED
    BY <2>1, <2>2
<1>12. Increments(t)[n] = l.tokens - Transcripts!Base(t, n)
  BY <1>2 DEF Increments
<1>13. PICK g, h \in Nat : g = Gained(u, c) /\ h = Increments(t)[n]
  BY <1>7, <1>8
<1>14. CASE n = 1
  <2>1. Baseline(t, c) = 0
    <3>1. Earlier(u, c) = {}
      BY <1>2, <1>5, <1>14
    <3>2. QED
      BY <1>11, <3>1 DEF Baseline
  <2>2. h = l.tokens
    BY <1>3, <1>12, <1>13, <1>14 DEF Transcripts!Base
  <2>3. g = 0
    <3>1. Inside(u, c) = {}
      BY <1>2, <1>14 DEF Inside
    <3>2. QED
      BY <1>13, <3>1, SumEmpty DEF Gained
  <2>4. Grew(t, c) = l.tokens - 0
    BY <1>2, <2>1 DEF Grew
  <2>5. Gained(t, c) = g + h
    BY <1>10, <1>13
  <2>6. QED
    BY <1>3, <1>10, <2>1, <2>2, <2>3, <2>4, <2>5 DEF Covers
<1>15. CASE n # 1
  <2>1. PICK p \in Nat : p = u[n - 1].tokens /\ p = t[n - 1].tokens
    <3>1. u[n - 1] \in Records /\ t[n - 1] = u[n - 1]
      BY <1>2, <1>15
    <3>2. QED
      BY <3>1, RecordsAre
  <2>2. PICK b \in Nat : b = Baseline(u, c) /\ b = Baseline(t, c)
    <3>1. u # <<>>
      BY <1>2, <1>15
    <3>2. QED
      BY <1>11, <3>1 DEF Covers
  <2>3. p - b <= g /\ (~Transcripts!Restarted(u, c) => p - b = g)
    <3>1. u # <<>> /\ Len(u) = n - 1
      BY <1>1, <1>2, <1>15
    <3>2. QED
      BY <1>13, <2>1, <2>2, <3>1 DEF Covers, Grew
  <2>4. Grew(t, c) = l.tokens - b /\ Gained(t, c) = g + h
    BY <1>2, <1>10, <1>13, <2>2 DEF Grew
  <2>5. h = l.tokens - (IF l.tokens < p THEN 0 ELSE p)
    BY <1>2, <1>12, <1>13, <1>15, <2>1 DEF Transcripts!Base
  <2>6. Transcripts!Restarted(u, c) => Transcripts!Restarted(t, c)
    <3>1. ASSUME NEW i \in DOMAIN u, i > 1 PROVE i \in DOMAIN t /\ t[i] = u[i] /\ t[i - 1] = u[i - 1]
      BY <1>2, <3>1
    <3>2. QED
      BY <3>1 DEF Transcripts!Restarted
  <2>7. l.tokens < p => Transcripts!Restarted(t, c)
    <3>1. n \in DOMAIN t /\ n > 1 /\ t[n].at >= c
      BY <1>2, <1>15
    <3>2. t[n].tokens = l.tokens /\ t[n - 1].tokens = p
      BY <1>2, <2>1
    <3>3. QED
      BY <3>1, <3>2 DEF Transcripts!Restarted
  <2>8. Grew(t, c) <= Gained(t, c) /\ (~Transcripts!Restarted(t, c) => Grew(t, c) = Gained(t, c))
    <3>1. PICK k \in Nat : k = l.tokens
      BY <1>3
    <3>2. k - b <= g + h
      BY <2>3, <2>5, <3>1
    <3>3. ~Transcripts!Restarted(t, c) => k - b = g + h
      <4>1. ~Transcripts!Restarted(t, c) => p - b = g /\ h = k - p
        BY <2>3, <2>5, <2>6, <2>7, <3>1
      <4>2. p - b = g /\ h = k - p => k - b = g + h
        OBVIOUS
      <4>3. QED
        BY <4>1, <4>2
    <3>4. QED
      BY <2>4, <3>1, <3>2, <3>3
  <2>9. QED
    BY <1>10, <2>2, <2>4, <2>8 DEF Covers
<1>16. QED
  BY <1>14, <1>15

\* Where the last line is from before the window, nothing is inside it.
LEMMA NothingGained ==
    ASSUME NEW s \in Seq(Records), Ordered(s), NEW c \in Int, s # <<>> => s[Len(s)].at < c
    PROVE  Inside(s, c) = {} /\ Gained(s, c) = 0 /\ Covers(s, c)
<1>1. PICK n \in Nat : n = Len(s) /\ DOMAIN s = 1 .. n
  OBVIOUS
<1>2. Inside(s, c) = {}
  <2> SUFFICES ASSUME NEW i \in DOMAIN s, s[i].at >= c PROVE FALSE
    BY DEF Inside
  <2>1. s # <<>> /\ n \in DOMAIN s /\ i <= n
    BY <1>1
  <2>2. s[i].at <= s[n].at /\ s[n].at < c
    BY <1>1, <2>1 DEF Ordered
  <2>3. s[i] \in Records /\ s[n] \in Records
    BY <2>1
  <2>4. s[i].at \in Nat /\ s[n].at \in Nat
    BY <2>3, RecordsAre
  <2>5. QED
    BY <2>2, <2>4
<1>3. Gained(s, c) = 0
  BY <1>2, SumEmpty DEF Gained
<1>4. Counts(Inside(s, c), Increments(s))
  BY <1>2, FS_EmptySet DEF Counts
<1>5. ASSUME s # <<>>
      PROVE  Baseline(s, c) \in Nat /\ Grew(s, c) = 0
  <2>1. n \in Earlier(s, c) /\ Earlier(s, c) \in SUBSET Int /\ \A y \in Earlier(s, c) : y <= n
    BY <1>1, <1>5 DEF Earlier
  <2>2. Transcripts!Max(Earlier(s, c)) = n
    BY <2>1, LargestIs
  <2>3. PICK k \in Nat : k = s[n].tokens
    <3>1. s[n] \in Records
      BY <1>1, <1>5
    <3>2. QED
      BY <3>1, RecordsAre
  <2>4. Baseline(s, c) = k
    BY <2>1, <2>2, <2>3 DEF Baseline
  <2>5. Grew(s, c) = k - k
    BY <1>1, <2>3, <2>4 DEF Grew
  <2>6. QED
    BY <2>4, <2>5
<1>6. QED
  BY <1>2, <1>3, <1>4, <1>5 DEF Covers

LEMMA GainsCover ==
    ASSUME NEW s \in Seq(Records), Ordered(s), NEW c \in Int
    PROVE  Covers(s, c)
<1> DEFINE P == {u \in Seq(Records) : Ordered(u) => Covers(u, c)}
<1>1. <<>> \in P
  <2>1. PICK e : e = <<>>
    OBVIOUS
  <2>2. e \in Seq(Records) /\ DOMAIN e = {}
    BY <2>1
  <2>3. Ordered(e) => Covers(e, c)
    BY <2>1, <2>2, NothingGained
  <2>4. QED
    BY <2>1, <2>2, <2>3
<1>2. ASSUME NEW u \in Seq(Records), NEW l \in Records, u \in P
      PROVE  Append(u, l) \in P
  <2>1. PICK t \in Seq(Records) : t = Append(u, l)
    <3>1. Append(u, l) \in Seq(Records)
      OBVIOUS
    <3>2. QED
      BY <3>1, Zenon
  <2>2. l.at \in Nat
    BY RecordsAre
  <2>3. ASSUME Ordered(t) PROVE Covers(t, c)
    <3>1. Ordered(u)
      <4>1. \A i \in DOMAIN u : i \in DOMAIN t /\ t[i] = u[i]
        BY <2>1
      <4>2. QED
        BY <2>3, <4>1 DEF Ordered
    <3>2. CASE l.at >= c
      <4>1. Covers(u, c)
        BY <1>2, <3>1
      <4>2. QED
        BY <2>1, <3>2, <4>1, LineGains
    <3>3. CASE ~(l.at >= c)
      <4>1. t[Len(t)] = l
        BY <2>1
      <4>2. t[Len(t)].at < c
        BY <2>2, <3>3, <4>1
      <4>3. QED
        BY <2>3, <4>2, NothingGained
    <3>4. QED
      BY <3>2, <3>3
  <2>4. QED
    BY <2>1, <2>3
<1>3. Seq(Records) \subseteq P
  <2> HIDE DEF P
  <2> QED
    BY <1>1, <1>2, AllSequences
<1>4. QED
  BY <1>3

\* The tail is the whole file, or lines that span the window with some to spare, or as many
\* lines as are ever read.
Cut(s, v) ==
    \E m \in 0 .. Len(s) - 1 :
       m = Transcripts!Max(Chunks) /\ v = SubSeq(s, Len(s) - m + 1, Len(s)) /\ Transcripts!Crowded(s)
LEMMA LargestChunk == Transcripts!Max(Chunks) \in Chunks /\ Chunks \subseteq Nat
<1>1. Chunks \subseteq Nat /\ IsFiniteSet(Chunks) /\ Chunks # {}
  BY PartsAssumption DEF Transcripts!TranscriptAssumption, IsFiniteSet, Transcripts!IsFiniteSet
<1>2. Chunks \in SUBSET Int
  BY <1>1
<1>3. PICK a, b \in Chunks : \A y \in Chunks : a <= y /\ y <= b
  BY <1>1, <1>2, Extremes
<1>4. Transcripts!Max(Chunks) = b
  BY <1>2, <1>3, LargestIs
<1>5. QED
  BY <1>1, <1>4

LEMMA TailSpans ==
    ASSUME NEW s \in Seq(Records)
    PROVE  \/ Transcripts!ScanTail(s) = s
           \/ \E k \in 1 .. Len(s) - 1 :
                 LET v == SubSeq(s, Len(s) - k + 1, Len(s))
                 IN  Transcripts!ScanTail(s) = v /\ Transcripts!Spans(v)
           \/ Cut(s, Transcripts!ScanTail(s))
<1>1. PICK n \in Nat : n = Len(s)
  OBVIOUS
<1>2. PICK m \in Nat : m = Transcripts!Max(Chunks)
  BY LargestChunk
<1>3. PICK S : S = {k \in Chunks : Transcripts!Spans(Transcripts!Tail_(s, k)) \/ k >= n} \cup {m}
  OBVIOUS
<1>4. S \in SUBSET Nat /\ m \in S
  BY <1>3, LargestChunk
<1>5. PICK a \in S : \A y \in S : a <= y
  <2>1. PICK T : T = S \cap (0 .. m)
    OBVIOUS
  <2>2. T \in SUBSET Int /\ T # {} /\ IsFiniteSet(T)
    <3>1. IsFiniteSet(0 .. m) /\ T \subseteq 0 .. m
      BY <1>2, <2>1, FS_Interval
    <3>2. m \in T
      BY <1>2, <1>4, <2>1
    <3>3. IsFiniteSet(T)
      BY <3>1, FS_Subset
    <3>4. QED
      BY <1>2, <3>1, <3>2, <3>3
  <2>3. PICK a, b \in T : \A y \in T : a <= y /\ y <= b
    BY <2>2, Extremes
  <2>4. a \in S /\ a \in 0 .. m
    BY <2>1, <2>3
  <2>5. \A y \in S : a <= y
    BY <1>2, <1>4, <2>1, <2>3, <2>4
  <2>6. QED
    BY <2>4, <2>5
<1>6. Transcripts!Min(S) = a
  <2>1. S \in SUBSET Int
    BY <1>4
  <2>2. QED
    BY <1>5, <2>1, LeastIs
<1>7. Transcripts!ScanTail(s) = Transcripts!Tail_(s, a)
  BY <1>1, <1>2, <1>3, <1>6 DEF Transcripts!ScanTail
<1>8. CASE a >= n
  <2>1. Transcripts!Tail_(s, a) = s
    BY <1>1, <1>8 DEF Transcripts!Tail_
  <2>2. QED
    BY <1>7, <2>1
<1>9. CASE ~(a >= n)
  <2>1. Transcripts!Tail_(s, a) = SubSeq(s, Len(s) - a + 1, Len(s)) /\ a \in 0 .. Len(s) - 1
    BY <1>1, <1>4, <1>9 DEF Transcripts!Tail_
  <2>2. CASE Transcripts!Spans(Transcripts!Tail_(s, a))
    <3>1. a # 0
      <4>1. SUFFICES ASSUME a = 0 PROVE FALSE
        OBVIOUS
      <4>2. Transcripts!Tail_(s, a) = <<>>
        BY <2>1, <4>1
      <4>3. QED
        BY <2>2, <4>2 DEF Transcripts!Spans
    <3>2. a \in 1 .. Len(s) - 1
      BY <2>1, <3>1
    <3>3. QED
      BY <1>7, <2>1, <2>2, <3>2
  <2>3. CASE ~Transcripts!Spans(Transcripts!Tail_(s, a))
    <3>1. a = m
      BY <1>3, <1>9, <2>3
    <3>2. Transcripts!Crowded(s)
      <4>1. Len(s) > m
        BY <1>1, <1>4, <1>9, <3>1
      <4>2. QED
        BY <1>2, <2>3, <3>1, <4>1 DEF Transcripts!Crowded
    <3>3. QED
      BY <1>2, <1>7, <2>1, <3>1, <3>2 DEF Cut
  <2>4. QED
    BY <2>2, <2>3
<1>10. QED
  BY <1>8, <1>9

\* So the newest line from before the window is in the tail, or the tail is cut.
Ending(v, s, o) ==
    /\ o \in Nat /\ Len(v) \in Nat /\ DOMAIN v = 1 .. Len(v) /\ DOMAIN s = 1 .. Len(s) /\ Len(s) = Len(v) + o
    /\ \A i \in DOMAIN v : v[i] = s[i + o]
Reaches(v, s, c) == v # <<>> /\ \E o : Ending(v, s, o) /\ (o # 0 => v[1].at < c)

LEMMA PartIsEnding ==
    ASSUME NEW s \in Seq(Records), NEW k \in 0 .. Len(s), NEW v, v = SubSeq(s, Len(s) - k + 1, Len(s))
    PROVE  v \in Seq(Records) /\ Len(v) = k /\ DOMAIN v = 1 .. k /\ Ending(v, s, Len(s) - k)
<1>1. PICK n \in Nat : n = Len(s) /\ DOMAIN s = 1 .. n
  OBVIOUS
<1>2. PICK o \in Nat : o = n - k
  <2>1. n - k \in Nat
    BY <1>1
  <2>2. QED
    BY <2>1, Zenon
<1>3. v \in Seq(Records) /\ Len(v) = k /\ DOMAIN v = 1 .. k /\ \A i \in 1 .. k : v[i] = s[i + o]
  BY <1>1, <1>2
<1>4. Len(s) = Len(v) + o
  BY <1>1, <1>2, <1>3
<1>5. /\ Len(v) \in Nat /\ DOMAIN v = 1 .. Len(v) /\ DOMAIN s = 1 .. Len(s)
      /\ \A i \in 1 .. Len(v) : v[i] = s[i + o]
  <2>1. Len(v) \in Nat /\ DOMAIN v = 1 .. Len(v) /\ DOMAIN s = 1 .. Len(s)
    BY <1>1, <1>3
  <2>2. \A i \in 1 .. Len(v) : v[i] = s[i + o]
    BY <1>3, Zenon
  <2>3. QED
    BY <2>1, <2>2
<1>6. Ending(v, s, o)
  BY <1>2, <1>4, <1>5 DEF Ending
<1>7. Ending(v, s, Len(s) - k)
  BY <1>1, <1>2, <1>6
<1>8. QED
  BY <1>3, <1>7

LEMMA TailIsEnding ==
    ASSUME NEW s \in Seq(Records), s # <<>>, NEW c \in Int, s[Len(s)].at - Span < c
    PROVE  LET v == Transcripts!ScanTail(s)
           IN  Reaches(v, s, c) \/ Cut(s, v)
<1>1. PICK n \in Nat : n = Len(s) /\ n # 0 /\ DOMAIN s = 1 .. n
  OBVIOUS
<1>2. PICK v : v = Transcripts!ScanTail(s)
  OBVIOUS
<1>3. CASE v = s
  <2>1. Ending(v, s, 0)
    BY <1>1, <1>3 DEF Ending
  <2>2. QED
    BY <1>2, <1>3, <2>1 DEF Reaches
<1>4. CASE v # s /\ ~Cut(s, v)
  <2>1. PICK k \in 1 .. n - 1 : v = SubSeq(s, n - k + 1, n) /\ Transcripts!Spans(v)
    <3>1. PICK k \in 1 .. Len(s) - 1 :
             LET w == SubSeq(s, Len(s) - k + 1, Len(s))
             IN  Transcripts!ScanTail(s) = w /\ Transcripts!Spans(w)
      BY <1>2, <1>4, TailSpans
    <3>2. QED
      BY <1>1, <1>2, <3>1
  <2>2. v \in Seq(Records) /\ Len(v) = k /\ DOMAIN v = 1 .. k /\ Ending(v, s, n - k)
    <3>1. k \in 0 .. Len(s) /\ v = SubSeq(s, Len(s) - k + 1, Len(s))
      BY <1>1, <2>1
    <3>2. QED
      BY <1>1, <3>1, PartIsEnding
  <2>3. v[k] = s[n]
    <3>1. PICK o \in Nat : o = n - k /\ k + o = n
      <4>1. n - k \in Nat /\ k + (n - k) = n
        BY <1>1
      <4>2. QED
        BY <4>1, Zenon
    <3>2. v[k] = s[k + o]
      BY <2>2, <3>1 DEF Ending
    <3>3. QED
      BY <3>1, <3>2
  <2>4. v # <<>> /\ v[k].at - v[1].at >= Span
    BY <2>1, <2>2 DEF Transcripts!Spans, Transcripts!Last
  <2>5. v[1] \in Records /\ s[n] \in Records
    BY <1>1, <2>2
  <2>6. s[n].at \in Nat /\ v[1].at \in Nat /\ Span \in Nat
    BY <2>5, RecordsAre, PartsAssumption DEF Transcripts!TranscriptAssumption
  <2>7. v[1].at < c
    BY <1>1, <2>3, <2>4, <2>6
  <2>8. QED
    BY <1>2, <2>2, <2>4, <2>7 DEF Reaches
<1>5. QED
  BY <1>2, <1>3, <1>4

\* What the code counts of a file that it reads back to before the window.
Honest(a, s, f, c) ==
    IF a = "claude" THEN f = SumOver(Told(s, c), Spent(s)) + SumOver(Loose(s, c), Amounts(s))
    ELSE \/ f = Gained(s, c)
         \/ Transcripts!Restarted(s, c) /\ f \in 0 .. Gained(s, c)
         \/ Transcripts!Crowded(s) /\ f = IF Transcripts!Max(Chunks) = 0 THEN 0 ELSE s[Len(s)].tokens

LEMMA ReachedCounts ==
    ASSUME NEW s \in Seq(Records), Ordered(s), NEW c \in Int, s # <<>>, agent # "claude",
           NEW v, Reaches(v, s, c), NEW a, a # "claude"
    PROVE  Honest(a, s, Transcripts!Figure(v, c), c)
<1>1. PICK o : Ending(v, s, o) /\ (o # 0 => v[1].at < c)
  BY DEF Reaches
<1>2. PICK n, k \in Nat : /\ n = Len(s) /\ k = Len(v) /\ n = k + o /\ n # 0 /\ k # 0 /\ o \in Nat
                          /\ DOMAIN s = 1 .. n /\ DOMAIN v = 1 .. k /\ \A i \in 1 .. k : v[i] = s[i + o]
  <2>1. Len(s) \in Nat /\ Len(v) \in Nat /\ Len(s) # 0
    BY <1>1 DEF Ending
  <2>2. /\ Len(s) = Len(v) + o /\ o \in Nat /\ DOMAIN s = 1 .. Len(s) /\ DOMAIN v = 1 .. Len(v)
        /\ \A i \in 1 .. Len(v) : v[i] = s[i + o]
    BY <1>1 DEF Ending
  <2>3. Len(v) # 0
    <3>1. SUFFICES ASSUME Len(v) = 0 PROVE FALSE
      OBVIOUS
    <3>2. o # 0 /\ v[1].at < c
      BY <1>1, <2>1, <2>2, <3>1
    <3>3. QED
      BY <1>1, <2>2, <3>1 DEF Reaches
  <2>4. QED
    BY <2>1, <2>2, <2>3
<1>3. PICK l \in Records : l = s[n] /\ l = v[k]
  BY <1>2
<1>4. l.at \in Nat /\ l.tokens \in Nat
  BY RecordsAre
<1>5. PICK B, D : B = Earlier(v, c) /\ D = Earlier(s, c)
  OBVIOUS
<1>6. B \in SUBSET (1 .. k) /\ D \in SUBSET (1 .. n) /\ D \in SUBSET Int
  BY <1>2, <1>5 DEF Earlier
<1>7. Transcripts!Figure(v, c) =
         IF l.at < c THEN 0 ELSE IF B = {} THEN l.tokens
         ELSE Transcripts!Max({l.tokens - v[Transcripts!Max(B)].tokens, 0})
  <2>1. v # <<>>
    BY DEF Reaches
  <2>2. QED
    BY <1>2, <1>3, <1>5, <2>1, Zenon DEF Transcripts!Figure, Transcripts!Last, Earlier
<1>8. CASE l.at < c
  <2>1. Gained(s, c) = 0
    BY <1>2, <1>3, <1>8, NothingGained
  <2>2. QED
    BY <1>7, <1>8, <2>1 DEF Honest
<1>9. PICK b, g \in Nat : /\ b = Baseline(s, c) /\ g = Gained(s, c) /\ Grew(s, c) = l.tokens - b
                          /\ Grew(s, c) <= g /\ (~Transcripts!Restarted(s, c) => Grew(s, c) = g)
  <2>1. Covers(s, c)
    BY GainsCover
  <2>2. Baseline(s, c) \in Nat /\ Gained(s, c) \in Nat
    BY <2>1 DEF Covers
  <2>3. Grew(s, c) = l.tokens - Baseline(s, c)
    BY <1>2, <1>3 DEF Grew
  <2>4. QED
    BY <2>1, <2>2, <2>3 DEF Covers
<1>10. CASE ~(l.at < c) /\ B = {}
  <2>1. o = 0
    <3>1. 1 \in 1 .. k
      BY <1>2
    <3>2. v[1].at < c => 1 \in B
      BY <1>2, <1>5, <3>1 DEF Earlier
    <3>3. QED
      BY <1>1, <1>10, <3>2
  <2>2. D = {}
    <3>1. n = k /\ \A i \in 1 .. k : v[i] = s[i]
      BY <1>2, <2>1
    <3>2. D = B
      BY <1>2, <1>5, <3>1 DEF Earlier
    <3>3. QED
      BY <1>10, <3>2
  <2>3. b = 0
    BY <1>5, <1>9, <2>2 DEF Baseline
  <2>4. Transcripts!Figure(v, c) = l.tokens /\ l.tokens \in 0 .. g
    BY <1>4, <1>7, <1>9, <1>10, <2>3
  <2>5. Transcripts!Restarted(s, c) \/ l.tokens = g
    BY <1>4, <1>9, <2>3
  <2>6. QED
    BY <1>9, <2>4, <2>5 DEF Honest
<1>11. CASE ~(l.at < c) /\ B # {}
  <2>1. PICK x \in B : x = Transcripts!Max(B) /\ \A y \in B : y <= x
    <3>1. B \in SUBSET Int /\ IsFiniteSet(B)
      <4>1. IsFiniteSet(1 .. k)
        <5>1. 1 \in Int /\ k \in Int
          OBVIOUS
        <5>2. QED
          BY <5>1, FS_Interval, Zenon
      <4>2. B \subseteq 1 .. k /\ B \in SUBSET Int
        BY <1>6
      <4>3. QED
        BY <4>1, <4>2, FS_Subset, Zenon
    <3>2. PICK d, e \in B : \A y \in B : d <= y /\ y <= e
      BY <1>11, <3>1, Extremes
    <3>3. e = Transcripts!Max(B)
      BY <3>1, <3>2, LargestIs
    <3>4. QED
      BY <3>2, <3>3
  <2>2. x \in 1 .. k /\ x + o \in 1 .. n /\ v[x] = s[x + o] /\ v[x].at < c
    BY <1>2, <1>5, <1>6 DEF Earlier
  <2>3. x + o \in D
    BY <1>2, <1>5, <2>2 DEF Earlier
  <2>4. \A y \in D : y <= x + o
    <3> SUFFICES ASSUME NEW y \in D, y > x + o PROVE FALSE
      BY <1>2, <1>6, <2>2
    <3>1. y \in 1 .. n /\ s[y].at < c
      BY <1>2, <1>5 DEF Earlier
    <3>2. PICK z \in 1 .. k : z + o = y /\ z > x
      <4>1. y - o \in 1 .. k /\ (y - o) + o = y /\ y - o > x
        BY <1>2, <2>2, <3>1
      <4>2. QED
        BY <4>1, Zenon
    <3>3. z \in B
      BY <1>2, <1>5, <3>1, <3>2 DEF Earlier
    <3>4. QED
      BY <2>1, <2>2, <3>2, <3>3
  <2>5. Transcripts!Max(D) = x + o
    BY <1>6, <2>3, <2>4, LargestIs
  <2>6. b = v[x].tokens
    BY <1>5, <1>9, <2>2, <2>3, <2>5 DEF Baseline
  <2>7. PICK f : f = Transcripts!Figure(v, c)
    OBVIOUS
  <2>8. f = Transcripts!Max({l.tokens - b, 0})
    BY <1>7, <1>11, <2>1, <2>6, <2>7
  <2>9. PICK d \in Int : d = l.tokens - b
    BY <1>4
  <2>10. PICK h \in Nat : h = IF d >= 0 THEN d ELSE 0
    BY <2>9
  <2>11. f = h
    <3>1. {d, 0} \in SUBSET Int /\ h \in {d, 0} /\ \A y \in {d, 0} : y <= h
      BY <2>10
    <3>2. Transcripts!Max({d, 0}) = h
      BY <3>1, LargestIs
    <3>3. QED
      BY <2>8, <2>9, <3>2
  <2>12. h \in 0 .. g /\ (Transcripts!Restarted(s, c) \/ h = g)
    BY <1>9, <2>9, <2>10
  <2>13. QED
    BY <1>9, <2>7, <2>11, <2>12 DEF Honest
<1>12. QED
  BY <1>8, <1>10, <1>11

\* A tail that is cut and does not reach before the window counts as the whole total.
LEMMA CutCounts ==
    ASSUME NEW s \in Seq(Records), Ordered(s), NEW c \in Int, s # <<>>, agent # "claude",
           NEW v, Cut(s, v), ~Reaches(v, s, c), NEW a, a # "claude"
    PROVE  Honest(a, s, Transcripts!Figure(v, c), c)
<1>1. PICK m \in 0 .. Len(s) - 1 :
         m = Transcripts!Max(Chunks) /\ v = SubSeq(s, Len(s) - m + 1, Len(s)) /\ Transcripts!Crowded(s)
  BY DEF Cut
<1>2. PICK n \in Nat : n = Len(s) /\ DOMAIN s = 1 .. n /\ n # 0
  OBVIOUS
<1>3. m \in 0 .. Len(s) /\ m \in Nat /\ n - m \in Nat
  BY <1>1, <1>2
<1>4. v \in Seq(Records) /\ Len(v) = m /\ DOMAIN v = 1 .. m /\ Ending(v, s, n - m)
  BY <1>1, <1>2, <1>3, PartIsEnding
<1>5. CASE m = 0
  <2>1. v = <<>>
    BY <1>4, <1>5
  <2>2. Transcripts!Figure(v, c) = 0
    BY <2>1 DEF Transcripts!Figure
  <2>3. QED
    BY <1>1, <1>5, <2>2 DEF Honest
<1>6. CASE m # 0
  <2>1. PICK o \in Nat : o = n - m /\ m + o = n
    <3>1. n - m \in Nat /\ m + (n - m) = n
      BY <1>2, <1>3
    <3>2. QED
      BY <3>1, Zenon
  <2>2. \A i \in 1 .. m : v[i] = s[i + o] /\ i + o \in 1 .. n /\ 1 + o <= i + o
    BY <1>3, <1>4, <2>1 DEF Ending
  <2>3. v # <<>> /\ 1 \in 1 .. m /\ m \in 1 .. m
    BY <1>3, <1>4, <1>6
  <2>4. ~(v[1].at < c)
    BY <1>4, <2>1, <2>3 DEF Reaches
  <2>5. \A i \in 1 .. m : ~(v[i].at < c)
    <3> SUFFICES ASSUME NEW i \in 1 .. m PROVE ~(v[i].at < c)
      OBVIOUS
    <3>1. v[1].at <= v[i].at
      BY <1>2, <2>2, <2>3 DEF Ordered
    <3>2. v[1] \in Records /\ v[i] \in Records
      BY <1>4, <2>3
    <3>3. v[1].at \in Nat /\ v[i].at \in Nat
      BY <3>2, RecordsAre
    <3>4. QED
      BY <2>4, <3>1, <3>3
  <2>6. {i \in DOMAIN v : v[i].at < c} = {}
    BY <1>4, <2>5
  <2>7. Transcripts!Figure(v, c) = v[m].tokens
    BY <1>4, <2>3, <2>5, <2>6 DEF Transcripts!Figure, Transcripts!Last
  <2>8. v[m] = s[n]
    BY <2>1, <2>2, <2>3
  <2>9. QED
    BY <1>1, <1>2, <1>6, <2>7, <2>8 DEF Honest
<1>7. QED
  BY <1>5, <1>6

LEMMA CodexCounts ==
    ASSUME NEW s \in Seq(Records), Ordered(s), NEW c \in Int, s # <<>> => s[Len(s)].at - Span < c,
           agent # "claude", NEW a, a # "claude"
    PROVE  Honest(a, s, Transcripts!Figure(Transcripts!ScanTail(s), c), c)
<1>1. PICK v : v = Transcripts!ScanTail(s)
  OBVIOUS
<1>2. CASE s = <<>>
  <2>1. v = <<>>
    <3>1. Len(s) = 0
      BY <1>2
    <3>2. 1 .. Len(s) - 1 = {} /\ 0 .. Len(s) - 1 = {}
      BY <3>1
    <3>3. ~Cut(s, v)
      BY <3>2 DEF Cut
    <3>4. QED
      BY <1>1, <1>2, <3>2, <3>3, TailSpans
  <2>2. Transcripts!Figure(v, c) = 0
    BY <2>1 DEF Transcripts!Figure
  <2>3. Gained(s, c) = 0
    BY <1>2, NothingGained
  <2>4. QED
    BY <1>1, <2>2, <2>3 DEF Honest
<1>3. CASE s # <<>> /\ Reaches(v, s, c)
  BY <1>1, <1>3, ReachedCounts
<1>4. CASE s # <<>> /\ ~Reaches(v, s, c)
  <2>1. Cut(s, v)
    BY <1>1, <1>4, TailIsEnding
  <2>2. QED
    BY <1>1, <1>4, <2>1, CutCounts
<1>5. QED
  BY <1>2, <1>3, <1>4

LEMMA ToldIsFinite == ASSUME NEW s \in Seq(Records), NEW c \in Int PROVE IsFiniteSet(Told(s, c))
<1> DEFINE P == {u \in Seq(Records) : IsFiniteSet(Told(u, c))}
<1>1. <<>> \in P
  <2>1. PICK e : e = <<>>
    OBVIOUS
  <2>2. e \in Seq(Records) /\ DOMAIN e = {}
    BY <2>1
  <2>3. Told(e, c) = {}
    BY <2>2 DEF Told, Transcripts!Lines
  <2>4. QED
    BY <2>1, <2>2, <2>3, FS_EmptySet
<1>2. ASSUME NEW u \in Seq(Records), NEW l \in Records, u \in P
      PROVE  Append(u, l) \in P
  <2>1. PICK t \in Seq(Records) : t = Append(u, l)
    <3>1. Append(u, l) \in Seq(Records)
      OBVIOUS
    <3>2. QED
      BY <3>1, Zenon
  <2>2. PICK n : Longer(u, l, t, n)
    <3>1. Longer(u, l, t, Len(u) + 1)
      BY <2>1, LinesAppend
    <3>2. QED
      BY <3>1, Zenon
  <2>3. LaterEnds(u, l, t)
    BY <2>1, FirstAndLast
  <2>4. OthersAlike(u, l, t, c)
    BY <2>2, <2>3, OthersStay
  <2>5. Told(t, c) \in SUBSET (Told(u, c) \cup {l.id})
    <3>1. \A id \in Told(t, c) : id \in Messages
      BY DEF Told
    <3>2. QED
      BY <2>4, <3>1 DEF OthersAlike
  <2>6. IsFiniteSet(Told(u, c) \cup {l.id})
    BY <1>2, FS_AddElement
  <2>7. IsFiniteSet(Told(t, c))
    BY <2>5, <2>6, FS_Subset
  <2>8. QED
    BY <2>1, <2>7
<1>3. Seq(Records) \subseteq P
  <2> HIDE DEF P
  <2> QED
    BY <1>1, <1>2, AllSequences
<1>4. QED
  BY <1>3

\* The parse of a file, and what is known of its lines.
Made(a, s) == IF a = "claude" THEN Transcripts!Collapsed(s) ELSE Transcripts!ScanTail(s)
Good(a, s) == Ordered(s) /\ (a = "claude" => Grown(s))

LEMMA TokensOfAre ==
    ASSUME NEW s, NEW S
    PROVE  Transcripts!TokensOf(s, S) = SumOver(S, Amounts(s))
<1>1. Transcripts!TokensOf(s, S) = Transcripts!SumFunctionOnSet(Amounts(s), S)
  BY Zenon DEF Transcripts!TokensOf, Amounts
<1>2. QED
  BY <1>1, TokensAreSums, Zenon

LEMMA FigureIsHonest ==
    ASSUME NEW s \in Seq(Records), NEW a, a = agent, Good(a, s), NEW c \in Int,
           s # <<>> => s[Len(s)].at - Span < c
    PROVE  Honest(a, s, Transcripts!Figure(Made(a, s), c), c)
<1>1. CASE a = "claude"
  <2>1. PICK r \in Seq(Records) : r = Transcripts!Collapsed(s) /\ r = Made(a, s)
    <3>1. Transcripts!Collapsed(s) \in Seq(Records)
      BY CollapsedIsFold
    <3>2. QED
      BY <1>1, <3>1, Zenon DEF Made
  <2>2. PICK before : before = {i \in DOMAIN r : r[i].at < c}
    OBVIOUS
  <2>3. DOMAIN r \ before = Inside(r, c)
    <3>1. \A i \in DOMAIN r : r[i].at \in Nat
      <4>1. \A i \in DOMAIN r : r[i] \in Records
        OBVIOUS
      <4>2. QED
        BY <4>1, RecordsAre
    <3>2. QED
      BY <2>2, <3>1 DEF Inside
  <2>4. Transcripts!Figure(r, c) = Transcripts!TokensOf(r, Inside(r, c))
    BY <1>1, <2>2, <2>3, Zenon DEF Transcripts!Figure
  <2>5. Transcripts!Figure(r, c) = SumOver(Inside(r, c), Amounts(r))
    BY <2>4, TokensOfAre, Zenon
  <2>6. CountedOnce(s, r, c)
    BY <1>1, <2>1, ClaudeCounts DEF Good
  <2>7. QED
    BY <1>1, <2>1, <2>5, <2>6, Zenon DEF CountedOnce, Honest
<1>2. CASE a # "claude"
  <2>1. Honest(a, s, Transcripts!Figure(Transcripts!ScanTail(s), c), c)
    BY <1>2, CodexCounts DEF Good
  <2>2. QED
    BY <1>2, <2>1, Zenon DEF Made
<1>3. QED
  BY <1>1, <1>2

LEMMA ParseIsMade == ASSUME NEW s, NEW a, a = agent PROVE Transcripts!Parse(s) = Made(a, s)
BY Zenon DEF Transcripts!Parse, Made

LEMMA HonestCounts ==
    ASSUME NEW s \in Seq(Records), NEW a, a = agent, a \in {"claude", "codex"}, NEW c \in Int,
           NEW f, Honest(a, s, f, c)
    PROVE  Transcripts!Counts(f, s, c)
<1>1. CASE a = "claude"
  <2>1. PICK known : known = {id \in Messages : Transcripts!Lines(s, id) # {}}
    OBVIOUS
  <2>2. PICK inside : inside = {id \in known : s[Transcripts!Min(Transcripts!Lines(s, id))].at >= c}
    OBVIOUS
  <2>3. inside = Told(s, c)
    BY <2>1, <2>2 DEF Told, FirstOf
  <2>4. PICK g : g = [id \in inside |-> s[Transcripts!Max(Transcripts!Lines(s, id))].tokens]
    OBVIOUS
  <2>5. Transcripts!SumFunction(g) = SumOver(Told(s, c), g)
    <3>1. DOMAIN g = inside
      BY <2>4
    <3>2. Transcripts!SumFunction(g) = Transcripts!SumFunctionOnSet(g, inside)
      BY <3>1, Zenon DEF Transcripts!SumFunction
    <3>3. QED
      BY <2>3, <3>2, TokensAreSums, Zenon
  <2>6. SumOver(Told(s, c), g) = SumOver(Told(s, c), Spent(s))
    <3>1. \A id \in Told(s, c) : id \in Messages /\ Transcripts!Lines(s, id) # {}
      BY DEF Told
    <3>2. \A id \in Told(s, c) : g[id] = Spent(s)[id]
      BY <2>3, <2>4, <3>1 DEF Spent, LastOf
    <3>3. Counts(Told(s, c), Spent(s))
      <4>1. IsFiniteSet(Told(s, c))
        BY ToldIsFinite
      <4>2. \A id \in Told(s, c) : Spent(s)[id] \in Nat
        BY <3>1, SpentIsNat
      <4>3. QED
        BY <4>1, <4>2 DEF Counts
    <3>4. QED
      BY <3>2, <3>3, SumSame
  <2>7. Transcripts!TokensOf(s, Loose(s, c)) = SumOver(Loose(s, c), Amounts(s))
    BY TokensOfAre
  <2>8. Transcripts!Used(s, c) = Transcripts!SumFunction(g) + Transcripts!TokensOf(s, Loose(s, c))
    BY <1>1, <2>1, <2>2, <2>4, Zenon DEF Transcripts!Used, Loose
  <2>9. f = SumOver(Told(s, c), Spent(s)) + SumOver(Loose(s, c), Amounts(s))
    BY <1>1, Zenon DEF Honest
  <2>10. f = Transcripts!Used(s, c)
    BY <2>5, <2>6, <2>7, <2>8, <2>9, Zenon
  <2>11. QED
    BY <2>10 DEF Transcripts!Counts
<1>2. CASE a # "claude"
  <2>1. Transcripts!Used(s, c) = Transcripts!SumFunctionOnSet(Increments(s), Inside(s, c))
    BY <1>2, Zenon DEF Transcripts!Used, Increments, Inside
  <2>2. Transcripts!Used(s, c) = Gained(s, c)
    BY <2>1, TokensAreSums, Zenon DEF Gained
  <2>3. agent = "codex"
    BY <1>2
  <2>4. \/ f = Gained(s, c)
        \/ Transcripts!Restarted(s, c) /\ f \in 0 .. Gained(s, c)
        \/ Transcripts!Crowded(s) /\ f = IF Transcripts!Max(Chunks) = 0 THEN 0 ELSE s[Len(s)].tokens
    BY <1>2, Zenon DEF Honest
  <2>5. QED
    BY <2>2, <2>3, <2>4, Zenon DEF Transcripts!Counts, Transcripts!Last
<1>3. QED
  BY <1>1, <1>2

\* What no line is late enough for is nothing.
LEMMA NothingInside ==
    ASSUME NEW s \in Seq(Records), NEW a, NEW c \in Int, \A i \in DOMAIN s : s[i].at < c
    PROVE  Honest(a, s, 0, c)
<1>0. \A i \in DOMAIN s : s[i].at \in Nat /\ s[i].tokens \in Nat /\ ~(s[i].at >= c)
  <2>1. \A i \in DOMAIN s : s[i] \in Records
    OBVIOUS
  <2>2. \A i \in DOMAIN s : s[i].at \in Nat /\ s[i].tokens \in Nat
    BY <2>1, RecordsAre
  <2>3. QED
    BY <2>2
<1>1. CASE a = "claude"
  <2>1. Told(s, c) = {}
    <3>1. SUFFICES ASSUME NEW id \in Told(s, c) PROVE FALSE
      OBVIOUS
    <3>2. Transcripts!Lines(s, id) # {} /\ FirstOf(s, id).at >= c
      BY DEF Told
    <3>3. Transcripts!Lines(s, id) \in SUBSET (DOMAIN s)
      BY DEF Transcripts!Lines
    <3>4. Transcripts!Min(Transcripts!Lines(s, id)) \in DOMAIN s
      BY <3>2, <3>3, Ends
    <3>5. QED
      BY <1>0, <3>2, <3>4 DEF FirstOf
  <2>2. Loose(s, c) = {}
    BY <1>0 DEF Loose, Transcripts!Lines
  <2>3. SumOver(Told(s, c), Spent(s)) = 0 /\ SumOver(Loose(s, c), Amounts(s)) = 0
    BY <2>1, <2>2, SumEmpty
  <2>4. QED
    BY <1>1, <2>3 DEF Honest
<1>2. CASE a # "claude"
  <2>1. Inside(s, c) = {}
    BY <1>0 DEF Inside
  <2>2. Gained(s, c) = 0
    BY <2>1, SumEmpty DEF Gained
  <2>3. QED
    BY <1>2, <2>2 DEF Honest
<1>3. QED
  BY <1>1, <1>2

LEMMA NothingCounts == ASSUME NEW c \in Int PROVE Transcripts!Figure(<<>>, c) = 0
<1>1. CASE agent = "claude"
  <2>1. PICK e : e = <<>>
    OBVIOUS
  <2>2. DOMAIN e = {}
    BY <2>1
  <2>3. PICK S : S = DOMAIN e \ {i \in DOMAIN e : e[i].at < c}
    OBVIOUS
  <2>4. S = {}
    BY <2>2, <2>3
  <2>5. Transcripts!Figure(e, c) = Transcripts!TokensOf(e, S)
    BY <1>1, <2>3, Zenon DEF Transcripts!Figure
  <2>6. SumOver(S, Amounts(e)) = 0
    BY <2>4, SumEmpty
  <2>7. QED
    BY <2>1, <2>5, <2>6, TokensOfAre
<1>2. CASE agent # "claude"
  BY <1>2 DEF Transcripts!Figure
<1>3. QED
  BY <1>1, <1>2

\* What a poll knew of the file, and made of it: the first lines of it, k or more.
ReadOf(s, k, r) == \E n \in k .. Len(s) : r = SubSeq(s, 1, n)
MadeOf(a, s, k, v) == \E n \in k .. Len(s) : v = Made(a, SubSeq(s, 1, n))
TrueOf(a, s, k, f, c) == \E n \in k .. Len(s) : Honest(a, SubSeq(s, 1, n), f, c)

\* Lines are only added, so that stays what they know.
SameStart(s, t) ==
    /\ Len(s) \in Nat /\ Len(t) \in Nat /\ Len(s) <= Len(t)
    /\ \A n \in 0 .. Len(s) : SubSeq(t, 1, n) = SubSeq(s, 1, n)
LEMMA StartStays ==
    ASSUME NEW s \in Seq(Records), NEW l \in Records, NEW t, t = Append(s, l)
    PROVE  SameStart(s, t)
<1>1. Len(s) \in Nat /\ Len(t) = Len(s) + 1
  OBVIOUS
<1>2. ASSUME NEW n \in 0 .. Len(s) PROVE SubSeq(t, 1, n) = SubSeq(s, 1, n)
  BY <1>1, <1>2
<1>3. QED
  BY <1>1, <1>2 DEF SameStart

LEMMA KnownStays ==
    ASSUME NEW s, NEW t, SameStart(s, t), NEW k \in Nat, NEW a
    PROVE  /\ \A r : ReadOf(s, k, r) => ReadOf(t, k, r)
           /\ \A v : MadeOf(a, s, k, v) => MadeOf(a, t, k, v)
           /\ \A f, c : TrueOf(a, s, k, f, c) => TrueOf(a, t, k, f, c)
<1>1. \A n \in k .. Len(s) : n \in 0 .. Len(s) /\ n \in k .. Len(t) /\ SubSeq(t, 1, n) = SubSeq(s, 1, n)
  BY DEF SameStart
<1>2. QED
  BY <1>1 DEF ReadOf, MadeOf, TrueOf

\* The first lines of a file are as good as the file.
StartOf(r, s, n) == r \in Seq(Records) /\ Len(r) = n /\ \A i \in DOMAIN r : i \in DOMAIN s /\ r[i] = s[i]
LEMMA StartIsGood ==
    ASSUME NEW s \in Seq(Records), NEW a, Good(a, s), NEW n \in 0 .. Len(s), NEW r, r = SubSeq(s, 1, n)
    PROVE  StartOf(r, s, n) /\ Good(a, r)
<1>1. r \in Seq(Records) /\ Len(r) = n /\ DOMAIN r = 1 .. n
  OBVIOUS
<1>2. \A i \in DOMAIN r : i \in DOMAIN s /\ r[i] = s[i]
  BY <1>1
<1>3. Good(a, r)
  BY <1>2 DEF Good, Grown, Ordered
<1>4. QED
  BY <1>1, <1>2, <1>3 DEF StartOf

LEMMA WholeFile == ASSUME NEW s \in Seq(Records) PROVE SubSeq(s, 1, Len(s)) = s /\ Len(s) \in Nat
OBVIOUS

--------------------------------------------------------------------------------
(* The file only grows, a poll's lines are its first ones, and so are the lines the  *)
(* memo's value and the last figure were made of.                                  *)
FileInv == Good(agent, lines) /\ mtime <= clock /\ \A i \in DOMAIN lines : lines[i].at <= mtime
ScanInv ==
    scan.phase # "idle" =>
        /\ scan.now \in Nat /\ clock - scan.now < Span - Window
        /\ scan.key[2] \in Nat /\ scan.key[2] <= Len(lines)
        /\ scan.phase = "read" => ReadOf(lines, scan.key[2], scan.read)
MemoInv == memo = Transcripts!NoMemo \/ (memo.key[2] \in Nat /\ MadeOf(agent, lines, memo.key[2], memo.value))
TallyInv ==
    /\ tally.from \in Nat /\ tally.cutoff \in Int
    /\ TrueOf(agent, lines, tally.from, tally.figure, tally.cutoff)
TranscriptInv == FileInv /\ ScanInv /\ MemoInv /\ TallyInv

LEMMA EstimateIsTrue == ASSUME TranscriptTypes, TranscriptInv PROVE Transcripts!EstimateIsCurrent
<1>1. tally.from \in Nat /\ tally.cutoff \in Int /\ Len(lines) \in Nat
  BY DEF TranscriptInv, TallyInv, TranscriptTypes
<1>2. PICK n \in tally.from .. Len(lines) : Honest(agent, SubSeq(lines, 1, n), tally.figure, tally.cutoff)
  BY DEF TranscriptInv, TallyInv, TrueOf
<1>3. SubSeq(lines, 1, n) \in Seq(Records) /\ agent \in {"claude", "codex"}
  BY <1>1 DEF TranscriptTypes
<1>4. Transcripts!Counts(tally.figure, SubSeq(lines, 1, n), tally.cutoff)
  BY <1>1, <1>2, <1>3, HonestCounts
<1>5. QED
  BY <1>4 DEF Transcripts!EstimateIsCurrent

LEMMA TranscriptsBegin == ASSUME Transcripts!Init PROVE TranscriptInv
<1>1. /\ clock = 0 /\ lines = <<>> /\ mtime = 0 /\ memo = Transcripts!NoMemo
      /\ scan.phase = "idle"
      /\ tally.figure = 0 /\ tally.cutoff = 0 /\ tally.from = 0
  BY DEF Transcripts!Init, Transcripts!NoScan
<1>2. lines \in Seq(Records) /\ DOMAIN lines = {} /\ Len(lines) = 0
  BY <1>1
<1>3. FileInv
  BY <1>1, <1>2 DEF FileInv, Good, Grown, Ordered
<1>4. ScanInv /\ MemoInv
  BY <1>1 DEF ScanInv, MemoInv
<1>5. TallyInv
  <2>1. SubSeq(lines, 1, 0) = lines
    BY <1>2, WholeFile
  <2>2. Honest(agent, lines, 0, 0)
    <3>1. PICK c \in Int : c = 0
      OBVIOUS
    <3>2. \A i \in DOMAIN lines : lines[i].at < c
      BY <1>2
    <3>3. Honest(agent, lines, 0, c)
      BY <1>2, <3>2, NothingInside
    <3>4. QED
      BY <3>1, <3>3
  <2>3. 0 \in 0 .. Len(lines)
    BY <1>2
  <2>4. TrueOf(agent, lines, 0, 0, 0)
    BY <2>1, <2>2, <2>3, Zenon DEF TrueOf
  <2>5. QED
    BY <1>1, <2>4 DEF TallyInv
<1>6. QED
  BY <1>3, <1>4, <1>5 DEF TranscriptInv

\* A figure of the first n lines, made from a value made of them.
LEMMA TallyIsTrue ==
    ASSUME TranscriptTypes, FileInv, NEW n \in Nat, n <= Len(lines), NEW k \in Nat, k <= n,
           NEW t \in Int, clock - t < Span - Window,
           NEW v, v = Made(agent, SubSeq(lines, 1, n)), Transcripts!Tallied(v, t, k),
           UNCHANGED <<agent, lines>>
    PROVE  TallyInv'
<1>1. MaxClock \in Nat /\ Window \in Nat /\ Span \in Nat /\ clock \in Nat /\ mtime \in Nat
  BY PartsAssumption DEF Transcripts!TranscriptAssumption, TranscriptTypes
<1>2. PICK c \in Int : c = t - Window
  BY <1>1
<1>3. PICK s : s = SubSeq(lines, 1, n)
  OBVIOUS
<1>4. s \in Seq(Records) /\ Good(agent, s) /\ Len(s) = n /\ \A i \in DOMAIN s : i \in DOMAIN lines /\ s[i] = lines[i]
  <2>1. n \in 0 .. Len(lines)
    BY DEF TranscriptTypes
  <2>2. lines \in Seq(Records) /\ Good(agent, lines)
    BY DEF FileInv, TranscriptTypes
  <2>3. StartOf(s, lines, n) /\ Good(agent, s)
    BY <1>3, <2>1, <2>2, StartIsGood
  <2>4. QED
    BY <2>3 DEF StartOf
<1>5. s # <<>> => s[Len(s)].at - Span < c
  <2> SUFFICES ASSUME s # <<>> PROVE s[Len(s)].at - Span < c
    OBVIOUS
  <2>1. Len(s) \in DOMAIN s
    BY <1>4
  <2>2. PICK l \in Records : l = s[Len(s)] /\ l.at <= mtime
    BY <1>4, <2>1 DEF FileInv
  <2>3. l.at \in Nat /\ mtime <= clock
    BY RecordsAre DEF FileInv
  <2>4. QED
    BY <1>1, <1>2, <2>2, <2>3
<1>6. PICK f : f = Transcripts!Figure(v, c) /\ Honest(agent, s, f, c)
  BY <1>3, <1>4, <1>5, FigureIsHonest
<1>7. tally'.figure = f /\ tally'.cutoff = c /\ tally'.from = k
  BY <1>2, <1>6 DEF Transcripts!Tallied
<1>8. TrueOf(agent, lines, k, f, c)
  <2>1. n \in k .. Len(lines)
    BY DEF TranscriptTypes
  <2>2. QED
    BY <1>3, <1>6, <2>1 DEF TrueOf
<1>9. QED
  BY <1>7, <1>8 DEF TallyInv

LEMMA TickKeepsFigures ==
    ASSUME TranscriptTypes, TranscriptInv, Transcripts!Tick
    PROVE  TranscriptInv'
<1>1. clock' = clock + 1 /\ clock \in Nat /\ mtime \in Nat /\ UNCHANGED <<agent, lines, mtime, memo, scan, tally>>
  BY PartsAssumption DEF Transcripts!Tick, TranscriptTypes, Transcripts!TranscriptAssumption
<1>2. scan.phase # "idle" => clock' - scan.now < Span - Window
  BY DEF Transcripts!Tick
<1>3. FileInv'
  BY <1>1 DEF TranscriptInv, FileInv
<1>4. ScanInv'
  BY <1>1, <1>2 DEF TranscriptInv, ScanInv
<1>5. MemoInv' /\ TallyInv'
  BY <1>1 DEF TranscriptInv, MemoInv, TallyInv
<1>6. QED
  BY <1>3, <1>4, <1>5 DEF TranscriptInv

LEMMA LineIsGood ==
    ASSUME NEW s \in Seq(Records), Good(agent, s), lines = s, NEW l \in Records, Transcripts!Grows(l.id, l.tokens),
           \A i \in DOMAIN s : s[i].at <= l.at, NEW t, t = Append(s, l)
    PROVE  Good(agent, t)
<1>1. PICK n : Longer(s, l, t, n)
  <2>1. Longer(s, l, t, Len(s) + 1)
    BY LinesAppend
  <2>2. QED
    BY <2>1, Zenon
<1>2. n \in Nat /\ n \notin DOMAIN s /\ DOMAIN t = DOMAIN s \cup {n} /\ t[n] = l /\ \A i \in DOMAIN s : i <= n /\ t[i] = s[i]
  BY <1>1 DEF Longer
<1>3. DOMAIN s \subseteq Nat /\ \A i \in DOMAIN s : ~(n <= i)
  <2>1. DOMAIN s \subseteq Nat
    OBVIOUS
  <2>2. QED
    BY <1>2, <2>1
<1>4. l.tokens \in Nat /\ \A i \in DOMAIN s : s[i].tokens \in Nat
  <2>1. \A i \in DOMAIN s : s[i] \in Records
    OBVIOUS
  <2>2. QED
    BY <2>1, RecordsAre
<1>5. Ordered(t)
  <2>1. Ordered(s) /\ l.at \in Nat
    BY RecordsAre DEF Good
  <2>2. QED
    BY <1>2, <1>3, <2>1 DEF Ordered
<1>6. ASSUME agent = "claude" PROVE Grown(t)
  <2>1. \A i \in DOMAIN s : s[i].id = l.id => s[i].tokens <= l.tokens
    BY <1>6 DEF Transcripts!Grows
  <2>2. Grown(s)
    BY <1>6 DEF Good
  <2>3. QED
    BY <1>2, <1>3, <1>4, <2>1, <2>2 DEF Grown
<1>7. QED
  BY <1>5, <1>6 DEF Good

LEMMA LineKeepsFigures ==
    ASSUME TranscriptTypes, TranscriptInv, Transcripts!AppendLine
    PROVE  TranscriptInv'
<1>1. PICK l \in Records : lines' = Append(lines, l) /\ l.at = clock /\ Transcripts!Grows(l.id, l.tokens)
  <2>1. PICK id \in Messages \cup {Transcripts!NoId}, tokens \in Tokens :
           Transcripts!Grows(id, tokens) /\ lines' = Append(lines, Transcripts!Line(clock, id, tokens))
    BY DEF Transcripts!AppendLine
  <2>2. PICK l : l = Transcripts!Line(clock, id, tokens)
    OBVIOUS
  <2>3. l \in Records /\ l.at = clock /\ l.id = id /\ l.tokens = tokens
    BY <2>2 DEF Transcripts!Line, Records, TranscriptTypes
  <2>4. QED
    BY <2>1, <2>2, <2>3
<1>2. mtime' = clock /\ UNCHANGED <<agent, clock, memo, scan, tally>>
  BY DEF Transcripts!AppendLine
<1>3. PICK s, t : s = lines /\ t = lines'
  OBVIOUS
<1>4. s \in Seq(Records) /\ t = Append(s, l) /\ clock \in Nat /\ mtime \in Nat
  BY <1>1, <1>3, PartsAssumption DEF TranscriptTypes, Transcripts!TranscriptAssumption
<1>5. SameStart(s, t)
  BY <1>4, StartStays
<1>6. FileInv'
  <2>1. \A i \in DOMAIN s : s[i].at \in Nat /\ s[i].at <= mtime /\ mtime <= clock /\ s[i].at <= clock
    <3>1. \A i \in DOMAIN s : s[i] \in Records
      BY <1>4
    <3>2. \A i \in DOMAIN s : s[i].at \in Nat /\ s[i].at <= mtime /\ mtime <= clock
      BY <1>3, <3>1, RecordsAre DEF TranscriptInv, FileInv
    <3>3. QED
      BY <1>4, <3>2
  <2>2. Good(agent, t)
    <3>1. Good(agent, s)
      BY <1>3 DEF TranscriptInv, FileInv
    <3>2. QED
      BY <1>1, <1>3, <1>4, <2>1, <3>1, LineIsGood
  <2>3. \A i \in DOMAIN t : t[i].at <= clock
    <3>1. \A i \in DOMAIN t : (i \in DOMAIN s /\ t[i] = s[i]) \/ t[i] = l
      BY <1>4
    <3>2. QED
      BY <1>1, <1>4, <2>1, <3>1
  <2>4. QED
    BY <1>2, <1>3, <1>4, <2>2, <2>3 DEF FileInv
<1>7. ScanInv'
  <2>1. Len(s) \in Nat /\ Len(t) \in Nat /\ Len(s) <= Len(t)
    BY <1>5 DEF SameStart
  <2>2. SUFFICES ASSUME scan.phase # "idle"
                 PROVE  /\ scan.now \in Nat /\ clock - scan.now < Span - Window
                        /\ scan.key[2] \in Nat /\ scan.key[2] <= Len(t)
                        /\ scan.phase = "read" => ReadOf(t, scan.key[2], scan.read)
    BY <1>2, <1>3 DEF ScanInv
  <2>3. /\ scan.now \in Nat /\ clock - scan.now < Span - Window
        /\ scan.key[2] \in Nat /\ scan.key[2] <= Len(s)
        /\ scan.phase = "read" => ReadOf(s, scan.key[2], scan.read)
    BY <1>3, <2>2 DEF TranscriptInv, ScanInv
  <2>4. PICK k \in Nat : k = scan.key[2] /\ k <= Len(s)
    BY <2>3
  <2>5. k <= Len(t)
    BY <2>1, <2>4
  <2>6. ReadOf(s, k, scan.read) => ReadOf(t, k, scan.read)
    BY <1>5, KnownStays
  <2>7. QED
    BY <2>3, <2>4, <2>5, <2>6
<1>8. MemoInv'
  BY <1>2, <1>3, <1>5, KnownStays DEF TranscriptInv, MemoInv
<1>9. TallyInv'
  BY <1>2, <1>3, <1>5, KnownStays DEF TranscriptInv, TallyInv
<1>10. QED
  BY <1>6, <1>7, <1>8, <1>9 DEF TranscriptInv

LEMMA StatKeepsFigures ==
    ASSUME TranscriptTypes, TranscriptInv, Transcripts!PollStats
    PROVE  TranscriptInv'
<1>1. UNCHANGED <<agent, clock, lines, mtime>> /\ scan.phase = "idle"
  BY DEF Transcripts!PollStats
<1>2. /\ Window \in Nat /\ Span \in Nat /\ Week \in Nat /\ Span > Window /\ Week >= Window
      /\ clock \in Nat /\ mtime \in Nat /\ lines \in Seq(Records)
  BY PartsAssumption DEF Transcripts!TranscriptAssumption, TranscriptTypes
<1>3. PICK n \in Nat : n = Len(lines) /\ SubSeq(lines, 1, n) = lines
  BY <1>2, WholeFile
<1>4. FileInv'
  BY <1>1 DEF TranscriptInv, FileInv
<1>5. CASE mtime < clock - Week
  <2>1. memo' = Transcripts!NoMemo /\ Transcripts!Tallied(<<>>, clock, Len(lines)) /\ UNCHANGED scan
    BY <1>5 DEF Transcripts!PollStats
  <2>2. PICK c \in Int : c = clock - Window
    BY <1>2
  <2>3. tally'.figure = 0 /\ tally'.cutoff = c /\ tally'.from = n
    BY <1>3, <2>1, <2>2, NothingCounts DEF Transcripts!Tallied
  <2>4. Honest(agent, lines, 0, c)
    <3>1. \A i \in DOMAIN lines : lines[i].at < c
      <4>1. \A i \in DOMAIN lines : lines[i].at \in Nat /\ lines[i].at <= mtime
        <5>1. \A i \in DOMAIN lines : lines[i] \in Records
          BY <1>2
        <5>2. QED
          BY <5>1, RecordsAre DEF TranscriptInv, FileInv
      <4>2. QED
        BY <1>2, <1>5, <2>2, <4>1
    <3>2. QED
      BY <1>2, <3>1, NothingInside
  <2>5. TrueOf(agent, lines, n, 0, c)
    <3>1. n \in n .. Len(lines)
      BY <1>3
    <3>2. QED
      BY <1>3, <2>4, <3>1 DEF TrueOf
  <2>6. TallyInv'
    BY <1>1, <2>3, <2>5 DEF TallyInv
  <2>7. ScanInv' /\ MemoInv'
    BY <1>1, <2>1 DEF ScanInv, MemoInv
  <2>8. QED
    BY <1>4, <2>6, <2>7 DEF TranscriptInv
<1>6. CASE ~(mtime < clock - Week) /\ memo.key = <<mtime, Len(lines)>>
  <2>1. Transcripts!Tallied(memo.value, clock, Len(lines)) /\ UNCHANGED <<memo, scan>>
    BY <1>6 DEF Transcripts!PollStats
  <2>2. memo.value = Made(agent, SubSeq(lines, 1, n))
    <3>1. memo # Transcripts!NoMemo
      BY <1>6 DEF Transcripts!NoMemo
    <3>2. MadeOf(agent, lines, memo.key[2], memo.value) /\ memo.key[2] = n
      BY <1>3, <1>6, <3>1 DEF TranscriptInv, MemoInv
    <3>3. \A i \in n .. Len(lines) : i = n
      BY <1>3
    <3>4. QED
      BY <3>2, <3>3 DEF MadeOf
  <2>3. TallyInv'
    <3>1. FileInv
      BY DEF TranscriptInv
    <3>2. clock - clock < Span - Window
      BY <1>2
    <3>3. clock \in Int /\ n <= Len(lines) /\ n <= n
      BY <1>2, <1>3
    <3>4. QED
      BY <1>1, <1>3, <2>1, <2>2, <3>1, <3>2, <3>3, TallyIsTrue
  <2>4. ScanInv' /\ MemoInv'
    BY <1>1, <2>1 DEF TranscriptInv, ScanInv, MemoInv
  <2>5. QED
    BY <1>4, <2>3, <2>4 DEF TranscriptInv
<1>7. CASE ~(mtime < clock - Week) /\ ~(memo.key = <<mtime, Len(lines)>>)
  <2>1. /\ scan' = [phase |-> "statted", key |-> <<mtime, Len(lines)>>, read |-> <<>>, now |-> clock]
        /\ UNCHANGED <<memo, tally>>
    BY <1>7 DEF Transcripts!PollStats
  <2>2. scan'.phase = "statted" /\ scan'.now = clock /\ scan'.key[2] = n
    BY <1>3, <2>1
  <2>3. clock - clock < Span - Window
    BY <1>2
  <2>4. ScanInv'
    BY <1>1, <1>2, <1>3, <2>2, <2>3 DEF ScanInv
  <2>5. MemoInv' /\ TallyInv'
    BY <1>1, <2>1 DEF TranscriptInv, MemoInv, TallyInv
  <2>6. QED
    BY <1>4, <2>4, <2>5 DEF TranscriptInv
<1>8. QED
  BY <1>5, <1>6, <1>7

LEMMA ReadKeepsFigures ==
    ASSUME TranscriptTypes, TranscriptInv, Transcripts!PollReads
    PROVE  TranscriptInv'
<1>1. /\ UNCHANGED <<agent, clock, lines, mtime, memo, tally>> /\ scan.phase = "statted"
      /\ scan' = [scan EXCEPT !.phase = "read", !.read = lines]
  BY DEF Transcripts!PollReads
<1>2. scan'.phase = "read" /\ scan'.key = scan.key /\ scan'.now = scan.now /\ scan'.read = lines
  BY <1>1 DEF TranscriptTypes
<1>3. scan.key[2] \in Nat /\ scan.key[2] <= Len(lines) /\ scan.now \in Nat /\ clock - scan.now < Span - Window
  BY <1>1 DEF TranscriptInv, ScanInv
<1>4. ReadOf(lines, scan.key[2], lines)
  <2>1. SubSeq(lines, 1, Len(lines)) = lines /\ Len(lines) \in Nat
    BY WholeFile DEF TranscriptTypes
  <2>2. Len(lines) \in scan.key[2] .. Len(lines)
    BY <1>3, <2>1
  <2>3. QED
    BY <2>1, <2>2 DEF ReadOf
<1>5. ScanInv'
  BY <1>1, <1>2, <1>3, <1>4 DEF ScanInv
<1>6. FileInv' /\ MemoInv' /\ TallyInv'
  BY <1>1 DEF TranscriptInv, FileInv, MemoInv, TallyInv
<1>7. QED
  BY <1>5, <1>6 DEF TranscriptInv

LEMMA StoreKeepsFigures ==
    ASSUME TranscriptTypes, TranscriptInv, Transcripts!PollStores
    PROVE  TranscriptInv'
<1>1. /\ UNCHANGED <<agent, clock, lines, mtime>> /\ scan.phase = "read" /\ scan' = Transcripts!NoScan
      /\ memo' = Transcripts!Entry(scan.key, Transcripts!Parse(scan.read))
      /\ Transcripts!Tallied(memo'.value, scan.now, scan.key[2])
  BY DEF Transcripts!PollStores
<1>2. PICK k \in Nat : k = scan.key[2] /\ k <= Len(lines) /\ ReadOf(lines, k, scan.read)
  BY <1>1 DEF TranscriptInv, ScanInv
<1>3. scan.now \in Nat /\ clock - scan.now < Span - Window
  BY <1>1 DEF TranscriptInv, ScanInv
<1>4. PICK n \in k .. Len(lines) : scan.read = SubSeq(lines, 1, n)
  BY <1>2 DEF ReadOf
<1>5. n \in Nat /\ k <= n /\ n <= Len(lines) /\ scan.now \in Int
  BY <1>2, <1>3, <1>4 DEF TranscriptTypes
<1>6. PICK v : v = Made(agent, SubSeq(lines, 1, n))
  OBVIOUS
<1>7. memo'.key = scan.key /\ memo'.value = v
  BY <1>1, <1>4, <1>6, ParseIsMade DEF Transcripts!Entry
<1>8. TallyInv'
  <2>1. Transcripts!Tallied(v, scan.now, k) /\ FileInv
    BY <1>1, <1>2, <1>7 DEF TranscriptInv
  <2>2. QED
    BY <1>1, <1>3, <1>5, <1>6, <2>1, TallyIsTrue
<1>9. MadeOf(agent, lines, k, v)
  BY <1>4, <1>6 DEF MadeOf
<1>10. MemoInv'
  BY <1>1, <1>2, <1>7, <1>9 DEF MemoInv
<1>11. FileInv' /\ ScanInv'
  BY <1>1 DEF TranscriptInv, FileInv, ScanInv, Transcripts!NoScan
<1>12. QED
  BY <1>8, <1>10, <1>11 DEF TranscriptInv

LEMMA TranscriptsKeep ==
    ASSUME TranscriptTypes, TranscriptInv, [Transcripts!Next]_transcriptVars
    PROVE  TranscriptInv'
<1>1. CASE UNCHANGED transcriptVars
  BY <1>1 DEF transcriptVars, TranscriptInv, FileInv, ScanInv, MemoInv, TallyInv
<1>2. QED
  BY <1>1, TickKeepsFigures, LineKeepsFigures, StatKeepsFigures, ReadKeepsFigures, StoreKeepsFigures
     DEF Transcripts!Next

TranscriptsHold == part = "transcripts" => TranscriptInv

LEMMA TranscriptsAlways == Spec => []TranscriptsHold
<1>1. Init => TranscriptsHold
  BY TranscriptsBegin DEF Init, TranscriptsHold
<1>2. TypesHold /\ TranscriptsHold /\ [Next]_trayVars => TranscriptsHold'
  <2> SUFFICES ASSUME TypesHold, TranscriptsHold, [Next]_trayVars, part' = "transcripts"
               PROVE  TranscriptInv'
    BY DEF TranscriptsHold
  <2>1. part = "transcripts" /\ [Transcripts!Next]_transcriptVars
    BY DEF Next, IconSteps, PanelSteps, DialogSteps, JobSteps, TranscriptSteps, SignInSteps,
           CreditSteps, UsageSteps, NotifySteps, Rest, trayVars, transcriptVars
  <2>2. QED
    BY <2>1, TranscriptsKeep DEF TypesHold, TranscriptsHold
<1>3. QED
  BY <1>1, <1>2, TypesAlways, PTL DEF Spec

\* However an agent's writing falls between a poll's stat and its read, and however long a
\* parse is kept, the figure is what the code counts of the file as it stood at some moment
\* of the poll: every token of the window once; for Codex too little after a total that went
\* back, the whole total where the largest tail does not reach before the window
\* (_parse_transcript, _scan_tail, FileMemo.get and _window_totals): for any messages,
\* tokens, windows and tails.
THEOREM FiguresAreCounted == Spec => []EstimateIsCurrent
<1>1. TypesHold /\ TranscriptsHold => EstimateIsCurrent
  BY EstimateIsTrue DEF TypesHold, TranscriptsHold, EstimateIsCurrent
<1>2. QED
  BY <1>1, TypesAlways, TranscriptsAlways, PTL

\* The usage shown is honest in all four respects.
THEOREM UsageIsAlwaysHonest == Spec => UsageIsHonest
BY FiguresAreCounted, RestartsForgetNothing, CreditsAreNotPromised, NoFalseAlarm, PTL DEF UsageIsHonest
================================================================================
