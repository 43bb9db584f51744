------------------------------- MODULE TrayJobs --------------------------------
(* What the tray does off its GUI thread (tintaview/ui/workers.py and             *)
(* TrayApp._refresh_lighting): workers guarded by a lock that a second start      *)
(* finds taken, answers that come back as queued signals, modal questions whose   *)
(* event loop is nested, and a rebuild of the lighting engine after Settings.     *)
EXTENDS Integers, Sequences, FiniteSets

CONSTANTS
    Modes, Palettes,    \* engine.mode and [colors] values picked in Settings
    MaxRuns,            \* bound on the runs a worker starts
    MaxQuestions        \* bound on "Install it?" boxes open at once

VARIABLES
    threads,        \* worker threads, [run number -> its worker, step and saved stdout]
    held,           \* the workers whose _inflight lock is taken
    runs,           \* threads started so far
    stdout,         \* whose sys.stdout is: the process's own, or a run's buffer
    offers,         \* signals of a release found by hand, queued for the GUI thread
    questions,      \* "Install it?" boxes on screen
    settings,       \* the live config's engine mode and palette
    rebuild,        \* the tv-tray-engine thread
    lights,         \* the controller's engine and what it painted last
    dropped         \* history: an OK found the rebuild lock taken

jobVars == <<threads, held, runs, stdout, offers, questions, settings, rebuild, lights, dropped>>

\* Assumed in Tray.tla.
JobsAssumption == MaxRuns \in Nat /\ MaxQuestions \in Nat /\ Modes # {} /\ Palettes # {}

Own == 0
None == "none"
Lights == [mode |-> settings.mode, palette |-> settings.palette]

Init ==
    /\ threads = [n \in {} |-> None] /\ held = {} /\ runs = 0 /\ stdout = Own
    /\ offers = 0 /\ questions = 0
    /\ settings \in [mode : Modes, palette : Palettes]
    /\ rebuild = "idle" /\ lights = Lights /\ dropped = FALSE

lighting == <<settings, rebuild, lights, dropped>>

--------------------------------------------------------------------------------
(* _GuardedWorker.                                                                *)

Thread(worker, job) == [worker |-> worker, job |-> job, step |-> "starting", saved |-> Own]
\* Mutant: every click on the menu starts a thread.
FreeAlways(worker) == runs < MaxRuns

Free(worker) == worker \notin held /\ runs < MaxRuns

\* _start: a daemon thread, unless the worker's lock is taken.
Start(worker, job) ==
    IF ~Free(worker) THEN UNCHANGED <<threads, held, runs>>
    ELSE /\ held' = held \cup {worker} /\ runs' = runs + 1
         /\ threads' = [n \in DOMAIN threads \cup {runs + 1} |->
                           IF n = runs + 1 THEN Thread(worker, job) ELSE threads[n]]

\* The thread's body begins; doctor's swaps sys.stdout for its buffer.
Begins(n) ==
    /\ threads[n].step = "starting"
    /\ threads' = [threads EXCEPT ![n].step = "working", ![n].saved = stdout]
    /\ stdout' = IF threads[n].job = "doctor" THEN n ELSE stdout
    /\ UNCHANGED <<held, runs, offers, questions, lighting>>

\* It ends by putting stdout back and emitting, and only then is the lock released.  The
\* one answer that leads to more work is a check's by hand that found a newer release.
Emits(n) ==
    /\ threads[n].step = "working"
    /\ threads' = [threads EXCEPT ![n].step = "leaving"]
    /\ stdout' = IF threads[n].job = "doctor" THEN threads[n].saved ELSE stdout
    /\ \/ UNCHANGED offers
       \/ threads[n].job = "check" /\ offers' = offers + 1
    /\ UNCHANGED <<held, runs, questions, lighting>>
Releases(n) ==
    /\ threads[n].step = "leaving"
    /\ held' = held \ {threads[n].worker}
    /\ threads' = [m \in DOMAIN threads \ {n} |-> threads[m]]
    /\ UNCHANGED <<runs, stdout, offers, questions, lighting>>

WorkerStep == \E n \in DOMAIN threads : Begins(n) \/ Emits(n) \/ Releases(n)

--------------------------------------------------------------------------------
(* The GUI thread.                                                                *)

\* TrayApp.__init__ starts the two silent checks, once.
Launch ==
    /\ runs = 0
    /\ \E worker \in {"startup", "hooks"} : Start(worker, worker)
    /\ UNCHANGED <<stdout, offers, questions, lighting>>

\* _run_diagnostics and _check_updates.
RunDiagnostics ==
    /\ Start("doctor", "doctor")
    /\ UNCHANGED <<stdout, offers, questions, lighting>>
CheckUpdates ==
    /\ Start("update", "check")
    /\ UNCHANGED <<stdout, offers, questions, lighting>>

\* _on_manual_check: a queued answer puts up a question, whose event loop is nested, so
\* the menu works under it and a second check may put up another.
Deliver ==
    /\ offers > 0 /\ offers' = offers - 1
    /\ questions < MaxQuestions /\ questions' = questions + 1
    /\ UNCHANGED <<threads, held, runs, stdout, lighting>>

\* Answered: a yes installs, unless a check or an install is under way.
AnswerQuestion ==
    /\ questions > 0 /\ questions' = questions - 1
    /\ Start("update", "install") \/ UNCHANGED <<threads, held, runs>>
    /\ UNCHANGED <<stdout, offers, lighting>>

\* _apply_settings, then _refresh_lighting: a rebuild already running makes this OK's own
\* one a no-op.
ApplySettings ==
    /\ \E s \in [mode : Modes, palette : Palettes] :
          /\ s # settings /\ settings' = s
          /\ IF rebuild = "idle"
             THEN /\ rebuild' = IF s.mode # settings.mode THEN "resetting" ELSE "applying"
                  /\ UNCHANGED dropped
             ELSE dropped' = TRUE /\ UNCHANGED rebuild
    /\ UNCHANGED <<threads, held, runs, stdout, offers, questions, lights>>

\* The rebuild thread: reset_engine() drops the engine, apply_status() has the applier
\* make the one configured by then and paint; the lock is released whatever happened.
Resets ==
    /\ rebuild = "resetting" /\ rebuild' = "applying"
    /\ lights' = [lights EXCEPT !.mode = None]
    /\ UNCHANGED <<threads, held, runs, stdout, offers, questions, settings, dropped>>
Applies ==
    /\ rebuild = "applying" /\ rebuild' = "idle"
    /\ lights' = [mode |-> IF lights.mode = None THEN settings.mode ELSE lights.mode,
                  palette |-> settings.palette]
    /\ UNCHANGED <<threads, held, runs, stdout, offers, questions, settings, dropped>>

Next == \/ WorkerStep \/ Launch \/ RunDiagnostics \/ CheckUpdates \/ Deliver \/ AnswerQuestion
        \/ ApplySettings \/ Resets \/ Applies

\* Every body is bounded by its own timeouts; the vendor calls of a rebuild are the
\* engines' to bound.
Fairness == WF_jobVars(WorkerStep) /\ WF_jobVars(Resets \/ Applies)
Spec == Init /\ [][Next]_jobVars /\ Fairness

--------------------------------------------------------------------------------
TypeOK ==
    /\ DOMAIN threads \subseteq 1..MaxRuns /\ runs \in 0..MaxRuns
    /\ held \subseteq {"doctor", "startup", "hooks", "update"}
    /\ questions \in 0..MaxQuestions /\ rebuild \in {"idle", "resetting", "applying"}

\* No worker runs twice at once and no install runs beside a check, however many questions
\* are open; a lock is taken exactly while a thread is there to release it; and sys.stdout
\* is the process's own again when no diagnosis runs.
OneJobAtATime ==
    /\ \A m, n \in DOMAIN threads : threads[m].worker = threads[n].worker => m = n
    /\ held = {threads[n].worker : n \in DOMAIN threads}
    /\ (\A n \in DOMAIN threads : threads[n].job # "doctor") => stdout = Own

\* Once the lights have settled they show the palette and the engine of the last OK,
\* unless that OK found a rebuild under way and was dropped.
LightsFollowTheSettings == rebuild = "idle" /\ ~dropped => lights = Lights

\* No lock is held for good, so nothing in the menu goes dead until a restart.
JobsEnd == \A w \in {"doctor", "update"} : w \in held ~> w \notin held
================================================================================
