------------------------------- MODULE Instances --------------------------------
(* Which TintaView runs, and with which settings: a tray or daemon reads the config *)
(* and then takes the port, or gives way to whoever has it; the wizard's answers    *)
(* reach a running one by a restart; autostart, and systemd after a crash, start    *)
(* others (tintaview/cli.py, core/server.py, install/restart.py, install/           *)
(* autostart.py, ui/wizard.py's last steps).                                        *)
EXTENDS Integers, FiniteSets

CONSTANTS
    Pids,          \* process ids, none of them used twice
    MaxEvents      \* bound: what happens besides the wizard

VARIABLES
    platform,
    entry,         \* autostart: the .desktop entry, Run key or plist; the unit file, and
                   \* whether it is enabled
    procs,         \* the processes
    port,          \* who listens on it: a process, the wizard's live check, or nobody
    stored,         \* config.toml, as a version
    wizard,        \* where the wizard is
    due,           \* systemd restarts the unit
    others,        \* counter
    early,         \* history: processes that had read the config when the wizard saved it
                   \* and did not listen yet
    excuse         \* history: the new tray gave way to the live check or to a tray that
                   \* was quitting, or somebody ended one

instanceVars == <<platform, entry, procs, port, stored, wizard, due, others, early, excuse>>

Nobody == 0
Check  == -1       \* the wizard's own StatusServer
Unborn == [at |-> "unborn", config |-> 0, by |-> "user"]
Idle   == [phase |-> "idle", found |-> Nobody, launched |-> Nobody, spared |-> Nobody]

\* Assumed in Install.tla.
InstanceAssumption == IsFiniteSet(Pids) /\ Pids \subseteq Nat \ {0} /\ MaxEvents \in Nat

Live   == {p \in Pids : procs[p].at \notin {"unborn", "gone"}}
\* A quitting tray still answers, and a releasing one still has the lights.
Answers(p) == p \in Pids /\ procs[p].at \in {"serving", "quitting"}
Lit        == {p \in Pids : procs[p].at \in {"serving", "quitting", "releasing"}}

Init ==
    /\ platform \in {"windows", "linux", "macos"}
    /\ \E on \in BOOLEAN :
          entry = [login |-> on, service |-> on /\ platform = "linux", enabled |-> on /\ platform = "linux"]
    /\ procs = [p \in Pids |-> Unborn] /\ port = Nobody
    /\ stored = 1 /\ wizard = Idle /\ due = FALSE /\ others = 0
    /\ early = {} /\ excuse = FALSE

--------------------------------------------------------------------------------
(* A process.                                                                      *)

\* _cmd_run up to the config, which is read once.
New(by) == [at |-> "loaded", config |-> stored, by |-> by]
Started(p, by) == [procs EXCEPT ![p] = New(by)]
\* Pids are taken in order.
NextPid(p) == procs[p].at = "unborn" /\ \A q \in Pids : q < p => procs[q].at # "unborn"

\* StatusServer.start: the port is free, and nobody can take it after.
Binds(p) ==
    /\ procs[p].at = "loaded" /\ port = Nobody
    /\ port' = p /\ procs' = [procs EXCEPT ![p].at = "serving"]
    /\ UNCHANGED excuse
\* _defer_to_running_instance: the other one is asked to show its panel, and this one
\* ends, without a failure.
Defers(p) ==
    /\ procs[p].at = "loaded" /\ port # Nobody
    /\ procs' = [procs EXCEPT ![p].at = "gone"] /\ UNCHANGED port
    /\ excuse' = (excuse \/ port = Check \/ (port \in Pids /\ procs[port].at = "quitting"))

\* /quit, the menu or SIGTERM reached the event loop; StatusServer.stop closes the
\* listener first and gives the lights back last, and then the process ends.
Releases(p) ==
    /\ procs[p].at = "quitting" /\ procs' = [procs EXCEPT ![p].at = "releasing"]
    /\ port' = Nobody /\ UNCHANGED excuse
Exits(p) ==
    /\ procs[p].at = "releasing" /\ procs' = [procs EXCEPT ![p].at = "gone"]
    /\ UNCHANGED <<port, excuse>>

ProcessStep ==
    /\ \E p \in Pids : Binds(p) \/ Defers(p) \/ Releases(p) \/ Exits(p)
    /\ UNCHANGED <<platform, entry, stored, wizard, due, others, early>>

\* Gone at once: the port is free, the lights are not restored, and systemd restarts
\* (Restart=on-failure) what it had started.
Dies(p, failing) ==
    /\ procs' = [procs EXCEPT ![p].at = "gone"]
    /\ port' = IF port = p THEN Nobody ELSE port
    /\ due' = (due \/ (failing /\ procs[p].by = "unit"))
UnitRestarts ==
    /\ due /\ due' = FALSE
    /\ \E p \in Pids : NextPid(p) /\ procs' = Started(p, "unit")
    /\ UNCHANGED <<platform, entry, port, stored, wizard, others, early, excuse>>

--------------------------------------------------------------------------------
(* Autostart.                                                                      *)

Linux == platform = "linux"
Units == {p \in Live : procs[p].by = "unit" /\ procs[p].at # "releasing"}
\* systemctl stop and launchctl unload: SIGTERM, which a process that does not serve yet
\* has no handler for.
Stopped == [p \in Pids |->
    IF p \notin Units THEN procs[p]
    ELSE [procs[p] EXCEPT !.at = IF @ = "loaded" THEN "gone" ELSE "quitting"]]

\* enable: the login entry, and on Linux the unit as well, either of which may fail to be
\* written; systemctl (enable --now) starts it unless it runs, launchctl stops it and
\* starts it again.
Enable(wrote, unit, works) ==
    /\ wrote \/ (Linux /\ unit)
    /\ entry' = [login |-> entry.login \/ wrote, service |-> entry.service \/ (Linux /\ unit),
                 enabled |-> entry.enabled \/ (Linux /\ unit /\ works)]
    /\ IF platform = "macos"
          THEN \/ procs' \in {procs, Stopped}
               \/ works /\ \E p \in Pids : NextPid(p) /\ procs' = [Stopped EXCEPT ![p] = New("unit")]
          ELSE IF Linux /\ unit /\ works /\ Units = {}
          THEN \E p \in Pids : NextPid(p) /\ procs' = Started(p, "unit")
          ELSE UNCHANGED procs

\* disable: `disable --now` stops the unit when its file is there.
Disable ==
    /\ entry' = [login |-> FALSE, service |-> FALSE, enabled |-> FALSE]
    /\ procs' = IF (Linux /\ entry.service) \/ (platform = "macos" /\ entry.login) THEN Stopped ELSE procs

\* _step_autostart, early in the wizard: its answers are not saved yet.
Autostart ==
    /\ wizard.phase = "idle" /\ wizard' = [Idle EXCEPT !.phase = "asked"]
    /\ \/ \E wrote, unit, works \in BOOLEAN : Enable(wrote, unit, works)
       \/ Disable
       \/ UNCHANGED <<entry, procs>>                \* refused, or it failed
    /\ UNCHANGED <<platform, port, stored, due, others, early, excuse>>

--------------------------------------------------------------------------------
(* _step_verify: save, restart_if_running, live check.                             *)

Save ==
    /\ wizard.phase = "asked" /\ wizard' = [wizard EXCEPT !.phase = "probe"]
    /\ stored' = stored + 1 /\ early' = {p \in Pids : procs[p].at = "loaded"}
    /\ UNCHANGED <<platform, entry, procs, port, due, others, excuse>>

Goes(phase) == wizard' = [wizard EXCEPT !.phase = phase]
Gone == procs[wizard.found].at = "gone"

\* The wizard leaves a process running: it goes on to the check or the launch without it.
Spares(p, phase) == wizard' = [wizard EXCEPT !.phase = phase, !.spared = p]
\* _windows_is_alive calls a process gone that may not be looked at (os.kill with signal 0
\* fails with ESRCH or EPERM on POSIX, and _is_alive knows them).
TakenForGone == platform = "windows" /\ ~Gone /\ Spares(wizard.found, "launch")

\* running_pid: of whoever answers on the port; of nobody, if the answer is late or has no
\* pid (the field is newer than /state).
Probe ==
    /\ wizard.phase = "probe"
    /\ IF Answers(port)
          THEN wizard' = [wizard EXCEPT !.phase = "quit", !.found = port] \/ Spares(port, "check")
          ELSE Goes("check")
    /\ UNCHANGED <<procs, port, due, excuse>>

\* _request_quit asks the port, not the process; a tray whose event loop is not there
\* yet, or hangs, says yes and does nothing, and the answer may be late.
RequestQuit ==
    /\ wizard.phase = "quit"
    /\ \/ Gone /\ Goes("launch") /\ UNCHANGED procs
       \/ TakenForGone /\ UNCHANGED procs
       \/ /\ ~Gone /\ Answers(port) /\ (Goes("wait") \/ Goes("term"))
          /\ procs' \in {procs, [procs EXCEPT ![port].at = "quitting"]}
       \/ ~Gone /\ ~Answers(port) /\ Goes("term") /\ UNCHANGED procs
    /\ UNCHANGED <<port, due, excuse>>

\* Mutant: the tray is gone when it stops answering.
PortReleased(phase, next) ==
    /\ wizard.phase = phase /\ Goes(IF port # wizard.found THEN "launch" ELSE next)
    /\ UNCHANGED <<procs, port, due, excuse>>
\* _wait_for_exit: until the process is gone, or for so long.
WaitForExit(phase, next) ==
    /\ wizard.phase = phase /\ (Goes(IF Gone THEN "launch" ELSE next) \/ TakenForGone)
    /\ UNCHANGED <<procs, port, due, excuse>>

\* os.kill: a handler on POSIX, TerminateProcess on Windows; it may be denied, and on
\* Windows it fails alike for a process that is gone.
Term ==
    /\ wizard.phase = "term"
    /\ \/ (platform = "windows" \/ ~Gone) /\ Spares(wizard.found, "check") /\ UNCHANGED <<procs, port, due>>
       \/ /\ Goes(IF Gone THEN "launch" ELSE "grace")
          /\ IF Gone THEN UNCHANGED <<procs, port, due>>
             ELSE IF platform = "windows" THEN Dies(wizard.found, FALSE)
             ELSE /\ procs' \in {procs, [procs EXCEPT ![wizard.found].at =
                                            IF @ = "serving" THEN "quitting" ELSE @]}
                  /\ UNCHANGED <<port, due>>
    /\ UNCHANGED excuse
\* The last os.kill counts as done when it is denied.
Kill ==
    /\ wizard.phase = "kill"
    /\ \/ Gone /\ Goes("launch") /\ UNCHANGED <<procs, port, due>>
       \/ ~Gone /\ Goes("launch") /\ Dies(wizard.found, TRUE)
       \/ ~Gone /\ Spares(wizard.found, "launch") /\ UNCHANGED <<procs, port, due>>
    /\ UNCHANGED excuse

\* _launch: Popen, or an OSError.
Launch ==
    /\ wizard.phase = "launch"
    /\ \/ \E p \in Pids :
             /\ NextPid(p) /\ procs' = Started(p, "user")
             /\ wizard' = [wizard EXCEPT !.phase = "check", !.launched = p] /\ UNCHANGED excuse
       \/ Goes("check") /\ excuse' = TRUE /\ UNCHANGED procs
    /\ UNCHANGED <<port, due>>

\* The live check: StatusServer.start, which takes the port when it is free, even from
\* the tray that was just launched, and otherwise waits for events it will not get.
LiveCheck ==
    /\ wizard.phase = "check"
    /\ \/ Goes("end") /\ UNCHANGED port
       \/ Goes("checking") /\ port' = IF port = Nobody THEN Check ELSE port
    /\ UNCHANGED <<procs, due, excuse>>
CheckEnds ==
    /\ wizard.phase = "checking" /\ Goes("end")
    /\ port' = IF port = Check THEN Nobody ELSE port
    /\ UNCHANGED <<procs, due, excuse>>

Restart ==
    /\ \/ Probe \/ RequestQuit \/ WaitForExit("wait", "term") \/ Term
       \/ WaitForExit("grace", "kill") \/ Kill \/ Launch \/ LiveCheck \/ CheckEnds
    /\ UNCHANGED <<platform, entry, stored, others, early>>

--------------------------------------------------------------------------------
(* Everybody else.                                                                 *)

Event ==
    /\ others < MaxEvents /\ others' = others + 1
    /\ UNCHANGED <<platform, entry, stored, wizard, early>>
UserLaunches ==
    /\ Event /\ \E p \in Pids : NextPid(p) /\ procs' = Started(p, "user")
    /\ UNCHANGED <<port, due, excuse>>
UserQuits ==
    /\ Event /\ \E p \in Pids : procs[p].at = "serving" /\ procs' = [procs EXCEPT ![p].at = "quitting"]
    /\ excuse' = TRUE /\ UNCHANGED <<port, due>>
Crashes ==
    /\ Event /\ excuse' = TRUE /\ \E p \in Live : Dies(p, TRUE)
\* What is registered starts with a session: the login entry, and the unit.
Registered == (IF ~entry.login THEN {} ELSE IF platform = "macos" THEN {"unit"} ELSE {"user"})
              \cup (IF entry.enabled THEN {"unit"} ELSE {})
Newcomers == {p \in Pids :
    /\ procs[p].at = "unborn"
    /\ Cardinality({q \in Pids : q < p /\ procs[q].at = "unborn"}) < Cardinality(Registered)}
\* A new session: everything ended, and what is registered starts, each for itself.
Session(starts) == [p \in Pids |->
    IF p \in DOMAIN starts THEN New(starts[p])
    ELSE IF p \in Live THEN [procs[p] EXCEPT !.at = "gone"] ELSE procs[p]]
LogsIn ==
    /\ wizard.phase \in {"idle", "end"} /\ Event
    /\ Cardinality(Newcomers) = Cardinality(Registered)
    /\ \E starts \in [Newcomers -> Registered] :
          /\ \A by \in Registered : \E p \in DOMAIN starts : starts[p] = by
          /\ procs' = Session(starts)
    /\ port' = Nobody /\ due' = FALSE /\ excuse' = TRUE

Next == \/ ProcessStep \/ UnitRestarts \/ Autostart \/ Save \/ Restart
        \/ UserLaunches \/ UserQuits \/ Crashes \/ LogsIn

--------------------------------------------------------------------------------
Restarted == wizard.phase \in {"check", "checking", "end"}

\* Once the wizard is past its restart, whoever serves has the settings it saved, except a
\* process that had read the config before and took the port after, and the one process
\* the wizard did not find behind the port, took for gone or was not allowed to end.
NewSettingsRun ==
    Restarted =>
        \A p \in Pids : procs[p].at = "serving" =>
            procs[p].config = stored \/ p \in early \/ p = wizard.spared

\* The restart takes no tray away: when nothing is starting any more, one serves, unless
\* somebody ended it, or it gave way to the live check or to a tray that was quitting.
TrayComesBack ==
    Restarted /\ wizard.launched # Nobody /\ ~excuse /\ ~due
    /\ (\A p \in Live : procs[p].at = "serving") =>
        \E p \in Live : procs[p].at = "serving"

\* The tray that is launched meets none that still has the lights to restore: the
\* listener closes well before.  (One taken for gone, or that may not be killed, it meets.)
LightsAreHandedOver == wizard.launched \in Lit => wizard.found \notin Lit \/ wizard.spared = wizard.found
================================================================================
