------------------------------ MODULE EngineSetup ------------------------------
(* Which lighting engine is used, as three parts of the program see it: the tray  *)
(* builds one (make_engine, tintaview/engines/factory.py), the wizard offers a    *)
(* choice and prepares it (tintaview/ui/wizard.py, install/components.py), the    *)
(* doctor explains it (tintaview/install/doctor.py).  Each of them asks the       *)
(* vendors' software anew, one probe after another, while the user starts, stops  *)
(* and installs it; each has its own rules for what the answers mean.  They meet  *)
(* in `mode`, what the configuration says, and in `machine`, what there is.       *)
(*                                                                                *)
(* The doctor never looks at SteelSeries, and judges a mode it has no list entry  *)
(* for like "auto": a forced "steelseries" (doctor.py:358, 384), and a name this  *)
(* version does not know, for which make_engine drives nothing.  The properties   *)
(* leave those two out.                                                           *)
EXTENDS Integers, Sequences, FiniteSets, Functions

CONSTANTS
    Order,          \* cfg.engine.order
    Machines,       \* the machines a run starts on
    MaxChanges      \* bound: what the user starts, stops or switches

VARIABLES
    machine,        \* the vendors' software as it is
    mode,           \* cfg.engine.mode
    asker,          \* who is asking, how far it got, and the probes' answers
    report,         \* what the doctor last reported
    told,           \* what the wizard last said of the chosen engine
    steady,         \* nothing changed since the asker began (wizard: since it prepared)
    changes

vars == <<machine, mode, asker, report, told, steady, changes>>

Engines == <<"chroma", "ghub", "steelseries", "openrgb", "none">>
Known   == Range(Engines)
Modes   == Known \cup {"auto"}
Checked == {"chroma", "ghub", "openrgb"}

Unexplained == [e \in Checked |-> "nothing"]
NoReport    == [use |-> "unknown", failed |-> {}, why |-> Unexplained]
Idle        == [who |-> "nobody", probes |-> <<>>, at |-> "idle"]

\* Software of one vendor: `dll` is the SDK's library as installed, or as configured by
\* path; `tasks` tells whether tasklist works; `apps` is what settings.db shows of G HUB's
\* Integrations; `server` is OpenRGB's: off, without a device that was asked for, or up.
MachineType ==
    [platform : {"windows", "macos", "linux"}, synapse : BOOLEAN, gg : BOOLEAN,
     dll : {"none", "installed", "configured"}, agent : BOOLEAN, tasks : BOOLEAN,
     dynamic : {"on", "off", "unset"}, apps : {"unreadable", "listed", "missing"},
     library : BOOLEAN, server : {"off", "empty", "up"}]

\* What the vendors ship for the platform; elsewhere the SDK's path may still be set.
Possible(m) ==
    /\ m.synapse \/ m.agent \/ m.dll = "installed" \/ m.tasks => m.platform = "windows"
    /\ m.gg => m.platform # "linux"

\* Assumed in Engines.tla.
OrderAssumption   == Order \in Seq(STRING)
MachineAssumption == Machines # {} /\ \A m \in Machines : m \in MachineType /\ Possible(m)
ChangesAssumption == MaxChanges \in Nat

\* No machine is looked at before Begin.
Init ==
    /\ machine \in Machines /\ machine = CHOOSE m \in Machines : TRUE
    /\ mode = "auto" /\ asker = [Idle EXCEPT !.who = "unborn"]
    /\ report = NoReport /\ told = "nothing" /\ steady = FALSE /\ changes = 0

\* A machine, and a configuration file that may be a newer version's.
Begin ==
    /\ asker.who = "unborn"
    /\ machine' \in Machines /\ mode' \in Modes \cup {"newer"}
    /\ asker' = Idle
    /\ UNCHANGED <<report, told, steady, changes>>

--------------------------------------------------------------------------------
(* The vendors' software, as the program asks it.                                 *)

\* The first of a sequence's elements that are in S.
FirstIn(s, S) ==
    s[CHOOSE i \in DOMAIN s : s[i] \in S /\ \A j \in DOMAIN s : s[j] \in S => i <= j]

\* tasklist: "unknown" off Windows or when it fails.
GHubRunning(m) ==
    IF m.platform # "windows" \/ ~m.tasks THEN "unknown" ELSE IF m.agent THEN "yes" ELSE "no"

\* What inspect() measures as wrong, and the order blockers() names it in.
Blocking == <<"dll", "stopped", "dynamic", "unlisted">>
Blockers(m) ==
    {b \in Range(Blocking) : CASE b = "dll"      -> m.dll = "none"
                               [] b = "stopped"  -> GHubRunning(m) = "no"
                               [] b = "dynamic"  -> m.platform = "windows" /\ m.dynamic = "on"
                               [] b = "unlisted" -> m.apps = "missing"}

\* A probe by a fresh engine object: no cooldown, no session, no control taken.
GHubAnswers(m)    == m.dll # "none" /\ GHubRunning(m) # "no"
OpenRGBAnswers(m) == m.library /\ m.server = "up"
Answering(m) ==
    {e \in Known : CASE e = "chroma"      -> m.synapse
                     [] e = "ghub"        -> GHubAnswers(m)
                     [] e = "steelseries" -> m.gg
                     [] e = "openrgb"     -> OpenRGBAnswers(m)
                     [] e = "none"        -> TRUE}

Supported(e, m) ==
    CASE e \in {"chroma", "ghub"} -> m.platform = "windows"
      [] e = "steelseries"        -> m.platform # "linux"
      [] OTHER                    -> TRUE

\* The first name of `order` that is known and answers, else the null engine.
FirstOf(order, answers) ==
    IF Range(order) \cap Known \cap answers = {} THEN "none"
    ELSE FirstIn(order, Known \cap answers)

\* make_engine: a known forced mode whether it answers or not.
Picked(wanted, answers) ==
    IF wanted # "auto" THEN IF wanted \in Known THEN wanted ELSE "none"
    ELSE FirstOf(Order, answers)

\* The user's software comes and goes: started, stopped, crashed, switched, and listed by
\* G HUB once an agent's session was painted.
MachineChanges ==
    /\ asker.who # "unborn" /\ changes < MaxChanges
    /\ \E m \in {[machine EXCEPT !.synapse = ~@], [machine EXCEPT !.gg = ~@],
                 [machine EXCEPT !.agent = ~@], [machine EXCEPT !.apps = "listed"],
                 [machine EXCEPT !.dynamic = IF @ = "on" THEN "off" ELSE "on"],
                 [machine EXCEPT !.server = IF @ = "off" THEN "up" ELSE "off"]} :
          m # machine /\ Possible(m) /\ machine' = m
    /\ steady' = FALSE /\ changes' = changes + 1
    /\ UNCHANGED <<mode, asker, report, told>>

--------------------------------------------------------------------------------
(* available_engines, for the wizard and for the doctor: one probe after another. *)

Ask(who) ==
    /\ asker.who = "nobody"
    /\ asker' = [who |-> who, probes |-> <<>>, at |-> "probing"]
    /\ report' = NoReport /\ told' = "nothing" /\ steady' = TRUE
    /\ UNCHANGED <<machine, mode, changes>>

Probe ==
    /\ asker.at = "probing" /\ Len(asker.probes) < Len(Engines)
    /\ asker' = [asker EXCEPT !.probes =
                    Append(@, Engines[Len(@) + 1] \in Answering(machine))]
    /\ UNCHANGED <<machine, mode, report, told, steady, changes>>

Probed   == asker.at = "probing" /\ Len(asker.probes) = Len(Engines)
Answered == {Engines[i] : i \in {j \in DOMAIN asker.probes : asker.probes[j]}}

--------------------------------------------------------------------------------
(* The doctor.                                                                    *)

\* _engine_unavailable_reason, from what is measured now.
Reason(e) ==
    IF e = "openrgb" THEN IF machine.library THEN "server" ELSE "library"
    ELSE IF ~Supported(e, machine) THEN "platform"
    ELSE IF e = "chroma" THEN "synapse"
    ELSE IF Blockers(machine) = {} THEN "unusable"
    ELSE FirstIn(Blocking, Blockers(machine))

\* Mutant: the doctor takes whatever answers, whatever the configuration forces.
InUseIfItAnswers(answers) ==
    IF mode \in answers THEN mode ELSE FirstOf(Order, answers)

\* The engine _check_engine names as in use.
InUse(answers) ==
    IF mode \in Checked \cup {"none"} THEN mode ELSE FirstOf(Order, answers)

\* Only the configured engine's silence is a failure; the others' are remarks.
DoctorReports ==
    /\ asker.who = "doctor" /\ Probed
    /\ report' = [use    |-> InUse(Answered),
                  failed |-> {e \in Checked \ Answered : e = mode},
                  why    |-> [e \in Checked |-> IF e \in Answered THEN "nothing"
                                                ELSE Reason(e)]]
    /\ asker' = Idle
    /\ UNCHANGED <<machine, mode, told, steady, changes>>

--------------------------------------------------------------------------------
(* The wizard's lighting step.                                                    *)

Saves(choice, said) ==
    /\ mode' = choice /\ told' = said /\ asker' = Idle
    /\ UNCHANGED <<report, changes>>

\* `--yes` takes the configured mode, or auto if this version does not know it; G HUB and
\* OpenRGB are prepared before the choice is kept.
WizardChooses ==
    /\ asker.who = "wizard" /\ Probed
    /\ \E choice \in Modes :
          IF choice \in {"ghub", "openrgb"}
            THEN /\ asker' = [asker EXCEPT !.at = choice]
                 /\ UNCHANGED <<mode, report, told, steady, changes>>
            ELSE Saves(choice, IF choice \in {"auto", "none"} THEN "nothing"
                               ELSE IF ~Supported(choice, machine) THEN "unsupported"
                               ELSE IF choice \notin Answered THEN "silent"
                               ELSE "nothing")
                 /\ UNCHANGED steady
    /\ UNCHANGED machine

\* _ensure_ghub_ready: without the library winget may be asked to install G HUB, which is
\* not verified; else what inspect() finds, and "you're set" when that is nothing.
PrepareGHub ==
    /\ asker.at = "ghub"
    /\ steady' = TRUE
    /\ IF machine.dll = "none"
         THEN /\ \E installed \in BOOLEAN :
                    /\ installed => machine.platform = "windows"
                    /\ machine' = IF installed
                                    THEN [machine EXCEPT !.dll = "installed"] ELSE machine
              /\ Saves("ghub", "again")
         ELSE /\ Saves("ghub", IF Blockers(machine) = {} THEN "set" ELSE "again")
              /\ UNCHANGED machine

\* _ensure_openrgb_ready: pip, when the user wants it and it works ...
PrepareLibrary ==
    /\ asker.at = "openrgb"
    /\ \E installed \in BOOLEAN : machine' = [machine EXCEPT !.library = @ \/ installed]
    /\ asker' = [asker EXCEPT !.at = "reprobe"]
    /\ steady' = TRUE
    /\ UNCHANGED <<mode, report, told, changes>>

\* ... and a probe of its own.
PrepareOpenRGB ==
    /\ asker.at = "reprobe"
    /\ Saves("openrgb", IF OpenRGBAnswers(machine) THEN "set" ELSE "again")
    /\ steady' = TRUE
    /\ UNCHANGED machine

Next ==
    \/ Begin \/ MachineChanges \/ Ask("wizard") \/ Ask("doctor") \/ Probe
    \/ DoctorReports \/ WizardChooses \/ PrepareGHub \/ PrepareLibrary \/ PrepareOpenRGB

Spec == Init /\ [][Next]_vars

--------------------------------------------------------------------------------
TypeOK ==
    /\ machine \in MachineType /\ Possible(machine)
    /\ mode \in Modes \cup {"newer"}
    /\ asker.who \in {"unborn", "nobody", "wizard", "doctor"}
    /\ asker.at \in {"idle", "probing", "ghub", "openrgb", "reprobe"}
    /\ Len(asker.probes) <= Len(Engines)
    /\ report.use \in Known \cup {"unknown"} /\ report.failed \subseteq Checked
    /\ told \in {"nothing", "unsupported", "silent", "again", "set"}
    /\ steady \in BOOLEAN /\ changes \in 0..MaxChanges

\* What a reason claims is so.  "server" is also said of a server without a device that
\* was asked for, so it is only read as: nothing usable answers there.
True(why, m) ==
    CASE why = "platform" -> m.platform # "windows"
      [] why = "synapse"  -> ~m.synapse
      [] why = "dll"      -> m.dll = "none"
      [] why = "stopped"  -> ~m.agent
      [] why = "library"  -> ~m.library
      [] why = "server"   -> m.server # "up"
      [] OTHER            -> FALSE

\* While nothing changed since the doctor began to ask: the engine it says is in use is
\* the one a tray started now would build, it reports a failure exactly when that engine
\* is forced and does not answer, and every reason it gives is so.  The rules are written
\* three times, in make_engine, in each probe() and in the doctor.
DoctorSeesWhatTheTrayDoes ==
    report # NoReport /\ steady /\ mode \in Modes \ {"steelseries"} =>
        /\ report.use = Picked(mode, Answering(machine))
        /\ report.failed = {e \in Checked : mode = e /\ e \notin Answering(machine)}
        /\ \A e \in Checked : IF e \in Answering(machine) THEN report.why[e] = "nothing"
                              ELSE True(report.why[e], machine)

\* "You're set" is only said of the engine that is kept, and only when a tray started now
\* would find it answering, although the scan at the start of the step is older than the
\* user's last click and G HUB is judged by what is measured around it, not by its probe.
SetMeansAnswering ==
    told = "set" /\ steady => mode \in {"ghub", "openrgb"} /\ mode \in Answering(machine)
================================================================================
