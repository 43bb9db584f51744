--------------------------------- MODULE Setup ----------------------------------
(* Getting the hooks of every enabled agent in place, on this machine and, in a WSL *)
(* split, inside a distro: the wizard and `tintaview hooks install` write hooks,    *)
(* hook script and hook.env, the tray refreshes and checks them when it starts, and *)
(* `tintaview doctor` judges them (tintaview/ui/wizard.py, cli.py, install/wsl.py,  *)
(* hookscript.py, doctor.py).  What is inside a hook file is in HookFiles.tla.      *)
EXTENDS Integers, Sequences, FiniteSets

CONSTANTS
    Agents,        \* agents with hooks; "codex" is the one with a flag
    BothSides,     \* WINDOWS_SIDE_AGENTS
    CodexVersions, \* what `codex --version` may say: records of [here, distro]
    Ports,         \* server.port
    MaxEvents      \* bound: commands run, and changes from outside

VARIABLES
    split,         \* a Windows machine whose agents run in a WSL distro
    onWindows,     \* agents whose home exists on Windows
    remote,        \* the `tintaview` inside the distros: none, an older one, the same
    up,            \* the distros answer
    codex,         \* Codex's version on this machine and in the distros
    hooks,         \* each agent's hook status in each home
    flags,         \* the hooks flags that are on in Codex's config.toml in each home
    script,        \* the installed tv-hook there
    address,       \* the port in hook.env there, 0 if there is no hook.env
    saved,         \* config.toml: [agents] enabled, their homes, and server.port
    setup,         \* the command that runs
    events,        \* counter
    done,          \* history: the command that last ended with no complaint, if nothing
                   \* changed since
    failed,        \* history: a command ended early, or said that it failed
    refreshed      \* history: a tray has started since the last upgrade, and the last
                   \* write of a script

setupVars == <<split, onWindows, remote, up, codex, hooks, flags, script, address, saved,
               setup, events, done, failed, refreshed>>
places == <<codex, hooks, flags, script, address>>
counts == <<events, failed, refreshed>>
world  == <<split, onWindows, remote>>

\* wsl_distros lists the distros, and everything but the wizard looks in the first.
Distros == {"first", "other"}
Places  == {"here"} \cup Distros
Homes   == Places \cup {"elsewhere"}     \* "elsewhere": a home on this machine of the user's choice
Default == "default"                     \* no [agents.<name>] home
NeedsInstall == {"missing", "partial", "stale-path"}
DefaultPort == CHOOSE p \in Ports : TRUE
Fresh == [enabled |-> Agents, home |-> [a \in Agents |-> Default], port |-> DefaultPort]
Idle  == [phase |-> "idle", command |-> "wizard", config |-> Fresh, distro |-> "first",
          left |-> {}, writes |-> <<>>, gaps |-> FALSE]

\* Codex before its hooks, with a flag for them, and with hooks unless a flag is off.
Ages == {"unknown", "early", "gated", "modern"}

\* Assumed in Install.tla.
SetupAssumption ==
    /\ IsFiniteSet(Agents) /\ BothSides \subseteq Agents /\ Ports \subseteq Nat \ {0} /\ Ports # {}
    /\ CodexVersions \subseteq [here : Ages, distro : Ages] /\ "codex" \notin BothSides
    /\ MaxEvents \in Nat

--------------------------------------------------------------------------------
(* Where an agent's hooks are, and how they are.                                   *)

\* windows_side_keys, windows_side_applies.
WindowsKeys(agents) == agents \cap BothSides \cap onWindows
\* configured_adapter, check_adapter: the configured home, or where the check looks.
HomeOf(a) == IF saved.home[a] # Default THEN saved.home[a] ELSE IF split THEN "first" ELSE "here"
\* hook_sides: in a split also this machine, for an agent that is installed on it.
Sides(a) == {HomeOf(a)} \cup (IF split /\ a \in WindowsKeys({a}) THEN {"here"} ELSE {})

\* Mutant: one side with hooks is enough.
AnySide(a) ==
    IF \E s \in Sides(a) : hooks[a][s] = "installed" THEN "installed"
    ELSE IF \E s \in Sides(a) : hooks[a][s] = "unreadable" THEN "unreadable" ELSE "missing"

\* hook_status: what needs an install, on any side, comes first.
HookStatus(a) ==
    IF \E s \in Sides(a) : hooks[a][s] \in NeedsInstall THEN "missing"
    ELSE IF \E s \in Sides(a) : hooks[a][s] = "unreadable" THEN "unreadable" ELSE "installed"

\* hook_check, missing_hooks: what cannot be reached is unknown, not missing.
Reachable == ~split \/ up
Missing   == IF Reachable THEN {a \in saved.enabled : HookStatus(a) \in NeedsInstall} ELSE {}

\* codex_flag.plan: the flags a version asks for (whole files are in HookFiles.tla).
Flagged(version, on) ==
    CASE version = "unknown" -> {"modern"}
      [] version = "early" -> on
      [] version = "gated" -> on \cup {"legacy"}
      [] version = "modern" -> on \ {"legacy"}
VersionAt(s) == IF s \in Distros THEN codex.distro ELSE codex.here
\* _check_codex_flag looks in the configured home or else on this machine, and asks the
\* Codex of this machine for its version, in a split too.
FlagHome  == IF saved.home["codex"] # Default THEN saved.home["codex"] ELSE "here"
FlagFails == "codex" \in saved.enabled /\ Flagged(codex.here, flags[FlagHome]) # flags[FlagHome]

\* doctor's HOOK SCRIPT and AGENT HOOKS.  Without an answer from the distro it judges
\* the script on this machine.
Place == IF split /\ up THEN "first" ELSE "here"
Checked == {Place} \cup (IF Place = "first" /\ WindowsKeys(saved.enabled) # {} THEN {"here"} ELSE {})
ScriptFails  == address[Place] # saved.port \/ \E p \in Checked : script[p] = "missing"
ScriptWarns  == \E p \in Checked : script[p] = "outdated"
HooksFail(a) == \E s \in Sides(a) : hooks[a][s] \in NeedsInstall

--------------------------------------------------------------------------------
(* The wizard and the command line.                                                *)

\* A first install, or one of an older version under another path.
Init ==
    /\ split \in BOOLEAN /\ onWindows \in SUBSET BothSides
    /\ remote \in {"none", "older", "same"} /\ up = TRUE
    /\ split \/ (onWindows = {} /\ remote = "none")
    /\ codex \in CodexVersions /\ saved = Fresh
    /\ \E old \in BOOLEAN :
          /\ hooks = [a \in Agents |-> [p \in Homes |-> IF old THEN "stale-path" ELSE "missing"]]
          /\ flags = [p \in Homes |-> IF old THEN {"legacy"} ELSE {}]
          /\ script = [p \in Places |-> IF old THEN "outdated" ELSE "missing"]
          /\ address = [p \in Places |-> IF old THEN DefaultPort ELSE 0]
    /\ setup = Idle /\ events = 0
    /\ done = "nothing" /\ failed = FALSE /\ refreshed = FALSE

\* install_hook and install_hook_script: the script, then hook.env.
WritesAt(p) == <<[place |-> p, what |-> "script"], [place |-> p, what |-> "address"]>>

Begin(new) ==
    /\ setup.phase = "idle" /\ events < MaxEvents
    /\ events' = events + 1 /\ setup' = new /\ done' = "nothing"
    /\ UNCHANGED <<world, up, places, saved, failed, refreshed>>

\* The questions up to the hooks.  The agents' homes are set when the distro answers;
\* the distro itself is not saved.
StartWizard ==
    \E enabled \in SUBSET Agents \ {{}}, distro \in IF split THEN Distros ELSE {"first"} :
        Begin([Idle EXCEPT !.phase = "route", !.distro = distro,
                    !.config = [saved EXCEPT !.enabled = enabled, !.home = [a \in Agents |->
                        IF split /\ up /\ a \in enabled THEN distro ELSE @[a]]]])

\* `tintaview hooks install`, which knows this machine only and nobody's configured
\* home: the script first.
StartInstall ==
    Begin([Idle EXCEPT !.phase = "writes", !.command = "cli", !.config = saved, !.writes = WritesAt("here")])

\* The `tintaview` inside the distro installs without asking: with its own version of the
\* script, the bindings and the flag that version knows, and the port of its own settings.  An agent
\* whose file it cannot parse, or that it fails for, stays as it was; if it fails for all,
\* it may not have come to the script.
RemoteInstall(d, enabled, failing) ==
    LET older == remote = "older"
        wrote == {a \in enabled \ failing : hooks[a][d] # "installed"}
    IN  /\ \A a \in enabled : hooks[a][d] = "unreadable" => a \in failing
        /\ \E status \in IF older THEN {"installed", "partial"} ELSE {"installed"} :
              hooks' = [a \in Agents |-> [hooks[a] EXCEPT ![d] = IF a \in wrote THEN status ELSE @]]
        /\ flags' = IF "codex" \notin wrote THEN flags
                    ELSE [flags EXCEPT ![d] = IF older THEN @ \cup {"legacy"} ELSE Flagged(codex.distro, @)]
        /\ \/ /\ script' = [script EXCEPT ![d] = IF older THEN "outdated" ELSE "current"]
              /\ address' = [address EXCEPT ![d] = DefaultPort]
           \/ failing = enabled /\ UNCHANGED <<script, address>>

\* _step_hooks: natively every agent here, in the home it has by default; in a split the
\* agents' homes in the distro, or whatever the `tintaview` inside makes of it; and the
\* homes on Windows either way.
Route ==
    LET d == setup.distro
        enabled == setup.config.enabled
        windows == WindowsKeys(enabled) \X {"here"}
        Left(left, gap) == setup' = [setup EXCEPT !.phase = "hooks", !.left = left, !.gaps = @ \/ gap]
    IN  /\ setup.phase = "route"
        /\ \/ ~split /\ Left(enabled \X {"here"}, FALSE) /\ UNCHANGED places
           \/ split /\ ~up /\ Left(windows, TRUE) /\ UNCHANGED places
           \/ split /\ up /\ remote = "none" /\ Left(enabled \X {d} \cup windows, FALSE) /\ UNCHANGED places
           \/ /\ split /\ up /\ remote # "none" /\ UNCHANGED codex
              /\ \E failing \in SUBSET enabled :
                    RemoteInstall(d, enabled, failing) /\ Left(windows, failing # {})
        /\ refreshed' = (refreshed /\ remote # "older")
        /\ UNCHANGED <<world, up, saved, events, failed, done>>

\* One agent's plan: applied, declined, up to date already, or of a file that cannot be
\* parsed, which is left alone.  Codex's flag comes after it: by the wizard unless the
\* hooks could not be parsed, by the command line once it has written them; declined, or
\* in a file that cannot be parsed, it is a gap.  The homes on Windows come last.
Offer ==
    /\ setup.phase = "hooks"
    /\ \E q \in setup.left, writes \in BOOLEAN :
          LET a == q[1]
              s == q[2]
              broken == hooks[a][s] = "unreadable"
              asked == a = "codex" /\ ~broken /\ (writes \/ setup.command = "wizard")
              Gap == \/ hooks'[a][s] # "installed"
                     \/ asked /\ Flagged(VersionAt(s), flags'[s]) # flags'[s]
          IN  /\ s = "here" => \A other \in setup.left : other[2] = "here"
              /\ writes => hooks[a][s] \in NeedsInstall
              /\ hooks' = IF writes THEN [hooks EXCEPT ![a][s] = "installed"] ELSE hooks
              /\ flags' \in {flags} \cup
                    (IF asked THEN {[flags EXCEPT ![s] = Flagged(VersionAt(s), @)]} ELSE {})
              /\ setup' = [setup EXCEPT !.left = @ \ {q}, !.gaps = @ \/ Gap]
              /\ failed' = (failed \/ (broken /\ setup.command = "cli"))
    /\ UNCHANGED <<world, up, codex, script, address, saved, events, done, refreshed>>

\* _step_verify: config.save, over whatever was saved since the wizard read it, and the
\* scripts that will be written.
Save ==
    /\ setup.phase = "hooks" /\ setup.left = {} /\ setup.command = "wizard"
    /\ saved' = setup.config
    /\ setup' = [setup EXCEPT !.phase = "writes", !.writes =
          IF ~split THEN WritesAt("here")
          ELSE WritesAt(setup.distro) \o (IF WindowsKeys(setup.config.enabled) = {} THEN <<>> ELSE WritesAt("here"))]
    /\ refreshed' = FALSE
    /\ UNCHANGED <<world, up, places, events, failed, done>>

Write ==
    /\ setup.phase = "writes" /\ setup.writes # <<>>
    /\ LET w == Head(setup.writes) IN
          /\ w.place \in Distros => up
          /\ script' = IF w.what = "script" THEN [script EXCEPT ![w.place] = "current"] ELSE script
          /\ address' = IF w.what = "address" THEN [address EXCEPT ![w.place] = setup.config.port] ELSE address
    /\ setup' = [setup EXCEPT !.writes = Tail(@)]
    /\ UNCHANGED <<world, up, codex, hooks, flags, saved, counts, done>>

\* A script or hook.env that cannot be written ends the wizard, and is reported by the
\* command line, which goes on to the hooks.
WriteFails ==
    /\ setup.phase = "writes" /\ setup.writes # <<>>
    /\ setup' = IF setup.command = "wizard" THEN Idle ELSE [setup EXCEPT !.writes = <<>>, !.gaps = TRUE]
    /\ failed' = TRUE
    /\ UNCHANGED <<world, up, places, saved, events, done, refreshed>>

\* The command line's hooks, of the agents that are enabled, or of all.
Written ==
    /\ setup.phase = "writes" /\ setup.writes = <<>> /\ setup.command = "cli"
    /\ setup' = [setup EXCEPT !.phase = "hooks", !.left = setup.config.enabled \X {"here"}]
    /\ UNCHANGED <<world, up, places, saved, counts, done>>
Ends ==
    /\ \/ setup.command = "wizard" /\ setup.phase = "writes" /\ setup.writes = <<>>
       \/ setup.command = "cli" /\ setup.phase = "hooks" /\ setup.left = {}
    /\ setup' = Idle /\ done' = IF setup.gaps THEN "nothing" ELSE IF setup.distro = "first" THEN setup.command ELSE "elsewhere"
    /\ UNCHANGED <<world, up, places, saved, counts>>

\* Ctrl-C, a distro that stops answering under a plan, any exception.
Cancelled ==
    /\ setup.phase # "idle" /\ setup' = Idle /\ failed' = TRUE
    /\ UNCHANGED <<world, up, places, saved, events, done, refreshed>>

--------------------------------------------------------------------------------
(* The tray, and what changes without TintaView.                                   *)

\* HookCheckWorker's refresh_if_outdated: an outdated script is replaced where the hooks
\* call it, a missing one and hook.env are not.  The distro may stop answering meanwhile.
TrayStarts ==
    /\ script' = IF ~Reachable THEN script
                 ELSE [p \in Places |-> IF p \in Checked /\ script[p] = "outdated" THEN "current" ELSE script[p]]
    /\ refreshed' = Reachable
    /\ script' # script \/ refreshed' # refreshed
    /\ UNCHANGED <<world, up, codex, hooks, flags, address, saved, setup, events, done, failed>>

Changes ==
    /\ events < MaxEvents /\ events' = events + 1
    /\ done' = "nothing" /\ setup' = [setup EXCEPT !.gaps = setup.phase # "idle"]
    /\ refreshed' = FALSE /\ UNCHANGED <<world, failed>>

\* A new version has another script; the one inside the distro stays what it was.
Upgrade ==
    /\ Changes
    /\ script' = [p \in Places |-> IF script[p] = "current" THEN "outdated" ELSE script[p]]
    /\ UNCHANGED <<up, codex, hooks, flags, address, saved>>
\* An agent's own update drops our hooks, or its user's edit breaks the file where it is
\* used.
AgentRewrites ==
    /\ Changes
    /\ \E a \in Agents :
          \/ \E p \in Homes : hooks[a][p] = "installed" /\ hooks' = [hooks EXCEPT ![a][p] = "missing"]
          \/ \E p \in Sides(a) : hooks[a][p] # "unreadable" /\ hooks' = [hooks EXCEPT ![a][p] = "unreadable"]
    /\ UNCHANGED <<up, codex, flags, script, address, saved>>
\* Codex is updated, on this machine or in the distro, or does not say its version in time.
CodexUpdates ==
    /\ Changes
    /\ codex' \in CodexVersions \ {codex}
    /\ UNCHANGED <<up, hooks, flags, script, address, saved>>
\* The settings dialog enables agents, and an editor changes the port or an agent's home.
SettingsChange ==
    /\ Changes
    /\ \E a \in Agents, port \in Ports :
          \E home \in {saved.home[a], "elsewhere"} :
             /\ saved' = [saved EXCEPT !.enabled = @ \cup {a}, !.port = port, !.home[a] = home]
             /\ saved' # saved
    /\ UNCHANGED <<up, places>>
\* A distro goes to sleep, and wakes.
DistroSleeps ==
    /\ split /\ events < MaxEvents /\ events' = events + 1 /\ up' = ~up
    /\ refreshed' = FALSE
    /\ UNCHANGED <<world, places, saved, setup, done, failed>>

Next == \/ StartWizard \/ StartInstall \/ Route \/ Offer \/ Save \/ Write \/ WriteFails
        \/ Written \/ Ends \/ Cancelled
        \/ TrayStarts \/ Upgrade \/ AgentRewrites \/ CodexUpdates \/ SettingsChange \/ DistroSleeps

--------------------------------------------------------------------------------
\* A setup that ended without a gap leaves nothing for doctor's HOOK SCRIPT and AGENT
\* HOOKS to complain about, as long as nothing changed since: the wizard, and the command
\* line on a machine without a split, wherever they looked where doctor looks.  Doctor only
\* knows the first distro; neither of them knows a home configured on a machine without a
\* split; and an older `tintaview` in the distro has its own bindings.  Codex's flag is
\* right after a wizard that planned it itself (the command line and the `tintaview` in the
\* distro skip it when the hooks are there already), if the Codex of this machine, which
\* doctor asks, is no other than that of the distro, which the wizard asked.
SetupAgrees ==
    LET looked == IF split THEN "first" ELSE "here"
    IN  Reachable /\ (done = "wizard" \/ (done = "cli" /\ ~split)) =>
          /\ ~ScriptFails /\ ~ScriptWarns
          /\ \A a \in saved.enabled : HomeOf(a) = looked /\ remote # "older" => ~HooksFail(a)
          /\ done = "wizard" /\ remote = "none" /\ FlagHome = looked /\ VersionAt(looked) = codex.here
                => ~FlagFails

\* The prompt of the tray and of the settings dialog names the agents whose hooks doctor
\* faults on some side, and no agent it merely could not read (Codex's flag it does not
\* look at).
PromptAgrees == Reachable => Missing = {a \in saved.enabled : HooksFail(a)}

\* A hook calls a script that is there, unless a setup is under way or was cut short.
HooksHaveTheirScript ==
    setup.phase = "idle" /\ ~failed =>
        \A a \in Agents, p \in Places : hooks[a][p] = "installed" => script[p] # "missing"

\* A tray that has started since brings every script it can reach up to date.
RefreshedScripts == refreshed /\ setup.phase = "idle" /\ Reachable => ~ScriptWarns
================================================================================
