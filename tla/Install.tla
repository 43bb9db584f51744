--------------------------------- MODULE Install --------------------------------
(* Installing TintaView and keeping it installed (tintaview/install, the wizard in  *)
(* ui/wizard.py and the command line in cli.py): the agents' files with the hooks   *)
(* and the notify tool in them, the hooks' places on this machine and in a distro,  *)
(* the processes that run, and the updates.  The parts meet in files each of which  *)
(* one part writes; so a behaviour follows one part, chosen at the start, with      *)
(* whatever users, agents, processes and servers that part races with.              *)
EXTENDS Integers, Sequences, FiniteSets

CONSTANTS
    Bindings, Starts, KeepBackups, MaxEdits, MaxRuns, MaxSeconds,
    Agents, BothSides, CodexVersions, Ports, MaxEvents,
    Pids,
    Versions, MaxUploads,
    Hosts, Inputs, MaxCalls, MaxAtOnce

VARIABLES
    part,           \* the part followed
    agent, version, files, backups, second, job, edits, jobs, wanted, since, overtaken, hasty, settled,
    split, onWindows, remote, up, codex, hooks, flags, script, address, saved, setup, events, done, failed, refreshed,
    platform, entry, procs, port, stored, wizard, due, others, early, excuse,
    own, system, github, update, installed, uploads, offered, ran, told, withdrawn,
    host, os, spaced, input, phase, helper, calls, store, count, last, said, heard, crossed

Files    == INSTANCE HookFiles
Hooks    == INSTANCE Setup
Running  == INSTANCE Instances
Updating == INSTANCE Update
Ingress  == INSTANCE HookIngress

fileVars == <<agent, version, files, backups, second, job, edits, jobs,
              wanted, since, overtaken, hasty, settled>>
setupVars == <<split, onWindows, remote, up, codex, hooks, flags, script, address, saved, setup,
               events, done, failed, refreshed>>
instanceVars == <<platform, entry, procs, port, stored, wizard, due, others, early, excuse>>
updateVars == <<own, system, github, update, installed, uploads, offered, ran, told, withdrawn>>
ingressVars == <<host, os, spaced, input, phase, helper, calls, store, count, last,
                 said, heard, crossed>>
installVars == <<part, fileVars, setupVars, instanceVars, updateVars, ingressVars>>

Parts == {"files", "hooks", "running", "updating", "ingress"}

ASSUME PartsAssumption ==
    /\ Files!FilesAssumption /\ Hooks!SetupAssumption
    /\ Running!InstanceAssumption /\ Updating!UpdateAssumption /\ Ingress!IngressAssumption

--------------------------------------------------------------------------------
\* Whatever a part may start from is varied for the part that is followed only.
Init ==
    /\ part \in Parts
    /\ Files!Init
    /\ part = "files" \/ (agent = "claude" /\ files["hooks"] = (CHOOSE q \in Starts : TRUE)[1])
    /\ Hooks!Init /\ (part = "hooks" \/ (~split /\ address["here"] = 0 /\ codex = CHOOSE c \in CodexVersions : TRUE))
    /\ Running!Init /\ (part = "running" \/ (platform = "linux" /\ ~entry.login))
    /\ Updating!Init
    /\ part = "updating" \/ (own = 1 /\ system = "posix" /\ github = [latest |-> 1, script |-> 1, sums |-> 1])
    /\ Ingress!Init /\ (part = "ingress" \/ (host = (CHOOSE h \in Hosts : TRUE) /\ LET p == CHOOSE q \in Inputs : TRUE
                                                IN  os = p.system /\ spaced = p.spaced /\ input = p.input))

\* The parts that are not followed.
Rest ==
    /\ UNCHANGED part
    /\ IF part # "files" THEN UNCHANGED fileVars ELSE TRUE
    /\ IF part # "hooks" THEN UNCHANGED setupVars ELSE TRUE
    /\ IF part # "running" THEN UNCHANGED instanceVars ELSE TRUE
    /\ IF part # "updating" THEN UNCHANGED updateVars ELSE TRUE
    /\ IF part # "ingress" THEN UNCHANGED ingressVars ELSE TRUE

FileSteps   == part = "files" /\ Files!Next /\ Rest
HookSteps   == part = "hooks" /\ Hooks!Next /\ Rest
RunSteps    == part = "running" /\ Running!Next /\ Rest
UpdateSteps == part = "updating" /\ Updating!Next /\ Rest
CallSteps   == part = "ingress" /\ Ingress!Next /\ Rest

Next == FileSteps \/ HookSteps \/ RunSteps \/ UpdateSteps \/ CallSteps
Spec == Init /\ [][Next]_installVars

--------------------------------------------------------------------------------
\* The agents' files: nobody's text is lost, and what was written stays what it says.
FilesAreKept == part = "files" => Files!NobodysTextIsLost /\ Files!WrittenIsSettled

\* The hooks' places: a setup that ended well has nothing to be complained of, the prompt
\* is about what doctor faults, and no hook calls a script that is not there; and hooks
\* that are in place tell the daemon what their agent is doing.
SetupAgrees ==
    /\ part = "hooks" => Hooks!SetupAgrees /\ Hooks!PromptAgrees /\ Hooks!HooksHaveTheirScript
                           /\ Hooks!RefreshedScripts
    /\ part = "ingress" => Ingress!StatusIsTold

\* The program that runs: the newest settings, one tray that comes back from a restart,
\* lights handed over, and no script but a verified one of a newer release.
RightOneRuns ==
    /\ part = "running" => Running!NewSettingsRun /\ Running!TrayComesBack /\ Running!LightsAreHandedOver
    /\ part = "updating" => Updating!OffersAreNewer /\ Updating!OnlyVerifiedRuns /\ Updating!ToldIsDone
================================================================================
