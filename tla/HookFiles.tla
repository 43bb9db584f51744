------------------------------- MODULE HookFiles --------------------------------
(* One agent's configuration files, which TintaView shares with the agent and its  *)
(* user: what `tintaview hooks` and the wizard plan, show and write there          *)
(* (tintaview/install/hooks.py, mcp.py, codex_flag.py).  A plan is computed before *)
(* the question and written after it, and whoever else owns the file does not wait *)
(* for the answer.                                                                 *)
EXTENDS Integers, Sequences, FiniteSets, SequencesExt, Filters

CONSTANTS
    Bindings,      \* the adapter's bindings: a sequence of [event, does]
    Starts,        \* what the files start as: pairs of a hook file and a file of MCP servers
    KeepBackups,   \* KEEP_BACKUPS
    MaxEdits,      \* bound: writes of the user and the agent
    MaxRuns,       \* bound: commands run
    MaxSeconds     \* bound: the clock

VARIABLES
    agent, version,  \* whose files, and what `codex --version` says
    files,           \* the hook file and the file with the agent's MCP servers
    backups,         \* their backups, second -> text
    second,          \* datetime.now(), to the second
    job,             \* the command that runs
    edits, jobs,     \* counters
    wanted,          \* history: what of the user's each file held after their last write
    since,           \* history: backups taken of a file since then
    overtaken,       \* history: files whose plan is not of their text: they were edited while
                     \* it waited, or could not be read when it was made
    hasty,           \* history: files written between a backup and the rename, or backed
                     \* up twice in a second
    settled          \* history: what was last written to a file and not edited or planned
                     \* over unread since

history == <<wanted, since, overtaken, hasty>>
fileVars == <<agent, version, files, backups, second, job, edits, jobs, history, settled>>

Paths  == {"hooks", "servers"}
Events == {Bindings[i].event : i \in DOMAIN Bindings}
Idle   == [phase |-> "idle", caller |-> "cli", action |-> "install", step |-> "hooks",
           plans |-> <<>>, untouched |-> TRUE]

\* A command in a hook file: the user's, ours, or ours with another hook_bin, that does
\* what a binding says or anything else; and those _is_ours says no to.
Command(by, does) == [by |-> by, does |-> does]
Does     == {Bindings[i].does : i \in DOMAIN Bindings} \cup {"own"}
Commands == [by : {"user", "us", "old"}, does : Does]
Theirs   == [by : {"user"}, does : Does]
\* A file: a Claude, Codex or Junie group is a sequence of commands, and a Cursor or
\* Copilot entry a sequence of one.  `tidy` is whether it is written as json.dumps does.
Blank == [kind |-> "absent", tidy |-> TRUE, own |-> 0, hooks |-> [e \in Events |-> <<>>],
          allow |-> FALSE, server |-> "none", legacy |-> "none", modern |-> "none"]

Texts == [kind : {"absent", "json", "broken"}, tidy : BOOLEAN, own : Nat,
          hooks : [Events -> Seq(Seq(Commands))], allow : BOOLEAN,
          server : {"none", "asking", "old", "us"},
          legacy : {"none", "on", "off"}, modern : {"none", "on", "off"}]

\* Assumed in Install.tla: every adapter binds some event, and a file that is not there
\* has nothing in it.
FilesAssumption ==
    /\ KeepBackups \in Nat \ {0} /\ MaxEdits \in Nat /\ MaxRuns \in Nat /\ MaxSeconds \in Nat
    /\ Bindings \in Seq([event : STRING, does : STRING]) /\ Bindings # <<>>
    /\ \A pair \in Starts : \A i \in 1 .. 2 :
          pair[i] \in Texts /\ (pair[i].kind = "absent" => pair[i] = Blank)

--------------------------------------------------------------------------------
(* The text of a file.                                                             *)

\* Mutant: a group with one of our commands is dropped with the user's beside it.
WholeGroups(entries) == Within(entries, Seq(Theirs))

\* _strip_ours, for an event's entries: our commands go, and the groups that empties.
StripOurs(entries) ==
    Within([i \in DOMAIN entries |-> Within(entries[i], Theirs)], Seq(Theirs) \ {<<>>})

\* render_hooks: one group per binding, with the hook_bin of this installation.
Rendered(e) ==
    LET bound == Within(Bindings, {b \in Range(Bindings) : b.event = e})
    IN  [i \in DOMAIN bound |-> <<Command("us", bound[i].does)>>]

\* _merge and _dump; and plan_uninstall's, of a file that is there.
Merged(f) ==
    [f EXCEPT !.kind = "json", !.tidy = TRUE,
              !.hooks = [e \in Events |-> StripOurs(f.hooks[e]) \o Rendered(e)]]
Unmerged(f) ==
    IF f.kind = "absent" THEN f
    ELSE [f EXCEPT !.tidy = TRUE, !.hooks = [e \in Events |-> StripOurs(f.hooks[e])]]

\* _signature and its Counter: what the commands of each entry do, however often.
Signature(entry) == [i \in DOMAIN entry |-> entry[i].does]
SameSignatures(a, b) ==
    LET Times(entries, s) == Cardinality({i \in DOMAIN entries : Signature(entries[i]) = s})
    IN  \A s \in {Signature(a[i]) : i \in DOMAIN a} \cup {Signature(b[i]) : i \in DOMAIN b} :
           Times(a, s) = Times(b, s)

\* status.
Ours(f, e) == Within(f.hooks[e], Seq(Commands) \ Seq(Theirs))
Points(entry) == \E i \in DOMAIN entry : entry[i].by = "us"
Status(f) ==
    IF f.kind = "broken" THEN "unreadable"
    ELSE IF f.kind = "absent" \/ \A e \in Events : Ours(f, e) = <<>> THEN "missing"
    ELSE IF \E e \in Events : Ours(f, e) = <<>> THEN "partial"
    ELSE IF ~\E e \in Events : \E i \in DOMAIN Ours(f, e) : Points(Ours(f, e)[i]) THEN "stale-path"
    ELSE IF \A e \in Events : SameSignatures(Rendered(e), Ours(f, e)) THEN "installed"
    ELSE "partial"

\* mcp.plan_install and plan_uninstall: the server, and Claude's rule that allows the tool.
Registered(f)   == [f EXCEPT !.kind = "json", !.server = "us"]
Unregistered(f) == IF f.server = "none" THEN f ELSE [f EXCEPT !.server = "none"]
Allowed(f)      == IF f.allow THEN f ELSE [f EXCEPT !.kind = "json", !.tidy = TRUE, !.allow = TRUE]
Disallowed(f)   == IF f.allow THEN [f EXCEPT !.tidy = TRUE, !.allow = FALSE] ELSE f

\* mcp.status; Codex keeps its approval with the server ("asking" without it).
NotifyStatus ==
    IF files["servers"].kind = "broken" THEN "unreadable"
    ELSE IF files["servers"].server = "none" THEN "missing"
    ELSE IF files["servers"].server = "old" THEN "stale-path"
    ELSE IF agent = "claude" /\ files["hooks"].kind = "broken" THEN "unreadable"
    ELSE IF files["servers"].server = "asking" \/ (agent = "claude" /\ ~files["hooks"].allow)
         THEN "partial" ELSE "installed"

\* codex_flag.plan: the flag Codex's version asks for.
Flagged(f) ==
    CASE version = "unknown" ->
            IF f.modern = "on" /\ f.legacy = "none" THEN f
            ELSE [f EXCEPT !.kind = "json", !.legacy = "none", !.modern = "on"]
      [] version = "early" -> f                                    \* before MIN_HOOKS_VERSION
      [] version = "gated" -> IF f.legacy = "on" THEN f ELSE [f EXCEPT !.kind = "json", !.legacy = "on"]
      [] version = "modern" -> [f EXCEPT !.legacy = "none"]        \* from FLAG_NOT_NEEDED_FROM

--------------------------------------------------------------------------------
(* A command: for each step read, plan, show, ask, and write what was shown.       *)

\* What of a file is the user's and the agent's.
Users(f) ==
    [own |-> f.own,
     commands |-> [e \in Events |-> Within(FlattenSeq(f.hooks[e]), Theirs)]]

Init ==
    /\ agent \in {"claude", "codex", "cursor"}
    /\ version \in IF agent = "codex" THEN {"unknown", "early", "gated", "modern"} ELSE {"unknown"}
    /\ \E pair \in Starts : files = [p \in Paths |-> IF p = "hooks" THEN pair[1] ELSE pair[2]]
    /\ backups = [p \in Paths |-> [s \in {} |-> Blank]] /\ second = 0
    /\ job = Idle /\ edits = 0 /\ jobs = 0
    /\ wanted = [p \in Paths |-> Users(files[p])]
    /\ since = [p \in Paths |-> 0] /\ overtaken = {} /\ hasty = {}
    /\ settled = [k \in {"hooks", "flag", "notify"} |-> "none"]

\* `tintaview hooks install`, `uninstall`, or the wizard's hooks step.
Run ==
    /\ job.phase = "idle" /\ jobs < MaxRuns
    /\ \E caller \in {"cli", "wizard"}, action \in {"install", "uninstall"} :
          /\ caller = "wizard" => action = "install"
          /\ job' = [Idle EXCEPT !.phase = "plan", !.caller = caller, !.action = action]
    /\ jobs' = jobs + 1
    /\ UNCHANGED <<agent, version, files, backups, second, edits, history, settled>>

\* The step after this one.  The command line turns to Codex's flag only when it has
\* written the hooks (whether it installed or removed them), the wizard unless they
\* could not be read.
FlagNext(written) ==
    job.step = "hooks" /\ agent = "codex"
        /\ (written \/ (job.caller = "wizard" /\ files["hooks"].kind # "broken"))
NextStep(written) ==
    IF job.step = "notify" THEN Idle
    ELSE [job EXCEPT !.phase = "plan", !.plans = <<>>, !.untouched = TRUE,
                     !.step = IF FlagNext(written) THEN "flag" ELSE "notify"]

\* plan_install, plan_uninstall, codex_flag.plan and mcp's plans: of the text as it is now.
Plans ==
    LET install == job.action = "install"
        Of(p, after) == [path |-> p, after |-> after]
        hooks == files["hooks"]
        servers == files["servers"]
        all == CASE job.step = "hooks" -> <<Of("hooks", IF install THEN Merged(hooks) ELSE Unmerged(hooks))>>
                 [] job.step = "flag" -> <<Of("servers", Flagged(servers))>>
                 [] job.step = "notify" ->
                      <<Of("servers", IF install THEN Registered(servers) ELSE Unregistered(servers))>>
                      \o (IF agent # "claude" THEN <<>>
                          ELSE <<Of("hooks", IF install THEN Allowed(hooks) ELSE Disallowed(hooks))>>)
    IN  Within(all, {q \in Range(all) : q.after # files[q.path]})
Read == IF job.step = "hooks" THEN {"hooks"}
        ELSE IF job.step = "notify" /\ agent = "claude" THEN Paths ELSE {"servers"}

\* A text that cannot be parsed is reported and left alone (the wizard gives up over
\* Codex's config.toml), and a plan that changes nothing asks nothing.
MakePlans ==
    /\ job.phase = "plan"
    /\ job' = IF \E p \in Read : files[p].kind = "broken"
                 THEN IF job.step = "flag" /\ job.caller = "wizard" THEN Idle ELSE NextStep(FALSE)
              ELSE IF Plans = <<>> THEN NextStep(FALSE)
              ELSE [job EXCEPT !.phase = "asked", !.plans = Plans]
    /\ UNCHANGED <<agent, version, files, backups, second, edits, jobs, history, settled>>

\* A file that is there and cannot be read (locked, or in a distro that is asleep).  The
\* hooks' plan raises, which ends the run, and the notify tool's failure is reported; but
\* codex_flag.plan takes the text for an empty one, and plans a file with the flag alone.
ReadFails ==
    /\ job.phase = "plan" /\ \E p \in Read : files[p].kind # "absent"
    /\ IF job.step = "flag" /\ Flagged(Blank) # Blank
          THEN /\ job' = [job EXCEPT !.phase = "asked", !.untouched = FALSE,
                                     !.plans = <<[path |-> "servers", after |-> Flagged(Blank)]>>]
               /\ overtaken' = overtaken \cup {"servers"}
               /\ settled' = [settled EXCEPT !["flag"] = "none", !["notify"] = "none"]
          ELSE /\ job' = (IF job.step = "hooks" THEN Idle ELSE NextStep(FALSE))
               /\ UNCHANGED <<overtaken, settled>>
    /\ UNCHANGED <<agent, version, files, backups, second, edits, jobs, wanted, since, hasty>>

\* The diff is shown; yes, no, or Ctrl-C.  A command that ends elsewhere leaves what a
\* no leaves, except between the backup and the rename.
Answer ==
    /\ job.phase = "asked"
    /\ job' \in {[job EXCEPT !.phase = "backup"], NextStep(FALSE)}
    /\ UNCHANGED <<agent, version, files, backups, second, edits, jobs, history, settled>>
Killed ==
    /\ job.phase \in {"asked", "backup", "replace"} /\ job' = Idle
    /\ UNCHANGED <<agent, version, files, backups, second, edits, jobs, history, settled>>

Target == Head(job.plans).path
\* _prune_backups: the stamps sort by time.
Pruned(copies) ==
    LET kept == {s \in DOMAIN copies : Cardinality({t \in DOMAIN copies : t > s}) < KeepBackups}
    IN  [s \in kept |-> copies[s]]

\* apply, up to the temporary file: a backup of the text as it is now.
Backup ==
    /\ job.phase = "backup" /\ job' = [job EXCEPT !.phase = "replace"]
    /\ IF files[Target].kind = "absent" THEN UNCHANGED <<backups, since, hasty>>
       ELSE /\ backups' = [backups EXCEPT ![Target] =
                              Pruned([s \in DOMAIN @ \cup {second} |->
                                         IF s = second THEN files[Target] ELSE @[s]])]
            /\ since' = [since EXCEPT ![Target] = @ + 1]
            /\ hasty' = IF second \in DOMAIN backups[Target] THEN hasty \cup {Target} ELSE hasty
    /\ UNCHANGED <<agent, version, files, second, edits, jobs, wanted, overtaken, settled>>

\* apply, os.replace: the text that was shown.
Replace ==
    /\ job.phase = "replace"
    /\ files' = [files EXCEPT ![Target] = Head(job.plans).after]
    /\ job' = IF Len(job.plans) > 1 THEN [job EXCEPT !.phase = "backup", !.plans = Tail(@)]
              ELSE NextStep(TRUE)
    /\ settled' = [settled EXCEPT ![job.step] =
          IF job.step = "notify" /\ ~(Len(job.plans) = 1 /\ job.untouched) THEN "none" ELSE job.action]
    /\ UNCHANGED <<agent, version, backups, second, edits, jobs, history>>

\* The user, or the agent: a setting, a hook of their own, ours gone or moved, or a
\* text left half-edited.
Written(f) ==
    {[f EXCEPT !.kind = k, !.own = @ + 1, !.tidy = FALSE] : k \in {"json", "broken"}}
    \cup {[f EXCEPT !.kind = "json", !.hooks[e] = Append(@, <<Command("user", "own")>>)] : e \in Events}
    \cup {[f EXCEPT !.kind = "json", !.hooks[e][1] = Append(@, Command("user", "own"))] :
             e \in {e \in Events : f.hooks[e] # <<>>}}
    \cup {[f EXCEPT !.kind = "json", !.hooks = [e \in Events |-> StripOurs(@[e])]]}
Edit ==
    /\ edits < MaxEdits /\ edits' = edits + 1
    /\ \E p \in Paths :
          /\ \E f \in Written(files[p]) :
                /\ p = "servers" => f.hooks = files[p].hooks
                /\ files' = [files EXCEPT ![p] = f] /\ wanted' = [wanted EXCEPT ![p] = Users(f)]
          /\ since' = [since EXCEPT ![p] = 0]
          /\ overtaken' = IF job.phase \in {"asked", "backup", "replace"}
                                /\ \E i \in DOMAIN job.plans : job.plans[i].path = p
                             THEN overtaken \cup {p} ELSE overtaken \ {p}
          /\ hasty' = IF job.phase = "replace" /\ Target = p THEN hasty \cup {p} ELSE hasty \ {p}
          /\ settled' = [k \in DOMAIN settled |->
                            IF k = "notify" \/ (k = "hooks") = (p = "hooks") THEN "none" ELSE settled[k]]
    /\ job' = [job EXCEPT !.untouched = FALSE]
    /\ UNCHANGED <<agent, version, backups, second, jobs>>

\* The clock matters to the next backup only.
Tick ==
    /\ job.phase = "backup" /\ second < MaxSeconds /\ second' = second + 1
    /\ UNCHANGED <<agent, version, files, backups, job, edits, jobs, history, settled>>

Next == Run \/ MakePlans \/ ReadFails \/ Answer \/ Killed \/ Backup \/ Replace \/ Edit \/ Tick

--------------------------------------------------------------------------------
\* What the user and the agent last wrote is in the file, unless they wrote it while a
\* plan for the file waited for its answer, or Codex's config.toml could not be read when
\* its flag was planned; then it is in a backup, and only a write within the instant
\* between the backup and the rename, two backups within one second or KEEP_BACKUPS newer
\* ones can take it from there.  (The rules 1 and 3 of hooks.py, as far as they hold while
\* others write the file; codex_flag.py, unlike _read_json, takes a read error for an empty
\* file.)
NobodysTextIsLost ==
    \A p \in Paths :
        \/ Users(files[p]) = wanted[p]
        \/ /\ p \in overtaken
           /\ \/ \E s \in DOMAIN backups[p] : Users(backups[p][s]) = wanted[p]
              \/ p \in hasty \/ since[p] > KeepBackups

\* A file TintaView wrote and nobody edited since says so: status calls what plan_install
\* wrote installed and plan_install has nothing to add, and of what plan_uninstall wrote
\* nothing is ours ("re-running an install is a no-op").
WrittenIsSettled ==
    /\ settled["hooks"] = "install" =>
          Status(files["hooks"]) = "installed" /\ Merged(files["hooks"]) = files["hooks"]
    /\ settled["hooks"] = "uninstall" =>
          Status(files["hooks"]) = "missing" /\ Unmerged(files["hooks"]) = files["hooks"]
    /\ settled["notify"] = "install" => NotifyStatus = "installed"
    /\ settled["notify"] = "uninstall" => NotifyStatus = "missing" /\ ~(agent = "claude" /\ files["hooks"].allow)
    /\ settled["flag"] # "none" => Flagged(files["servers"]) = files["servers"]
================================================================================
