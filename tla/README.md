# TintaView in TLA+

TintaView shows on a keyboard's lights what coding agents are doing. Hooks of
the agents send events over loopback HTTP to a broker; the broker folds all live
sessions into one status (confirm beats working beats idle, nothing at all is
none), and a controller drives a lighting engine with it: a steady colour for
idle and working, a blink for confirm, the user's own lighting for none. A tray
polls the broker, escalates unanswered questions and shows usage figures.

This directory models the program where threads, processes, files and other
programs meet, checks it with TLC on small instances and proves its most
important invariants with TLAPS for every value of the constants.
`PROJECT.json` lists components, runs, the lines every definition stands for,
hazards, findings, mutants and theorems.

The project has three layers. The core (store, broker, controller) is modelled
lock by lock and proved. The engines below it and the tray and the installation
around it are families of modules: one module per behaviour, one composing
module per family (`Engines`, `Tray`, `Install`), one run per family.

## Inventory

Paths are relative to `tintaview/`.

| Part | State | Operations | What is hard | What makes it right |
|---|---|---|---|---|
| session store (`core/state.py`) | `(agent, sid)` -> status, tool, request, asker, last sign of life | start, set, end, end_many, expired, snapshot; every mutator under one lock, returning the fold when it changed | subagents speak under their parent's id; confirms come twice, the second without a payload; agents die silently | red is always somebody's open question; settled prompts never come back; dead agents go |
| stall detector (`core/stalldetect.py`) | armed sessions with deadlines | arm, cancel, tick | cancel, arm and the callback are separate steps of several threads | only stall agents are promoted; a silent one is, in the end |
| applier (`core/server.py`, `_StatusApplier`) | one slot, a flag, a thread | request, run, stop | superseding, lost wake-ups, a join that times out | the newest status reaches the lights, and nothing does after stop() |
| status server (`core/server.py`) | the above plus HTTP workers and the watchdog | handle_event, watchdog loop, apply_status, stop | several workers between the store's lock and the applier's | idle lights show the store's fold; teardown releases the device |
| light controller (`core/controller.py`) | engine, blink thread and generation, pause, wanted status, /state block | apply, set_paused, reset_engine, shutdown, blink and heartbeat loops | stale threads, engine calls outside the lock, two-section pause | one blinking thread, nothing held while paused, no leaked engine session |
| engine choice (`engines/factory.py`) | the configured mode and order | make_engine, available_engines | tray, wizard and doctor ask by themselves while the user starts and stops the vendors' software | the doctor explains the engine that is used; "you're set" means it answers |
| G HUB (`engines/ghub.py`) | a call pump with a thread, its queue, an SDK session per thread | probe, open, set_color, close, exit | waits that time out while the call goes on; superseded calls; a commit posted late; a thread that outlives its stop | a closed engine leaves the lights to their owner; open calls run on the one thread that initialised the SDK |
| G HUB sidecar (`engines/ghub_sidecar.py`) | a worker process, a reply queue, a request number | open, set_color, close, stop, exit | late replies, garbage on the pipe, workers that hang or die | no reply answers another request; one worker holds the SDK |
| SteelSeries (`engines/steelseries.py`) | an address, the colour bound last | open, set_color, heartbeat, close | GG forgets on restart; posts done though unanswered; the heartbeat runs outside the lock | the lights show the colour remembered |
| OpenRGB (`engines/openrgb.py`) | a socket, targets, a snapshot | open, set_color, close | devices fail one by one, sockets die with the snapshot in hand | the user's lighting comes back; only Direct-mode devices are painted |
| tray (`ui/tray.py`, `ui/workers.py`, `ui/notify_log.py`, `core/keepawake.py`) | the state last drawn, two timers and latches, the confirm's clock, the bell, workers' locks, the settings | poll, blink, pulse, remind, notify, fetch, apply settings | answers that arrive after Settings changed, nested event loops, requests dropped while one runs | the icon shows the last poll; reminders when owed; one job at a time; the last choice is in force and on disk |
| usage panel (`ui/flyout.py`) | results, folded sections, a size, a clock, an address | show, hide, fold, apply results | overlapping lookups, fetches of disabled agents | size, order and address are the current ones; one alert per crossing |
| configuration (`core/config.py`, `ui/settings_dialog.py`) | one TOML file, the live config | load, migrate, save, edit | older files, unusable values, a menu that saves under an open dialog, a crash | what is loaded is usable; choices survive a restart |
| usage (`stats/`) | the last answers and their cache, readings of the past hours, parsed transcripts | fetch_all per provider, cache policy, trend | failed polls, windows that close, transcripts that grow while read, tokens renewed meanwhile, two processes on one file | what is shown is what the vendor, the transcripts and the account say |
| notify tool (`core/mcp.py`) | a JSON-RPC loop and a cached address | initialize, tools/call, POST | the daemon is slow, moves, quits or has no tray | the agent is told what happened to its message |
| hooks (`agents/`, `hooks/`, `core/request.py`) | one short-lived process per hook | scrape, GET or POST | calls overtake each other and get lost; payloads the shims cannot scrape | the map says what the agent is doing |
| hook installation (`install/hooks.py`, `mcp.py`, `codex_flag.py`, `wsl.py`, `hookscript.py`) | agents' own files, backups, a script on one or two sides of a WSL split | plan, ask, back up, replace, refresh, judge | the agent and the user write too; steps that fail halfway; distros that sleep | nobody's text is lost; what was written is settled; doctor, prompt and wizard agree where they look in one place |
| running (`cli.py`, `install/restart.py`, `install/autostart.py`) | processes and a port | run, quit, signal, relaunch, enable, disable | a launch by hand, at login or by systemd at any step of a restart | new settings run; a tray comes back; lights are handed over |
| update (`install/update.py`) | a release, its script and checksums | check, download, verify, run | a release replaced between two downloads | only verified and newer scripts run |
| rest | network information, logging, Windows' own APIs, translations, packaging | | pure I/O and tables | not modelled |

How they interact: agent -> hook process -> HTTP worker -> stall detector,
store, applier's slot; stall detector and watchdog -> store, applier's slot;
applier -> controller -> engine -> vendor; tray -> controller (pause, reset) and
server (re-send, stop); agent -> notify tool -> server -> tray; tray, wizard,
command line and doctor <-> configuration file, hook files, each other's
processes. All coupling inside the process is by method calls under the callee's
own lock; no lock is held across two components except the controller's, which
is held across engine calls. Between processes it is HTTP on one port and files.

## Modules

| Module | Models | Built on |
|---|---|---|
| `SessionMap` | the store's values and mutators as functions, the events, /state's headline | |
| `SessionStore` | the store as a state machine: events, watchdog, time, killed agents | `SessionMap` |
| `StatusBroker` | the server's threads around the store, the detector and the applier | `SessionMap` |
| `LightController` | the controller's threads over a session engine and its vendor | |
| `Lights` | what the server promises of the lights: one wanted status, shown in the end, released once | |
| `GHubEngine` | the G HUB engine, its call pump and the SDK below it | |
| `GHubSidecar` | the same engine through a worker process: RPC client, reader, worker | |
| `OpenRGBEngine`, `SteelSeriesEngine` | these engines over servers that restart and refuse | |
| `EngineSetup` | the engine as the tray, the wizard and the doctor see it | |
| `Engines` | make_engine, and whichever engine it made | the five above |
| `TrayIcon` | icon, pulse, blink, reminders, bell, keep-awake | |
| `UsagePanel` | the panel's results, size, clock, address and alerts | |
| `ConfigFile`, `SettingsDialog` | the file as load() and save() treat it; who changes it | |
| `TrayJobs` | guarded workers, nested questions, the rebuild of the engine | |
| `UsageTranscripts`, `UsageSignIn`, `UsageCredits` | what three kinds of providers answer | |
| `UsageService` | a pass over the providers, the cache policy, both files | |
| `NotifyTool` | the notify tool, the route and the tray's end of it | |
| `TomlStrings`, `Filters` | `_toml_value`'s escapes and their reading; the elements of a list that are in a set | |
| `Tray` | one of the behaviours above | the nine above it |
| `HookFiles` | plan, backup and replace of agents' files beside their writers | |
| `Setup` | hooks, script and address on both sides of a split; doctor, prompt, wizard | |
| `Instances` | which process runs, with which settings | |
| `Update` | versions, downloads, what is run and told | |
| `HookIngress` | from what an agent does to what the session map says | |
| `Install` | one of the behaviours above | the five above |
| `MC...` | small instances | |
| `SessionMapLemmas`, `DataLemmas` | lemmas about the operators on sessions, and about loops over data | |
| `SessionStoreProofs`, `StatusBrokerProofs`, `LightControllerProofs`, `EnginesProofs`, `TrayProofs`, `InstallProofs` | theorems and their proofs | |

**SessionMap.** A session is the record of `_Session`. Question, detail, tool
and cwd of a request are stored and cleared together, so the last three are one
`detail`, and a prompt is a name; a Notification's sentence is a name with no
detail. `seen` is kept as `silent`, the ticks since it was stamped, saturating
one above the timeout. `Held`, `RequestAfter` and `Moved` are the early return,
the request rule and the assignments of `StateStore.set`; `Handled` is
`handle_event`'s dispatch; `Returned` is what a mutator hands back.

**SessionStore.** One action per call under the lock. The events are unordered
and unfiltered: any hook may come at any time for any session, since hooks are
separate processes. `asked`
and `dealt` are history: who has an open question, which prompts are settled.
They are computed from the events and the stored request, not from the rules
under test.

**StatusBroker.** One action per lock: a worker passes `accepted` (ack sent),
`arm` (the detector's timer), `mutate` (the store) and `request` (the applier's
slot). `held` is its local `effective`. The detector's tick pops under its lock
and calls back outside it; the watchdog's `expired` and `end_many` are two
steps; the tray's re-send reads and requests in two. The applier takes, applies
and, when stopped, ends; `request` may restart a thread that has ended, as
`_ensure_started_locked` does. stop() closes the ingress, stops the loops,
stops the applier, joins it or times out, and shuts the controller down.
Workers are daemon threads nothing joins, so one may run at any later time.
History: `fresh`/`current` (was the newest fold the last one handed over),
`accepted`, `started`, `mayBeRed`.

**LightController.** One action per section under the controller's lock.
`set_paused` has two sections and the heartbeat leaves the lock to talk to the
vendor, so both are split. Engine objects are numbered, because a heartbeat may
hold one that Settings has dropped. Blink threads carry the generation they
were born with; `BlinkWake` is the test outside the lock, `BlinkPaint` the one
inside with the tick. What detection finds, whether the vendor grants a session
and how many refusals a dead session takes are choices; a vendor restart
forgets all sessions. `Reapply` is the settings worker's second half.
Two things are assumed: a call for a session the vendor holds gets through, and
shutdown is orderly (the applier has ended, see the broker). A heartbeat woken
just before shutdown may still run.

**Lights.** The abstract server: whoever changes or reads the fold carries a
status, hands it over sooner or later, the last one handed over is wanted, the
lights only ever turn to the wanted one, and an orderly stop shows it before it
releases them. `StatusBroker` implements it (`FollowsLights`, an `INSTANCE` with
a refinement mapping: what a worker holds is carried, the slot or the status
being applied or the lights are wanted). Slot, flag, applier thread, timers and
sessions all disappear in it.

**Engines.** A behaviour follows the engine that make_engine picked, or the
survey of engines by wizard and doctor. `GHubEngine` takes one step per section
under the pump's lock and per SDK call; a caller's wait may run out while the
call goes on, an SDK call may refuse or raise, and a lighting call shows the
colour of the call before it, which is why the code commits every paint twice.
`clean` says that every wait was answered and nothing raised; the per-thread
promises are only made then, and the model shows what happens otherwise (a
second pump thread, a call run after its caller gave up). `GHubSidecar` has the
parent's RPC client and every worker ever started, with their pipes. In
`OpenRGBEngine` and `SteelSeriesEngine` a call is a step because the controller
holds its lock over it; only SteelSeries' heartbeat is two, since it is sent
outside. `EngineSetup` has the rules of "is it there?" as they are written three
times, over machines whose software the user starts and stops between probes.

**Tray.** All handlers run to completion on the GUI thread, so a handler is a
step, with everything it calls; what moves in between are timers, worker
threads, queued signals, nested event loops, the files and the other processes.
The parts meet only in fields of the live configuration, each of which is an
input (chosen freely) of the parts that read it; so `Tray` follows one part per
behaviour. `TrayIcon` has two change latches over one icon, the confirm's clock
and the inhibitor's child; `UsagePanel` measures the panel as `_layout` does,
and keeps the fetch under way while Settings changes what is enabled;
`SettingsDialog` has the live config, the file, the dialog's copy and the
process's end, over `ConfigFile`, where one key stands for all that `load`
treats alike; `TrayJobs` has the workers' locks, `sys.stdout` under the
diagnosis, the two updates and the rebuild thread. `UsageTranscripts` appends to
a transcript between a poll's stat and its read and compares the count with the
whole file; a Codex file is read in growing tails up to a cap, and its counter may
start again. `UsageSignIn` renews, revokes and loses tokens during a fetch;
`UsageCredits` has balances written late by several IDEs and Junie's sessions;
`UsageService` has the tray's service and a doctor's on the same files.
`NotifyTool` has the agent's queue, the POST with its three seconds and a daemon
that starts, gets a tray, moves and quits.

**Install.** Again one part per behaviour: the parts share files, but each file
is written by one of them (the fields that two of them speak of, a hook status
and Codex's flag, are an input of `Setup` and worked out in `HookFiles`). `HookFiles` keeps what the user wrote as opaque text
and commands and lets them write between any two steps of a plan; a file that
is there may also fail to be read. `Setup` knows where hooks, flag, script and
address are, but not what is in them, and has a Codex that is updated and says
its version or not, a distro's own `tintaview`, and homes the user configured; `Instances` has
every process from reading the config to its end, the port, the unit and the
wizard's restart, which may get no answer, be denied a signal or take a live
process for gone; `Update` has the release's three parts, uploaded one by one;
`HookIngress` has the agent's own state machine, the hooks it fires, threads
that acknowledge before they handle, and `SessionMap` at the end.

## Runs

| Run | Shows | Bounds |
|---|---|---|
| `store` | types; `RedHasAnAsker`, `RedUntilAnswered`, `SettledStaysSettled`, `QuotesAWaitingSession`, `CrashedIsReleased` | two sessions of one agent, one subagent, one prompt, one sentence, one tool, timeout 0: the state space is complete for these constants, no step is bounded |
| `broker` | types; `FreshLightsAreRight`, `ReleasedStaysReleased`, `NoRedWithoutAConfirm`, `AcceptedIsApplied`, `StalledTurnsRed`; the refinement `FollowsLights` | two workers, a session of an agent with confirm events and one of a stall agent, `MaxInputs` = 2 connections, settings changes or quits, `Resends` (the tray takes part) |
| `controller` | types; `SteadyStaysSteady`, `OnlyTheCachedEngineHolds`, `PausedIsReleased`, `BlinkingIsOneThread`, `SnapshotIsTrue`, `BlinkGoesOn` | `MaxCalls` = 4 applies, pauses, resets, vendor restarts or a shutdown; blink and heartbeat threads are unbounded |
| `engines` | types; `ClosedIsReleased`, `OpenThreadHoldsTheSdk`, `PaintedIsShown` (G HUB); `BothSidesAgree` (sidecar; doctor and wizard); `ReleasedIsRestored` (OpenRGB); `LightsFollowTheSession` (SteelSeries); `CallsReturn` | 4 calls or requests, two colours, failures tolerated 2, three devices of which one lacks Direct mode and one was not asked for, two ports, six machines and two changes to them |
| `tray` | types; `IconFollowsTheState`, `NagsOnSchedule`, `PanelIsCurrent`, `SettingsLast`, `JobsTakeTurns`, `UsageIsHonest`, `NothingHangs` | see `MCTray.cfg`: one agent, two providers, two configurations, six config files, five edits, three worker runs, transcripts of three lines read in tails of one and two, five days, three passes, two messages |
| `install` | `FilesAreKept`, `SetupAgrees`, `RightOneRuns` | see `MCInstall.cfg`: two runs, one edit and one kept backup; Codex and an agent with a home on both sides, two ports, two outside events, Codex's version known here or not; four processes; seven versions and two uploads; five agents' hooks, six calls |
| `main_question` | finding 1 | as `store` |
| `stale_lights`, `stall_race` | findings 2 and 3 | as `broker`, without the tray |
| `resume` | finding 4 | as `controller` |
| `openrgb_restore` | finding 5 | as `engines` |
| `settings_lost` | finding 6 | as `tray` |

Why these are enough. The store's rules speak of one session and one other, of
an asker and one other actor, of a stored prompt and its absence. The broker's
hazards need two threads between the same two locks and one more event to see
the damage; with three inputs and worker symmetry the safety part also passed
(2.3 million states), and its invariants are proved for every number of
workers, sessions and inputs. The controller's hazards are one stop and one
start within a tick, or one call inside a two-section operation: three calls,
four with the vendor's restart. The controller's configurations disable the
deadlock check, because after shutdown it has nothing left to do once its
threads have ended; the store and the broker can always let time pass.

In a family each part is explored completely within its own bounds (102 thousand
states for the engines, 390 thousand for the tray, 3.2 million for the
installation). The bounds are chosen per part by what has to meet: a call that
times out, its successor and a close; a fetch under way, a Settings change and
the answer; an edit between a plan and its replacement, and one more backup; two
uploads between two downloads; a hook that overtakes another and a third that
heals. Beyond them the parts were explored alone: `EngineSetup` with 67 thousand,
`NotifyTool` with three messages (118 thousand) and `HookIngress` with eight calls
(5.9 million states), with the same result. `MCTray` has one agent because the icon only shows the fold, and two
providers because sections have an order. A property of a family is the
conjunction of its parts' own properties, which are stated and explained in
their modules. The three configurations disable the deadlock check: calls,
clocks, edits and processes are bounded, and a process may have ended.

Fairness. `SessionStore` assumes that time passes and that the watchdog polls
(`_watchdog_loop` runs as long as the server). `StatusBroker` assumes that
started threads run on: each worker, the detector, the applier, the tray's
started re-send, and time; nobody has to send an event, open Settings or quit,
and nothing is assumed of the watchdog. `LightController` assumes only that
blink threads run. `Engines` assumes that a caller's wait for the pump or the
worker runs out (both have timeouts), and nothing of SDK, worker or server.
`Tray` assumes that the blink timer fires, that a network lookup answers or
fails (its requests have timeouts), that a worker thread runs to its end, and
that a rebuild of the engine does. `Install` assumes no fairness.

Two kinds of step are taken to be shorter than others: a poll of a transcript is
shorter than the five minutes of slack in `_WINDOW_5H_SPAN_S`, and a usage pass
is shorter than the hour that ages a cached answer. Clocks do not go back, except
that a backup's name may repeat within a second.

## Findings

1. `main_question`: `StateStore.set` promises that a subagent does not move a
   session off a confirm someone else raised; a subagent's own confirm becomes
   the recorded one (state.py:138), and the main thread's question is taken
   down by that subagent's next event.
2. `stale_lights`: the fold is computed under the store's lock but handed over
   after it (server.py:639). Two workers can hand over in the other order, and
   the lights stay on the older fold until the next change.
   `FreshLightsAreRight` shows this is the only way they can be wrong.
3. `stall_race`: cancel and arm are two calls, and the detector calls back after
   releasing its lock, so an event on a second worker may disarm nothing and the
   session is painted red although it spoke.
4. `resume`: set_paused(False) applies the status captured before the lock was
   released; a status applied in between is lost until the next change.

5. `openrgb_restore`: the third failed write in a row drops the connection
   together with the snapshot (openrgb.py:220-224); the next open() snapshots
   TintaView's own colour, and a close() in which every device answers puts that
   back instead of the user's lighting.
6. `settings_lost`: the dialog has written the accepted settings and asks about
   hooks; the tray's menu still works, and a toggle made now saves the live
   config, which does not have them yet, over the file. They are in force until
   the tray ends, and gone afterwards, although declining the question is said
   to leave them saved.

Smaller disagreements between the code and its texts met on the way; the
properties name each as an exception or leave it out, and no run is about them:

- The doctor has no entry for a forced "steelseries", nor for a mode of a newer
  version, and names the engine "auto" would pick (doctor.py:358, 384), which is
  not the one make_engine builds.
- steelseries.py:126-128 keeps the last colour "so a heartbeat can re-assert it";
  heartbeat() only posts that the game is still there and nothing reads the
  colour. After a restart of GG that still answers the heartbeat the devices stay
  on GG's own lighting until the next colour is set (`LightsFollowTheSession`
  therefore excuses a restart).
- tv-hook.sh's comment speaks of the first `session_id` of a line; its greedy
  expression takes the last one. tv-hook.cmd cannot scrape spaced JSON and files
  such a session's events under "default", while its confirm is posted under the
  real id and stays red until the watchdog.
- The notify tool calls a POST unanswered for three seconds "not running"; the
  tray may show the message later all the same (mcp.py:172).
- `load` "never raises" (config.py:571) and takes an unreadable file for an absent
  one; bytes that are no UTF-8, and an `engine`, `agents` or `ui` that is no table,
  raise, and the program does not start (`ConfigFile!Raises`).
- `_toml_value` escapes the quote, the backslash and the line feed, and writes other
  control characters as they are (config.py:642-644); tomllib refuses them, so a
  command with one makes the next start take every setting for unset.
  `ChoicesSurviveARestart` and `StringsSurvive` are about strings without one.
- `codex_flag.plan` takes any read error for an empty file (codex_flag.py:60-63),
  where hooks.py:104-107 explains why `_read_json` must not: applied, such a plan
  leaves a config.toml with the flag alone, and the rest in the backup.
- A Codex transcript of which 16 MiB do not reach before the window charges the
  window with the session's whole total (codex.py:69, 264-281), and a counter that
  went back is floored at zero. `EstimateIsCurrent` says exactly what is counted then.
- Doctor's check of Codex's flag (doctor.py:611-632) looks in the configured home or
  else on this machine, and asks this machine's Codex for its version. In a split it
  may fault what the wizard wrote for the distro's Codex; `tintaview hooks install`
  skips the flag when the hooks are up to date (cli.py:227-229).
- On a machine without a split wizard and command line plan against an agent's default
  home (wizard.py:743, cli.py:219), doctor against the configured one (wsl.py:216). An
  older `tintaview` in the distro installs its own bindings, which this one's status
  may call partial. `SetupAgrees` is about the cases in which all look in one place.
- `running_pid` is None also for a tray that answers late or without a pid
  (restart.py:53-60), `_windows_is_alive` calls gone what it may not look at
  (116-118), and the last kill counts as done when it is denied (172-173). The tray
  then goes on with the old settings, beside the new one or instead of it; `spared`
  names it in `NewSettingsRun` and `LightsAreHandedOver`.
- autostart.py says a second instance exits quietly; the one at login asks the
  first to show its panel (cli.py:133-151).
- In a WSL split the doctor advises `tintaview hooks install`, which writes the
  Windows side only (doctor.py:655-657).
- jetbrains.py says that only Junie's spend after the IDE's figure is added; a
  session that goes on is added whole, so credits may be counted twice
  (`CreditsAddUp` is one-sided for that reason).

## Proofs

`SessionMapLemmas` proves what the operators keep: the type of a changed map,
that only `Held` leaves a status alone, that a call with an unchanged fold
returns nothing. `SessionStoreProofs` and `StatusBrokerProofs` use them.

- **Store.** `TypeCorrect` is inductive with the constants' assumptions.
  `RedIsAnOpenQuestion` needs the type and is inductive by the cases
  of `Held`: an actor leaves `asked` only when it or the main thread spoke, and
  then the session is moved off confirm or asked again. `OnlyAnAnswerClearsRed`
  is the action property of the same cases. `SettledPromptsStayAway` is
  inductive: a prompt becomes settled only in a step that clears the stored one
  and is stored again only by its own confirm, which reopens it.
- **The quote.** `QuotesAWaitingSession` rests on a CHOOSE of the waiting
  session first in order; that there is one comes from the well-foundedness of
  the order on a finite set of sessions.
- **Broker.** `FreshLightsAreRight` is not inductive: a hand-over in progress
  says nothing by itself. The invariant `HandOver` adds that a worker about to
  call the store has an event, that a thread marked `current` holds the store's
  fold, that a fresh hand-over is the store's fold, that the slot, the status
  being applied or the lights hold the last accepted status, and that the phases
  of stop() are consistent with the applier's flag. `StopReleasesTheLights`
  follows from the last part: once joined, the applier has ended with an empty
  slot and `stopping` refuses every request. `RedHasAReason` strengthens
  `NoRedWithoutAConfirm` with the events in workers' hands and the armed and due
  keys.
- **Controller.** `Inv` has one part per piece of state. `Sound` says of the
  device that only the cached engine, and only a real one, has a session.
  `Blinks` says that while the flag is set exactly one thread is not told to
  stop, and that it is of the current generation; with it the test under the
  lock lets a thread paint just when its Event is clear. `Order` ties the
  two-section pause to the switch and says that once it is done, or after
  shutdown, nothing blinks and nothing holds a session, and that only a wanted
  confirm leaves a blink running. Each operator on the device and the blink has
  a lemma that it keeps `Sound` or `Blinks`; `DriveStep`, `ReleaseStep`,
  `BlinkStep` and `HeartbeatStep` put them together. The proofs bound neither
  the engine objects nor the blink threads (`UnusedIsNew`: a new name is new).

- **Refinement.** `BrokerImplementsLights` (also in `StatusBrokerProofs`) proves
  `Spec => FollowsLights` with no bound on workers, sessions or inputs: each
  broker step is a step of `Lights` or a stutter under the mapping, one case per
  action. It needs `HandOver`, in particular that a stopped applier has an empty
  slot, or `Release` would not show the wanted status first.

`EnginesProofs` proves each engine's invariant for its own steps
and puts them together in `EnginesInv`: a step of one engine leaves the others'
state as it was, except `calls`, which all count, and GG's game, which
make_engine registers. All seven properties of the run are theorems.

- **Pump.** `PumpInv` is the types, kept whatever times out or raises, and
  `CleanRun` while every wait was answered. "A closed engine holds nothing" says
  nothing of the retries and restarts on the way, so `CleanRun` follows the call
  from the queue to its reply: `Threads` (one thread at most, and it is the
  pump's), `Places` (what the queue and the thread hold at each place of the
  caller), `Phases` (what each phase of init, shutdown and restart says of the
  engine), `SdkHeld` (the SDK is held by that thread just when the engine, or the
  call under way, says so) and `LitShown` (the commit of the last paint is
  pending, or the lights show it). That `_drop` takes only stale paints is a
  lemma about `Without`.
- **Sidecar.** The invariant has the types, a part that ties the request in
  flight to the pipe of the worker it was sent to, and for each worker ever
  started one formula (`Good`): what its process state allows in its pipes, and
  that only the current, unbroken worker may have its engine open, in step with
  the parent. "At most one holds the SDK" is not inductive without the last, and
  "no late reply" not without the fact that a failed request discards its
  worker. Each action is proved against the worker it touches and against the
  others. The bound on requests is a parameter of the proof.
- **OpenRGB.** The invariant follows one device from open to close: driven
  devices are noted or were never changed, what was noted is what the user had,
  as long as nothing failed and nothing was dropped. The theorem holds for every
  set of devices.
- **SteelSeries.** "The lights follow the session" needs only that an engine without
  an address remembers no colour. What is hard is in two lemmas: a post leaves GG
  as it was, does its work, or does it and raises a doubt; a counted result keeps
  the session's colour or ends the session. They cover the heartbeat answered
  after its session was dropped or replaced, at any failure limit.
- **Setup of engines.** Doctor and wizard probe the engines one by one while the
  machine changes. `SetupInv` adds to the two properties that nobody is reported
  or told anything while somebody asks, and that the probes collected since the
  last change are what answers now.

`TrayProofs` and `InstallProofs`: a behaviour follows one part, so each part has an
inductive invariant of its own, kept under `part = ...`; the other parts' actions
cannot occur.

- **Jobs.** One job per worker follows from `LocksAreThreads` (a lock is taken just
  while its one thread lives). `StdoutIsLent` adds that a diagnosis at work took
  stdout from the process itself, or it would not give it back.
  `LightsAreOnTheirWay` says what a rebuild has left to do.
- **Icon and reminders.** Two latches suppress repaints; `OneLatchKnows` says that
  one of them knows what the desktop shows and the other nothing, without which a
  suppressed repaint could be a needed one. `ConfirmIsTimed` relates the count of
  reminders to the intervals passed between the confirm's first poll and the
  last one, and to the command.
- **notify_user.** "In order" and "told the truth" are about two histories:
  `Replied`, the answers written or about to be, and `Reached`, the messages shown
  or on their way to be. `NotifyInv` has them beside the queue: what is still to
  be answered is numbered after all that was answered (`QueueInOrder`, `Past`), a
  call is about the head of the line, and a post the daemon still works on is
  that call or one that was given up (`PostsInv`), which is the only way to a
  late message. A quitting tray takes with it only messages noted as `unlucky`.
- **Types.** `TypesHold` has the types of all parts and that the parts not followed
  are as they started; it is the premise of the other parts' proofs. Its hard
  leaf is the types of the panel's layout, a recursive function of the sections.
- **Signing in.** While a fetch is under way for a user who was signed in all
  along, the stored token is the honoured one, and the fetch's own was replaced
  as often as `renewed` says (`SignInInv`); so a refusal needs a replacement, and
  Cursor's two.
- **Usage.** `MemoryIsTrue` (what is remembered of an agent is its newest answer,
  every sample is of an answer), `PassesAreOfThisHour` (a row of a pass is new
  or what the policy makes of the memory) and `FilesAreUpToDate` (unless
  something went `amiss`, the files hold the newest answer, and whoever nobody
  overtook knows what they do).
- **Panel.** The size is that of the layout (`PanelLaidOut`), the sections have
  the order of Settings and are those of enabled agents or of a poll's that was
  under way (`SectionsInOrder`), the address is the newest lookup's
  (`NewestLookup`), and a latch is set exactly for what rang (`AlertsLatched`).
  That what `_reorder_results` makes has the order asked for, and is left as it is
  when asked again, are lemmas about `Within`.
- **Dialog.** `ConfigsAreUsable` says that the live config is one the program can
  use and the file one `load` makes such a config of; `ChoicesInForce` relates the
  live config to the last choice of each field, also while an accepted dialog is
  not applied yet. Both rest on what `load` makes of what `save` wrote: the same
  config (`StringsSurvive` for the one field that is text, `Within` for lists), and
  for older files what `_migrate` may add. Files that `load` raises over, and commands
  with a control character, are set apart from the start.
- **Credits.** `RefillEndsAPeriod`, `AccountIsWritten` (what the newer of quota and
  balance says is what was written of the account) and `OlderIsSeen` (a session
  not touched since is wholly in that figure). The period is found by division
  (`PeriodIsFound`), and the costs are a sum over sessions, changed one at a time.
- **Transcripts.** `Made` is what a whole parse keeps of a sequence of lines, and
  `Truth` what is to be counted of it. `CountedOnce` proves by induction over lines
  that a tally of the collapsed lines is the sum over messages of the last figure
  of each, in the window of its first. For Codex, `Ending` says that a tail is an end of
  the file; where it reaches before the window the scan is the difference to the newest
  line before the cutoff (`ReachedCounts`), and where it is cut short the whole total
  (`CutCounts`); what the total grew by with each line bounds both when it went back
  (`GainsCover`). `TranscriptInv` says that what
  was read, kept in the memo and shown was made of a first part of the file
  that is no shorter than at the stat (`ScanInv`, `MemoInv`, `TallyInv`), and that
  the file only grows (`FileInv`). A parse that the memo keeps under an older key
  than its lines is the case in which this is not obvious.

`DataLemmas` has what these need of loops over data. The library's induction
theorems have an operator as a parameter, which the provers cannot instantiate;
so induction is stated as membership of a set: a set of numbers that has 0 and
with every number the next one has them all (`AllNumbers`, from the
well-foundedness of the order on numbers), and likewise for sequences
(`AllSequences`) and finite sets (`AllFiniteSets`). A recursive function is then
shown to be the fold it should be (`FoldsExist`, `FoldsAgree`), which gives the
equations for the empty sequence and for one more element. On those rest the lemmas
about `Within`, the escapes of `_toml_value` (`StringsSurvive`, a theorem:
tomllib reads back every string without control characters but the line feed) and the sums of `FiniteSetsExt` (`SumAdd`,
`SumGrows`, `SumChanges`).

- **Files.** `FilesInv` is inductive. `TextIsKept` says where what the user last
  wrote is, with a count that `NobodysTextIsLost` does not have: the backup that
  has it has fewer newer ones than were taken since, so it is not among those
  that `_prune_backups` takes until `KEEP_BACKUPS` more came. `PlansHold` says
  of a plan that waits for its answer that it is at rest (`Rests`: planning again
  changes nothing), that it has the user's part of the file unless they wrote
  there since or the file could not be read when it was made, and that at the rename that part is in the file or saved. `SettledRests`
  is the other half: what was written and not edited since is at rest. It would not
  be inductive if the hooks, the rule that allows the notify tool and Codex's flag,
  which share two files, disturbed each other; `StepsCommute` shows that they do not.
  What a merge does to an agent's groups are lemmas by induction over sequences:
  `_strip_ours` is idempotent, distributes over a merge's concatenation, leaves
  the user's commands in their order and takes all of what was rendered.
- **Which instance runs.** `RunInv` follows the wizard's restart: whoever still has
  the old settings is the one it found, or the search is not over, or it was spared:
  not found behind the port, taken for gone, or its end denied (`OldIsFound`); it
  launches after the one it found is gone or spared, once (`FoundIsGone`); and what it launched is starting, or somebody serves
  (`OneIsThere`). Other processes interfere in every step; `Tame` is what any
  step may do to a process, and most of the invariant is kept by that alone.
- **Update.** `UpdInv` says what each phase of an update knows: the release asked
  about is newer, what is run was downloaded and agreed with its sums, and
  what was told is about that. `compare_versions` is shown to be a strict order
  on all versions. One hypothesis is stated (`OldestFirst`): `Versions`, the
  constant with the releases, lists them in that order. The run's list does, and
  `OffersAreNewer` checks it there.
- **Places.** `HooksInv`: a run of the wizard or the CLI without gaps has what it
  wants or still has it on its list (`RunIsWhole`), at each of its steps
  with the world changing between them; what such a run left behind is whole
  (`DoneIsWhole`); Codex's flag is still to be offered, or is what its version asks for
  where the wizard planned it, and no later agent's plan takes it away (`FlagIsPlanned`,
  `FlagIsDone`); hooks without a script are owed one by the run that wrote
  them (`HooksAreServed`, not inductive without the run's phase); nothing is
  outdated after a refresh.
- **Ingress.** `StatusIsTold` speaks only of moments when every hook was heard;
  `IngressInv` says what holds while requests are late, lost or overtaken. The
  numbers of the calls carry it: the request that an actor sent last fits what the
  actor is doing (`LastCallFits`, `SubCallsFit`), and the map follows
  once that one was handled, although older ones may still come (`MapFollows`).
  Among the parts that are only there to make it inductive: a red session of a working
  agent has its subagent as the asker, and a host without subagents is told of by
  nobody else. Two lemmas, `MainSends` and `SubSends`, cover every hook an agent
  fires; `HandledMap` says what one call makes of the session. The theorem
  assumes, as the property does, payloads that the hook script can scrape.
  `SetupAlwaysAgrees` states both halves.

Assumptions on the constants: keys are pairs with a numeric session id, names
differ from Python's empty string and colours from None, timeouts are natural
numbers, failure limits and ports are positive, the daemon may use at least one
port, versions are sequences of numbers with a label, the names of the fixed
threads are not workers, a line without a message id has none of the messages',
a config file's version is a number and its lists are lists of strings (tomllib
parsed it and `_coerce_value` turned the elements into strings; everything else
about a file is left open), what the dialog offers is no junk, every adapter binds
some event, at least one backup is kept, and an agent's file that is not there has
nothing in it (`Texts` is open otherwise: any groups of any commands, half-edited,
in whatever layout). Each is
evaluated in every run.

Only model-checked:

- liveness (`CrashedIsReleased`, `AcceptedIsApplied`, `StalledTurnsRed`,
  `BlinkGoesOn`, `CallsReturn`, `NothingHangs`): fairness is beyond the prover;
- that the code violates what the six findings quote.

## Not modelled

Text: parsing, clipping and wording of payloads, reports, tooltips and diffs,
beyond which fields are found; Qt's layout and painting, beyond the panel's size;
retry counts and cooldowns of Chroma (choices here); locks held for ever by a
wedged vendor call (a locked section is one step; the join's timeout behind it
and the G HUB pump's waits are modelled); a forecast's arithmetic; the parsing of
vendors' answers; where a DLL, an IDE or an agent's home is searched for; winget,
pip, systemd, launchd and the registry beyond what their callers see; a hook
table whose event is no list. Everything listed as `not_modelled` in
`PROJECT.json` is pure I/O, a table or a single call of the platform.

## Plan

Done: the core, the engines, the tray and the installation with all their parts;
`Lights` and the refinement; a theorem for every safety property of the passing runs.

Next: an abstract device owner (taken, then given
back) that the four engines implement; Chroma as an engine of its own with its
heartbeat's verdict; the diagnosis window's state while a worker ends.
