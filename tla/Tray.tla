---------------------------------- MODULE Tray ----------------------------------
(* The tray process (tintaview/ui/tray.py) besides the server it hosts: its icon,  *)
(* its usage panel, the configuration with the dialog that edits it, its workers,  *)
(* and the usage it shows.  A handler of the GUI thread runs to its end, and the   *)
(* parts meet only in fields of the live config, each of which is an input of the  *)
(* parts that read it; so a behaviour follows one part, chosen at the start, with  *)
(* whatever threads, processes and files that part races with.                     *)
EXTENDS Integers, Sequences, FiniteSets

CONSTANTS
    Agents, Colours, Intervals, PulseSteps, MaxTime, LogSize,
    Providers, Levels, PanelConfigs, MaxFetches, MaxTokens,
    Adapters, Latest, Files, Edits, Sections,
    Modes, Palettes, MaxRuns, MaxQuestions,
    Messages, Tokens, Window, Week, Span, Chunks, MaxLines, MaxClock,
    MaxRenewals,
    Sessions, OwnKey, Allowance, Period, MaxDay,
    Asked, Windows, FreshFor, KeptFor, SampleLife, LastHour, MaxPasses,
    DaemonPorts, Batches, MaxItems

VARIABLES
    part,           \* the part followed
    agents, now, conf, timers, dim, latch, shell, prev, nag, bell, request, said,
    config, fetch, delivered, fetches, results, alerted, rang, flyout, recent, net, lookups, late,
    live, disk, dialog, running, choice, behind,
    threads, held, runs, stdout, offers, questions, settings, rebuild, lights, dropped,
    agent, clock, lines, mtime, memo, scan, tally,
    provider, store, accepted, issued, ask, verdict, signedIn, renewed,
    day, used, quota, balance, junie, seen, credits,
    hour, mind, files, pass, passes, given, apart, amiss,
    inbox, outbox, mcp, posts, wanted, daemon, emitted, shown, items, slow, unlucky

Icon        == INSTANCE TrayIcon
Panel       == INSTANCE UsagePanel
Dialog      == INSTANCE SettingsDialog
Jobs        == INSTANCE TrayJobs
Transcripts == INSTANCE UsageTranscripts
SignIn      == INSTANCE UsageSignIn
Credits     == INSTANCE UsageCredits
Usage       == INSTANCE UsageService
Notify      == INSTANCE NotifyTool

iconVars == <<agents, now, conf, timers, dim, latch, shell, prev, nag, bell, request, said>>
panelVars == <<config, fetch, delivered, fetches, results, alerted, rang, flyout, recent, net, lookups, late>>
settingsVars == <<live, disk, dialog, running, choice, behind>>
jobVars == <<threads, held, runs, stdout, offers, questions, settings, rebuild, lights, dropped>>
transcriptVars == <<agent, clock, lines, mtime, memo, scan, tally>>
signInVars == <<provider, store, accepted, issued, ask, verdict, signedIn, renewed>>
creditVars == <<day, used, quota, balance, junie, seen, credits>>
usageVars == <<hour, mind, files, pass, passes, given, apart, amiss>>
notifyVars == <<inbox, outbox, mcp, posts, wanted, daemon, emitted, shown, items, slow, unlucky>>
trayVars == <<part, iconVars, panelVars, settingsVars, jobVars,
              transcriptVars, signInVars, creditVars, usageVars, notifyVars>>

Parts == {"icon", "panel", "dialog", "jobs", "transcripts", "signin", "credits", "usage", "notify"}

ASSUME PartsAssumption ==
    /\ Icon!IconAssumption /\ Panel!PanelAssumption
    /\ Dialog!ConfigAssumption /\ Dialog!SettingsAssumption /\ Jobs!JobsAssumption
    /\ Transcripts!TranscriptAssumption /\ SignIn!SignInAssumption
    /\ Credits!CreditAssumption /\ Usage!UsageAssumption
    /\ Notify!NotifyAssumption

--------------------------------------------------------------------------------
\* Whatever a part may start from is varied for the part that is followed only.
Init ==
    /\ part \in Parts
    /\ Icon!Init /\ (part = "icon" \/ (request = "none" /\ conf = CHOOSE c \in [colour : Colours, after : Intervals] : TRUE))
    /\ Panel!Init /\ (part = "panel" \/ config = CHOOSE c \in PanelConfigs : TRUE)
    /\ Dialog!Init /\ (part = "dialog" \/ disk = CHOOSE f \in Files : TRUE)
    /\ Jobs!Init /\ (part = "jobs" \/ settings = CHOOSE s \in [mode : Modes, palette : Palettes] : TRUE)
    /\ Transcripts!Init /\ (part = "transcripts" \/ agent = "claude")
    /\ SignIn!Init /\ (part = "signin" \/ provider = "claude")
    /\ Credits!Init
    /\ Usage!Init /\ (part = "usage" \/ files = Usage!Empty)
    /\ Notify!Init

\* The parts that are not followed.
Rest ==
    /\ UNCHANGED part
    /\ IF part # "icon" THEN UNCHANGED iconVars ELSE TRUE
    /\ IF part # "panel" THEN UNCHANGED panelVars ELSE TRUE
    /\ IF part # "dialog" THEN UNCHANGED settingsVars ELSE TRUE
    /\ IF part # "jobs" THEN UNCHANGED jobVars ELSE TRUE
    /\ IF part # "transcripts" THEN UNCHANGED transcriptVars ELSE TRUE
    /\ IF part # "signin" THEN UNCHANGED signInVars ELSE TRUE
    /\ IF part # "credits" THEN UNCHANGED creditVars ELSE TRUE
    /\ IF part # "usage" THEN UNCHANGED usageVars ELSE TRUE
    /\ IF part # "notify" THEN UNCHANGED notifyVars ELSE TRUE

IconSteps        == part = "icon" /\ Icon!Next /\ Rest
PanelSteps       == part = "panel" /\ Panel!Next /\ Rest
DialogSteps      == part = "dialog" /\ Dialog!Next /\ Rest
JobSteps         == part = "jobs" /\ Jobs!Next /\ Rest
TranscriptSteps  == part = "transcripts" /\ Transcripts!Next /\ Rest
SignInSteps      == part = "signin" /\ SignIn!Next /\ Rest
CreditSteps      == part = "credits" /\ Credits!Next /\ Rest
UsageSteps       == part = "usage" /\ Usage!Next /\ Rest
NotifySteps      == part = "notify" /\ Notify!Next /\ Rest

Next == \/ IconSteps \/ PanelSteps \/ DialogSteps \/ JobSteps
        \/ TranscriptSteps \/ SignInSteps \/ CreditSteps \/ UsageSteps \/ NotifySteps

\* The parts' own Fairness: timers fire, lookups and worker threads end.
Spec == Init /\ [][Next]_trayVars
             /\ WF_iconVars(part = "icon" /\ Icon!OnBlink)
             /\ WF_panelVars(part = "panel" /\ Panel!NetInfo)
             /\ WF_jobVars(part = "jobs" /\ Jobs!WorkerStep)
             /\ WF_jobVars(part = "jobs" /\ (Jobs!Resets \/ Jobs!Applies))

--------------------------------------------------------------------------------
\* Every part keeps its type; the parts not followed do not change.
TypeOK ==
    CASE part = "icon" -> Icon!TypeOK          [] part = "panel" -> Panel!TypeOK
      [] part = "dialog" -> Dialog!TypeOK      [] part = "jobs" -> Jobs!TypeOK
      [] part = "transcripts" -> Transcripts!TypeOK
      [] part = "signin" -> SignIn!TypeOK      [] part = "credits" -> Credits!TypeOK
      [] part = "usage" -> Usage!TypeOK        [] part = "notify" -> Notify!TypeOK

\* The parts' correctness, stated and explained in their own modules.
IconFollowsTheState == part = "icon" => Icon!IconFollowsTheState
\* What the user is told: reminders on time, and agents' messages as the agent believes.
NagsOnSchedule ==
    /\ part = "icon" => Icon!NagsOnSchedule
    /\ part = "notify" => Notify!MessagesAreHonest /\ Notify!RepliesInOrder
PanelIsCurrent ==
    part = "panel" => Panel!PanelIsCurrent /\ Panel!NewestAddressWins /\ Panel!AlertsOncePerCrossing
SettingsLast ==
    part = "dialog" => Dialog!LoadedIsUsable /\ Dialog!LatestChoiceWins /\ Dialog!ChoicesSurviveARestart
JobsTakeTurns       == part = "jobs" => Jobs!OneJobAtATime /\ Jobs!LightsFollowTheSettings
AcceptedSettingsStaySaved == Dialog!AcceptedSettingsStaySaved

EstimateIsCurrent == part = "transcripts" => Transcripts!EstimateIsCurrent
AnswersAreKept ==
    part = "usage" => Usage!StandInsAreTheLatest /\ Usage!ReadingsAreAnswers /\ Usage!RestartKeepsTheAnswers
CreditsAddUp         == Credits!CreditsAddUp
SignedInIsNotAskedTo == SignIn!SignedInIsNotAskedTo

\* The usage shown is what the agents' transcripts, their vendors and the account say:
\* every token once, the newest answer, no credit that is gone, and no call to sign in
\* for a user who is.
UsageIsHonest == []EstimateIsCurrent /\ []AnswersAreKept /\ CreditsAddUp /\ SignedInIsNotAskedTo

\* Nothing the user waits for is stuck: a message reaches the icon, the panel's "Updating"
\* ends, and a worker's lock comes free again.
NothingHangs == Icon!MessageReachesTheIcon /\ Panel!UpdatingEnds /\ Jobs!JobsEnd
================================================================================
