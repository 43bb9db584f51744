------------------------------- MODULE TrayIcon --------------------------------
(* What the tray shows and says on its own (tintaview/ui/tray.py): the state poll *)
(* drives the icon through two change latches and two timers, the clock of an     *)
(* unanswered confirm, the bell of ui/notify_log.py and the keep-awake request of *)
(* core/keepawake.py.  Everything runs on the GUI thread, so a handler is a step; *)
(* the server, the clock and the inhibitor child move between any two of them.    *)
EXTENDS Integers, FiniteSets

CONSTANTS
    Agents,         \* the agents the server reports on
    Colours,        \* palettes of Settings
    Intervals,      \* escalation.after_seconds values, in polls; 0 is "off"
    PulseSteps,     \* icons.pulse_step's quantised brightnesses
    MaxTime,        \* bound on the clock
    LogSize         \* MAX_ENTRIES of the notify log

VARIABLES
    agents,         \* the server's effective status of every agent
    now,
    conf,           \* the live config's fields this part reads
    timers,         \* which of the "blink" and "anim" timers run
    dim,            \* not _blink_on
    latch,          \* _icon_key and _anim_key, each empty for None
    shell,          \* the icon the desktop shows
    prev,           \* _prev_effective
    nag,            \* _confirm_since, _escalations_sent, _escalation_command_ran
    bell,           \* the notify log: how many entries, unread or not
    request,        \* the keep-awake request: "none", "held", or "lost" and not yet noticed
    said            \* history: polls' verdicts, reminders and commands of this confirm

iconVars == <<agents, now, conf, timers, dim, latch, shell, prev, nag, bell, request, said>>

\* Assumed in Tray.tla.
IconAssumption ==
    /\ IsFiniteSet(Agents) /\ Intervals \subseteq Nat /\ PulseSteps \in Nat \ {0}
    /\ MaxTime \in Nat /\ LogSize \in Nat \ {0}

Statuses == {"none", "idle", "working", "confirm"}
Unset == -1

\* StateStore.effective, over the agents' own.
Effective ==
    IF \E a \in Agents : agents[a] = "confirm" THEN "confirm"
    ELSE IF \E a \in Agents : agents[a] = "working" THEN "working"
    ELSE IF \E a \in Agents : agents[a] = "idle" THEN "idle" ELSE "none"

Brand == [mark |-> "brand", colour |-> "own", step |-> 0]
Mark(m, c) == [mark |-> m, colour |-> c, step |-> 0]
Pulse(t) == [mark |-> "working", colour |-> conf'.colour, step |-> t % PulseSteps]
Badged(icon, shield, bubble) == [icon |-> icon, shield |-> shield, bubble |-> bubble]

Active(r) == r = "held"

Init ==
    /\ agents = [a \in Agents |-> "none"] /\ now = 0
    /\ conf \in [colour : Colours, after : Intervals]
    /\ timers = {} /\ dim = FALSE /\ prev = "none"
    /\ request \in {"none", "held"}
    /\ shell = Badged(Brand, Active(request), FALSE)
    /\ latch = [icon |-> {shell}, anim |-> {}]
    /\ nag = [since |-> Unset, sent |-> 0, ran |-> FALSE]
    /\ bell = [entries |-> 0, unread |-> FALSE]
    /\ said = [at |-> Unset, nags |-> 0, commands |-> 0, steady |-> TRUE]

--------------------------------------------------------------------------------
(* The icon.  Both helpers read KeepAwake.active, which buries a dead child.      *)

Noticed(r) == IF r = "lost" THEN "none" ELSE r

\* Mutant: the pulse's latch outlives the pulse.
SetIconAlone(icon, r, unread) ==
    LET key == Badged(icon, Active(r), unread)
    IN  /\ request' = Noticed(r)
        /\ IF latch.icon = {key} THEN UNCHANGED <<latch, shell>>
           ELSE latch' = [latch EXCEPT !.icon = {key}] /\ shell' = key

\* _set_icon: the latch of a still icon; setting one takes the icon from the pulse.
SetIcon(icon, r, unread) ==
    LET key == Badged(icon, Active(r), unread)
    IN  /\ request' = Noticed(r)
        /\ IF latch.icon = {key} THEN UNCHANGED <<latch, shell>>
           ELSE latch' = [icon |-> {key}, anim |-> {}] /\ shell' = key

\* _update_anim_icon: the latch of the pulse, and the other way round.
UpdateAnimIcon(r, unread) ==
    LET key == Badged(Pulse(now), Active(r), unread)
    IN  /\ request' = Noticed(r)
        /\ IF latch.anim = {key} THEN UNCHANGED <<latch, shell>>
           ELSE latch' = [icon |-> {}, anim |-> {key}] /\ shell' = key

\* The first half of _apply_state.  A confirm already blinking is left to the timer.
ShowState(status, r, unread) ==
    CASE status = "confirm" ->
            /\ timers' = {"blink"}
            /\ IF "blink" \in timers
               THEN request' = r /\ UNCHANGED <<dim, latch, shell>>
               ELSE dim' = FALSE /\ SetIcon(Mark("confirm", conf'.colour), r, unread)
      [] status = "working" ->
            timers' = {"anim"} /\ UpdateAnimIcon(r, unread) /\ UNCHANGED dim
      [] OTHER ->
            timers' = {} /\ SetIcon(Brand, r, unread) /\ UNCHANGED dim

--------------------------------------------------------------------------------
(* An unanswered confirm (_track_confirm, _escalate_confirm).                     *)

\* Mutant: the next confirm starts with the reminders of the last.
QuietButCounted == [nag EXCEPT !.since = Unset]
Quiet == [since |-> Unset, sent |-> 0, ran |-> FALSE]
NothingSaid == [at |-> Unset, nags |-> 0, commands |-> 0, steady |-> TRUE]

\* How many reminders are owed by now, in one go after a suspended laptop.
Due == (now - nag.since) \div conf'.after

TrackConfirm(status) ==
    IF status # "confirm" THEN nag' = Quiet /\ said' = NothingSaid
    ELSE /\ nag' = IF nag.since = Unset THEN [nag EXCEPT !.since = now]
                   ELSE IF conf'.after = 0 \/ Due <= nag.sent THEN nag
                   ELSE [nag EXCEPT !.sent = Due, !.ran = TRUE]
         /\ said' = [at |-> now,
                     nags |-> said.nags + (IF nag'.sent # nag.sent THEN 1 ELSE 0),
                     commands |-> said.commands + (IF nag'.ran # nag.ran THEN 1 ELSE 0),
                     steady |-> said.steady /\ UNCHANGED conf]

\* _apply_state; the engine note's and the tooltip's latches show nothing else.
ApplyState(r, unread) ==
    /\ ShowState(Effective, r, unread)
    /\ prev' = Effective
    /\ TrackConfirm(Effective)

--------------------------------------------------------------------------------
(* The steps.  The helpers above read conf': a handler fixes it first.            *)

Report ==
    /\ \E a \in Agents : \E s \in Statuses \ {agents[a]} : agents' = [agents EXCEPT ![a] = s]
    /\ UNCHANGED <<now, conf, timers, dim, latch, shell, prev, nag, bell, request, said>>

Tick ==
    /\ now < MaxTime /\ now' = now + 1
    /\ UNCHANGED <<agents, conf, timers, dim, latch, shell, prev, nag, bell, request, said>>

PollState ==
    /\ UNCHANGED <<agents, now, conf, bell>>
    /\ ApplyState(request, bell.unread)

OnBlink ==
    /\ UNCHANGED <<agents, now, conf, timers, prev, nag, bell, said>>
    /\ "blink" \in timers
    /\ dim' = ~dim
    /\ SetIcon(Mark(IF dim' THEN "dim" ELSE "blink", conf.colour), request, bell.unread)

OnAnimTick ==
    /\ UNCHANGED <<agents, now, conf, timers, dim, prev, nag, bell, said>>
    /\ "anim" \in timers
    /\ UpdateAnimIcon(request, bell.unread)

\* NotifyLog._set_unread: on_change, the state poll, only when the flag flips.
SetUnread(entries, unread) ==
    /\ UNCHANGED <<agents, now, conf>>
    /\ bell' = [entries |-> entries, unread |-> unread]
    /\ IF unread # bell.unread THEN ApplyState(request, unread)
       ELSE UNCHANGED <<timers, dim, latch, shell, prev, nag, request, said>>

\* A deque of LogSize entries: the oldest message makes room for the newest.
NotifyRequested ==
    SetUnread(IF bell.entries < LogSize THEN bell.entries + 1 ELSE bell.entries, TRUE)
OpenNotifications == bell.entries > 0 /\ SetUnread(bell.entries, FALSE)
ClearNotifications == bell.entries > 0 /\ SetUnread(0, FALSE)

\* The "Keep awake" toggle: acquire() is a no-op when the request is held, and may fail.
Acquired(granted) == IF request = "held" \/ granted THEN "held" ELSE "none"
SetKeepAwake ==
    /\ UNCHANGED <<agents, now, conf, bell>>
    /\ \E r \in {Acquired(TRUE), Acquired(FALSE), "none"} : ApplyState(r, bell.unread)

ChildExits ==
    /\ request = "held" /\ request' = "lost"
    /\ UNCHANGED <<agents, now, conf, timers, dim, latch, shell, prev, nag, bell, said>>

\* _apply_settings, which ends with a poll under the new colours and interval.
ApplySettings ==
    /\ UNCHANGED <<agents, now, bell>>
    /\ \E c \in [colour : Colours, after : Intervals] : conf' = c /\ c # conf
    /\ ApplyState(request, bell.unread)

Next == \/ Report \/ Tick \/ PollState \/ OnBlink \/ OnAnimTick
        \/ NotifyRequested \/ OpenNotifications \/ ClearNotifications
        \/ SetKeepAwake \/ ChildExits \/ ApplySettings

\* The blink timer runs as long as a confirm does.
Fairness == WF_iconVars(OnBlink)
Spec == Init /\ [][Next]_iconVars /\ Fairness

--------------------------------------------------------------------------------
TypeOK ==
    /\ agents \in [Agents -> Statuses] /\ now \in 0..MaxTime
    /\ conf \in [colour : Colours, after : Intervals]
    /\ timers \in {{}, {"blink"}, {"anim"}} /\ dim \in BOOLEAN /\ prev \in Statuses
    /\ Cardinality(latch.icon \cup latch.anim) = 1
    /\ nag.since \in (0..MaxTime) \cup {Unset} /\ nag.sent \in 0..MaxTime
    /\ bell.entries \in 0..LogSize /\ bell.unread \in BOOLEAN
    /\ request \in {"none", "held", "lost"}

\* What the desktop shows is the last status polled, in the current colours, with the
\* bubble of an unread message and the shield of the request (a dead one until somebody
\* looks), although two latches suppress most of the repaints: each must forget what it
\* drew once the other has drawn.  A confirm's badges and colours wait for the next blink.
IconFollowsTheState ==
    /\ timers = CASE prev = "confirm" -> {"blink"} [] prev = "working" -> {"anim"} [] OTHER -> {}
    /\ CASE prev = "confirm" -> shell.icon.mark \in {"confirm", "blink", "dim"}
         [] prev = "working" -> shell.icon.mark = "working" /\ shell.icon.colour = conf.colour
         [] OTHER -> shell.icon = Brand
    /\ prev # "confirm" => /\ shell.bubble = bell.unread
                           /\ request = "held" => shell.shield
                           /\ request = "none" => ~shell.shield
    /\ bell.unread => bell.entries > 0

\* Reminders of an unanswered confirm come when they are owed, however late the polls,
\* once for each interval that a poll has seen pass, and the user's command runs with
\* the first of them only, whatever is changed in Settings meanwhile.
NagsOnSchedule ==
    /\ said.commands = IF said.nags > 0 THEN 1 ELSE 0
    /\ prev = "confirm" =>
          /\ said.nags <= said.at - nag.since
          /\ said.steady => nag.sent = IF conf.after = 0 THEN 0
                                      ELSE (said.at - nag.since) \div conf.after

\* An unread message reaches the icon, even during a confirm, whose icon no poll redraws.
MessageReachesTheIcon == bell.unread ~> (shell.bubble \/ ~bell.unread)
================================================================================
