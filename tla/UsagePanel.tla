------------------------------- MODULE UsagePanel ------------------------------
(* The usage panel (tintaview/ui/flyout.py) and the tray's half of it: results    *)
(* fetched by the guarded StatsWorker and delivered by a queued signal, limit     *)
(* alerts, an address looked up by overlapping NetInfoWorkers, a clock that       *)
(* re-arms itself, and Settings changing any of it while they are under way.      *)
EXTENDS Integers, Sequences, FiniteSets, FiniteSetsExt, Filters

CONSTANTS
    Providers,      \* agents with usage
    Levels,         \* how full a limit window is
    PanelConfigs,   \* what the user picks in Settings
    MaxFetches,     \* bound on usage polls
    MaxTokens       \* bound on network lookups

VARIABLES
    config,         \* the live config's fields this part reads
    fetch,          \* the usage worker: "idle", "asking" or the agents it asks about
    delivered,      \* results_ready signals the GUI thread has not run yet
    fetches,
    results,        \* _usage_results: its keys in order, and each one's window
    alerted,        \* _usage_alerted
    rang,           \* history: alerts of a window since it was last seen under
    flyout,         \* visible, its fixed height, collapsed sections, clock timer
    recent,         \* hidden_at is within CLICK_REOPEN_GUARD_S
    net,            \* _net (as the token that fetched it), _net_loading, _net_token
    lookups,        \* NetInfoWorker threads whose answer has not reached the GUI thread
    late            \* history: agents disabled while a fetch about them was under way

panelVars == <<config, fetch, delivered, fetches, results, alerted, rang, flyout, recent,
               net, lookups, late>>

Configs == [enabled : Seq(Providers), alerts : BOOLEAN, threshold : Nat, network : BOOLEAN,
            clocks : BOOLEAN]

\* Assumed in Tray.tla.
PanelAssumption ==
    /\ IsFiniteSet(Providers) /\ Levels \subseteq Nat
    /\ PanelConfigs \subseteq Configs
    /\ \A c \in PanelConfigs : c.enabled # <<>> /\ IsInjective(c.enabled)
    /\ MaxFetches \in Nat /\ MaxTokens \in Nat

Error == -1         \* a provider that failed: a reason line instead of rows
Idle == [phase |-> "idle", about |-> <<>>]

--------------------------------------------------------------------------------
(* Layout: heights in lines; a section is its header and, unless collapsed, its   *)
(* reason or its rows (_layout, which painting and hit-testing share).            *)

Section(window, collapsed) == 2 + (IF collapsed THEN 0 ELSE IF window = Error THEN 1 ELSE 3)
Bands(c) == (IF c.clocks THEN 4 ELSE 0) + (IF c.network THEN 3 ELSE 0)
Height(r, collapsed, c) ==
    2 + Bands(c) + (IF r.keys = <<>> THEN 1
                    ELSE MapThenSumSet(LAMBDA k : Section(r.of[k], k \in collapsed), Range(r.keys)))

Init ==
    /\ config \in PanelConfigs
    /\ fetch = Idle /\ delivered = <<>> /\ fetches = 0
    /\ results = [keys |-> <<>>, of |-> [p \in Providers |-> Error]]
    /\ alerted = {} /\ rang = [p \in Providers |-> 0] /\ late = {}
    /\ flyout = [visible |-> FALSE, height |-> Height(results, {}, config), collapsed |-> {},
                 armed |-> FALSE]
    /\ recent = FALSE
    /\ net = [by |-> 0, loading |-> FALSE, token |-> 0] /\ lookups = {}

--------------------------------------------------------------------------------
(* Helpers of the handlers.                                                       *)

\* Mutant: the agents that are placed first are left in their old place too.
ReorderedTwice(keys, c) == Within(c.enabled, Range(keys)) \o keys

\* _reorder_results: enabled agents in their order, then what is left.
Reordered(keys, c) ==
    LET first == Within(c.enabled, Range(keys))
    IN  first \o Without(keys, Range(first))

\* Flyout.set_results under config c: re-measure, and re-arm the clock.
SetResults(f, r, c) ==
    [f EXCEPT !.height = Height(r, f.collapsed, c), !.armed = f.visible /\ c.clocks]

\* showEvent: a shown panel arms its clock and looks the address up anew.
Show(f) == [f EXCEPT !.visible = TRUE, !.armed = config.clocks]
RefreshNetwork ==
    IF config.network
    THEN /\ net.token < MaxTokens
         /\ net' = [by |-> 0, loading |-> TRUE, token |-> net.token + 1]
         /\ lookups' = lookups \cup {net.token + 1}
    ELSE UNCHANGED <<net, lookups>>

\* hideEvent.
Hidden(f) == [f EXCEPT !.visible = FALSE, !.armed = FALSE]

\* _GuardedWorker._start: a fetch under way makes this one a no-op.
StartFetch ==
    IF fetch = Idle /\ fetches < MaxFetches
    THEN fetch' = [Idle EXCEPT !.phase = "asking"] /\ fetches' = fetches + 1
    ELSE UNCHANGED <<fetch, fetches>>

\* _check_usage_alerts, over this poll's results only.
LimitRows(got) == {p \in Range(got.keys) : got.of[p] # Error}
Crossed(got) == {p \in LimitRows(got) : got.of[p] >= config.threshold /\ p \notin alerted}
Under(got) == {p \in LimitRows(got) : got.of[p] < config.threshold}
CheckUsageAlerts(got) ==
    IF ~config.alerts THEN UNCHANGED <<alerted, rang>>
    ELSE /\ alerted' = (alerted \ Under(got)) \cup Crossed(got)
         /\ rang' = [p \in Providers |-> IF p \in Under(got) THEN 0
                                         ELSE IF p \in Crossed(got) THEN rang[p] + 1 ELSE rang[p]]

--------------------------------------------------------------------------------
(* Usage.                                                                         *)

\* The usage timer, or "Refresh usage".
Refresh ==
    /\ StartFetch
    /\ UNCHANGED <<config, delivered, results, alerted, rang, flyout, recent, net, lookups, late>>

\* The worker thread: reads enabled_agents, asks each provider, and emits what it got in
\* that order, or nothing when fetch_all raised.
WorkerReadsConfig ==
    /\ fetch.phase = "asking"
    /\ fetch' = [phase |-> "running", about |-> config.enabled]
    /\ UNCHANGED <<config, delivered, fetches, results, alerted, rang, flyout, recent, net,
                   lookups, late>>
WorkerEnds ==
    /\ fetch.phase = "running"
    /\ fetch' = Idle
    /\ \/ \E of \in [Range(fetch.about) -> Levels \cup {Error}] :
             delivered' = Append(delivered, [keys |-> fetch.about, of |-> of])
       \/ UNCHANGED delivered
    /\ UNCHANGED <<config, fetches, results, alerted, rang, flyout, recent, net, lookups, late>>

\* _apply_results: merge, re-order, show, then alert.
ApplyResults ==
    /\ delivered # <<>>
    /\ delivered' = Tail(delivered)
    /\ LET got == Head(delivered)
           fresh == Without(got.keys, Range(results.keys))
       IN  /\ results' = [keys |-> Reordered(results.keys \o fresh, config),
                          of |-> [p \in Providers |-> IF p \in Range(got.keys) THEN got.of[p] ELSE results.of[p]]]
           /\ flyout' = SetResults(flyout, results', config)
           /\ CheckUsageAlerts(got)
    /\ UNCHANGED <<config, fetch, fetches, recent, net, lookups, late>>

--------------------------------------------------------------------------------
(* The panel.                                                                     *)

\* _on_activated: a click on the icon closes an open panel, and does not reopen the one
\* whose focus it just took; stale results are fetched again.
Activated ==
    /\ UNCHANGED <<config, delivered, results, alerted, rang, late>>
    /\ IF flyout.visible
       THEN flyout' = Hidden(flyout) /\ recent' = TRUE /\ UNCHANGED <<net, lookups, fetch, fetches>>
       ELSE /\ ~recent /\ UNCHANGED recent
            /\ \E stale \in BOOLEAN : IF stale THEN StartFetch ELSE UNCHANGED <<fetch, fetches>>
            /\ flyout' = Show(IF results.keys = <<>> THEN flyout ELSE SetResults(flyout, results, config))
            /\ RefreshNetwork

\* _on_show_requested: a second launch of TintaView; an open panel is only raised.
ShowRequested ==
    /\ UNCHANGED <<config, fetch, delivered, fetches, results, alerted, rang, recent, late>>
    /\ flyout' = Show(IF results.keys = <<>> THEN flyout ELSE SetResults(flyout, results, config))
    /\ IF flyout.visible THEN UNCHANGED <<net, lookups>> ELSE RefreshNetwork

\* WindowDeactivate, the close button, and the gear before it opens Settings.
Hide ==
    /\ flyout.visible
    /\ flyout' = Hidden(flyout) /\ recent' = TRUE
    /\ UNCHANGED <<config, fetch, delivered, fetches, results, alerted, rang, net, lookups, late>>

GuardPasses ==
    /\ recent /\ recent' = FALSE
    /\ UNCHANGED <<config, fetch, delivered, fetches, results, alerted, rang, flyout, net, lookups, late>>

\* Mutant: a section folds in the window it had.
ToggleUnmeasured ==
    /\ flyout.visible
    /\ \E k \in Range(results.keys) :
          flyout' = [flyout EXCEPT !.collapsed = IF k \in @ THEN @ \ {k} ELSE @ \cup {k}]
    /\ UNCHANGED <<config, fetch, delivered, fetches, results, alerted, rang, recent, net, lookups, late>>

\* A click on a section's header.
Toggle ==
    /\ flyout.visible
    /\ \E k \in Range(results.keys) :
          LET folded == IF k \in flyout.collapsed THEN flyout.collapsed \ {k} ELSE flyout.collapsed \cup {k}
          IN  flyout' = [flyout EXCEPT !.collapsed = folded, !.height = Height(results, folded, config)]
    /\ UNCHANGED <<config, fetch, delivered, fetches, results, alerted, rang, recent, net, lookups, late>>

\* The single-shot minute timer: repaint, and arm it for the next minute.
ClockTick ==
    /\ flyout.armed
    /\ flyout' = [flyout EXCEPT !.armed = flyout.visible /\ config.clocks]
    /\ UNCHANGED <<config, fetch, delivered, fetches, results, alerted, rang, recent, net, lookups, late>>

\* Mutant: a lookup that found nothing is not an answer.
NetInfoUnlessNone ==
    /\ \E token \in lookups, found \in BOOLEAN :
          /\ lookups' = lookups \ {token}
          /\ net' = IF token # net.token \/ ~found THEN net
                    ELSE [net EXCEPT !.by = token, !.loading = FALSE]
    /\ UNCHANGED <<config, fetch, delivered, fetches, results, alerted, rang, flyout, recent, late>>

\* _on_net_info: an answer, or None, to any of the lookups in whatever order they end.
NetInfo ==
    /\ \E token \in lookups, found \in BOOLEAN :
          /\ lookups' = lookups \ {token}
          /\ net' = IF token # net.token THEN net
                    ELSE [net EXCEPT !.by = IF found THEN token ELSE 0, !.loading = FALSE]
    /\ UNCHANGED <<config, fetch, delivered, fetches, results, alerted, rang, flyout, recent, late>>

\* _apply_settings: latches of another threshold are dropped, sections of disabled agents
\* pruned, the rest re-ordered and re-measured, and the usage fetched unless a fetch runs.
UnderWay == Range(fetch.about) \cup UNION {Range(delivered[i].keys) : i \in DOMAIN delivered}
ApplySettings ==
    /\ \E c \in PanelConfigs :
          LET kept == Within(results.keys, Range(c.enabled))
          IN  /\ config' = c /\ c # config
              /\ alerted' = IF c.threshold # config.threshold THEN {} ELSE alerted
              /\ rang' = IF c.threshold # config.threshold THEN [p \in Providers |-> 0] ELSE rang
              /\ results' = [results EXCEPT !.keys = Reordered(kept, c)]
              /\ flyout' = SetResults(flyout, results', c)
              /\ late' = UnderWay \ Range(c.enabled)
    /\ StartFetch
    /\ UNCHANGED <<delivered, recent, net, lookups>>

Next == \/ Refresh \/ WorkerReadsConfig \/ WorkerEnds \/ ApplyResults
        \/ Activated \/ ShowRequested \/ Hide \/ GuardPasses \/ Toggle \/ ClockTick \/ NetInfo
        \/ ApplySettings

\* A lookup is one GET bounded by its timeout, and its signal is delivered.
Fairness == WF_panelVars(NetInfo)
Spec == Init /\ [][Next]_panelVars /\ Fairness

--------------------------------------------------------------------------------
TypeOK ==
    /\ config \in PanelConfigs /\ fetches \in 0..MaxFetches
    /\ fetch.phase \in {"idle", "asking", "running"} /\ Range(fetch.about) \subseteq Providers
    /\ Range(results.keys) \subseteq Providers /\ IsInjective(results.keys)
    /\ results.of \in [Providers -> Levels \cup {Error}]
    /\ alerted \subseteq Providers /\ flyout.collapsed \subseteq Providers
    /\ net.token \in 0..MaxTokens /\ lookups \subseteq 1..MaxTokens

\* The window has the size of what it paints and of what a click hits, whichever of the
\* results, the folded sections and the bands changed; its sections are in the order of
\* Settings; its clock is armed exactly while somebody can see one; and a disabled agent
\* has no section, unless a fetch that was under way when it was disabled brings it back.
PanelIsCurrent ==
    /\ flyout.height = Height(results, flyout.collapsed, config)
    /\ flyout.armed = (flyout.visible /\ config.clocks)
    /\ Reordered(results.keys, config) = results.keys
    /\ Range(results.keys) \subseteq Range(config.enabled) \cup late

\* The address shown is the one the latest opening of the panel asked for, never one from
\* before a network change that answered late.
NewestAddressWins == net.by # 0 => net.by = net.token /\ ~net.loading

\* One alert per crossing: a window over the threshold rings once until a poll has seen it
\* under, or until the user picks another threshold, whatever is switched off in between.
AlertsOncePerCrossing == \A p \in Providers : rang[p] = IF p \in alerted THEN 1 ELSE 0

\* The panel does not say "Updating" for good: the latest lookup answers or is replaced.
UpdatingEnds == net.loading ~> ~net.loading
================================================================================
