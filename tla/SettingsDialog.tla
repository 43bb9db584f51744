----------------------------- MODULE SettingsDialog ----------------------------
(* Who changes the live configuration and the file it is kept in: the tray's menu *)
(* and the panel (tintaview/ui/tray.py), which save it at once, the Settings      *)
(* dialog (ui/settings_dialog.py), which saves a copy that the tray applies once  *)
(* the dialog has closed, and a process that may end at any time.  The dialog's   *)
(* event loop is nested, so the menu and the panel go on working under it.        *)
EXTENDS ConfigFile

CONSTANTS
    Files,          \* what may be on disk before the first start
    Edits,          \* what the user leaves in the dialog's controls
    Sections        \* agents whose section the user folds in the panel

VARIABLES
    live,           \* the tray's Config
    disk,
    dialog,         \* its phase, the config it showed, and the one it saved
    running,        \* the tray process is up
    choice,         \* history: what the user chose last, field by field
    behind          \* history: why the file may lack a choice, "failed" and "overwritten"

settingsVars == <<live, disk, dialog, running, choice, behind>>

\* Assumed in Tray.tla.
SettingsAssumption ==
    /\ \A e \in Edits : /\ e.ticks \subseteq DOMAIN Adapters /\ e.colour \in {"kept", "edited", "reset"}
                        /\ e.mode # Junk /\ e.command \in Seq(STRING)
    \* tomllib has read it, and _coerce_value made every list one of strings.
    /\ \A f \in Files : ~Unreadable(f) =>
          /\ DOMAIN f.raw = DOMAIN Defaults
          /\ f.raw.version \in Int /\ f.raw.order \in Seq(STRING)
          /\ Parsed(f.raw.command) \in Seq(STRING)

Closed == [phase |-> "closed", result |-> Defaults]

\* A table the file gained by being written says what no table says.
Detection(tables) == [a \in DOMAIN Adapters |-> IF tables[a] = NoTable THEN "event" ELSE tables[a]]
Chosen(cfg) ==
    [awake |-> cfg.awake, collapsed |-> cfg.collapsed, chime |-> cfg.chime, mode |-> cfg.mode,
     icon |-> cfg.icon, device |-> cfg.device, command |-> cfg.command, enabled |-> cfg.enabled,
     detection |-> Detection(cfg.tables)]

Init ==
    /\ disk \in Files
    /\ running = ~Raises(disk)
    /\ live = (IF running THEN Load(disk) ELSE Defaults) /\ choice = Chosen(live)
    /\ dialog = Closed /\ behind = {}

--------------------------------------------------------------------------------
(* The menu and the panel: change the live config, save it, and log a failure.    *)

SaveLive(cfg) ==
    /\ live' = WithTables(cfg)
    /\ \/ /\ disk' = Dumps(cfg)
          /\ behind' = IF dialog.phase = "prompting" THEN behind \cup {"overwritten"} ELSE {}
       \/ UNCHANGED disk /\ behind' = behind \cup {"failed"}

\* _set_sound, a field the dialog owns too: an OK not yet applied has the last word.
SetSound ==
    /\ running
    /\ \E on \in BOOLEAN :
          /\ SaveLive([live EXCEPT !.chime = on])
          /\ choice' = IF dialog.phase = "prompting" THEN choice ELSE [choice EXCEPT !.chime = on]
    /\ UNCHANGED <<dialog, running>>

SetKeepAwake ==
    /\ running
    /\ \E on \in BOOLEAN :
          SaveLive([live EXCEPT !.awake = on]) /\ choice' = [choice EXCEPT !.awake = on]
    /\ UNCHANGED <<dialog, running>>

\* _on_flyout_toggle.
CollapseSection ==
    /\ running
    /\ \E a \in Sections :
          LET folded == IF a \in live.collapsed THEN live.collapsed \ {a} ELSE live.collapsed \cup {a}
          IN  SaveLive([live EXCEPT !.collapsed = folded]) /\ choice' = [choice EXCEPT !.collapsed = folded]
    /\ UNCHANGED <<dialog, running>>

--------------------------------------------------------------------------------
(* The dialog.                                                                    *)

\* Its tabs are filled from the live config.
Open ==
    /\ running /\ dialog.phase = "closed"
    /\ dialog' = [dialog EXCEPT !.phase = "open"]
    /\ UNCHANGED <<live, disk, running, choice, behind>>

\* A colour the user picked goes to the icon and the device, a reset restores both
\* palettes, and a colour left alone leaves the device's as it is.
Coloured(cfg, colour) ==
    CASE colour = "edited" -> [cfg EXCEPT !.icon = "picked", !.device = "picked"]
      [] colour = "reset" -> [cfg EXCEPT !.icon = Defaults.icon, !.device = Defaults.device]
      [] OTHER -> cfg

\* _seed_new_agent_defaults: an agent without stored settings starts as its adapter says.
Seeded(cfg, newly) ==
    [cfg EXCEPT !.tables = [a \in DOMAIN Adapters |->
        IF a \in newly /\ cfg.tables[a] = NoTable THEN Adapters[a] ELSE cfg.tables[a]]]

\* Mutant: the config as the dialog does not know it, its other fields the defaults.
ResultAlone(e) ==
    Coloured(Seeded([Defaults EXCEPT !.enabled = e.ticks, !.chime = e.chime, !.mode = e.mode,
                                     !.command = e.command], e.ticks \ live.enabled), e.colour)

\* The config as it is at this moment, with the fields the dialog owns.
Result(e) ==
    Coloured(Seeded([live EXCEPT !.enabled = e.ticks, !.chime = e.chime, !.mode = e.mode,
                                 !.command = e.command], e.ticks \ live.enabled), e.colour)

\* _apply_settings: each field the dialog can write is copied into the live config.
Applied(cfg) ==
    [live EXCEPT !.enabled = cfg.enabled, !.tables = cfg.tables, !.chime = cfg.chime,
                 !.mode = cfg.mode, !.command = cfg.command, !.icon = cfg.icon, !.device = cfg.device]

\* _on_accept.  Nothing ticked, or a save that fails, leaves the dialog open; agents whose
\* hooks are missing put up a question before the dialog closes and the tray applies it.
Accept ==
    /\ dialog.phase = "open"
    /\ \E e \in Edits, missing \in SUBSET DOMAIN Adapters :
          LET result == Result(e)
              saved == WithTables(result)
          IN  /\ e.ticks # {} /\ missing \subseteq e.ticks \ live.enabled
              /\ disk' = Dumps(result) /\ choice' = Chosen(result) /\ behind' = {}
              /\ IF missing = {} THEN live' = Applied(saved) /\ dialog' = Closed
                 ELSE dialog' = [phase |-> "prompting", result |-> saved] /\ UNCHANGED live
    /\ UNCHANGED running

\* The question is answered; with a yes the wizard follows, in a process of its own.
Answer ==
    /\ dialog.phase = "prompting"
    /\ live' = Applied(dialog.result) /\ dialog' = Closed
    /\ UNCHANGED <<disk, running, choice, behind>>

\* Cancel, and the wizard's button.
Reject ==
    /\ dialog.phase = "open" /\ dialog' = Closed
    /\ UNCHANGED <<live, disk, running, choice, behind>>

--------------------------------------------------------------------------------
(* The process.                                                                   *)

\* The tray ends, perhaps while it was saving the config.
Ends ==
    /\ running /\ running' = FALSE /\ dialog' = Closed
    /\ IF dialog.phase = "prompting" THEN UNCHANGED disk ELSE disk' \in LeftByACrash(disk, live)
    /\ behind' = IF disk' = disk THEN behind ELSE {}
    /\ UNCHANGED <<live, choice>>

Start ==
    /\ ~running /\ ~Raises(disk) /\ running' = TRUE
    /\ live' = Load(disk) /\ choice' = Chosen(Load(disk)) /\ behind' = {}
    /\ UNCHANGED <<disk, dialog>>

Next == SetSound \/ SetKeepAwake \/ CollapseSection \/ Open \/ Accept \/ Answer \/ Reject
        \/ Ends \/ Start
Spec == Init /\ [][Next]_settingsVars

--------------------------------------------------------------------------------
TypeOK ==
    /\ dialog.phase \in {"closed", "open", "prompting"} /\ running \in BOOLEAN
    /\ behind \subseteq {"failed", "overwritten"}
    /\ DOMAIN live = DOMAIN Defaults /\ DOMAIN choice = DOMAIN Chosen(Defaults)

\* "Never returns a field a consumer can choke on": whatever the file holds that load()
\* returns from, the config a start makes of it is usable, has at least one agent, offers
\* auto mode every engine this build added since the file was written, and keeps the
\* user's order of the others.
LoadedIsUsable ==
    LET cfg == Load(disk)
    IN  ~Raises(disk) =>
          /\ Junk \notin {cfg.mode, cfg.icon, cfg.device} /\ cfg.enabled # {}
          /\ ~Unreadable(disk) =>
                /\ Within(cfg.order, Range(disk.raw.order)) = disk.raw.order
                /\ disk.raw.version < Latest => {"ghub", "steelseries"} \subseteq Range(cfg.order)

\* The last choice of every field is the one in force, whoever made it and however the
\* dialog's copy interleaves with the menu: an OK never writes back a field it does not
\* own, a disabled agent keeps its settings, a first one starts with its adapter's.
LatestChoiceWins == running /\ dialog.phase # "prompting" => Chosen(live) = choice

\* And it survives the process ending at any point, as long as the save went through, no
\* menu toggle was saved over it while the dialog waited for its question's answer, and no
\* string holds a control character, which save() writes as it stands and which makes the
\* next start take every setting for unset.
ChoicesSurviveARestart ==
    behind = {} /\ ~Raises(disk) /\ Legal(choice.command) => Chosen(Load(disk)) = choice

\* "Declining leaves the rest of the settings saved either way" (_offer_hook_install).
AcceptedSettingsStaySaved == "overwritten" \in behind => Chosen(Load(disk)) = choice
================================================================================
