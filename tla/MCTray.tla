--------------------------------- MODULE MCTray ---------------------------------
(* A small instance of Tray for TLC: settings that reorder, disable and hide each  *)
(* other's sections, and config files of a fresh install, of an older version with *)
(* values nobody can use, of a user's quoting and escapes, and one load() raises   *)
(* on.                                                                             *)
EXTENDS Tray, TLC

LOCAL INSTANCE ConfigFile

P(enabled, alerts, threshold, network, clocks) ==
    [enabled |-> enabled, alerts |-> alerts, threshold |-> threshold, network |-> network,
     clocks |-> clocks]
MCPanelConfigs ==
    {P(<<"claude">>, TRUE, 1, TRUE, TRUE), P(<<"codex", "claude">>, FALSE, 2, FALSE, FALSE)}

MCAdapters == [claude |-> "event", cursor |-> "stall"]
Older ==
    [Defaults EXCEPT !.version = 2, !.order = <<"openrgb", "chroma">>, !.icon = Junk,
                     !.enabled = {}, !.command = TomlString(<<"'", "\\", "\"">>)]
MCFiles ==
    {[kind |-> "absent"], [kind |-> "malformed"], [kind |-> "raises"], [kind |-> "toml", raw |-> Older],
     [kind |-> "toml", raw |-> [Older EXCEPT
         !.command = [quoted |-> "\"", text |-> <<"\\", "r", "\\", "\"">>]]],
     [kind |-> "toml", raw |-> [Older EXCEPT !.enabled = {"claude", "cursor"},
                                             !.order = <<"openrgb">>, !.mode = Junk, !.device = Junk]]}
E(ticks, chime, mode, colour, command) ==
    [ticks |-> ticks, chime |-> chime, mode |-> mode, colour |-> colour, command |-> command]
MCEdits ==
    {E({"claude"}, TRUE, "ghub", "edited", <<"a", "\n", "\\">>),
     E({"claude", "cursor"}, FALSE, "auto", "kept", <<"'", "\r", "\"">>),
     E({"claude"}, FALSE, "auto", "kept", <<"'", "\"">>),
     E({}, FALSE, "auto", "reset", <<>>), E({"cursor"}, FALSE, "auto", "reset", <<>>)}

MCWindows == [claude |-> {2}, codex |-> {}]

MCBatches == {<<"notify">>, <<"blank">>, <<"notify", "ping">>, <<"silent">>, <<"garbage">>}
================================================================================
