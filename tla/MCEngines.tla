------------------------------- MODULE MCEngines -------------------------------
(* A small instance of Engines for TLC: an order that names an engine this build  *)
(* does not know, a device without a Direct mode beside one nobody asked for, and *)
(* machines that lack different things.                                           *)
EXTENDS Engines

MCOrder == <<"chroma", "newer", "ghub", "steelseries", "openrgb">>

Bare == [platform |-> "windows", synapse |-> FALSE, gg |-> FALSE, dll |-> "none",
         agent |-> FALSE, tasks |-> TRUE, dynamic |-> "off", apps |-> "unreadable",
         library |-> FALSE, server |-> "off"]
Installed == [Bare EXCEPT !.dll = "installed", !.agent = TRUE]

MCMachines == {
    Bare,
    [Installed EXCEPT !.agent = FALSE, !.apps = "missing", !.dynamic = "on", !.synapse = TRUE],
    [Installed EXCEPT !.tasks = FALSE, !.dynamic = "unset"],
    [Installed EXCEPT !.library = TRUE, !.server = "empty"],
    [Bare EXCEPT !.platform = "macos", !.tasks = FALSE, !.gg = TRUE, !.library = TRUE],
    [Bare EXCEPT !.platform = "linux", !.tasks = FALSE, !.dll = "configured", !.server = "up"]}
================================================================================
