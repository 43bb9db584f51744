-------------------------------- MODULE MCInstall -------------------------------
(* A small instance of Install for TLC: hook files that are not there, or are left   *)
(* from another installation with the user's hooks between ours; and the versions   *)
(* of semver's own example, with releases after them.                               *)
EXTENDS Install, TLC

B(event, does) == [event |-> event, does |-> does]
MCBindings == <<B("e1", "a"), B("e1", "b"), B("e2", "c")>>

C(by, does) == [by |-> by, does |-> does]
F(kind, tidy, first, second2) ==
    [kind |-> kind, tidy |-> tidy, own |-> 0,
     hooks |-> [e \in {"e1", "e2"} |-> IF e = "e1" THEN first ELSE second2],
     allow |-> FALSE, server |-> "none", legacy |-> "none", modern |-> "none"]
Absent == F("absent", TRUE, <<>>, <<>>)
Mixed  == F("json", FALSE, << <<C("user", "own"), C("old", "a")>>, <<C("old", "b")>> >>, << <<C("old", "c")>> >>)
MCStarts ==
    {<<Absent, Absent>>,
     <<Mixed, [Absent EXCEPT !.kind = "json", !.server = "old", !.legacy = "on", !.modern = "off"]>>}

\* Codex in the distro only (so that doctor learns no version), and the same on both sides.
MCCodex == {[here |-> "unknown", distro |-> "gated"], [here |-> "gated", distro |-> "gated"]}

V(core, pre) == [core |-> core, pre |-> pre]
MCVersions ==
    << V(<<1, 0, 0>>, <<<<1, 1>>>>), V(<<1>>, <<<<1, 1>>, <<0, 1>>>>),
       V(<<1, 0>>, <<<<1, 2>>, <<0, 2>>>>), V(<<1, 0, 0>>, <<<<1, 2>>, <<0, 11>>>>),
       V(<<1, 0>>, <<>>), V(<<1, 2>>, <<>>), V(<<1, 10, 0>>, <<>>) >>

Payload(on, spaces, names) == [system |-> on, spaced |-> spaces, input |-> names]
MCInputs ==
    {Payload("posix", FALSE, "agent"), Payload("windows", FALSE, "session"), Payload("windows", TRUE, "plain")}
================================================================================
