----------------------------- MODULE OpenRGBEngine -----------------------------
(* TintaView's OpenRGB engine (tintaview/engines/openrgb.py) over an OpenRGB      *)
(* server, which is external: it keeps what a device was last told when a client  *)
(* goes away, and is restarted whenever the user likes.  The controller calls the *)
(* engine under its lock, so a call is one step; in each, every device may refuse *)
(* what it is asked by itself.                                                    *)
EXTENDS Integers, FiniteSets

CONSTANTS
    Devices,       \* the server's devices
    Direct,        \* those with a Direct mode
    Wanted,        \* those of cfg.device_types
    Colours,       \* what the engine is asked to paint
    FailureLimit,  \* _SET_FAILURE_LIMIT
    MaxCalls       \* bound: calls of the engine

\* Assumed in Engines.tla.
DeviceAssumption == Direct \subseteq Devices /\ Wanted \subseteq Devices
LimitAssumption  == FailureLimit \in Nat \ {0} /\ MaxCalls \in Nat

VARIABLES
    conf,     \* cfg.direct_mode_only, cfg.restore_on_release
    link,     \* the engine: _client and whether its socket still works, _failures, cooldown
    targets,  \* _targets
    snapshot, \* _snapshot: what each device showed when open() began
    shown,    \* each device's mode and colour
    history,  \* whether a device refused a call over a live connection, the connection was
              \* ever dropped, one was ever closed dead, and close() was called last
    painted,  \* history: the devices set_color reached since open()
    calls     \* the bound's counter

ovars == <<conf, link, targets, snapshot, shown, history, painted, calls>>

Own == [mode |-> "effect", colour |-> "own"]
NoLink == [open |-> FALSE, live |-> FALSE, failures |-> 0, cooldown |-> FALSE]

Init ==
    /\ conf \in [directOnly : BOOLEAN, restore : BOOLEAN]
    /\ link = NoLink /\ targets = {} /\ snapshot = <<>>
    /\ shown = [d \in Devices |-> Own]
    /\ history = [failed |-> FALSE, dropped |-> FALSE, lost |-> FALSE, closed |-> FALSE]
    /\ painted = {} /\ calls = 0

Active == link.open /\ targets # {}

\* _select_devices, which the probe and open() share.
Candidates == IF conf.directOnly THEN Wanted \cap Direct ELSE Wanted

InDirect(ds) == [d \in Devices |-> IF d \in ds THEN [shown[d] EXCEPT !.mode = "direct"]
                                               ELSE shown[d]]

\* Mutant: the snapshot is taken of devices already switched to Direct mode.
SnapshotOfSwitched(ds) == [d \in ds |-> IF conf.directOnly THEN InDirect(ds)[d] ELSE shown[d]]

\* What open() notes of the devices that tell, before it changes anything.
SnapshotOf(ds) == [d \in ds |-> shown[d]]

\* open(): refused in a cooldown, without a server, and without a device to drive.
Open ==
    /\ ~Active /\ ~link.cooldown /\ calls < MaxCalls
    /\ calls' = calls + 1
    /\ \/ /\ link' = [link EXCEPT !.cooldown = TRUE]
          /\ UNCHANGED <<targets, snapshot, shown, history, painted>>
       \/ /\ Candidates # {}
          /\ \E told, switched \in SUBSET Candidates :
                /\ snapshot' = IF conf.restore THEN SnapshotOf(told) ELSE <<>>
                /\ shown' = IF conf.directOnly THEN InDirect(switched) ELSE shown
                /\ history' = [history EXCEPT !.closed = FALSE,
                                              !.failed = @ \/ told # Candidates]
          /\ link' = [open |-> TRUE, live |-> TRUE, failures |-> 0, cooldown |-> FALSE]
          /\ targets' = Candidates
          /\ painted' = {}
    /\ UNCHANGED conf

\* Mutant: the connection outlives the last failure that is allowed.
NoteSetOneMore(reached) ==
    LET failures == IF reached # {} THEN 0 ELSE link.failures + 1
        drops    == failures > FailureLimit
    IN  /\ link' = IF drops THEN [NoLink EXCEPT !.cooldown = link.cooldown]
                            ELSE [link EXCEPT !.failures = failures]
        /\ targets' = IF drops THEN {} ELSE targets
        /\ snapshot' = IF drops THEN <<>> ELSE snapshot
        /\ history' = [history EXCEPT !.dropped = @ \/ drops,
                                      !.failed = @ \/ (link.live /\ reached # targets)]

\* _note_set: a write that reached no device counts, and the last one allowed drops the
\* connection with its snapshot.
NoteSet(reached) ==
    LET failures == IF reached # {} THEN 0 ELSE link.failures + 1
        drops    == failures = FailureLimit
    IN  /\ link' = IF drops THEN [NoLink EXCEPT !.cooldown = link.cooldown]
                            ELSE [link EXCEPT !.failures = failures]
        /\ targets' = IF drops THEN {} ELSE targets
        /\ snapshot' = IF drops THEN <<>> ELSE snapshot
        /\ history' = [history EXCEPT !.dropped = @ \/ drops,
                                      !.failed = @ \/ (link.live /\ reached # targets)]

\* set_color(): each device takes the colour or not; a dead socket reaches none.
SetColor(c) ==
    /\ Active /\ calls < MaxCalls
    /\ calls' = calls + 1
    /\ \E reached \in SUBSET (IF link.live THEN targets ELSE {}) :
          /\ shown' = [d \in Devices |-> IF d \in reached THEN [shown[d] EXCEPT !.colour = c]
                                                          ELSE shown[d]]
          /\ painted' = painted \cup reached
          /\ NoteSet(reached)
    /\ UNCHANGED conf

\* close(): what was noted is put back, device by device, and the connection closed.
Close ==
    /\ link.open
    /\ LET noted == IF conf.restore THEN targets \cap DOMAIN snapshot ELSE {}
       IN  \E restored \in SUBSET (IF link.live THEN noted ELSE {}) :
              /\ shown' = [d \in Devices |-> IF d \in restored THEN snapshot[d] ELSE shown[d]]
              /\ history' = [history EXCEPT !.closed = TRUE, !.lost = @ \/ ~link.live,
                                            !.failed = @ \/ (link.live /\ restored # noted)]
    /\ link' = [NoLink EXCEPT !.cooldown = link.cooldown]
    /\ targets' = {} /\ snapshot' = <<>>
    /\ UNCHANGED <<conf, painted, calls>>

\* External: the server is restarted (its devices stay as they are); a minute passes.
ServerRestarts ==
    /\ link.live
    /\ link' = [link EXCEPT !.live = FALSE]
    /\ UNCHANGED <<conf, targets, snapshot, shown, history, painted, calls>>
CooldownEnds ==
    /\ link.cooldown
    /\ link' = [link EXCEPT !.cooldown = FALSE]
    /\ UNCHANGED <<conf, targets, snapshot, shown, history, painted, calls>>

Next == Open \/ (\E c \in Colours : SetColor(c)) \/ Close \/ ServerRestarts \/ CooldownEnds

Spec == Init /\ [][Next]_ovars

--------------------------------------------------------------------------------
(* Correctness *)

TypeOK ==
    /\ conf \in [directOnly : BOOLEAN, restore : BOOLEAN]
    /\ link \in [open : BOOLEAN, live : BOOLEAN, failures : 0 .. FailureLimit - 1,
                 cooldown : BOOLEAN]
    /\ targets \subseteq Devices /\ DOMAIN snapshot \subseteq Devices
    /\ shown \in [Devices -> [mode : {"effect", "direct"}, colour : Colours \cup {"own"}]]
    /\ history \in [failed : BOOLEAN, dropped : BOOLEAN, lost : BOOLEAN, closed : BOOLEAN]
    /\ painted \subseteq Devices /\ calls \in 0 .. MaxCalls

\* After close() every device shows what it did before TintaView came, unless a device
\* refused, the connection was lost or the configuration asks for no restore; and no
\* device that lacks a Direct mode, or was not asked for, is painted (the flash-wear rule).
ReleasedIsRestored ==
    /\ ~link.open /\ conf.restore /\ ~history.failed /\ ~history.lost /\ ~history.dropped
        => shown = [d \in Devices |-> Own]
    /\ painted \subseteq Candidates

\* close() is to "restore whatever the user's lighting was before" (engines/base.py), also
\* when the connection was dropped and opened anew in between.
CloseRestoresTheUsersLighting ==
    history.closed /\ conf.restore /\ ~history.failed /\ ~history.lost
        => shown = [d \in Devices |-> Own]
================================================================================
