-------------------------------- MODULE Engines --------------------------------
(* The lighting engines behind make_engine (tintaview/engines/factory.py): the    *)
(* configured mode, or what answers a probe first, decides which engine a         *)
(* LightController drives, and whether G HUB is painted in process or through a   *)
(* worker (should_use_ghub_sidecar).  From then on it is that engine's own steps. *)
(* How the wizard and the doctor see that choice is a part of its own (`setup`):  *)
(* they run in processes of their own and build engines only to probe them.       *)
(* Chroma's are in LightController.tla; the null engine has none.                 *)
EXTENDS Integers, Sequences, FiniteSets

CONSTANTS
    Colours, InitAttempts, FailureLimit, MaxCalls, MaxRequests,
    Devices, Direct, Wanted, MaxPorts,
    Order, Machines, MaxChanges

VARIABLES
    pick,           \* the engine make_engine returned, "unmade" before that; or "setup"
    eng, caller, queue, running, thread, stopped, reply, sdk, clean, lit, calls,
    front, client, rpc, nextId, workers, halted,
    conf, link, targets, snapshot, shown, history, painted,
    engine, beat, gg, doubt,
    machine, mode, asker, report, told, steady, changes

GHub        == INSTANCE GHubEngine
Sidecar     == INSTANCE GHubSidecar
OpenRGB     == INSTANCE OpenRGBEngine
SteelSeries == INSTANCE SteelSeriesEngine
Setup       == INSTANCE EngineSetup

survey == <<machine, mode, asker, report, told, steady, changes>>
others == <<eng, caller, queue, running, thread, stopped, reply, sdk, clean, lit>>
vars == <<pick, others, calls, front, client, rpc, nextId, workers, halted, conf, link,
          targets, snapshot, shown, history, painted, engine, beat, gg, doubt, survey>>

Known == Setup!Known

ASSUME PartsAssumption ==
    /\ GHub!ColourAssumption /\ GHub!AttemptAssumption /\ GHub!CallsAssumption
    /\ Sidecar!LimitAssumption /\ OpenRGB!DeviceAssumption /\ OpenRGB!LimitAssumption
    /\ SteelSeries!LimitAssumption /\ SteelSeries!PortAssumption /\ SteelSeries!ColourAssumption
    /\ Setup!OrderAssumption /\ Setup!MachineAssumption /\ Setup!ChangesAssumption

Init ==
    /\ pick \in {"unmade", "setup"}
    /\ GHub!Init /\ Sidecar!Init /\ OpenRGB!Init /\ SteelSeries!Init /\ Setup!Init
    /\ pick = "setup" => conf.directOnly /\ conf.restore     \* of no matter there

\* Building an engine and probing it takes no lights; SteelSeries' probe registers the
\* game, and an engine that answered is picked, so no other is left registered.  A G HUB
\* engine of a windowless tray paints through a worker.  What OpenRGB is configured to do
\* matters to no other engine, so it is only varied for OpenRGB.
Make ==
    /\ pick = "unmade"
    /\ \E wanted \in Setup!Modes \cup {"newer"},
          answers \in SUBSET Known, windowless \in BOOLEAN :
          LET picked == Setup!Picked(wanted, answers)
          IN  /\ pick' = IF picked = "ghub" /\ windowless THEN "sidecar" ELSE picked
              /\ gg' = [gg EXCEPT !.game = (wanted = "auto" /\ picked = "steelseries")]
              /\ picked = "openrgb" \/ (conf.directOnly /\ conf.restore)
    /\ UNCHANGED <<others, calls, front, client, rpc, nextId, workers, halted, conf, link,
                   targets, snapshot, shown, history, painted, engine, beat, doubt, survey>>

DriveGHub ==
    /\ pick = "ghub" /\ GHub!Next
    /\ UNCHANGED <<pick, front, client, rpc, nextId, workers, halted, conf, link, targets,
                   snapshot, shown, history, painted, engine, beat, gg, doubt, survey>>
DriveSidecar ==
    /\ pick = "sidecar" /\ Sidecar!Next
    /\ UNCHANGED <<pick, others, calls, conf, link, targets, snapshot, shown, history,
                   painted, engine, beat, gg, doubt, survey>>
DriveOpenRGB ==
    /\ pick = "openrgb" /\ OpenRGB!Next
    /\ UNCHANGED <<pick, others, front, client, rpc, nextId, workers, halted, engine, beat,
                   gg, doubt, survey>>
DriveSteelSeries ==
    /\ pick = "steelseries" /\ SteelSeries!Next
    /\ UNCHANGED <<pick, others, front, client, rpc, nextId, workers, halted, conf, link,
                   targets, snapshot, shown, history, painted, survey>>
DriveSetup ==
    /\ pick = "setup" /\ Setup!Next
    /\ UNCHANGED <<pick, others, calls, front, client, rpc, nextId, workers, halted, conf, link,
                   targets, snapshot, shown, history, painted, engine, beat, gg, doubt>>

Next == Make \/ DriveGHub \/ DriveSidecar \/ DriveOpenRGB \/ DriveSteelSeries \/ DriveSetup

\* The waits for the pump and for the worker run out (their engines' Fairness).
Spec == Init /\ [][Next]_vars
             /\ WF_vars(DriveGHub /\ GHub!CallerSteps)
             /\ WF_vars(DriveSidecar /\ Sidecar!Client)

--------------------------------------------------------------------------------
TypeOK ==
    /\ pick \in Known \cup {"unmade", "sidecar", "setup"}
    /\ GHub!TypeOK /\ Sidecar!TypeOK /\ OpenRGB!TypeOK /\ SteelSeries!TypeOK /\ Setup!TypeOK

\* The engines' correctness, stated and explained in their own modules.
ClosedIsReleased       == GHub!ClosedIsReleased
OpenThreadHoldsTheSdk  == GHub!OpenThreadHoldsTheSdk
PaintedIsShown         == GHub!PaintedIsShown
BothSidesAgree         ==
    /\ Sidecar!PipeInStep /\ Sidecar!BothSidesAgree /\ Sidecar!OneWorkerPaints
    /\ Setup!DoctorSeesWhatTheTrayDoes /\ Setup!SetMeansAnswering
ReleasedIsRestored     == OpenRGB!ReleasedIsRestored
LightsFollowTheSession == SteelSeries!LightsFollowTheSession
CloseRestoresTheUsersLighting == OpenRGB!CloseRestoresTheUsersLighting

\* No vendor holds up the controller for good: whatever the SDK or the worker does, a
\* call of the engine comes back.
CallsReturn == GHub!CallsReturn /\ Sidecar!RequestsReturn
================================================================================
