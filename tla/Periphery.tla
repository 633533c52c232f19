----------------------------- MODULE Periphery -----------------------------
(***************************************************************************)
(* What works beside a session, as one specification: the platform         *)
(* adapters (the capture modes, the path of an event, the pointer) and the *)
(* replicated cluster state.  A behaviour exercises one part of these,     *)
(* which share no state; of the cluster state, one kind of item.           *)
(***************************************************************************)
EXTENDS CaptureModes, CaptureEvents, Pointer, SharedState

CONSTANT Paths      \* <<source, target>> platforms whose event path is checked

OS == {"macos", "windows", "linux"}

ASSUME PathsArePlatforms == Paths \subseteq OS \X OS

VARIABLE part

allVars == <<part, modeVars, pathVars, cursorVars, stateVars>>

\* What a part that is not exercised holds still.
StillPath == CHOOSE p \in Paths : TRUE
StillActor == CHOOSE f \in Injection(Replica, Actor) : TRUE
StillMonitors == CHOOSE ms \in Arrangement : TRUE

\* Only the editor of a layout tells replicas apart: otherwise one order of
\* their actors stands for all.
ActorsInOrder == \A r, s \in Replica : r < s => actor[r] < actor[s]

Init ==
    /\ part \in {"modes", "events", "pointer"} \cup Items
    /\ os \in (IF part = "modes" THEN OS ELSE {"linux"})
    /\ \E p \in (IF part = "events" THEN Paths ELSE {StillPath}) : source = p[1] /\ target = p[2]
    /\ host \in (IF part = "pointer" THEN OS ELSE {"linux"})
    /\ ModesInit /\ PathInit /\ PointerInit /\ StateInit
    /\ part = "pointer" \/ monitors = StillMonitors
    /\ part \in Items \/ actor = StillActor
    /\ part \in Items \ {"layout"} => ActorsInOrder

Next ==
    \/ part = "modes" /\ ModesNext /\ UNCHANGED <<part, pathVars, cursorVars, stateVars>>
    \/ part = "events" /\ PathNext /\ UNCHANGED <<part, modeVars, cursorVars, stateVars>>
    \/ part = "pointer" /\ PointerNext /\ UNCHANGED <<part, modeVars, pathVars, stateVars>>
    \/ part \in Items /\ StateNext(part) /\ UNCHANGED <<part, modeVars, pathVars, cursorVars>>

Spec == Init /\ [][Next]_allVars
=============================================================================
