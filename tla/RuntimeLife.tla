----------------------------- MODULE RuntimeLife -----------------------------
(***************************************************************************)
(* The end of a session: how the death of the connection, seen by any of   *)
(* the three network tasks, reaches the daemon's session loop              *)
(* (runtime/liveness.rs, DeathState), and how RuntimeHandle::shutdown      *)
(* tears the runtime down while the mode task may be in the middle of a    *)
(* switch.  What the tasks do while the connection lives is Runtime and    *)
(* Session.                                                                *)
(***************************************************************************)
EXTENDS Naturals, FiniteSets

CONSTANTS
    NetTask,      \* the sender, the control and the motion receiver
    MaxUpdates    \* bound: times another branch of the session's select wins

ASSUME LifeAssumption == MaxUpdates \in Nat

VARIABLES
    dead,        \* DeathState.dead
    reason,      \* DeathState.reason: the task that gave it, or "none"
    cancelled,   \* the cancellation token
    net,         \* net[t]: where network task t is
    waiter,      \* where the session's current wait_dead future is
    registered,  \* that future is on the Notify's list
    woken,       \* notify_waiters reached it
    updates,     \* how often another branch won so far
    session,     \* the session loop and the steps of shutdown
    moder,       \* the mode task
    capture      \* the adapter captures

death == <<dead, reason, cancelled>>
waiting == <<waiter, registered, woken, updates>>
local == <<moder, capture>>
vars == <<death, net, waiting, session, local>>

Init ==
    /\ dead = FALSE /\ reason = "none" /\ cancelled = FALSE
    /\ net = [t \in NetTask |-> "run"]
    /\ waiter = "new" /\ registered = FALSE /\ woken = FALSE /\ updates = 0
    /\ session = "loop"
    /\ moder = "await" /\ capture = TRUE
-----------------------------------------------------------------------------
(* DeathState::mark, called by a network task whose connection failed.  It *)
(* has no await: an abort cannot cut it short.                             *)

\* dead.swap: only the first failure goes on.
Swap(t) ==
    /\ net[t] = "run"
    /\ dead' = TRUE
    /\ net' = [net EXCEPT ![t] = IF dead THEN "ended" ELSE "first"]
    /\ UNCHANGED <<reason, cancelled, waiting, session, local>>

SetReason(t) ==
    /\ net[t] = "first"
    /\ reason' = t
    /\ net' = [net EXCEPT ![t] = "reasoned"]
    /\ UNCHANGED <<dead, cancelled, waiting, session, local>>

\* conn.close, then cancel.cancel.
CloseAndCancel(t) ==
    /\ net[t] = "reasoned"
    /\ cancelled' = TRUE
    /\ net' = [net EXCEPT ![t] = "closed"]
    /\ UNCHANGED <<dead, reason, waiting, session, local>>

\* notify_waiters: wakes the registered future, stores no permit.
NotifyWaiters(t) ==
    /\ net[t] = "closed"
    /\ woken' = (woken \/ registered)
    /\ net' = [net EXCEPT ![t] = "ended"]
    /\ UNCHANGED <<death, waiter, registered, updates, session, local>>

\* A task at its select sees the token, or shutdown's abort.
NetStops(t) ==
    /\ net[t] = "run" /\ cancelled
    /\ net' = [net EXCEPT ![t] = "ended"]
    /\ UNCHANGED <<death, waiting, session, local>>
-----------------------------------------------------------------------------
(* DeathState::wait in the session's select (serve_session.rs).            *)

\* Mutant: the future registers only when it is first awaited.
EnableLater ==
    /\ session = "loop" /\ waiter = "new"
    /\ waiter' = "enabled" /\ registered' = FALSE
    /\ UNCHANGED <<death, net, woken, updates, session, local>>

\* notified().enable()
Enable ==
    /\ session = "loop" /\ waiter = "new"
    /\ waiter' = "enabled" /\ registered' = TRUE
    /\ UNCHANGED <<death, net, woken, updates, session, local>>

\* is_dead: return at once.
CheckDead ==
    /\ session = "loop" /\ waiter = "enabled"
    /\ waiter' = IF dead THEN "returned" ELSE "checked"
    /\ UNCHANGED <<death, net, registered, woken, updates, session, local>>

\* notified.await: its first poll registers the future if that is still to do.
Await ==
    /\ session = "loop" /\ waiter = "checked"
    /\ waiter' = "awaiting" /\ registered' = TRUE
    /\ UNCHANGED <<death, net, woken, updates, session, local>>

Wake ==
    /\ session = "loop" /\ waiter = "awaiting" /\ woken
    /\ waiter' = "returned"
    /\ UNCHANGED <<death, net, registered, woken, updates, session, local>>

\* Another branch wins: the future is dropped, the next turn makes a new one.
OtherBranch ==
    /\ session = "loop" /\ waiter = "awaiting"
    /\ updates < MaxUpdates
    /\ updates' = updates + 1
    /\ waiter' = "new" /\ registered' = FALSE /\ woken' = FALSE
    /\ UNCHANGED <<death, net, session, local>>
-----------------------------------------------------------------------------
(* The session ends (the connection died, or a disconnect, a switch or     *)
(* Ctrl-C came) and shutdown runs: cancel and abort, then the cursor and   *)
(* capture.                                                                *)

EndSession ==
    /\ session = "loop"
    /\ waiter \in {"returned", "awaiting"}
    /\ session' = "stop"
    /\ cancelled' = TRUE
    /\ UNCHANGED <<dead, reason, net, waiting, local>>

StopCapture ==
    /\ session = "stop"
    /\ capture' = FALSE
    /\ session' = "over"
    /\ UNCHANGED <<death, net, waiting, moder>>
-----------------------------------------------------------------------------
(* The mode task, as far as shutdown meets it.                             *)

\* The mode task takes a mode from its channel; from here to its next await
\* neither the token nor an abort stops it.
TakeMode ==
    /\ moder = "await" /\ ~cancelled
    /\ moder' = "set_mode"
    /\ UNCHANGED <<death, net, waiting, session, capture>>

SetMode ==
    /\ moder = "set_mode"
    /\ capture' = TRUE
    /\ moder' = "await"
    /\ UNCHANGED <<death, net, waiting, session>>

ModeStops ==
    /\ moder = "await" /\ cancelled
    /\ moder' = "ended"
    /\ UNCHANGED <<death, net, waiting, session, capture>>

Done ==
    /\ session = "over" /\ moder = "ended"
    /\ \A t \in NetTask : net[t] = "ended"
    /\ UNCHANGED vars

NetNext(t) ==
    Swap(t) \/ SetReason(t) \/ CloseAndCancel(t) \/ NotifyWaiters(t) \/ NetStops(t)

Next ==
    \/ \E t \in NetTask : NetNext(t)
    \/ Enable \/ CheckDead \/ Await \/ Wake \/ OtherBranch
    \/ EndSession \/ StopCapture
    \/ TakeMode \/ SetMode \/ ModeStops
    \/ Done

Spec == Init /\ [][Next]_vars

\* Running code runs on and a woken task is polled; no failure, no disconnect
\* and no user input is promised.
Fairness ==
    /\ \A t \in NetTask :
          WF_vars(SetReason(t) \/ CloseAndCancel(t) \/ NotifyWaiters(t) \/ NetStops(t))
    /\ WF_vars(Enable) /\ WF_vars(CheckDead) /\ WF_vars(Await) /\ WF_vars(Wake)
    /\ WF_vars(StopCapture) /\ WF_vars(SetMode) /\ WF_vars(ModeStops)

FairSpec == Spec /\ Fairness
-----------------------------------------------------------------------------
(* Properties.                                                             *)

\* However the failure interleaves with the session's wait, and however often
\* that wait is dropped and made again, the session learns of the death: the
\* wakeup is never lost.
DeathReachesSession == dead ~> (waiter = "returned" \/ session # "loop")

\* One network task's failure ends its siblings.
DeathStopsTasks == dead ~> \A t \in NetTask : net[t] = "ended"

\* Together: a death is seen by the session and by every sibling.
DeathIsSeen == DeathReachesSession /\ DeathStopsTasks
=============================================================================
