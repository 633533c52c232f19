------------------------------- MODULE Runtime -------------------------------
(***************************************************************************)
(* The source's runtime (mouser-engine/src/runtime.rs): the capture        *)
(* thread, the control receiver, the ticker and the mode task share one    *)
(* core behind a mutex.  A task locks the core only for the handler; the   *)
(* actions it returns are applied one by one after the unlock, so those of *)
(* two tasks interleave.  The peer is a whole core whose own steps are     *)
(* atomic; the sender task, which only passes frames on in the order they  *)
(* were queued, is folded into the control stream.  Motion datagrams are   *)
(* Session's business: sending one has no effect here.                     *)
(***************************************************************************)
EXTENDS EngineCore

CONSTANTS
    Moves,            \* cursor samples <<x, dx>>
    Platforms,        \* what the source's platform may be like: "ok", "cannot"
                      \* (set_mode succeeds without suppressing local input),
                      \* "error" (set_mode may fail), "no_warp" (a warp may be
                      \* refused; bound: once)
    MaxCross,         \* bound: input is handed over only below this epoch
    MaxSeq            \* bound: motion samples per epoch

VARIABLES
    core,      \* core[d]: the EngineCore of device d
    ctl,       \* ctl[d]: control frames queued for d
    todo,      \* todo[t]: actions of task t that are still to be applied
    mode_q,    \* the capture-mode channel
    captured,  \* the mode the capture adapter is in
    platform,  \* what the source's platform is like
    cursor,    \* whether the source's cursor is shown
    snapshot   \* the owner and epoch last sent to the embedder

vars == <<core, ctl, todo, mode_q, captured, platform, cursor, snapshot>>

Task == {"capture", "control", "ticker", "mode"}
S == core[SourceId]
T == core[TargetId]

SnapshotOf(c) == [owner |-> c.own.owner, epoch |-> c.own.epoch]

\* start_with_interval, up to the dispatch of the initial actions.
Init ==
    /\ core = [d \in Device |-> NewCore(d)]
    /\ ctl = [d \in Device |-> <<>>]
    /\ todo = [t \in Task |-> <<>>]
    /\ LET first == InitialActions(NewCore(SourceId))
       IN  cursor = first[1].visible /\ mode_q = <<first[2].mode>>
    /\ captured = "Off"
    /\ platform \in Platforms
    /\ snapshot = SnapshotOf(NewCore(SourceId))
-----------------------------------------------------------------------------
(* Handlers: what happens under the lock.                                  *)

\* Actions with an effect this module keeps.
Kept(r) ==
    SelectSeq(r.acts,
              LAMBDA a : /\ a.act \notin {"Capture", "SendMotion"}
                         /\ a # SendControl(HeartbeatMsg))

\* Task t is between two handlers and runs one; its actions wait.
Locked(t, r) ==
    /\ todo[t] = <<>>
    /\ core' = [core EXCEPT ![SourceId] = r.core]
    /\ todo' = [todo EXCEPT ![t] = Kept(r)]

\* feed_local on the capture thread.
FeedLocal(x, dx) ==
    LET r == OnCursor(S, x, dx)
    IN  /\ captured # "Off"
        /\ r.core.own.owner = TargetId /\ Owns(S) => S.own.epoch < MaxCross
        /\ r.core.out_seq <= MaxSeq
        /\ Locked("capture", r)
        /\ UNCHANGED <<ctl, mode_q, captured, platform, cursor, snapshot>>

ControlReceiver ==
    /\ ctl[SourceId] # <<>>
    /\ Locked("control", OnControl(S, Head(ctl[SourceId])))
    /\ ctl' = [ctl EXCEPT ![SourceId] = Tail(@)]
    /\ UNCHANGED <<mode_q, captured, platform, cursor, snapshot>>

Ticker ==
    /\ Locked("ticker", OnTick(S))
    /\ UNCHANGED <<ctl, mode_q, captured, platform, cursor, snapshot>>

\* The mode task has found that local input is not suppressed and is about to
\* lock the core.
SuppressFailed == [act |-> "SuppressFailed"]

\* Mutant: a failed switch to ActiveForward is only logged.
AfterSetModeLogged(mode, outcome) == <<>>

\* What the mode task does about the outcome of set_mode: fail closed.
AfterSetMode(mode, outcome) ==
    IF mode = "ActiveForward" /\ outcome # "ok" THEN <<SuppressFailed>> ELSE <<>>

\* A platform without suppression switches all the same.
OutcomesOf(mode) ==
    CASE platform = "error" -> {"ok", "error"}
      [] platform = "cannot" /\ mode = "ActiveForward" -> {"cannot"}
      [] OTHER -> {"ok"}

\* The mode task applies the next mode; a switch that fails leaves capture off.
ModeTask ==
    /\ todo["mode"] = <<>>
    /\ mode_q # <<>>
    /\ mode_q' = Tail(mode_q)
    /\ LET m == Head(mode_q)
       IN  \E o \in OutcomesOf(m) :
              /\ captured' = IF o = "error" THEN "Off" ELSE m
              /\ todo' = [todo EXCEPT !["mode"] = AfterSetMode(m, o)]
    /\ UNCHANGED <<core, ctl, platform, cursor, snapshot>>
-----------------------------------------------------------------------------
(* Dispatch: what happens after the unlock, one action at a time.          *)

\* Task t locks again in the middle of its list: the actions of the handler
\* are applied before the rest.
Relock(t, r) ==
    /\ core' = [core EXCEPT ![SourceId] = r.core]
    /\ todo' = [todo EXCEPT ![t] = Kept(r) \o Tail(@)]
    /\ UNCHANGED <<ctl, mode_q, captured, platform, cursor, snapshot>>

Apply(a) ==
    /\ ctl' = IF a.act = "SendControl"
              THEN [ctl EXCEPT ![TargetId] = Append(@, a.msg)] ELSE ctl
    /\ mode_q' = IF a.act = "SetCaptureMode" THEN Append(mode_q, a.mode)
                 ELSE mode_q
    /\ cursor' = IF a.act = "SetCursorVisible" THEN a.visible ELSE cursor
    /\ snapshot' = IF a.act = "OwnerChanged"
                   THEN [owner |-> a.owner, epoch |-> a.epoch] ELSE snapshot

\* One more action of task t; an injection the platform refuses and a failed
\* suppression go back to the core.
Dispatch(t) ==
    /\ todo[t] # <<>>
    /\ \/ /\ Head(todo[t]) # SuppressFailed
          /\ Apply(Head(todo[t]))
          /\ todo' = [todo EXCEPT ![t] = Tail(@)]
          /\ UNCHANGED <<core, captured, platform>>
       \/ /\ Head(todo[t]).act = "Inject"
          /\ platform = "no_warp" /\ S.input_allowed
          /\ Relock(t, OnInjectionFailed(S))
       \/ /\ Head(todo[t]) = SuppressFailed
          /\ Relock(t, OnSuppressUnavailable(S))
-----------------------------------------------------------------------------
(* The peer.                                                               *)

PeerTakes(r, q) ==
    /\ core' = [core EXCEPT ![TargetId] = r.core]
    /\ \E frames \in Frames(TargetId, r) : ctl' = [q EXCEPT ![SourceId] = Enqueue(@, frames)]
    /\ UNCHANGED <<todo, mode_q, captured, platform, cursor, snapshot>>

PeerReceives ==
    /\ ctl[TargetId] # <<>>
    /\ PeerTakes(OnControl(T, Head(ctl[TargetId])), [ctl EXCEPT ![TargetId] = Tail(@)])

\* Bound: one heartbeat on its way at a time.
PeerTicks ==
    /\ \A i \in DOMAIN ctl[SourceId] : ctl[SourceId][i] # HeartbeatMsg
    /\ PeerTakes(OnTick(T), ctl)

Next ==
    \/ \E mv \in Moves : FeedLocal(mv[1], mv[2])
    \/ ControlReceiver
    \/ Ticker
    \/ ModeTask
    \/ \E t \in Task : Dispatch(t)
    \/ PeerReceives
    \/ PeerTicks

Spec == Init /\ [][Next]_vars
-----------------------------------------------------------------------------
(* Properties.                                                             *)

Idle == \A t \in Task : todo[t] = <<>>
Drained == mode_q = <<>> /\ ctl[SourceId] = <<>> /\ ctl[TargetId] = <<>>

\* The channels carry what the code puts there and the cores keep their ids.
TypeOK ==
    /\ \A d \in Device : core[d].own \in View /\ core[d].own.me = d
    /\ \A i \in DOMAIN mode_q : mode_q[i] \in {"PassiveEdge", "ActiveForward"}
    /\ captured \in {"Off", "PassiveEdge", "ActiveForward"}
    /\ cursor \in BOOLEAN
    /\ snapshot \in [owner: Device, epoch: Epoch]

\* The epochs protect the wire from the race: although transfers of two tasks
\* may be queued in the wrong order, once everything queued is delivered both
\* machines name the same owner and epoch.
WireSurvivesReordering ==
    Idle /\ Drained /\ S.input_allowed /\ S.own.epoch + T.own.epoch > 0 =>
        S.own.owner = T.own.owner /\ S.own.epoch = T.own.epoch

\* The target never injects under an epoch the source has not given away, even
\* while the transfer that says so waits behind another task's actions.
NoTwoDrivers ==
    AuthorizeInject(T, T.own.epoch) =>
        \/ S.own.epoch > T.own.epoch
        \/ S.own.epoch = T.own.epoch /\ S.own.owner = TargetId

\* Together: the wire is as coherent as if the core's steps were atomic.
WireIsCoherent == TypeOK /\ NoTwoDrivers /\ WireSurvivesReordering

\* Fail closed: a source whose platform cannot suppress does not drive the peer
\* once every task is idle and the mode task has caught up, however the modes of
\* several tasks were queued.
FailsClosed ==
    Idle /\ mode_q = <<>> /\ platform = "cannot" => Owns(S)
=============================================================================
