----------------------------- MODULE EngineCore -----------------------------
(***************************************************************************)
(* The sans-IO engine of mouser-engine/src/core.rs, core/types.rs and      *)
(* core/wire.rs: every public handler is an operator from a core and its   *)
(* input to a result, the next core and the actions the runtime must apply *)
(* in order.  Session runs two cores against each other with each action   *)
(* list applied in one step; Runtime interleaves the tasks of one machine. *)
(*                                                                         *)
(* Data abstracted: the peer sits across the right edge and only the       *)
(* crossing axis is kept (the other three edges are mirror images, the     *)
(* off-axis coordinate never decides anything); heartbeat sequence numbers *)
(* and modifiers are payload.  "No value" of the optional counters and     *)
(* epochs is 0: counters start at 1 and accepted epochs are above 0.       *)
(***************************************************************************)
EXTENDS Ownership, Integers, Sequences, FiniteSets

CONSTANTS
    SourceId, TargetId,     \* the machine with the hardware, the driven one
    Key,                    \* HID usages
    HeartbeatMissLimit,     \* HEARTBEAT_MISS_LIMIT
    OwnershipAckTicks,      \* OWNERSHIP_ACK_TICKS
    InputRateBurst,         \* INPUT_RATE_BURST
    InputRateRefill,        \* INPUT_RATE_REFILL
    Width, PeerWidth,       \* the layout along the crossing axis
    EdgeRearmMargin,        \* EDGE_REARM_MARGIN
    EscapeMinTravel         \* ESCAPE_MIN_TRAVEL

ASSUME EngineAssumption ==
    /\ SourceId # TargetId
    /\ Device = {SourceId, TargetId}
    /\ {HeartbeatMissLimit, OwnershipAckTicks, InputRateBurst,
        InputRateRefill, EdgeRearmMargin, EscapeMinTravel} \subseteq Nat
    /\ {Width, PeerWidth} \subseteq Nat \ {0}

Peer(d) == IF d = SourceId THEN TargetId ELSE SourceId
IsSource(c) == c.own.me = SourceId

Least(a, b) == IF a < b THEN a ELSE b
Greatest(a, b) == IF a < b THEN b ELSE a
Clamp(v, lo, hi) == Greatest(lo, Least(v, hi))
-----------------------------------------------------------------------------
(* The state of a core.                                                    *)

NoGuard == [epoch |-> 0, last_ctr |-> 0, last_seq |-> 0]
NoPending == [epoch |-> 0, ticks_left |-> 0]

NewCore(me) ==
    [own |-> NewOwnership(me),
     out_ctr |-> 0, out_seq |-> 0,
     guard |-> NoGuard, held_keys |-> {},
     input_allowed |-> TRUE, accepted_epoch |-> 0,
     tokens |-> InputRateBurst,
     pending_ack |-> NoPending,
     peer_x |-> 0, reclaim_armed |-> TRUE, cross_out_armed |-> TRUE,
     misses |-> 0, suppress_blocked |-> FALSE, escape_travel |-> 0]

Owns(c) == IsOwner(c.own)
Pending(c) == c.pending_ack # NoPending

\* capture_mode: what the platform capture should be doing in this state.
CaptureModeOf(c) ==
    CASE ~IsSource(c) -> "Off"
      [] IsSource(c) /\ Owns(c) -> "PassiveEdge"
      [] OTHER -> "ActiveForward"

\* What every change of epoch resets.
FreshEpoch(c) ==
    [c EXCEPT !.out_ctr = 0, !.out_seq = 0, !.guard = NoGuard,
              !.held_keys = {}]

AllowsEpoch(c, e) == c.input_allowed /\ c.accepted_epoch = e /\ e # 0
AuthorizeInject(c, e) == Owns(c) /\ AllowsEpoch(c, e)
-----------------------------------------------------------------------------
(* Messages and actions.                                                   *)

TransferMsg(v) == [type |-> "Transfer", to |-> v.owner, epoch |-> v.epoch,
                   reclaim |-> v.reclaim_origin]
AckMsg(e, ok) == [type |-> "Ack", epoch |-> e, accepted |-> ok]
HeartbeatMsg == [type |-> "Heartbeat"]
PingMsg == [type |-> "Ping"]
PongMsg == [type |-> "Pong"]
GoodbyeMsg == [type |-> "Goodbye"]

SendControl(m) == [act |-> "SendControl", msg |-> m]
SendMotion(m) == [act |-> "SendMotion", msg |-> m]
Inject(ev) == [act |-> "Inject", event |-> ev]
SetCursorVisible(b) == [act |-> "SetCursorVisible", visible |-> b]
SetCaptureMode(m) == [act |-> "SetCaptureMode", mode |-> m]
OwnerChanged(v) == [act |-> "OwnerChanged", owner |-> v.owner,
                    epoch |-> v.epoch]
Capture(d) == [act |-> "Capture", decision |-> d]

Result(c, acts) == [core |-> c, acts |-> acts]
PassThrough(c) == Result(c, <<Capture("PassThrough")>>)
Nothing(c) == Result(c, <<>>)

InitialActions(c) ==
    <<SetCursorVisible(Owns(c)), SetCaptureMode(CaptureModeOf(c))>>
-----------------------------------------------------------------------------
(* Handing input to the peer and taking it back.                           *)

CrossToPeer(c) ==
    LET v == GrantTo(c.own, Peer(c.own.me))
    IN  Result([FreshEpoch(c) EXCEPT !.own = v,
                                     !.accepted_epoch = 0,
                                     !.pending_ack =
                                         [epoch |-> v.epoch,
                                          ticks_left |-> OwnershipAckTicks],
                                     !.peer_x = 0,
                                     !.reclaim_armed = FALSE,
                                     !.escape_travel = 0],
               <<SetCaptureMode("ActiveForward"), SendControl(TransferMsg(v)),
                 SetCursorVisible(FALSE), OwnerChanged(v),
                 Capture("Suppress")>>)

ReclaimLocal(c) ==
    LET v == Reclaim(c.own)
    IN  Result([FreshEpoch(c) EXCEPT !.own = v,
                                     !.accepted_epoch = 0,
                                     !.pending_ack = NoPending,
                                     !.reclaim_armed = TRUE,
                                     !.cross_out_armed = FALSE],
               <<SetCaptureMode("PassiveEdge"), SendControl(TransferMsg(v)),
                 SetCursorVisible(TRUE), OwnerChanged(v),
                 Capture("PassThrough")>>)
-----------------------------------------------------------------------------
(* Local input: the geometry of the right edge, then the handlers.         *)

MaxX == Width - 1
PeerMaxX == PeerWidth - 1
\* max_x.saturating_sub(EDGE_REARM_MARGIN), an i32: it may go below 0.
RearmLine == MaxX - EdgeRearmMargin
EscapeThreshold == Greatest(Width, EscapeMinTravel)

CrossesOut(x, dx) == x >= RearmLine /\ x + dx >= MaxX
LocalLeftCrossEdge(x) == x < RearmLine
LocalEscapeBack(x, dx) == x <= EdgeRearmMargin /\ dx < 0
CrossesBack(px, dx) == px <= 0 /\ dx < 0
PeerLeftEntryEdge(px) == px > 0

\* Mutant: a source that cannot suppress crosses all the same.
OnCursorHereUnblocked(c, x, dx) ==
    CASE ~c.cross_out_armed /\ LocalLeftCrossEdge(x) ->
           PassThrough([c EXCEPT !.cross_out_armed = TRUE])
      [] c.cross_out_armed /\ CrossesOut(x, dx) -> CrossToPeer(c)
      [] OTHER -> PassThrough(c)

\* on_cursor while the cursor is on our own screen.
OnCursorHere(c, x, dx) ==
    CASE ~c.cross_out_armed /\ LocalLeftCrossEdge(x) ->
           PassThrough([c EXCEPT !.cross_out_armed = TRUE])
      [] c.cross_out_armed /\ ~c.suppress_blocked /\ CrossesOut(x, dx) ->
           CrossToPeer(c)
      [] OTHER -> PassThrough(c)

MotionFrom(c) ==
    [epoch |-> c.own.epoch, seq |-> c.out_seq]

\* The virtual peer cursor moves; past the near edge it brings input back and
\* the local cursor is warped to the boundary, otherwise it is sent.
DrivePeer(c, dx) ==
    LET px == Clamp(c.peer_x + dx, 0, PeerMaxX)
        armed == c.reclaim_armed \/ PeerLeftEntryEdge(px)
        moved == [c EXCEPT !.peer_x = px, !.reclaim_armed = armed]
        back == ReclaimLocal(moved)
        sent == [moved EXCEPT !.out_seq = @ + 1]
    IN  IF armed /\ CrossesBack(px, dx)
        THEN Result(back.core, Append(back.acts, Inject([kind |-> "Warp"])))
        ELSE Result(sent, <<SendMotion(MotionFrom(sent)), Capture("Suppress")>>)

\* on_cursor while we drive the peer.
OnCursorAway(c, x, dx) ==
    LET travel == Greatest(c.escape_travel - dx, 0)
    IN  CASE LocalEscapeBack(x, dx) -> ReclaimLocal(c)
          [] ~LocalEscapeBack(x, dx) /\ travel >= EscapeThreshold ->
               ReclaimLocal([c EXCEPT !.escape_travel = travel])
          [] OTHER -> DrivePeer([c EXCEPT !.escape_travel = travel], dx)

OnCursor(c, x, dx) ==
    IF Owns(c) THEN OnCursorHere(c, x, dx) ELSE OnCursorAway(c, x, dx)

\* A key, button or scroll event captured on the source: ours while the cursor
\* is here, otherwise stamped with the epoch and the next counter.
OnLocalEvent(c, ev) ==
    LET c2 == [c EXCEPT !.out_ctr = @ + 1]
    IN  IF Owns(c) THEN PassThrough(c)
        ELSE Result(c2, <<SendControl([type |-> "Input", event |-> ev,
                                       epoch |-> c.own.epoch,
                                       ctr |-> c2.out_ctr]),
                          Capture("Suppress")>>)

OnSuppressUnavailable(c) ==
    LET c2 == [c EXCEPT !.suppress_blocked = TRUE]
    IN  IF Owns(c) THEN Nothing(c2) ELSE ReclaimLocal(c2)
-----------------------------------------------------------------------------
(* The heartbeat tick.  misses is capped at the limit it is compared with, *)
(* and kept for the source only: the target never reads its counter.       *)

OnTick(c) ==
    LET beat == SendControl(HeartbeatMsg)
        tokens == Least(c.tokens + InputRateRefill, InputRateBurst)
        left == IF Pending(c) THEN [c.pending_ack EXCEPT !.ticks_left = @ - 1] ELSE c.pending_ack
        missed == IF IsSource(c) THEN Least(c.misses + 1, HeartbeatMissLimit) ELSE c.misses
        c1 == [c EXCEPT !.tokens = tokens]
        c2 == [c1 EXCEPT !.pending_ack = left, !.misses = missed]
        Taking(r) == Result(r.core, <<beat>> \o r.acts)
    IN  CASE Pending(c) /\ c.pending_ack.ticks_left = 0 ->
               Taking(ReclaimLocal(c1))
          [] ~(Pending(c) /\ c.pending_ack.ticks_left = 0)
             /\ IsSource(c) /\ ~Owns(c) /\ c2.misses >= HeartbeatMissLimit ->
               Taking(ReclaimLocal(c2))
          [] OTHER -> Result(c2, <<beat>>)
-----------------------------------------------------------------------------
(* Control frames from the peer.                                           *)

\* The view moved to claim v: a new epoch in which either we may be driven or
\* the peer owns.
Accepted(c, v) ==
    LET mine == v.owner = v.me
        src == IsSource(c)
    IN  [FreshEpoch(c) EXCEPT
            !.own = v,
            !.misses = 0,
            !.pending_ack = NoPending,
            !.accepted_epoch = IF mine THEN v.epoch ELSE 0,
            !.tokens = IF mine THEN InputRateBurst ELSE @,
            !.cross_out_armed = IF mine /\ src THEN FALSE ELSE @,
            !.reclaim_armed = IF ~mine /\ src THEN FALSE ELSE @]

OnTransfer(c, m) ==
    LET claim == [owner |-> m.to, epoch |-> m.epoch, reclaim |-> m.reclaim]
        v == Adopt(c.own, claim)
        c2 == Accepted(c, v)
        mode == IF IsSource(c) THEN <<SetCaptureMode(CaptureModeOf(c2))>>
                ELSE <<>>
        refused == \/ m.to = c.own.me /\ ~c.input_allowed
                   \/ ~Accepts(c.own, claim)
    IN  IF refused THEN Result(c, <<SendControl(AckMsg(m.epoch, FALSE))>>)
        ELSE Result(c2, <<SendControl(AckMsg(m.epoch, TRUE)),
                          SetCursorVisible(Owns(c2)), OwnerChanged(v)>> \o mode)

\* Mutant: an acknowledgement is taken for whatever grant is pending.
OnOwnershipAckAnyEpoch(c, m) ==
    LET done == [c EXCEPT !.pending_ack = NoPending]
        sent == [done EXCEPT !.out_seq = @ + 1]
    IN  CASE ~Pending(c) -> Nothing(c)
          [] Pending(c) /\ ~m.accepted -> ReclaimLocal(done)
          [] OTHER -> Result(sent, <<SendMotion(MotionFrom(sent))>>)

OnOwnershipAck(c, m) ==
    LET due == Pending(c) /\ m.epoch = c.pending_ack.epoch
        done == [c EXCEPT !.pending_ack = NoPending]
        sent == [done EXCEPT !.out_seq = @ + 1]
    IN  CASE ~due -> Nothing(c)
          [] due /\ ~m.accepted -> ReclaimLocal(done)
          [] OTHER -> Result(sent, <<SendMotion(MotionFrom(sent))>>)

\* The replay guard forgets the counters of another epoch.
GuardFor(c, e) == IF c.guard.epoch = e THEN c.guard ELSE [NoGuard EXCEPT !.epoch = e]

AcceptsCtr(c, e, ctr) == e = c.own.epoch /\ ctr > GuardFor(c, e).last_ctr
AcceptsSeq(c, e, seq) == e = c.own.epoch /\ seq > GuardFor(c, e).last_seq

\* The guard is updated even when the event is not authorized afterwards.
SeenCtr(c, e, ctr) ==
    IF e # c.own.epoch THEN c
    ELSE [c EXCEPT !.guard = [GuardFor(c, e) EXCEPT !.last_ctr = Greatest(@, ctr)]]
SeenSeq(c, e, seq) ==
    IF e # c.own.epoch THEN c
    ELSE [c EXCEPT !.guard = [GuardFor(c, e) EXCEPT !.last_seq = Greatest(@, seq)]]

SpendToken(c) == [c EXCEPT !.tokens = IF @ = 0 THEN 0 ELSE @ - 1]

\* Only a repeated key-down and a scroll can be shed by the rate cap; a press
\* and a release always go through.
IsRepeat(c, ev) == ev.kind = "Key" /\ ev.down /\ ev.usage \in c.held_keys

\* Mutant: a uniform cap that also sheds key transitions.
SheddableAll(c, ev) == TRUE

Sheddable(c, ev) == ev.kind = "Scroll" \/ IsRepeat(c, ev)

Observed(c, ev) ==
    [c EXCEPT !.held_keys =
        CASE ev.kind # "Key" -> @
          [] ev.kind = "Key" /\ ev.down -> @ \union {ev.usage}
          [] OTHER -> @ \ {ev.usage}]

\* on_key, on_button and on_scroll.
OnInput(c, m) ==
    LET seen == SeenCtr(c, m.epoch, m.ctr)
        shed == Sheddable(c, m.event) /\ c.tokens = 0
    IN  IF ~AcceptsCtr(c, m.epoch, m.ctr) \/ ~AuthorizeInject(c, m.epoch)
        THEN Nothing(seen)
        ELSE Result(SpendToken(Observed(seen, m.event)),
                    IF shed THEN <<>>
                    ELSE <<Inject([kind |-> m.event.kind, event |-> m.event,
                                   epoch |-> m.epoch, n |-> m.ctr])>>)

\* Mutant: a datagram as new as the last one is applied again.
OnMotionReplays(c, m) ==
    LET seen == SeenSeq(c, m.epoch, m.seq)
    IN  IF m.epoch # c.own.epoch \/ m.seq < GuardFor(c, m.epoch).last_seq
           \/ ~AuthorizeInject(c, m.epoch)
        THEN Nothing(seen)
        ELSE Result(seen, <<Inject([kind |-> "Move", epoch |-> m.epoch,
                                    n |-> m.seq])>>)

OnMotion(c, m) ==
    LET seen == SeenSeq(c, m.epoch, m.seq)
    IN  IF ~AcceptsSeq(c, m.epoch, m.seq) \/ ~AuthorizeInject(c, m.epoch)
        THEN Nothing(seen)
        ELSE Result(seen, <<Inject([kind |-> "Move", epoch |-> m.epoch,
                                    n |-> m.seq])>>)

OnGoodbye(c) ==
    IF IsSource(c) /\ ~Owns(c) THEN ReclaimLocal(c) ELSE Nothing(c)

OnControl(c, m) ==
    CASE m.type = "Transfer" -> OnTransfer(c, m)
      [] m.type = "Ack" -> OnOwnershipAck(c, m)
      [] m.type = "Input" -> OnInput(c, m)
      [] m.type = "Ping" -> Result([c EXCEPT !.misses = 0], <<SendControl(PongMsg)>>)
      [] m.type \in {"Pong", "Heartbeat"} -> Nothing([c EXCEPT !.misses = 0])
      [] m.type = "Goodbye" -> OnGoodbye(c)

\* Mutant: the blocked machine keeps the input it owns.
OnInjectionFailedKeeps(c) ==
    Nothing([c EXCEPT !.input_allowed = FALSE, !.accepted_epoch = 0,
                      !.held_keys = {}, !.own = MarkInputBlocked(@)])

\* The platform could not inject: the peer may not drive us for the rest of
\* the session, and if we own input it goes back to the peer.
OnInjectionFailed(c) ==
    LET blocked == [c EXCEPT !.input_allowed = FALSE, !.accepted_epoch = 0,
                             !.held_keys = {},
                             !.own = MarkInputBlocked(@)]
        v == GrantTo(blocked.own, Peer(c.own.me))
    IN  IF ~Owns(c) THEN Nothing(blocked)
        ELSE Result([FreshEpoch(blocked) EXCEPT !.own = v],
                    <<SendControl(TransferMsg(v)), SetCursorVisible(FALSE),
                      OwnerChanged(v)>>)
-----------------------------------------------------------------------------
(* The actions of a result, and the control stream they go to.             *)

At(r, kind) == {i \in DOMAIN r.acts : r.acts[i].act = kind}

\* The action of a kind a handler asks for at most once.
Only(r, kind) == r.acts[CHOOSE i \in At(r, kind) : TRUE]

\* The increasing enumeration of a finite set of numbers, the only one.
InOrder(I) ==
    {p \in [1 .. Cardinality(I) -> I] : \A m, n \in DOMAIN p : m < n => p[m] < p[n]}

\* The control frames a result puts on the wire, a singleton.  The source's
\* heartbeats are left out: all they do at the target is reset a counter it
\* never reads.
Frames(d, r) ==
    LET sent == {i \in At(r, "SendControl") : d = TargetId \/ r.acts[i].msg # HeartbeatMsg}
    IN  {[n \in DOMAIN p |-> r.acts[p[n]].msg] : p \in InOrder(sent)}

\* A heartbeat right behind a heartbeat adds nothing: reading either resets
\* the miss counter.
Enqueue(q, new) ==
    IF /\ q # <<>> /\ new # <<>>
       /\ q[Len(q)] = HeartbeatMsg /\ new[1] = HeartbeatMsg
    THEN q \o Tail(new)
    ELSE q \o new
=============================================================================
