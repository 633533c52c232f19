------------------------------- MODULE Session -------------------------------
(***************************************************************************)
(* One engine session: the core of the source and the core of the target   *)
(* joined by the control stream (reliable and ordered each way) and the    *)
(* motion datagrams (lost, reordered, duplicated).  A handler and the      *)
(* dispatch of its actions (runtime.rs, Shared::dispatch) are one step;    *)
(* Runtime looks at what happens when they are not.                        *)
(***************************************************************************)
EXTENDS EngineCore

CONSTANTS
    Moves,        \* cursor samples <<x, dx>> the source's hardware produces
    Events,       \* key, button and scroll events it produces
    FailKinds,    \* the kinds of injection the platform may refuse
    MaxCross,     \* bound: input is handed over only below this epoch
    MaxCtr,       \* bound: key, button and scroll events per epoch
    MaxSeq,       \* bound: motion samples per epoch
    MaxDgrams,    \* bound: datagrams in flight; further ones are lost
    Platforms,    \* whether the source's platform can suppress local input:
                  \* the possible answers
    PeerMessages  \* Ping and Goodbye frames the peer may send unasked

ASSUME SessionAssumption ==
    /\ Moves \subseteq Int \X Int
    /\ \A ev \in Events : /\ ev.kind \in {"Key", "Button", "Scroll"}
                          /\ ev.kind = "Key" => ev.usage \in Key /\ ev.down \in BOOLEAN
    /\ {MaxCross, MaxCtr, MaxSeq, MaxDgrams} \subseteq Nat
    /\ MaxCross < EpochMax      \* no epoch of the session is the last of a u64
    /\ Platforms \subseteq BOOLEAN
    /\ PeerMessages \subseteq {PingMsg, GoodbyeMsg}

VARIABLES
    core,      \* core[d]: the EngineCore of device d
    ctl,       \* ctl[d]: control frames on their way to d
    dgrams,    \* motion datagrams on their way to the target
    mode,      \* the capture mode last asked for on the source
    can_suppress, \* the source's platform can suppress local input
    hung,      \* the target has stopped taking steps
    applied,   \* the newest injected motion and input, and whether an older
               \* or equal one was ever injected after it
    os_keys,   \* keys the target's operating system holds down
    forwarded  \* the last transition of each key the source forwarded in
               \* its current epoch

vars == <<core, ctl, dgrams, mode, can_suppress, hung, applied, os_keys,
          forwarded>>

S == core[SourceId]
T == core[TargetId]

NoTransitions == [k \in Key |-> "none"]

Init ==
    /\ core = [d \in Device |-> NewCore(d)]
    /\ ctl = [d \in Device |-> <<>>]
    /\ dgrams = {}
    /\ mode = CaptureModeOf(NewCore(SourceId))
    /\ can_suppress \in Platforms
    /\ hung = FALSE
    /\ applied = [Move |-> <<0, 0>>, Input |-> <<0, 0>>, stale |-> FALSE]
    /\ os_keys = {}
    /\ forwarded = NoTransitions
-----------------------------------------------------------------------------
(* Applying the actions of a handler.                                      *)

\* The platform refused the injection (a handler asks for at most one): the
\* core is told before the dispatch returns.
Refused(r) ==
    LET f == OnInjectionFailed(r.core) IN Result(f.core, r.acts \o f.acts)

Refusable(r) ==
    /\ r.core.own.epoch < MaxCross
    /\ At(r, "Inject") # {} /\ Only(r, "Inject").event.kind \in FailKinds

Newer(a, b) == a[1] > b[1] \/ (a[1] = b[1] /\ a[2] > b[2])

\* What an injection that went through leaves on the target's desktop.
Injected(ev) ==
    LET lane == IF ev.kind = "Move" THEN "Move" ELSE "Input"
        at == <<ev.epoch, ev.n>>
    IN  /\ applied' = [applied EXCEPT ![lane] = at,
                                      !.stale = @ \/ ~Newer(at, applied[lane])]
        /\ os_keys' = CASE ev.kind # "Key" -> os_keys
                        [] ev.kind = "Key" /\ ev.event.down ->
                             os_keys \union {ev.event.usage}
                        [] OTHER -> os_keys \ {ev.event.usage}

\* Device d takes the result of a handler; q and g are the control queues
\* and the datagrams after the handler took its input.
Dispatch(d, result, q, g) ==
    \E r \in {result} :
       /\ mode' = IF At(r, "SetCaptureMode") = {} THEN mode ELSE Only(r, "SetCaptureMode").mode
       /\ \/ /\ core' = [core EXCEPT ![d] = r.core]
             /\ \E frames \in Frames(d, r) : ctl' = [q EXCEPT ![Peer(d)] = Enqueue(@, frames)]
             /\ dgrams' = IF Cardinality(g) < MaxDgrams
                          THEN g \union {r.acts[i].msg : i \in At(r, "SendMotion")} ELSE g
             /\ IF d = TargetId /\ At(r, "Inject") # {} THEN Injected(Only(r, "Inject").event)
                ELSE UNCHANGED <<applied, os_keys>>
          \/ /\ Refusable(r)
             /\ core' = [core EXCEPT ![d] = Refused(r).core]
             /\ \E frames \in Frames(d, Refused(r)) : ctl' = [q EXCEPT ![Peer(d)] = Enqueue(@, frames)]
             /\ dgrams' = g
             /\ UNCHANGED <<applied, os_keys>>
-----------------------------------------------------------------------------
(* The steps of the session.                                               *)

\* A cursor sample reaches the source's core (Shared::feed_local).
LocalCursor(x, dx) ==
    LET r == OnCursor(S, x, dx)
    IN  /\ r.core.own.owner # S.own.owner /\ Owns(S) => S.own.epoch < MaxCross
        /\ r.core.out_seq <= MaxSeq
        /\ Dispatch(SourceId, r, ctl, dgrams)
        /\ forwarded' = IF r.core.own.epoch = S.own.epoch THEN forwarded
                        ELSE NoTransitions
        /\ UNCHANGED <<can_suppress, hung>>

\* A key, button or scroll event reaches it.
LocalEvent(ev) ==
    LET r == OnLocalEvent(S, ev)
    IN  /\ r.core.out_ctr <= MaxCtr
        /\ Dispatch(SourceId, r, ctl, dgrams)
        /\ forwarded' = IF ev.kind = "Key" /\ ~Owns(S)
                        THEN [forwarded EXCEPT ![ev.usage] =
                                 IF ev.down THEN "down" ELSE "up"]
                        ELSE forwarded
        /\ UNCHANGED <<can_suppress, hung>>

\* The source moved to another epoch in this step.
ForwardedAfter(r) ==
    IF r.core.own.epoch = S.own.epoch THEN forwarded ELSE NoTransitions

\* One interval of the heartbeat ticker.
Tick(d) ==
    /\ d = TargetId => ~hung
    /\ Dispatch(d, OnTick(core[d]), ctl, dgrams)
    /\ forwarded' = IF d = SourceId THEN ForwardedAfter(OnTick(S)) ELSE forwarded
    /\ UNCHANGED <<can_suppress, hung>>

\* The control receiver takes the next frame of the stream.
RecvControl(d) ==
    /\ d = TargetId => ~hung
    /\ ctl[d] # <<>>
    /\ LET r == OnControl(core[d], Head(ctl[d]))
       IN  /\ Dispatch(d, r, [ctl EXCEPT ![d] = Tail(@)], dgrams)
           /\ forwarded' = IF d = SourceId THEN ForwardedAfter(r) ELSE forwarded
    /\ UNCHANGED <<can_suppress, hung>>

\* The motion receiver takes any datagram; it may come again.
RecvMotion(m) ==
    /\ ~hung
    /\ \E g \in {dgrams, dgrams \ {m}} : Dispatch(TargetId, OnMotion(T, m), ctl, g)
    /\ UNCHANGED <<can_suppress, hung, forwarded>>

LoseMotion(m) ==
    /\ dgrams' = dgrams \ {m}
    /\ UNCHANGED <<core, ctl, mode, can_suppress, hung, applied, os_keys,
                   forwarded>>

\* The mode task found that the platform cannot suppress local input.
SuppressUnavailable ==
    /\ ~can_suppress
    /\ mode = "ActiveForward"
    /\ Dispatch(SourceId, OnSuppressUnavailable(S), ctl, dgrams)
    /\ forwarded' = ForwardedAfter(OnSuppressUnavailable(S))
    /\ UNCHANGED <<can_suppress, hung>>

\* The peer sends a frame of the protocol unasked; the bounds: on an empty
\* stream, with no answer to the last ping on its way.
PeerSends(m) ==
    /\ ~hung
    /\ ctl[SourceId] = <<>>
    /\ \A i \in DOMAIN ctl[TargetId] : ctl[TargetId][i] # PongMsg
    /\ S.own.epoch < MaxCross
    /\ ctl' = [ctl EXCEPT ![SourceId] = Append(@, m)]
    /\ UNCHANGED <<core, dgrams, mode, can_suppress, hung, applied, os_keys,
                   forwarded>>

\* The target's process stops without closing the connection.
Hang ==
    /\ ~hung
    /\ hung' = TRUE
    /\ UNCHANGED <<core, ctl, dgrams, mode, can_suppress, applied, os_keys,
                   forwarded>>

Next ==
    \/ \E mv \in Moves : LocalCursor(mv[1], mv[2])
    \/ \E ev \in Events : LocalEvent(ev)
    \/ \E d \in Device : Tick(d) \/ RecvControl(d)
    \/ \E m \in dgrams : RecvMotion(m) \/ LoseMotion(m)
    \/ SuppressUnavailable
    \/ \E m \in PeerMessages : PeerSends(m)
    \/ Hang

Spec == Init /\ [][Next]_vars

\* The tickers run on timers and the receivers are woken by the stream; the
\* user, the platform and the datagrams owe nothing.
Fairness ==
    /\ WF_vars(Tick(SourceId))
    /\ WF_vars(Tick(TargetId))
    /\ WF_vars(RecvControl(SourceId))
    /\ WF_vars(RecvControl(TargetId))
    /\ WF_vars(SuppressUnavailable)

FairSpec == Spec /\ Fairness
-----------------------------------------------------------------------------
(* Properties.                                                             *)

Motion == [epoch: Epoch, seq: Nat]

\* Every core is well formed and keeps its identity.
TypeOK ==
    /\ \A d \in Device :
          LET c == core[d]
          IN  /\ c.own \in View /\ c.own.me = d
              /\ c.out_ctr \in Nat /\ c.out_seq \in Nat
              /\ c.guard \in [epoch: Epoch, last_ctr: Nat, last_seq: Nat]
              /\ c.held_keys \subseteq Key
              /\ c.input_allowed \in BOOLEAN /\ c.accepted_epoch \in Epoch
              /\ c.tokens \in 0 .. InputRateBurst
              /\ c.pending_ack \in [epoch: Epoch, ticks_left: 0 .. OwnershipAckTicks]
              /\ c.peer_x \in 0 .. PeerMaxX
              /\ c.misses \in 0 .. HeartbeatMissLimit
    /\ dgrams \subseteq Motion
    /\ mode \in {"PassiveEdge", "ActiveForward"}
    /\ {can_suppress, hung} \subseteq BOOLEAN
    /\ os_keys \subseteq Key

\* The target injects only under an epoch the source gave away: while it may
\* inject, the source either still says so or has moved to a later epoch.
NoTwoDrivers ==
    AuthorizeInject(T, T.own.epoch) =>
        \/ S.own.epoch > T.own.epoch
        \/ S.own.epoch = T.own.epoch /\ S.own.owner = TargetId

\* A grant waits for its acknowledgement only while it stands: a reclaim, a
\* newer grant or a takeover by the peer leaves nothing pending.
PendingIsCurrent ==
    Pending(S) => S.own.owner = TargetId /\ S.pending_ack.epoch = S.own.epoch

\* Nothing on the wire: the two machines agree who owns input and since which
\* epoch, unless no claim was ever made.  (S.input_allowed: until the source's
\* own platform has refused a warp, see BlockedTargetReturnsInput.)
AgreeWhenQuiet ==
    /\ ctl[SourceId] = <<>> /\ ctl[TargetId] = <<>>
    /\ S.input_allowed
    /\ S.own.epoch + T.own.epoch > 0
    => S.own.owner = T.own.owner /\ S.own.epoch = T.own.epoch

\* Together: whatever crosses on the wire, a pending grant is one that stands and
\* a quiet wire means agreement.
HandoffIsCoherent == TypeOK /\ PendingIsCurrent /\ AgreeWhenQuiet

\* Duplicated, reordered or replayed traffic is injected at most once and never
\* after something newer, across every handoff of the session.
FreshInjections == ~applied.stale

\* Rate limiting never loses a key transition: with no input on its way and the
\* handoff standing, each key the source forwarded in this epoch is on the
\* target as the source last left it.
KeysMirrored ==
    /\ \A i \in DOMAIN ctl[TargetId] : ctl[TargetId][i].type # "Input"
    /\ AuthorizeInject(T, S.own.epoch)
    => \A k \in Key : /\ forwarded[k] = "down" => k \in os_keys
                      /\ forwarded[k] = "up" => k \notin os_keys

\* A target that stops answering does not keep the user's input: the source
\* takes it back (no acknowledgement, or no heartbeat).
HungTargetReleasesInput == hung ~> Owns(S)

\* Every handoff is acknowledged, refused or taken back.
GrantSettles == Pending(S) ~> ~Pending(S)

\* "On a block the engine returns ownership to the source"
\* (docs/communication-interface.md, 7.4): a target whose platform refuses
\* injection does not keep the user's input.
BlockedTargetReturnsInput == ~T.input_allowed ~> Owns(S)

\* A source that cannot suppress local input does not go on driving the peer.
UnsuppressedSourceStopsDriving ==
    ~can_suppress /\ ~Owns(S) ~> Owns(S)

\* Together: a peer that hangs, refuses or does not answer, or a source that cannot
\* suppress, never keeps the user from their input.
InputComesBack ==
    /\ HungTargetReleasesInput /\ BlockedTargetReturnsInput
    /\ UnsuppressedSourceStopsDriving /\ GrantSettles

\* Once it knows, it does not hand input over again in this session: no loop of
\* crossing and reclaiming while the cursor rests on the edge.
NoCrossLoop == [][S.suppress_blocked /\ Owns(S) => Owns(S)']_vars
=============================================================================
