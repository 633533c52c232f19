---------------------------- MODULE SessionProofs ----------------------------
(***************************************************************************)
(* Proofs about Session, for every layout, every rate limit, every set of  *)
(* events and every bound on the handoffs below the last epoch.            *)
(*                                                                         *)
(* A step of the session is a handler of one core and the dispatch of its  *)
(* actions.  The first part says what each handler returns, the second     *)
(* what a dispatch makes of it, the third puts the session together.       *)
(***************************************************************************)
EXTENDS Session, FiniteSetTheorems, TLAPS

-----------------------------------------------------------------------------
(* Cores                                                                   *)

\* (A set of its own, so that flags can be typed without being looked into.)
Flag == BOOLEAN
Ticks == 0 .. OwnershipAckTicks
Tokens == 0 .. InputRateBurst
Misses == 0 .. HeartbeatMissLimit
PeerX == 0 .. PeerMaxX
Guard == [epoch: Epoch, last_ctr: Nat, last_seq: Nat]
PendingAck == [epoch: Epoch, ticks_left: Ticks]
Keys == SUBSET Key

CoreState ==
    [own: View, out_ctr: Nat, out_seq: Nat, guard: Guard, held_keys: Keys,
     input_allowed: Flag, accepted_epoch: Epoch, tokens: Tokens, pending_ack: PendingAck,
     peer_x: PeerX, reclaim_armed: Flag, cross_out_armed: Flag, misses: Misses,
     suppress_blocked: Flag, escape_travel: Nat]

\* The source's core: a grant is pending only while it stands, and its epochs
\* are bounded by the handoffs.
SourceCore(c) ==
    /\ c \in CoreState /\ c.own.me = SourceId
    /\ Pending(c) => c.own.owner = TargetId /\ c.pending_ack.epoch = c.own.epoch
    /\ c.own.epoch <= MaxCross + 1
    /\ c.own.owner = TargetId => c.own.epoch <= MaxCross /\ c.own.epoch # 0

\* The target's core never waits for an acknowledgement; what it knows as a
\* reclaim is the source's.
TargetCore(c) ==
    /\ c \in CoreState /\ c.own.me = TargetId
    /\ ~Pending(c)
    /\ c.own.reclaim_origin => c.own.owner = SourceId
    /\ c.accepted_epoch \in {0, c.own.epoch}
    /\ c.input_allowed /\ c.own.epoch # 0 /\ c.own.owner = TargetId => c.accepted_epoch = c.own.epoch

\* Claim v is as new as claim u, and the same owner's if of the same epoch.
Onward(u, v) == v.epoch >= u.epoch /\ (v.epoch = u.epoch => v.owner = u.owner)

-----------------------------------------------------------------------------
(* Messages                                                                *)

Transfers == [type: {"Transfer"}, to: Device, epoch: Epoch, reclaim: Flag]
Acks == [type: {"Ack"}, epoch: Epoch, accepted: Flag]
Inputs == [type: {"Input"}, event: Events, epoch: Epoch, ctr: Nat]

\* What the source tells the target, all its claims at most as new as v.
Told(v) ==
    {m \in Transfers : /\ m.reclaim => m.to = SourceId
                       /\ m.epoch <= v.epoch /\ m.epoch # 0
                       /\ m.epoch = v.epoch => m.to = v.owner}
    \cup Acks \cup {m \in Inputs : m.epoch <= v.epoch} \cup {PongMsg}

\* What the target tells the source.
Answers ==
    {m \in Transfers : m.to = SourceId /\ ~m.reclaim /\ m.epoch <= MaxCross}
    \cup Acks \cup {HeartbeatMsg, PingMsg, GoodbyeMsg}

-----------------------------------------------------------------------------
(* Results                                                                 *)

Doing(r) == {r.acts[i] : i \in DOMAIN r.acts}
Listed(r) == r.acts \in Seq(Doing(r))

\* Core t is as far as core c: the same token, the same permission.
Alike(c, t) == t.own = c.own /\ t.input_allowed = c.input_allowed /\ t.out_ctr >= c.out_ctr

\* The grant of epoch e is acknowledged.
AckFor(m, e) == m \in Acks /\ m.accepted /\ m.epoch = e

\* What the source has said when it went from core c to x.core, having taken m:
\* a change of its claim was minted and sent, or m's; a grant stays pending
\* until it is acknowledged.
Voiced(c, m, x) ==
    /\ x.core.own = c.own => /\ x.core.out_ctr >= c.out_ctr
                             /\ Pending(c) => Pending(x.core) \/ AckFor(m, c.own.epoch)
    /\ x.core.own # c.own => /\ x.core.own.epoch > c.own.epoch
                             /\ \/ SendControl(TransferMsg(x.core.own)) \in Doing(x)
                                \/ m \in Transfers /\ m.epoch = x.core.own.epoch
    /\ x.core.input_allowed =>
          /\ c.input_allowed
          /\ x.core.own # c.own =>
                \/ /\ x.core.own.epoch = c.own.epoch + 1 /\ x.core.own.owner # c.own.owner
                   /\ x.core.own.owner = TargetId => Pending(x.core)
                \/ x.core.own.owner = SourceId /\ m \in Transfers /\ m.epoch = x.core.own.epoch
          /\ \A a \in Doing(x) : a.act = "SendControl" /\ a.msg.type = "Transfer" => a.msg = TransferMsg(x.core.own)
    /\ \A a \in Doing(x) : a.act = "SendControl" => /\ a.msg.type = "Transfer" => a.msg.epoch > c.own.epoch
                                                    /\ a.msg.type = "Input" => a.msg = m

\* A result of the source's core c; m is the frame it took, or the input it sends.
SourceResult(c, m, r) ==
    /\ Listed(r) /\ Voiced(c, m, r) /\ r.core.input_allowed = c.input_allowed
    /\ SourceCore(r.core) /\ Onward(c.own, r.core.own)
    /\ c.suppress_blocked /\ Owns(c) => Owns(r.core)
    /\ \A a \in Doing(r) :
          /\ a.act = "SendControl" => a.msg \in Told(r.core.own) \cup {HeartbeatMsg}
          /\ a.act = "SendMotion" => a.msg \in Motion
          /\ a.act = "SetCaptureMode" => a.mode \in {"PassiveEdge", "ActiveForward"}
          /\ a.act = "Inject" => Owns(r.core) /\ ~Owns(c)

LEMMA Ids ==
    /\ SourceId \in Device /\ TargetId \in Device /\ SourceId # TargetId
    /\ \A d \in Device : d = SourceId \/ d = TargetId
    /\ Peer(SourceId) = TargetId /\ Peer(TargetId) = SourceId
BY EngineAssumption DEF Peer

LEMMA Flags == TRUE \in Flag /\ FALSE \in Flag /\ \A P \in BOOLEAN : P \in Flag
BY Zenon DEF Flag

LEMMA Numbers ==
    /\ EpochMax \in Nat /\ MaxCross \in Nat /\ MaxCross < EpochMax /\ 0 \in Epoch
    /\ OwnershipAckTicks \in Ticks /\ 0 \in Ticks /\ InputRateBurst \in Tokens /\ 0 \in Misses /\ 0 \in PeerX
    /\ \A e \in Epoch : e \in Nat
BY OwnershipAssumption, EngineAssumption, SessionAssumption
   DEF Epoch, Ticks, Tokens, Misses, PeerX, PeerMaxX

LEMMA NextUp ==
    ASSUME NEW e \in Epoch
    PROVE  NextEpoch(e) \in Epoch /\ (e <= MaxCross => NextEpoch(e) = e + 1)
BY Numbers DEF NextEpoch, Epoch

LEMMA GrantView ==
    ASSUME NEW v \in View, NEW t \in Device
    PROVE  /\ GrantTo(v, t) \in View /\ GrantTo(v, t).me = v.me /\ GrantTo(v, t).owner = t
           /\ GrantTo(v, t).reclaim_origin = FALSE
           /\ v.epoch <= MaxCross => GrantTo(v, t).epoch = v.epoch + 1
<1>1. NextEpoch(v.epoch) \in Epoch /\ (v.epoch <= MaxCross => NextEpoch(v.epoch) = v.epoch + 1)
  BY NextUp DEF View
<1>2. FocusOf(v.me, t) \in FocusKind
  BY DEF FocusOf, FocusKind
<1>. QED
  BY <1>1, <1>2 DEF View, GrantTo

LEMMA ReclaimView ==
    ASSUME NEW v \in View
    PROVE  /\ Reclaim(v) \in View /\ Reclaim(v).me = v.me /\ Reclaim(v).owner = v.me
           /\ Reclaim(v).reclaim_origin = TRUE
           /\ v.epoch <= MaxCross => Reclaim(v).epoch = v.epoch + 1
<1>1. NextEpoch(v.epoch) \in Epoch /\ (v.epoch <= MaxCross => NextEpoch(v.epoch) = v.epoch + 1)
  BY NextUp DEF View
<1>2. "Active" \in FocusKind
  BY DEF FocusKind
<1>. QED
  BY <1>1, <1>2 DEF View, Reclaim

LEMMA AdoptView ==
    ASSUME NEW v \in View, NEW m \in Transfers
    PROVE  LET a == Adopt(v, [owner |-> m.to, epoch |-> m.epoch, reclaim |-> m.reclaim]) IN
           /\ a \in View /\ a.me = v.me /\ a.owner = m.to /\ a.epoch = m.epoch
           /\ a.reclaim_origin = m.reclaim
<1>1. FocusOf(v.me, m.to) \in FocusKind
  BY DEF FocusOf, FocusKind
<1>. QED
  BY <1>1 DEF View, Transfers, Adopt, Flag

-----------------------------------------------------------------------------
(* Lists of actions                                                        *)

LEMMA NoActions ==
    ASSUME NEW c
    PROVE  Nothing(c).core = c /\ Listed(Nothing(c)) /\ Doing(Nothing(c)) = {}
BY DEF Nothing, Result, Listed, Doing

LEMMA List1 ==
    ASSUME NEW c, NEW a, NEW r, r = Result(c, <<a>>)
    PROVE  r.core = c /\ Listed(r) /\ Doing(r) = {a}
BY DEF Result, Listed, Doing

LEMMA List2 ==
    ASSUME NEW c, NEW a, NEW b, NEW r, r = Result(c, <<a, b>>)
    PROVE  r.core = c /\ Listed(r) /\ Doing(r) = {a, b}
BY DEF Result, Listed, Doing

LEMMA List3 ==
    ASSUME NEW c, NEW a1, NEW a2, NEW a3, NEW r, r = Result(c, <<a1, a2, a3>>)
    PROVE  r.core = c /\ Listed(r) /\ Doing(r) = {a1, a2, a3}
BY DEF Result, Listed, Doing

LEMMA List5 ==
    ASSUME NEW c, NEW a1, NEW a2, NEW a3, NEW a4, NEW a5, NEW r, r = Result(c, <<a1, a2, a3, a4, a5>>)
    PROVE  r.core = c /\ Listed(r) /\ Doing(r) = {a1, a2, a3, a4, a5}
BY DEF Result, Listed, Doing

LEMMA WiderSeq ==
    ASSUME NEW A, NEW B, A \subseteq B, NEW x \in Seq(A)
    PROVE  x \in Seq(B)
OBVIOUS

LEMMA OwnRange ==
    ASSUME NEW A, NEW x \in Seq(A)
    PROVE  x \in Seq({x[i] : i \in DOMAIN x})
OBVIOUS

\* One list after another.
LEMMA ListsJoined ==
    ASSUME NEW c, NEW r, NEW s, Listed(r), Listed(s)
    PROVE  LET t == Result(c, r.acts \o s.acts) IN
           /\ t.core = c /\ Listed(t) /\ \A a \in Doing(t) : a \in Doing(r) \/ a \in Doing(s)
           /\ Doing(r) \subseteq Doing(t) /\ Doing(s) \subseteq Doing(t)
<1>. DEFINE x == r.acts
            y == s.acts
            A == Doing(r) \cup Doing(s)
            t == Result(c, x \o y)
<1>0. x \in Seq(A) /\ y \in Seq(A)
  BY WiderSeq DEF Listed
<1>1. x \in Seq(A) /\ y \in Seq(A) /\ t.core = c /\ t.acts = x \o y
  BY <1>0 DEF Result
<1>2. /\ Doing(r) = {x[i] : i \in DOMAIN x} /\ Doing(s) = {y[i] : i \in DOMAIN y}
      /\ Doing(t) = {t.acts[i] : i \in DOMAIN t.acts}
  BY DEF Doing
<1>. HIDE DEF x, y, t, A
<1>3. /\ x \o y \in Seq(A) /\ Len(x \o y) = Len(x) + Len(y)
      /\ \A i \in 1 .. Len(x) : (x \o y)[i] = x[i]
      /\ \A i \in 1 .. Len(y) : (x \o y)[i + Len(x)] = y[i]
  BY <1>1
<1>4. ASSUME NEW i \in DOMAIN (x \o y)
      PROVE  (x \o y)[i] \in {x[j] : j \in DOMAIN x} \/ (x \o y)[i] \in {y[j] : j \in DOMAIN y}
  <2>1. i \in Nat /\ 1 <= i /\ i <= Len(x) + Len(y) /\ Len(x) \in Nat /\ Len(y) \in Nat
    BY <1>1, <1>3
  <2>2. CASE i <= Len(x)
    BY <1>1, <1>3, <2>1, <2>2
  <2>3. CASE i > Len(x)
    <3>1. i - Len(x) \in 1 .. Len(y) /\ (i - Len(x)) + Len(x) = i
      BY <2>1, <2>3
    <3>. QED
      BY <1>1, <1>3, <3>1
  <2>. QED
    BY <2>1, <2>2, <2>3
<1>5. Listed(t)
  <2>1. t.acts \in Seq(A)
    BY <1>1, <1>3
  <2>. QED
    BY <1>2, <2>1, OwnRange DEF Listed
<1>6. /\ \A i \in DOMAIN x : i \in DOMAIN (x \o y) /\ (x \o y)[i] = x[i]
      /\ \A i \in DOMAIN y : i + Len(x) \in DOMAIN (x \o y) /\ (x \o y)[i + Len(x)] = y[i]
  BY <1>1, <1>3
<1>7. Doing(r) \subseteq Doing(t) /\ Doing(s) \subseteq Doing(t)
  BY <1>1, <1>2, <1>6
<1>. QED
  BY <1>1, <1>2, <1>4, <1>5, <1>7 DEF x, y, t

LEMMA Actions ==
    /\ \A m : SendControl(m).act = "SendControl" /\ SendControl(m).msg = m
    /\ \A m : SendMotion(m).act = "SendMotion" /\ SendMotion(m).msg = m
    /\ \A e : Inject(e).act = "Inject" /\ Inject(e).event = e
    /\ \A b : SetCursorVisible(b).act = "SetCursorVisible"
    /\ \A m : SetCaptureMode(m).act = "SetCaptureMode" /\ SetCaptureMode(m).mode = m
    /\ \A v : OwnerChanged(v).act = "OwnerChanged"
    /\ \A d : Capture(d).act = "Capture"
BY DEF SendControl, SendMotion, Inject, SetCursorVisible, SetCaptureMode, OwnerChanged, Capture

-----------------------------------------------------------------------------
(* The handlers of the source                                              *)

LEMMA FreshCore ==
    ASSUME NEW c \in CoreState
    PROVE  /\ FreshEpoch(c) \in CoreState /\ FreshEpoch(c).own = c.own
           /\ FreshEpoch(c).pending_ack = c.pending_ack /\ FreshEpoch(c).guard = NoGuard
           /\ FreshEpoch(c).input_allowed = c.input_allowed
           /\ FreshEpoch(c).suppress_blocked = c.suppress_blocked
           /\ FreshEpoch(c).accepted_epoch = c.accepted_epoch
<1>1. NoGuard \in Guard
  BY Numbers DEF NoGuard, Guard
<1>2. {} \in Keys
  BY DEF Keys
<1>. HIDE DEF NoGuard
<1>. QED
  BY <1>1, <1>2 DEF CoreState, FreshEpoch

LEMMA NoPendingAck == NoPending \in PendingAck
BY Numbers DEF NoPending, PendingAck

LEMMA TransferTold ==
    ASSUME NEW v \in View, v.reclaim_origin => v.owner = SourceId, v.epoch # 0
    PROVE  /\ TransferMsg(v) \in Told(v) /\ TransferMsg(v).type = "Transfer" /\ TransferMsg(v) # HeartbeatMsg
           /\ TransferMsg(v).epoch = v.epoch /\ TransferMsg(v).to = v.owner
BY Numbers DEF TransferMsg, Told, Transfers, View, Flag, HeartbeatMsg

LEMMA CrossResult ==
    ASSUME NEW c, SourceCore(c), Owns(c), c.own.epoch < MaxCross, ~c.suppress_blocked, NEW m
    PROVE  SourceResult(c, m, CrossToPeer(c))
<1>. DEFINE v == GrantTo(c.own, TargetId)
            p == [epoch |-> v.epoch, ticks_left |-> OwnershipAckTicks]
            t == CrossToPeer(c).core
<1>0. CrossToPeer(c).core = t
  OBVIOUS
<1>1. c \in CoreState /\ c.own \in View /\ c.own.me = SourceId /\ Peer(c.own.me) = TargetId /\ c.own.epoch \in Nat
  BY Ids, Numbers DEF SourceCore, CoreState, View
<1>2. /\ v \in View /\ v.me = SourceId /\ v.owner = TargetId /\ v.reclaim_origin = FALSE
      /\ v.epoch = c.own.epoch + 1
  <2>1. c.own.epoch <= MaxCross
    BY <1>1, Numbers
  <2>. QED
    BY <1>1, <2>1, GrantView, Ids
<1>3. p \in PendingAck
  BY <1>2, Numbers DEF PendingAck, View
<1>4. t \in CoreState /\ t.own = v /\ t.pending_ack = p /\ t.input_allowed = c.input_allowed
  <2>1. t = [FreshEpoch(c) EXCEPT !.own = v, !.accepted_epoch = 0, !.pending_ack = p, !.peer_x = 0,
                                  !.reclaim_armed = FALSE, !.escape_travel = 0]
    BY <1>1 DEF CrossToPeer, Result
  <2>. HIDE DEF t, v, p
  <2>. QED
    BY <1>1, <1>2, <1>3, <2>1, FreshCore, Flags, Numbers DEF CoreState
<1>. DEFINE a1 == SetCaptureMode("ActiveForward")
            a2 == SendControl(TransferMsg(v))
            a3 == SetCursorVisible(FALSE)
            a4 == OwnerChanged(v)
            a5 == Capture("Suppress")
<1>5. Listed(CrossToPeer(c)) /\ Doing(CrossToPeer(c)) = {a1, a2, a3, a4, a5}
  <2>1. CrossToPeer(c) = Result(t, <<a1, a2, a3, a4, a5>>)
    BY <1>1 DEF CrossToPeer, Result
  <2>. HIDE DEF t, v, a1, a2, a3, a4, a5
  <2>. QED
    BY <2>1, List5
<1>6. /\ TransferMsg(v) \in Told(v) /\ TransferMsg(v).type = "Transfer" /\ TransferMsg(v).epoch = v.epoch
  BY <1>1, <1>2, TransferTold
<1>7. p.epoch = v.epoch
  OBVIOUS
<1>. HIDE DEF v, p, t
<1>8. SourceCore(t) /\ Onward(c.own, t.own) /\ Pending(t) /\ c.own.owner = SourceId
  BY <1>1, <1>2, <1>4, <1>7, Numbers DEF SourceCore, Onward, Pending, NoPending, Owns, IsOwner
<1>9. \A a \in Doing(CrossToPeer(c)) :
          /\ a.act = "SendControl" => a.msg \in Told(t.own) \cup {HeartbeatMsg}
          /\ a.act \notin {"SendMotion", "Inject"}
          /\ a.act = "SetCaptureMode" => a.mode \in {"PassiveEdge", "ActiveForward"}
  <2>1. /\ a1.act = "SetCaptureMode" /\ a1.mode = "ActiveForward" /\ a2.act = "SendControl"
        /\ a2.msg = TransferMsg(v) /\ a3.act = "SetCursorVisible" /\ a4.act = "OwnerChanged"
        /\ a5.act = "Capture"
    BY Actions
  <2>. HIDE DEF a1, a2, a3, a4, a5
  <2>. QED
    BY <1>4, <1>5, <1>6, <2>1
<1>10. Voiced(c, m, CrossToPeer(c))
  <2>1. a2 \in Doing(CrossToPeer(c)) /\ a2 = SendControl(TransferMsg(v))
    BY <1>5
  <2>2. \A a \in Doing(CrossToPeer(c)) : a.act = "SendControl" => a.msg = TransferMsg(v)
    <3>. HIDE DEF a1, a2, a3, a4, a5
    <3>1. /\ a1.act = "SetCaptureMode" /\ a2.msg = TransferMsg(v) /\ a3.act = "SetCursorVisible"
          /\ a4.act = "OwnerChanged" /\ a5.act = "Capture"
      BY Actions DEF a1, a2, a3, a4, a5
    <3>. QED
      BY <1>5, <3>1
  <2>. HIDE DEF a2
  <2>3. t.own # c.own /\ t.own.epoch > c.own.epoch /\ t.own.owner # c.own.owner
    BY <1>1, <1>2, <1>4, <1>8, Ids
  <2>. QED
    BY <1>0, <1>1, <1>2, <1>4, <1>6, <1>8, <2>1, <2>2, <2>3 DEF Voiced
<1>. QED
  BY <1>0, <1>4, <1>5, <1>8, <1>9, <1>10 DEF SourceResult

LEMMA ReclaimResult ==
    ASSUME NEW c, SourceCore(c), ~Owns(c), NEW m
    PROVE  /\ SourceResult(c, m, ReclaimLocal(c)) /\ ReclaimLocal(c).core.own # c.own /\ Owns(ReclaimLocal(c).core)
           /\ At(ReclaimLocal(c), "Inject") = {}
<1>. DEFINE v == Reclaim(c.own)
            t == ReclaimLocal(c).core
<1>0. ReclaimLocal(c).core = t
  OBVIOUS
<1>1. c \in CoreState /\ c.own \in View /\ c.own.me = SourceId /\ c.own.owner = TargetId /\ c.own.epoch <= MaxCross
      /\ c.own.epoch \in Nat
  BY Ids, Numbers DEF SourceCore, CoreState, View, Owns, IsOwner
<1>2. /\ v \in View /\ v.me = SourceId /\ v.owner = SourceId /\ v.reclaim_origin = TRUE
      /\ v.epoch = c.own.epoch + 1
  BY <1>1, Numbers, ReclaimView, Ids
<1>4. t \in CoreState /\ t.own = v /\ t.pending_ack = NoPending /\ t.input_allowed = c.input_allowed
  <2>1. t = [FreshEpoch(c) EXCEPT !.own = v, !.accepted_epoch = 0, !.pending_ack = NoPending,
                                  !.reclaim_armed = TRUE, !.cross_out_armed = FALSE]
    BY <1>1 DEF ReclaimLocal, Result
  <2>2. NoPending \in PendingAck /\ 0 \in Epoch /\ TRUE \in Flag /\ FALSE \in Flag
    BY NoPendingAck, Flags, Numbers
  <2>. HIDE DEF t, v
  <2>3. FreshEpoch(c) \in CoreState /\ FreshEpoch(c).input_allowed = c.input_allowed
    BY <1>1, FreshCore
  <2>. QED
    BY <1>2, <2>1, <2>2, <2>3 DEF CoreState
<1>. DEFINE a1 == SetCaptureMode("PassiveEdge")
            a2 == SendControl(TransferMsg(v))
            a3 == SetCursorVisible(TRUE)
            a4 == OwnerChanged(v)
            a5 == Capture("PassThrough")
<1>5. Listed(ReclaimLocal(c)) /\ Doing(ReclaimLocal(c)) = {a1, a2, a3, a4, a5}
  <2>1. ReclaimLocal(c) = Result(t, <<a1, a2, a3, a4, a5>>)
    BY <1>1 DEF ReclaimLocal, Result
  <2>. HIDE DEF t, v, a1, a2, a3, a4, a5
  <2>. QED
    BY <2>1, List5
<1>6. /\ TransferMsg(v) \in Told(v) /\ TransferMsg(v).type = "Transfer" /\ TransferMsg(v).epoch = v.epoch
  BY <1>1, <1>2, TransferTold
<1>. HIDE DEF v, t
<1>8. SourceCore(t) /\ Onward(c.own, t.own) /\ Owns(t)
  BY <1>1, <1>2, <1>4, Numbers, Ids DEF SourceCore, Onward, Pending, Owns, IsOwner
<1>9. \A a \in Doing(ReclaimLocal(c)) :
          /\ a.act = "SendControl" => a.msg \in Told(t.own) \cup {HeartbeatMsg}
          /\ a.act \notin {"SendMotion", "Inject"}
          /\ a.act = "SetCaptureMode" => a.mode \in {"PassiveEdge", "ActiveForward"}
  <2>1. /\ a1.act = "SetCaptureMode" /\ a1.mode = "PassiveEdge" /\ a2.act = "SendControl"
        /\ a2.msg = TransferMsg(v) /\ a3.act = "SetCursorVisible" /\ a4.act = "OwnerChanged"
        /\ a5.act = "Capture"
    BY Actions
  <2>. HIDE DEF a1, a2, a3, a4, a5
  <2>. QED
    BY <1>4, <1>5, <1>6, <2>1
<1>10. At(ReclaimLocal(c), "Inject") = {}
  BY <1>9 DEF At, Doing
<1>11. Voiced(c, m, ReclaimLocal(c)) /\ t.own # c.own
  <2>1. a2 \in Doing(ReclaimLocal(c)) /\ a2 = SendControl(TransferMsg(v))
    BY <1>5
  <2>2. \A a \in Doing(ReclaimLocal(c)) : a.act = "SendControl" => a.msg = TransferMsg(v)
    <3>. HIDE DEF a1, a2, a3, a4, a5
    <3>1. /\ a1.act = "SetCaptureMode" /\ a2.msg = TransferMsg(v) /\ a3.act = "SetCursorVisible"
          /\ a4.act = "OwnerChanged" /\ a5.act = "Capture"
      BY Actions DEF a1, a2, a3, a4, a5
    <3>. QED
      BY <1>5, <3>1
  <2>. HIDE DEF a2
  <2>3. t.own # c.own /\ t.own.epoch > c.own.epoch /\ t.own.owner # c.own.owner /\ t.own.owner # TargetId
    BY <1>1, <1>2, <1>4, Ids
  <2>. QED
    BY <1>0, <1>1, <1>2, <1>4, <1>6, <2>1, <2>2, <2>3 DEF Voiced
<1>. QED
  BY <1>0, <1>4, <1>5, <1>8, <1>9, <1>10, <1>11 DEF SourceResult

\* The core may change in what does not matter here.
LEMMA SameClaim ==
    ASSUME NEW c, SourceCore(c), NEW t \in CoreState, t.own = c.own,
           t.pending_ack = c.pending_ack \/ t.pending_ack = NoPending
    PROVE  SourceCore(t)
BY DEF SourceCore, Pending

LEMMA Rebased ==
    ASSUME NEW c, NEW t, NEW m, NEW r, SourceCore(c), SourceCore(t), SourceResult(t, m, r), Alike(c, t),
           c.suppress_blocked => t.suppress_blocked,
           (Pending(c) => Pending(t)) \/ r.core.own # c.own
    PROVE  SourceResult(c, m, r)
<1>1. c.out_ctr \in Nat /\ t.out_ctr \in Nat /\ r.core.out_ctr \in Nat
  BY DEF SourceResult, SourceCore, CoreState
<1>2. Voiced(c, m, r)
  BY <1>1 DEF SourceResult, Alike, Voiced
<1>. QED
  BY <1>2 DEF SourceResult, Alike, Owns

LEMMA QuietResult ==
    ASSUME NEW c, NEW m, NEW r, SourceCore(c), SourceCore(r.core), Alike(c, r.core), Listed(r),
           Pending(c) => Pending(r.core) \/ AckFor(m, c.own.epoch),
           \A a \in Doing(r) :
              /\ a.act = "SendControl" => /\ a.msg \in Told(r.core.own) \cup {HeartbeatMsg}
                                          /\ a.msg.type # "Transfer"
                                          /\ a.msg.type = "Input" => a.msg = m
              /\ a.act = "SendMotion" => a.msg \in Motion
              /\ a.act \notin {"SetCaptureMode", "Inject"}
    PROVE  SourceResult(c, m, r)
<1>1. Onward(c.own, r.core.own)
  BY Numbers DEF Onward, SourceCore, CoreState, View, Alike
<1>2. Voiced(c, m, r)
  BY DEF Voiced, Alike
<1>. QED
  BY <1>1, <1>2 DEF SourceResult, Owns, Alike

LEMMA PassResult ==
    ASSUME NEW c, NEW m, NEW t, SourceCore(c), SourceCore(t), Alike(c, t), Pending(c) => Pending(t)
    PROVE  SourceResult(c, m, PassThrough(t)) /\ SourceResult(c, m, Nothing(t))
<1>. DEFINE a == Capture("PassThrough")
<1>1. a.act = "Capture"
  BY Actions
<1>2. PassThrough(t) = Result(t, <<a>>)
  BY DEF PassThrough
<1>. HIDE DEF a
<1>3. PassThrough(t).core = t /\ Listed(PassThrough(t)) /\ Doing(PassThrough(t)) = {a}
  BY <1>2, List1
<1>4. SourceResult(c, m, PassThrough(t))
  BY <1>1, <1>3, QuietResult
<1>5. SourceResult(c, m, Nothing(t))
  BY NoActions, QuietResult
<1>. QED
  BY <1>4, <1>5

LEMMA AlikeIs ==
    ASSUME NEW c \in CoreState, NEW t, t.own = c.own, t.input_allowed = c.input_allowed, t.out_ctr = c.out_ctr
    PROVE  Alike(c, t)
BY DEF Alike, CoreState

LEMMA AlikeSelf == ASSUME NEW c, SourceCore(c) PROVE Alike(c, c)
BY DEF Alike, SourceCore, CoreState

LEMMA HereResult ==
    ASSUME NEW c, SourceCore(c), Owns(c), NEW x \in Int, NEW dx \in Int,
           OnCursorHere(c, x, dx).core.own.owner # c.own.owner => c.own.epoch < MaxCross, NEW m
    PROVE  SourceResult(c, m, OnCursorHere(c, x, dx))
<1>. DEFINE t == [c EXCEPT !.cross_out_armed = TRUE]
<1>1. c \in CoreState
  BY DEF SourceCore
<1>2. t \in CoreState /\ t.own = c.own /\ t.pending_ack = c.pending_ack /\ Alike(c, t)
  <2>1. /\ t \in CoreState /\ t.own = c.own /\ t.pending_ack = c.pending_ack
        /\ t.input_allowed = c.input_allowed /\ t.out_ctr = c.out_ctr
    BY <1>1, Flags DEF CoreState
  <2>. QED
    BY <1>1, <2>1, AlikeIs
<1>3. SourceCore(t) /\ (Pending(c) => Pending(t))
  BY <1>2, SameClaim DEF Pending
<1>. HIDE DEF t
<1>4. SourceResult(c, m, PassThrough(t)) /\ SourceResult(c, m, PassThrough(c))
  BY <1>2, <1>3, PassResult, AlikeSelf
<1>5. CASE OnCursorHere(c, x, dx) = CrossToPeer(c) /\ ~c.suppress_blocked
  <2>1. CrossToPeer(c).core.own.owner = TargetId /\ c.own.owner = SourceId
    <3>1. c.own \in View /\ c.own.me = SourceId /\ c.own.owner = SourceId /\ Peer(SourceId) = TargetId
      BY <1>1, Ids DEF SourceCore, Owns, IsOwner, CoreState
    <3>2. CrossToPeer(c).core.own = GrantTo(c.own, TargetId)
      <4>. DEFINE f == FreshEpoch(c)
                  v == GrantTo(c.own, TargetId)
                  p == [epoch |-> v.epoch, ticks_left |-> OwnershipAckTicks]
      <4>1. f \in CoreState
        BY <1>1, FreshCore
      <4>2. CrossToPeer(c).core = [f EXCEPT !.own = v, !.accepted_epoch = 0, !.pending_ack = p, !.peer_x = 0,
                                            !.reclaim_armed = FALSE, !.escape_travel = 0]
        BY <3>1 DEF CrossToPeer, Result
      <4>. HIDE DEF f, v, p
      <4>3. CrossToPeer(c).core.own = v
        BY <4>1, <4>2 DEF CoreState
      <4>. QED
        BY <4>3 DEF v
    <3>3. GrantTo(c.own, TargetId).owner = TargetId
      BY <3>1, Ids, GrantView
    <3>. QED
      BY <3>1, <3>2, <3>3
  <2>. QED
    BY <1>5, <2>1, CrossResult, Ids
<1>6. \/ OnCursorHere(c, x, dx) = CrossToPeer(c) /\ ~c.suppress_blocked
      \/ OnCursorHere(c, x, dx) \in {PassThrough(t), PassThrough(c)}
  BY DEF OnCursorHere, t
<1>. QED
  BY <1>4, <1>5, <1>6

LEMMA Clamped ==
    ASSUME NEW v \in Int
    PROVE  Clamp(v, 0, PeerMaxX) \in PeerX
BY EngineAssumption DEF Clamp, Least, Greatest, PeerX, PeerMaxX

LEMMA MotionIs ==
    ASSUME NEW c \in CoreState
    PROVE  MotionFrom(c) \in Motion
BY DEF MotionFrom, Motion, CoreState, View

\* A sample of the virtual cursor is sent with the next number.
LEMMA SentOn ==
    ASSUME NEW c, SourceCore(c)
    PROVE  LET t == [c EXCEPT !.out_seq = @ + 1] IN
           /\ SourceCore(t) /\ t.own = c.own /\ SendMotion(MotionFrom(t)).msg \in Motion
           /\ Alike(c, t) /\ t.pending_ack = c.pending_ack
<1>. DEFINE t == [c EXCEPT !.out_seq = @ + 1]
<1>1. c \in CoreState
  BY DEF SourceCore
<1>2. t \in CoreState /\ t.own = c.own /\ t.pending_ack = c.pending_ack /\ Alike(c, t)
  BY <1>1 DEF CoreState, Alike
<1>. HIDE DEF t
<1>3. SourceCore(t) /\ SendMotion(MotionFrom(t)).msg \in Motion
  BY <1>2, SameClaim, MotionIs, Actions
<1>. QED
  BY <1>2, <1>3 DEF t

LEMMA DriveResult ==
    ASSUME NEW c, SourceCore(c), ~Owns(c), NEW dx \in Int, NEW m
    PROVE  SourceResult(c, m, DrivePeer(c, dx))
<1>. DEFINE px == Clamp(c.peer_x + dx, 0, PeerMaxX)
            armed == c.reclaim_armed \/ PeerLeftEntryEdge(px)
            moved == [c EXCEPT !.peer_x = px, !.reclaim_armed = armed]
            back == ReclaimLocal(moved)
            sent == [moved EXCEPT !.out_seq = @ + 1]
            warp == Inject([kind |-> "Warp"])
            a == SendMotion(MotionFrom(sent))
            b == Capture("Suppress")
<1>1. c \in CoreState
  BY DEF SourceCore
<1>2. px \in PeerX /\ armed \in Flag
  <2>1. c.peer_x + dx \in Int
    BY <1>1, EngineAssumption DEF CoreState, PeerX, PeerMaxX
  <2>2. armed \in Flag
    BY Zenon DEF Flag
  <2>. QED
    BY <2>1, <2>2, Clamped
<1>3. moved \in CoreState /\ moved.own = c.own /\ moved.pending_ack = c.pending_ack
      /\ moved.suppress_blocked = c.suppress_blocked /\ Alike(c, moved)
  <2>. HIDE DEF px, armed
  <2>1. /\ moved \in CoreState /\ moved.own = c.own /\ moved.pending_ack = c.pending_ack
        /\ moved.suppress_blocked = c.suppress_blocked
        /\ moved.input_allowed = c.input_allowed /\ moved.out_ctr = c.out_ctr
    BY <1>1, <1>2 DEF CoreState
  <2>. QED
    BY <1>1, <2>1, AlikeIs
<1>4. \/ DrivePeer(c, dx) = Result(back.core, Append(back.acts, warp))
      \/ DrivePeer(c, dx) = Result(sent, <<a, b>>)
  BY DEF DrivePeer
<1>5. warp.act = "Inject" /\ b.act = "Capture" /\ a.act = "SendMotion"
  BY Actions
<1>. HIDE DEF moved
<1>6. SourceCore(moved) /\ ~Owns(moved)
  BY <1>3, SameClaim DEF Owns
<1>7. SourceResult(moved, m, back) /\ Owns(back.core)
  BY <1>6, ReclaimResult
<1>8. SourceCore(sent) /\ sent.own = c.own /\ a.msg \in Motion /\ Alike(c, sent) /\ sent.pending_ack = c.pending_ack
  <2>1. /\ SourceCore(sent) /\ sent.own = moved.own /\ a.msg \in Motion
        /\ Alike(moved, sent) /\ sent.pending_ack = moved.pending_ack
    BY <1>6, SentOn
  <2>2. c.out_ctr \in Nat /\ moved.out_ctr \in Nat /\ sent.out_ctr \in Nat
    BY <1>1, <1>3, <2>1 DEF CoreState, SourceCore
  <2>. QED
    BY <1>3, <2>1, <2>2 DEF Alike
<1>. HIDE DEF back, sent, warp, a, b
<1>9. CASE DrivePeer(c, dx) = Result(sent, <<a, b>>)
  <2>1. LET r == DrivePeer(c, dx) IN r.core = sent /\ Listed(r) /\ Doing(r) = {a, b}
    BY <1>9, List2
  <2>. QED
    BY <1>5, <1>8, <2>1, QuietResult DEF Pending
<1>10. CASE DrivePeer(c, dx) = Result(back.core, Append(back.acts, warp))
  <2>. DEFINE r == DrivePeer(c, dx)
              w == Result(back.core, <<warp>>)
  <2>1. Listed(w) /\ Doing(w) = {warp} /\ w.acts = <<warp>>
    BY List1 DEF Result
  <2>2. Listed(back)
    BY <1>7 DEF SourceResult
  <2>3. r = Result(back.core, back.acts \o w.acts)
    <3>1. Append(back.acts, warp) = back.acts \o <<warp>>
      BY <2>2 DEF Listed
    <3>. QED
      BY <1>10, <2>1, <3>1
  <2>. HIDE DEF r, w
  <2>4. /\ r.core = back.core /\ Listed(r) /\ \A d \in Doing(r) : d \in Doing(back) \/ d \in Doing(w)
        /\ Doing(back) \subseteq Doing(r)
    BY <2>1, <2>2, <2>3, ListsJoined
  <2>5. Voiced(moved, m, r)
    BY <1>5, <1>7, <2>1, <2>4 DEF SourceResult, Voiced
  <2>6. SourceResult(moved, m, r)
    BY <1>5, <1>6, <1>7, <2>1, <2>4, <2>5 DEF SourceResult, Owns
  <2>7. SourceResult(c, m, r)
    BY <1>3, <1>6, <2>6, Rebased DEF Pending
  <2>. QED
    BY <2>7 DEF r
<1>. QED
  BY <1>4, <1>9, <1>10

LEMMA AwayResult ==
    ASSUME NEW c, SourceCore(c), ~Owns(c), NEW x \in Int, NEW dx \in Int, NEW m
    PROVE  SourceResult(c, m, OnCursorAway(c, x, dx))
<1>. DEFINE travel == Greatest(c.escape_travel - dx, 0)
            t == [c EXCEPT !.escape_travel = travel]
<1>1. c \in CoreState
  BY DEF SourceCore
<1>2. travel \in Nat
  BY <1>1 DEF CoreState, Greatest
<1>3. t \in CoreState /\ t.own = c.own /\ t.pending_ack = c.pending_ack
      /\ t.suppress_blocked = c.suppress_blocked /\ Alike(c, t)
  <2>. HIDE DEF travel
  <2>. QED
    <3>1. /\ t \in CoreState /\ t.own = c.own /\ t.pending_ack = c.pending_ack
          /\ t.suppress_blocked = c.suppress_blocked
          /\ t.input_allowed = c.input_allowed /\ t.out_ctr = c.out_ctr
      BY <1>1, <1>2 DEF CoreState
    <3>. QED
      BY <1>1, <3>1, AlikeIs
<1>4. OnCursorAway(c, x, dx) \in {ReclaimLocal(c), ReclaimLocal(t), DrivePeer(t, dx)}
  BY DEF OnCursorAway
<1>. HIDE DEF t
<1>5. SourceCore(t) /\ ~Owns(t)
  BY <1>3, SameClaim DEF Owns
<1>6. /\ SourceResult(c, m, ReclaimLocal(c)) /\ SourceResult(t, m, ReclaimLocal(t))
      /\ SourceResult(t, m, DrivePeer(t, dx))
  BY <1>5, ReclaimResult, DriveResult
<1>. QED
  BY <1>3, <1>4, <1>5, <1>6, Rebased DEF Pending

\* The frame that carries the next event to the peer.
InputFrom(c, ev) == [type |-> "Input", event |-> ev, epoch |-> c.own.epoch, ctr |-> c.out_ctr + 1]

LEMMA LocalResult ==
    ASSUME NEW c, SourceCore(c), NEW ev \in Events
    PROVE  SourceResult(c, InputFrom(c, ev), OnLocalEvent(c, ev))
<1>. DEFINE t == [c EXCEPT !.out_ctr = @ + 1]
            m == InputFrom(c, ev)
            a == SendControl(m)
            b == Capture("Suppress")
<1>1. c \in CoreState
  BY DEF SourceCore
<1>2. t \in CoreState /\ t.own = c.own /\ t.pending_ack = c.pending_ack /\ Alike(c, t) /\ t.out_ctr = c.out_ctr + 1
  BY <1>1 DEF CoreState, Alike
<1>3. OnLocalEvent(c, ev) \in {PassThrough(c), Result(t, <<a, b>>)}
  BY <1>2 DEF OnLocalEvent, InputFrom
<1>4. a.act = "SendControl" /\ a.msg = m /\ b.act = "Capture"
  BY Actions
<1>. HIDE DEF a, b, t
<1>5. SourceCore(t)
  BY <1>2, SameClaim
<1>6. m \in Told(t.own) /\ m.type = "Input"
  <2>1. m \in Inputs /\ m.epoch <= t.own.epoch /\ m.type = "Input"
    BY <1>1, <1>2, Numbers DEF Inputs, CoreState, View, InputFrom
  <2>. QED
    BY <2>1 DEF Told
<1>. HIDE DEF m
<1>7. ASSUME NEW r, r = Result(t, <<a, b>>)
      PROVE  SourceResult(c, m, r)
  <2>1. r.core = t /\ Listed(r) /\ Doing(r) = {a, b}
    BY <1>7, List2
  <2>. QED
    BY <1>2, <1>4, <1>5, <1>6, <2>1, QuietResult DEF Pending
<1>8. SourceResult(c, m, PassThrough(c))
  BY PassResult, AlikeSelf
<1>. QED
  BY <1>3, <1>7, <1>8 DEF m

LEMMA SuppressResult ==
    ASSUME NEW c, SourceCore(c), NEW m
    PROVE  SourceResult(c, m, OnSuppressUnavailable(c))
<1>. DEFINE t == [c EXCEPT !.suppress_blocked = TRUE]
<1>1. /\ t \in CoreState /\ t.own = c.own /\ t.pending_ack = c.pending_ack /\ t.suppress_blocked = TRUE
      /\ Alike(c, t)
  <2>1. /\ t \in CoreState /\ t.own = c.own /\ t.pending_ack = c.pending_ack /\ t.suppress_blocked = TRUE
        /\ t.input_allowed = c.input_allowed /\ t.out_ctr = c.out_ctr /\ c \in CoreState
    BY Flags DEF SourceCore, CoreState
  <2>. QED
    BY <2>1, AlikeIs
<1>2. \/ OnSuppressUnavailable(c) = Nothing(t)
      \/ ~Owns(c) /\ OnSuppressUnavailable(c) = ReclaimLocal(t)
  BY DEF OnSuppressUnavailable
<1>. HIDE DEF t
<1>3. SourceCore(t) /\ (~Owns(c) => ~Owns(t)) /\ (Pending(c) => Pending(t))
  BY <1>1, SameClaim DEF Owns, Pending
<1>4. ~Owns(c) => SourceResult(t, m, ReclaimLocal(t))
  BY <1>3, ReclaimResult
<1>5. SourceResult(c, m, Nothing(t))
  BY <1>1, <1>3, PassResult
<1>. QED
  BY <1>1, <1>2, <1>3, <1>4, <1>5, Rebased

\* What a tick leaves of a core: tokens, then the countdown and the misses.
Refilled(c) == [c EXCEPT !.tokens = Least(c.tokens + InputRateRefill, InputRateBurst)]
Ticked(c) ==
    [Refilled(c) EXCEPT
        !.pending_ack = IF Pending(c) THEN [c.pending_ack EXCEPT !.ticks_left = @ - 1] ELSE c.pending_ack,
        !.misses = IF IsSource(c) THEN Least(c.misses + 1, HeartbeatMissLimit) ELSE c.misses]

LEMMA TickedCore ==
    ASSUME NEW c \in CoreState
    PROVE  /\ Refilled(c) \in CoreState /\ Refilled(c).own = c.own
           /\ Refilled(c).input_allowed = c.input_allowed /\ Refilled(c).out_ctr = c.out_ctr
           /\ Refilled(c).pending_ack = c.pending_ack /\ Refilled(c).suppress_blocked = c.suppress_blocked
           /\ ~(Pending(c) /\ c.pending_ack.ticks_left = 0) =>
                 LET u == Ticked(c) IN
                 /\ u \in CoreState /\ u.own = c.own /\ u.guard = c.guard /\ u.input_allowed = c.input_allowed
                 /\ u.suppress_blocked = c.suppress_blocked /\ u.accepted_epoch = c.accepted_epoch
                 /\ u.held_keys = c.held_keys /\ u.out_ctr = c.out_ctr
                 /\ u.pending_ack.epoch = c.pending_ack.epoch
                 /\ ~Pending(c) => u.pending_ack = c.pending_ack
<1>. DEFINE k == Least(c.tokens + InputRateRefill, InputRateBurst)
            p == IF Pending(c) THEN [c.pending_ack EXCEPT !.ticks_left = @ - 1] ELSE c.pending_ack
            n == IF IsSource(c) THEN Least(c.misses + 1, HeartbeatMissLimit) ELSE c.misses
            t == Refilled(c)
            u == Ticked(c)
<1>0. t = [c EXCEPT !.tokens = k] /\ u = [t EXCEPT !.pending_ack = p, !.misses = n]
  BY DEF Refilled, Ticked
<1>1. k \in Tokens
  BY EngineAssumption DEF CoreState, Tokens, Least
<1>2. n \in Misses
  BY EngineAssumption DEF CoreState, Misses, Least
<1>3. ~(Pending(c) /\ c.pending_ack.ticks_left = 0) =>
         p \in PendingAck /\ p.epoch = c.pending_ack.epoch /\ (~Pending(c) => p = c.pending_ack)
  <2>1. c.pending_ack \in PendingAck
    BY DEF CoreState
  <2>2. CASE Pending(c) /\ c.pending_ack.ticks_left # 0
    <3>1. c.pending_ack.ticks_left \in Ticks /\ c.pending_ack.ticks_left # 0
      BY <2>1, <2>2 DEF PendingAck
    <3>2. c.pending_ack.ticks_left - 1 \in Ticks
      BY <3>1, EngineAssumption DEF Ticks
    <3>. QED
      BY <2>1, <2>2, <3>2 DEF PendingAck
  <2>3. CASE ~Pending(c)
    BY <2>1, <2>3
  <2>. QED
    BY <2>2, <2>3
<1>. HIDE DEF k, p, n, t, u
<1>4. /\ t \in CoreState /\ t.own = c.own /\ t.guard = c.guard /\ t.input_allowed = c.input_allowed
      /\ t.suppress_blocked = c.suppress_blocked /\ t.accepted_epoch = c.accepted_epoch
      /\ t.held_keys = c.held_keys /\ t.pending_ack = c.pending_ack /\ t.out_ctr = c.out_ctr
  BY <1>0, <1>1 DEF CoreState
<1>5. ASSUME ~(Pending(c) /\ c.pending_ack.ticks_left = 0)
      PROVE  /\ u.own = t.own /\ u.guard = t.guard /\ u.input_allowed = t.input_allowed
             /\ u.suppress_blocked = t.suppress_blocked /\ u.accepted_epoch = t.accepted_epoch
             /\ u.held_keys = t.held_keys /\ u.out_ctr = t.out_ctr /\ u.pending_ack = p /\ u \in CoreState
  BY <1>0, <1>2, <1>3, <1>4, <1>5 DEF CoreState
<1>. QED
  BY <1>3, <1>4, <1>5 DEF t, u

\* A heartbeat ahead of the actions of a result.
LEMMA BeatFirst ==
    ASSUME NEW r, Listed(r)
    PROVE  LET b == Result(r.core, <<SendControl(HeartbeatMsg)>> \o r.acts) IN
           /\ b.core = r.core /\ Listed(b) /\ Doing(r) \subseteq Doing(b)
           /\ \A a \in Doing(b) : a = SendControl(HeartbeatMsg) \/ a \in Doing(r)
<1>. DEFINE beat == SendControl(HeartbeatMsg)
            w == Result(r.core, <<beat>>)
<1>1. Listed(w) /\ Doing(w) = {beat} /\ w.acts = <<beat>>
  <2>. HIDE DEF beat
  <2>. QED
    BY List1 DEF Result
<1>. HIDE DEF w
<1>2. LET b == Result(r.core, w.acts \o r.acts) IN
      /\ b.core = r.core /\ Listed(b) /\ Doing(r) \subseteq Doing(b)
      /\ \A a \in Doing(b) : a \in Doing(w) \/ a \in Doing(r)
  BY <1>1, ListsJoined
<1>. QED
  BY <1>1, <1>2

LEMMA TickResult ==
    ASSUME NEW c, SourceCore(c), NEW m
    PROVE  SourceResult(c, m, OnTick(c))
<1>. DEFINE beat == SendControl(HeartbeatMsg)
            t == Refilled(c)
            u == Ticked(c)
            Taking(r) == Result(r.core, <<beat>> \o r.acts)
<1>1. c \in CoreState
  BY DEF SourceCore
<1>2. \/ Pending(c) /\ OnTick(c) = Taking(ReclaimLocal(t))
      \/ /\ ~(Pending(c) /\ c.pending_ack.ticks_left = 0)
         /\ \/ ~Owns(c) /\ OnTick(c) = Taking(ReclaimLocal(u))
            \/ OnTick(c) = Result(u, <<beat>>)
  BY DEF OnTick, Refilled, Ticked
<1>3. beat.act = "SendControl" /\ beat.msg = HeartbeatMsg /\ HeartbeatMsg.type = "Heartbeat"
  BY Actions DEF HeartbeatMsg
<1>4. ASSUME NEW k, SourceCore(k), ~Owns(k), Alike(c, k), k.suppress_blocked = c.suppress_blocked
      PROVE  SourceResult(c, m, Taking(ReclaimLocal(k)))
  <2>. DEFINE r == ReclaimLocal(k)
  <2>1. SourceResult(k, m, r) /\ r.core.own # c.own
    BY <1>4, ReclaimResult DEF Alike
  <2>. HIDE DEF r
  <2>2. Listed(r) /\ SourceResult(c, m, r)
    <3>1. SourceResult(c, m, r)
      BY <1>4, <2>1, Rebased
    <3>. QED
      BY <3>1 DEF SourceResult
  <2>3. /\ Taking(r).core = r.core /\ Listed(Taking(r)) /\ Doing(r) \subseteq Doing(Taking(r))
        /\ \A a \in Doing(Taking(r)) : a = beat \/ a \in Doing(r)
    BY <2>2, BeatFirst
  <2>. HIDE DEF beat, Taking
  <2>4. Voiced(c, m, Taking(r))
    BY <1>3, <2>2, <2>3 DEF SourceResult, Voiced
  <2>5. SourceResult(c, m, Taking(r))
    BY <1>3, <2>2, <2>3, <2>4 DEF SourceResult
  <2>. QED
    BY <2>5 DEF r
<1>5. CASE Pending(c) /\ OnTick(c) = Taking(ReclaimLocal(t))
  <2>2. t \in CoreState /\ t.own = c.own /\ t.pending_ack = c.pending_ack
        /\ t.suppress_blocked = c.suppress_blocked /\ Alike(c, t)
    BY <1>1, TickedCore, AlikeIs
  <2>. HIDE DEF t, Taking
  <2>3. SourceCore(t) /\ ~Owns(t)
    BY <1>5, <2>2, SameClaim, Ids DEF SourceCore, Owns, IsOwner
  <2>. QED
    BY <1>4, <1>5, <2>2, <2>3
<1>6. ASSUME ~(Pending(c) /\ c.pending_ack.ticks_left = 0)
      PROVE  /\ SourceCore(u) /\ u.own = c.own /\ u.suppress_blocked = c.suppress_blocked /\ Alike(c, u)
             /\ Pending(c) => Pending(u)
  <2>1. /\ u \in CoreState /\ u.own = c.own /\ u.suppress_blocked = c.suppress_blocked /\ Alike(c, u)
        /\ u.pending_ack.epoch = c.pending_ack.epoch /\ (~Pending(c) => u.pending_ack = c.pending_ack)
    BY <1>1, <1>6, TickedCore, AlikeIs
  <2>2. Pending(c) => c.pending_ack.epoch # 0
    BY DEF SourceCore
  <2>. HIDE DEF u
  <2>. QED
    BY <2>1, <2>2 DEF SourceCore, Pending, NoPending
<1>7. CASE /\ ~(Pending(c) /\ c.pending_ack.ticks_left = 0)
           /\ ~Owns(c) /\ OnTick(c) = Taking(ReclaimLocal(u))
  <2>. HIDE DEF u, Taking
  <2>. QED
    BY <1>4, <1>6, <1>7 DEF Owns
<1>8. CASE ~(Pending(c) /\ c.pending_ack.ticks_left = 0) /\ OnTick(c) = Result(u, <<beat>>)
  <2>. HIDE DEF u, beat
  <2>1. OnTick(c).core = u /\ Listed(OnTick(c)) /\ Doing(OnTick(c)) = {beat}
    BY <1>8, List1
  <2>. QED
    BY <1>3, <1>6, <1>8, <2>1, QuietResult
<1>. QED
  BY <1>2, <1>5, <1>7, <1>8

\* What Accepted leaves of a core, for either side.
LEMMA AcceptedCore ==
    ASSUME NEW c \in CoreState, NEW v \in View
    PROVE  LET t == Accepted(c, v) IN
           /\ t \in CoreState /\ t.own = v /\ t.pending_ack = NoPending /\ t.guard = NoGuard
           /\ t.input_allowed = c.input_allowed /\ t.suppress_blocked = c.suppress_blocked
           /\ t.held_keys = {} /\ t.accepted_epoch = IF v.owner = v.me THEN v.epoch ELSE 0
<1>. DEFINE f == FreshEpoch(c)
            mine == v.owner = v.me
            src == IsSource(c)
            e == IF mine THEN v.epoch ELSE 0
            k == IF mine THEN InputRateBurst ELSE f.tokens
            o == IF mine /\ src THEN FALSE ELSE f.cross_out_armed
            a == IF ~mine /\ src THEN FALSE ELSE f.reclaim_armed
            t == Accepted(c, v)
<1>1. f \in CoreState /\ f.guard = NoGuard /\ f.input_allowed = c.input_allowed
      /\ f.suppress_blocked = c.suppress_blocked /\ f.held_keys = {}
  <2>1. f.held_keys = {}
    BY DEF FreshEpoch, CoreState
  <2>. QED
    BY <2>1, FreshCore
<1>2. e \in Epoch /\ k \in Tokens /\ o \in Flag /\ a \in Flag
  BY <1>1, Flags, Numbers DEF CoreState, View
<1>3. t = [f EXCEPT !.own = v, !.misses = 0, !.pending_ack = NoPending, !.accepted_epoch = e,
                    !.tokens = k, !.cross_out_armed = o, !.reclaim_armed = a]
  BY DEF Accepted
<1>. HIDE DEF f, mine, src, k, o, a, t, e
<1>4. /\ t \in CoreState /\ t.own = v /\ t.pending_ack = NoPending /\ t.guard = NoGuard
      /\ t.input_allowed = c.input_allowed /\ t.suppress_blocked = c.suppress_blocked
      /\ t.held_keys = {} /\ t.accepted_epoch = e
  BY <1>1, <1>2, <1>3, NoPendingAck, Numbers DEF CoreState
<1>. QED
  BY <1>4 DEF t, e, mine

LEMMA AckIs ==
    ASSUME NEW e \in Epoch, NEW b \in {TRUE, FALSE}
    PROVE  AckMsg(e, b) \in Acks
BY Flags DEF AckMsg, Acks

\* What OnTransfer returns: a refusal, or the claim adopted.
ClaimIn(m) == [owner |-> m.to, epoch |-> m.epoch, reclaim |-> m.reclaim]

TransferRefused(c, m) == (m.to = c.own.me /\ ~c.input_allowed) \/ ~Accepts(c.own, ClaimIn(m))

LEMMA TransferResult ==
    ASSUME NEW c \in CoreState, NEW m \in Transfers
    PROVE  LET r == OnTransfer(c, m)
               v == Adopt(c.own, ClaimIn(m))
               t == Accepted(c, v) IN
           /\ Listed(r)
           /\ TransferRefused(c, m) => r.core = c /\ Doing(r) = {SendControl(AckMsg(m.epoch, FALSE))}
           /\ ~TransferRefused(c, m) =>
                /\ r.core = t
                /\ \A a \in Doing(r) : \/ a \in {SendControl(AckMsg(m.epoch, TRUE)),
                                                 SetCursorVisible(Owns(t)), OwnerChanged(v)}
                                       \/ IsSource(c) /\ a = SetCaptureMode(CaptureModeOf(t))
<1>. DEFINE r == OnTransfer(c, m)
            v == Adopt(c.own, ClaimIn(m))
            t == Accepted(c, v)
            a0 == SendControl(AckMsg(m.epoch, FALSE))
            a1 == SendControl(AckMsg(m.epoch, TRUE))
            a2 == SetCursorVisible(Owns(t))
            a3 == OwnerChanged(v)
            a4 == SetCaptureMode(CaptureModeOf(t))
            last == IF IsSource(c) THEN <<a4>> ELSE <<>>
<1>1. /\ TransferRefused(c, m) => r = Result(c, <<a0>>)
      /\ ~TransferRefused(c, m) => r = Result(t, <<a1, a2, a3>> \o last)
  BY DEF OnTransfer, TransferRefused, ClaimIn
<1>. HIDE DEF r, t, v, a0, a1, a2, a3, a4
<1>2. TransferRefused(c, m) => r.core = c /\ Listed(r) /\ Doing(r) = {a0}
  BY <1>1, List1
<1>3. ASSUME ~TransferRefused(c, m)
      PROVE  /\ r.core = t /\ Listed(r)
             /\ \A a \in Doing(r) : a \in {a1, a2, a3} \/ (IsSource(c) /\ a = a4)
  <2>. DEFINE x == Result(t, <<a1, a2, a3>>)
              y == Result(t, last)
  <2>1. Listed(x) /\ Doing(x) = {a1, a2, a3}
    BY List3
  <2>2. Listed(y) /\ \A a \in Doing(y) : IsSource(c) /\ a = a4
    <3>1. CASE IsSource(c)
      BY <3>1, List1
    <3>2. CASE ~IsSource(c)
      BY <3>2, NoActions DEF Nothing
    <3>. QED
      BY <3>1, <3>2
  <2>3. r = Result(t, x.acts \o y.acts)
    BY <1>1, <1>3 DEF Result
  <2>. HIDE DEF x, y
  <2>. QED
    BY <2>1, <2>2, <2>3, ListsJoined
<1>. QED
  BY <1>2, <1>3 DEF r, t, v, a0, a1, a2, a3, a4

LEMMA SourceTransfer ==
    ASSUME NEW c, SourceCore(c), NEW m \in Answers, m.type = "Transfer"
    PROVE  SourceResult(c, m, OnTransfer(c, m))
<1>. DEFINE r == OnTransfer(c, m)
            v == Adopt(c.own, ClaimIn(m))
            t == Accepted(c, v)
            n0 == AckMsg(m.epoch, FALSE)
            n1 == AckMsg(m.epoch, TRUE)
            a0 == SendControl(n0)
            a1 == SendControl(n1)
            a2 == SetCursorVisible(Owns(t))
            a3 == OwnerChanged(v)
            a4 == SetCaptureMode(CaptureModeOf(t))
<1>1. c \in CoreState /\ c.own \in View
  BY DEF SourceCore, CoreState
<1>2. m \in Transfers /\ m.to = SourceId /\ ~m.reclaim /\ m.epoch <= MaxCross /\ m.epoch \in Epoch
  BY DEF Answers, Acks, Transfers, HeartbeatMsg, PingMsg, GoodbyeMsg
<1>3. n0 \in Acks /\ n1 \in Acks /\ n0.type = "Ack" /\ n1.type = "Ack"
  BY <1>2, AckIs DEF AckMsg
<1>4. /\ v \in View /\ v.me = SourceId /\ v.owner = SourceId /\ v.epoch = m.epoch
  BY <1>1, <1>2, AdoptView DEF ClaimIn, SourceCore
<1>5. ~TransferRefused(c, m) => m.epoch > c.own.epoch
  BY <1>2, Numbers DEF TransferRefused, Accepts, ClaimIn
<1>6. t \in CoreState /\ t.own = v /\ t.pending_ack = NoPending /\ t.input_allowed = c.input_allowed
  BY <1>1, <1>4, AcceptedCore
<1>7. CaptureModeOf(t) \in {"PassiveEdge", "ActiveForward"}
  BY <1>4, <1>6 DEF CaptureModeOf, IsSource
<1>8. /\ a0.act = "SendControl" /\ a0.msg = n0 /\ a1.act = "SendControl" /\ a1.msg = n1
      /\ a2.act = "SetCursorVisible" /\ a3.act = "OwnerChanged"
      /\ a4.act = "SetCaptureMode" /\ a4.mode = CaptureModeOf(t)
  BY Actions
<1>9. /\ Listed(r)
      /\ TransferRefused(c, m) => r.core = c /\ Doing(r) = {a0}
      /\ ~TransferRefused(c, m) =>
            r.core = t /\ \A a \in Doing(r) : a \in {a1, a2, a3} \/ (IsSource(c) /\ a = a4)
  BY <1>1, <1>2, TransferResult
<1>10. \A u : Acks \subseteq Told(u)
  BY DEF Told
<1>. HIDE DEF r, v, t, n0, n1, a0, a1, a2, a3, a4
<1>11. CASE TransferRefused(c, m)
  <2>1. SourceResult(c, m, r)
    BY <1>3, <1>8, <1>9, <1>10, <1>11, QuietResult, AlikeSelf
  <2>. QED
    BY <2>1 DEF r
<1>12. CASE ~TransferRefused(c, m)
  <2>1. SourceCore(t) /\ Onward(c.own, t.own) /\ Owns(t)
    BY <1>1, <1>2, <1>4, <1>5, <1>6, <1>12, Numbers, Ids
       DEF SourceCore, Onward, Pending, Owns, IsOwner, CoreState, View
  <2>2. Voiced(c, m, r)
    <3>1. c.own.epoch \in Nat /\ m.epoch \in Nat /\ m.epoch > c.own.epoch /\ t.own.epoch = m.epoch /\ t.own # c.own
          /\ t.own.owner = SourceId
      BY <1>1, <1>2, <1>4, <1>5, <1>6, <1>12, Numbers DEF View
    <3>. QED
      BY <1>2, <1>3, <1>6, <1>8, <1>9, <1>12, <3>1 DEF Voiced
  <2>3. SourceResult(c, m, r)
    BY <1>3, <1>6, <1>7, <1>8, <1>9, <1>10, <1>12, <2>1, <2>2 DEF SourceResult
  <2>. QED
    BY <2>3 DEF r
<1>. QED
  BY <1>11, <1>12

LEMMA SourceAck ==
    ASSUME NEW c, SourceCore(c), NEW m \in Acks
    PROVE  SourceResult(c, m, OnOwnershipAck(c, m))
<1>. DEFINE done == [c EXCEPT !.pending_ack = NoPending]
            sent == [done EXCEPT !.out_seq = @ + 1]
            a == SendMotion(MotionFrom(sent))
            r == OnOwnershipAck(c, m)
<1>1. \/ r = Nothing(c)
      \/ Pending(c) /\ r = ReclaimLocal(done)
      \/ r = Result(sent, <<a>>) /\ (Pending(c) => AckFor(m, c.own.epoch))
  BY DEF OnOwnershipAck, AckFor, SourceCore
<1>2. done \in CoreState /\ done.own = c.own /\ done.pending_ack = NoPending
      /\ done.suppress_blocked = c.suppress_blocked /\ Alike(c, done)
  <2>1. /\ done \in CoreState /\ done.own = c.own /\ done.pending_ack = NoPending
        /\ done.suppress_blocked = c.suppress_blocked
        /\ done.input_allowed = c.input_allowed /\ done.out_ctr = c.out_ctr /\ c \in CoreState
    BY NoPendingAck DEF SourceCore, CoreState
  <2>. QED
    BY <2>1, AlikeIs
<1>3. a.act = "SendMotion"
  BY Actions
<1>. HIDE DEF done
<1>4. SourceCore(done)
  BY <1>2, SameClaim
<1>5. SourceCore(sent) /\ sent.own = c.own /\ a.msg \in Motion /\ Alike(c, sent)
  <2>1. SourceCore(sent) /\ sent.own = done.own /\ a.msg \in Motion /\ Alike(done, sent)
    BY <1>4, SentOn
  <2>2. c.out_ctr \in Nat /\ done.out_ctr \in Nat /\ sent.out_ctr \in Nat
    BY <1>2, <2>1 DEF CoreState, SourceCore
  <2>. QED
    BY <1>2, <2>1, <2>2 DEF Alike
<1>. HIDE DEF sent, a, r
<1>6. CASE r = Nothing(c)
  BY <1>6, PassResult, AlikeSelf DEF r
<1>7. CASE Pending(c) /\ r = ReclaimLocal(done)
  <2>1. ~Owns(done)
    BY <1>2, <1>7, Ids DEF SourceCore, Owns, IsOwner
  <2>2. SourceResult(done, m, r) /\ r.core.own # c.own
    BY <1>2, <1>4, <1>7, <2>1, ReclaimResult
  <2>3. SourceResult(c, m, r)
    BY <1>2, <1>4, <2>2, Rebased
  <2>. QED
    BY <2>3 DEF r
<1>8. CASE r = Result(sent, <<a>>) /\ (Pending(c) => AckFor(m, c.own.epoch))
  <2>1. r.core = sent /\ Listed(r) /\ Doing(r) = {a}
    BY <1>8, List1
  <2>2. SourceResult(c, m, r)
    BY <1>3, <1>5, <1>8, <2>1, QuietResult
  <2>. QED
    BY <2>2 DEF r
<1>. QED
  BY <1>1, <1>6, <1>7, <1>8

LEMMA SourcePing ==
    ASSUME NEW c, SourceCore(c), NEW t, SourceCore(t), Alike(c, t), Pending(c) => Pending(t), NEW m
    PROVE  SourceResult(c, m, Result(t, <<SendControl(PongMsg)>>))
<1>. DEFINE a == SendControl(PongMsg)
            r == Result(t, <<a>>)
<1>1. a.act = "SendControl" /\ a.msg = PongMsg
  BY Actions
<1>2. PongMsg \in Told(t.own) /\ PongMsg.type = "Pong"
  BY DEF Told, PongMsg
<1>3. r = Result(t, <<a>>)
  OBVIOUS
<1>. HIDE DEF a, r
<1>4. r.core = t /\ Listed(r) /\ Doing(r) = {a}
  BY <1>3, List1
<1>5. SourceResult(c, m, r)
  BY <1>1, <1>2, <1>4, QuietResult
<1>. QED
  BY <1>5 DEF r, a

\* Whatever the target answers.
LEMMA ControlResult ==
    ASSUME NEW c, SourceCore(c), NEW m \in Answers
    PROVE  SourceResult(c, m, OnControl(c, m))
<1>. DEFINE t == [c EXCEPT !.misses = 0]
<1>1. t \in CoreState /\ t.own = c.own /\ t.pending_ack = c.pending_ack /\ Alike(c, t)
  <2>1. /\ t \in CoreState /\ t.own = c.own /\ t.pending_ack = c.pending_ack
        /\ t.input_allowed = c.input_allowed /\ t.out_ctr = c.out_ctr /\ c \in CoreState
    BY Numbers DEF SourceCore, CoreState
  <2>. QED
    BY <2>1, AlikeIs
<1>2. m.type \in {"Transfer", "Ack", "Heartbeat", "Ping", "Goodbye"} /\ (m.type = "Ack" => m \in Acks)
  BY DEF Answers, Transfers, Acks, HeartbeatMsg, PingMsg, GoodbyeMsg
<1>3. /\ m.type = "Transfer" => OnControl(c, m) = OnTransfer(c, m)
      /\ m.type = "Ack" => OnControl(c, m) = OnOwnershipAck(c, m)
      /\ m.type = "Heartbeat" => OnControl(c, m) = Nothing(t)
      /\ m.type = "Ping" => OnControl(c, m) = Result(t, <<SendControl(PongMsg)>>)
      /\ m.type = "Goodbye" => OnControl(c, m) = OnGoodbye(c)
  BY DEF OnControl
<1>. HIDE DEF t
<1>4. SourceCore(t) /\ (Pending(c) => Pending(t))
  BY <1>1, SameClaim DEF Pending
<1>5. SourceResult(c, m, Nothing(t)) /\ SourceResult(c, m, Nothing(c))
  BY <1>1, <1>4, PassResult, AlikeSelf
<1>6. SourceResult(c, m, OnGoodbye(c))
  BY <1>5, ReclaimResult DEF OnGoodbye
<1>7. SourceResult(c, m, Result(t, <<SendControl(PongMsg)>>))
  BY <1>1, <1>4, SourcePing
<1>. QED
  BY <1>2, <1>3, <1>5, <1>6, <1>7, SourceTransfer, SourceAck

\* The source does not let pass what it waits for: the refusal of its grant, or a
\* newer claim that gives input back.
Heeds(c, m, x) ==
    x.core.input_allowed =>
        /\ m = AckMsg(c.own.epoch, FALSE) /\ Pending(c) => x.core.own # c.own
        /\ m \in Transfers /\ m.to = SourceId /\ m.epoch > c.own.epoch => x.core.own # c.own

LEMMA SourceHeeds ==
    ASSUME NEW c, SourceCore(c), NEW m \in Answers
    PROVE  Heeds(c, m, OnControl(c, m))
<1>. DEFINE r == OnControl(c, m)
<1>1. c \in CoreState /\ c.own \in View /\ c.own.me = SourceId /\ c.own.epoch \in Nat
  BY Numbers DEF SourceCore, CoreState, View
<1>2. r.core.input_allowed = c.input_allowed
  BY ControlResult DEF SourceResult
<1>3. ASSUME m = AckMsg(c.own.epoch, FALSE), Pending(c)
      PROVE  r.core.own # c.own
  <2>. DEFINE done == [c EXCEPT !.pending_ack = NoPending]
  <2>1. m.type = "Ack" /\ m.epoch = c.own.epoch /\ m.accepted = FALSE
    BY <1>3 DEF AckMsg
  <2>2. c.pending_ack.epoch = c.own.epoch /\ c.own.owner = TargetId /\ c.own.epoch <= MaxCross
    BY <1>3 DEF SourceCore
  <2>3. r = ReclaimLocal(done)
    BY <1>3, <2>1, <2>2 DEF OnControl, OnOwnershipAck
  <2>4. done \in CoreState /\ done.own = c.own
    BY <1>1, NoPendingAck DEF CoreState
  <2>. HIDE DEF done
  <2>5. ReclaimLocal(done).core.own = Reclaim(done.own)
    <3>1. FreshEpoch(done) \in CoreState
      BY <2>4, FreshCore
    <3>. QED
      BY <3>1 DEF ReclaimLocal, Result, CoreState
  <2>6. Reclaim(done.own).owner = done.own.me
    BY DEF Reclaim
  <2>7. r.core.own.owner = SourceId
    BY <1>1, <2>3, <2>4, <2>5, <2>6
  <2>. HIDE DEF r
  <2>. QED
    BY <2>2, <2>7, Ids
<1>4. ASSUME m \in Transfers, m.to = SourceId, m.epoch > c.own.epoch, c.input_allowed
      PROVE  r.core.own # c.own
  <2>. DEFINE w == Adopt(c.own, ClaimIn(m))
  <2>1. m.type = "Transfer" /\ m.epoch \in Nat
    BY <1>4, Numbers DEF Transfers
  <2>2. r = OnTransfer(c, m)
    BY <2>1 DEF OnControl
  <2>3. ~TransferRefused(c, m)
    BY <1>1, <1>4, <2>1 DEF TransferRefused, Accepts, ClaimIn
  <2>4. w \in View /\ w.epoch = m.epoch
    BY <1>1, <1>4, AdoptView DEF ClaimIn
  <2>. HIDE DEF w
  <2>5. Accepted(c, w).own = w
    BY <1>1, <2>4, AcceptedCore
  <2>6. r.core = Accepted(c, w)
    BY <1>1, <1>4, <2>2, <2>3, TransferResult DEF w
  <2>. QED
    BY <1>1, <1>4, <2>1, <2>4, <2>5, <2>6
<1>. HIDE DEF r
<1>5. Heeds(c, m, r)
  BY <1>2, <1>3, <1>4 DEF Heeds
<1>. QED
  BY <1>5 DEF r

\* What a blocked core becomes, for either side.
LEMMA BlockedCore ==
    ASSUME NEW c \in CoreState, Owns(c), c.own.epoch < MaxCross
    PROVE  LET f == OnInjectionFailed(c)
               v == f.core.own IN
           /\ f.core \in CoreState /\ v.me = c.own.me /\ v.owner = Peer(c.own.me)
           /\ v.epoch = c.own.epoch + 1 /\ v.reclaim_origin = FALSE
           /\ f.core.pending_ack = c.pending_ack /\ f.core.input_allowed = FALSE
           /\ f.core.accepted_epoch = 0 /\ f.core.held_keys = {} /\ f.core.guard = NoGuard
           /\ Listed(f)
           /\ Doing(f) = {SendControl(TransferMsg(v)), SetCursorVisible(FALSE), OwnerChanged(v)}
<1>. DEFINE w == MarkInputBlocked(c.own)
            b == [c EXCEPT !.input_allowed = FALSE, !.accepted_epoch = 0, !.held_keys = {}, !.own = w]
            v == GrantTo(w, Peer(c.own.me))
            g == FreshEpoch(b)
            t == [g EXCEPT !.own = v]
            a1 == SendControl(TransferMsg(v))
            a2 == SetCursorVisible(FALSE)
            a3 == OwnerChanged(v)
            f == OnInjectionFailed(c)
<1>1. c.own \in View /\ c.own.epoch \in Nat
  BY Numbers DEF CoreState, View
<1>2. w \in View /\ w.me = c.own.me /\ w.epoch = c.own.epoch
  <2>1. "InputBlocked" \in FocusKind
    BY DEF FocusKind
  <2>. QED
    BY <1>1, <2>1 DEF MarkInputBlocked, View
<1>3. b.own = w /\ Peer(c.own.me) \in Device
  BY <1>1, Ids DEF CoreState, View, Peer
<1>4. f = Result(t, <<a1, a2, a3>>)
  <2>1. f = LET b1 == [c EXCEPT !.input_allowed = FALSE, !.accepted_epoch = 0, !.held_keys = {},
                                !.own = MarkInputBlocked(c.own)]
                v1 == GrantTo(b1.own, Peer(c.own.me))
            IN  Result([FreshEpoch(b1) EXCEPT !.own = v1],
                       <<SendControl(TransferMsg(v1)), SetCursorVisible(FALSE), OwnerChanged(v1)>>)
    BY DEF OnInjectionFailed
  <2>. QED
    BY <1>3, <2>1
<1>. HIDE DEF w, a1, a2, a3, f
<1>5. b \in CoreState /\ b.pending_ack = c.pending_ack /\ b.input_allowed = FALSE /\ b.accepted_epoch = 0
  <2>1. {} \in Keys
    BY DEF Keys
  <2>. QED
    BY <1>2, <2>1, Flags, Numbers DEF CoreState
<1>. HIDE DEF b
<1>6. /\ g \in CoreState /\ g.pending_ack = c.pending_ack /\ g.input_allowed = FALSE /\ g.accepted_epoch = 0
      /\ g.guard = NoGuard /\ g.held_keys = {}
  <2>1. g.held_keys = {}
    BY <1>5 DEF g, FreshEpoch, CoreState
  <2>. QED
    BY <1>5, <2>1, FreshCore
<1>. HIDE DEF g
<1>7. v \in View /\ v.me = c.own.me /\ v.owner = Peer(c.own.me) /\ v.epoch = c.own.epoch + 1
      /\ v.reclaim_origin = FALSE
  <2>. DEFINE p == Peer(c.own.me)
  <2>1. w.epoch <= MaxCross /\ p \in Device
    BY <1>1, <1>2, <1>3, Numbers
  <2>. HIDE DEF p
  <2>2. /\ GrantTo(w, p) \in View /\ GrantTo(w, p).me = w.me /\ GrantTo(w, p).owner = p
        /\ GrantTo(w, p).reclaim_origin = FALSE /\ GrantTo(w, p).epoch = w.epoch + 1
    BY <1>2, <2>1, GrantView
  <2>. QED
    BY <1>2, <2>2 DEF p
<1>. HIDE DEF v
<1>8. /\ t \in CoreState /\ t.own = v /\ t.pending_ack = c.pending_ack /\ t.input_allowed = FALSE
      /\ t.accepted_epoch = 0 /\ t.guard = NoGuard /\ t.held_keys = {}
  BY <1>6, <1>7 DEF CoreState
<1>. HIDE DEF t
<1>9. f.core = t /\ Listed(f) /\ Doing(f) = {a1, a2, a3}
  BY <1>4, List3
<1>. QED
  BY <1>7, <1>8, <1>9 DEF f, a1, a2, a3

\* The claims a device may have made stay behind it as it goes on.
LEMMA ToldOnward ==
    ASSUME NEW u \in View, NEW v \in View, Onward(u, v)
    PROVE  Told(u) \subseteq Told(v)
<1>1. u.epoch \in Nat /\ v.epoch \in Nat
  BY Numbers DEF View
<1>2. ASSUME NEW m \in Transfers, m.reclaim => m.to = SourceId, m.epoch <= u.epoch,
             m.epoch = u.epoch => m.to = u.owner
      PROVE  m.epoch <= v.epoch /\ (m.epoch = v.epoch => m.to = v.owner)
  <2>1. m.epoch \in Nat
    BY Numbers DEF Transfers
  <2>. QED
    BY <1>1, <1>2, <2>1 DEF Onward
<1>3. ASSUME NEW m \in Inputs, m.epoch <= u.epoch
      PROVE  m.epoch <= v.epoch
  <2>1. m.epoch \in Nat
    BY Numbers DEF Inputs
  <2>. QED
    BY <1>1, <1>3, <2>1 DEF Onward
<1>. QED
  BY <1>2, <1>3 DEF Told

\* What a step of the source leaves, its dispatch included.
SourceOutcome(c, m, r) ==
    /\ Listed(r) /\ Voiced(c, m, r) /\ SourceCore(r.core) /\ Onward(c.own, r.core.own)
    /\ c.suppress_blocked /\ Owns(c) => Owns(r.core)
    /\ \A a \in Doing(r) :
          /\ a.act = "SendControl" => a.msg \in Told(r.core.own) \cup {HeartbeatMsg}
          /\ a.act = "SendMotion" => a.msg \in Motion

LEMMA SourceRefused ==
    ASSUME NEW c, NEW m, NEW r, SourceCore(c), SourceResult(c, m, r), At(r, "Inject") # {},
           r.core.own.epoch < MaxCross
    PROVE  SourceOutcome(c, m, Refused(r)) /\ ~Refused(r).core.input_allowed
<1>. DEFINE k == r.core
            f == OnInjectionFailed(k)
            v == f.core.own
            a1 == SendControl(TransferMsg(v))
            a2 == SetCursorVisible(FALSE)
            a3 == OwnerChanged(v)
            x == Refused(r)
<1>1. PICK i \in At(r, "Inject") : TRUE
  OBVIOUS
<1>2. Owns(k) /\ ~Owns(c)
  <2>1. r.acts[i] \in Doing(r) /\ r.acts[i].act = "Inject"
    BY <1>1 DEF At, Doing
  <2>. QED
    BY <2>1 DEF SourceResult
<1>3. SourceCore(k) /\ Listed(r) /\ Onward(c.own, k.own) /\ k \in CoreState /\ k.own \in View /\ c.own \in View
      /\ k.own.me = SourceId
  BY DEF SourceResult, SourceCore, CoreState
<1>4. ~Pending(k)
  BY <1>2, <1>3, Ids DEF SourceCore, Owns, IsOwner
<1>5. /\ f.core \in CoreState /\ v.me = k.own.me /\ v.owner = Peer(k.own.me)
      /\ v.epoch = k.own.epoch + 1 /\ v.reclaim_origin = FALSE
      /\ f.core.pending_ack = k.pending_ack /\ f.core.input_allowed = FALSE
      /\ Listed(f) /\ Doing(f) = {a1, a2, a3}
  BY <1>2, <1>3, BlockedCore
<1>6. a1.act = "SendControl" /\ a1.msg = TransferMsg(v) /\ a2.act = "SetCursorVisible" /\ a3.act = "OwnerChanged"
  BY Actions
<1>7. x = Result(f.core, r.acts \o f.acts)
  BY DEF Refused
<1>. HIDE DEF a1, a2, a3, x, f
<1>8. /\ x.core = f.core /\ Listed(x) /\ \A a \in Doing(x) : a \in Doing(r) \/ a \in Doing(f)
      /\ Doing(f) \subseteq Doing(x)
  <2>1. Listed(r) /\ Listed(f)
    BY <1>3, <1>5
  <2>2. LET t == Result(f.core, r.acts \o f.acts) IN
        /\ t.core = f.core /\ Listed(t) /\ \A a \in Doing(t) : a \in Doing(r) \/ a \in Doing(f)
        /\ Doing(f) \subseteq Doing(t)
    BY ONLY <2>1, ListsJoined
  <2>. QED
    BY <1>7, <2>2
<1>9. v \in View /\ k.own.epoch \in Nat /\ c.own.epoch \in Nat
  BY <1>3, <1>5, Numbers DEF CoreState, View
<1>10. SourceCore(f.core) /\ Onward(k.own, v) /\ Onward(c.own, v) /\ v.epoch > c.own.epoch /\ v.epoch # 0
  <2>1. v.owner = TargetId /\ v.me = SourceId
    BY <1>3, <1>5, Ids
  <2>. QED
    BY <1>3, <1>4, <1>5, <1>9, <2>1, Ids, Numbers DEF SourceCore, Onward, Pending
<1>11. /\ TransferMsg(v) \in Told(v) /\ Told(k.own) \subseteq Told(v)
       /\ TransferMsg(v).type = "Transfer" /\ TransferMsg(v).epoch = v.epoch
  BY <1>3, <1>5, <1>9, <1>10, TransferTold, ToldOnward
<1>. HIDE DEF k, v
<1>12. \A a \in Doing(r) : /\ a.act = "SendControl" => a.msg \in Told(k.own) \cup {HeartbeatMsg}
                           /\ a.act = "SendMotion" => a.msg \in Motion
  BY DEF SourceResult, k
<1>13. \A a \in Doing(x) : /\ a.act = "SendControl" => a.msg \in Told(v) \cup {HeartbeatMsg}
                           /\ a.act = "SendMotion" => a.msg \in Motion
  BY <1>5, <1>6, <1>8, <1>11, <1>12
<1>14. \A a \in Doing(r) : a.act = "SendControl" => /\ a.msg.type = "Transfer" => a.msg.epoch > c.own.epoch
                                                    /\ a.msg.type = "Input" => a.msg = m
  BY DEF SourceResult, Voiced
<1>15. Voiced(c, m, x)
  <2>1. f.core.own = v
    BY DEF v
  <2>2. v # c.own
    BY <1>3, <1>9, <1>10
  <2>3. a1 = SendControl(TransferMsg(v)) /\ a1 \in Doing(x)
    BY <1>5, <1>8 DEF a1, v
  <2>. QED
    BY <1>5, <1>6, <1>8, <1>10, <1>11, <1>14, <2>1, <2>2, <2>3 DEF Voiced
<1>16. SourceOutcome(c, m, x) /\ ~x.core.input_allowed
  BY <1>2, <1>5, <1>8, <1>10, <1>13, <1>15 DEF SourceOutcome, v
<1>. QED
  BY <1>16 DEF x

-----------------------------------------------------------------------------
(* The handlers of the target                                              *)

\* The replay guard of t is as strict as that of c, or for a later epoch.
GuardOnward(c, t) ==
    \/ t.own.epoch > c.own.epoch
    \/ /\ t.own = c.own
       /\ \/ t.guard = c.guard
          \/ /\ t.guard.epoch = c.own.epoch
             /\ c.guard.epoch = c.own.epoch =>
                   t.guard.last_ctr >= c.guard.last_ctr /\ t.guard.last_seq >= c.guard.last_seq

Moved == [kind: {"Move"}, epoch: Epoch, n: Nat]
Typed == {e \in [kind: {"Key", "Button", "Scroll"}, event: Events, epoch: Epoch, n: Nat] : e.kind = e.event.kind}

\* An injection of e: for the current epoch, newer than all the guard of c had
\* seen, and seen by the guard of t.
Guarded(c, t, e) ==
    /\ t.own = c.own /\ e.epoch = c.own.epoch /\ t.guard.epoch = e.epoch
    /\ \/ e \in Moved /\ t.guard.last_seq = e.n /\ (c.guard.epoch = e.epoch => e.n > c.guard.last_seq)
       \/ e \in Typed /\ t.guard.last_ctr = e.n /\ (c.guard.epoch = e.epoch => e.n > c.guard.last_ctr)

\* The counter core t has seen in its epoch is one core c had seen, or m's.
GuardHeard(c, m, t) ==
    t.guard.epoch = t.own.epoch =>
        \/ t.guard.last_ctr = 0
        \/ t.own = c.own /\ c.guard.epoch = c.own.epoch /\ t.guard.last_ctr = c.guard.last_ctr
        \/ t.own = c.own /\ m \in Inputs /\ m.epoch = c.own.epoch /\ t.guard.last_ctr = m.ctr

\* What the target has answered when it went from core c to x.core, having taken
\* m: it keeps its claim and adopts none, it adopts m's, or it gives input back
\* because its platform refused to inject.
Stayed(c, m, x) ==
    /\ x.core.own = c.own /\ x.core.input_allowed = c.input_allowed
    /\ \A a \in Doing(x) : a.act = "SendControl" =>
          a.msg.type # "Transfer" /\ (a.msg.type = "Ack" => ~a.msg.accepted)
    /\ m \in Transfers => /\ SendControl(AckMsg(m.epoch, FALSE)) \in Doing(x)
                          /\ m.epoch <= c.own.epoch \/ (m.to = TargetId /\ ~c.input_allowed)

Adopted(c, m, x) ==
    /\ m \in Transfers /\ m.epoch > c.own.epoch /\ (m.to = TargetId => c.input_allowed)
    /\ x.core.own.epoch = m.epoch /\ x.core.own.owner = m.to /\ x.core.input_allowed = c.input_allowed
    /\ \A a \in Doing(x) : a.act = "SendControl" => a.msg = AckMsg(m.epoch, TRUE)

GaveBack(c, m, x) ==
    /\ m \notin Transfers /\ c.input_allowed /\ ~x.core.input_allowed
    /\ c.own.owner = TargetId /\ c.own.epoch # 0
    /\ x.core.own.owner = SourceId /\ x.core.own.epoch = c.own.epoch + 1
    /\ SendControl(TransferMsg(x.core.own)) \in Doing(x)
    /\ \A a \in Doing(x) : a.act = "SendControl" =>
          /\ a.msg.type = "Ack" => ~a.msg.accepted
          /\ a.msg.type = "Transfer" => a.msg = TransferMsg(x.core.own)

Heard(c, m, x) ==
    /\ Stayed(c, m, x) \/ Adopted(c, m, x)
    /\ GuardHeard(c, m, x.core)
    /\ m \notin Inputs => x.core.held_keys \subseteq c.held_keys

\* A result of the target's core c while the source's view is v; m is the frame
\* or the datagram it took.
TargetResult(c, v, m, r) ==
    /\ Listed(r) /\ Heard(c, m, r)
    /\ TargetCore(r.core) /\ r.core.input_allowed = c.input_allowed
    /\ GuardOnward(c, r.core)
    /\ r.core.own # c.own => r.core.own.epoch <= v.epoch /\ (r.core.own.epoch = v.epoch => r.core.own.owner = v.owner)
    /\ \A a \in Doing(r) :
          /\ a.act = "SendControl" => a.msg \in Answers
          /\ a.act \notin {"SendMotion", "SetCaptureMode"}
          /\ a.act = "Inject" => /\ Owns(c) /\ c.input_allowed /\ c.own.epoch # 0 /\ Guarded(c, r.core, a.event)
                                 /\ m \notin Transfers /\ (m \notin Inputs => a.event \in Moved)

\* A result that leaves the claim and the guard alone.
LEMMA TargetQuiet ==
    ASSUME NEW c, TargetCore(c), NEW v, NEW m, NEW r, Listed(r), r.core \in CoreState, r.core.own = c.own,
           r.core.pending_ack = c.pending_ack, r.core.guard = c.guard, r.core.input_allowed = c.input_allowed,
           r.core.accepted_epoch = c.accepted_epoch, r.core.held_keys = c.held_keys,
           \A a \in Doing(r) : /\ a.act = "SendControl" /\ a.msg \in Answers
                               /\ a.msg.type # "Transfer" /\ (a.msg.type = "Ack" => ~a.msg.accepted),
           m \in Transfers => /\ SendControl(AckMsg(m.epoch, FALSE)) \in Doing(r)
                              /\ m.epoch <= c.own.epoch \/ (m.to = TargetId /\ ~c.input_allowed)
    PROVE  TargetResult(c, v, m, r)
<1>0. GuardHeard(c, m, r.core)
  BY DEF GuardHeard
<1>4. \A a \in Doing(r) : a.act = "SendControl" => a.msg.type # "Transfer" /\ (a.msg.type = "Ack" => ~a.msg.accepted)
  OBVIOUS
<1>3. Stayed(c, m, r)
  BY <1>4 DEF Stayed
<1>1. Heard(c, m, r)
  BY <1>0, <1>3, Zenon DEF Heard
<1>2. TargetCore(r.core) /\ GuardOnward(c, r.core)
  BY DEF TargetCore, Pending, GuardOnward
<1>. QED
  BY <1>1, <1>2 DEF TargetResult

LEMMA TargetTick ==
    ASSUME NEW c, TargetCore(c), NEW v, NEW m, m \notin Transfers
    PROVE  TargetResult(c, v, m, OnTick(c))
<1>. DEFINE beat == SendControl(HeartbeatMsg)
            u == Ticked(c)
            r == OnTick(c)
<1>1. c \in CoreState /\ ~Pending(c) /\ ~IsSource(c)
  BY Ids DEF TargetCore, IsSource
<1>2. r = Result(u, <<beat>>)
  BY <1>1 DEF OnTick, Refilled, Ticked
<1>3. u \in CoreState /\ u.own = c.own /\ u.guard = c.guard /\ u.input_allowed = c.input_allowed
      /\ u.pending_ack = c.pending_ack /\ u.accepted_epoch = c.accepted_epoch /\ u.held_keys = c.held_keys
  BY <1>1, TickedCore
<1>4. beat.act = "SendControl" /\ beat.msg = HeartbeatMsg /\ HeartbeatMsg \in Answers /\ HeartbeatMsg.type = "Heartbeat"
  BY Actions DEF Answers, HeartbeatMsg
<1>. HIDE DEF r, u, beat
<1>5. r.core = u /\ Listed(r) /\ Doing(r) = {beat}
  BY <1>2, List1
<1>6. TargetResult(c, v, m, r)
  BY <1>3, <1>4, <1>5, TargetQuiet
<1>. QED
  BY <1>6 DEF r

LEMMA TargetNothing ==
    ASSUME NEW c, TargetCore(c), NEW v, NEW m, NEW t \in CoreState, t.own = c.own, t.pending_ack = c.pending_ack,
           t.input_allowed = c.input_allowed, t.accepted_epoch = c.accepted_epoch, GuardOnward(c, t),
           m \notin Transfers, GuardHeard(c, m, t), m \notin Inputs => t.held_keys \subseteq c.held_keys
    PROVE  TargetResult(c, v, m, Nothing(t))
<1>1. TargetCore(t)
  BY DEF TargetCore, Pending
<1>2. Heard(c, m, Nothing(t))
  BY NoActions DEF Heard, Stayed
<1>. QED
  BY <1>1, <1>2, NoActions DEF TargetResult

LEMMA TargetTransfer ==
    ASSUME NEW c, TargetCore(c), NEW v \in View, NEW m \in Told(v), m.type = "Transfer"
    PROVE  TargetResult(c, v, m, OnTransfer(c, m))
<1>. DEFINE r == OnTransfer(c, m)
            w == Adopt(c.own, ClaimIn(m))
            t == Accepted(c, w)
            n0 == AckMsg(m.epoch, FALSE)
            n1 == AckMsg(m.epoch, TRUE)
            a0 == SendControl(n0)
            a1 == SendControl(n1)
            a2 == SetCursorVisible(Owns(t))
            a3 == OwnerChanged(w)
<1>1. c \in CoreState /\ c.own \in View /\ ~IsSource(c) /\ c.own.me = TargetId
  BY Ids DEF TargetCore, CoreState, IsSource
<1>2. m \in Transfers /\ m.epoch \in Epoch /\ (m.reclaim => m.to = SourceId) /\ m.epoch <= v.epoch
      /\ (m.epoch = v.epoch => m.to = v.owner)
  BY DEF Told, Acks, Inputs, Transfers, PongMsg
<1>3. n0 \in Answers /\ n1 \in Answers /\ n0.type = "Ack" /\ ~n0.accepted
  BY <1>2, AckIs DEF Answers, AckMsg
<1>4. /\ w \in View /\ w.me = TargetId /\ w.owner = m.to /\ w.epoch = m.epoch /\ w.reclaim_origin = m.reclaim
  BY <1>1, <1>2, AdoptView DEF ClaimIn
<1>5. /\ ~TransferRefused(c, m) => m.epoch > c.own.epoch /\ (m.to = TargetId => c.input_allowed)
      /\ TransferRefused(c, m) => m.epoch <= c.own.epoch \/ (m.to = TargetId /\ ~c.input_allowed)
  <2>1. m.epoch \in Nat /\ c.own.epoch \in Nat
    BY <1>1, <1>2, Numbers DEF View
  <2>. QED
    BY <1>1, <1>2, <2>1 DEF TransferRefused, Accepts, ClaimIn, TargetCore
<1>6. /\ t \in CoreState /\ t.own = w /\ t.pending_ack = NoPending /\ t.input_allowed = c.input_allowed
      /\ t.guard = NoGuard /\ t.held_keys = {} /\ t.accepted_epoch = IF w.owner = w.me THEN w.epoch ELSE 0
  BY <1>1, <1>4, AcceptedCore
<1>8. /\ a0.act = "SendControl" /\ a0.msg = n0 /\ a1.act = "SendControl" /\ a1.msg = n1
      /\ a2.act = "SetCursorVisible" /\ a3.act = "OwnerChanged"
  BY Actions
<1>9. /\ Listed(r)
      /\ TransferRefused(c, m) => r.core = c /\ Doing(r) = {a0}
      /\ ~TransferRefused(c, m) => r.core = t /\ \A a \in Doing(r) : a \in {a1, a2, a3}
  BY <1>1, <1>2, TransferResult
<1>. HIDE DEF r, w, t, n0, n1, a0, a1, a2, a3
<1>11. CASE TransferRefused(c, m)
  <2>1. TargetResult(c, v, m, r)
    <3>1. a0 \in Doing(r) /\ a0 = SendControl(AckMsg(m.epoch, FALSE))
      BY <1>9, <1>11 DEF a0, n0
    <3>. QED
      BY <1>1, <1>3, <1>5, <1>8, <1>9, <1>11, <3>1, TargetQuiet
  <2>. QED
    BY <2>1 DEF r
<1>12. CASE ~TransferRefused(c, m)
  <2>1. TargetCore(t) /\ GuardOnward(c, t)
    BY <1>1, <1>2, <1>4, <1>5, <1>6, <1>12 DEF TargetCore, GuardOnward, Pending
  <2>2. Adopted(c, m, r)
    BY <1>2, <1>4, <1>5, <1>6, <1>8, <1>9, <1>12 DEF Adopted, n1
  <2>3. GuardHeard(c, m, r.core) /\ r.core.held_keys \subseteq c.held_keys
    BY <1>6, <1>9, <1>12 DEF GuardHeard, NoGuard
  <2>4. TargetResult(c, v, m, r)
    BY <1>2, <1>3, <1>4, <1>6, <1>8, <1>9, <1>12, <2>1, <2>2, <2>3 DEF TargetResult, Heard
  <2>. QED
    BY <2>4 DEF r
<1>. QED
  BY <1>11, <1>12

\* The guard after an input or a motion of epoch e.
LEMMA GuardIs ==
    ASSUME NEW c \in CoreState, NEW e \in Epoch
    PROVE  /\ GuardFor(c, e) \in Guard /\ GuardFor(c, e).epoch = e
           /\ c.guard.epoch = e => GuardFor(c, e) = c.guard
<1>1. c.guard \in Guard
  BY DEF CoreState
<1>2. [NoGuard EXCEPT !.epoch = e] \in Guard /\ [NoGuard EXCEPT !.epoch = e].epoch = e
  BY Numbers DEF NoGuard, Guard
<1>. QED
  BY <1>1, <1>2 DEF GuardFor, Guard

LEMMA SeenGuard ==
    ASSUME NEW c \in CoreState, NEW e \in Epoch, NEW n \in Nat
    PROVE  /\ LET t == SeenCtr(c, e, n) IN
              /\ t \in CoreState /\ t.own = c.own /\ t.pending_ack = c.pending_ack
              /\ t.input_allowed = c.input_allowed /\ GuardOnward(c, t)
              /\ t.accepted_epoch = c.accepted_epoch /\ t.held_keys = c.held_keys /\ t.tokens = c.tokens
              /\ t.guard.epoch = c.own.epoch =>
                    \/ t.guard.last_ctr = 0
                    \/ c.guard.epoch = c.own.epoch /\ t.guard.last_ctr = c.guard.last_ctr
                    \/ e = c.own.epoch /\ t.guard.last_ctr = n
              /\ AcceptsCtr(c, e, n) => /\ e = c.own.epoch /\ t.guard.epoch = e /\ t.guard.last_ctr = n
                                        /\ c.guard.epoch = e => n > c.guard.last_ctr
           /\ LET t == SeenSeq(c, e, n) IN
              /\ t \in CoreState /\ t.own = c.own /\ t.pending_ack = c.pending_ack
              /\ t.input_allowed = c.input_allowed /\ GuardOnward(c, t)
              /\ t.accepted_epoch = c.accepted_epoch /\ t.held_keys = c.held_keys
              /\ t.guard.epoch = c.own.epoch =>
                    \/ t.guard.last_ctr = 0
                    \/ c.guard.epoch = c.own.epoch /\ t.guard.last_ctr = c.guard.last_ctr
              /\ AcceptsSeq(c, e, n) => /\ e = c.own.epoch /\ t.guard.epoch = e /\ t.guard.last_seq = n
                                        /\ c.guard.epoch = e => n > c.guard.last_seq
<1>. DEFINE g == GuardFor(c, e)
            gc == [g EXCEPT !.last_ctr = Greatest(@, n)]
            gs == [g EXCEPT !.last_seq = Greatest(@, n)]
            tc == SeenCtr(c, e, n)
            ts == SeenSeq(c, e, n)
<1>1. /\ g \in Guard /\ g.epoch = e /\ (c.guard.epoch = e => g = c.guard) /\ c.guard \in Guard
      /\ c.guard.epoch # e => g.last_ctr = 0
  <2>1. c.guard.epoch # e => g.last_ctr = 0
    BY DEF GuardFor, NoGuard
  <2>. QED
    BY <2>1, GuardIs DEF CoreState
<1>2. /\ e # c.own.epoch => tc = c /\ ts = c
      /\ e = c.own.epoch => tc = [c EXCEPT !.guard = gc] /\ ts = [c EXCEPT !.guard = gs]
      /\ AcceptsCtr(c, e, n) => e = c.own.epoch /\ n > g.last_ctr
      /\ AcceptsSeq(c, e, n) => e = c.own.epoch /\ n > g.last_seq
  BY DEF SeenCtr, SeenSeq, AcceptsCtr, AcceptsSeq
<1>. HIDE DEF g, tc, ts
<1>3. /\ gc \in Guard /\ gc.epoch = e /\ gc.last_seq = g.last_seq /\ gc.last_ctr >= g.last_ctr
      /\ n > g.last_ctr => gc.last_ctr = n
      /\ gc.last_ctr \in {g.last_ctr, n}
  BY <1>1 DEF Guard, Greatest
<1>4. /\ gs \in Guard /\ gs.epoch = e /\ gs.last_ctr = g.last_ctr /\ gs.last_seq >= g.last_seq
      /\ n > g.last_seq => gs.last_seq = n
  BY <1>1 DEF Guard, Greatest
<1>5. g.last_ctr \in Nat /\ g.last_seq \in Nat /\ c.guard.last_ctr \in Nat /\ c.guard.last_seq \in Nat
  BY <1>1 DEF Guard
<1>. HIDE DEF gc, gs
<1>6. CASE e # c.own.epoch
  BY <1>2, <1>6 DEF GuardOnward, tc, ts
<1>7. CASE e = c.own.epoch
  <2>1. /\ tc \in CoreState /\ tc.own = c.own /\ tc.pending_ack = c.pending_ack /\ tc.guard = gc
        /\ tc.input_allowed = c.input_allowed
        /\ tc.accepted_epoch = c.accepted_epoch /\ tc.held_keys = c.held_keys /\ tc.tokens = c.tokens
    BY <1>2, <1>3, <1>7 DEF CoreState
  <2>2. /\ ts \in CoreState /\ ts.own = c.own /\ ts.pending_ack = c.pending_ack /\ ts.guard = gs
        /\ ts.input_allowed = c.input_allowed
        /\ ts.accepted_epoch = c.accepted_epoch /\ ts.held_keys = c.held_keys
    BY <1>2, <1>4, <1>7 DEF CoreState
  <2>3. GuardOnward(c, tc)
    BY <1>1, <1>3, <1>5, <1>7, <2>1 DEF GuardOnward
  <2>4. GuardOnward(c, ts)
    BY <1>1, <1>4, <1>5, <1>7, <2>2 DEF GuardOnward
  <2>. QED
    BY <1>1, <1>2, <1>3, <1>4, <1>7, <2>1, <2>2, <2>3, <2>4 DEF tc, ts
<1>. QED
  BY <1>6, <1>7

LEMMA SeenCtrGuard ==
    ASSUME NEW c \in CoreState, NEW e \in Epoch, NEW n \in Nat
    PROVE  LET t == SeenCtr(c, e, n) IN
              /\ t \in CoreState /\ t.own = c.own /\ t.pending_ack = c.pending_ack
              /\ t.input_allowed = c.input_allowed /\ GuardOnward(c, t)
              /\ t.accepted_epoch = c.accepted_epoch /\ t.held_keys = c.held_keys /\ t.tokens = c.tokens
              /\ t.guard.epoch = c.own.epoch =>
                    \/ t.guard.last_ctr = 0
                    \/ c.guard.epoch = c.own.epoch /\ t.guard.last_ctr = c.guard.last_ctr
                    \/ e = c.own.epoch /\ t.guard.last_ctr = n
              /\ AcceptsCtr(c, e, n) => /\ e = c.own.epoch /\ t.guard.epoch = e /\ t.guard.last_ctr = n
                                        /\ c.guard.epoch = e => n > c.guard.last_ctr
BY SeenGuard

LEMMA SeenSeqGuard ==
    ASSUME NEW c \in CoreState, NEW e \in Epoch, NEW n \in Nat
    PROVE  LET t == SeenSeq(c, e, n) IN
              /\ t \in CoreState /\ t.own = c.own /\ t.pending_ack = c.pending_ack
              /\ t.input_allowed = c.input_allowed /\ GuardOnward(c, t)
              /\ t.accepted_epoch = c.accepted_epoch /\ t.held_keys = c.held_keys
              /\ t.guard.epoch = c.own.epoch =>
                    \/ t.guard.last_ctr = 0
                    \/ c.guard.epoch = c.own.epoch /\ t.guard.last_ctr = c.guard.last_ctr
              /\ AcceptsSeq(c, e, n) => /\ e = c.own.epoch /\ t.guard.epoch = e /\ t.guard.last_seq = n
                                        /\ c.guard.epoch = e => n > c.guard.last_seq
BY SeenGuard

LEMMA SpentCore ==
    ASSUME NEW c \in CoreState, NEW ev \in Events
    PROVE  LET t == SpendToken(Observed(c, ev)) IN
           /\ t \in CoreState /\ t.own = c.own /\ t.pending_ack = c.pending_ack
           /\ t.input_allowed = c.input_allowed /\ t.guard = c.guard
           /\ t.accepted_epoch = c.accepted_epoch
           /\ ev.kind # "Key" => t.held_keys = c.held_keys
           /\ ev.kind = "Key" => t.held_keys = IF ev.down THEN c.held_keys \cup {ev.usage} ELSE c.held_keys \ {ev.usage}
<1>. DEFINE h == CASE ev.kind # "Key" -> c.held_keys
                   [] ev.kind = "Key" /\ ev.down -> c.held_keys \union {ev.usage}
                   [] OTHER -> c.held_keys \ {ev.usage}
            o == Observed(c, ev)
            k == IF o.tokens = 0 THEN 0 ELSE o.tokens - 1
            t == SpendToken(o)
<1>1. h \in Keys
  BY SessionAssumption DEF CoreState, Keys
<1>2. o = [c EXCEPT !.held_keys = h]
  BY DEF Observed
<1>. HIDE DEF o, h
<1>3. /\ o \in CoreState /\ o.own = c.own /\ o.pending_ack = c.pending_ack
      /\ o.input_allowed = c.input_allowed /\ o.guard = c.guard
      /\ o.accepted_epoch = c.accepted_epoch /\ o.held_keys = h
  BY <1>1, <1>2 DEF CoreState
<1>4. k \in Tokens
  BY <1>3, EngineAssumption DEF CoreState, Tokens
<1>5. t = [o EXCEPT !.tokens = k]
  BY DEF SpendToken
<1>. HIDE DEF k, t
<1>6. /\ t \in CoreState /\ t.own = c.own /\ t.pending_ack = c.pending_ack
      /\ t.input_allowed = c.input_allowed /\ t.guard = c.guard
      /\ t.accepted_epoch = c.accepted_epoch /\ t.held_keys = h
  BY <1>3, <1>4, <1>5 DEF CoreState
<1>7. /\ ev.kind # "Key" => h = c.held_keys
      /\ ev.kind = "Key" => h = IF ev.down THEN c.held_keys \cup {ev.usage} ELSE c.held_keys \ {ev.usage}
  BY DEF h
<1>. QED
  BY <1>6, <1>7 DEF t, o

LEMMA TargetInjects ==
    ASSUME NEW c, TargetCore(c), NEW v, NEW m, NEW t \in CoreState, t.own = c.own, t.pending_ack = c.pending_ack,
           t.input_allowed = c.input_allowed, t.accepted_epoch = c.accepted_epoch, GuardOnward(c, t),
           m \notin Transfers, GuardHeard(c, m, t), m \notin Inputs => t.held_keys \subseteq c.held_keys,
           NEW e, Owns(c), c.input_allowed, c.own.epoch # 0, Guarded(c, t, e), m \notin Inputs => e \in Moved
    PROVE  TargetResult(c, v, m, Result(t, <<Inject(e)>>))
<1>. DEFINE a == Inject(e)
            r == Result(t, <<a>>)
<1>1. a.act = "Inject" /\ a.event = e
  BY Actions
<1>2. r = Result(t, <<a>>)
  OBVIOUS
<1>. HIDE DEF a, r
<1>3. r.core = t /\ Listed(r) /\ Doing(r) = {a}
  BY <1>2, List1
<1>4. Heard(c, m, r) /\ TargetCore(t)
  BY <1>1, <1>3 DEF Heard, Stayed, TargetCore, Pending
<1>5. TargetResult(c, v, m, r)
  BY <1>1, <1>3, <1>4 DEF TargetResult
<1>. QED
  BY <1>5 DEF r, a

LEMMA TargetMotion ==
    ASSUME NEW c, TargetCore(c), NEW v, NEW m \in Motion
    PROVE  TargetResult(c, v, m, OnMotion(c, m))
<1>. DEFINE t == SeenSeq(c, m.epoch, m.seq)
            e == [kind |-> "Move", epoch |-> m.epoch, n |-> m.seq]
<1>1. c \in CoreState /\ m.epoch \in Epoch /\ m.seq \in Nat /\ m \notin Transfers /\ m \notin Inputs
  BY DEF TargetCore, Motion, Transfers, Inputs
<1>2. \/ OnMotion(c, m) = Nothing(t)
      \/ /\ AcceptsSeq(c, m.epoch, m.seq) /\ AuthorizeInject(c, m.epoch)
         /\ OnMotion(c, m) = Result(t, <<Inject(e)>>)
  BY DEF OnMotion
<1>3. /\ t \in CoreState /\ t.own = c.own /\ t.pending_ack = c.pending_ack
      /\ t.input_allowed = c.input_allowed /\ GuardOnward(c, t)
      /\ t.accepted_epoch = c.accepted_epoch /\ t.held_keys = c.held_keys
      /\ t.guard.epoch = c.own.epoch =>
            \/ t.guard.last_ctr = 0
            \/ c.guard.epoch = c.own.epoch /\ t.guard.last_ctr = c.guard.last_ctr
      /\ AcceptsSeq(c, m.epoch, m.seq) =>
            /\ m.epoch = c.own.epoch /\ t.guard.epoch = m.epoch /\ t.guard.last_seq = m.seq
            /\ c.guard.epoch = m.epoch => m.seq > c.guard.last_seq
  BY <1>1, SeenSeqGuard
<1>4. e \in Moved /\ e.epoch = m.epoch /\ e.n = m.seq
  BY <1>1 DEF Moved
<1>. HIDE DEF t, e
<1>7. GuardHeard(c, m, t) /\ t.held_keys \subseteq c.held_keys
  BY <1>3, Zenon DEF GuardHeard
<1>5. CASE OnMotion(c, m) = Nothing(t)
  BY <1>1, <1>3, <1>5, <1>7, TargetNothing
<1>6. CASE /\ AcceptsSeq(c, m.epoch, m.seq) /\ AuthorizeInject(c, m.epoch)
           /\ OnMotion(c, m) = Result(t, <<Inject(e)>>)
  <2>1. Guarded(c, t, e) /\ Owns(c) /\ c.input_allowed /\ c.own.epoch # 0
    BY <1>3, <1>4, <1>6 DEF Guarded, AuthorizeInject, AllowsEpoch
  <2>. QED
    BY <1>1, <1>3, <1>4, <1>6, <1>7, <2>1, TargetInjects
<1>. QED
  BY <1>2, <1>5, <1>6

LEMMA TargetInput ==
    ASSUME NEW c, TargetCore(c), NEW v, NEW m \in Inputs
    PROVE  TargetResult(c, v, m, OnInput(c, m))
<1>. DEFINE s == SeenCtr(c, m.epoch, m.ctr)
            t == SpendToken(Observed(s, m.event))
            e == [kind |-> m.event.kind, event |-> m.event, epoch |-> m.epoch, n |-> m.ctr]
<1>1. c \in CoreState /\ m.epoch \in Epoch /\ m.ctr \in Nat /\ m.event \in Events /\ m \notin Transfers
  BY DEF TargetCore, Inputs, Transfers
<1>2. \/ OnInput(c, m) = Nothing(s)
      \/ OnInput(c, m) = Nothing(t)
      \/ /\ AcceptsCtr(c, m.epoch, m.ctr) /\ AuthorizeInject(c, m.epoch)
         /\ OnInput(c, m) = Result(t, <<Inject(e)>>)
  BY DEF OnInput, Nothing
<1>3. /\ s \in CoreState /\ s.own = c.own /\ s.pending_ack = c.pending_ack
      /\ s.input_allowed = c.input_allowed /\ GuardOnward(c, s)
      /\ s.accepted_epoch = c.accepted_epoch /\ s.held_keys = c.held_keys
      /\ s.guard.epoch = c.own.epoch =>
            \/ s.guard.last_ctr = 0
            \/ c.guard.epoch = c.own.epoch /\ s.guard.last_ctr = c.guard.last_ctr
            \/ m.epoch = c.own.epoch /\ s.guard.last_ctr = m.ctr
      /\ AcceptsCtr(c, m.epoch, m.ctr) =>
            /\ m.epoch = c.own.epoch /\ s.guard.epoch = m.epoch /\ s.guard.last_ctr = m.ctr
            /\ c.guard.epoch = m.epoch => m.ctr > c.guard.last_ctr
  BY <1>1, SeenCtrGuard
<1>9. GuardHeard(c, m, s)
  <2>1. s.own = c.own /\ m \in Inputs
    BY <1>3
  <2>2. s.guard.epoch = c.own.epoch =>
            \/ s.guard.last_ctr = 0
            \/ c.guard.epoch = c.own.epoch /\ s.guard.last_ctr = c.guard.last_ctr
            \/ m.epoch = c.own.epoch /\ s.guard.last_ctr = m.ctr
    BY <1>3
  <2>. HIDE DEF s
  <2>. QED
    BY <2>1, <2>2 DEF GuardHeard
<1>4. e \in Typed /\ e.epoch = m.epoch /\ e.n = m.ctr
  BY <1>1, SessionAssumption DEF Typed
<1>. HIDE DEF s, e
<1>5. /\ t \in CoreState /\ t.own = s.own /\ t.pending_ack = s.pending_ack
      /\ t.input_allowed = s.input_allowed /\ t.guard = s.guard /\ t.accepted_epoch = s.accepted_epoch
  BY <1>1, <1>3, SpentCore
<1>. HIDE DEF t
<1>6. GuardOnward(c, t) /\ GuardHeard(c, m, t)
  BY <1>3, <1>5, <1>9 DEF GuardOnward, GuardHeard
<1>7. CASE OnInput(c, m) \in {Nothing(s), Nothing(t)}
  BY <1>1, <1>3, <1>5, <1>6, <1>7, <1>9, TargetNothing
<1>8. CASE /\ AcceptsCtr(c, m.epoch, m.ctr) /\ AuthorizeInject(c, m.epoch)
           /\ OnInput(c, m) = Result(t, <<Inject(e)>>)
  <2>1. Guarded(c, t, e) /\ Owns(c) /\ c.input_allowed /\ c.own.epoch # 0
    BY <1>3, <1>4, <1>5, <1>8 DEF Guarded, AuthorizeInject, AllowsEpoch
  <2>. QED
    BY <1>1, <1>3, <1>5, <1>6, <1>8, <2>1, TargetInjects
<1>. QED
  BY <1>2, <1>7, <1>8

\* Whatever the source tells.
LEMMA TargetControl ==
    ASSUME NEW c, TargetCore(c), NEW v \in View, NEW m \in Told(v)
    PROVE  TargetResult(c, v, m, OnControl(c, m))
<1>. DEFINE t == [c EXCEPT !.misses = 0]
<1>1. c \in CoreState /\ ~Pending(c)
  BY DEF TargetCore
<1>2. /\ t \in CoreState /\ t.own = c.own /\ t.pending_ack = c.pending_ack
      /\ t.input_allowed = c.input_allowed /\ t.guard = c.guard
      /\ t.accepted_epoch = c.accepted_epoch /\ t.held_keys = c.held_keys
  BY <1>1, Numbers DEF CoreState
<1>3. /\ m.type \in {"Transfer", "Ack", "Input", "Pong"} /\ (m.type = "Input" => m \in Inputs)
      /\ m.type # "Transfer" => m \notin Transfers
  BY DEF Told, Transfers, Acks, Inputs, PongMsg
<1>4. /\ m.type = "Transfer" => OnControl(c, m) = OnTransfer(c, m)
      /\ m.type = "Ack" => OnControl(c, m) = OnOwnershipAck(c, m)
      /\ m.type = "Input" => OnControl(c, m) = OnInput(c, m)
      /\ m.type = "Pong" => OnControl(c, m) = Nothing(t)
  BY DEF OnControl
<1>. HIDE DEF t
<1>5. GuardOnward(c, t) /\ GuardOnward(c, c) /\ GuardHeard(c, m, t) /\ GuardHeard(c, m, c)
  BY <1>2 DEF GuardOnward, GuardHeard
<1>6. m.type # "Transfer" => TargetResult(c, v, m, Nothing(t)) /\ TargetResult(c, v, m, Nothing(c))
  BY <1>1, <1>2, <1>3, <1>5, TargetNothing
<1>7. OnOwnershipAck(c, m) = Nothing(c)
  BY <1>1 DEF OnOwnershipAck
<1>. QED
  BY <1>3, <1>4, <1>6, <1>7, TargetTransfer, TargetInput

\* What a refused injection leaves: the target gives input back, blocked.
TargetBlocked(c, m, r) ==
    /\ Listed(r) /\ GaveBack(c, m, r)
    /\ r.core.guard = NoGuard /\ r.core.held_keys = {}
    /\ TargetCore(r.core) /\ ~r.core.input_allowed
    /\ r.core.own.epoch > c.own.epoch
    /\ \A a \in Doing(r) : a.act = "SendControl" => a.msg \in Answers

LEMMA TargetRefused ==
    ASSUME NEW c, NEW v, NEW m, NEW r, TargetCore(c), TargetResult(c, v, m, r), At(r, "Inject") # {},
           r.core.own.epoch < MaxCross
    PROVE  TargetBlocked(c, m, Refused(r))
<1>. DEFINE k == r.core
            f == OnInjectionFailed(k)
            w == f.core.own
            a1 == SendControl(TransferMsg(w))
            a2 == SetCursorVisible(FALSE)
            a3 == OwnerChanged(w)
            x == Refused(r)
<1>1. PICK i \in At(r, "Inject") : TRUE
  OBVIOUS
<1>2. Owns(k) /\ k.own = c.own /\ m \notin Transfers /\ c.input_allowed /\ c.own.epoch # 0
  <2>1. r.acts[i] \in Doing(r) /\ r.acts[i].act = "Inject"
    BY <1>1 DEF At, Doing
  <2>. QED
    BY <2>1 DEF TargetResult, Guarded, Owns
<1>3. TargetCore(k) /\ Listed(r) /\ k \in CoreState /\ k.own \in View /\ k.own.me = TargetId /\ k.own.epoch \in Nat
  BY Numbers DEF TargetResult, TargetCore, CoreState, View
<1>5. /\ f.core \in CoreState /\ w.me = k.own.me /\ w.owner = Peer(k.own.me)
      /\ w.epoch = k.own.epoch + 1 /\ w.reclaim_origin = FALSE /\ f.core.input_allowed = FALSE
      /\ f.core.pending_ack = k.pending_ack /\ Listed(f) /\ Doing(f) = {a1, a2, a3}
      /\ f.core.accepted_epoch = 0 /\ f.core.held_keys = {} /\ f.core.guard = NoGuard
  BY <1>2, <1>3, BlockedCore
<1>6. a1.act = "SendControl" /\ a1.msg = TransferMsg(w) /\ a2.act = "SetCursorVisible" /\ a3.act = "OwnerChanged"
  BY Actions
<1>7. x = Result(f.core, r.acts \o f.acts)
  BY DEF Refused
<1>. HIDE DEF a1, a2, a3, x, f
<1>8. /\ x.core = f.core /\ Listed(x) /\ \A a \in Doing(x) : a \in Doing(r) \/ a \in Doing(f)
      /\ Doing(f) \subseteq Doing(x)
  <2>1. Listed(r) /\ Listed(f)
    BY <1>3, <1>5
  <2>2. LET t == Result(f.core, r.acts \o f.acts) IN
        /\ t.core = f.core /\ Listed(t) /\ \A a \in Doing(t) : a \in Doing(r) \/ a \in Doing(f)
        /\ Doing(f) \subseteq Doing(t)
    BY ONLY <2>1, ListsJoined
  <2>. QED
    BY <1>7, <2>2
<1>9. w \in View /\ w.owner = SourceId /\ w.epoch <= MaxCross /\ w.me = TargetId
  BY <1>3, <1>5, Ids, Numbers DEF CoreState
<1>10. TargetCore(f.core)
  BY <1>3, <1>5, <1>9 DEF TargetCore, Pending
<1>11. TransferMsg(w) \in Answers /\ TransferMsg(w).type = "Transfer"
  BY <1>5, <1>9, Flags DEF Answers, Transfers, TransferMsg, View
<1>15. a1 = SendControl(TransferMsg(w)) /\ a1 \in Doing(x) /\ f.core.own = w
  BY <1>5, <1>8 DEF a1
<1>. HIDE DEF w
<1>12. \A a \in Doing(r) : a.act = "SendControl" => a.msg \in Answers
  BY DEF TargetResult
<1>13. \A a \in Doing(x) : a.act = "SendControl" => a.msg \in Answers
  BY <1>5, <1>6, <1>8, <1>11, <1>12
<1>16. \A a \in Doing(r) : a.act = "SendControl" => a.msg.type # "Transfer" /\ (a.msg.type = "Ack" => ~a.msg.accepted)
  BY <1>2 DEF TargetResult, Heard, Stayed, Adopted
<1>17. GaveBack(c, m, x)
  <2>1. c.own.owner = TargetId
    BY <1>2, <1>3 DEF Owns, IsOwner
  <2>. QED
    BY <1>2, <1>5, <1>6, <1>8, <1>9, <1>11, <1>15, <1>16, <2>1 DEF GaveBack
<1>14. TargetBlocked(c, m, x)
  BY <1>2, <1>3, <1>5, <1>8, <1>10, <1>13, <1>17 DEF TargetBlocked, w
<1>. QED
  BY <1>14 DEF x

-----------------------------------------------------------------------------
(* Dispatching a result                                                    *)

Message == Transfers \cup Acks \cup Inputs \cup {HeartbeatMsg, PingMsg, PongMsg, GoodbyeMsg}

LEMMA Messages ==
    /\ \A v : Told(v) \subseteq Message
    /\ Answers \subseteq Message
BY DEF Told, Answers, Message

LEMMA FramesFrom ==
    ASSUME NEW d, NEW r, Listed(r), NEW M,
           \A a \in Doing(r) : a.act = "SendControl" =>
                 a.msg \in M \/ (d # TargetId /\ a.msg = HeartbeatMsg),
           NEW f \in Frames(d, r)
    PROVE  f \in Seq(M)
<1>. DEFINE sent == {i \in At(r, "SendControl") : d = TargetId \/ r.acts[i].msg # HeartbeatMsg}
            n == Cardinality(sent)
<1>1. PICK p \in InOrder(sent) : f = [i \in DOMAIN p |-> r.acts[p[i]].msg]
  BY DEF Frames
<1>2. p \in [1 .. n -> sent]
  BY <1>1 DEF InOrder
<1>3. n \in Nat
  <2>. DEFINE last == Len(r.acts)
  <2>1. DOMAIN r.acts = 1 .. last /\ last \in Nat
    BY DEF Listed
  <2>3. sent \in SUBSET (1 .. last)
    BY <2>1 DEF At
  <2>. HIDE DEF last
  <2>2. IsFiniteSet(1 .. last)
    <3>1. 1 \in Int /\ last \in Int
      BY <2>1
    <3>. QED
      BY <3>1, FS_Interval
  <2>. QED
    BY <2>2, <2>3, FS_Subset, FS_CardinalityType
<1>4. \A i \in sent : r.acts[i].msg \in M
  BY DEF At, Doing
<1>. HIDE DEF n, sent
<1>5. f = [i \in 1 .. n |-> r.acts[p[i]].msg] /\ \A i \in 1 .. n : r.acts[p[i]].msg \in M
  BY <1>1, <1>2, <1>4
<1>. QED
  BY <1>3, <1>5

\* The frames of a queue.
Queued(q) == {q[i] : i \in DOMAIN q}

\* The frames a result of device d sends.
Said(d, r) == {a.msg : a \in {b \in Doing(r) : b.act = "SendControl" /\ (d = TargetId \/ b.msg # HeartbeatMsg)}}

\* An increasing enumeration meets every member of its set.
LEMMA EnumeratesAll ==
    ASSUME NEW I, IsFiniteSet(I), I \subseteq Nat, NEW p \in InOrder(I), NEW i \in I
    PROVE  \E n \in DOMAIN p : p[n] = i
<1>. DEFINE N == 1 .. Cardinality(I)
<1>1. p \in [N -> I] /\ \A m, n \in N : m < n => p[m] < p[n]
  BY DEF InOrder
<1>2. Cardinality(I) \in Nat /\ IsFiniteSet(N) /\ Cardinality(N) = Cardinality(I)
  <2>1. Cardinality(I) \in Nat
    BY FS_CardinalityType
  <2>2. \A k \in Nat : IsFiniteSet(1 .. k) /\ Cardinality(1 .. k) = k
    <3>. TAKE k \in Nat
    <3>1. 1 \in Int /\ k \in Int
      OBVIOUS
    <3>. QED
      BY <3>1, FS_Interval
  <2>. QED
    BY <2>1, <2>2
<1>3. ASSUME NEW m \in N, NEW n \in N, p[m] = p[n]
      PROVE  m = n
  <2>1. m \in Nat /\ n \in Nat /\ p[m] \in Nat /\ p[n] \in Nat
    <3>1. m \in Nat /\ n \in Nat
      BY <1>2
    <3>2. p[m] \in I /\ p[n] \in I
      BY <1>1
    <3>. QED
      BY <3>1, <3>2
  <2>. QED
    BY <1>1, <1>3, <2>1
<1>. HIDE DEF N
<1>4. p \in Injection(N, I)
  BY <1>1, <1>3, Zenon DEF Injection, IsInjective
<1>5. p \in Surjection(N, I)
  BY <1>2, <1>4, FS_Injection
<1>6. PICK n \in N : p[n] = i
  BY <1>5, Zenon DEF Surjection
<1>. QED
  BY <1>1, <1>6

LEMMA SentFinite ==
    ASSUME NEW d, NEW r, Listed(r)
    PROVE  LET sent == {i \in At(r, "SendControl") : d = TargetId \/ r.acts[i].msg # HeartbeatMsg} IN
           IsFiniteSet(sent) /\ sent \subseteq Nat
<1>. DEFINE last == Len(r.acts)
            sent == {i \in At(r, "SendControl") : d = TargetId \/ r.acts[i].msg # HeartbeatMsg}
<1>1. DOMAIN r.acts = 1 .. last /\ last \in Nat
  BY DEF Listed
<1>2. sent \in SUBSET (1 .. last)
  BY <1>1 DEF At
<1>. HIDE DEF last, sent
<1>3. IsFiniteSet(1 .. last)
  <2>1. 1 \in Int /\ last \in Int
    BY <1>1
  <2>. QED
    BY <2>1, FS_Interval
<1>4. IsFiniteSet(sent)
  BY <1>2, <1>3, FS_Subset
<1>5. sent \subseteq Nat
  BY <1>1, <1>2
<1>. QED
  BY <1>4, <1>5 DEF sent

\* A result's frames are what it sends.
LEMMA FramesAre ==
    ASSUME NEW d, NEW r, Listed(r), NEW f \in Frames(d, r)
    PROVE  Queued(f) = Said(d, r)
<1>. DEFINE sent == {i \in At(r, "SendControl") : d = TargetId \/ r.acts[i].msg # HeartbeatMsg}
<1>1. PICK p \in InOrder(sent) : f = [n \in DOMAIN p |-> r.acts[p[n]].msg]
  BY DEF Frames
<1>2. p \in [1 .. Cardinality(sent) -> sent]
  BY <1>1 DEF InOrder
<1>3. \A i \in sent : \E n \in DOMAIN p : p[n] = i
  <2>1. IsFiniteSet(sent) /\ sent \subseteq Nat
    BY SentFinite
  <2>. HIDE DEF sent
  <2>. QED
    BY <1>1, <2>1, EnumeratesAll
<1>4. Said(d, r) = {r.acts[i].msg : i \in sent}
  BY DEF Said, Doing, At
<1>. HIDE DEF sent
<1>. QED
  BY <1>1, <1>2, <1>3, <1>4 DEF Queued

LEMMA EnqueueSeq ==
    ASSUME NEW M, NEW q \in Seq(M), NEW f \in Seq(M)
    PROVE  Enqueue(q, f) \in Seq(M)
<1>1. q \o f \in Seq(M)
  OBVIOUS
<1>2. f # <<>> => Tail(f) \in Seq(M)
  OBVIOUS
<1>3. f # <<>> => q \o Tail(f) \in Seq(M)
  BY <1>2
<1>. QED
  BY <1>1, <1>3 DEF Enqueue

\* One queue behind another, as sets of frames.
LEMMA JoinedAre ==
    ASSUME NEW M, NEW q \in Seq(M), NEW f \in Seq(M)
    PROVE  Queued(q \o f) = Queued(q) \cup Queued(f)
<1>1. /\ q \o f \in Seq(M) /\ Len(q \o f) = Len(q) + Len(f) /\ Len(q) \in Nat /\ Len(f) \in Nat
      /\ \A i \in 1 .. Len(q) : (q \o f)[i] = q[i]
      /\ \A i \in 1 .. Len(f) : (q \o f)[i + Len(q)] = f[i]
  OBVIOUS
<1>2. DOMAIN q = 1 .. Len(q) /\ DOMAIN f = 1 .. Len(f) /\ DOMAIN (q \o f) = 1 .. Len(q) + Len(f)
  BY <1>1
<1>3. ASSUME NEW i \in 1 .. Len(q) + Len(f)
      PROVE  (q \o f)[i] \in Queued(q) \cup Queued(f)
  <2>1. CASE i <= Len(q)
    BY <1>1, <1>2, <2>1 DEF Queued
  <2>2. CASE i > Len(q)
    <3>1. i - Len(q) \in 1 .. Len(f) /\ (i - Len(q)) + Len(q) = i
      BY <1>1, <2>2
    <3>2. (q \o f)[i] = f[i - Len(q)]
      BY <1>1, <3>1
    <3>. QED
      BY <1>2, <3>1, <3>2 DEF Queued
  <2>. QED
    BY <1>1, <2>1, <2>2
<1>4. /\ \A i \in 1 .. Len(q) : i \in 1 .. Len(q) + Len(f)
      /\ \A i \in 1 .. Len(f) : i + Len(q) \in 1 .. Len(q) + Len(f)
  BY <1>1
<1>5. Queued(q) \subseteq Queued(q \o f) /\ Queued(f) \subseteq Queued(q \o f)
  BY <1>1, <1>2, <1>4 DEF Queued
<1>. QED
  BY <1>2, <1>3, <1>5 DEF Queued

LEMMA TailAre ==
    ASSUME NEW M, NEW q \in Seq(M), q # <<>>
    PROVE  /\ Head(q) = q[1] /\ q[1] \in Queued(q) /\ Tail(q) \in Seq(M) /\ Len(Tail(q)) = Len(q) - 1
           /\ Queued(q) = {Head(q)} \cup Queued(Tail(q))
           /\ \A i \in DOMAIN Tail(q) : i + 1 \in DOMAIN q /\ Tail(q)[i] = q[i + 1]
<1>1. /\ Tail(q) \in Seq(M) /\ Len(Tail(q)) = Len(q) - 1 /\ Len(q) \in Nat /\ Len(q) >= 1
      /\ \A i \in 1 .. Len(q) - 1 : Tail(q)[i] = q[i + 1]
      /\ Head(q) = q[1]
  OBVIOUS
<1>2. DOMAIN q = 1 .. Len(q) /\ DOMAIN Tail(q) = 1 .. Len(q) - 1
  BY <1>1
<1>3. \A i \in 1 .. Len(q) - 1 : i + 1 \in 1 .. Len(q)
  BY <1>1
<1>4. \A i \in 1 .. Len(q) : i = 1 \/ (i - 1 \in 1 .. Len(q) - 1 /\ (i - 1) + 1 = i)
  BY <1>1
<1>5. 1 \in DOMAIN q
  BY <1>1, <1>2
<1>6. \A i \in DOMAIN q : q[i] = q[1] \/ q[i] \in Queued(Tail(q))
  <2>. SUFFICES ASSUME NEW i \in 1 .. Len(q), i # 1
                PROVE  q[i] \in Queued(Tail(q))
    BY <1>2
  <2>1. i - 1 \in DOMAIN Tail(q) /\ (i - 1) + 1 = i
    BY <1>2, <1>4
  <2>2. Tail(q)[i - 1] = q[i]
    BY <1>1, <1>2, <2>1
  <2>. QED
    BY <2>1, <2>2 DEF Queued
<1>7. Queued(Tail(q)) \subseteq Queued(q)
  BY <1>1, <1>2, <1>3 DEF Queued
<1>8. Queued(q) = {Head(q)} \cup Queued(Tail(q))
  <2>1. \A x \in Queued(q) : x = q[1] \/ x \in Queued(Tail(q))
    BY <1>6 DEF Queued
  <2>2. q[1] \in Queued(q)
    BY <1>5 DEF Queued
  <2>. QED
    BY <1>1, <1>7, <2>1, <2>2
<1>. QED
  BY <1>1, <1>2, <1>3, <1>5, <1>8 DEF Queued

\* Dropping a heartbeat behind a heartbeat loses no frame of the queue.
LEMMA EnqueueAre ==
    ASSUME NEW M, NEW q \in Seq(M), NEW f \in Seq(M)
    PROVE  /\ Queued(Enqueue(q, f)) = Queued(q) \cup Queued(f)
           /\ HeartbeatMsg \notin Queued(q) => Enqueue(q, f) = q \o f
<1>1. CASE q # <<>> /\ f # <<>> /\ q[Len(q)] = HeartbeatMsg /\ f[1] = HeartbeatMsg
  <2>1. Enqueue(q, f) = q \o Tail(f)
    BY <1>1 DEF Enqueue
  <2>2. Tail(f) \in Seq(M) /\ Queued(f) = {HeartbeatMsg} \cup Queued(Tail(f))
    BY <1>1, TailAre
  <2>3. HeartbeatMsg \in Queued(q)
    <3>1. Len(q) \in DOMAIN q
      BY <1>1
    <3>. QED
      BY <1>1, <3>1 DEF Queued
  <2>4. Queued(q \o Tail(f)) = Queued(q) \cup Queued(Tail(f))
    <3>. DEFINE g == Tail(f)
    <3>1. g \in Seq(M)
      BY <2>2
    <3>. HIDE DEF g
    <3>2. Queued(q \o g) = Queued(q) \cup Queued(g)
      BY <3>1, JoinedAre
    <3>. QED
      BY <3>2 DEF g
  <2>. QED
    BY <2>1, <2>2, <2>3, <2>4
<1>2. CASE ~(q # <<>> /\ f # <<>> /\ q[Len(q)] = HeartbeatMsg /\ f[1] = HeartbeatMsg)
  <2>1. Enqueue(q, f) = q \o f
    BY <1>2 DEF Enqueue
  <2>. QED
    BY <2>1, JoinedAre
<1>. QED
  BY <1>1, <1>2

\* A list with one frame, and one with none.
LEMMA OneFrame ==
    ASSUME NEW d, NEW c, NEW x, x # HeartbeatMsg, NEW a, a.act # "SendControl",
           NEW f \in Frames(d, Result(c, <<SendControl(x), a>>))
    PROVE  f = <<x>>
<1>. DEFINE r == Result(c, <<SendControl(x), a>>)
            sent == {i \in At(r, "SendControl") : d = TargetId \/ r.acts[i].msg # HeartbeatMsg}
<1>1. DOMAIN r.acts = {1, 2} /\ r.acts[1] = SendControl(x) /\ r.acts[2] = a
  BY DEF Result
<1>2. SendControl(x).act = "SendControl" /\ SendControl(x).msg = x
  BY Actions
<1>3. sent = {1}
  BY <1>1, <1>2 DEF At
<1>4. PICK p \in InOrder(sent) : f = [n \in DOMAIN p |-> r.acts[p[n]].msg]
  BY DEF Frames
<1>. HIDE DEF r, sent
<1>5. Cardinality({1}) = 1
  BY FS_Singleton
<1>6. p \in [1 .. 1 -> {1}]
  BY <1>3, <1>4, <1>5 DEF InOrder
<1>7. f = [n \in 1 .. 1 |-> x]
  BY <1>1, <1>2, <1>4, <1>6
<1>. QED
  BY <1>7

LEMMA NoFrames ==
    ASSUME NEW d, NEW r, Listed(r), \A a \in Doing(r) : a.act # "SendControl", NEW f \in Frames(d, r)
    PROVE  f = <<>>
<1>1. f \in Seq({})
  BY FramesFrom
<1>. QED
  BY <1>1

LEMMA OnlyIs ==
    ASSUME NEW r, NEW kind, At(r, kind) # {}
    PROVE  Only(r, kind) \in Doing(r) /\ Only(r, kind).act = kind
<1>1. (CHOOSE i \in At(r, kind) : TRUE) \in At(r, kind)
  OBVIOUS
<1>. QED
  BY <1>1 DEF Only, At, Doing

-----------------------------------------------------------------------------
(* The session                                                             *)

Stamp == Epoch \X Nat
Lanes == [Move: Stamp, Input: Stamp, stale: Flag]

\* The guard of core c, with counter n, refuses whatever is not newer than at.
Covered(at, c, n) ==
    \/ at[1] < c.own.epoch
    \/ at[1] = c.own.epoch /\ c.guard.epoch = c.own.epoch /\ at[2] <= n

CoresInv == core \in [Device -> CoreState] /\ SourceCore(S) /\ TargetCore(T)

WireInv ==
    /\ ctl \in [Device -> Seq(Message)]
    /\ ctl[TargetId] \in Seq(Told(S.own)) /\ ctl[SourceId] \in Seq(Answers)
    /\ dgrams \subseteq Motion

\* Until its platform refuses an injection, the target follows the source.
Follows(v, w) == w.epoch <= v.epoch /\ (w.epoch = v.epoch /\ w.epoch # 0 => w.owner = v.owner)
FollowInv == T.input_allowed => Follows(S.own, T.own)

AppliedInv ==
    /\ applied \in Lanes /\ ~applied.stale
    /\ Covered(applied.Move, T, T.guard.last_seq)
    /\ Covered(applied.Input, T, T.guard.last_ctr)

DeskInv ==
    /\ mode \in {"PassiveEdge", "ActiveForward"} /\ os_keys \subseteq Key
    /\ can_suppress \in BOOLEAN /\ hung \in BOOLEAN

SessionInv == CoresInv /\ WireInv /\ FollowInv /\ AppliedInv /\ DeskInv

LEMMA StartCore ==
    ASSUME NEW d \in Device
    PROVE  /\ NewCore(d) \in CoreState
           /\ NewCore(d).own = NewOwnership(d) /\ NewCore(d).pending_ack = NoPending
           /\ NewCore(d).guard = NoGuard /\ NewCore(d).accepted_epoch = 0
<1>1. NewOwnership(d) \in View
  BY Numbers DEF NewOwnership, View, FocusKind
<1>2. NoGuard \in Guard /\ {} \in Keys
  BY Numbers DEF NoGuard, Guard, Keys
<1>. HIDE DEF NewOwnership, NoGuard, NoPending
<1>. QED
  BY <1>1, <1>2, NoPendingAck, Flags, Numbers DEF NewCore, CoreState

LEMMA InitInv == Init => SessionInv
<1>. SUFFICES ASSUME Init PROVE SessionInv
  OBVIOUS
<1>1. core = [d \in Device |-> NewCore(d)] /\ S = NewCore(SourceId) /\ T = NewCore(TargetId)
  BY Ids DEF Init, S, T
<1>2. \A d \in Device : /\ NewCore(d) \in CoreState /\ NewCore(d).own = NewOwnership(d)
                        /\ NewCore(d).pending_ack = NoPending /\ NewCore(d).guard = NoGuard
                        /\ NewCore(d).accepted_epoch = 0
  BY StartCore
<1>3. \A d \in Device : /\ NewOwnership(d).me = d /\ NewOwnership(d).owner = d /\ NewOwnership(d).epoch = 0
                        /\ NewOwnership(d).reclaim_origin = FALSE
  BY DEF NewOwnership
<1>. HIDE DEF NewOwnership
<1>4. CoresInv
  BY <1>1, <1>2, <1>3, Ids, Numbers DEF CoresInv, SourceCore, TargetCore, Pending
<1>5. WireInv
  BY Ids DEF Init, WireInv
<1>6. FollowInv
  BY <1>1, <1>2, <1>3, Ids DEF FollowInv, Follows
<1>7. AppliedInv
  <2>1. applied \in Lanes /\ ~applied.stale /\ applied.Move = <<0, 0>> /\ applied.Input = <<0, 0>>
    BY Flags, Numbers DEF Init, Lanes, Stamp
  <2>2. T.own.epoch = 0 /\ T.guard.epoch = 0 /\ T.guard.last_seq = 0 /\ T.guard.last_ctr = 0
    BY <1>1, <1>2, <1>3, Ids DEF NoGuard
  <2>. QED
    BY <2>1, <2>2 DEF AppliedInv, Covered
<1>8. DeskInv
  <2>1. CaptureModeOf(NewCore(SourceId)) = "PassiveEdge"
    BY <1>2, <1>3, Ids DEF CaptureModeOf, IsSource, Owns, IsOwner
  <2>. QED
    BY <2>1, SessionAssumption DEF Init, DeskInv
<1>. QED
  BY <1>4, <1>5, <1>6, <1>7, <1>8 DEF SessionInv

LEMMA CoveredOnward ==
    ASSUME NEW c \in CoreState, NEW t \in CoreState, GuardOnward(c, t), NEW at \in Stamp
    PROVE  /\ Covered(at, c, c.guard.last_seq) => Covered(at, t, t.guard.last_seq)
           /\ Covered(at, c, c.guard.last_ctr) => Covered(at, t, t.guard.last_ctr)
<1>1. /\ c.own.epoch \in Nat /\ t.own.epoch \in Nat /\ at[1] \in Nat /\ at[2] \in Nat
      /\ c.guard.last_seq \in Nat /\ t.guard.last_seq \in Nat /\ c.guard.last_ctr \in Nat /\ t.guard.last_ctr \in Nat
  BY Numbers DEF CoreState, View, Guard, Stamp
<1>. QED
  BY <1>1 DEF GuardOnward, Covered

\* The source has taken m and dispatched r, or what a refused warp makes of it.
SourceLeaves(m, r, q) ==
    \E x : /\ SourceOutcome(S, m, x) /\ Heeds(S, m, x) /\ S' = x.core /\ T' = T /\ os_keys' = os_keys
           /\ ctl'[SourceId] = q[SourceId] /\ (At(r, "Inject") = {} => x = r)
           /\ \E f \in Frames(SourceId, x) : ctl'[TargetId] = q[TargetId] \o f

LEMMA SourceDispatch ==
    ASSUME SessionInv, NEW m, NEW r, SourceResult(S, m, r), Heeds(S, m, r),
           NEW q \in [Device -> Seq(Message)], q[TargetId] \in Seq(Told(S.own)), q[SourceId] \in Seq(Answers),
           Dispatch(SourceId, r, q, dgrams), UNCHANGED <<can_suppress, hung>>
    PROVE  /\ SessionInv' /\ (S.suppress_blocked /\ Owns(S) => Owns(S)')
           /\ SourceLeaves(m, r, q)
<1>1. /\ CoresInv /\ WireInv /\ FollowInv /\ AppliedInv /\ DeskInv
      /\ S \in CoreState /\ T \in CoreState /\ S.own \in View /\ T.own \in View
  BY DEF SessionInv, CoresInv, SourceCore, TargetCore, CoreState
<1>2. /\ mode' = IF At(r, "SetCaptureMode") = {} THEN mode ELSE Only(r, "SetCaptureMode").mode
      /\ UNCHANGED <<applied, os_keys>>
      /\ \E x \in {r, Refused(r)} :
            /\ SourceOutcome(S, m, x) /\ Heeds(S, m, x) /\ (At(r, "Inject") = {} => x = r)
            /\ core' = [core EXCEPT ![SourceId] = x.core]
            /\ \E frames \in Frames(SourceId, x) : ctl' = [q EXCEPT ![Peer(SourceId)] = Enqueue(@, frames)]
            /\ dgrams' \subseteq dgrams \cup {r.acts[i].msg : i \in At(r, "SendMotion")}
  <2>1. mode' = IF At(r, "SetCaptureMode") = {} THEN mode ELSE Only(r, "SetCaptureMode").mode
    BY DEF Dispatch
  <2>2. CASE /\ core' = [core EXCEPT ![SourceId] = r.core]
             /\ \E frames \in Frames(SourceId, r) : ctl' = [q EXCEPT ![Peer(SourceId)] = Enqueue(@, frames)]
             /\ dgrams' = IF Cardinality(dgrams) < MaxDgrams
                          THEN dgrams \union {r.acts[i].msg : i \in At(r, "SendMotion")} ELSE dgrams
             /\ IF SourceId = TargetId /\ At(r, "Inject") # {} THEN Injected(Only(r, "Inject").event)
                ELSE UNCHANGED <<applied, os_keys>>
    <3>1. SourceOutcome(S, m, r)
      BY DEF SourceResult, SourceOutcome
    <3>. QED
      BY <2>1, <2>2, <3>1, Ids
  <2>3. CASE /\ Refusable(r)
             /\ core' = [core EXCEPT ![SourceId] = Refused(r).core]
             /\ \E frames \in Frames(SourceId, Refused(r)) : ctl' = [q EXCEPT ![Peer(SourceId)] = Enqueue(@, frames)]
             /\ dgrams' = dgrams
             /\ UNCHANGED <<applied, os_keys>>
    <3>1. SourceOutcome(S, m, Refused(r)) /\ ~Refused(r).core.input_allowed /\ At(r, "Inject") # {}
      BY <1>1, <2>3, SourceRefused DEF Refusable, CoresInv
    <3>2. Heeds(S, m, Refused(r))
      BY <3>1 DEF Heeds
    <3>. QED
      BY <2>1, <2>3, <3>1, <3>2
  <2>. QED
    BY <2>2, <2>3 DEF Dispatch
<1>3. PICK x : /\ SourceOutcome(S, m, x) /\ Heeds(S, m, x) /\ (At(r, "Inject") = {} => x = r)
               /\ core' = [core EXCEPT ![SourceId] = x.core]
               /\ \E frames \in Frames(SourceId, x) : ctl' = [q EXCEPT ![Peer(SourceId)] = Enqueue(@, frames)]
               /\ dgrams' \subseteq dgrams \cup {r.acts[i].msg : i \in At(r, "SendMotion")}
  BY <1>2
<1>. DEFINE k == x.core
<1>4. Listed(x) /\ SourceCore(k) /\ k \in CoreState /\ k.own \in View /\ Onward(S.own, k.own)
  BY <1>3 DEF SourceOutcome, SourceCore, CoreState
<1>5. CoresInv' /\ S' = k /\ T' = T
  <2>1. core' \in [Device -> CoreState] /\ core'[SourceId] = k /\ core'[TargetId] = core[TargetId]
    BY <1>1, <1>3, <1>4, Ids DEF CoresInv
  <2>. QED
    BY <1>1, <1>4, <2>1 DEF CoresInv, S, T
<1>6. WireInv'
  <2>. DEFINE M == Told(k.own)
  <2>1. Told(S.own) \subseteq M /\ M \subseteq Message
    BY <1>1, <1>4, ToldOnward, Messages
  <2>2. q[TargetId] \in Seq(M)
    BY <2>1, WiderSeq
  <2>3. \A a \in Doing(x) : a.act = "SendControl" => a.msg \in M \/ (SourceId # TargetId /\ a.msg = HeartbeatMsg)
    BY <1>3, Ids DEF SourceOutcome
  <2>. HIDE DEF M
  <2>4. ctl' \in [Device -> Seq(Message)] /\ ctl'[TargetId] \in Seq(M) /\ ctl'[SourceId] = q[SourceId]
    <3>1. PICK f \in Frames(SourceId, x) : ctl' = [q EXCEPT ![TargetId] = Enqueue(q[TargetId], f)]
      BY <1>3, Ids
    <3>2. f \in Seq(M)
      BY <1>4, <2>3, <3>1, FramesFrom
    <3>3. Enqueue(q[TargetId], f) \in Seq(M)
      BY <2>2, <3>2, EnqueueSeq
    <3>4. Enqueue(q[TargetId], f) \in Seq(Message)
      BY <2>1, <3>3, WiderSeq
    <3>. QED
      BY <3>1, <3>3, <3>4, Ids
  <2>5. {r.acts[i].msg : i \in At(r, "SendMotion")} \subseteq Motion
    BY DEF SourceResult, At, Doing
  <2>6. dgrams' \subseteq Motion
    BY <1>1, <1>3, <2>5 DEF WireInv
  <2>. QED
    BY <1>5, <2>4, <2>6 DEF WireInv, M
<1>7. FollowInv'
  <2>1. S.own.epoch \in Nat /\ T.own.epoch \in Nat /\ k.own.epoch \in Nat
    BY <1>1, <1>4, Numbers DEF View
  <2>. QED
    BY <1>1, <1>4, <1>5, <2>1 DEF FollowInv, Follows, Onward
<1>8. AppliedInv'
  BY <1>1, <1>2, <1>5 DEF AppliedInv
<1>9. DeskInv'
  <2>1. At(r, "SetCaptureMode") # {} => Only(r, "SetCaptureMode").mode \in {"PassiveEdge", "ActiveForward"}
    BY OnlyIs DEF SourceResult
  <2>. QED
    BY <1>1, <1>2, <2>1 DEF DeskInv
<1>11. \E f \in Frames(SourceId, x) : ctl'[SourceId] = q[SourceId] /\ ctl'[TargetId] = q[TargetId] \o f
  <2>1. PICK f \in Frames(SourceId, x) : ctl' = [q EXCEPT ![TargetId] = Enqueue(q[TargetId], f)]
    BY <1>3, Ids
  <2>2. f \in Seq(Message)
    <3>1. \A a \in Doing(x) : a.act = "SendControl" => a.msg \in Message \/ (SourceId # TargetId /\ a.msg = HeartbeatMsg)
      BY <1>3, Messages, Ids DEF SourceOutcome
    <3>. QED
      BY <1>4, <2>1, <3>1, FramesFrom
  <2>3. HeartbeatMsg \notin Queued(q[TargetId]) /\ q[TargetId] \in Seq(Message)
    <3>1. HeartbeatMsg \notin Told(S.own)
      BY DEF HeartbeatMsg, Told, Transfers, Acks, Inputs, PongMsg
    <3>2. \A i \in DOMAIN q[TargetId] : q[TargetId][i] \in Told(S.own)
      OBVIOUS
    <3>. QED
      BY <3>1, <3>2, Ids DEF Queued
  <2>4. Enqueue(q[TargetId], f) = q[TargetId] \o f
    BY <2>2, <2>3, EnqueueAre
  <2>. QED
    BY <2>1, <2>4, Ids
<1>10. S.suppress_blocked /\ Owns(S) => Owns(S)'
  <2>1. S.suppress_blocked /\ Owns(S) => Owns(k)
    BY <1>3 DEF SourceOutcome
  <2>. QED
    BY <1>5, <2>1 DEF Owns
<1>. QED
  <2>1. SessionInv'
    BY <1>5, <1>6, <1>7, <1>8, <1>9 DEF SessionInv
  <2>. QED
    BY <1>2, <1>3, <1>5, <1>10, <1>11, <2>1 DEF SourceLeaves

\* Frame m is the next of the queue to d and is taken off it, or the queue stays
\* as it is and m is none of the frames K.
TakenFrom(d, m, K) ==
    \/ ctl'[d] = ctl[d] /\ m \notin K
    \/ ctl[d] # <<>> /\ m = Head(ctl[d]) /\ ctl'[d] = Tail(ctl[d])

\* The source forwards event ev as frame m.
Forwards(ev, m, x, f) ==
    /\ m = InputFrom(S, ev) /\ f = <<m>> /\ S.own.owner = TargetId
    /\ x.core.own = S.own /\ x.core.out_ctr = S.out_ctr + 1
    /\ forwarded' = IF ev.kind = "Key"
                    THEN [forwarded EXCEPT ![ev.usage] = IF ev.down THEN "down" ELSE "up"] ELSE forwarded

\* A step of the source, as the hand-off sees it: it takes frame m (or forwards
\* it) and its dispatch leaves x.
SourceStep ==
    \E m, x :
       /\ SourceOutcome(S, m, x) /\ Heeds(S, m, x)
       /\ S' = x.core /\ T' = T /\ os_keys' = os_keys
       /\ TakenFrom(SourceId, m, Transfers \cup Acks)
       /\ \E f \in Frames(SourceId, x) :
             /\ ctl'[TargetId] = ctl[TargetId] \o f
             /\ \/ m \notin Inputs /\ forwarded' = NoTransitions
                \/ m \notin Inputs /\ forwarded' = forwarded /\ x.core.own.epoch = S.own.epoch
                \/ \E ev \in Events : Forwards(ev, m, x, f)

LEMMA Pong ==
    /\ PongMsg \notin Transfers /\ PongMsg \notin Acks /\ PongMsg \notin Inputs
    /\ \A c, x : Heeds(c, PongMsg, x)
BY DEF PongMsg, Transfers, Acks, Inputs, Heeds, AckMsg

\* A source that stays in its epoch injects nothing.
LEMMA NoWarp ==
    ASSUME NEW c, SourceCore(c), NEW m, NEW r, SourceResult(c, m, r), r.core.own.epoch = c.own.epoch
    PROVE  At(r, "Inject") = {}
<1>1. r.core.own.owner = c.own.owner /\ r.core.own.me = c.own.me
  BY DEF SourceResult, SourceCore, Onward
<1>2. ~(Owns(r.core) /\ ~Owns(c))
  BY <1>1 DEF Owns, IsOwner
<1>3. \A a \in Doing(r) : a.act # "Inject"
  BY <1>2 DEF SourceResult
<1>. QED
  BY <1>3 DEF At, Doing

\* A handler of the source that forwards no event.
LEMMA SourceSteps ==
    ASSUME SessionInv, NEW m, m \notin Inputs, NEW r, SourceResult(S, m, r), Heeds(S, m, r),
           NEW q, q[TargetId] = ctl[TargetId],
           \/ q = ctl /\ m \notin Transfers \cup Acks
           \/ ctl[SourceId] # <<>> /\ m = Head(ctl[SourceId]) /\ q = [ctl EXCEPT ![SourceId] = Tail(@)],
           Dispatch(SourceId, r, q, dgrams), UNCHANGED <<can_suppress, hung>>,
           forwarded' = ForwardedAfter(r)
    PROVE  SessionInv' /\ (S.suppress_blocked /\ Owns(S) => Owns(S)') /\ SourceStep
<1>1. /\ ctl \in [Device -> Seq(Message)] /\ ctl[TargetId] \in Seq(Told(S.own)) /\ ctl[SourceId] \in Seq(Answers)
      /\ SourceCore(S)
  BY DEF SessionInv, CoresInv, WireInv
<1>2. /\ q \in [Device -> Seq(Message)] /\ q[TargetId] \in Seq(Told(S.own)) /\ q[SourceId] \in Seq(Answers)
      /\ \/ q[SourceId] = ctl[SourceId] /\ m \notin Transfers \cup Acks
         \/ ctl[SourceId] # <<>> /\ m = Head(ctl[SourceId]) /\ q[SourceId] = Tail(ctl[SourceId])
  <2>1. CASE q = ctl /\ m \notin Transfers \cup Acks
    BY <1>1, <2>1
  <2>2. CASE ctl[SourceId] # <<>> /\ m = Head(ctl[SourceId]) /\ q = [ctl EXCEPT ![SourceId] = Tail(@)]
    <3>1. ctl[SourceId] \in Seq(Message)
      BY <1>1, Ids
    <3>3. ASSUME NEW M, ctl[SourceId] \in Seq(M)
          PROVE  Tail(ctl[SourceId]) \in Seq(M)
      BY <2>2, <3>3
    <3>2. Tail(ctl[SourceId]) \in Seq(Message) /\ Tail(ctl[SourceId]) \in Seq(Answers)
      BY <1>1, <3>1, <3>3
    <3>. QED
      BY <1>1, <2>2, <3>2, Ids
  <2>. QED
    BY <2>1, <2>2
<1>3. SessionInv' /\ (S.suppress_blocked /\ Owns(S) => Owns(S)') /\ SourceLeaves(m, r, q)
  BY <1>2, SourceDispatch
<1>4. PICK x : /\ SourceOutcome(S, m, x) /\ Heeds(S, m, x) /\ S' = x.core /\ T' = T /\ os_keys' = os_keys
               /\ ctl'[SourceId] = q[SourceId] /\ (At(r, "Inject") = {} => x = r)
               /\ \E f \in Frames(SourceId, x) : ctl'[TargetId] = q[TargetId] \o f
  BY <1>3 DEF SourceLeaves
<1>5. TakenFrom(SourceId, m, Transfers \cup Acks)
  BY <1>2, <1>4 DEF TakenFrom
<1>6. forwarded' = NoTransitions \/ (forwarded' = forwarded /\ x.core.own.epoch = S.own.epoch)
  BY <1>1, <1>4, NoWarp DEF ForwardedAfter
<1>7. SourceStep
  BY <1>4, <1>5, <1>6 DEF SourceStep
<1>. QED
  BY <1>3, <1>7

\* An event that is forwarded, or that is the source's own.
LEMMA EventSteps ==
    ASSUME SessionInv, NEW ev \in Events, LocalEvent(ev)
    PROVE  SessionInv' /\ (S.suppress_blocked /\ Owns(S) => Owns(S)') /\ SourceStep
<1>. DEFINE r == OnLocalEvent(S, ev)
<1>1. /\ ctl \in [Device -> Seq(Message)] /\ ctl[TargetId] \in Seq(Told(S.own)) /\ ctl[SourceId] \in Seq(Answers)
      /\ SourceCore(S) /\ S \in CoreState /\ S.own \in View /\ S.own.me = SourceId
  BY DEF SessionInv, CoresInv, WireInv, SourceCore, CoreState
<1>2. /\ Dispatch(SourceId, r, ctl, dgrams) /\ UNCHANGED <<can_suppress, hung>>
      /\ forwarded' = IF ev.kind = "Key" /\ ~Owns(S)
                      THEN [forwarded EXCEPT ![ev.usage] = IF ev.down THEN "down" ELSE "up"] ELSE forwarded
  BY <1>1 DEF LocalEvent
<1>3. CASE Owns(S)
  <2>1. r = PassThrough(S)
    BY <1>3 DEF OnLocalEvent
  <2>2. SourceResult(S, PongMsg, r)
    BY <1>1, <2>1, PassResult, AlikeSelf
  <2>3. r.core = S
    BY <2>1 DEF PassThrough, Result
  <2>4. forwarded' = ForwardedAfter(r)
    BY <1>2, <1>3, <2>3 DEF ForwardedAfter
  <2>. HIDE DEF r
  <2>. QED
    BY <1>2, <2>2, <2>4, Pong, SourceSteps
<1>4. CASE ~Owns(S)
  <2>. DEFINE t == [S EXCEPT !.out_ctr = @ + 1]
              m == InputFrom(S, ev)
              a == Capture("Suppress")
  <2>1. r = Result(t, <<SendControl(m), a>>)
    BY <1>1, <1>4 DEF OnLocalEvent, InputFrom, CoreState
  <2>2. SourceResult(S, m, r)
    BY <1>1, LocalResult
  <2>3. t.own = S.own /\ t.out_ctr = S.out_ctr + 1
    BY <1>1 DEF CoreState
  <2>4. m \in Inputs /\ m \notin Transfers /\ m \notin Acks /\ m # HeartbeatMsg /\ Heeds(S, m, r)
    <3>1. m.type = "Input" /\ m \in Inputs
      BY <1>1, Numbers DEF InputFrom, Inputs, CoreState, View
    <3>. HIDE DEF m
    <3>. QED
      BY <3>1 DEF Transfers, Acks, HeartbeatMsg, Heeds, AckMsg
  <2>5. a.act # "SendControl"
    BY Actions
  <2>6. S.own.owner = TargetId
    BY <1>1, <1>4, Ids DEF Owns, IsOwner, View
  <2>7. r.core = t
    BY <2>1 DEF Result
  <2>. HIDE DEF r, t, m, a
  <2>8. At(r, "Inject") = {}
    BY <1>1, <2>2, <2>3, <2>7, NoWarp
  <2>9. SessionInv' /\ (S.suppress_blocked /\ Owns(S) => Owns(S)') /\ SourceLeaves(m, r, ctl)
    BY <1>1, <1>2, <2>2, <2>4, SourceDispatch
  <2>10. /\ SourceOutcome(S, m, r) /\ Heeds(S, m, r) /\ S' = r.core /\ T' = T /\ os_keys' = os_keys
         /\ ctl'[SourceId] = ctl[SourceId]
         /\ \E f \in Frames(SourceId, r) : ctl'[TargetId] = ctl[TargetId] \o f
    BY <2>8, <2>9 DEF SourceLeaves
  <2>11. PICK f \in Frames(SourceId, r) : ctl'[TargetId] = ctl[TargetId] \o f
    BY <2>10
  <2>12. f = <<m>>
    BY <2>1, <2>4, <2>5, <2>11, OneFrame
  <2>13. Forwards(ev, m, r, f)
    BY <1>2, <1>4, <2>3, <2>6, <2>7, <2>12 DEF Forwards, m
  <2>14. TakenFrom(SourceId, m, Transfers \cup Acks)
    BY <2>4, <2>10 DEF TakenFrom
  <2>15. SourceStep
    BY <2>10, <2>11, <2>13, <2>14 DEF SourceStep
  <2>. QED
    BY <2>9, <2>15
<1>. QED
  BY <1>3, <1>4

\* An injection the guards let through is newer than the last of its lane.
LEMMA InjectedFresh ==
    ASSUME AppliedInv, os_keys \subseteq Key, T \in CoreState, NEW k \in CoreState, NEW e,
           Guarded(T, k, e), GuardOnward(T, k), Injected(e), T' = k
    PROVE  AppliedInv' /\ os_keys' \subseteq Key
<1>. DEFINE lane == IF e.kind = "Move" THEN "Move" ELSE "Input"
            at == <<e.epoch, e.n>>
            stale == applied.stale \/ ~Newer(at, applied[lane])
<1>1. applied' = [applied EXCEPT ![lane] = at, !.stale = stale]
  BY DEF Injected
<1>2. /\ applied \in Lanes /\ ~applied.stale /\ applied.Move \in Stamp /\ applied.Input \in Stamp
      /\ Covered(applied.Move, T, T.guard.last_seq) /\ Covered(applied.Input, T, T.guard.last_ctr)
  BY DEF AppliedInv, Lanes
<1>3. /\ Covered(applied.Move, k, k.guard.last_seq) /\ Covered(applied.Input, k, k.guard.last_ctr)
  BY <1>2, CoveredOnward
<1>4. /\ T.own.epoch \in Nat /\ k.own.epoch \in Nat /\ T.guard.last_seq \in Nat /\ T.guard.last_ctr \in Nat
      /\ k.guard.last_seq \in Nat /\ k.guard.last_ctr \in Nat /\ k.own = T.own
      /\ applied.Move[1] \in Nat /\ applied.Move[2] \in Nat /\ applied.Input[1] \in Nat /\ applied.Input[2] \in Nat
  BY <1>2, Numbers DEF CoreState, View, Guard, Stamp, Guarded
<1>5. e.epoch \in Epoch /\ e.n \in Nat /\ e.epoch = k.own.epoch /\ k.guard.epoch = k.own.epoch
  BY <1>4 DEF Guarded, Moved, Typed
<1>6. at \in Stamp /\ at[1] = e.epoch /\ at[2] = e.n
  BY <1>5 DEF Stamp
<1>7. stale \in Flag
  BY Zenon DEF Flag
<1>8. CASE e \in Moved /\ k.guard.last_seq = e.n /\ (T.guard.epoch = e.epoch => e.n > T.guard.last_seq)
  <2>1. e.kind = "Move" /\ lane = "Move"
    BY <1>8 DEF Moved
  <2>2. Newer(at, applied.Move)
    BY <1>2, <1>4, <1>5, <1>6, <1>8 DEF Newer, Covered
  <2>3. ~stale
    BY <1>2, <2>1, <2>2
  <2>4. applied' = [applied EXCEPT !.Move = at, !.stale = stale]
    BY <1>1, <2>1
  <2>. HIDE DEF stale, at
  <2>5. applied' \in Lanes /\ applied'.stale = stale /\ applied'.Move = at /\ applied'.Input = applied.Input
    BY <1>2, <1>6, <1>7, <2>4 DEF Lanes
  <2>6. Covered(at, k, k.guard.last_seq)
    BY <1>4, <1>5, <1>6, <1>8 DEF Covered
  <2>7. os_keys' = os_keys
    BY <2>1 DEF Injected
  <2>8. Covered(applied'.Move, T', T'.guard.last_seq) /\ Covered(applied'.Input, T', T'.guard.last_ctr)
    BY <1>3, <2>5, <2>6
  <2>. QED
    BY <2>3, <2>5, <2>7, <2>8 DEF AppliedInv
<1>9. CASE e \in Typed /\ k.guard.last_ctr = e.n /\ (T.guard.epoch = e.epoch => e.n > T.guard.last_ctr)
  <2>1. e.kind \in {"Key", "Button", "Scroll"} /\ lane = "Input" /\ e.event \in Events /\ e.kind = e.event.kind
    BY <1>9 DEF Typed
  <2>2. Newer(at, applied.Input)
    BY <1>2, <1>4, <1>5, <1>6, <1>9 DEF Newer, Covered
  <2>3. ~stale
    BY <1>2, <2>1, <2>2
  <2>4. applied' = [applied EXCEPT !.Input = at, !.stale = stale]
    BY <1>1, <2>1
  <2>. HIDE DEF stale, at
  <2>5. applied' \in Lanes /\ applied'.stale = stale /\ applied'.Input = at /\ applied'.Move = applied.Move
    BY <1>2, <1>6, <1>7, <2>4 DEF Lanes
  <2>6. Covered(at, k, k.guard.last_ctr)
    BY <1>4, <1>5, <1>6, <1>9 DEF Covered
  <2>7. os_keys' \subseteq Key
    <3>1. e.kind = "Key" => e.event.usage \in Key
      BY <2>1, SessionAssumption
    <3>2. os_keys' \in {os_keys, os_keys \ {e.event.usage}} \/ (e.kind = "Key" /\ os_keys' = os_keys \union {e.event.usage})
      BY <2>1 DEF Injected
    <3>. QED
      BY <3>1, <3>2
  <2>8. Covered(applied'.Move, T', T'.guard.last_seq) /\ Covered(applied'.Input, T', T'.guard.last_ctr)
    BY <1>3, <2>5, <2>6
  <2>. QED
    BY <2>3, <2>5, <2>7, <2>8 DEF AppliedInv
<1>. QED
  BY <1>8, <1>9 DEF Guarded

\* What a dispatched result injects.
Deposits(r) == IF At(r, "Inject") # {} THEN Injected(Only(r, "Inject").event) ELSE os_keys' = os_keys

\* The target has dispatched r, or what a refused injection makes of it.
TargetLeaves(m, r, q) ==
    \E x : /\ T' = x.core /\ ctl'[TargetId] = q[TargetId]
           /\ Queued(ctl'[SourceId]) = Queued(q[SourceId]) \cup Said(TargetId, x)
           /\ \/ x = r /\ Deposits(r)
              \/ TargetBlocked(T, m, x) /\ os_keys' = os_keys

LEMMA TargetDispatch ==
    ASSUME SessionInv, NEW m, NEW r, TargetResult(T, S.own, m, r), NEW g, g \subseteq Motion,
           NEW q \in [Device -> Seq(Message)], q[TargetId] \in Seq(Told(S.own)), q[SourceId] \in Seq(Answers),
           Dispatch(TargetId, r, q, g), UNCHANGED <<can_suppress, hung>>
    PROVE  SessionInv' /\ S' = S /\ TargetLeaves(m, r, q)
<1>1. /\ CoresInv /\ WireInv /\ FollowInv /\ AppliedInv /\ DeskInv /\ TargetCore(T) /\ SourceCore(S)
      /\ S \in CoreState /\ T \in CoreState /\ S.own \in View /\ T.own \in View
  BY DEF SessionInv, CoresInv, SourceCore, TargetCore, CoreState
<1>2. mode' = mode
  <2>1. At(r, "SetCaptureMode") = {}
    BY DEF TargetResult, At, Doing
  <2>. QED
    BY <2>1 DEF Dispatch
<1>3. ASSUME NEW x, Listed(x), x.core \in CoreState, TargetCore(x.core), core' = [core EXCEPT ![TargetId] = x.core],
             \A a \in Doing(x) : a.act = "SendControl" => a.msg \in Answers,
             \E frames \in Frames(TargetId, x) : ctl' = [q EXCEPT ![Peer(TargetId)] = Enqueue(@, frames)],
             dgrams' \subseteq Motion
      PROVE  /\ CoresInv' /\ WireInv' /\ S' = S /\ T' = x.core /\ ctl'[TargetId] = q[TargetId]
             /\ Queued(ctl'[SourceId]) = Queued(q[SourceId]) \cup Said(TargetId, x)
  <2>1. core' \in [Device -> CoreState] /\ core'[TargetId] = x.core /\ core'[SourceId] = core[SourceId]
    BY <1>1, <1>3, Ids DEF CoresInv
  <2>2. CoresInv' /\ S' = S /\ T' = x.core
    BY <1>1, <1>3, <2>1 DEF CoresInv, S, T
  <2>3. PICK f \in Frames(TargetId, x) : ctl' = [q EXCEPT ![SourceId] = Enqueue(q[SourceId], f)]
    BY <1>3, Ids
  <2>4. f \in Seq(Answers)
    BY <1>3, <2>3, FramesFrom
  <2>5. Enqueue(q[SourceId], f) \in Seq(Answers)
    BY <2>4, EnqueueSeq
  <2>6. Enqueue(q[SourceId], f) \in Seq(Message)
    BY <2>5, WiderSeq, Messages
  <2>7. ctl' \in [Device -> Seq(Message)] /\ ctl'[SourceId] \in Seq(Answers) /\ ctl'[TargetId] = q[TargetId]
    BY <2>3, <2>5, <2>6, Ids
  <2>8. WireInv'
    BY <1>3, <2>2, <2>7 DEF WireInv
  <2>9. Queued(ctl'[SourceId]) = Queued(q[SourceId]) \cup Said(TargetId, x)
    <3>1. Queued(Enqueue(q[SourceId], f)) = Queued(q[SourceId]) \cup Queued(f)
      BY <2>4, EnqueueAre
    <3>2. Queued(f) = Said(TargetId, x)
      BY <1>3, <2>3, FramesAre
    <3>3. ctl'[SourceId] = Enqueue(q[SourceId], f)
      BY <2>3, Ids
    <3>. QED
      BY <3>1, <3>2, <3>3
  <2>. QED
    BY <2>2, <2>7, <2>8, <2>9
<1>4. CASE /\ core' = [core EXCEPT ![TargetId] = r.core]
           /\ \E frames \in Frames(TargetId, r) : ctl' = [q EXCEPT ![Peer(TargetId)] = Enqueue(@, frames)]
           /\ dgrams' = IF Cardinality(g) < MaxDgrams
                        THEN g \union {r.acts[i].msg : i \in At(r, "SendMotion")} ELSE g
           /\ IF TargetId = TargetId /\ At(r, "Inject") # {} THEN Injected(Only(r, "Inject").event)
              ELSE UNCHANGED <<applied, os_keys>>
  <2>. DEFINE k == r.core
  <2>1. Listed(r) /\ TargetCore(k) /\ k \in CoreState /\ k.own \in View /\ GuardOnward(T, k)
        /\ \A a \in Doing(r) : a.act = "SendControl" => a.msg \in Answers
    BY DEF TargetResult, TargetCore, CoreState
  <2>2. dgrams' \subseteq Motion
    <3>1. At(r, "SendMotion") = {}
      BY DEF TargetResult, At, Doing
    <3>. QED
      BY <1>4, <3>1
  <2>3. /\ CoresInv' /\ WireInv' /\ S' = S /\ T' = k /\ ctl'[TargetId] = q[TargetId]
        /\ Queued(ctl'[SourceId]) = Queued(q[SourceId]) \cup Said(TargetId, r)
    BY <1>3, <1>4, <2>1, <2>2
  <2>4. FollowInv'
    <3>1. T.input_allowed = k.input_allowed
      BY DEF TargetResult
    <3>2. k.own = T.own \/ Follows(S.own, k.own)
      BY DEF TargetResult, Follows
    <3>. QED
      BY <1>1, <2>3, <3>1, <3>2 DEF FollowInv
  <2>5. AppliedInv' /\ os_keys' \subseteq Key
    <3>1. CASE At(r, "Inject") # {}
      <4>. DEFINE e == Only(r, "Inject").event
      <4>1. Guarded(T, k, e)
        BY <3>1, OnlyIs DEF TargetResult
      <4>2. Injected(e)
        BY <1>4, <3>1
      <4>. HIDE DEF e, k
      <4>. QED
        BY <1>1, <2>1, <2>3, <4>1, <4>2, InjectedFresh DEF DeskInv
    <3>2. CASE At(r, "Inject") = {}
      <4>1. applied' = applied /\ os_keys' = os_keys
        BY <1>4, <3>2
      <4>2. applied.Move \in Stamp /\ applied.Input \in Stamp
        BY <1>1 DEF AppliedInv, Lanes
      <4>. HIDE DEF k
      <4>3. Covered(applied.Move, k, k.guard.last_seq) /\ Covered(applied.Input, k, k.guard.last_ctr)
        BY <1>1, <2>1, <4>2, CoveredOnward DEF AppliedInv
      <4>. QED
        BY <1>1, <2>3, <4>1, <4>3 DEF AppliedInv, DeskInv
    <3>. QED
      BY <3>1, <3>2
  <2>6. DeskInv'
    BY <1>1, <1>2, <2>5 DEF DeskInv
  <2>7. TargetLeaves(m, r, q)
    <3>1. Deposits(r)
      BY <1>4 DEF Deposits
    <3>. QED
      BY <2>3, <3>1 DEF TargetLeaves
  <2>. QED
    BY <2>3, <2>4, <2>5, <2>6, <2>7 DEF SessionInv
<1>5. CASE /\ Refusable(r)
           /\ core' = [core EXCEPT ![TargetId] = Refused(r).core]
           /\ \E frames \in Frames(TargetId, Refused(r)) : ctl' = [q EXCEPT ![Peer(TargetId)] = Enqueue(@, frames)]
           /\ dgrams' = g
           /\ UNCHANGED <<applied, os_keys>>
  <2>. DEFINE x == Refused(r)
              k == x.core
  <2>1. TargetBlocked(T, m, x)
    BY <1>1, <1>5, TargetRefused DEF Refusable
  <2>. HIDE DEF x
  <2>2. Listed(x) /\ TargetCore(k) /\ k \in CoreState /\ ~k.input_allowed /\ k.own.epoch > T.own.epoch
        /\ \A a \in Doing(x) : a.act = "SendControl" => a.msg \in Answers
    BY <2>1 DEF TargetBlocked, TargetCore
  <2>3. /\ CoresInv' /\ WireInv' /\ S' = S /\ T' = k /\ ctl'[TargetId] = q[TargetId]
        /\ Queued(ctl'[SourceId]) = Queued(q[SourceId]) \cup Said(TargetId, x)
    BY <1>3, <1>5, <2>2 DEF x
  <2>7. TargetLeaves(m, r, q)
    BY <1>5, <2>1, <2>3 DEF TargetLeaves
  <2>. HIDE DEF k
  <2>4. FollowInv'
    BY <2>2, <2>3 DEF FollowInv
  <2>5. AppliedInv'
    <3>1. applied' = applied /\ GuardOnward(T, k) /\ applied.Move \in Stamp /\ applied.Input \in Stamp
      BY <1>1, <1>5, <2>2 DEF GuardOnward, AppliedInv, Lanes
    <3>2. Covered(applied.Move, k, k.guard.last_seq) /\ Covered(applied.Input, k, k.guard.last_ctr)
      BY <1>1, <2>2, <3>1, CoveredOnward DEF AppliedInv
    <3>. QED
      BY <1>1, <2>3, <3>1, <3>2 DEF AppliedInv
  <2>6. DeskInv'
    BY <1>1, <1>2, <1>5 DEF DeskInv
  <2>. QED
    BY <2>3, <2>4, <2>5, <2>6, <2>7 DEF SessionInv
<1>. QED
  BY <1>4, <1>5 DEF Dispatch

\* A step of the target: it takes frame or datagram m, and its dispatch leaves x.
TargetStep ==
    \E m, r, x :
       /\ TargetResult(T, S.own, m, r) /\ S' = S /\ T' = x.core /\ forwarded' = forwarded
       /\ TakenFrom(TargetId, m, Transfers \cup Inputs)
       /\ Queued(ctl'[SourceId]) = Queued(ctl[SourceId]) \cup Said(TargetId, x)
       /\ m \in Inputs => r = OnInput(T, m)
       /\ \/ x = r /\ Deposits(r)
          \/ TargetBlocked(T, m, x) /\ os_keys' = os_keys

LEMMA TargetSteps ==
    ASSUME SessionInv, NEW m, NEW r, TargetResult(T, S.own, m, r), m \in Inputs => r = OnInput(T, m),
           NEW q, q[SourceId] = ctl[SourceId],
           \/ q = ctl /\ m \notin Transfers \cup Inputs
           \/ ctl[TargetId] # <<>> /\ m = Head(ctl[TargetId]) /\ q = [ctl EXCEPT ![TargetId] = Tail(@)],
           NEW g, g \subseteq Motion,
           Dispatch(TargetId, r, q, g), UNCHANGED <<can_suppress, hung, forwarded>>
    PROVE  SessionInv' /\ S' = S /\ TargetStep
<1>1. ctl \in [Device -> Seq(Message)] /\ ctl[TargetId] \in Seq(Told(S.own)) /\ ctl[SourceId] \in Seq(Answers)
  BY DEF SessionInv, WireInv
<1>2. /\ q \in [Device -> Seq(Message)] /\ q[TargetId] \in Seq(Told(S.own)) /\ q[SourceId] \in Seq(Answers)
      /\ \/ q[TargetId] = ctl[TargetId] /\ m \notin Transfers \cup Inputs
         \/ ctl[TargetId] # <<>> /\ m = Head(ctl[TargetId]) /\ q[TargetId] = Tail(ctl[TargetId])
  <2>1. CASE q = ctl /\ m \notin Transfers \cup Inputs
    BY <1>1, <2>1
  <2>2. CASE ctl[TargetId] # <<>> /\ m = Head(ctl[TargetId]) /\ q = [ctl EXCEPT ![TargetId] = Tail(@)]
    <3>1. ctl[TargetId] \in Seq(Message)
      BY <1>1, Ids
    <3>3. ASSUME NEW M, ctl[TargetId] \in Seq(M)
          PROVE  Tail(ctl[TargetId]) \in Seq(M)
      BY <2>2, <3>3
    <3>2. Tail(ctl[TargetId]) \in Seq(Message) /\ Tail(ctl[TargetId]) \in Seq(Told(S.own))
      BY <1>1, <3>1, <3>3
    <3>. QED
      BY <1>1, <2>2, <3>2, Ids
  <2>. QED
    BY <2>1, <2>2
<1>3. SessionInv' /\ S' = S /\ TargetLeaves(m, r, q)
  BY <1>2, TargetDispatch
<1>4. PICK x : /\ T' = x.core /\ ctl'[TargetId] = q[TargetId]
               /\ Queued(ctl'[SourceId]) = Queued(q[SourceId]) \cup Said(TargetId, x)
               /\ \/ x = r /\ Deposits(r)
                  \/ TargetBlocked(T, m, x) /\ os_keys' = os_keys
  BY <1>3 DEF TargetLeaves
<1>5. TakenFrom(TargetId, m, Transfers \cup Inputs)
  BY <1>2, <1>4 DEF TakenFrom
<1>6. TargetStep
  BY <1>3, <1>4, <1>5 DEF TargetStep
<1>. QED
  BY <1>3, <1>6

\* A step of the wire, or none.
SideStep ==
    /\ S' = S /\ T' = T /\ UNCHANGED <<os_keys, forwarded>>
    /\ ctl'[TargetId] = ctl[TargetId]
    /\ Queued(ctl[SourceId]) \subseteq Queued(ctl'[SourceId])
    /\ Queued(ctl'[SourceId]) \subseteq Queued(ctl[SourceId]) \cup {PingMsg, GoodbyeMsg}

\* A step that leaves the cores and what was injected alone.
LEMMA WireStep ==
    ASSUME SessionInv, UNCHANGED <<core, mode, can_suppress, applied, os_keys, forwarded>>, hung' \in BOOLEAN,
           ctl' \in [Device -> Seq(Message)], ctl'[TargetId] = ctl[TargetId], ctl'[SourceId] \in Seq(Answers),
           Queued(ctl[SourceId]) \subseteq Queued(ctl'[SourceId]),
           Queued(ctl'[SourceId]) \subseteq Queued(ctl[SourceId]) \cup {PingMsg, GoodbyeMsg},
           dgrams' \subseteq Motion
    PROVE  SessionInv' /\ S' = S /\ SideStep
<1>1. S' = S /\ T' = T
  BY DEF S, T
<1>. QED
  BY <1>1 DEF SessionInv, CoresInv, WireInv, FollowInv, AppliedInv, DeskInv, SideStep

LEMMA SessionNext ==
    SessionInv /\ [Next]_vars =>
        /\ SessionInv' /\ (S.suppress_blocked /\ Owns(S) => Owns(S)')
        /\ SourceStep \/ TargetStep \/ SideStep
<1>. SUFFICES ASSUME SessionInv, [Next]_vars
              PROVE  /\ SessionInv' /\ (S.suppress_blocked /\ Owns(S) => Owns(S)')
                     /\ SourceStep \/ TargetStep \/ SideStep
  OBVIOUS
<1>1. /\ SourceCore(S) /\ TargetCore(T) /\ S.own \in View /\ T.own \in View
      /\ ctl \in [Device -> Seq(Message)] /\ ctl[TargetId] \in Seq(Told(S.own)) /\ ctl[SourceId] \in Seq(Answers)
      /\ dgrams \subseteq Motion /\ hung \in BOOLEAN
  BY DEF SessionInv, CoresInv, WireInv, DeskInv, SourceCore, TargetCore, CoreState
<1>2. S' = S => (S.suppress_blocked /\ Owns(S) => Owns(S)')
  BY DEF Owns
<1>3. ASSUME NEW mv \in Moves, LocalCursor(mv[1], mv[2])
      PROVE  SessionInv' /\ (S.suppress_blocked /\ Owns(S) => Owns(S)') /\ SourceStep
  <2>. DEFINE r == OnCursor(S, mv[1], mv[2])
  <2>1. mv[1] \in Int /\ mv[2] \in Int
    BY SessionAssumption
  <2>2. /\ r.core.own.owner # S.own.owner /\ Owns(S) => S.own.epoch < MaxCross
        /\ Dispatch(SourceId, r, ctl, dgrams) /\ UNCHANGED <<can_suppress, hung>>
        /\ forwarded' = ForwardedAfter(r)
    BY <1>3 DEF LocalCursor, ForwardedAfter
  <2>3. SourceResult(S, PongMsg, r)
    <3>1. CASE Owns(S)
      BY <1>1, <2>1, <2>2, <3>1, HereResult DEF OnCursor
    <3>2. CASE ~Owns(S)
      BY <1>1, <2>1, <3>2, AwayResult DEF OnCursor
    <3>. QED
      BY <3>1, <3>2
  <2>. HIDE DEF r
  <2>. QED
    BY <2>2, <2>3, Pong, SourceSteps
<1>4. ASSUME NEW ev \in Events, LocalEvent(ev)
      PROVE  SessionInv' /\ (S.suppress_blocked /\ Owns(S) => Owns(S)') /\ SourceStep
  BY <1>4, EventSteps
<1>5. ASSUME Tick(SourceId)
      PROVE  SessionInv' /\ (S.suppress_blocked /\ Owns(S) => Owns(S)') /\ SourceStep
  <2>. DEFINE r == OnTick(S)
  <2>1. /\ Dispatch(SourceId, r, ctl, dgrams) /\ UNCHANGED <<can_suppress, hung>>
        /\ forwarded' = ForwardedAfter(r)
    BY <1>5 DEF Tick, S
  <2>2. SourceResult(S, PongMsg, r)
    BY <1>1, TickResult
  <2>. HIDE DEF r
  <2>. QED
    BY <2>1, <2>2, Pong, SourceSteps
<1>6. ASSUME Tick(TargetId)
      PROVE  SessionInv' /\ S' = S /\ TargetStep
  <2>. DEFINE r == OnTick(T)
  <2>1. Dispatch(TargetId, r, ctl, dgrams) /\ UNCHANGED <<can_suppress, hung, forwarded>>
    BY <1>6, Ids DEF Tick, T
  <2>2. TargetResult(T, S.own, PongMsg, r)
    BY <1>1, TargetTick, Pong
  <2>. HIDE DEF r
  <2>. QED
    BY <1>1, <2>1, <2>2, Pong, TargetSteps
<1>7. ASSUME NEW d \in Device, RecvControl(d)
      PROVE  /\ ctl[d] # <<>> /\ UNCHANGED <<can_suppress, hung>>
             /\ Dispatch(d, OnControl(core[d], Head(ctl[d])), [ctl EXCEPT ![d] = Tail(@)], dgrams)
             /\ d = SourceId => Head(ctl[d]) \in Answers
             /\ d = TargetId => Head(ctl[d]) \in Told(S.own)
  <2>1. ctl[d] # <<>> /\ Dispatch(d, OnControl(core[d], Head(ctl[d])), [ctl EXCEPT ![d] = Tail(@)], dgrams)
        /\ UNCHANGED <<can_suppress, hung>>
    BY <1>7 DEF RecvControl
  <2>2. ASSUME NEW M, ctl[d] \in Seq(M)
        PROVE  Head(ctl[d]) \in M
    BY <2>1, <2>2
  <2>. QED
    BY <1>1, <2>1, <2>2
<1>8. ASSUME RecvControl(SourceId)
      PROVE  SessionInv' /\ (S.suppress_blocked /\ Owns(S) => Owns(S)') /\ SourceStep
  <2>. DEFINE m == Head(ctl[SourceId])
              r == OnControl(S, m)
              q == [ctl EXCEPT ![SourceId] = Tail(@)]
  <2>1. Dispatch(SourceId, r, q, dgrams) /\ UNCHANGED <<can_suppress, hung>> /\ m \in Answers /\ ctl[SourceId] # <<>>
    BY <1>7, <1>8, Ids DEF S
  <2>2. SourceResult(S, m, r) /\ Heeds(S, m, r)
    BY <1>1, <2>1, ControlResult, SourceHeeds
  <2>3. forwarded' = ForwardedAfter(r)
    BY <1>8 DEF RecvControl, S
  <2>4. m \notin Inputs
    BY <2>1 DEF Answers, Inputs, Transfers, Acks, HeartbeatMsg, PingMsg, GoodbyeMsg
  <2>5. q[TargetId] = ctl[TargetId]
    BY <1>1, Ids
  <2>6. ctl[SourceId] # <<>> /\ m = Head(ctl[SourceId]) /\ q = [ctl EXCEPT ![SourceId] = Tail(@)]
    BY <2>1
  <2>. HIDE DEF r, q, m
  <2>. QED
    BY <2>1, <2>2, <2>3, <2>4, <2>5, <2>6, SourceSteps
<1>9. ASSUME RecvControl(TargetId)
      PROVE  SessionInv' /\ S' = S /\ TargetStep
  <2>. DEFINE m == Head(ctl[TargetId])
              r == OnControl(T, m)
              q == [ctl EXCEPT ![TargetId] = Tail(@)]
  <2>1. Dispatch(TargetId, r, q, dgrams) /\ UNCHANGED <<can_suppress, hung>> /\ m \in Told(S.own) /\ ctl[TargetId] # <<>>
    BY <1>7, <1>9, Ids DEF T
  <2>2. TargetResult(T, S.own, m, r)
    BY <1>1, <2>1, TargetControl
  <2>3. UNCHANGED forwarded
    BY <1>9, Ids DEF RecvControl
  <2>4. m \in Inputs => r = OnInput(T, m)
    <3>1. m \in Inputs => m.type = "Input"
      BY DEF Inputs
    <3>. QED
      BY <3>1 DEF OnControl
  <2>5. q[SourceId] = ctl[SourceId]
    BY <1>1, Ids
  <2>6. ctl[TargetId] # <<>> /\ m = Head(ctl[TargetId]) /\ q = [ctl EXCEPT ![TargetId] = Tail(@)]
    BY <2>1
  <2>. HIDE DEF r, q, m
  <2>. QED
    BY <1>1, <2>1, <2>2, <2>3, <2>4, <2>5, <2>6, TargetSteps
<1>10. ASSUME NEW m \in dgrams, RecvMotion(m)
       PROVE  SessionInv' /\ S' = S /\ TargetStep
  <2>. DEFINE r == OnMotion(T, m)
  <2>1. PICK g \in {dgrams, dgrams \ {m}} : Dispatch(TargetId, r, ctl, g)
    BY <1>10 DEF RecvMotion
  <2>2. g \subseteq Motion /\ m \in Motion /\ UNCHANGED <<can_suppress, hung, forwarded>>
    BY <1>1, <1>10, <2>1 DEF RecvMotion
  <2>3. TargetResult(T, S.own, m, r)
    BY <1>1, <2>2, TargetMotion
  <2>4. m \notin Transfers /\ m \notin Inputs
    BY <2>2 DEF Motion, Transfers, Inputs
  <2>. HIDE DEF r
  <2>. QED
    BY <2>1, <2>2, <2>3, <2>4, TargetSteps
<1>11. ASSUME NEW m \in dgrams, LoseMotion(m)
       PROVE  SessionInv' /\ S' = S /\ SideStep
  BY <1>1, <1>11, WireStep DEF LoseMotion
<1>12. ASSUME SuppressUnavailable
       PROVE  SessionInv' /\ (S.suppress_blocked /\ Owns(S) => Owns(S)') /\ SourceStep
  <2>. DEFINE r == OnSuppressUnavailable(S)
  <2>1. /\ Dispatch(SourceId, r, ctl, dgrams) /\ UNCHANGED <<can_suppress, hung>>
        /\ forwarded' = ForwardedAfter(r)
    BY <1>12 DEF SuppressUnavailable
  <2>2. SourceResult(S, PongMsg, r)
    BY <1>1, SuppressResult
  <2>. HIDE DEF r
  <2>. QED
    BY <2>1, <2>2, Pong, SourceSteps
<1>13. ASSUME NEW m \in PeerMessages, PeerSends(m)
       PROVE  SessionInv' /\ S' = S /\ SideStep
  <2>1. m \in Answers /\ m \in Message /\ m \in {PingMsg, GoodbyeMsg}
    BY SessionAssumption DEF Answers, Message
  <2>2. ctl[SourceId] = <<>> /\ ctl' = [ctl EXCEPT ![SourceId] = Append(ctl[SourceId], m)]
    BY <1>13 DEF PeerSends
  <2>3. Append(ctl[SourceId], m) = <<m>>
    BY <2>2
  <2>4. <<m>> \in Seq(Answers) /\ <<m>> \in Seq(Message)
    BY <2>1
  <2>5. Queued(<<m>>) = {m} /\ Queued(<<>>) = {}
    BY DEF Queued
  <2>6. /\ ctl' \in [Device -> Seq(Message)] /\ ctl'[TargetId] = ctl[TargetId] /\ ctl'[SourceId] = <<m>>
    BY <1>1, <2>2, <2>3, <2>4, Ids
  <2>7. UNCHANGED <<core, mode, can_suppress, applied, os_keys, forwarded>> /\ dgrams' = dgrams /\ hung' = hung
    BY <1>13 DEF PeerSends
  <2>. QED
    BY <1>1, <2>1, <2>2, <2>4, <2>5, <2>6, <2>7, WireStep
<1>14. ASSUME Hang
       PROVE  SessionInv' /\ S' = S /\ SideStep
  BY <1>1, <1>14, WireStep DEF Hang
<1>15. ASSUME UNCHANGED vars
       PROVE  SessionInv' /\ S' = S /\ SideStep
  BY <1>1, <1>15, WireStep DEF vars
<1>. QED
  BY <1>2, <1>3, <1>4, <1>5, <1>6, <1>8, <1>9, <1>10, <1>11, <1>12, <1>13, <1>14, <1>15, Ids DEF Next

-----------------------------------------------------------------------------
(* The hand-off                                                            *)

Odd(e) == e % 2 = 1

LEMMA Parity == ~Odd(0) /\ \A e \in Nat : Odd(e + 1) <=> ~Odd(e)
BY DEF Odd

\* Until the target is blocked it makes no claims, and it is behind the source only
\* while the source's claim is on its way.
TokenInv ==
    T.input_allowed =>
        /\ \A m \in Queued(ctl[SourceId]) : m \notin Transfers
        /\ S.own.epoch >= T.own.epoch
        /\ S.own.epoch > T.own.epoch =>
              \E m \in Queued(ctl[TargetId]) : m \in Transfers /\ m.epoch = S.own.epoch

\* The two machines take turns: the target owns the odd epochs.
TurnsInv ==
    /\ S.own.owner = TargetId <=> Odd(S.own.epoch)
    /\ T.own.epoch # 0 => (T.own.owner = TargetId <=> Odd(T.own.epoch))
    /\ \A m \in Queued(ctl[TargetId]) : m \in Transfers => (m.to = TargetId <=> Odd(m.epoch))
    /\ \A m \in Queued(ctl[SourceId]) : m \in Transfers => ~Odd(m.epoch)

\* The target answers and claims nothing newer than it has adopted.
AnswersInv ==
    \A m \in Queued(ctl[SourceId]) : /\ m \in Transfers => m.epoch <= T.own.epoch
                                     /\ m \in Acks /\ m.accepted => m.epoch <= T.own.epoch

\* While the target is behind, the source's claim is on its way, or its refusal is
\* on the way back; a grant is still pending.
BehindInv ==
    S.own.epoch > T.own.epoch =>
        /\ S.own.owner = TargetId => Pending(S)
        /\ \/ \E m \in Queued(ctl[TargetId]) : m \in Transfers /\ m.epoch = S.own.epoch
           \/ /\ ~T.input_allowed /\ S.own.owner = TargetId
              /\ AckMsg(S.own.epoch, FALSE) \in Queued(ctl[SourceId])

\* A blocked target has given input back, and is ahead of the source only while
\* that claim is on its way.
BlockedInv ==
    ~T.input_allowed =>
        /\ T.own.epoch # 0 /\ T.own.owner = SourceId /\ T.own.epoch <= S.own.epoch + 1
        /\ T.own.epoch > S.own.epoch =>
              \E m \in Queued(ctl[SourceId]) : m \in Transfers /\ m.epoch = T.own.epoch

\* (Until the source's own platform refuses a warp.)
HandInv == S.input_allowed => TurnsInv /\ AnswersInv /\ BehindInv /\ BlockedInv

LEMMA SaidIs ==
    ASSUME NEW d, NEW x
    PROVE  /\ \A a \in Doing(x) : a.act = "SendControl" /\ (d = TargetId \/ a.msg # HeartbeatMsg) => a.msg \in Said(d, x)
           /\ \A y \in Said(d, x) : \E a \in Doing(x) : a.act = "SendControl" /\ a.msg = y
BY DEF Said

LEMMA Kept ==
    ASSUME NEW M, NEW d, ctl[d] \in Seq(M), NEW m, NEW K, TakenFrom(d, m, K)
    PROVE  /\ \A y \in Queued(ctl'[d]) : y \in Queued(ctl[d])
           /\ \A y \in Queued(ctl[d]) : y = m \/ y \in Queued(ctl'[d])
           /\ m \in K => m \in Queued(ctl[d])
<1>1. CASE ctl'[d] = ctl[d] /\ m \notin K
  BY <1>1
<1>2. CASE ctl[d] # <<>> /\ m = Head(ctl[d]) /\ ctl'[d] = Tail(ctl[d])
  <2>1. Queued(ctl[d]) = {m} \cup Queued(ctl'[d])
    BY <1>2, TailAre
  <2>. QED
    BY <2>1
<1>. QED
  BY <1>1, <1>2 DEF TakenFrom

LEMMA OnTheWire ==
    ASSUME SessionInv
    PROVE  /\ S.own \in View /\ T.own \in View /\ S.own.epoch \in Nat /\ T.own.epoch \in Nat
           /\ S.own.owner \in {SourceId, TargetId} /\ T.own.owner \in {SourceId, TargetId}
           /\ ctl[TargetId] \in Seq(Told(S.own)) /\ ctl[SourceId] \in Seq(Answers)
           /\ \A m \in Queued(ctl[TargetId]) : m \in Told(S.own)
           /\ \A m \in Queued(ctl[SourceId]) : m \in Answers
<1>1. /\ S.own \in View /\ T.own \in View /\ ctl[TargetId] \in Seq(Told(S.own)) /\ ctl[SourceId] \in Seq(Answers)
  BY DEF SessionInv, CoresInv, WireInv, SourceCore, TargetCore, CoreState
<1>2. \A M, q : q \in Seq(M) => \A m \in Queued(q) : m \in M
  BY DEF Queued
<1>3. S.own.epoch \in Nat /\ T.own.epoch \in Nat /\ S.own.owner \in Device /\ T.own.owner \in Device
  BY <1>1, Numbers DEF View
<1>. QED
  BY <1>1, <1>2, <1>3, Ids

LEMMA Claims ==
    /\ \A m \in Transfers : m.epoch \in Nat /\ m.type = "Transfer" /\ m.to \in {SourceId, TargetId}
    /\ \A m \in Acks : m.epoch \in Nat /\ m.type = "Ack"
    /\ \A v : \A m \in Told(v) :
          m.type = "Transfer" => (/\ m \in Transfers /\ m.epoch <= v.epoch /\ m.epoch # 0
                                  /\ (m.epoch = v.epoch => m.to = v.owner))
    /\ \A m \in Answers : /\ m.type = "Transfer" => m \in Transfers /\ m.to = SourceId
                          /\ m.type = "Ack" => m \in Acks
<1>1. /\ \A m \in Transfers : m.epoch \in Nat /\ m.type = "Transfer" /\ m.to \in {SourceId, TargetId}
      /\ \A m \in Acks : m.epoch \in Nat /\ m.type = "Ack"
  BY Numbers, Ids DEF Transfers, Acks
<1>2. \A v : \A m \in Told(v) : m.type = "Transfer" => /\ m \in Transfers /\ m.epoch <= v.epoch /\ m.epoch # 0
                                                       /\ m.epoch = v.epoch => m.to = v.owner
  BY DEF Told, Acks, Inputs, PongMsg
<1>3. \A m \in Answers : /\ m.type = "Transfer" => m \in Transfers /\ m.to = SourceId
                         /\ m.type = "Ack" => m \in Acks
  BY DEF Answers, Transfers, Acks, HeartbeatMsg, PingMsg, GoodbyeMsg
<1>. QED
  BY <1>1, <1>2, <1>3

LEMMA Claimed ==
    ASSUME NEW v, NEW m \in Told(v), m \in Transfers
    PROVE  /\ m.epoch \in Nat /\ m.epoch <= v.epoch /\ m.epoch # 0
           /\ m.epoch = v.epoch => m.to = v.owner
           /\ m.to \in {SourceId, TargetId}
<1>1. m.epoch \in Nat /\ m.to \in {SourceId, TargetId}
  BY Claims
<1>. QED
  BY <1>1 DEF Told, Transfers, Acks, Inputs, PongMsg

\* What the source says in a step, frame by frame.
LEMMA SourceSays ==
    ASSUME SourceCore(S), NEW m, NEW x, SourceOutcome(S, m, x)
    PROVE  LET k == x.core IN
           /\ k.own = S.own => /\ k.out_ctr >= S.out_ctr
                               /\ Pending(S) => Pending(k) \/ AckFor(m, S.own.epoch)
           /\ k.own # S.own => /\ k.own.epoch > S.own.epoch
                               /\ \/ \E y \in Said(SourceId, x) : y \in Transfers /\ y.epoch = k.own.epoch
                                  \/ m \in Transfers /\ m.epoch = k.own.epoch
           /\ k.input_allowed =>
                 /\ S.input_allowed
                 /\ k.own # S.own =>
                       \/ /\ k.own.epoch = S.own.epoch + 1 /\ k.own.owner # S.own.owner
                          /\ k.own.owner = TargetId => Pending(k)
                       \/ k.own.owner = SourceId /\ m \in Transfers /\ m.epoch = k.own.epoch
                 /\ \A y \in Said(SourceId, x) : y \in Transfers => y.to = k.own.owner /\ y.epoch = k.own.epoch
           /\ \A y \in Said(SourceId, x) : /\ y \in Transfers => y.epoch > S.own.epoch
                                           /\ y \in Inputs => y = m
                                           /\ y \in Told(k.own)
<1>. DEFINE k == x.core
            t == TransferMsg(k.own)
<1>1. k.own \in View /\ S.own \in View
  BY DEF SourceOutcome, SourceCore, CoreState
<1>2. t \in Transfers /\ t.epoch = k.own.epoch /\ t.to = k.own.owner /\ t # HeartbeatMsg
  BY <1>1, Flags DEF TransferMsg, Transfers, View, HeartbeatMsg
<1>3. SendControl(t).act = "SendControl" /\ SendControl(t).msg = t
  BY Actions
<1>4. /\ \A y \in Transfers : y.type = "Transfer"
      /\ \A y \in Inputs : y.type = "Input"
  BY DEF Transfers, Inputs
<1>. HIDE DEF t
<1>5. SendControl(t) \in Doing(x) => t \in Said(SourceId, x)
  BY <1>2, <1>3, SaidIs
<1>6. ASSUME NEW y \in Said(SourceId, x)
      PROVE  /\ y \in Transfers => y.epoch > S.own.epoch
             /\ y \in Inputs => y = m
             /\ y \in Told(k.own)
             /\ k.input_allowed /\ y \in Transfers => y = t
  <2>1. PICK a \in Doing(x) : a.act = "SendControl" /\ a.msg = y /\ a.msg # HeartbeatMsg
    BY <1>6, Ids DEF Said
  <2>. QED
    BY <1>4, <2>1 DEF SourceOutcome, Voiced, t
<1>. QED
  BY <1>2, <1>5, <1>6 DEF SourceOutcome, Voiced, t

LEMMA SourceHands ==
    ASSUME SessionInv, SessionInv', TokenInv, HandInv, SourceStep
    PROVE  TokenInv' /\ HandInv'
<1>1. PICK m, x :
         /\ SourceOutcome(S, m, x) /\ Heeds(S, m, x)
         /\ S' = x.core /\ T' = T
         /\ TakenFrom(SourceId, m, Transfers \cup Acks)
         /\ \E f \in Frames(SourceId, x) : ctl'[TargetId] = ctl[TargetId] \o f
  BY DEF SourceStep
<1>. DEFINE c == S
            k == x.core
            up == Queued(ctl[SourceId])
            up1 == Queued(ctl'[SourceId])
            down == Queued(ctl[TargetId])
            down1 == Queued(ctl'[TargetId])
            said == Said(SourceId, x)
<1>2. /\ c.own.epoch \in Nat /\ T.own.epoch \in Nat /\ k.own.epoch \in Nat
      /\ c.own.owner \in {SourceId, TargetId} /\ k.own.owner \in {SourceId, TargetId}
      /\ \A y \in down : y \in Told(c.own)
      /\ \A y \in up : y \in Answers
  <2>1. k.own \in View
    BY <1>1 DEF SourceOutcome, SourceCore, CoreState
  <2>2. k.own.epoch \in Nat /\ k.own.owner \in Device
    BY <2>1, Numbers DEF View
  <2>. QED
    BY <2>2, OnTheWire, Ids
<1>3. /\ \A y \in up1 : y \in up
      /\ \A y \in up : y = m \/ y \in up1
      /\ m \in Transfers \cup Acks => m \in up
  BY <1>1, OnTheWire, Kept
<1>4. down1 = down \cup said
  <2>1. PICK f \in Frames(SourceId, x) : ctl'[TargetId] = ctl[TargetId] \o f
    BY <1>1
  <2>2. \A a \in Doing(x) : a.act = "SendControl" => a.msg \in Told(k.own) \/ (SourceId # TargetId /\ a.msg = HeartbeatMsg)
    BY <1>1, Ids DEF SourceOutcome
  <2>3. Listed(x) /\ Told(k.own) \subseteq Message
    BY <1>1, Messages DEF SourceOutcome
  <2>4. f \in Seq(Told(k.own))
    BY <2>2, <2>3, FramesFrom
  <2>5. f \in Seq(Message) /\ ctl[TargetId] \in Seq(Message)
    BY <2>3, <2>4, WiderSeq, OnTheWire, Messages
  <2>6. Queued(f) = said
    BY <2>3, FramesAre
  <2>. QED
    BY <2>1, <2>5, <2>6, JoinedAre
<1>5. /\ k.own = c.own => (Pending(c) => Pending(k) \/ AckFor(m, c.own.epoch))
      /\ k.own # c.own => /\ k.own.epoch > c.own.epoch
                          /\ \/ \E y \in said : y \in Transfers /\ y.epoch = k.own.epoch
                             \/ m \in Transfers /\ m.epoch = k.own.epoch
      /\ k.input_allowed =>
            /\ c.input_allowed
            /\ k.own # c.own =>
                  \/ /\ k.own.epoch = c.own.epoch + 1 /\ k.own.owner # c.own.owner
                     /\ k.own.owner = TargetId => Pending(k)
                  \/ k.own.owner = SourceId /\ m \in Transfers /\ m.epoch = k.own.epoch
            /\ \A y \in said : y \in Transfers => y.to = k.own.owner /\ y.epoch = k.own.epoch
      /\ \A y \in said : y \in Transfers => y.epoch > c.own.epoch
      /\ \A y \in said : y \in Told(k.own)
  BY <1>1, SourceSays DEF SessionInv, CoresInv
<1>6. Heeds(c, m, x)
  BY <1>1
<1>7. S' = k /\ T' = T
  BY <1>1
<1>. HIDE DEF c, k, up, up1, down, down1, said
<1>8. TokenInv'
  <2>. SUFFICES ASSUME T.input_allowed
                PROVE  /\ \A y \in up1 : y \notin Transfers
                       /\ k.own.epoch >= T.own.epoch
                       /\ k.own.epoch > T.own.epoch =>
                             \E y \in down1 : y \in Transfers /\ y.epoch = k.own.epoch
    BY <1>7 DEF TokenInv, up1, down1
  <2>1. /\ \A y \in up : y \notin Transfers
        /\ c.own.epoch >= T.own.epoch
        /\ c.own.epoch > T.own.epoch => \E y \in down : y \in Transfers /\ y.epoch = c.own.epoch
    BY DEF TokenInv, up, down, c
  <2>2. CASE k.own = c.own
    BY <1>3, <1>4, <2>1, <2>2
  <2>3. CASE k.own # c.own
    BY <1>2, <1>3, <1>4, <1>5, <2>1, <2>3
  <2>. QED
    BY <2>2, <2>3
<1>9. HandInv'
  <2>. SUFFICES ASSUME k.input_allowed
                PROVE  TurnsInv' /\ AnswersInv' /\ BehindInv' /\ BlockedInv'
    BY <1>7 DEF HandInv
  <2>0. c.input_allowed /\ TurnsInv /\ AnswersInv /\ BehindInv /\ BlockedInv
    BY <1>5 DEF HandInv, c
  <2>1. /\ c.own.owner = TargetId <=> Odd(c.own.epoch)
        /\ T.own.epoch # 0 => (T.own.owner = TargetId <=> Odd(T.own.epoch))
        /\ \A y \in down : y \in Transfers => (y.to = TargetId <=> Odd(y.epoch))
        /\ \A y \in up : y \in Transfers => ~Odd(y.epoch)
    BY <2>0 DEF TurnsInv, up, down, c
  <2>2. \A y \in up : /\ y \in Transfers => y.epoch <= T.own.epoch
                      /\ y \in Acks /\ y.accepted => y.epoch <= T.own.epoch
    BY <2>0 DEF AnswersInv, up
  <2>3. c.own.epoch > T.own.epoch =>
           /\ c.own.owner = TargetId => Pending(c)
           /\ \/ \E y \in down : y \in Transfers /\ y.epoch = c.own.epoch
              \/ ~T.input_allowed /\ c.own.owner = TargetId /\ AckMsg(c.own.epoch, FALSE) \in up
    BY <2>0 DEF BehindInv, up, down, c
  <2>4. ~T.input_allowed =>
           /\ T.own.epoch # 0 /\ T.own.owner = SourceId /\ T.own.epoch <= c.own.epoch + 1
           /\ T.own.epoch > c.own.epoch => \E y \in up : y \in Transfers /\ y.epoch = T.own.epoch
    BY <2>0 DEF BlockedInv, up, c
  <2>5. k.own.owner = TargetId <=> Odd(k.own.epoch)
    <3>1. CASE k.own = c.own
      BY <2>1, <3>1
    <3>2. CASE k.own # c.own /\ k.own.epoch = c.own.epoch + 1 /\ k.own.owner # c.own.owner
      BY <1>2, <2>1, <3>2, Parity, Ids
    <3>3. CASE k.own # c.own /\ k.own.owner = SourceId /\ m \in Transfers /\ m.epoch = k.own.epoch
      BY <1>3, <2>1, <3>3, Ids
    <3>. QED
      BY <1>5, <3>1, <3>2, <3>3
  <2>6. TurnsInv'
    <3>1. \A y \in down1 : y \in Transfers => (y.to = TargetId <=> Odd(y.epoch))
      BY <1>4, <1>5, <2>1, <2>5
    <3>2. \A y \in up1 : y \in Transfers => ~Odd(y.epoch)
      BY <1>3, <2>1
    <3>. QED
      BY <1>7, <2>1, <2>5, <3>1, <3>2 DEF TurnsInv, up1, down1
  <2>7. AnswersInv'
    BY <1>3, <1>7, <2>2 DEF AnswersInv, up1
  <2>8. BehindInv'
    <3>. SUFFICES ASSUME k.own.epoch > T.own.epoch
                  PROVE  /\ k.own.owner = TargetId => Pending(k)
                         /\ \/ \E y \in down1 : y \in Transfers /\ y.epoch = k.own.epoch
                            \/ ~T.input_allowed /\ k.own.owner = TargetId /\ AckMsg(k.own.epoch, FALSE) \in up1
      BY <1>7 DEF BehindInv, up1, down1
    <3>1. CASE k.own = c.own
      <4>1. k.own.owner = TargetId => Pending(k)
        <5>1. AckFor(m, c.own.epoch) => m \in Acks /\ m.accepted /\ m.epoch = c.own.epoch
          BY DEF AckFor
        <5>2. ~AckFor(m, c.own.epoch)
          BY <1>2, <1>3, <2>2, <3>1, <5>1
        <5>. QED
          BY <1>5, <2>3, <3>1, <5>2
      <4>2. CASE \E y \in down : y \in Transfers /\ y.epoch = c.own.epoch
        BY <1>4, <3>1, <4>1, <4>2
      <4>3. CASE ~T.input_allowed /\ c.own.owner = TargetId /\ AckMsg(c.own.epoch, FALSE) \in up
        <5>1. m # AckMsg(c.own.epoch, FALSE)
          BY <1>6, <2>3, <3>1, <4>3 DEF Heeds, k
        <5>. QED
          BY <1>3, <3>1, <4>1, <4>3, <5>1
      <4>. QED
        BY <2>3, <3>1, <4>2, <4>3
    <3>2. CASE k.own # c.own
      <4>1. ~(m \in Transfers /\ m.epoch = k.own.epoch)
        BY <1>2, <1>3, <2>2
      <4>. QED
        BY <1>4, <1>5, <3>2, <4>1, Ids
    <3>. QED
      BY <3>1, <3>2
  <2>9. BlockedInv'
    <3>. SUFFICES ASSUME ~T.input_allowed
                  PROVE  /\ T.own.epoch # 0 /\ T.own.owner = SourceId /\ T.own.epoch <= k.own.epoch + 1
                         /\ T.own.epoch > k.own.epoch => \E y \in up1 : y \in Transfers /\ y.epoch = T.own.epoch
      BY <1>7 DEF BlockedInv, up1
    <3>1. CASE k.own = c.own
      <4>. SUFFICES ASSUME T.own.epoch > c.own.epoch
                    PROVE  \E y \in up1 : y \in Transfers /\ y.epoch = T.own.epoch
        BY <2>4, <3>1
      <4>1. PICK y \in up : y \in Transfers /\ y.epoch = T.own.epoch
        BY <2>4
      <4>2. y.to = SourceId
        BY <1>2, <4>1, Claims
      <4>3. y # m
        BY <1>6, <3>1, <4>1, <4>2 DEF Heeds, k
      <4>. QED
        BY <1>3, <4>1, <4>3
    <3>2. CASE k.own # c.own
      BY <1>2, <1>5, <2>4, <3>2
    <3>. QED
      BY <3>1, <3>2
  <2>. QED
    BY <2>6, <2>7, <2>8, <2>9
<1>. QED
  BY <1>8, <1>9

\* What the target answers in a step, frame by frame.
LEMMA TargetSays ==
    ASSUME TargetCore(T), NEW m, NEW r, TargetResult(T, S.own, m, r), NEW x, x = r \/ TargetBlocked(T, m, x)
    PROVE  LET k == x.core
               said == Said(TargetId, x) IN
           \/ /\ k.own = T.own /\ k.input_allowed = T.input_allowed
              /\ \A y \in said : y \notin Transfers /\ (y \in Acks => ~y.accepted)
              /\ m \in Transfers => /\ AckMsg(m.epoch, FALSE) \in said
                                    /\ m.epoch <= T.own.epoch \/ (m.to = TargetId /\ ~T.input_allowed)
           \/ /\ m \in Transfers /\ m.epoch > T.own.epoch /\ (m.to = TargetId => T.input_allowed)
              /\ k.own.epoch = m.epoch /\ k.own.owner = m.to /\ k.input_allowed = T.input_allowed
              /\ \A y \in said : y = AckMsg(m.epoch, TRUE)
           \/ /\ m \notin Transfers /\ T.input_allowed /\ ~k.input_allowed
              /\ T.own.owner = TargetId /\ T.own.epoch # 0
              /\ k.own.owner = SourceId /\ k.own.epoch = T.own.epoch + 1
              /\ \E y \in said : y \in Transfers /\ y.epoch = k.own.epoch
              /\ \A y \in said : /\ y \in Acks => ~y.accepted
                                 /\ y \in Transfers => y.epoch = k.own.epoch
<1>. DEFINE k == x.core
            said == Said(TargetId, x)
<1>1. /\ \A y \in Transfers : y.type = "Transfer"
      /\ \A y \in Acks : y.type = "Ack"
  BY DEF Transfers, Acks
<1>2. \A y \in said : \E a \in Doing(x) : a.act = "SendControl" /\ a.msg = y
  BY SaidIs
<1>3. \A n : SendControl(n) \in Doing(x) => n \in said
  BY Actions, SaidIs
<1>4. Stayed(T, m, x) \/ Adopted(T, m, x) \/ (GaveBack(T, m, x) /\ k \in CoreState)
  BY DEF TargetResult, Heard, TargetBlocked, TargetCore
<1>. HIDE DEF said
<1>5. ASSUME Stayed(T, m, x)
      PROVE  /\ k.own = T.own /\ k.input_allowed = T.input_allowed
             /\ \A y \in said : y \notin Transfers /\ (y \in Acks => ~y.accepted)
             /\ m \in Transfers => /\ AckMsg(m.epoch, FALSE) \in said
                                   /\ m.epoch <= T.own.epoch \/ (m.to = TargetId /\ ~T.input_allowed)
  <2>1. ASSUME NEW y \in said
        PROVE  y \notin Transfers /\ (y \in Acks => ~y.accepted)
    <3>1. PICK a \in Doing(x) : a.act = "SendControl" /\ a.msg = y
      BY <1>2
    <3>2. y.type # "Transfer" /\ (y.type = "Ack" => ~y.accepted)
      BY <1>5, <3>1 DEF Stayed
    <3>. QED
      BY <1>1, <3>2
  <2>2. m \in Transfers => /\ AckMsg(m.epoch, FALSE) \in said
                           /\ m.epoch <= T.own.epoch \/ (m.to = TargetId /\ ~T.input_allowed)
    BY <1>3, <1>5 DEF Stayed
  <2>3. k.own = T.own /\ k.input_allowed = T.input_allowed
    BY <1>5 DEF Stayed
  <2>. QED
    BY <2>1, <2>2, <2>3
<1>6. CASE Adopted(T, m, x)
  BY <1>2, <1>6 DEF Adopted, said
<1>7. CASE GaveBack(T, m, x) /\ k \in CoreState
  <2>. DEFINE t == TransferMsg(k.own)
  <2>1. k.own \in View
    BY <1>7 DEF CoreState
  <2>2. t \in Transfers /\ t.epoch = k.own.epoch
    BY <2>1, Flags DEF TransferMsg, Transfers, View
  <2>3. t \in said
    BY <1>3, <1>7 DEF GaveBack
  <2>4. \A y \in said : /\ y \in Acks => ~y.accepted
                        /\ y \in Transfers => y = t
    BY <1>1, <1>2, <1>7 DEF GaveBack
  <2>. HIDE DEF t
  <2>. QED
    BY <1>7, <2>2, <2>3, <2>4 DEF GaveBack, said
<1>. QED
  BY <1>4, <1>5, <1>6, <1>7 DEF said

LEMMA TargetHands ==
    ASSUME SessionInv, SessionInv', TokenInv, HandInv, TargetStep
    PROVE  TokenInv' /\ HandInv'
<1>1. PICK m, r, x :
         /\ TargetResult(T, S.own, m, r) /\ S' = S /\ T' = x.core
         /\ TakenFrom(TargetId, m, Transfers \cup Inputs)
         /\ Queued(ctl'[SourceId]) = Queued(ctl[SourceId]) \cup Said(TargetId, x)
         /\ x = r \/ TargetBlocked(T, m, x)
  BY DEF TargetStep
<1>. DEFINE c == T
            k == x.core
            up == Queued(ctl[SourceId])
            up1 == Queued(ctl'[SourceId])
            down == Queued(ctl[TargetId])
            down1 == Queued(ctl'[TargetId])
            said == Said(TargetId, x)
<1>2. /\ S.own.epoch \in Nat /\ c.own.epoch \in Nat
      /\ S.own.owner \in {SourceId, TargetId} /\ c.own.owner \in {SourceId, TargetId}
      /\ \A y \in down : y \in Told(S.own)
  BY OnTheWire
<1>3. /\ \A y \in down1 : y \in down
      /\ \A y \in down : y = m \/ y \in down1
      /\ m \in Transfers => m \in down
  <2>1. ctl[TargetId] \in Seq(Told(S.own))
    BY OnTheWire
  <2>2. TakenFrom(TargetId, m, Transfers \cup Inputs)
    BY <1>1
  <2>. QED
    BY <2>1, <2>2, Kept
<1>4. up1 = up \cup said
  BY <1>1
<1>5. m \in Transfers => /\ m.epoch \in Nat /\ m.epoch <= S.own.epoch /\ m.epoch # 0
                         /\ m.epoch = S.own.epoch => m.to = S.own.owner
                         /\ m.to \in {SourceId, TargetId}
  <2>. SUFFICES ASSUME m \in Transfers
                PROVE  /\ m.epoch \in Nat /\ m.epoch <= S.own.epoch /\ m.epoch # 0
                       /\ m.epoch = S.own.epoch => m.to = S.own.owner
                       /\ m.to \in {SourceId, TargetId}
    OBVIOUS
  <2>1. m \in Told(S.own)
    BY <1>2, <1>3
  <2>. QED
    BY <2>1, Claimed
<1>6. TargetCore(T)
  BY DEF SessionInv, CoresInv
<1>7. S' = S /\ T' = k
  BY <1>1
<1>8. \/ /\ k.own = c.own /\ k.input_allowed = c.input_allowed
         /\ \A y \in said : y \notin Transfers /\ (y \in Acks => ~y.accepted)
         /\ m \in Transfers => /\ AckMsg(m.epoch, FALSE) \in said
                               /\ m.epoch <= c.own.epoch \/ (m.to = TargetId /\ ~c.input_allowed)
      \/ /\ m \in Transfers /\ m.epoch > c.own.epoch /\ (m.to = TargetId => c.input_allowed)
         /\ k.own.epoch = m.epoch /\ k.own.owner = m.to /\ k.input_allowed = c.input_allowed
         /\ \A y \in said : y = AckMsg(m.epoch, TRUE)
      \/ /\ m \notin Transfers /\ c.input_allowed /\ ~k.input_allowed
         /\ c.own.owner = TargetId /\ c.own.epoch # 0
         /\ k.own.owner = SourceId /\ k.own.epoch = c.own.epoch + 1
         /\ \E y \in said : y \in Transfers /\ y.epoch = k.own.epoch
         /\ \A y \in said : /\ y \in Acks => ~y.accepted
                            /\ y \in Transfers => y.epoch = k.own.epoch
  BY <1>1, <1>6, TargetSays
<1>9. \A e, b : AckMsg(e, b) \notin Transfers /\ AckMsg(e, b).epoch = e
  BY DEF AckMsg, Transfers
<1>10. /\ c.input_allowed => /\ \A y \in up : y \notin Transfers
                             /\ S.own.epoch >= c.own.epoch
                             /\ S.own.epoch > c.own.epoch => \E y \in down : y \in Transfers /\ y.epoch = S.own.epoch
  BY DEF TokenInv, up, down, c
<1>11. S.input_allowed =>
         /\ S.own.owner = TargetId <=> Odd(S.own.epoch)
         /\ c.own.epoch # 0 => (c.own.owner = TargetId <=> Odd(c.own.epoch))
         /\ \A y \in down : y \in Transfers => (y.to = TargetId <=> Odd(y.epoch))
         /\ \A y \in up : y \in Transfers => ~Odd(y.epoch)
         /\ \A y \in up : /\ y \in Transfers => y.epoch <= c.own.epoch
                          /\ y \in Acks /\ y.accepted => y.epoch <= c.own.epoch
         /\ S.own.epoch > c.own.epoch =>
               /\ S.own.owner = TargetId => Pending(S)
               /\ \/ \E y \in down : y \in Transfers /\ y.epoch = S.own.epoch
                  \/ ~c.input_allowed /\ S.own.owner = TargetId /\ AckMsg(S.own.epoch, FALSE) \in up
         /\ ~c.input_allowed =>
               /\ c.own.epoch # 0 /\ c.own.owner = SourceId /\ c.own.epoch <= S.own.epoch + 1
               /\ c.own.epoch > S.own.epoch => \E y \in up : y \in Transfers /\ y.epoch = c.own.epoch
  BY DEF HandInv, TurnsInv, AnswersInv, BehindInv, BlockedInv, up, down, c
<1>. DEFINE P ==
              /\ k.own.epoch # 0 => (k.own.owner = TargetId <=> Odd(k.own.epoch))
              /\ \A y \in up1 : y \in Transfers => ~Odd(y.epoch)
            Q == \A y \in up1 : /\ y \in Transfers => y.epoch <= k.own.epoch
                                /\ y \in Acks /\ y.accepted => y.epoch <= k.own.epoch
            B == S.own.epoch > k.own.epoch =>
                    /\ S.own.owner = TargetId => Pending(S)
                    /\ \/ \E y \in down1 : y \in Transfers /\ y.epoch = S.own.epoch
                       \/ ~k.input_allowed /\ S.own.owner = TargetId /\ AckMsg(S.own.epoch, FALSE) \in up1
            L == ~k.input_allowed =>
                    /\ k.own.epoch # 0 /\ k.own.owner = SourceId /\ k.own.epoch <= S.own.epoch + 1
                    /\ k.own.epoch > S.own.epoch => \E y \in up1 : y \in Transfers /\ y.epoch = k.own.epoch
            I == k.input_allowed =>
                    /\ \A y \in up1 : y \notin Transfers
                    /\ S.own.epoch >= k.own.epoch
                    /\ S.own.epoch > k.own.epoch => \E y \in down1 : y \in Transfers /\ y.epoch = S.own.epoch
<1>. HIDE DEF c, k, up, up1, down, down1, said
<1>12. ASSUME /\ k.own = c.own /\ k.input_allowed = c.input_allowed
              /\ \A y \in said : y \notin Transfers /\ (y \in Acks => ~y.accepted)
              /\ m \in Transfers => /\ AckMsg(m.epoch, FALSE) \in said
                                    /\ m.epoch <= c.own.epoch \/ (m.to = TargetId /\ ~c.input_allowed)
       PROVE  I /\ (S.input_allowed => P /\ Q /\ B /\ L)
  <2>1. I
    <3>. SUFFICES ASSUME c.input_allowed, S.own.epoch > c.own.epoch
                  PROVE  \E y \in down1 : y \in Transfers /\ y.epoch = S.own.epoch
      BY <1>4, <1>10, <1>12
    <3>1. PICK y \in down : y \in Transfers /\ y.epoch = S.own.epoch
      BY <1>10
    <3>2. ~(y.epoch <= c.own.epoch)
      BY <1>2, <3>1
    <3>3. y # m
      BY <1>12, <3>1, <3>2
    <3>. QED
      BY <1>3, <3>1, <3>3
  <2>2. ASSUME S.input_allowed
        PROVE  P /\ Q /\ L
    BY <1>4, <1>11, <1>12, <2>2
  <2>3. ASSUME S.input_allowed
        PROVE  B
    <3>. SUFFICES ASSUME S.own.epoch > c.own.epoch
                  PROVE  \/ \E y \in down1 : y \in Transfers /\ y.epoch = S.own.epoch
                         \/ ~c.input_allowed /\ S.own.owner = TargetId /\ AckMsg(S.own.epoch, FALSE) \in up1
      BY <1>11, <1>12, <2>3
    <3>1. CASE \E y \in down : y \in Transfers /\ y.epoch = S.own.epoch
      <4>1. PICK y \in down : y \in Transfers /\ y.epoch = S.own.epoch
        BY <3>1
      <4>2. CASE y = m
        <5>1. m \in Transfers /\ m.epoch = S.own.epoch /\ m.to = S.own.owner
          BY <1>5, <4>1, <4>2
        <5>2. ~(m.epoch <= c.own.epoch)
          BY <1>2, <5>1
        <5>. QED
          BY <1>4, <1>12, <5>1, <5>2
      <4>3. CASE y # m
        BY <1>3, <4>1, <4>3
      <4>. QED
        BY <4>2, <4>3
    <3>2. CASE ~c.input_allowed /\ S.own.owner = TargetId /\ AckMsg(S.own.epoch, FALSE) \in up
      BY <1>4, <3>2
    <3>. QED
      BY <1>11, <2>3, <3>1, <3>2
  <2>. QED
    BY <2>1, <2>2, <2>3
<1>13. ASSUME /\ m \in Transfers /\ m.epoch > c.own.epoch /\ (m.to = TargetId => c.input_allowed)
              /\ k.own.epoch = m.epoch /\ k.own.owner = m.to /\ k.input_allowed = c.input_allowed
              /\ \A y \in said : y = AckMsg(m.epoch, TRUE)
       PROVE  I /\ (S.input_allowed => P /\ Q /\ B /\ L)
  <2>0. \A y \in said : y \notin Transfers /\ y.epoch = m.epoch
    BY <1>9, <1>13
  <2>1. I
    <3>0. (c.input_allowed => \A y \in up1 : y \notin Transfers) /\ S.own.epoch >= k.own.epoch
      BY <1>2, <1>4, <1>5, <1>10, <1>13, <2>0
    <3>. SUFFICES ASSUME c.input_allowed, S.own.epoch > m.epoch
                  PROVE  \E y \in down1 : y \in Transfers /\ y.epoch = S.own.epoch
      BY <1>13, <3>0
    <3>1. PICK y \in down : y \in Transfers /\ y.epoch = S.own.epoch
      BY <1>2, <1>5, <1>10, <1>13
    <3>. QED
      BY <1>3, <1>5, <3>1
  <2>2. ASSUME S.input_allowed
        PROVE  P
    <3>1. k.own.owner = TargetId <=> Odd(k.own.epoch)
      BY <1>3, <1>11, <1>13, <2>2
    <3>2. \A y \in up1 : y \in Transfers => ~Odd(y.epoch)
      BY <1>4, <1>11, <2>0, <2>2
    <3>. QED
      BY <3>1, <3>2
  <2>3. ASSUME S.input_allowed
        PROVE  Q
    <3>1. ASSUME NEW y \in up, y \in Transfers \/ (y \in Acks /\ y.accepted)
          PROVE  y.epoch <= k.own.epoch
      <4>1. y.epoch \in Nat
        BY <3>1, Claims
      <4>. QED
        BY <1>2, <1>5, <1>11, <1>13, <2>3, <3>1, <4>1
    <3>2. ASSUME NEW y \in said
          PROVE  y.epoch <= k.own.epoch
      BY <1>5, <1>13, <2>0, <3>2
    <3>. QED
      BY <1>4, <3>1, <3>2
  <2>4. ASSUME S.input_allowed
        PROVE  B
    <3>. SUFFICES ASSUME S.own.epoch > m.epoch
                  PROVE  /\ S.own.owner = TargetId => Pending(S)
                         /\ \/ \E y \in down1 : y \in Transfers /\ y.epoch = S.own.epoch
                            \/ ~c.input_allowed /\ S.own.owner = TargetId /\ AckMsg(S.own.epoch, FALSE) \in up1
      BY <1>13
    <3>1. S.own.epoch > c.own.epoch
      BY <1>2, <1>5, <1>13
    <3>2. CASE \E y \in down : y \in Transfers /\ y.epoch = S.own.epoch
      <4>1. PICK y \in down : y \in Transfers /\ y.epoch = S.own.epoch
        BY <3>2
      <4>2. y # m
        BY <1>2, <1>5, <4>1
      <4>. QED
        BY <1>3, <1>11, <2>4, <3>1, <4>1, <4>2
    <3>3. CASE ~c.input_allowed /\ S.own.owner = TargetId /\ AckMsg(S.own.epoch, FALSE) \in up
      BY <1>4, <1>11, <2>4, <3>1, <3>3
    <3>. QED
      BY <1>11, <2>4, <3>1, <3>2, <3>3
  <2>5. L
    BY <1>2, <1>5, <1>13
  <2>. QED
    BY <2>1, <2>2, <2>3, <2>4, <2>5
<1>14. ASSUME /\ m \notin Transfers /\ c.input_allowed /\ ~k.input_allowed
              /\ c.own.owner = TargetId /\ c.own.epoch # 0
              /\ k.own.owner = SourceId /\ k.own.epoch = c.own.epoch + 1
              /\ \E y \in said : y \in Transfers /\ y.epoch = k.own.epoch
              /\ \A y \in said : /\ y \in Acks => ~y.accepted
                                 /\ y \in Transfers => y.epoch = k.own.epoch
       PROVE  I /\ (S.input_allowed => P /\ Q /\ B /\ L)
  <2>1. I
    BY <1>14
  <2>2. ASSUME S.input_allowed
        PROVE  P
    <3>1. ~Odd(k.own.epoch)
      BY <1>2, <1>11, <1>14, <2>2, Parity
    <3>. QED
      BY <1>4, <1>11, <1>14, <2>2, <3>1, Ids
  <2>3. ASSUME S.input_allowed
        PROVE  Q
    <3>1. ASSUME NEW y \in up, y \in Acks /\ y.accepted
          PROVE  y.epoch <= k.own.epoch
      <4>1. y.epoch \in Nat
        BY <3>1, Claims
      <4>2. y.epoch <= c.own.epoch
        BY <1>11, <2>3, <3>1
      <4>. QED
        BY <1>2, <1>14, <4>1, <4>2
    <3>2. k.own.epoch \in Nat
      BY <1>2, <1>14
    <3>3. ASSUME NEW y \in said, y \in Transfers \/ (y \in Acks /\ y.accepted)
          PROVE  y.epoch <= k.own.epoch
      BY <1>14, <3>2, <3>3
    <3>4. \A y \in up : y \notin Transfers
      BY <1>10, <1>14
    <3>. QED
      BY <1>4, <3>1, <3>3, <3>4
  <2>4. ASSUME S.input_allowed
        PROVE  B
    <3>. SUFFICES ASSUME S.own.epoch > k.own.epoch
                  PROVE  /\ S.own.owner = TargetId => Pending(S)
                         /\ \E y \in down1 : y \in Transfers /\ y.epoch = S.own.epoch
      OBVIOUS
    <3>1. S.own.epoch > c.own.epoch
      BY <1>2, <1>14
    <3>2. PICK y \in down : y \in Transfers /\ y.epoch = S.own.epoch
      BY <1>10, <1>14, <3>1
    <3>3. y # m
      BY <1>14, <3>2
    <3>. QED
      BY <1>3, <1>11, <2>4, <3>1, <3>2, <3>3
  <2>5. L
    BY <1>2, <1>4, <1>10, <1>14
  <2>. QED
    BY <2>1, <2>2, <2>3, <2>4, <2>5
<1>15. I /\ (S.input_allowed => P /\ Q /\ B /\ L)
  BY <1>8, <1>12, <1>13, <1>14
<1>16. TokenInv'
  BY <1>7, <1>15 DEF TokenInv, up1, down1
<1>17. HandInv'
  <2>. SUFFICES ASSUME S.input_allowed
                PROVE  TurnsInv' /\ AnswersInv' /\ BehindInv' /\ BlockedInv'
    BY <1>7 DEF HandInv
  <2>1. TurnsInv'
    <3>1. \A y \in down1 : y \in Transfers => (y.to = TargetId <=> Odd(y.epoch))
      BY <1>3, <1>11
    <3>. QED
      BY <1>7, <1>11, <1>15, <3>1 DEF TurnsInv, up1, down1
  <2>2. AnswersInv' /\ BehindInv' /\ BlockedInv'
    BY <1>7, <1>15 DEF AnswersInv, BehindInv, BlockedInv, up1, down1
  <2>. QED
    BY <2>1, <2>2
<1>. QED
  BY <1>16, <1>17

LEMMA SessionInvariant == Spec => []SessionInv
<1>1. SessionInv /\ [Next]_vars => SessionInv'
  BY SessionNext
<1>. QED
  BY InitInv, <1>1, PTL DEF Spec

LEMMA SideHands ==
    ASSUME SessionInv, TokenInv, HandInv, SideStep
    PROVE  TokenInv' /\ HandInv'
<1>. DEFINE up == Queued(ctl[SourceId])
            up1 == Queued(ctl'[SourceId])
<1>1. S' = S /\ T' = T /\ ctl'[TargetId] = ctl[TargetId]
  BY DEF SideStep
<1>2. PingMsg.type = "Ping" /\ GoodbyeMsg.type = "Goodbye"
  BY DEF PingMsg, GoodbyeMsg
<1>3. /\ \A y \in Transfers : y.type = "Transfer"
      /\ \A y \in Acks : y.type = "Ack"
  BY Claims
<1>4. /\ \A y \in up : y \in up1
      /\ \A y \in up1 : y \in up \/ (y \notin Transfers /\ y \notin Acks)
  BY <1>2, <1>3 DEF SideStep
<1>. HIDE DEF up, up1
<1>5. TokenInv'
  BY <1>1, <1>4 DEF TokenInv, up, up1
<1>6. TurnsInv => TurnsInv'
  BY <1>1, <1>4 DEF TurnsInv, up, up1
<1>7. AnswersInv => AnswersInv'
  BY <1>1, <1>4 DEF AnswersInv, up, up1
<1>8. BehindInv => BehindInv'
  BY <1>1, <1>4 DEF BehindInv, up, up1
<1>9. BlockedInv => BlockedInv'
  BY <1>1, <1>4 DEF BlockedInv, up, up1
<1>. QED
  BY <1>1, <1>5, <1>6, <1>7, <1>8, <1>9 DEF HandInv

LEMMA HandoffInvariant == Spec => [](SessionInv /\ TokenInv /\ HandInv)
<1>1. Init => TokenInv /\ HandInv
  <2>. SUFFICES ASSUME Init PROVE TokenInv /\ HandInv
    OBVIOUS
  <2>1. S = NewCore(SourceId) /\ T = NewCore(TargetId) /\ ctl[SourceId] = <<>> /\ ctl[TargetId] = <<>>
    BY Ids DEF Init, S, T
  <2>2. \A d \in Device : NewCore(d).own = NewOwnership(d) /\ NewCore(d).input_allowed
    BY StartCore DEF NewCore
  <2>3. \A d \in Device : NewOwnership(d).owner = d /\ NewOwnership(d).epoch = 0
    BY DEF NewOwnership
  <2>. HIDE DEF NewOwnership, NewCore
  <2>4. /\ S.own.epoch = 0 /\ T.own.epoch = 0 /\ S.own.owner = SourceId /\ T.input_allowed
    BY <2>1, <2>2, <2>3, Ids
  <2>5. Queued(ctl[SourceId]) = {} /\ Queued(ctl[TargetId]) = {}
    BY <2>1 DEF Queued
  <2>. QED
    BY <2>4, <2>5, Parity, Ids DEF TokenInv, HandInv, TurnsInv, AnswersInv, BehindInv, BlockedInv
<1>2. SessionInv /\ TokenInv /\ HandInv /\ [Next]_vars => SessionInv' /\ TokenInv' /\ HandInv'
  BY SessionNext, SourceHands, TargetHands, SideHands
<1>. QED
  BY InitInv, <1>1, <1>2, PTL DEF Spec

LEMMA WellFormed == SessionInv => TypeOK /\ PendingIsCurrent
<1>1. SessionInv => TypeOK
  <2>. SUFFICES ASSUME SessionInv PROVE TypeOK
    OBVIOUS
  <2>1. ASSUME NEW d \in Device
        PROVE  core[d] \in CoreState /\ core[d].own.me = d
    BY Ids DEF SessionInv, CoresInv, SourceCore, TargetCore, S, T
  <2>2. ASSUME NEW c \in CoreState
        PROVE  /\ c.own \in View /\ c.out_ctr \in Nat /\ c.out_seq \in Nat
               /\ c.guard \in [epoch: Epoch, last_ctr: Nat, last_seq: Nat]
               /\ c.held_keys \subseteq Key /\ c.input_allowed \in BOOLEAN /\ c.accepted_epoch \in Epoch
               /\ c.tokens \in 0 .. InputRateBurst
               /\ c.pending_ack \in [epoch: Epoch, ticks_left: 0 .. OwnershipAckTicks]
               /\ c.peer_x \in 0 .. PeerMaxX /\ c.misses \in 0 .. HeartbeatMissLimit
    <3>1. /\ c.own \in View /\ c.out_ctr \in Nat /\ c.out_seq \in Nat /\ c.guard \in Guard /\ c.held_keys \in Keys
          /\ c.input_allowed \in Flag /\ c.accepted_epoch \in Epoch /\ c.tokens \in Tokens
          /\ c.pending_ack \in PendingAck /\ c.peer_x \in PeerX /\ c.misses \in Misses
      BY DEF CoreState
    <3>. QED
      BY <3>1, Zenon DEF Guard, Keys, Flag, Tokens, PendingAck, Ticks, PeerX, Misses
  <2>3. /\ dgrams \subseteq Motion /\ mode \in {"PassiveEdge", "ActiveForward"}
        /\ {can_suppress, hung} \subseteq BOOLEAN /\ os_keys \subseteq Key
    BY DEF SessionInv, WireInv, DeskInv
  <2>. QED
    BY <2>1, <2>2, <2>3 DEF TypeOK
<1>2. SessionInv => PendingIsCurrent
  BY DEF SessionInv, CoresInv, SourceCore, PendingIsCurrent
<1>. QED
  BY <1>1, <1>2

-----------------------------------------------------------------------------
(* The keys                                                                *)

\* On the stream to the target no input comes before the claim of its epoch, and
\* the counters of an epoch's inputs grow.
InTurn(a, b) ==
    a \in Inputs =>
        /\ b \in Transfers => a.epoch # b.epoch
        /\ b \in Inputs /\ a.epoch = b.epoch => a.ctr < b.ctr

Sorted(q) == \A i, j \in DOMAIN q : i < j => InTurn(q[i], q[j])

LEMMA SortedTail ==
    ASSUME NEW M, NEW q \in Seq(M), q # <<>>, Sorted(q)
    PROVE  Sorted(Tail(q)) /\ \A y \in Queued(Tail(q)) : InTurn(Head(q), y)
<1>1. /\ Head(q) = q[1] /\ Tail(q) \in Seq(M) /\ Len(Tail(q)) = Len(q) - 1
      /\ \A i \in DOMAIN Tail(q) : i + 1 \in DOMAIN q /\ Tail(q)[i] = q[i + 1]
  BY TailAre
<1>2. DOMAIN q = 1 .. Len(q) /\ DOMAIN Tail(q) = 1 .. Len(Tail(q)) /\ Len(q) \in Nat /\ Len(q) # 0
  BY <1>1
<1>3. ASSUME NEW i \in DOMAIN Tail(q), NEW j \in DOMAIN Tail(q), i < j
      PROVE  InTurn(Tail(q)[i], Tail(q)[j])
  <2>1. i + 1 < j + 1
    BY <1>2, <1>3
  <2>. QED
    BY <1>1, <2>1 DEF Sorted
<1>4. ASSUME NEW i \in DOMAIN Tail(q)
      PROVE  InTurn(Head(q), Tail(q)[i])
  <2>1. 1 < i + 1 /\ 1 \in DOMAIN q
    BY <1>2
  <2>. QED
    BY <1>1, <2>1 DEF Sorted
<1>. QED
  BY <1>3, <1>4 DEF Sorted, Queued

LEMMA SortedJoin ==
    ASSUME NEW M, NEW q \in Seq(M), NEW f \in Seq(M), Sorted(q), Sorted(f),
           \A a \in Queued(q) : \A b \in Queued(f) : InTurn(a, b)
    PROVE  Sorted(q \o f)
<1>1. /\ DOMAIN q = 1 .. Len(q) /\ DOMAIN f = 1 .. Len(f) /\ DOMAIN (q \o f) = 1 .. Len(q) + Len(f)
      /\ Len(q) \in Nat /\ Len(f) \in Nat
      /\ \A i \in 1 .. Len(q) + Len(f) : (q \o f)[i] = IF i <= Len(q) THEN q[i] ELSE f[i - Len(q)]
  OBVIOUS
<1>2. SUFFICES ASSUME NEW i \in 1 .. Len(q) + Len(f), NEW j \in 1 .. Len(q) + Len(f), i < j
               PROVE  InTurn((q \o f)[i], (q \o f)[j])
  BY <1>1 DEF Sorted
<1>3. CASE j <= Len(q)
  <2>1. i \in DOMAIN q /\ j \in DOMAIN q /\ (q \o f)[i] = q[i] /\ (q \o f)[j] = q[j]
    BY <1>1, <1>2, <1>3
  <2>. QED
    BY <1>2, <2>1 DEF Sorted
<1>4. CASE i <= Len(q) /\ ~(j <= Len(q))
  <2>1. i \in DOMAIN q /\ j - Len(q) \in DOMAIN f /\ (q \o f)[i] = q[i] /\ (q \o f)[j] = f[j - Len(q)]
    BY <1>1, <1>2, <1>4
  <2>2. q[i] \in Queued(q) /\ f[j - Len(q)] \in Queued(f)
    BY <2>1 DEF Queued
  <2>. QED
    BY <2>1, <2>2
<1>5. CASE ~(i <= Len(q))
  <2>1. /\ i - Len(q) \in DOMAIN f /\ j - Len(q) \in DOMAIN f /\ i - Len(q) < j - Len(q)
        /\ (q \o f)[i] = f[i - Len(q)] /\ (q \o f)[j] = f[j - Len(q)]
    BY <1>1, <1>2, <1>5
  <2>. QED
    BY <2>1 DEF Sorted
<1>. QED
  BY <1>1, <1>3, <1>4, <1>5

\* Input on its way is of an epoch the source has given away, counted by the source
\* and still ahead of the target's replay guard.
Fresh(m) ==
    /\ m.ctr # 0 /\ m.epoch <= S.own.epoch
    /\ m.epoch = S.own.epoch => S.own.owner = TargetId /\ m.ctr <= S.out_ctr
    /\ m.epoch = T.own.epoch /\ T.guard.epoch = T.own.epoch => m.ctr > T.guard.last_ctr

OrderInv ==
    /\ Sorted(ctl[TargetId])
    /\ \A m \in Queued(ctl[TargetId]) : m \in Inputs => Fresh(m)

\* The guard has counted no further than the source.
CountInv ==
    T.guard.epoch = T.own.epoch =>
        /\ T.own.epoch = S.own.epoch => T.guard.last_ctr <= S.out_ctr
        /\ T.own.epoch > S.own.epoch => T.guard.last_ctr = 0

\* A key the target's core takes for held is held down on its desktop: only
\* repeats of it are shed.
HeldInv == T.held_keys \subseteq os_keys

\* Frame m is a press or a release of key k in the source's epoch.
KeyFrame(m, k) == m \in Inputs /\ m.epoch = S.own.epoch /\ m.event.kind = "Key" /\ m.event.usage = k

\* The last transition of key k the source forwarded is the newest on its way, or
\* nothing of the key is on its way and the desktop shows it.
LastAhead(k) ==
    \E m \in Queued(ctl[TargetId]) :
       /\ KeyFrame(m, k) /\ (m.event.down <=> forwarded[k] = "down")
       /\ \A n \in Queued(ctl[TargetId]) : KeyFrame(n, k) => n.ctr <= m.ctr

Shown(k) ==
    /\ T.own.epoch = S.own.epoch
    /\ \A n \in Queued(ctl[TargetId]) : ~KeyFrame(n, k)
    /\ forwarded[k] = "down" <=> k \in os_keys

KeyInv ==
    /\ forwarded \in [Key -> {"none", "down", "up"}]
    /\ T.input_allowed => \A k \in Key : forwarded[k] # "none" => LastAhead(k) \/ Shown(k)

MirrorInv == OrderInv /\ CountInv /\ HeldInv /\ KeyInv

LEMMA Counted ==
    /\ \A m \in Inputs : m.epoch \in Nat /\ m.ctr \in Nat /\ m.event \in Events /\ m.type = "Input" /\ m \notin Transfers
    /\ SessionInv => /\ S.out_ctr \in Nat /\ T.guard.last_ctr \in Nat /\ T.guard.epoch \in Nat
                     /\ S.own.epoch \in Nat /\ T.own.epoch \in Nat
<1>1. \A m \in Inputs : m.epoch \in Nat /\ m.ctr \in Nat /\ m.event \in Events /\ m.type = "Input" /\ m \notin Transfers
  BY Numbers DEF Inputs, Transfers
<1>2. ASSUME SessionInv
      PROVE  S.out_ctr \in Nat /\ T.guard \in Guard /\ S.own.epoch \in Nat /\ T.own.epoch \in Nat
  BY <1>2, OnTheWire DEF SessionInv, CoresInv, SourceCore, TargetCore, CoreState
<1>3. \A g \in Guard : g.last_ctr \in Nat /\ g.epoch \in Nat
  BY Numbers DEF Guard
<1>. QED
  BY <1>1, <1>2, <1>3

LEMMA SourceMirrors ==
    ASSUME SessionInv, SessionInv', MirrorInv, SourceStep
    PROVE  MirrorInv'
<1>1. PICK m, x :
         /\ SourceOutcome(S, m, x)
         /\ S' = x.core /\ T' = T /\ os_keys' = os_keys
         /\ \E f \in Frames(SourceId, x) :
               /\ ctl'[TargetId] = ctl[TargetId] \o f
               /\ \/ m \notin Inputs /\ forwarded' = NoTransitions
                  \/ m \notin Inputs /\ forwarded' = forwarded /\ x.core.own.epoch = S.own.epoch
                  \/ \E ev \in Events : Forwards(ev, m, x, f)
  BY DEF SourceStep
<1>2. PICK f \in Frames(SourceId, x) :
         /\ ctl'[TargetId] = ctl[TargetId] \o f
         /\ \/ m \notin Inputs /\ forwarded' = NoTransitions
            \/ m \notin Inputs /\ forwarded' = forwarded /\ x.core.own.epoch = S.own.epoch
            \/ \E ev \in Events : Forwards(ev, m, x, f)
  BY <1>1
<1>. DEFINE c == S
            k == x.core
            q == ctl[TargetId]
            down == Queued(q)
            said == Queued(f)
<1>3. f \in Seq(Message) /\ q \in Seq(Message) /\ said = Said(SourceId, x) /\ \A y \in down : y \in Told(c.own)
  <2>1. \A a \in Doing(x) : a.act = "SendControl" => a.msg \in Told(k.own) \/ (SourceId # TargetId /\ a.msg = HeartbeatMsg)
    BY <1>1, Ids DEF SourceOutcome
  <2>2. Listed(x) /\ Told(k.own) \subseteq Message
    BY <1>1, Messages DEF SourceOutcome
  <2>3. f \in Seq(Told(k.own))
    BY <1>2, <2>1, <2>2, FramesFrom
  <2>. QED
    BY <1>2, <2>2, <2>3, WiderSeq, FramesAre, OnTheWire, Messages
<1>4. Queued(ctl'[TargetId]) = down \cup said
  BY <1>2, <1>3, JoinedAre
<1>5. /\ k.own = c.own => k.out_ctr >= c.out_ctr
      /\ k.own # c.own => k.own.epoch > c.own.epoch
      /\ \A y \in said : /\ y \in Transfers => y.epoch > c.own.epoch
                         /\ y \in Inputs => y = m
  BY <1>1, <1>3, SourceSays DEF SessionInv, CoresInv
<1>6. /\ c.own.epoch \in Nat /\ T.own.epoch \in Nat /\ k.own.epoch \in Nat
      /\ c.out_ctr \in Nat /\ k.out_ctr \in Nat /\ T.guard.last_ctr \in Nat /\ T.guard.epoch \in Nat
  <2>1. S' \in CoreState
    BY DEF SessionInv, CoresInv, SourceCore
  <2>2. k.own.epoch \in Nat /\ k.out_ctr \in Nat
    BY <1>1, <2>1, Numbers DEF CoreState, View
  <2>. QED
    BY <2>2, Counted
<1>7. S' = k /\ T' = T /\ os_keys' = os_keys /\ ctl'[TargetId] = q \o f
  BY <1>1, <1>2
<1>8. /\ Sorted(q) /\ CountInv /\ T.held_keys \subseteq os_keys
      /\ \A y \in down : y \in Inputs =>
            /\ y.ctr # 0 /\ y.epoch <= c.own.epoch /\ y.ctr \in Nat /\ y.epoch \in Nat
            /\ y.epoch = c.own.epoch => c.own.owner = TargetId /\ y.ctr <= c.out_ctr
            /\ y.epoch = T.own.epoch /\ T.guard.epoch = T.own.epoch => y.ctr > T.guard.last_ctr
  BY Counted DEF MirrorInv, OrderInv, Fresh, HeldInv
<1>9. /\ forwarded \in [Key -> {"none", "down", "up"}]
      /\ T.input_allowed => \A n \in Key : forwarded[n] # "none" => LastAhead(n) \/ Shown(n)
  BY DEF MirrorInv, KeyInv
<1>10. CountInv'
  <2>. SUFFICES ASSUME T.guard.epoch = T.own.epoch
                PROVE  /\ T.own.epoch = k.own.epoch => T.guard.last_ctr <= k.out_ctr
                       /\ T.own.epoch > k.own.epoch => T.guard.last_ctr = 0
    BY <1>7 DEF CountInv
  <2>1. /\ T.own.epoch = c.own.epoch => T.guard.last_ctr <= c.out_ctr
        /\ T.own.epoch > c.own.epoch => T.guard.last_ctr = 0
    BY <1>8 DEF CountInv
  <2>. HIDE DEF c, k
  <2>. QED
    BY <1>5, <1>6, <2>1
<1>11. HeldInv'
  BY <1>7, <1>8 DEF HeldInv
<1>12. ASSUME NEW y \in down, y \in Inputs
       PROVE  Fresh(y)'
  <2>1. /\ y.ctr # 0 /\ y.epoch <= k.own.epoch
        /\ y.epoch = k.own.epoch => k.own.owner = TargetId /\ y.ctr <= k.out_ctr
        /\ y.epoch = T.own.epoch /\ T.guard.epoch = T.own.epoch => y.ctr > T.guard.last_ctr
    <3>. HIDE DEF c, k, down
    <3>. QED
      BY <1>5, <1>6, <1>8, <1>12
  <2>. QED
    BY <1>7, <2>1 DEF Fresh
<1>13. ASSUME NEW ev \in Events, Forwards(ev, m, x, f)
       PROVE  m \in Inputs
  <2>1. c.own.epoch \in Epoch
    BY OnTheWire DEF View
  <2>. QED
    BY <1>6, <1>13, <2>1 DEF Forwards, InputFrom, Inputs
<1>14. CASE m \notin Inputs
  <2>1. \A y \in said : y \notin Inputs
    BY <1>5, <1>14
  <2>2. OrderInv'
    <3>1. Sorted(f)
      <4>1. \A i \in DOMAIN f : f[i] \notin Inputs
        BY <2>1 DEF Queued
      <4>. QED
        BY <4>1 DEF Sorted, InTurn
    <3>2. ASSUME NEW a \in down, NEW b \in said
          PROVE  InTurn(a, b)
      <4>1. b \in Transfers => b.epoch \in Nat /\ b.epoch > c.own.epoch
        BY <1>5, Claims
      <4>2. a \in Inputs => a.epoch \in Nat /\ a.epoch <= c.own.epoch
        BY <1>8
      <4>. QED
        BY <1>6, <2>1, <4>1, <4>2 DEF InTurn
    <3>3. Sorted(q \o f)
      BY <1>3, <1>8, <3>1, <3>2, SortedJoin
    <3>. QED
      BY <1>4, <1>7, <1>12, <2>1, <3>3 DEF OrderInv
  <2>3. KeyInv'
    <3>1. CASE forwarded' = NoTransitions
      BY <3>1 DEF KeyInv, NoTransitions
    <3>2. CASE forwarded' = forwarded /\ k.own.epoch = c.own.epoch
      <4>1. ASSUME NEW n \in Key, LastAhead(n) \/ Shown(n)
            PROVE  (LastAhead(n) \/ Shown(n))'
        <5>1. \A y : KeyFrame(y, n)' <=> KeyFrame(y, n)
          BY <1>7, <3>2 DEF KeyFrame
        <5>2. \A y \in said : ~KeyFrame(y, n)
          BY <2>1 DEF KeyFrame
        <5>3. LastAhead(n) => LastAhead(n)'
          BY <1>4, <3>2, <5>1, <5>2 DEF LastAhead
        <5>4. Shown(n) => Shown(n)'
          BY <1>4, <1>7, <3>2, <5>1, <5>2 DEF Shown
        <5>. QED
          BY <4>1, <5>3, <5>4
      <4>. QED
        BY <1>7, <1>9, <3>2, <4>1 DEF KeyInv
    <3>. QED
      BY <1>2, <1>14, <1>13, <3>1, <3>2
  <2>. QED
    BY <1>10, <1>11, <2>2, <2>3 DEF MirrorInv
<1>15. ASSUME NEW ev \in Events, Forwards(ev, m, x, f)
       PROVE  MirrorInv'
  <2>1. /\ f = <<m>> /\ m.event = ev /\ m.epoch = c.own.epoch /\ m.ctr = c.out_ctr + 1
        /\ c.own.owner = TargetId /\ k.own = c.own /\ k.out_ctr = c.out_ctr + 1
        /\ forwarded' = IF ev.kind = "Key"
                        THEN [forwarded EXCEPT ![ev.usage] = IF ev.down THEN "down" ELSE "up"] ELSE forwarded
    BY <1>15 DEF Forwards, InputFrom
  <2>2. m \in Inputs /\ m \notin Transfers
    BY <1>15, <1>13, Counted
  <2>3. said = {m}
    BY <2>1 DEF Queued
  <2>4. \A y \in down : y \in Inputs /\ y.epoch = c.own.epoch => y.ctr < m.ctr
    BY <1>6, <1>8, <2>1
  <2>5. Fresh(m)'
    <3>1. /\ m.ctr # 0 /\ m.epoch <= k.own.epoch
          /\ m.epoch = k.own.epoch => k.own.owner = TargetId /\ m.ctr <= k.out_ctr
      BY <1>6, <2>1
    <3>2. m.epoch = T.own.epoch /\ T.guard.epoch = T.own.epoch => m.ctr > T.guard.last_ctr
      BY <1>6, <1>8, <2>1 DEF CountInv
    <3>. QED
      BY <1>7, <3>1, <3>2 DEF Fresh
  <2>6. OrderInv'
    <3>1. Sorted(f)
      BY <2>1 DEF Sorted
    <3>2. \A a \in down : \A b \in said : InTurn(a, b)
      BY <2>1, <2>2, <2>3, <2>4 DEF InTurn
    <3>3. Sorted(q \o f)
      BY <1>3, <1>8, <3>1, <3>2, SortedJoin
    <3>. QED
      BY <1>4, <1>7, <1>12, <2>3, <2>5, <3>3 DEF OrderInv
  <2>7. ASSUME NEW n \in Key
        PROVE  \A y : KeyFrame(y, n)' <=> KeyFrame(y, n)
    BY <1>7, <2>1 DEF KeyFrame
  <2>8. ev.kind = "Key" => ev.usage \in Key /\ ev.down \in BOOLEAN
    BY SessionAssumption
  <2>9. ASSUME NEW n \in Key, ev.kind = "Key" /\ ev.usage = n
        PROVE  LastAhead(n)' /\ forwarded'[n] \in {"down", "up"}
    <3>1. forwarded'[n] = IF ev.down THEN "down" ELSE "up"
      BY <1>9, <2>1, <2>9
    <3>2. KeyFrame(m, n) /\ (ev.down <=> forwarded'[n] = "down")
      BY <2>1, <2>2, <2>8, <2>9, <3>1 DEF KeyFrame
    <3>3. \A y \in down \cup said : KeyFrame(y, n) => y.ctr <= m.ctr
      BY <1>6, <1>8, <2>1, <2>3, <2>4 DEF KeyFrame
    <3>. QED
      BY <1>4, <2>1, <2>3, <2>7, <3>1, <3>2, <3>3 DEF LastAhead
  <2>10. ASSUME NEW n \in Key, ~(ev.kind = "Key" /\ ev.usage = n)
         PROVE  /\ forwarded'[n] = forwarded[n]
                /\ LastAhead(n) \/ Shown(n) => (LastAhead(n) \/ Shown(n))'
    <3>1. forwarded'[n] = forwarded[n]
      BY <1>9, <2>1, <2>8, <2>10
    <3>2. ~KeyFrame(m, n)
      BY <2>1, <2>10 DEF KeyFrame
    <3>3. LastAhead(n) => LastAhead(n)'
      BY <1>4, <2>3, <2>7, <3>1, <3>2 DEF LastAhead
    <3>4. Shown(n) => Shown(n)'
      BY <1>4, <1>7, <2>1, <2>3, <2>7, <3>1, <3>2 DEF Shown
    <3>. QED
      BY <3>1, <3>3, <3>4
  <2>11. forwarded' \in [Key -> {"none", "down", "up"}]
    BY <1>9, <2>1, <2>8
  <2>12. KeyInv'
    BY <1>7, <1>9, <2>9, <2>10, <2>11 DEF KeyInv
  <2>. QED
    BY <1>10, <1>11, <2>6, <2>12 DEF MirrorInv
<1>. QED
  BY <1>2, <1>14, <1>15

LEMMA SideMirrors ==
    ASSUME MirrorInv, SideStep
    PROVE  MirrorInv'
<1>1. S' = S /\ T' = T /\ os_keys' = os_keys /\ forwarded' = forwarded /\ ctl'[TargetId] = ctl[TargetId]
  BY DEF SideStep
<1>2. OrderInv' /\ CountInv' /\ HeldInv'
  BY <1>1 DEF MirrorInv, OrderInv, Fresh, CountInv, HeldInv
<1>3. ASSUME NEW k
      PROVE  LastAhead(k)' <=> LastAhead(k)
  BY <1>1 DEF LastAhead, KeyFrame
<1>4. ASSUME NEW k
      PROVE  Shown(k)' <=> Shown(k)
  BY <1>1 DEF Shown, KeyFrame
<1>5. KeyInv'
  BY <1>1, <1>3, <1>4 DEF MirrorInv, KeyInv
<1>. QED
  BY <1>2, <1>5 DEF MirrorInv

\* The target's core lets input frame m through.
LetsThrough(c, m) == AcceptsCtr(c, m.epoch, m.ctr) /\ AuthorizeInject(c, m.epoch)

\* The keys that are down after event ev.
Pressed(keys, ev) ==
    IF ev.kind # "Key" THEN keys ELSE IF ev.down THEN keys \cup {ev.usage} ELSE keys \ {ev.usage}

\* What input does to the target's desktop: the rate cap sheds nothing but scrolls
\* and repeats of a key that is down there.
LEMMA InputEffect ==
    ASSUME TargetCore(T), HeldInv, NEW m \in Inputs, Deposits(OnInput(T, m))
    PROVE  LET k == OnInput(T, m).core IN
           /\ k.own = T.own
           /\ ~LetsThrough(T, m) => k.held_keys = T.held_keys /\ os_keys' = os_keys
           /\ LetsThrough(T, m) => /\ k.held_keys = Pressed(T.held_keys, m.event)
                                   /\ os_keys' = Pressed(os_keys, m.event)
<1>. DEFINE s == SeenCtr(T, m.epoch, m.ctr)
            t == SpendToken(Observed(s, m.event))
            e == [kind |-> m.event.kind, event |-> m.event, epoch |-> m.epoch, n |-> m.ctr]
            a == Inject(e)
            r == OnInput(T, m)
            shed == Sheddable(T, m.event) /\ T.tokens = 0
<1>1. T \in CoreState /\ m.epoch \in Epoch /\ m.ctr \in Nat /\ m.event \in Events
  BY DEF TargetCore, Inputs
<1>2. r = IF ~LetsThrough(T, m) THEN Nothing(s)
          ELSE Result(t, IF shed THEN <<>> ELSE <<a>>)
  BY DEF OnInput, LetsThrough
<1>3. s \in CoreState /\ s.own = T.own /\ s.held_keys = T.held_keys
  BY <1>1, SeenCtrGuard
<1>4. a.act = "Inject" /\ a.event = e /\ e.kind = m.event.kind /\ e.event = m.event
  BY Actions
<1>5. \A x, k : Nothing(x) = Result(x, <<>>) /\ Result(x, k).core = x /\ Result(x, k).acts = k
  BY DEF Nothing, Result
<1>. HIDE DEF s, e, a, shed
<1>6. /\ t.own = T.own /\ t.held_keys = Pressed(T.held_keys, m.event)
  <2>1. /\ t.own = s.own
        /\ m.event.kind # "Key" => t.held_keys = s.held_keys
        /\ m.event.kind = "Key" => t.held_keys = IF m.event.down THEN s.held_keys \cup {m.event.usage}
                                                 ELSE s.held_keys \ {m.event.usage}
    BY <1>1, <1>3, SpentCore
  <2>. HIDE DEF t
  <2>. QED
    BY <1>3, <2>1 DEF Pressed
<1>. HIDE DEF t, r
<1>7. Deposits(r)
  BY DEF r
<1>8. ASSUME r.acts = <<>>
      PROVE  os_keys' = os_keys
  <2>1. At(r, "Inject") = {}
    BY <1>8 DEF At
  <2>. QED
    BY <1>7, <2>1 DEF Deposits
<1>9. CASE ~LetsThrough(T, m)
  BY <1>2, <1>3, <1>5, <1>8, <1>9 DEF r
<1>10. CASE LetsThrough(T, m) /\ shed
  <2>1. r.core = t /\ os_keys' = os_keys
    BY <1>2, <1>5, <1>8, <1>10
  <2>2. os_keys = Pressed(os_keys, m.event)
    BY <1>10 DEF shed, Sheddable, IsRepeat, HeldInv, Pressed
  <2>. QED
    BY <1>6, <1>10, <2>1, <2>2 DEF r
<1>11. CASE LetsThrough(T, m) /\ ~shed
  <2>1. r.core = t /\ r.acts = <<a>>
    BY <1>2, <1>5, <1>11
  <2>2. At(r, "Inject") = {1}
    BY <1>4, <2>1 DEF At
  <2>3. Only(r, "Inject") = a
    BY <2>1, <2>2 DEF Only
  <2>4. Injected(e)
    BY <1>4, <1>7, <2>2, <2>3 DEF Deposits
  <2>5. os_keys' = CASE e.kind # "Key" -> os_keys
                     [] e.kind = "Key" /\ e.event.down -> os_keys \union {e.event.usage}
                     [] OTHER -> os_keys \ {e.event.usage}
    BY <2>4 DEF Injected
  <2>6. os_keys' = Pressed(os_keys, m.event)
    BY <1>4, <2>5 DEF Pressed
  <2>. QED
    BY <1>6, <1>11, <2>1, <2>6 DEF r
<1>. QED
  BY <1>9, <1>10, <1>11

\* Nothing but input touches the keys of the desktop.
LEMMA NoKeys ==
    ASSUME NEW m, m \notin Inputs, NEW r, TargetResult(T, S.own, m, r), Deposits(r)
    PROVE  os_keys' = os_keys
<1>1. CASE At(r, "Inject") = {}
  BY <1>1 DEF Deposits
<1>2. CASE At(r, "Inject") # {}
  <2>. DEFINE e == Only(r, "Inject").event
  <2>1. e \in Moved
    BY <1>2, OnlyIs DEF TargetResult
  <2>2. Injected(e)
    BY <1>2 DEF Deposits
  <2>. HIDE DEF e
  <2>3. e.kind # "Key"
    BY <2>1 DEF Moved
  <2>. QED
    BY <2>2, <2>3 DEF Injected
<1>. QED
  BY <1>1, <1>2

LEMMA TargetMirrors ==
    ASSUME SessionInv, SessionInv', TokenInv, MirrorInv, TargetStep
    PROVE  MirrorInv'
<1>1. PICK m, r, x :
         /\ TargetResult(T, S.own, m, r) /\ S' = S /\ T' = x.core /\ forwarded' = forwarded
         /\ TakenFrom(TargetId, m, Transfers \cup Inputs)
         /\ m \in Inputs => r = OnInput(T, m)
         /\ \/ x = r /\ Deposits(r)
            \/ TargetBlocked(T, m, x) /\ os_keys' = os_keys
  BY DEF TargetStep
<1>. DEFINE c == T
            k == x.core
            down == Queued(ctl[TargetId])
            down1 == Queued(ctl'[TargetId])
<1>2. /\ S' = S /\ T' = k /\ forwarded' = forwarded
  BY <1>1
<1>3. OrderInv /\ CountInv /\ HeldInv /\ KeyInv /\ TargetCore(T)
  BY DEF MirrorInv, SessionInv, CoresInv
<1>4. /\ \A y \in down1 : y \in down
      /\ \A y \in down : y = m \/ y \in down1
      /\ m \in Transfers \cup Inputs => m \in down
      /\ \A y \in down : y \in Told(S.own)
  <2>1. ctl[TargetId] \in Seq(Told(S.own)) /\ \A y \in down : y \in Told(S.own)
    BY OnTheWire
  <2>2. TakenFrom(TargetId, m, Transfers \cup Inputs)
    BY <1>1
  <2>. QED
    BY <2>1, <2>2, Kept
<1>5. Sorted(ctl'[TargetId]) /\ (m \in Inputs => \A y \in down1 : InTurn(m, y))
  <2>1. ctl[TargetId] \in Seq(Told(S.own)) /\ Sorted(ctl[TargetId])
    BY <1>3, OnTheWire DEF OrderInv
  <2>2. CASE ctl'[TargetId] = ctl[TargetId] /\ m \notin Transfers \cup Inputs
    BY <2>1, <2>2
  <2>3. CASE ctl[TargetId] # <<>> /\ m = Head(ctl[TargetId]) /\ ctl'[TargetId] = Tail(ctl[TargetId])
    BY <2>1, <2>3, SortedTail
  <2>. QED
    BY <1>1, <2>2, <2>3 DEF TakenFrom
<1>6. /\ S.own.epoch \in Nat /\ c.own.epoch \in Nat /\ k.own.epoch \in Nat /\ S.out_ctr \in Nat
      /\ c.guard.last_ctr \in Nat /\ k.guard.last_ctr \in Nat /\ k.guard.epoch \in Nat
  <2>1. T' \in CoreState
    BY DEF SessionInv, CoresInv, TargetCore
  <2>2. k.own.epoch \in Nat /\ k.guard.last_ctr \in Nat /\ k.guard.epoch \in Nat
    BY <1>2, <2>1, Numbers DEF CoreState, View, Guard
  <2>. QED
    BY <2>2, Counted
<1>7. \A y \in Inputs : y.epoch \in Nat /\ y.ctr \in Nat /\ y.event \in Events /\ y \notin Transfers
  BY Counted
<1>8. k.guard.epoch = k.own.epoch =>
         \/ k.guard.last_ctr = 0
         \/ k.own = c.own /\ c.guard.epoch = c.own.epoch /\ k.guard.last_ctr = c.guard.last_ctr
         \/ k.own = c.own /\ m \in Inputs /\ m.epoch = c.own.epoch /\ k.guard.last_ctr = m.ctr
  <2>1. CASE x = r
    BY <1>1, <2>1 DEF TargetResult, Heard, GuardHeard
  <2>2. CASE TargetBlocked(T, m, x)
    BY <2>2 DEF TargetBlocked, NoGuard
  <2>. QED
    BY <1>1, <2>1, <2>2
<1>9. \A y \in down : y \in Inputs =>
         /\ y.ctr # 0 /\ y.epoch <= S.own.epoch
         /\ y.epoch = S.own.epoch => S.own.owner = TargetId /\ y.ctr <= S.out_ctr
         /\ y.epoch = c.own.epoch /\ c.guard.epoch = c.own.epoch => y.ctr > c.guard.last_ctr
  BY <1>3 DEF OrderInv, Fresh
<1>10. OrderInv'
  <2>1. ASSUME NEW y \in down1, y \in Inputs, y.epoch = k.own.epoch, k.guard.epoch = k.own.epoch
        PROVE  y.ctr > k.guard.last_ctr
    <3>1. y \in down /\ y.ctr \in Nat /\ y.ctr # 0
      BY <1>4, <1>7, <1>9, <2>1
    <3>2. CASE k.guard.last_ctr = 0
      BY <3>1, <3>2
    <3>3. CASE k.own = c.own /\ c.guard.epoch = c.own.epoch /\ k.guard.last_ctr = c.guard.last_ctr
      BY <1>9, <2>1, <3>1, <3>3
    <3>4. CASE k.own = c.own /\ m \in Inputs /\ m.epoch = c.own.epoch /\ k.guard.last_ctr = m.ctr
      <4>1. m.ctr < y.ctr /\ m.ctr \in Nat
        BY <1>5, <1>7, <2>1, <3>4 DEF InTurn
      <4>. QED
        BY <3>1, <3>4, <4>1
    <3>. QED
      BY <1>8, <2>1, <3>2, <3>3, <3>4
  <2>2. ASSUME NEW y \in down1, y \in Inputs
        PROVE  Fresh(y)'
    <3>1. /\ y.ctr # 0 /\ y.epoch <= S.own.epoch
          /\ y.epoch = S.own.epoch => S.own.owner = TargetId /\ y.ctr <= S.out_ctr
      BY <1>4, <1>9, <2>2
    <3>. QED
      BY <1>2, <2>1, <2>2, <3>1 DEF Fresh
  <2>. QED
    BY <1>5, <2>2 DEF OrderInv
<1>11. CountInv'
  <2>. SUFFICES ASSUME k.guard.epoch = k.own.epoch
                PROVE  /\ k.own.epoch = S.own.epoch => k.guard.last_ctr <= S.out_ctr
                       /\ k.own.epoch > S.own.epoch => k.guard.last_ctr = 0
    BY <1>2 DEF CountInv
  <2>1. CASE k.guard.last_ctr = 0
    BY <1>6, <2>1
  <2>2. CASE k.own = c.own /\ c.guard.epoch = c.own.epoch /\ k.guard.last_ctr = c.guard.last_ctr
    BY <1>3, <2>2 DEF CountInv
  <2>3. CASE k.own = c.own /\ m \in Inputs /\ m.epoch = c.own.epoch /\ k.guard.last_ctr = m.ctr
    BY <1>4, <1>6, <1>9, <2>3
  <2>. QED
    BY <1>8, <2>1, <2>2, <2>3
<1>12. ASSUME x = r, Deposits(r), m \in Inputs
       PROVE  /\ k.own = c.own
              /\ ~LetsThrough(c, m) => k.held_keys = c.held_keys /\ os_keys' = os_keys
              /\ LetsThrough(c, m) => /\ k.held_keys = Pressed(c.held_keys, m.event)
                                      /\ os_keys' = Pressed(os_keys, m.event)
  BY <1>1, <1>3, <1>12, InputEffect
<1>13. ASSUME x = r, Deposits(r), m \notin Inputs
       PROVE  k.held_keys \subseteq c.held_keys /\ os_keys' = os_keys
  <2>1. os_keys' = os_keys
    BY <1>1, <1>13, NoKeys
  <2>. QED
    BY <1>1, <1>13, <2>1 DEF TargetResult, Heard
<1>14. HeldInv'
  <2>1. c.held_keys \subseteq os_keys
    BY <1>3 DEF HeldInv
  <2>2. CASE x = r /\ Deposits(r) /\ m \in Inputs
    <3>1. Pressed(c.held_keys, m.event) \subseteq Pressed(os_keys, m.event)
      BY <2>1 DEF Pressed
    <3>2. k.held_keys \subseteq os_keys'
      BY <1>12, <2>1, <2>2, <3>1
    <3>. QED
      BY <1>2, <3>2 DEF HeldInv
  <2>3. CASE x = r /\ Deposits(r) /\ m \notin Inputs
    BY <1>2, <1>13, <2>1, <2>3 DEF HeldInv
  <2>4. CASE TargetBlocked(T, m, x) /\ os_keys' = os_keys
    BY <1>2, <2>4 DEF HeldInv, TargetBlocked
  <2>. QED
    BY <1>1, <2>2, <2>3, <2>4
<1>15. ASSUME k.input_allowed, NEW n \in Key, forwarded[n] # "none"
       PROVE  (LastAhead(n) \/ Shown(n))'
  <2>1. x = r /\ Deposits(r) /\ c.input_allowed
    BY <1>1, <1>15 DEF TargetBlocked, TargetResult
  <2>2. LastAhead(n) \/ Shown(n)
    BY <1>3, <1>15, <2>1 DEF KeyInv
  <2>3. \A y : KeyFrame(y, n)' <=> KeyFrame(y, n)
    BY <1>2 DEF KeyFrame
  <2>4. CASE LastAhead(n)
    <3>1. PICK w \in down : /\ KeyFrame(w, n) /\ (w.event.down <=> forwarded[n] = "down")
                            /\ \A y \in down : KeyFrame(y, n) => y.ctr <= w.ctr
      BY <2>4 DEF LastAhead
    <3>2. CASE w \in down1
      BY <1>2, <1>4, <2>3, <3>1, <3>2 DEF LastAhead
    <3>3. CASE w \notin down1
      <4>1. w = m /\ m \in Inputs /\ m \in down /\ m.epoch = S.own.epoch /\ m.event.kind = "Key" /\ m.event.usage = n
        BY <1>4, <3>1, <3>3 DEF KeyFrame
      <4>2. \A y \in down1 : InTurn(m, y)
        BY <1>5, <4>1
      <4>3. \A y \in down1 : ~KeyFrame(y, n)
        <5>. SUFFICES ASSUME NEW y \in down1, KeyFrame(y, n)
                      PROVE  FALSE
          OBVIOUS
        <5>1. y \in Inputs /\ y.epoch = m.epoch
          BY <4>1 DEF KeyFrame
        <5>2. m.ctr < y.ctr /\ m.ctr \in Nat /\ y.ctr \in Nat
          BY <1>7, <4>1, <4>2, <5>1 DEF InTurn
        <5>3. y.ctr <= m.ctr
          BY <1>4, <3>1, <4>1
        <5>. QED
          BY <5>2, <5>3
      <4>4. c.own.epoch = S.own.epoch
        <5>. SUFFICES ASSUME S.own.epoch > c.own.epoch
                      PROVE  FALSE
          BY <1>6, <2>1 DEF TokenInv
        <5>1. PICK y \in down : y \in Transfers /\ y.epoch = S.own.epoch
          BY <2>1 DEF TokenInv
        <5>2. y \in down1
          BY <1>4, <1>7, <4>1, <5>1
        <5>. QED
          BY <4>1, <4>2, <5>1, <5>2 DEF InTurn
      <4>5. LetsThrough(c, m)
        <5>1. S.own.owner = TargetId /\ m.ctr # 0 /\ m.ctr \in Nat
              /\ (c.guard.epoch = c.own.epoch => m.ctr > c.guard.last_ctr)
          BY <1>7, <1>9, <4>1, <4>4
        <5>2. c.own.epoch # 0
          BY <4>4, <5>1 DEF SessionInv, CoresInv, SourceCore
        <5>3. c.own.owner = TargetId
          BY <2>1, <4>4, <5>1, <5>2 DEF SessionInv, FollowInv, Follows
        <5>4. c.accepted_epoch = c.own.epoch /\ c.own.me = TargetId
          BY <1>3, <2>1, <5>2, <5>3 DEF TargetCore
        <5>5. AuthorizeInject(c, m.epoch)
          BY <2>1, <4>1, <4>4, <5>2, <5>3, <5>4 DEF AuthorizeInject, AllowsEpoch, Owns, IsOwner
        <5>6. GuardFor(c, m.epoch).last_ctr = IF c.guard.epoch = m.epoch THEN c.guard.last_ctr ELSE 0
          BY DEF GuardFor, NoGuard
        <5>7. AcceptsCtr(c, m.epoch, m.ctr)
          BY <4>1, <4>4, <5>1, <5>6 DEF AcceptsCtr
        <5>. QED
          BY <5>5, <5>7 DEF LetsThrough
      <4>6. k.own = c.own /\ os_keys' = Pressed(os_keys, m.event)
        BY <1>12, <2>1, <4>1, <4>5
      <4>7. forwarded[n] = "down" <=> n \in os_keys'
        BY <3>1, <4>1, <4>6 DEF Pressed
      <4>. QED
        BY <1>2, <2>3, <4>3, <4>4, <4>6, <4>7 DEF Shown
    <3>. QED
      BY <3>2, <3>3
  <2>5. CASE Shown(n)
    <3>1. c.own.epoch = S.own.epoch /\ (\A y \in down : ~KeyFrame(y, n)) /\ (forwarded[n] = "down" <=> n \in os_keys)
      BY <2>5 DEF Shown
    <3>2. k.own.epoch = c.own.epoch
      <4>1. m \in Transfers => m.epoch <= S.own.epoch /\ m.epoch \in Nat
        BY <1>4, Claimed
      <4>2. Stayed(T, m, x) \/ Adopted(T, m, x)
        BY <1>1, <2>1 DEF TargetResult, Heard
      <4>3. CASE Stayed(T, m, x)
        BY <4>3 DEF Stayed
      <4>4. CASE Adopted(T, m, x)
        <5>1. m \in Transfers /\ m.epoch > T.own.epoch
          BY <4>4 DEF Adopted
        <5>. QED
          BY <1>6, <3>1, <4>1, <5>1
      <4>. QED
        BY <4>2, <4>3, <4>4
    <3>3. n \in os_keys' <=> n \in os_keys
      <4>1. CASE m \notin Inputs
        BY <1>13, <2>1, <4>1
      <4>2. CASE m \in Inputs /\ ~LetsThrough(c, m)
        BY <1>12, <2>1, <4>2
      <4>3. CASE m \in Inputs /\ LetsThrough(c, m)
        <5>1. m.epoch = S.own.epoch
          BY <3>1, <4>3 DEF LetsThrough, AcceptsCtr
        <5>2. ~(m.event.kind = "Key" /\ m.event.usage = n)
          BY <1>4, <3>1, <4>3, <5>1 DEF KeyFrame
        <5>3. os_keys' = Pressed(os_keys, m.event)
          BY <1>12, <2>1, <4>3
        <5>. QED
          BY <5>2, <5>3 DEF Pressed
      <4>. QED
        BY <4>1, <4>2, <4>3
    <3>. QED
      BY <1>2, <1>4, <2>3, <3>1, <3>2, <3>3 DEF Shown
  <2>. QED
    BY <2>2, <2>4, <2>5
<1>16. KeyInv'
  BY <1>2, <1>3, <1>15 DEF KeyInv
<1>. QED
  BY <1>10, <1>11, <1>14, <1>16 DEF MirrorInv

LEMMA MirrorInvariant == Spec => [](SessionInv /\ TokenInv /\ MirrorInv)
<1>1. Init => MirrorInv
  <2>. SUFFICES ASSUME Init PROVE MirrorInv
    OBVIOUS
  <2>1. /\ S = NewCore(SourceId) /\ T = NewCore(TargetId) /\ ctl[TargetId] = <<>>
        /\ forwarded = NoTransitions
    BY Ids DEF Init, S, T
  <2>2. \A d \in Device : /\ NewCore(d).out_ctr = 0 /\ NewCore(d).guard = NoGuard /\ NewCore(d).held_keys = {}
                          /\ NewCore(d).own = NewOwnership(d)
    BY DEF NewCore
  <2>3. \A d \in Device : NewOwnership(d).epoch = 0
    BY DEF NewOwnership
  <2>. HIDE DEF NewOwnership, NewCore
  <2>4. S.own.epoch = 0 /\ T.own.epoch = 0 /\ T.guard.last_ctr = 0 /\ S.out_ctr = 0 /\ T.held_keys = {}
    BY <2>1, <2>2, <2>3, Ids DEF NoGuard
  <2>5. OrderInv
    BY <2>1 DEF OrderInv, Sorted, Queued
  <2>6. CountInv /\ HeldInv
    BY <2>4 DEF CountInv, HeldInv
  <2>7. KeyInv
    BY <2>1 DEF KeyInv, NoTransitions
  <2>. QED
    BY <2>5, <2>6, <2>7 DEF MirrorInv
<1>2. SessionInv /\ TokenInv /\ HandInv /\ MirrorInv /\ [Next]_vars => SessionInv' /\ MirrorInv'
  BY SessionNext, SourceMirrors, TargetMirrors, SideMirrors
<1>. QED
  BY HandoffInvariant, <1>1, <1>2, PTL DEF Spec

-----------------------------------------------------------------------------
(* The theorems                                                            *)

\* The target never drives an epoch the source has not given away, whatever is
\* on the wire and whatever either platform refuses (authorize_inject in
\* mouser-engine/src/core/wire.rs against the source's ownership token).
THEOREM OneDriver == Spec => []NoTwoDrivers
<1>1. SessionInv => NoTwoDrivers
  <2>. SUFFICES ASSUME SessionInv, AuthorizeInject(T, T.own.epoch)
                PROVE  S.own.epoch > T.own.epoch \/ (S.own.epoch = T.own.epoch /\ S.own.owner = TargetId)
    BY DEF NoTwoDrivers
  <2>1. /\ T.input_allowed /\ T.own.epoch # 0 /\ T.own.owner = TargetId
    BY DEF AuthorizeInject, AllowsEpoch, Owns, IsOwner, SessionInv, CoresInv, TargetCore
  <2>2. S.own.epoch \in Nat /\ T.own.epoch \in Nat
    BY Numbers DEF SessionInv, CoresInv, SourceCore, TargetCore, CoreState, View
  <2>3. Follows(S.own, T.own)
    BY <2>1 DEF SessionInv, FollowInv
  <2>. QED
    BY <2>1, <2>2, <2>3 DEF Follows
<1>. QED
  BY SessionInvariant, <1>1, PTL

\* Lost, repeated and reordered motion, and input of every earlier epoch, is
\* never injected after something newer: the replay guard of
\* mouser-engine/src/core.rs is enough across every handoff.
THEOREM NoReplay == Spec => []FreshInjections
<1>1. SessionInv => FreshInjections
  BY DEF SessionInv, AppliedInv, FreshInjections
<1>. QED
  BY SessionInvariant, <1>1, PTL

\* Once suppression is known to be unavailable, no later step of either machine
\* gives input away (suppress_blocked in on_cursor, and every other handler that
\* moves the token).
THEOREM NoCrossingBack == Spec => NoCrossLoop
<1>1. SessionInv /\ [Next]_vars => [S.suppress_blocked /\ Owns(S) => Owns(S)']_vars
  BY SessionNext
<1>. QED
  BY SessionInvariant, <1>1, PTL DEF Spec, NoCrossLoop

\* Both cores stay well formed, and a grant that waits for its acknowledgement is
\* the one that stands.
THEOREM PendingStands == Spec => [](TypeOK /\ PendingIsCurrent)
BY SessionInvariant, WellFormed, PTL

\* With nothing on the wire the two machines agree who owns input and since which
\* epoch, and a pending grant stands: each claim of cross_to_peer, reclaim_local
\* and on_injection_failed is on its way, adopted by on_transfer, or refused with
\* an answer that brings input back (on_ownership_ack).
THEOREM HandoffAgrees == Spec => []HandoffIsCoherent
<1>1. SessionInv /\ TokenInv /\ HandInv => AgreeWhenQuiet
  <2>. SUFFICES ASSUME SessionInv, TokenInv, HandInv,
                       ctl[SourceId] = <<>>, ctl[TargetId] = <<>>, S.input_allowed, S.own.epoch + T.own.epoch > 0
                PROVE  S.own.owner = T.own.owner /\ S.own.epoch = T.own.epoch
    BY DEF AgreeWhenQuiet
  <2>1. Queued(ctl[SourceId]) = {} /\ Queued(ctl[TargetId]) = {}
    BY DEF Queued
  <2>2. /\ S.own.epoch \in Nat /\ T.own.epoch \in Nat
        /\ S.own.owner \in {SourceId, TargetId} /\ T.own.owner \in {SourceId, TargetId}
    BY OnTheWire
  <2>3. S.own.epoch = T.own.epoch
    <3>1. ~(S.own.epoch > T.own.epoch)
      BY <2>1 DEF HandInv, BehindInv
    <3>2. ~(T.own.epoch > S.own.epoch)
      BY <2>1, <2>2 DEF HandInv, TokenInv, BlockedInv
    <3>. QED
      BY <2>2, <3>1, <3>2
  <2>4. /\ S.own.owner = TargetId <=> Odd(S.own.epoch)
        /\ T.own.epoch # 0 => (T.own.owner = TargetId <=> Odd(T.own.epoch))
    BY DEF HandInv, TurnsInv
  <2>5. T.own.epoch # 0
    BY <2>2, <2>3
  <2>. QED
    BY <2>2, <2>3, <2>4, <2>5
<1>. QED
  BY HandoffInvariant, WellFormed, <1>1, PTL DEF HandoffIsCoherent

\* With no input on its way and the hand-off standing, each key the source
\* forwarded in its epoch is on the target's desktop as it was last left: the guard
\* lets every transition through in order, and the rate cap (on_key in
\* mouser-engine/src/core/wire.rs) sheds only repeats of a key that is down there.
THEOREM KeysFollow == Spec => []KeysMirrored
<1>1. SessionInv /\ MirrorInv => KeysMirrored
  <2>. SUFFICES ASSUME SessionInv, MirrorInv, AuthorizeInject(T, S.own.epoch), NEW k \in Key,
                       \A i \in DOMAIN ctl[TargetId] : ctl[TargetId][i].type # "Input"
                PROVE  /\ forwarded[k] = "down" => k \in os_keys
                       /\ forwarded[k] = "up" => k \notin os_keys
    BY DEF KeysMirrored
  <2>1. \A m \in Queued(ctl[TargetId]) : ~KeyFrame(m, k)
    BY Counted DEF Queued, KeyFrame
  <2>2. ~LastAhead(k)
    BY <2>1 DEF LastAhead
  <2>3. T.input_allowed
    BY DEF AuthorizeInject, AllowsEpoch
  <2>4. forwarded[k] # "none" => Shown(k)
    BY <2>2, <2>3 DEF MirrorInv, KeyInv
  <2>. QED
    BY <2>4 DEF Shown
<1>. QED
  BY MirrorInvariant, <1>1, PTL
=============================================================================
