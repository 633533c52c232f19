--------------------------- MODULE TransportProofs ---------------------------
(***************************************************************************)
(* Proofs about Transport, as part of ConnectionLife, for every set of     *)
(* scenes and every bound of the writer's channel.                         *)
(***************************************************************************)
EXTENDS ConnectionLife, TLAPS

-----------------------------------------------------------------------------
(* What the actions leave alone                                            *)

LEMMA ControlLeaves ==
    ASSUME NEW k, NEW e,
           \/ WriteOn(k, e) \/ WriteFails(k, e) \/ Sent(k, e) \/ Fill(k, e) \/ ReadFails(k, e)
           \/ LetGo(k, e) \/ RecvHello(k, e) \/ RecvAck(k, e)
           \/ Send(k, e) \/ Recv(k, e) \/ CancelRecv(k, e)
           \/ Connected(k) \/ ConsumePrime(k)
    PROVE  UNCHANGED besideLink
<1>1. WriteOn(k, e) => UNCHANGED besideLink
  BY Zenon DEF WriteOn
<1>2. WriteFails(k, e) => UNCHANGED besideLink
  BY Zenon DEF WriteFails
<1>3. Sent(k, e) => UNCHANGED besideLink
  BY Zenon DEF Sent
<1>4. Fill(k, e) => UNCHANGED besideLink
  BY Zenon DEF Fill
<1>5. ReadFails(k, e) => UNCHANGED besideLink
  BY Zenon DEF ReadFails
<1>6. LetGo(k, e) => UNCHANGED besideLink
  BY Zenon DEF LetGo
<1>7. RecvHello(k, e) => UNCHANGED besideLink
  BY Zenon DEF RecvHello
<1>8. RecvAck(k, e) => UNCHANGED besideLink
  BY Zenon DEF RecvAck
<1>9. Send(k, e) => UNCHANGED besideLink
  BY Zenon DEF Send
<1>10. Recv(k, e) => UNCHANGED besideLink
  BY Zenon DEF Recv
<1>11. CancelRecv(k, e) => UNCHANGED besideLink
  BY Zenon DEF CancelRecv
<1>12. Connected(k) => UNCHANGED besideLink
  BY Zenon DEF Connected
<1>13. ConsumePrime(k) => UNCHANGED besideLink
  BY Zenon DEF ConsumePrime
<1>. QED
  BY <1>1, <1>2, <1>3, <1>4, <1>5, <1>6, <1>7, <1>8, <1>9, <1>10, <1>11, <1>12, <1>13

-----------------------------------------------------------------------------
(* The motion pump                                                         *)

\* (Here and below a record with a flag is described field by field, without
\* saying of the flag that it is Boolean.)
MotionType(m) ==
    /\ DOMAIN m = {"n", "slot", "changed", "pump", "hand", "plane", "handed", "large"}
    /\ {m.n, m.slot, m.hand, m.handed} \subseteq Nat
    /\ m.pump \in {"wait", "sending", "ended"}
    /\ m.plane \in {"Datagram", "ControlFallback"}

\* A running pump has the newest sample in its slot, and if the slot is marked
\* seen, in its hand or behind it.
MotionInv ==
    /\ MotionType(motion)
    /\ motion.plane = "ControlFallback" => motion.pump = "ended"
    /\ motion.pump # "ended" => motion.slot = motion.n
    /\ motion.pump = "sending" /\ ~motion.changed => motion.hand = motion.n
    /\ NewestMotionLeaves

LEMMA FreshMotionHolds ==
    ASSUME motion' = FreshMotion
    PROVE  MotionInv'
BY DEF MotionInv, MotionType, FreshMotion, NewestMotionLeaves

LEMMA MotionStep ==
    ASSUME MotionInv, [LinkNext]_linkVars
    PROVE  MotionInv'
<1>1. CASE UNCHANGED motion
  BY <1>1 DEF MotionInv, NewestMotionLeaves
<1>2. CASE motion' = FreshMotion
  BY <1>2, FreshMotionHolds
<1>3. CASE SendMotion
  <2>1. \/ /\ motion.plane = "Datagram"
           /\ motion' = [motion EXCEPT !.n = motion.n + 1, !.slot = motion.n + 1, !.changed = TRUE]
        \/ /\ motion.plane = "ControlFallback"
           /\ motion' = [motion EXCEPT !.n = motion.n + 1]
    BY <1>3 DEF SendMotion
  <2>2. CASE motion.plane = "Datagram"
    <3>1. /\ DOMAIN motion' = DOMAIN motion /\ motion'.changed
          /\ motion'.n = motion.n + 1 /\ motion'.slot = motion.n + 1
          /\ motion'.pump = motion.pump /\ motion'.plane = motion.plane
          /\ motion'.hand = motion.hand /\ motion'.handed = motion.handed
      BY <2>1, <2>2 DEF MotionInv, MotionType
    <3>. QED
      BY <2>2, <3>1 DEF MotionInv, MotionType, NewestMotionLeaves
  <2>3. CASE motion.plane = "ControlFallback"
    BY <2>1, <2>3 DEF MotionInv, MotionType, NewestMotionLeaves
  <2>. QED
    BY <2>1, <2>2, <2>3
<1>4. CASE PumpTakes
  BY <1>4 DEF PumpTakes, PumpTake, MotionInv, MotionType, NewestMotionLeaves
<1>5. CASE PumpSends
  <2>1. PICK result \in SendResult :
           LET m == React(motion, Classify(result)) IN
           motion' = CASE result = "ok" -> [m EXCEPT !.handed = motion.hand]
                       [] result = "TooLarge" -> [m EXCEPT !.large = @ \cup {motion.hand}]
                       [] OTHER -> m
    BY <1>5 DEF PumpSends
  <2>2. motion.pump = "sending" /\ result \in {"ok", "TooLarge", "UnsupportedByPeer", "ConnectionLost"}
    BY <1>5 DEF PumpSends, SendResult
  <2>3. CASE result = "ok"
    BY <2>1, <2>2, <2>3, ZenonT(30) DEF React, Classify, MotionInv, MotionType, NewestMotionLeaves
  <2>4. CASE result = "TooLarge"
    BY <2>1, <2>2, <2>4 DEF React, Classify, MotionInv, MotionType, NewestMotionLeaves
  <2>5. CASE result = "UnsupportedByPeer"
    BY <2>1, <2>2, <2>5 DEF React, Classify, MotionInv, MotionType, NewestMotionLeaves
  <2>6. CASE result = "ConnectionLost"
    BY <2>1, <2>2, <2>6 DEF React, Classify, MotionInv, MotionType, NewestMotionLeaves
  <2>. QED
    BY <2>2, <2>3, <2>4, <2>5, <2>6
<1>6. ASSUME NEW k, NEW e,
             \/ WriteOn(k, e) \/ WriteFails(k, e) \/ Sent(k, e) \/ Fill(k, e) \/ ReadFails(k, e)
             \/ LetGo(k, e) \/ RecvHello(k, e) \/ RecvAck(k, e)
             \/ Send(k, e) \/ Recv(k, e) \/ CancelRecv(k, e)
             \/ Connected(k) \/ ConsumePrime(k)
      PROVE  UNCHANGED motion
  BY <1>6, ControlLeaves DEF besideLink
<1>7. StartDial \/ DialFails \/ DialTimeout \/ AcceptFails \/ BeginSession \/ WithdrawSession
      => UNCHANGED motion
  BY Zenon DEF StartDial, DialFails, DialTimeout, AcceptFails, BeginSession, WithdrawSession
<1>8. (\E e \in End : CloseSession(e)) \/ DialDone => motion' = FreshMotion \/ UNCHANGED motion
  BY Zenon DEF CloseSession, DialDone
<1>9. (\E k \in Attempt : AcceptIncoming(k) \/ PathLost(k)) => UNCHANGED motion
  BY Zenon DEF AcceptIncoming, PathLost
<1>10. AcceptorLooks \/ AcceptorInterrupted \/ BindBulk \/ AcceptorWakes \/ HandleBulk
       \/ (\E b \in BulkDial : DialBulk(b) \/ BulkDialTimeout(b) \/ AcceptBulk(b))
       => UNCHANGED motion
  BY Zenon DEF AcceptorLooks, AcceptorInterrupted, BindBulk, AcceptorWakes, HandleBulk,
               DialBulk, BulkDialTimeout, AcceptBulk, besideBulk
<1>11. UNCHANGED linkVars => UNCHANGED motion
  BY Zenon DEF linkVars
<1>. QED
  BY <1>1, <1>2, <1>3, <1>4, <1>5, <1>6, <1>7, <1>8, <1>9, <1>10, <1>11 DEF LinkNext

-----------------------------------------------------------------------------
(* Bulk connections                                                        *)

BulkState ==
    [stage: {"none", "dialing", "binding", "served", "failed"}, session: Nat, under: Nat]

AcceptorType(a) ==
    /\ DOMAIN a = {"state", "session", "changed", "at"}
    /\ a.state \in {"look", "accept", "bind", "handle", "sleep"}
    /\ {a.session, a.at} \subseteq Nat

\* The connection the acceptor works on is its own until it is served or failed,
\* and named the session the acceptor expects once the Hello is verified.
BulkInv ==
    /\ scene.bulks \in Nat /\ active \in Nat
    /\ bulk \in [1 .. scene.bulks -> BulkState]
    /\ AcceptorType(acceptor)
    /\ acceptor.state \in {"bind", "handle"} =>
           acceptor.at \in BulkDial /\ bulk[acceptor.at].stage = "binding"
    /\ acceptor.state = "handle" => bulk[acceptor.at].session = acceptor.session
    /\ BulkIsBound

LEMMA BulkStep ==
    ASSUME BulkInv, dial.at \in Nat, serving.at \in Nat, [LinkNext]_linkVars
    PROVE  BulkInv'
<1>. USE DEF BulkInv, BulkState, AcceptorType, BulkIsBound, BulkDial
<1>1. CASE UNCHANGED <<scene, bulk, acceptor, active>>
  BY <1>1
<1>2. CASE BeginSession
  BY <1>2 DEF BeginSession
<1>10. CASE WithdrawSession
  BY <1>10 DEF WithdrawSession
<1>3. ASSUME NEW b \in BulkDial, DialBulk(b)
      PROVE  BulkInv'
  BY <1>3 DEF DialBulk
<1>4. ASSUME NEW b \in BulkDial, BulkDialTimeout(b)
      PROVE  BulkInv'
  BY <1>4 DEF BulkDialTimeout
<1>5. ASSUME NEW b \in BulkDial, AcceptBulk(b)
      PROVE  BulkInv'
  BY <1>5 DEF AcceptBulk, besideBulk
<1>6. CASE AcceptorLooks \/ AcceptorWakes
  BY <1>6, SMTT(30) DEF AcceptorLooks, AcceptorWakes
<1>7. CASE AcceptorInterrupted
  BY <1>7, SMTT(30) DEF AcceptorInterrupted, besideBulk
<1>8. CASE BindBulk
  <2>1. CASE /\ VerifyBulkHello(acceptor.at)
             /\ acceptor' = [acceptor EXCEPT !.state = "handle"]
             /\ UNCHANGED bulk
    BY <1>8, <2>1 DEF BindBulk, besideBulk, VerifyBulkHello
  <2>2. CASE /\ acceptor' = [acceptor EXCEPT !.state = "sleep"]
             /\ bulk' = [bulk EXCEPT ![acceptor.at].stage = "failed"]
    BY <1>8, <2>2 DEF BindBulk, besideBulk
  <2>. QED
    BY <1>8, <2>1, <2>2 DEF BindBulk
<1>9. CASE HandleBulk
  BY <1>9 DEF HandleBulk, besideBulk, StillActive
<1>. HIDE DEF BulkInv
<1>11. ASSUME NEW k, NEW e,
             \/ WriteOn(k, e) \/ WriteFails(k, e) \/ Sent(k, e) \/ Fill(k, e) \/ ReadFails(k, e)
             \/ LetGo(k, e) \/ RecvHello(k, e) \/ RecvAck(k, e)
             \/ Send(k, e) \/ Recv(k, e) \/ CancelRecv(k, e)
             \/ Connected(k) \/ ConsumePrime(k)
      PROVE  UNCHANGED <<scene, bulk, acceptor, active>>
  BY <1>11, ControlLeaves DEF besideLink
<1>12. StartDial \/ DialFails \/ DialTimeout \/ DialDone \/ AcceptFails
       => UNCHANGED <<scene, bulk, acceptor, active>>
  BY Zenon DEF StartDial, DialFails, DialTimeout, DialDone, AcceptFails
<1>13. (\E e \in End : CloseSession(e)) \/ (\E k \in Attempt : AcceptIncoming(k) \/ PathLost(k))
       => UNCHANGED <<scene, bulk, acceptor, active>>
  BY Zenon DEF CloseSession, AcceptIncoming, PathLost
<1>14. SendMotion \/ PumpTakes \/ PumpSends => UNCHANGED <<scene, bulk, acceptor, active>>
  BY Zenon DEF SendMotion, PumpTakes, PumpSends
<1>15. UNCHANGED linkVars => UNCHANGED <<scene, bulk, acceptor, active>>
  BY Zenon DEF linkVars
<1>. QED
  BY <1>1, <1>2, <1>3, <1>4, <1>5, <1>6, <1>7, <1>8, <1>9, <1>10, <1>11, <1>12, <1>13, <1>14,
     <1>15 DEF LinkNext

-----------------------------------------------------------------------------
(* The streams of a connection                                             *)
(*                                                                         *)
(* The pieces one end writes to the other are numbered: 0 is the prime, 1  *)
(* the Hello, 2 the HelloAck, and 2n + 1 and 2n + 2 the two parts of the   *)
(* n-th frame of the session.                                              *)

SessionFrame == {Data(n) : n \in Nat} \cup {[type |-> "motion", n |-> n] : n \in Nat}
Frame ==
    {Prime, Garbage} \cup {Hello(k, e) : k \in Nat, e \in End}
    \cup {HelloAck(s) : s \in {"Accepted", "Rejected"}} \cup SessionFrame
Piece == {Part(f, n) : f \in Frame, n \in {1, 2}}

Stage == {"none", "connecting", "up", "dropped", "gone"} \cup Establishing

Flag == BOOLEAN
PeerId == {<<>>} \cup (Nat \X End)
EndState ==
    [stage: Stage, queue: Seq(Frame), written: {0, 1}, wire: Seq(Piece), buf: Seq(Piece), closed: Flag,
     peer: PeerId, sent: Seq(SessionFrame), got: Seq(Frame)]

Live(r) == r.stage \notin {"dropped", "gone"}

\* The pieces that have arrived at an end and are not consumed.
Arrived(r) == Len(r.buf) + Len(r.wire)
Nth(r, i) == IF i <= Len(r.buf) THEN r.buf[i] ELSE r.wire[i - Len(r.buf)]

\* The number of the piece end e consumes next.
Expects(e, r) ==
    CASE r.stage \in {"none", "connecting", "prime"} -> IF e = "acceptor" THEN 0 ELSE 1
      [] r.stage \in {"hello_out", "hello_in"} -> 1
      [] r.stage \in {"ack_out", "ack_in", "reject_out"} -> 2
      [] OTHER -> 3 + 2 * Len(r.got)

\* The number of the piece end e queues next.
Emits(e, r) ==
    CASE r.stage \in {"none", "connecting", "prime"} -> IF e = "acceptor" THEN 1 ELSE 0
      [] r.stage \in {"hello_out", "hello_in"} -> 2
      [] OTHER -> 3 + 2 * Len(r.sent)

\* x may be piece p of what end o, in state s, writes on connection k.
IsPiece(k, o, s, p, x) ==
    /\ p = 0 => x = Part(Prime, 1)
    /\ p = 1 => x = Part(Hello(k, o), 1)
    /\ p = 2 => \E st \in {"Accepted", "Rejected"} :
                   /\ x = Part(HelloAck(st), 1)
                   /\ st = "Accepted" => s.peer = <<k, Other(o)>>
    /\ \A n \in Nat \ {0}, q \in {1, 2} :
           p = 2 * n + q => n <= Len(s.sent) /\ x = Part(s.sent[n], q)

\* What an end has in its queue: one frame of the handshake, or the newest
\* frames of the session, the first of them partly written.
QueueOK(s) ==
    /\ s.stage \in {"none", "connecting", "prime", "hello_in", "ack_in", "gone"} => s.queue = <<>>
    /\ s.stage # "up" =>
           /\ Len(s.queue) <= 1 /\ s.written = 0
           /\ \A j \in 1 .. Len(s.queue) : Size(s.queue[j]) = 1
    /\ s.stage \notin {"up", "gone"} => s.sent = <<>>
    /\ s.stage = "up" =>
           /\ Len(s.queue) <= Len(s.sent)
           /\ \A j \in 1 .. Len(s.queue) : s.queue[j] = s.sent[Len(s.sent) - Len(s.queue) + j]
    /\ s.queue = <<>> => s.written = 0

\* What has arrived at e is numbered from what it expects.
ArrivedOK(k, e, r, s) ==
    Live(r) => \A i \in 1 .. Arrived(r) : IsPiece(k, Other(e), s, Expects(e, r) + i - 1, Nth(r, i))

\* The next piece end o writes is the one after what has arrived at e.
WriterOK(k, e, r, s) ==
    (Live(r) /\ ~r.closed) =>
        LET next == Expects(e, r) + Arrived(r) IN
        /\ s.stage = "up" => next = 2 * (Len(s.sent) - Len(s.queue)) + 3 + s.written
        /\ s.stage # "up" /\ s.queue # <<>> => IsPiece(k, Other(e), s, next, Part(s.queue[1], 1))
        /\ s.stage # "up" /\ Live(s) => next + Len(s.queue) = Emits(Other(e), s)

PeerOK(k, e, r, s) ==
    /\ r.stage \in {"ack_out", "ack_in", "up"} => r.peer = <<k, Other(e)>>
    /\ r.stage = "up" => s.peer = <<k, e>>

GotOK(r, s) ==
    /\ Live(r) /\ r.stage # "up" => r.got = <<>>
    /\ Len(r.got) <= Len(s.sent)
    /\ \A i \in 1 .. Len(r.got) : r.got[i] = s.sent[i]

\* End e of connection k, in state r, against the other end in state s.
EndOK(k, e, r, s) ==
    /\ r \in EndState /\ QueueOK(r)
    /\ ArrivedOK(k, e, r, s) /\ WriterOK(k, e, r, s) /\ PeerOK(k, e, r, s) /\ GotOK(r, s)
    /\ r.closed /\ ~s.closed => s.stage = "gone"
    /\ r.stage \in {"none", "connecting", "prime"} => r.buf = <<>>
    /\ e = "initiator" => r.stage # "prime"
    /\ e = "acceptor" => r.stage # "connecting"

\* t differs from r at most in the fields fs.
Apart(fs, r, t) == DOMAIN t = DOMAIN r /\ \A f \in DOMAIN r \ fs : t[f] = r[f]

Pair(k, e, r, s) == EndOK(k, e, r, s) /\ EndOK(k, Other(e), s, r)

StreamInv ==
    /\ DOMAIN link = 1 .. Len(scene.candidates)
    /\ \A k \in Attempt, e \in End :
           DOMAIN link[k] = End /\ EndOK(k, e, link[k][e], link[k][Other(e)])

DialInv ==
    /\ scene.candidates \in Seq({"dead", "other", "peer"})
    /\ DOMAIN dial = {"at", "errors", "state"} /\ dial.at \in 0 .. Len(scene.candidates)
    /\ dial.state # "idle" => dial.at > 0
    /\ DOMAIN serving = {"state", "at"} /\ serving.at \in 0 .. Len(scene.candidates)
    /\ serving.state # "listen" => serving.at > 0
    /\ \A k \in Attempt : k > dial.at => link[k]["initiator"].stage = "none"

LEMMA OtherEnd ==
    /\ Other("initiator") = "acceptor" /\ Other("acceptor") = "initiator"
    /\ \A e \in End : Other(e) \in End /\ Other(e) # e /\ Other(Other(e)) = e
<1>1. Other("initiator") = "acceptor"
  BY DEF Other, End
<1>2. Other("acceptor") = "initiator"
  BY DEF Other, End
<1>. QED
  BY <1>1, <1>2 DEF End

LEMMA Frames ==
    /\ Prime \in Frame /\ \A s \in {"Accepted", "Rejected"} : HelloAck(s) \in Frame
    /\ \A k \in Nat, e \in End : Hello(k, e) \in Frame
    /\ \A f \in SessionFrame : f \in Frame /\ Size(f) = 2
    /\ \A n \in Nat : Data(n) \in SessionFrame /\ [type |-> "motion", n |-> n] \in SessionFrame
    /\ \A f \in Frame : Size(f) \in {1, 2} /\ Part(f, 1) \in Piece /\ Part(f, 2) \in Piece
<1>1. Prime \in Frame /\ \A s \in {"Accepted", "Rejected"} : HelloAck(s) \in Frame
  BY DEF Frame
<1>2. \A k \in Nat, e \in End : Hello(k, e) \in Frame
  BY DEF Frame
<1>3. \A f \in SessionFrame : f \in Frame /\ Size(f) = 2
  BY DEF Frame, SessionFrame, Data, Size
<1>4. \A n \in Nat : Data(n) \in SessionFrame /\ [type |-> "motion", n |-> n] \in SessionFrame
  BY DEF SessionFrame
<1>5. \A f : Size(f) \in {1, 2}
  BY DEF Size
<1>6. \A f \in Frame : Part(f, 1) \in Piece /\ Part(f, 2) \in Piece
  BY DEF Piece
<1>. QED
  BY <1>1, <1>2, <1>3, <1>4, <1>5, <1>6

LEMMA Sizes ==
    /\ Size(Prime) = 1
    /\ \A k, e : Size(Hello(k, e)) = 1
    /\ \A s : Size(HelloAck(s)) = 1
BY DEF Prime, HelloAck, Hello, Size

\* A piece stays a piece when its writer sends more or verifies its peer.
LEMMA PieceKept ==
    ASSUME NEW k, NEW o, NEW s \in EndState, NEW t \in EndState, NEW p, NEW x,
           IsPiece(k, o, s, p, x),
           Len(s.sent) <= Len(t.sent), \A i \in 1 .. Len(s.sent) : t.sent[i] = s.sent[i],
           s.peer = <<k, Other(o)>> => t.peer = s.peer
    PROVE  IsPiece(k, o, t, p, x)
<1>1. p = 2 => \E st \in {"Accepted", "Rejected"} :
                  x = Part(HelloAck(st), 1) /\ (st = "Accepted" => t.peer = <<k, Other(o)>>)
  BY DEF IsPiece
<1>2. Len(s.sent) \in Nat /\ Len(t.sent) \in Nat
  BY DEF EndState
<1>3. ASSUME NEW n \in Nat \ {0}, NEW q \in {1, 2}, p = 2 * n + q
      PROVE  n <= Len(t.sent) /\ x = Part(t.sent[n], q)
  <2>1. n <= Len(s.sent) /\ x = Part(s.sent[n], q)
    BY <1>3 DEF IsPiece
  <2>2. t.sent[n] = s.sent[n]
    BY <1>2, <2>1
  <2>. QED
    BY <1>2, <2>1, <2>2
<1>. QED
  BY <1>1, <1>3 DEF IsPiece

\* An end is as good as before to the other when it has read or got something.
LEMMA SameWriter ==
    ASSUME NEW k, NEW o, NEW s, NEW r, NEW t, EndOK(k, o, s, r),
           t.stage = r.stage, t.queue = r.queue, t.written = r.written, t.sent = r.sent,
           t.peer = r.peer, t.closed = r.closed
    PROVE  EndOK(k, o, s, t)
<1>1. \A p, x : IsPiece(k, Other(o), t, p, x) = IsPiece(k, Other(o), r, p, x)
  BY DEF IsPiece
<1>2. Emits(Other(o), t) = Emits(Other(o), r) /\ (Live(t) <=> Live(r))
  BY DEF Emits, Live
<1>. QED
  BY <1>1, <1>2 DEF EndOK, ArrivedOK, WriterOK, PeerOK, GotOK

LEMMA QueueSame ==
    ASSUME NEW r, NEW t, QueueOK(r),
           t.stage = r.stage, t.queue = r.queue, t.written = r.written, t.sent = r.sent
    PROVE  QueueOK(t)
BY DEF QueueOK

LEMMA GotSame ==
    ASSUME NEW r, NEW t, NEW s, NEW u, GotOK(r, s), t.got = r.got, u.sent = s.sent,
           t.stage = r.stage \/ r.got = <<>>
    PROVE  GotOK(t, u)
BY DEF GotOK, Live

\* Moving pieces from the wire to the buffer does not renumber them.
LEMMA NthMoved ==
    ASSUME NEW r \in EndState, NEW t \in EndState, NEW n \in Nat,
           Len(t.buf) = Len(r.buf) + n, Len(t.wire) = Len(r.wire) - n,
           \A i \in 1 .. Len(r.buf) : t.buf[i] = r.buf[i],
           \A i \in 1 .. n : t.buf[Len(r.buf) + i] = r.wire[i],
           \A i \in 1 .. Len(t.wire) : t.wire[i] = r.wire[n + i]
    PROVE  Arrived(t) = Arrived(r) /\ \A i \in 1 .. Arrived(r) : Nth(t, i) = Nth(r, i)
<1>1. Arrived(t) = Arrived(r)
  BY DEF Arrived, EndState
<1>2. ASSUME NEW i \in 1 .. Arrived(r)
      PROVE  Nth(t, i) = Nth(r, i)
  <2>1. CASE i <= Len(r.buf)
    BY <2>1, SMTT(30) DEF Nth, Arrived, EndState
  <2>2. CASE i > Len(r.buf) /\ i <= Len(r.buf) + n
    <3>1. i - Len(r.buf) \in 1 .. n /\ Len(r.buf) + (i - Len(r.buf)) = i
      BY <2>2 DEF Arrived, EndState
    <3>. QED
      BY <2>2, <3>1 DEF Nth, Arrived, EndState
  <2>3. CASE i > Len(r.buf) + n
    <3>1. i - Len(t.buf) \in 1 .. Len(t.wire) /\ n + (i - Len(t.buf)) = i - Len(r.buf)
      BY <2>3 DEF Arrived, EndState
    <3>. QED
      BY <2>3, <3>1, SMTT(30) DEF Nth, Arrived, EndState
  <2>. QED
    BY <2>1, <2>2, <2>3 DEF Arrived, EndState
<1>. QED
  BY <1>1, <1>2

\* Reading moves pieces from the wire to the buffer.
LEMMA FillKeeps ==
    ASSUME NEW k, NEW e \in End, NEW r, NEW s, Pair(k, e, r, s), r.stage \in {"hello_in", "ack_in", "up"},
           NEW t \in EndState, Apart({"buf", "wire"}, r, t),
           Arrived(t) = Arrived(r), \A i \in 1 .. Arrived(r) : Nth(t, i) = Nth(r, i)
    PROVE  Pair(k, e, t, s)
<1>1. /\ t.stage = r.stage /\ t.queue = r.queue /\ t.written = r.written /\ t.sent = r.sent
      /\ t.peer = r.peer /\ t.closed = r.closed /\ t.got = r.got
  BY DEF EndState, Apart
<1>2. Expects(e, t) = Expects(e, r) /\ (Live(t) <=> Live(r))
  BY <1>1 DEF Expects, Live
<1>3. EndOK(k, Other(e), s, t)
  BY <1>1, SameWriter DEF Pair
<1>4. EndOK(k, e, t, s)
  <2>1. QueueOK(t) /\ GotOK(t, s)
    BY <1>1, QueueSame, GotSame DEF Pair, EndOK
  <2>2. ArrivedOK(k, e, t, s)
    BY <1>2 DEF Pair, EndOK, ArrivedOK
  <2>3. WriterOK(k, e, t, s)
    BY <1>1, <1>2 DEF Pair, EndOK, WriterOK
  <2>. QED
    BY <1>1, <2>1, <2>2, <2>3 DEF Pair, EndOK, PeerOK
<1>. QED
  BY <1>3, <1>4 DEF Pair

\* An end that has not been up gives up, its queue left to the writer.
LEMMA AbandonKeeps ==
    ASSUME NEW k, NEW e \in End, NEW r, NEW s, Pair(k, e, r, s), r.stage \notin {"up", "gone"}
    PROVE  Pair(k, e, Abandon(r), s)
<1>. DEFINE t == Abandon(r)
<1>1. t \in EndState
  <2>1. r \in EndState /\ <<>> \in Seq(Piece) /\ "dropped" \in Stage
    BY DEF Pair, EndOK, Stage
  <2>. QED
    BY <2>1 DEF EndState, Abandon
<1>2. /\ t.buf = <<>> /\ t.stage = "dropped"
      /\ t.queue = r.queue /\ t.written = r.written /\ t.sent = r.sent /\ t.wire = r.wire
      /\ t.peer = r.peer /\ t.closed = r.closed /\ t.got = r.got
  BY DEF EndState, Abandon, Pair, EndOK
<1>. HIDE DEF t
<1>4. \A p, x : IsPiece(k, e, t, p, x) = IsPiece(k, e, r, p, x)
  BY <1>2 DEF IsPiece
<1>5. EndOK(k, e, t, s)
  BY <1>1, <1>2 DEF Pair, EndOK, QueueOK, ArrivedOK, WriterOK, PeerOK, GotOK, Live
<1>6. EndOK(k, Other(e), s, t)
  <2>1. ArrivedOK(k, Other(e), s, t)
    BY <1>4, OtherEnd DEF Pair, EndOK, ArrivedOK
  <2>2. WriterOK(k, Other(e), s, t)
    <3>1. Live(s) /\ ~s.closed /\ r.queue # <<>> =>
            IsPiece(k, e, r, Expects(Other(e), s) + Arrived(s), Part(r.queue[1], 1))
      BY OtherEnd DEF Pair, EndOK, WriterOK
    <3>2. ~Live(t)
      BY <1>2 DEF Live
    <3>. QED
      BY <1>2, <1>4, <3>1, <3>2, OtherEnd DEF WriterOK
  <2>3. GotOK(s, t)
    BY <1>2, GotSame DEF Pair, EndOK
  <2>. QED
    BY <1>1, <1>2, <2>1, <2>2, <2>3, OtherEnd DEF Pair, EndOK, PeerOK
<1>. QED
  BY <1>5, <1>6 DEF Pair, t

LEMMA NthCut ==
    ASSUME NEW r \in EndState, NEW t \in EndState, t.buf = r.buf, t.wire \in Prefixes(r.wire)
    PROVE  /\ Arrived(t) <= Arrived(r) /\ Arrived(t) \in Nat /\ Arrived(r) \in Nat
           /\ \A i \in 1 .. Arrived(t) : Nth(t, i) = Nth(r, i)
<1>1. PICK l \in 0 .. Len(r.wire) : t.wire = SubSeq(r.wire, 1, l)
  BY DEF Prefixes
<1>2. Len(t.wire) = l /\ \A i \in 1 .. l : t.wire[i] = r.wire[i]
  BY <1>1 DEF EndState
<1>. QED
  BY <1>2 DEF Arrived, Nth, EndState

\* The path is lost: what has arrived at an end is cut.
LEMMA CutKeeps ==
    ASSUME NEW k, NEW e \in End, NEW r, NEW s, EndOK(k, e, r, s),
           NEW t \in EndState, Apart({"wire", "closed"}, r, t), t.wire \in Prefixes(r.wire), t.closed,
           NEW u, u.stage = s.stage, u.peer = s.peer, u.sent = s.sent, u.closed \/ u.stage = "gone"
    PROVE  EndOK(k, e, t, u)
<1>1. /\ t.buf = r.buf /\ t.stage = r.stage /\ t.queue = r.queue /\ t.written = r.written
      /\ t.peer = r.peer /\ t.got = r.got /\ t.sent = r.sent
  BY DEF EndState, Apart
<1>2. /\ Arrived(t) <= Arrived(r) /\ Arrived(t) \in Nat /\ Arrived(r) \in Nat
      /\ \A i \in 1 .. Arrived(t) : Nth(t, i) = Nth(r, i)
  BY <1>1, NthCut DEF EndOK
<1>3. \A p, x : IsPiece(k, Other(e), u, p, x) = IsPiece(k, Other(e), s, p, x)
  BY <1>1 DEF IsPiece
<1>4. Expects(e, t) = Expects(e, r) /\ (Live(t) <=> Live(r))
  BY <1>1 DEF Expects, Live
<1>5. ArrivedOK(k, e, t, u)
  BY <1>2, <1>3, <1>4 DEF EndOK, ArrivedOK
<1>6. QueueOK(t) /\ GotOK(t, u) /\ PeerOK(k, e, t, u)
  BY <1>1, QueueSame, GotSame DEF EndOK, PeerOK
<1>. QED
  BY <1>1, <1>5, <1>6 DEF EndOK, WriterOK

\* One end goes, the other is left with what had arrived.
LEMMA ClosedKeeps ==
    ASSUME NEW k, NEW e \in End, NEW r, NEW s, Pair(k, e, r, s),
           NEW t \in EndState, NEW u \in EndState, u.wire \in Prefixes(s.wire), u.closed,
           Apart({"stage", "queue", "written", "wire", "buf"}, r, t), Apart({"wire", "closed"}, s, u),
           t.stage = "gone", t.queue = <<>>, t.written = 0, t.wire = <<>>, t.buf = <<>>
    PROVE  Pair(k, e, t, u)
<1>1. /\ t.peer = r.peer /\ t.closed = r.closed /\ t.got = r.got /\ t.sent = r.sent
  BY DEF EndState, Apart
<1>2. /\ u.buf = s.buf /\ u.stage = s.stage /\ u.queue = s.queue /\ u.written = s.written
      /\ u.peer = s.peer /\ u.got = s.got /\ u.sent = s.sent
  BY DEF EndState, Apart
<1>3. /\ Arrived(u) <= Arrived(s) /\ Arrived(u) \in Nat /\ Arrived(s) \in Nat
      /\ \A i \in 1 .. Arrived(u) : Nth(u, i) = Nth(s, i)
  BY <1>2, NthCut DEF Pair, EndOK
<1>4. \A p, x : IsPiece(k, e, t, p, x) = IsPiece(k, e, r, p, x)
  BY <1>1 DEF IsPiece
<1>5. Expects(Other(e), u) = Expects(Other(e), s) /\ (Live(u) <=> Live(s))
  BY <1>2 DEF Expects, Live
<1>6. EndOK(k, e, t, u)
  BY <1>1, <1>2 DEF Pair, EndOK, QueueOK, ArrivedOK, WriterOK, PeerOK, GotOK, Live
<1>7. EndOK(k, Other(e), u, t)
  <2>1. ArrivedOK(k, Other(e), u, t)
    BY <1>3, <1>4, <1>5, OtherEnd DEF Pair, EndOK, ArrivedOK
  <2>2. QueueOK(u) /\ GotOK(u, t) /\ PeerOK(k, Other(e), u, t)
    BY <1>1, <1>2, OtherEnd, QueueSame, GotSame DEF Pair, EndOK, PeerOK
  <2>. QED
    BY <2>1, <2>2, <1>2 DEF Pair, EndOK, WriterOK
<1>. QED
  BY <1>6, <1>7 DEF Pair

LEMMA ExpectsNat ==
    ASSUME NEW e, NEW r \in EndState
    PROVE  Expects(e, r) \in Nat /\ Arrived(r) \in Nat
BY DEF Expects, Arrived, EndState

LEMMA Suffix ==
    ASSUME NEW S, NEW b \in Seq(S), NEW m \in 0 .. Len(b)
    PROVE  LET v == SubSeq(b, m + 1, Len(b))
           IN v \in Seq(S) /\ Len(v) = Len(b) - m /\ \A i \in 1 .. Len(v) : v[i] = b[m + i]
OBVIOUS

LEMMA DrainedIs ==
    ASSUME NEW S, NEW b \in Seq(S), NEW m \in 0 .. Len(b), Size(b[1].frame) = m
    PROVE  /\ Drained(b) \in Seq(S) /\ Len(Drained(b)) = Len(b) - m
           /\ \A i \in 1 .. Len(Drained(b)) : Drained(b)[i] = b[m + i]
<1>1. Drained(b) = SubSeq(b, m + 1, Len(b))
  BY DEF Drained
<1>. QED
  BY <1>1, Suffix

\* Consuming m pieces, from the buffer or the wire, renumbers the rest.
LEMMA NthTaken ==
    ASSUME NEW r \in EndState, NEW t \in EndState, NEW m \in Nat, m <= Len(r.buf),
           t.wire = r.wire, Len(t.buf) = Len(r.buf) - m, \A i \in 1 .. Len(t.buf) : t.buf[i] = r.buf[m + i]
    PROVE  Arrived(t) = Arrived(r) - m /\ \A i \in 1 .. Arrived(t) : Nth(t, i) = Nth(r, m + i)
<1>2. Arrived(t) = Arrived(r) - m
  BY DEF Arrived, EndState
<1>3. ASSUME NEW i \in 1 .. Arrived(t)
      PROVE  Nth(t, i) = Nth(r, m + i)
  <2>1. CASE i <= Len(t.buf)
    BY <2>1 DEF Nth, Arrived, EndState
  <2>2. CASE i > Len(t.buf)
    <3>1. i - Len(t.buf) = (m + i) - Len(r.buf) /\ ~(m + i <= Len(r.buf))
      BY <2>2 DEF EndState, Arrived
    <3>. QED
      BY <2>2, <3>1 DEF Nth, EndState, Arrived
  <2>. QED
    BY <2>1, <2>2 DEF Arrived, EndState
<1>. QED
  BY <1>2, <1>3

LEMMA Shifted ==
    ASSUME NEW k, NEW e, NEW r \in EndState, NEW s, NEW t \in EndState, NEW m \in Nat,
           ArrivedOK(k, e, r, s), WriterOK(k, e, r, s), Live(r), t.closed = r.closed,
           m <= Arrived(r), Arrived(t) = Arrived(r) - m,
           \A i \in 1 .. Arrived(t) : Nth(t, i) = Nth(r, m + i),
           Expects(e, t) = Expects(e, r) + m
    PROVE  ArrivedOK(k, e, t, s) /\ WriterOK(k, e, t, s)
<1>1. /\ Expects(e, r) \in Nat /\ Arrived(r) \in Nat /\ Arrived(t) \in Nat
      /\ Expects(e, t) + Arrived(t) = Expects(e, r) + Arrived(r)
  BY ExpectsNat
<1>2. ArrivedOK(k, e, t, s)
  <2>1. ASSUME NEW i \in 1 .. Arrived(t)
        PROVE  IsPiece(k, Other(e), s, Expects(e, t) + i - 1, Nth(t, i))
    <3>1. m + i \in 1 .. Arrived(r) /\ Expects(e, t) + i - 1 = Expects(e, r) + (m + i) - 1
      BY <1>1
    <3>. QED
      BY <3>1 DEF ArrivedOK
  <2>. QED
    BY <2>1 DEF ArrivedOK
<1>3. WriterOK(k, e, t, s)
  BY <1>1 DEF WriterOK
<1>. QED
  BY <1>2, <1>3

\* An end of the handshake hands its next frame to the writer.
LEMMA SpeakKeeps ==
    ASSUME NEW k, NEW e \in End, NEW r, NEW s, NEW t \in EndState, NEW f,
           EndOK(k, Other(e), s, r), r \in EndState,
           Live(r), r.stage # "up", t.stage \in Sending, r.queue = <<>>, t.queue = <<f>>,
           t.sent = r.sent, t.closed = r.closed, r.peer = <<k, Other(e)>> => t.peer = r.peer,
           Emits(e, t) = Emits(e, r) + 1, IsPiece(k, e, t, Emits(e, r), Part(f, 1))
    PROVE  EndOK(k, Other(e), s, t)
<1>1. \A p, x : IsPiece(k, e, r, p, x) => IsPiece(k, e, t, p, x)
  BY DEF IsPiece
<1>2. ArrivedOK(k, Other(e), s, t)
  BY <1>1, OtherEnd DEF EndOK, ArrivedOK
<1>3. WriterOK(k, Other(e), s, t)
  <2>1. ASSUME Live(s), ~s.closed
        PROVE  Expects(Other(e), s) + Arrived(s) = Emits(e, r)
    <3>1. /\ Expects(Other(e), s) + Arrived(s) + Len(r.queue) = Emits(e, r)
          /\ Expects(Other(e), s) \in Nat /\ Arrived(s) \in Nat /\ Len(r.queue) = 0
      BY <2>1, OtherEnd, ExpectsNat DEF EndOK, WriterOK
    <3>. QED
      BY <3>1
  <2>2. Emits(e, r) \in Nat /\ t.queue[1] = f /\ Len(t.queue) = 1 /\ t.stage # "up"
    BY DEF Emits, EndState, Sending
  <2>. QED
    BY <2>1, <2>2, OtherEnd DEF WriterOK
<1>4. GotOK(s, t)
  BY GotSame DEF EndOK
<1>. QED
  BY <1>2, <1>3, <1>4, OtherEnd DEF EndOK, PeerOK, Live

\* The first piece in the buffer is the one the end expects.
LEMMA FirstPiece ==
    ASSUME NEW k, NEW e, NEW r, NEW s, EndOK(k, e, r, s), Live(r), r.buf # <<>>
    PROVE  r.buf \in Seq(Piece) /\ Len(r.buf) >= 1 /\ IsPiece(k, Other(e), s, Expects(e, r), r.buf[1])
<1>1. r \in EndState
  BY DEF EndOK
<1>2. r.buf \in Seq(Piece) /\ Len(r.buf) >= 1 /\ Nth(r, 1) = r.buf[1] /\ 1 \in 1 .. Arrived(r)
  BY <1>1 DEF EndState, Nth, Arrived
<1>3. Expects(e, r) + 1 - 1 = Expects(e, r)
  BY <1>1, ExpectsNat
<1>. QED
  BY <1>2, <1>3 DEF EndOK, ArrivedOK

\* A piece that is a whole frame: what parsing returns, and what it leaves.
LEMMA WholeFrame ==
    ASSUME NEW S, NEW b \in Seq(S), Len(b) >= 1, NEW f, b[1] = Part(f, 1), Size(f) = 1
    PROVE  /\ Parsed(b) = f /\ Drained(b) \in Seq(S)
           /\ Len(Drained(b)) = Len(b) - 1 /\ \A i \in 1 .. Len(Drained(b)) : Drained(b)[i] = b[1 + i]
<1>. b[1].frame = f
  BY DEF Part
<1>1. Parsed(b) = f
  <2>1. \A n \in 1 .. Size(f) : b[n] = Part(f, n)
    OBVIOUS
  <2>. QED
    BY <2>1 DEF Parsed
<1>2. 1 \in 0 .. Len(b) /\ Size(b[1].frame) = 1
  OBVIOUS
<1>. QED
  BY <1>1, <1>2, DrainedIs

\* recv of the Hello: the frame is the other end's Hello, and is answered.
LEMMA HelloKeeps ==
    ASSUME NEW k \in Nat, NEW e \in End, NEW r, NEW s, Pair(k, e, r, s),
           r.stage = "hello_in", Buffered(r.buf),
           NEW t \in EndState, Apart({"stage", "queue", "buf", "peer"}, r, t), t.buf = Drained(r.buf),
           \/ /\ t.stage = "ack_out" /\ t.queue = Append(r.queue, HelloAck("Accepted"))
              /\ t.peer = Parsed(r.buf).session
           \/ /\ t.stage = "reject_out" /\ t.queue = Append(r.queue, HelloAck("Rejected"))
              /\ t.peer = r.peer
    PROVE  Pair(k, e, t, s)
<1>1. /\ t.written = r.written /\ t.sent = r.sent /\ t.wire = r.wire /\ t.closed = r.closed /\ t.got = r.got
      /\ r \in EndState
  BY DEF EndState, Apart, Pair, EndOK
<1>2. /\ Expects(e, r) = 1 /\ Live(r) /\ Live(t) /\ Expects(e, t) = 2 /\ Emits(e, r) = 2
      /\ r.queue = <<>> /\ r.sent = <<>> /\ r.got = <<>> /\ r.written = 0
  BY DEF Expects, Live, Emits, Pair, EndOK, QueueOK, GotOK
<1>3. r.buf[1] = Part(Hello(k, Other(e)), 1) /\ r.buf \in Seq(Piece) /\ Len(r.buf) >= 1
  BY <1>2, FirstPiece DEF Pair, Buffered, IsPiece
<1>4. /\ Parsed(r.buf) = Hello(k, Other(e)) /\ Len(t.buf) = Len(r.buf) - 1
      /\ \A i \in 1 .. Len(t.buf) : t.buf[i] = r.buf[1 + i]
  BY <1>3, WholeFrame, Sizes
<1>5. t.stage = "ack_out" => t.peer = <<k, Other(e)>>
  BY <1>4 DEF Hello
<1>8. PICK st \in {"Accepted", "Rejected"} :
         t.queue = <<HelloAck(st)>> /\ (st = "Accepted" => t.stage = "ack_out")
  BY <1>2
<1>6. EndOK(k, Other(e), s, t)
  <2>2. t.stage \in Sending /\ Emits(e, t) = Emits(e, r) + 1
    BY <1>1, <1>2 DEF Sending, Emits
  <2>3. IsPiece(k, e, t, 2, Part(HelloAck(st), 1))
    BY <1>5, <1>8 DEF IsPiece
  <2>4. r.peer = <<k, Other(e)>> => t.peer = r.peer
    BY <1>5
  <2>. QED
    BY <1>1, <1>2, <1>8, <2>2, <2>3, <2>4, SpeakKeeps DEF Pair
<1>7. EndOK(k, e, t, s)
  <2>1. Arrived(t) = Arrived(r) - 1 /\ 1 <= Arrived(r) /\ \A i \in 1 .. Arrived(t) : Nth(t, i) = Nth(r, 1 + i)
    <3>1. Arrived(t) = Arrived(r) - 1 /\ \A i \in 1 .. Arrived(t) : Nth(t, i) = Nth(r, 1 + i)
      BY <1>1, <1>3, <1>4, NthTaken
    <3>2. 1 <= Arrived(r)
      BY <1>1, <1>3 DEF Arrived, EndState
    <3>. QED
      BY <3>1, <3>2
  <2>2. ArrivedOK(k, e, t, s) /\ WriterOK(k, e, t, s)
    <3>1. Expects(e, t) = Expects(e, r) + 1
      BY <1>2
    <3>. QED
      BY <1>1, <1>2, <2>1, <3>1, Shifted DEF Pair, EndOK
  <2>3. QueueOK(t)
    <3>1. Len(t.queue) = 1 /\ \A j \in 1 .. 1 : Size(t.queue[j]) = 1
      BY <1>8, Sizes
    <3>. QED
      BY <1>1, <1>2, <3>1 DEF QueueOK
  <2>4. GotOK(t, s)
    BY <1>1, <1>2, GotSame DEF Pair, EndOK
  <2>5. PeerOK(k, e, t, s)
    BY <1>5 DEF PeerOK
  <2>. QED
    BY <1>1, <2>2, <2>3, <2>4, <2>5 DEF Pair, EndOK
<1>. QED
  BY <1>6, <1>7 DEF Pair

\* recv of the HelloAck that accepts: both have verified the other.
LEMMA AckKeeps ==
    ASSUME NEW k \in Nat, NEW e \in End, NEW r, NEW s, Pair(k, e, r, s),
           r.stage = "ack_in", Buffered(r.buf), Accepts(Parsed(r.buf)),
           NEW t \in EndState, Apart({"stage", "buf"}, r, t), t.buf = Drained(r.buf), t.stage = "up"
    PROVE  Pair(k, e, t, s)
<1>1. /\ t.written = r.written /\ t.sent = r.sent /\ t.wire = r.wire /\ t.closed = r.closed /\ t.got = r.got
      /\ t.queue = r.queue /\ t.peer = r.peer /\ r \in EndState /\ s \in EndState
  BY DEF EndState, Apart, Pair, EndOK
<1>2. /\ Expects(e, r) = 2 /\ Live(r) /\ Live(t) /\ r.peer = <<k, Other(e)>>
      /\ r.queue = <<>> /\ r.sent = <<>> /\ r.got = <<>> /\ r.written = 0
  BY DEF Expects, Live, Pair, EndOK, QueueOK, GotOK, PeerOK
<1>3. Expects(e, t) = 3 /\ Emits(e, r) = 3
  BY <1>1, <1>2 DEF Expects, Emits
<1>4. PICK st \in {"Accepted", "Rejected"} :
        /\ r.buf[1] = Part(HelloAck(st), 1) /\ r.buf \in Seq(Piece) /\ Len(r.buf) >= 1
        /\ st = "Accepted" => s.peer = <<k, e>>
  BY <1>2, FirstPiece, OtherEnd DEF Pair, Buffered, IsPiece
<1>5. /\ Parsed(r.buf) = HelloAck(st) /\ Len(t.buf) = Len(r.buf) - 1
      /\ \A i \in 1 .. Len(t.buf) : t.buf[i] = r.buf[1 + i]
  BY <1>4, WholeFrame, Sizes
<1>6. s.peer = <<k, e>>
  BY <1>4, <1>5 DEF Accepts, HelloAck
<1>7. EndOK(k, Other(e), s, t)
  <2>1. \A p, x : IsPiece(k, e, t, p, x) = IsPiece(k, e, r, p, x)
    BY <1>1 DEF IsPiece
  <2>2. ArrivedOK(k, Other(e), s, t)
    BY <2>1, OtherEnd DEF Pair, EndOK, ArrivedOK
  <2>3. WriterOK(k, Other(e), s, t)
    <3>1. ASSUME Live(s), ~s.closed
          PROVE  Expects(Other(e), s) + Arrived(s) = 3
      <4>1. /\ Expects(Other(e), s) + Arrived(s) + Len(r.queue) = 3 /\ Len(r.queue) = 0
            /\ Expects(Other(e), s) \in Nat /\ Arrived(s) \in Nat
        BY <1>1, <1>2, <1>3, <3>1, OtherEnd, ExpectsNat DEF Pair, EndOK, WriterOK
      <4>. QED
        BY <4>1
    <3>2. t.written = 0 /\ Len(t.sent) = 0 /\ Len(t.queue) = 0
      BY <1>1, <1>2
    <3>. QED
      BY <3>1, <3>2 DEF WriterOK
  <2>4. GotOK(s, t)
    BY <1>1, GotSame DEF Pair, EndOK
  <2>. QED
    BY <1>1, <1>2, <2>2, <2>3, <2>4, OtherEnd DEF Pair, EndOK, PeerOK
<1>8. EndOK(k, e, t, s)
  <2>1. Arrived(t) = Arrived(r) - 1 /\ \A i \in 1 .. Arrived(t) : Nth(t, i) = Nth(r, 1 + i)
    BY <1>1, <1>4, <1>5, NthTaken
  <2>2. 1 <= Arrived(r) /\ Expects(e, t) = Expects(e, r) + 1
    BY <1>1, <1>2, <1>3, <1>4 DEF Arrived, EndState
  <2>3. ArrivedOK(k, e, t, s) /\ WriterOK(k, e, t, s)
    BY <1>1, <1>2, <2>1, <2>2, Shifted DEF Pair, EndOK
  <2>4. QueueOK(t)
    BY <1>1, <1>2 DEF QueueOK
  <2>5. GotOK(t, s)
    BY <1>1, <1>2, GotSame DEF Pair, EndOK
  <2>6. PeerOK(k, e, t, s)
    BY <1>1, <1>2, <1>6 DEF PeerOK
  <2>. QED
    BY <1>1, <2>3, <2>4, <2>5, <2>6 DEF Pair, EndOK
<1>. QED
  BY <1>7, <1>8 DEF Pair

\* recv in a session: the two parts in the buffer are of the next frame sent.
LEMMA RecvKeeps ==
    ASSUME NEW k \in Nat, NEW e \in End, NEW r, NEW s, Pair(k, e, r, s),
           r.stage = "up", Buffered(r.buf),
           NEW t \in EndState, Apart({"got", "buf"}, r, t), t.buf = Drained(r.buf),
           t.got = Append(r.got, Parsed(r.buf))
    PROVE  Pair(k, e, t, s)
<1>1. /\ t.written = r.written /\ t.sent = r.sent /\ t.wire = r.wire /\ t.closed = r.closed
      /\ t.queue = r.queue /\ t.peer = r.peer /\ t.stage = r.stage /\ r \in EndState /\ s \in EndState
  BY DEF EndState, Apart, Pair, EndOK
<1>2. /\ Live(r) /\ Live(t) /\ Expects(e, r) = 3 + 2 * Len(r.got)
      /\ Expects(e, t) = 3 + 2 * Len(t.got)
  BY <1>1 DEF Expects, Live
<1>. DEFINE n == Len(r.got) + 1
<1>3. n \in Nat \ {0} /\ n - 1 = Len(r.got) /\ Expects(e, r) = 2 * n + 1
  BY <1>1, <1>2, SMTT(30) DEF EndState
<1>4. n <= Len(s.sent) /\ r.buf[1] = Part(s.sent[n], 1) /\ r.buf \in Seq(Piece) /\ Len(r.buf) >= 1
  <2>1. r.buf \in Seq(Piece) /\ Len(r.buf) >= 1 /\ IsPiece(k, Other(e), s, Expects(e, r), r.buf[1])
    BY <1>2, FirstPiece DEF Pair, Buffered
  <2>. QED
    BY <2>1, <1>3 DEF IsPiece
<1>5. s.sent[n] \in SessionFrame /\ Size(s.sent[n]) = 2 /\ r.buf[1].frame = s.sent[n]
  <2>1. s.sent[n] \in SessionFrame
    BY <1>1, <1>3, <1>4 DEF EndState
  <2>. QED
    BY <2>1, <1>4, Frames DEF Part
<1>6. Len(r.buf) >= 2
  BY <1>4, <1>5 DEF Buffered
<1>7. r.buf[2] = Part(s.sent[n], 2)
  <2>1. 2 \in 1 .. Arrived(r) /\ Nth(r, 2) = r.buf[2]
    BY <1>1, <1>6 DEF Arrived, Nth, EndState
  <2>2. Expects(e, r) + 2 - 1 = 2 * n + 2
    BY <1>3
  <2>3. IsPiece(k, Other(e), s, 2 * n + 2, r.buf[2])
    BY <1>2, <2>1, <2>2 DEF Pair, EndOK, ArrivedOK
  <2>. QED
    BY <1>3, <2>3 DEF IsPiece
<1>8. Parsed(r.buf) = s.sent[n]
  <2>1. \A q \in 1 .. Size(s.sent[n]) : r.buf[q] = Part(s.sent[n], q)
    BY <1>4, <1>5, <1>7
  <2>. QED
    BY <1>5, <2>1 DEF Parsed
<1>. DEFINE m == 2
<1>13. m \in Nat /\ m = 2 /\ m <= Len(r.buf) /\ m \in 0 .. Len(r.buf) /\ Size(r.buf[1].frame) = m
  BY <1>4, <1>5, <1>6
<1>. HIDE DEF m
<1>9. Len(t.buf) = Len(r.buf) - m /\ \A i \in 1 .. Len(t.buf) : t.buf[i] = r.buf[m + i]
  BY <1>4, <1>13, DrainedIs, SMTT(30)
<1>10. /\ Len(t.got) = n /\ Expects(e, t) = Expects(e, r) + 2
       /\ \A i \in 1 .. n : t.got[i] = s.sent[i]
  <2>1. Len(t.got) = n /\ t.got[n] = s.sent[n] /\ \A i \in 1 .. Len(r.got) : t.got[i] = r.got[i]
    BY <1>1, <1>8 DEF EndState
  <2>2. \A i \in 1 .. Len(r.got) : t.got[i] = s.sent[i]
    BY <2>1 DEF Pair, EndOK, GotOK
  <2>3. \A i \in 1 .. n : i = n \/ i \in 1 .. Len(r.got)
    BY <1>1 DEF EndState
  <2>. QED
    BY <1>2, <1>3, <2>1, <2>2, <2>3
<1>. HIDE DEF n
<1>11. EndOK(k, Other(e), s, t)
  BY <1>1, SameWriter DEF Pair
<1>12. EndOK(k, e, t, s)
  <2>1. Arrived(t) = Arrived(r) - m /\ \A i \in 1 .. Arrived(t) : Nth(t, i) = Nth(r, m + i)
    BY <1>1, <1>13, <1>9, NthTaken
  <2>2. m <= Arrived(r)
    BY <1>1, <1>13 DEF Arrived, EndState
  <2>3. ArrivedOK(k, e, t, s) /\ WriterOK(k, e, t, s)
    BY <1>1, <1>2, <1>10, <1>13, <2>1, <2>2, Shifted DEF Pair, EndOK
  <2>4. QueueOK(t)
    BY <1>1, QueueSame DEF Pair, EndOK
  <2>5. GotOK(t, s)
    BY <1>1, <1>4, <1>10 DEF GotOK
  <2>. QED
    BY <1>1, <2>3, <2>4, <2>5 DEF Pair, EndOK, PeerOK
<1>. QED
  BY <1>11, <1>12 DEF Pair

Appended(q, f, v) == Len(v) = Len(q) + 1 /\ v[Len(q) + 1] = f /\ \A i \in 1 .. Len(q) : v[i] = q[i]

LEMMA AppendIs ==
    ASSUME NEW S, NEW q \in Seq(S), NEW f
    PROVE  Appended(q, f, Append(q, f))
BY DEF Appended

\* A frame of the session is handed to the writer.
LEMMA PostKeeps ==
    ASSUME NEW k, NEW e \in End, NEW r, NEW s, Pair(k, e, r, s), r.stage = "up", NEW f \in SessionFrame,
           NEW t \in EndState, Apart({"queue", "sent"}, r, t),
           Appended(r.queue, f, t.queue), Appended(r.sent, f, t.sent)
    PROVE  Pair(k, e, t, s)
<1>1. /\ t.written = r.written /\ t.got = r.got /\ t.wire = r.wire /\ t.closed = r.closed
      /\ t.buf = r.buf /\ t.peer = r.peer /\ t.stage = r.stage /\ r \in EndState /\ s \in EndState
  BY DEF EndState, Apart, Pair, EndOK
<1>2. r.queue \in Seq(Frame) /\ r.sent \in Seq(SessionFrame)
  BY <1>1 DEF EndState
<1>3. /\ Len(t.queue) = Len(r.queue) + 1 /\ t.queue[Len(r.queue) + 1] = f /\ t.queue # <<>>
      /\ \A i \in 1 .. Len(r.queue) : t.queue[i] = r.queue[i]
  BY <1>2 DEF Appended, EndState
<1>4. /\ Len(t.sent) = Len(r.sent) + 1 /\ t.sent[Len(r.sent) + 1] = f
      /\ \A i \in 1 .. Len(r.sent) : t.sent[i] = r.sent[i]
  BY <1>2 DEF Appended, EndState
<1>5. /\ Len(r.queue) \in Nat /\ Len(r.sent) \in Nat /\ Len(r.queue) <= Len(r.sent)
      /\ \A j \in 1 .. Len(r.queue) : r.queue[j] = r.sent[Len(r.sent) - Len(r.queue) + j]
  <2>1. Len(r.queue) \in Nat /\ Len(r.sent) \in Nat
    BY <1>1 DEF EndState
  <2>2. QueueOK(r)
    BY DEF Pair, EndOK
  <2>. QED
    BY <2>1, <2>2 DEF QueueOK
<1>6. QueueOK(t)
  <2>1. ASSUME NEW j \in 1 .. Len(t.queue)
        PROVE  t.queue[j] = t.sent[Len(t.sent) - Len(t.queue) + j]
    <3>1. CASE j \in 1 .. Len(r.queue)
      <4>1. /\ Len(t.sent) - Len(t.queue) + j = Len(r.sent) - Len(r.queue) + j
            /\ Len(r.sent) - Len(r.queue) + j \in 1 .. Len(r.sent)
        BY <1>1, <1>3, <1>4, <1>5, <3>1 DEF EndState
      <4>. QED
        BY <1>3, <1>4, <1>5, <3>1, <4>1
    <3>2. CASE j = Len(r.queue) + 1
      <4>1. Len(t.sent) - Len(t.queue) + j = Len(r.sent) + 1
        BY <1>1, <1>3, <1>4, <1>5, <3>2 DEF EndState
      <4>. QED
        BY <1>3, <1>4, <3>2, <4>1
    <3>. QED
      BY <1>1, <1>3, <1>5, <3>1, <3>2, SMTT(30) DEF EndState
  <2>2. Len(t.queue) <= Len(t.sent)
    BY <1>1, <1>3, <1>4, <1>5 DEF EndState
  <2>. QED
    BY <1>1, <1>3, <2>1, <2>2 DEF QueueOK
<1>7. /\ \A p, x : IsPiece(k, e, r, p, x) => IsPiece(k, e, t, p, x)
      /\ Len(t.sent) - Len(t.queue) = Len(r.sent) - Len(r.queue)
  <2>1. Len(r.sent) <= Len(t.sent) /\ Len(t.sent) - Len(t.queue) = Len(r.sent) - Len(r.queue)
    BY <1>1, <1>3, <1>4, <1>5 DEF EndState
  <2>. QED
    BY <1>1, <1>4, <2>1, PieceKept
<1>8. EndOK(k, Other(e), s, t)
  <2>1. ArrivedOK(k, Other(e), s, t)
    BY <1>7, OtherEnd DEF Pair, EndOK, ArrivedOK
  <2>2. WriterOK(k, Other(e), s, t)
    BY <1>1, <1>7 DEF Pair, EndOK, WriterOK
  <2>3. GotOK(s, t)
    <3>1. /\ Live(s) /\ s.stage # "up" => s.got = <<>>
          /\ Len(s.got) \in Nat /\ Len(s.got) <= Len(r.sent) /\ \A i \in 1 .. Len(s.got) : s.got[i] = r.sent[i]
      BY <1>1 DEF Pair, EndOK, GotOK, EndState
    <3>2. Len(s.got) <= Len(t.sent) /\ \A i \in 1 .. Len(s.got) : s.got[i] = t.sent[i]
      BY <1>1, <1>4, <1>5, <3>1 DEF EndState
    <3>. QED
      BY <3>1, <3>2 DEF GotOK
  <2>. QED
    BY <1>1, <2>1, <2>2, <2>3 DEF Pair, EndOK, PeerOK
<1>9. EndOK(k, e, t, s)
  <2>1. /\ Expects(e, t) = Expects(e, r) /\ Arrived(t) = Arrived(r) /\ (Live(t) <=> Live(r))
        /\ \A i : Nth(t, i) = Nth(r, i)
    BY <1>1 DEF Expects, Arrived, Live, Nth
  <2>2. ArrivedOK(k, e, t, s) /\ WriterOK(k, e, t, s)
    BY <1>1, <2>1 DEF Pair, EndOK, ArrivedOK, WriterOK
  <2>3. GotOK(t, s)
    BY <1>1, GotSame DEF Pair, EndOK
  <2>. QED
    BY <1>1, <1>6, <2>2, <2>3 DEF Pair, EndOK, PeerOK
<1>. QED
  BY <1>8, <1>9 DEF Pair

LEMMA NthWritten ==
    ASSUME NEW s \in EndState, NEW u \in EndState, NEW x, u.buf = s.buf, Appended(s.wire, x, u.wire)
    PROVE  /\ Arrived(s) \in Nat /\ Arrived(u) = Arrived(s) + 1 /\ Nth(u, Arrived(s) + 1) = x
           /\ \A i \in 1 .. Arrived(s) : Nth(u, i) = Nth(s, i)
<1>1. /\ s.wire \in Seq(Piece) /\ Len(s.buf) \in Nat /\ Len(s.wire) \in Nat
  BY DEF EndState
<1>2. /\ Len(u.wire) = Len(s.wire) + 1 /\ u.wire[Len(s.wire) + 1] = x
      /\ \A i \in 1 .. Len(s.wire) : u.wire[i] = s.wire[i]
  BY DEF Appended, EndState
<1>3. Arrived(s) \in Nat /\ Arrived(u) = Arrived(s) + 1
  BY <1>1, <1>2 DEF Arrived, EndState
<1>4. Nth(u, Arrived(s) + 1) = x
  <2>. DEFINE i == Arrived(s) + 1
             w == i - Len(u.buf)
  <2>1. i \in Nat /\ ~(i <= Len(u.buf)) /\ w = Len(s.wire) + 1
    BY <1>1 DEF Arrived, EndState
  <2>2. u.wire[w] = x
    BY Zenon, <1>2, <2>1
  <2>3. Nth(u, i) = u.wire[w]
    <3>. HIDE DEF i
    <3>. QED
      BY <2>1 DEF Nth
  <2>. QED
    BY Zenon, <2>2, <2>3
<1>5. ASSUME NEW i \in 1 .. Arrived(s)
      PROVE  Nth(u, i) = Nth(s, i)
  <2>1. CASE i <= Len(s.buf)
    BY <2>1 DEF Nth, EndState
  <2>2. CASE ~(i <= Len(s.buf))
    <3>1. i - Len(s.buf) \in 1 .. Len(s.wire)
      BY <1>1, <2>2 DEF Arrived, EndState
    <3>. QED
      BY <1>2, <2>2, <3>1 DEF Nth, EndState
  <2>. QED
    BY <2>1, <2>2
<1>. QED
  BY <1>3, <1>4, <1>5

Tailed(q, v) == Len(v) = Len(q) - 1 /\ \A i \in 1 .. Len(v) : v[i] = q[i + 1]

LEMMA TailIs ==
    ASSUME NEW S, NEW q \in Seq(S), q # <<>>
    PROVE  Tailed(q, Tail(q))
BY DEF Tailed

\* The writer of a session's frames.
LEMMA WriteInSession ==
    ASSUME NEW r \in EndState, QueueOK(r), r.stage = "up", r.queue # <<>>,
           NEW t \in EndState, t.stage = r.stage, t.sent = r.sent,
           \/ r.written + 1 < Size(r.queue[1]) /\ t.written = r.written + 1 /\ t.queue = r.queue
           \/ ~(r.written + 1 < Size(r.queue[1])) /\ t.written = 0 /\ Tailed(r.queue, t.queue),
           NEW k, NEW e
    PROVE  LET p == 2 * (Len(r.sent) - Len(r.queue)) + 3 + r.written
           IN /\ IsPiece(k, e, r, p, Part(r.queue[1], r.written + 1))
              /\ QueueOK(t) /\ 2 * (Len(t.sent) - Len(t.queue)) + 3 + t.written = p + 1
<1>. DEFINE Q == Len(r.queue)
            L == Len(r.sent)
            w == r.written
            Q2 == Len(t.queue)
            n == L - Q + 1
<1>1. Q \in Nat /\ L \in Nat /\ Q >= 1 /\ w \in {0, 1} /\ Q2 \in Nat
  BY DEF EndState
<1>2. Q <= L /\ \A j \in 1 .. Q : r.queue[j] = r.sent[L - Q + j]
  BY DEF QueueOK
<1>3. n \in 1 .. L /\ r.queue[1] = r.sent[n]
  <2>. HIDE DEF Q, L
  <2>. QED
    BY <1>1, <1>2
<1>4. Size(r.queue[1]) = 2
  <2>1. r.sent[n] \in SessionFrame
    BY <1>3 DEF EndState
  <2>. QED
    BY <1>3, <2>1, Frames
<1>5. 2 * (L - Q) + 3 + w = 2 * n + (w + 1)
  <2>. HIDE DEF Q, L, w
  <2>. QED
    BY <1>1
<1>6. IsPiece(k, e, r, 2 * n + (w + 1), Part(r.queue[1], w + 1))
  <2>1. /\ n \in Nat /\ n <= L /\ 2 * n + (w + 1) >= 3
        /\ \A m \in Nat \ {0}, q \in {1, 2} : 2 * n + (w + 1) = 2 * m + q => m = n /\ q = w + 1
    <3>. HIDE DEF Q, L, w
    <3>1. n \in Nat /\ n <= L /\ 2 * n + (w + 1) >= 3
      BY <1>1, <1>3
    <3>. HIDE DEF n
    <3>. QED
      BY <1>1, <3>1
  <2>2. r.queue[1] = r.sent[n] /\ w \in {0, 1}
    BY <1>1, <1>3
  <2>. HIDE DEF Q, w, n
  <2>. QED
    BY <2>1, <2>2 DEF IsPiece
<1>7. QueueOK(t) /\ 2 * (L - Q2) + 3 + t.written = 2 * n + (w + 1) + 1
  <2>1. CASE w = 0
    <3>1. t.written = 1 /\ t.queue = r.queue /\ Q2 = Q
      BY <1>4, <2>1
    <3>2. QueueOK(t)
      BY <3>1 DEF QueueOK
    <3>. HIDE DEF Q, Q2, L, w
    <3>. QED
      BY <1>1, <2>1, <3>1, <3>2
  <2>2. CASE w = 1
    <3>1. t.written = 0 /\ Q2 = Q - 1 /\ \A i \in 1 .. Q2 : t.queue[i] = r.queue[i + 1]
      BY <1>4, <2>2 DEF Tailed
    <3>2. ASSUME NEW j \in 1 .. Q2
          PROVE  t.queue[j] = r.sent[L - Q2 + j]
      <4>. HIDE DEF Q, Q2, L, w
      <4>1. j + 1 \in 1 .. Q /\ L - Q2 + j = L - Q + (j + 1)
        BY <1>1, <3>1
      <4>. QED
        BY <1>2, <3>1, <4>1
    <3>3. Q2 <= L /\ 2 * (L - Q2) + 3 + t.written = 2 * n + (w + 1) + 1
      <4>. HIDE DEF Q, Q2, L, w
      <4>. QED
        BY <1>1, <1>2, <2>2, <3>1
    <3>. QED
      BY <3>1, <3>2, <3>3 DEF QueueOK
  <2>. QED
    BY <1>1, <2>1, <2>2
<1>. QED
  BY <1>5, <1>6, <1>7

\* The writer of the handshake's frames, which go out whole.
LEMMA WriteInHandshake ==
    ASSUME NEW r \in EndState, QueueOK(r), r.stage # "up", r.queue # <<>>,
           NEW t \in EndState, t.stage = r.stage, t.sent = r.sent,
           \/ r.written + 1 < Size(r.queue[1]) /\ t.written = r.written + 1 /\ t.queue = r.queue
           \/ ~(r.written + 1 < Size(r.queue[1])) /\ t.written = 0 /\ Tailed(r.queue, t.queue)
    PROVE  QueueOK(t) /\ r.written = 0 /\ Len(r.queue) = 1 /\ t.queue = <<>> /\ Len(t.queue) = 0
<1>1. Len(r.queue) = 1 /\ r.written = 0
  <2>1. Len(r.queue) \in Nat /\ Len(r.queue) # 0
    BY DEF EndState
  <2>2. Len(r.queue) <= 1 /\ r.written = 0
    BY DEF QueueOK
  <2>. DEFINE Q == Len(r.queue)
  <2>. HIDE DEF Q
  <2>3. Q \in Nat /\ Q # 0 /\ Q <= 1
    BY <2>1, <2>2 DEF Q
  <2>4. Q = 1
    BY <2>3
  <2>. QED
    BY <2>2, <2>4 DEF Q
<1>2. Size(r.queue[1]) = 1
  BY <1>1 DEF QueueOK
<1>3. t.written = 0 /\ Len(t.queue) = 0
  BY <1>1, <1>2 DEF Tailed, EndState
<1>4. t.queue = <<>>
  BY <1>3 DEF EndState
<1>. QED
  BY <1>1, <1>3, <1>4 DEF QueueOK

\* The writer puts the next part of its first frame on the wire.
LEMMA WriteKeeps ==
    ASSUME NEW k \in Nat, NEW e \in End, NEW r, NEW s, Pair(k, e, r, s), r.queue # <<>>, ~r.closed,
           NEW t \in EndState, Apart({"queue", "written"}, r, t),
           \/ r.written + 1 < Size(r.queue[1]) /\ t.written = r.written + 1 /\ t.queue = r.queue
           \/ ~(r.written + 1 < Size(r.queue[1])) /\ t.written = 0 /\ Tailed(r.queue, t.queue),
           NEW u \in EndState, Apart({"wire"}, s, u),
           Appended(s.wire, Part(r.queue[1], r.written + 1), u.wire)
    PROVE  Pair(k, e, t, u)
<1>. DEFINE x == Part(r.queue[1], r.written + 1)
            next == Expects(Other(e), s) + Arrived(s)
<1>1. /\ t.sent = r.sent /\ t.got = r.got /\ t.wire = r.wire /\ t.closed = r.closed
      /\ t.buf = r.buf /\ t.peer = r.peer /\ t.stage = r.stage /\ r \in EndState /\ s \in EndState
  BY DEF EndState, Apart, Pair, EndOK
<1>2. /\ u.sent = s.sent /\ u.got = s.got /\ u.queue = s.queue /\ u.closed = s.closed
      /\ u.buf = s.buf /\ u.peer = s.peer /\ u.stage = s.stage /\ u.written = s.written
  BY DEF EndState, Apart
<1>3. ~s.closed
  BY DEF Pair, EndOK, QueueOK
<1>4. /\ Expects(Other(e), s) \in Nat /\ Arrived(s) \in Nat /\ Arrived(u) = Arrived(s) + 1
      /\ Nth(u, Arrived(s) + 1) = x /\ \A i \in 1 .. Arrived(s) : Nth(u, i) = Nth(s, i)
  BY <1>1, <1>2, NthWritten, ExpectsNat, ZenonT(60)
<1>5. Expects(Other(e), u) = Expects(Other(e), s) /\ (Live(u) <=> Live(s))
  BY <1>2 DEF Expects, Live
<1>6. Expects(Other(e), u) + Arrived(u) = next + 1
  BY <1>4, <1>5
<1>7. WriterOK(k, Other(e), s, r) /\ QueueOK(r)
  BY DEF Pair, EndOK
<1>8. QueueOK(t) /\ (Live(s) => IsPiece(k, e, r, next, x)) /\ WriterOK(k, Other(e), u, t)
  <2>1. CASE r.stage = "up"
    <3>1. LET p == 2 * (Len(r.sent) - Len(r.queue)) + 3 + r.written
          IN /\ IsPiece(k, e, r, p, x)
             /\ QueueOK(t) /\ 2 * (Len(t.sent) - Len(t.queue)) + 3 + t.written = p + 1
      BY <1>1, <1>7, <2>1, WriteInSession
    <3>2. Live(s) => next = 2 * (Len(r.sent) - Len(r.queue)) + 3 + r.written
      BY <1>3, <1>7, <2>1 DEF WriterOK
    <3>3. WriterOK(k, Other(e), u, t)
      <4>. HIDE DEF next
      <4>. QED
        BY <1>1, <1>5, <1>6, <2>1, <3>1, <3>2 DEF WriterOK
    <3>. QED
      BY <3>1, <3>2, <3>3
  <2>2. CASE r.stage # "up"
    <3>1. QueueOK(t) /\ r.written = 0 /\ Len(r.queue) = 1 /\ t.queue = <<>> /\ Len(t.queue) = 0
      BY <1>1, <1>7, <2>2, WriteInHandshake
    <3>2. /\ Live(s) => IsPiece(k, e, r, next, Part(r.queue[1], 1))
          /\ Live(s) /\ Live(r) => next + 1 = Emits(e, r)
      BY <1>3, <1>7, <2>2, <3>1, OtherEnd DEF WriterOK
    <3>3. x = Part(r.queue[1], 1)
      BY <3>1
    <3>4. Emits(e, t) = Emits(e, r) /\ (Live(t) <=> Live(r))
      BY <1>1 DEF Emits, Live
    <3>5. next + 1 \in Nat
      BY <1>4
    <3>6. WriterOK(k, Other(e), u, t)
      <4>. HIDE DEF next
      <4>. QED
        BY <1>1, <1>5, <1>6, <2>2, <3>1, <3>2, <3>4, <3>5, OtherEnd DEF WriterOK
    <3>. QED
      BY <3>1, <3>2, <3>3, <3>6
  <2>. QED
    BY <2>1, <2>2
<1>9. \A p, y : IsPiece(k, e, t, p, y) = IsPiece(k, e, r, p, y)
  BY <1>1 DEF IsPiece
<1>10. ArrivedOK(k, Other(e), u, t)
  <2>1. ASSUME Live(s), NEW i \in 1 .. Arrived(u)
        PROVE  IsPiece(k, e, t, Expects(Other(e), s) + i - 1, Nth(u, i))
    <3>1. CASE i \in 1 .. Arrived(s)
      BY <1>4, <1>9, <2>1, <3>1, OtherEnd DEF Pair, EndOK, ArrivedOK
    <3>2. CASE i = Arrived(s) + 1
      <4>1. Expects(Other(e), s) + i - 1 = next
        BY <1>4, <3>2
      <4>. QED
        BY <1>4, <1>8, <1>9, <2>1, <3>2, <4>1
    <3>. QED
      BY <1>4, <3>1, <3>2
  <2>. QED
    BY <1>5, <2>1, OtherEnd DEF ArrivedOK
<1>11. EndOK(k, Other(e), u, t)
  <2>1. QueueOK(u) /\ GotOK(u, t)
    BY <1>1, <1>2, QueueSame, GotSame DEF Pair, EndOK
  <2>. QED
    BY <1>1, <1>2, <1>3, <1>8, <1>10, <2>1, OtherEnd DEF Pair, EndOK, PeerOK
<1>12. EndOK(k, e, t, u)
  <2>1. /\ Expects(e, t) = Expects(e, r) /\ Arrived(t) = Arrived(r) /\ (Live(t) <=> Live(r))
        /\ \A i : Nth(t, i) = Nth(r, i)
    BY <1>1 DEF Expects, Arrived, Live, Nth
  <2>2. EndOK(k, e, r, u)
    BY <1>2, SameWriter DEF Pair
  <2>3. ArrivedOK(k, e, t, u) /\ WriterOK(k, e, t, u)
    BY <1>1, <2>1, <2>2 DEF EndOK, ArrivedOK, WriterOK
  <2>4. GotOK(t, u)
    BY <1>1, <2>2, GotSame DEF EndOK
  <2>. QED
    BY <1>1, <1>8, <2>2, <2>3, <2>4 DEF EndOK, PeerOK
<1>. QED
  BY <1>11, <1>12 DEF Pair

\* A write fails: the other end is gone, whatever is left to write.
LEMMA FailKeeps ==
    ASSUME NEW k, NEW e \in End, NEW r, NEW s, Pair(k, e, r, s), r.queue # <<>>, r.closed,
           NEW t \in EndState, Apart({"queue", "written"}, r, t),
           t.written = 0, Tailed(r.queue, t.queue)
    PROVE  Pair(k, e, t, s)
<1>1. /\ t.sent = r.sent /\ t.got = r.got /\ t.wire = r.wire /\ t.closed = r.closed
      /\ t.buf = r.buf /\ t.peer = r.peer /\ t.stage = r.stage /\ r \in EndState /\ s \in EndState
  BY DEF EndState, Apart, Pair, EndOK
<1>. DEFINE Q == Len(r.queue)
            Q2 == Len(t.queue)
            L == Len(r.sent)
<1>2. Q \in Nat /\ L \in Nat /\ Q2 \in Nat /\ Q2 = Q - 1 /\ \A i \in 1 .. Q2 : t.queue[i] = r.queue[i + 1]
  BY <1>1 DEF Tailed, EndState
<1>3. QueueOK(r)
  BY DEF Pair, EndOK
<1>4. QueueOK(t)
  <2>1. CASE r.stage = "up"
    <3>1. Q <= L /\ \A j \in 1 .. Q : r.queue[j] = r.sent[L - Q + j]
      BY <1>3, <2>1 DEF QueueOK
    <3>2. ASSUME NEW j \in 1 .. Q2
          PROVE  t.queue[j] = r.sent[L - Q2 + j]
      <4>. HIDE DEF Q, Q2, L
      <4>1. j + 1 \in 1 .. Q /\ L - Q2 + j = L - Q + (j + 1)
        BY <1>2
      <4>. QED
        BY <1>2, <3>1, <4>1
    <3>3. Q2 <= L
      <4>. HIDE DEF Q, Q2, L
      <4>. QED
        BY <1>2, <3>1
    <3>. QED
      BY <1>1, <2>1, <3>2, <3>3 DEF QueueOK
  <2>2. CASE r.stage # "up"
    <3>1. Q <= 1
      BY <1>3, <2>2 DEF QueueOK
    <3>2. Q2 = 0
      <4>. HIDE DEF Q, Q2
      <4>. QED
        BY <1>2, <3>1
    <3>3. t.queue = <<>>
      BY <3>2 DEF EndState
    <3>. QED
      BY <1>1, <1>3, <2>2, <3>2, <3>3 DEF QueueOK
  <2>. QED
    BY <2>1, <2>2
<1>5. EndOK(k, e, t, s)
  <2>1. /\ Expects(e, t) = Expects(e, r) /\ Arrived(t) = Arrived(r) /\ (Live(t) <=> Live(r))
        /\ \A i : Nth(t, i) = Nth(r, i)
    BY <1>1 DEF Expects, Arrived, Live, Nth
  <2>2. ArrivedOK(k, e, t, s) /\ WriterOK(k, e, t, s)
    BY <1>1, <2>1 DEF Pair, EndOK, ArrivedOK, WriterOK
  <2>3. GotOK(t, s)
    BY <1>1, GotSame DEF Pair, EndOK
  <2>. QED
    BY <1>1, <1>4, <2>2, <2>3 DEF Pair, EndOK, PeerOK
<1>6. EndOK(k, Other(e), s, t)
  <2>1. s.closed \/ s.stage = "gone"
    BY DEF Pair, EndOK
  <2>2. WriterOK(k, Other(e), s, t)
    BY <2>1 DEF WriterOK, Live
  <2>3. \A p, y : IsPiece(k, e, t, p, y) = IsPiece(k, e, r, p, y)
    BY <1>1 DEF IsPiece
  <2>4. ArrivedOK(k, Other(e), s, t)
    BY <2>3, OtherEnd DEF Pair, EndOK, ArrivedOK
  <2>5. GotOK(s, t)
    BY <1>1, GotSame DEF Pair, EndOK
  <2>. QED
    BY <1>1, <2>2, <2>4, <2>5, OtherEnd DEF Pair, EndOK, PeerOK
<1>. QED
  BY <1>5, <1>6 DEF Pair

\* An end goes on to its next stage, with nothing read or written.
LEMMA StageKeeps ==
    ASSUME NEW k, NEW e \in End, NEW r, NEW s, Pair(k, e, r, s),
           NEW t \in EndState, Apart({"stage"}, r, t),
           \/ r.stage = "hello_out" /\ r.queue = <<>> /\ t.stage = "hello_in"
           \/ r.stage = "ack_out" /\ r.queue = <<>> /\ t.stage = "ack_in"
           \/ r.stage = "none" /\ t.stage = IF e = "acceptor" THEN "prime" ELSE "connecting"
    PROVE  Pair(k, e, t, s)
<1>1. /\ t.sent = r.sent /\ t.got = r.got /\ t.wire = r.wire /\ t.closed = r.closed
      /\ t.buf = r.buf /\ t.peer = r.peer /\ t.queue = r.queue /\ t.written = r.written
      /\ r \in EndState /\ s \in EndState
  BY DEF EndState, Apart, Pair, EndOK
<1>2. Live(t) /\ Live(r) /\ r.queue = <<>> /\ r.stage # "up" /\ t.stage \notin {"up", "gone"}
  BY DEF Live, Pair, EndOK, QueueOK
<1>3. Emits(e, t) = Emits(e, r) /\ Expects(e, t) = Expects(e, r)
  BY <1>1 DEF Emits, Expects
<1>4. Arrived(t) = Arrived(r) /\ \A i : Nth(t, i) = Nth(r, i)
  BY <1>1 DEF Arrived, Nth
<1>5. QueueOK(t) /\ r.got = <<>>
  BY <1>1, <1>2 DEF Pair, EndOK, QueueOK, GotOK
<1>6. EndOK(k, e, t, s)
  <2>1. ArrivedOK(k, e, t, s) /\ WriterOK(k, e, t, s)
    BY <1>1, <1>2, <1>3, <1>4 DEF Pair, EndOK, ArrivedOK, WriterOK
  <2>2. GotOK(t, s)
    BY <1>1, <1>5, GotSame DEF Pair, EndOK
  <2>. QED
    BY <1>1, <1>2, <1>5, <2>1, <2>2 DEF Pair, EndOK, PeerOK, End
<1>7. EndOK(k, Other(e), s, t)
  <2>1. \A p, y : IsPiece(k, e, t, p, y) = IsPiece(k, e, r, p, y)
    BY <1>1 DEF IsPiece
  <2>2. ArrivedOK(k, Other(e), s, t)
    BY <2>1, OtherEnd DEF Pair, EndOK, ArrivedOK
  <2>3. WriterOK(k, Other(e), s, t)
    BY <1>1, <1>2, <1>3, <2>1, OtherEnd DEF Pair, EndOK, WriterOK
  <2>4. GotOK(s, t)
    BY <1>1, GotSame DEF Pair, EndOK
  <2>. QED
    BY <1>1, <1>2, <2>2, <2>3, <2>4, OtherEnd DEF Pair, EndOK, PeerOK, Live
<1>. QED
  BY <1>6, <1>7 DEF Pair

\* consume_prime: the first piece is the prime, and the Hello goes out.
LEMMA PrimeKeeps ==
    ASSUME NEW k \in Nat, NEW r, NEW s, Pair(k, "acceptor", r, s), r.stage = "prime", r.wire # <<>>,
           NEW t \in EndState, Apart({"stage", "queue", "wire", "buf"}, r, t), Tailed(r.wire, t.wire),
           t.buf = (IF r.wire[1].frame = Prime THEN <<>> ELSE <<r.wire[1]>>),
           t.stage = "hello_out", t.queue = <<Hello(k, "acceptor")>>
    PROVE  Pair(k, "acceptor", t, s)
<1>. DEFINE e == "acceptor"
<1>1. /\ t.sent = r.sent /\ t.got = r.got /\ t.closed = r.closed /\ t.peer = r.peer
      /\ t.written = r.written /\ r \in EndState /\ s \in EndState
  BY DEF EndState, Apart, Pair, EndOK
<1>2. /\ Live(r) /\ Live(t) /\ r.queue = <<>> /\ r.buf = <<>> /\ r.sent = <<>> /\ r.written = 0 /\ r.got = <<>>
      /\ Expects(e, r) = 0 /\ Expects(e, t) = 1 /\ Emits(e, r) = 1 /\ Emits(e, t) = 2
  BY DEF Live, Pair, EndOK, QueueOK, GotOK, Expects, Emits
<1>3. Len(r.buf) = 0 /\ Len(r.wire) \in Nat /\ Len(r.wire) >= 1
  BY <1>1, <1>2 DEF EndState
<1>4. r.wire[1] = Part(Prime, 1)
  <2>1. Nth(r, 1) = r.wire[1] /\ 1 \in 1 .. Arrived(r)
    BY <1>1, <1>3 DEF Nth, Arrived, EndState
  <2>. QED
    BY <1>2, <2>1 DEF Pair, EndOK, ArrivedOK, IsPiece
<1>5. t.buf = <<>> /\ Len(t.buf) = 0
  BY <1>4 DEF Part
<1>6. /\ Arrived(r) \in Nat /\ Arrived(t) = Arrived(r) - 1 /\ 1 <= Arrived(r)
      /\ \A i \in 1 .. Arrived(t) : Nth(t, i) = Nth(r, 1 + i)
  <2>. DEFINE W == Len(r.wire)
              W2 == Len(t.wire)
  <2>1. W \in Nat /\ W2 \in Nat /\ W >= 1 /\ W2 = W - 1 /\ \A i \in 1 .. W2 : t.wire[i] = r.wire[i + 1]
    BY <1>1, <1>3 DEF Tailed, EndState
  <2>2. Arrived(r) = W /\ Arrived(t) = W2
    BY <1>1, <1>3, <1>5 DEF Arrived, EndState
  <2>3. ASSUME NEW i \in 1 .. W2
        PROVE  Nth(t, i) = Nth(r, 1 + i)
    <3>. HIDE DEF W, W2
    <3>1. i \in Nat /\ ~(i <= 0) /\ ~(1 + i <= 0) /\ i - 0 = i /\ (1 + i) - 0 = i + 1
      BY <2>1
    <3>. QED
      BY <1>3, <1>5, <2>1, <3>1 DEF Nth
  <2>. HIDE DEF W, W2
  <2>. QED
    BY <2>1, <2>2, <2>3
<1>7. EndOK(k, e, t, s)
  <2>1. Expects(e, t) = Expects(e, r) + 1
    BY <1>2
  <2>2. ArrivedOK(k, e, t, s) /\ WriterOK(k, e, t, s)
    BY <1>1, <1>2, <1>6, <2>1, Shifted DEF Pair, EndOK
  <2>3. QueueOK(t)
    <3>1. Len(t.queue) = 1 /\ \A j \in 1 .. 1 : Size(t.queue[j]) = 1
      BY Sizes
    <3>. QED
      BY <1>1, <1>2, <3>1 DEF QueueOK
  <2>4. GotOK(t, s)
    BY <1>1, <1>2, GotSame DEF Pair, EndOK
  <2>. QED
    BY <1>1, <2>2, <2>3, <2>4 DEF Pair, EndOK, PeerOK
<1>8. EndOK(k, Other(e), s, t)
  <2>1. IsPiece(k, e, t, 1, Part(Hello(k, e), 1))
    BY DEF IsPiece
  <2>2. t.stage \in Sending /\ e \in End /\ r.stage # "up" /\ Emits(e, t) = Emits(e, r) + 1
    BY <1>2 DEF Sending, End
  <2>. QED
    BY <1>1, <1>2, <2>1, <2>2, SpeakKeeps DEF Pair
<1>. QED
  BY <1>7, <1>8 DEF Pair

\* QUIC is up: the stream is primed, and the Hello goes out.
LEMMA ConnectedKeeps ==
    ASSUME NEW k \in Nat, NEW r, NEW s, Pair(k, "initiator", r, s),
           r.stage = "connecting", s.stage # "none", ~r.closed,
           NEW t \in EndState, Apart({"stage", "queue"}, r, t),
           t.stage = "hello_out", t.queue = <<Hello(k, "initiator")>>,
           NEW u \in EndState, Apart({"wire"}, s, u), u.wire = <<Part(Prime, 1)>>
    PROVE  Pair(k, "initiator", t, u)
<1>. DEFINE e == "initiator"
            o == "acceptor"
<1>1. /\ t.sent = r.sent /\ t.got = r.got /\ t.closed = r.closed /\ t.peer = r.peer
      /\ t.written = r.written /\ t.wire = r.wire /\ t.buf = r.buf /\ r \in EndState /\ s \in EndState
  BY DEF EndState, Apart, Pair, EndOK
<1>2. /\ u.sent = s.sent /\ u.got = s.got /\ u.queue = s.queue /\ u.closed = s.closed
      /\ u.buf = s.buf /\ u.peer = s.peer /\ u.stage = s.stage /\ u.written = s.written
  BY DEF EndState, Apart
<1>3. /\ Live(r) /\ Live(t) /\ r.queue = <<>> /\ r.sent = <<>> /\ r.written = 0 /\ r.got = <<>>
      /\ Expects(e, r) = 1 /\ Expects(e, t) = 1 /\ Emits(e, r) = 0 /\ Emits(e, t) = 2
  BY DEF Live, Pair, EndOK, QueueOK, GotOK, Expects, Emits
<1>4. EndOK(k, o, s, r) /\ o = Other(e) /\ e = Other(o)
  BY OtherEnd DEF Pair
<1>5. ~s.closed
  BY <1>4 DEF EndOK
<1>6. ASSUME Live(s)
      PROVE  /\ Expects(o, s) = 0 /\ Len(s.buf) = 0 /\ Arrived(s) = 0 /\ s.stage # "up"
  <2>1. /\ Expects(o, s) + Arrived(s) + Len(r.queue) = 0 /\ Expects(o, s) \in Nat /\ Arrived(s) \in Nat
        /\ Len(r.queue) = 0
    BY <1>1, <1>3, <1>4, <1>5, <1>6, ExpectsNat DEF EndOK, WriterOK
  <2>2. Expects(o, s) = 0 /\ Arrived(s) = 0
    BY <2>1
  <2>3. Len(s.buf) \in Nat /\ Len(s.wire) \in Nat /\ Len(s.got) \in Nat
    BY <1>1, SMTT(30) DEF EndState
  <2>4. Len(s.buf) = 0
    BY <1>1, <2>2 DEF Arrived, EndState
  <2>5. s.stage # "up"
    BY <2>2, <2>3 DEF Expects
  <2>. QED
    BY <2>2, <2>4, <2>5
<1>7. IsPiece(k, e, t, 1, Part(Hello(k, e), 1)) /\ IsPiece(k, e, t, 0, Part(Prime, 1))
  BY DEF IsPiece
<1>8. Expects(o, u) = Expects(o, s) /\ (Live(u) <=> Live(s))
  BY <1>2 DEF Expects, Live
<1>9. EndOK(k, o, u, t)
  <2>1. ASSUME Live(s)
        PROVE  /\ Arrived(u) = 1 /\ Nth(u, 1) = Part(Prime, 1) /\ Expects(o, u) = 0
    <3>1. Len(u.buf) = 0 /\ Len(u.wire) = 1 /\ u.wire[1] = Part(Prime, 1) /\ Expects(o, u) = 0
      BY <1>2, <1>6, <1>8, <2>1
    <3>. QED
      BY <3>1 DEF Arrived, Nth
  <2>2. ArrivedOK(k, o, u, t)
    BY <1>4, <1>7, <1>8, <2>1 DEF ArrivedOK
  <2>3. Len(t.queue) = 1 /\ t.queue[1] = Hello(k, e)
    OBVIOUS
  <2>4. WriterOK(k, o, u, t)
    BY <1>3, <1>4, <1>7, <1>8, <2>1, <2>3 DEF WriterOK
  <2>5. QueueOK(u) /\ GotOK(u, t)
    BY <1>1, <1>2, <1>4, QueueSame, GotSame DEF EndOK
  <2>. QED
    BY <1>1, <1>2, <1>4, <1>5, <2>2, <2>4, <2>5 DEF EndOK, PeerOK
<1>10. EndOK(k, e, t, u)
  <2>1. EndOK(k, e, r, u)
    BY <1>2, SameWriter DEF Pair
  <2>2. Arrived(t) = Arrived(r) /\ \A i : Nth(t, i) = Nth(r, i)
    BY <1>1 DEF Arrived, Nth
  <2>3. ArrivedOK(k, e, t, u) /\ WriterOK(k, e, t, u)
    BY <1>1, <1>3, <2>1, <2>2 DEF EndOK, ArrivedOK, WriterOK
  <2>4. QueueOK(t)
    <3>1. Len(t.queue) = 1 /\ \A j \in 1 .. 1 : Size(t.queue[j]) = 1
      BY Sizes
    <3>. QED
      BY <1>1, <1>3, <3>1 DEF QueueOK
  <2>5. GotOK(t, u)
    BY <1>1, <1>3, <2>1, GotSame DEF EndOK
  <2>. QED
    BY <1>1, <2>1, <2>3, <2>4, <2>5 DEF EndOK, PeerOK
<1>. QED
  BY <1>4, <1>9, <1>10 DEF Pair

-----------------------------------------------------------------------------
(* The streams under the actions                                           *)

LEMMA PairAt ==
    ASSUME StreamInv, scene.candidates \in Seq({"dead", "other", "peer"}), NEW k \in Attempt, NEW e \in End
    PROVE  /\ k \in Nat /\ Pair(k, e, link[k][e], link[k][Other(e)]) /\ link[k][e] \in EndState
           /\ link[k][Other(e)] \in EndState /\ DOMAIN link[k] = End
<1>1. k \in Nat
  BY DEF StreamInv, Attempt
<1>2. EndOK(k, e, link[k][e], link[k][Other(e)]) /\ EndOK(k, Other(e), link[k][Other(e)], link[k][e])
  BY OtherEnd DEF StreamInv
<1>. QED
  BY <1>1, <1>2 DEF Pair, EndOK, StreamInv

\* Only connection k has changed, and its ends still fit.
LEMMA OneConnection ==
    ASSUME StreamInv, NEW k \in Attempt, NEW e \in End, scene' = scene,
           DOMAIN link' = DOMAIN link, \A j \in Attempt : j # k => link'[j] = link[j],
           DOMAIN link'[k] = End, Pair(k, e, link'[k][e], link'[k][Other(e)])
    PROVE  StreamInv'
<1>1. ASSUME NEW d \in End
      PROVE  EndOK(k, d, link'[k][d], link'[k][Other(d)])
  BY OtherEnd DEF Pair, End
<1>. QED
  BY <1>1 DEF StreamInv, Attempt

LEMMA OneEnd ==
    ASSUME StreamInv, NEW k \in Attempt, NEW e \in End, NEW t, scene' = scene, link' = Set(k, e, t),
           Pair(k, e, t, link[k][Other(e)])
    PROVE  StreamInv'
<1>1. /\ DOMAIN link' = DOMAIN link /\ \A j \in Attempt : j # k => link'[j] = link[j]
      /\ DOMAIN link'[k] = End /\ link'[k][e] = t /\ link'[k][Other(e)] = link[k][Other(e)]
  BY OtherEnd DEF StreamInv, Attempt, Set
<1>. QED
  BY <1>1, OneConnection

LEMMA Singleton ==
    ASSUME NEW S, NEW x \in S
    PROVE  <<x>> \in Seq(S)
OBVIOUS

LEMMA PrefixType ==
    ASSUME NEW S, NEW q \in Seq(S), NEW z \in Prefixes(q)
    PROVE  z \in Seq(S)
BY DEF Prefixes

LEMMA FlagType == TRUE \in Flag /\ FALSE \in Flag
BY Zenon DEF Flag

LEMMA PieceType ==
    ASSUME NEW x \in Piece
    PROVE  x.frame \in Frame
BY DEF Piece, Part

LEMMA ParsedType ==
    ASSUME NEW b \in Seq(Piece), Buffered(b)
    PROVE  Parsed(b) \in Frame /\ Drained(b) \in Seq(Piece)
<1>1. Len(b) >= 1 /\ b[1] \in Piece /\ Size(b[1].frame) \in 0 .. Len(b)
  BY DEF Buffered, Size
<1>2. b[1].frame \in Frame
  BY <1>1, PieceType
<1>4. Garbage \in Frame
  BY DEF Frame
<1>3. Parsed(b) \in Frame
  BY <1>2, <1>4 DEF Parsed
<1>. QED
  BY <1>1, <1>3, DrainedIs

LEMMA SessionType ==
    ASSUME NEW f \in Frame, f.type = "hello"
    PROVE  f.session \in PeerId
<1>1. PICK k \in Nat, e \in End : f = Hello(k, e)
  BY DEF Frame, SessionFrame, Prime, Garbage, Data, HelloAck
<1>. QED
  BY <1>1 DEF Hello, PeerId

LEMMA Moved ==
    ASSUME NEW S, NEW b \in Seq(S), NEW w \in Seq(S), NEW n \in 0 .. Len(w)
    PROVE  LET c == b \o SubSeq(w, 1, n)
               v == SubSeq(w, n + 1, Len(w))
           IN /\ c \in Seq(S) /\ v \in Seq(S)
              /\ Len(c) = Len(b) + n /\ Len(v) = Len(w) - n
              /\ \A i \in 1 .. Len(b) : c[i] = b[i]
              /\ \A i \in 1 .. n : c[Len(b) + i] = w[i]
              /\ \A i \in 1 .. Len(v) : v[i] = w[n + i]
OBVIOUS

LEMMA FillStep ==
    ASSUME StreamInv, DialInv, NEW k \in Attempt, NEW e \in End, Fill(k, e)
    PROVE  StreamInv'
<1>. DEFINE r == link[k][e]
            s == link[k][Other(e)]
<1>1. Pair(k, e, r, s) /\ r \in EndState
  BY PairAt DEF DialInv
<1>2. PICK n \in {1, Len(r.wire)} :
        link' = Set(k, e, [r EXCEPT !.buf = @ \o SubSeq(r.wire, 1, n),
                                    !.wire = SubSeq(r.wire, n + 1, Len(r.wire))])
  BY DEF Fill
<1>3. r.buf \in Seq(Piece) /\ r.wire \in Seq(Piece) /\ n \in 0 .. Len(r.wire) /\ n \in Nat
  BY <1>1 DEF Fill, EndState
<1>. DEFINE b == r.buf
            w == r.wire
            c == b \o SubSeq(w, 1, n)
            v == SubSeq(w, n + 1, Len(w))
            t == [r EXCEPT !.buf = c, !.wire = v]
<1>4. /\ c \in Seq(Piece) /\ v \in Seq(Piece)
      /\ Len(c) = Len(b) + n /\ Len(v) = Len(w) - n
      /\ \A i \in 1 .. Len(b) : c[i] = b[i]
      /\ \A i \in 1 .. n : c[Len(b) + i] = w[i]
      /\ \A i \in 1 .. Len(v) : v[i] = w[n + i]
  <2>1. b \in Seq(Piece) /\ w \in Seq(Piece) /\ n \in 0 .. Len(w)
    BY <1>3
  <2>. HIDE DEF b, w
  <2>. QED
    BY ONLY <2>1, Moved
<1>5. link' = Set(k, e, t)
  BY <1>2
<1>6. t \in EndState /\ Apart({"buf", "wire"}, r, t) /\ t.buf = c /\ t.wire = v
  <2>. HIDE DEF c, v, r
  <2>. QED
    BY <1>1, <1>4 DEF EndState, Apart
<1>. HIDE DEF c, v, r, s, t
<1>7. Arrived(t) = Arrived(r) /\ \A i \in 1 .. Arrived(r) : Nth(t, i) = Nth(r, i)
  BY <1>1, <1>3, <1>4, <1>6, NthMoved
<1>8. Pair(k, e, t, s)
  BY <1>1, <1>6, <1>7, FillKeeps DEF Fill, r
<1>. QED
  BY <1>5, <1>8, OneEnd DEF Fill, besideLink, s

LEMMA AbandonStep ==
    ASSUME StreamInv, DialInv, NEW k \in Attempt, NEW e \in End, scene' = scene,
           link[k][e].stage \notin {"up", "gone"}, link' = Set(k, e, Abandon(link[k][e]))
    PROVE  StreamInv'
<1>1. Pair(k, e, link[k][e], link[k][Other(e)])
  BY PairAt DEF DialInv
<1>. QED
  BY <1>1, AbandonKeeps, OneEnd

LEMMA WriteStep ==
    ASSUME StreamInv, DialInv, NEW k \in Attempt, NEW e \in End, WriteOn(k, e)
    PROVE  StreamInv'
<1>. DEFINE r == link[k][e]
            s == link[k][Other(e)]
            x == Part(Head(r.queue), r.written + 1)
            t == AfterWrite(r)
            w == Append(s.wire, x)
            u == [s EXCEPT !.wire = w]
<1>1. Pair(k, e, r, s) /\ r \in EndState /\ s \in EndState /\ k \in Nat /\ DOMAIN link[k] = End
  BY PairAt DEF DialInv
<1>2. r.queue # <<>> /\ ~r.closed /\ scene' = scene
  BY DEF WriteOn, besideLink
<1>3. /\ DOMAIN link' = DOMAIN link /\ \A j \in Attempt : j # k => link'[j] = link[j]
      /\ DOMAIN link'[k] = End /\ link'[k][e] = t /\ link'[k][Other(e)] = u
  BY <1>1, OtherEnd DEF WriteOn, Attempt
<1>4. /\ r.queue \in Seq(Frame) /\ r.queue[1] \in Frame /\ Head(r.queue) = r.queue[1]
      /\ Tail(r.queue) \in Seq(Frame) /\ Tailed(r.queue, Tail(r.queue)) /\ r.written \in {0, 1}
  <2>1. r.queue \in Seq(Frame) /\ r.written \in {0, 1}
    BY <1>1 DEF EndState
  <2>. DEFINE q == r.queue
  <2>2. q \in Seq(Frame) /\ q # <<>>
    BY <1>2, <2>1
  <2>. HIDE DEF q
  <2>3. q[1] \in Frame /\ Head(q) = q[1] /\ Tail(q) \in Seq(Frame) /\ Tailed(q, Tail(q))
    BY <2>2, TailIs
  <2>. QED
    BY <2>1, <2>3 DEF q
<1>5. x \in Piece /\ x = Part(r.queue[1], r.written + 1)
  BY <1>4, Frames
<1>6. w \in Seq(Piece) /\ Appended(s.wire, x, w)
  <2>1. s.wire \in Seq(Piece)
    BY <1>1 DEF EndState
  <2>. DEFINE q == s.wire
  <2>2. q \in Seq(Piece) /\ x \in Piece
    BY <1>5, <2>1
  <2>. HIDE DEF q, x
  <2>3. Append(q, x) \in Seq(Piece) /\ Appended(q, x, Append(q, x))
    BY <2>2, AppendIs
  <2>. QED
    BY <2>3 DEF q
<1>7. u \in EndState /\ Apart({"wire"}, s, u) /\ u.wire = w
  <2>. HIDE DEF w, s
  <2>. QED
    BY <1>1, <1>6 DEF EndState, Apart
<1>8. /\ t \in EndState /\ Apart({"queue", "written"}, r, t)
      /\ \/ r.written + 1 < Size(r.queue[1]) /\ t.written = r.written + 1 /\ t.queue = r.queue
         \/ ~(r.written + 1 < Size(r.queue[1])) /\ t.written = 0 /\ t.queue = Tail(r.queue)
  <2>. HIDE DEF r
  <2>1. CASE r.written + 1 < Size(r.queue[1])
    <3>1. t = [r EXCEPT !.written = @ + 1]
      BY <1>4, <2>1 DEF AfterWrite
    <3>2. r.written + 1 \in {0, 1}
      BY <1>4, <2>1 DEF Size
    <3>. QED
      BY <1>1, <2>1, <3>1, <3>2 DEF EndState, Apart
  <2>2. CASE ~(r.written + 1 < Size(r.queue[1]))
    <3>. DEFINE q == Tail(r.queue)
    <3>1. t = [r EXCEPT !.written = 0, !.queue = q] /\ q \in Seq(Frame)
      BY <1>4, <2>2 DEF AfterWrite
    <3>2. t \in EndState /\ Apart({"queue", "written"}, r, t) /\ t.written = 0 /\ t.queue = q
      <4>. HIDE DEF q, t
      <4>. QED
        BY <1>1, <3>1 DEF EndState, Apart
    <3>. QED
      BY <2>2, <3>2
  <2>. QED
    BY <2>1, <2>2
<1>. HIDE DEF r, s, t, u, x, w
<1>9. Pair(k, e, t, u)
  BY <1>1, <1>2, <1>4, <1>5, <1>6, <1>7, <1>8, WriteKeeps
<1>. QED
  BY <1>2, <1>3, <1>9, OneConnection

LEMMA FailStep ==
    ASSUME StreamInv, DialInv, NEW k \in Attempt, NEW e \in End, WriteFails(k, e)
    PROVE  StreamInv'
<1>. DEFINE r == link[k][e]
            s == link[k][Other(e)]
            q == Tail(r.queue)
            t == [r EXCEPT !.queue = q, !.written = 0]
<1>1. Pair(k, e, r, s) /\ r \in EndState /\ k \in Nat
  BY PairAt DEF DialInv
<1>2. r.queue # <<>> /\ r.closed /\ scene' = scene
  BY DEF WriteFails, besideLink
<1>3. link' = Set(k, e, IF r.stage \in Sending THEN Abandon(t) ELSE t)
  BY DEF WriteFails
<1>4. q \in Seq(Frame) /\ Tailed(r.queue, q)
  <2>. DEFINE p == r.queue
  <2>1. p \in Seq(Frame) /\ p # <<>>
    BY <1>1, <1>2 DEF EndState
  <2>. HIDE DEF p
  <2>2. Tail(p) \in Seq(Frame) /\ Tailed(p, Tail(p))
    BY <2>1, TailIs
  <2>. QED
    BY <2>2 DEF p
<1>. HIDE DEF r, s, q
<1>5. t \in EndState /\ Apart({"queue", "written"}, r, t) /\ t.written = 0 /\ t.queue = q /\ t.stage = r.stage
  BY <1>1, <1>4 DEF EndState, Apart
<1>. HIDE DEF t
<1>6. Pair(k, e, t, s)
  BY <1>1, <1>2, <1>4, <1>5, FailKeeps
<1>7. Pair(k, e, IF r.stage \in Sending THEN Abandon(t) ELSE t, s)
  BY <1>5, <1>6, AbandonKeeps DEF Sending
<1>. QED
  BY <1>2, <1>3, <1>7, OneEnd DEF s

LEMMA SentStep ==
    ASSUME StreamInv, DialInv, NEW k \in Attempt, NEW e \in End, Sent(k, e)
    PROVE  StreamInv'
<1>. DEFINE r == link[k][e]
            s == link[k][Other(e)]
<1>1. Pair(k, e, r, s) /\ r \in EndState /\ k \in Nat
  BY PairAt DEF DialInv
<1>2. r.stage \in Sending /\ r.queue = <<>> /\ scene' = scene
  BY DEF Sent, besideLink
<1>3. link' = Set(k, e, CASE r.stage = "hello_out" -> [r EXCEPT !.stage = "hello_in"]
                          [] r.stage = "ack_out" -> [r EXCEPT !.stage = "ack_in"]
                          [] r.stage = "reject_out" -> Abandon(r))
  BY DEF Sent
<1>4. ASSUME NEW g \in {"hello_in", "ack_in"},
             g = "hello_in" => r.stage = "hello_out", g = "ack_in" => r.stage = "ack_out"
      PROVE  Pair(k, e, [r EXCEPT !.stage = g], s)
  <2>. DEFINE t == [r EXCEPT !.stage = g]
  <2>1. t \in EndState /\ Apart({"stage"}, r, t) /\ t.stage = g
    <3>. HIDE DEF r
    <3>1. g \in Stage
      BY DEF Stage, Establishing
    <3>. QED
      BY <1>1, <3>1 DEF EndState, Apart
  <2>. HIDE DEF r, s, t
  <2>2. Pair(k, e, t, s)
    BY <1>1, <1>2, <1>4, <2>1, StageKeeps
  <2>. QED
    BY <2>2 DEF t
<1>5. CASE r.stage = "hello_out"
  BY <1>2, <1>3, <1>4, <1>5, OneEnd
<1>6. CASE r.stage = "ack_out"
  BY <1>2, <1>3, <1>4, <1>6, OneEnd
<1>7. CASE r.stage = "reject_out"
  BY <1>1, <1>2, <1>3, <1>7, AbandonKeeps, OneEnd
<1>. QED
  BY <1>2, <1>5, <1>6, <1>7 DEF Sending

LEMMA CloseStep ==
    ASSUME StreamInv, DialInv, NEW k \in Attempt, NEW e \in End, scene' = scene,
           link' \in DropConnection(link, k, e)
    PROVE  StreamInv'
<1>. DEFINE r == link[k][e]
            s == link[k][Other(e)]
<1>1. Pair(k, e, r, s) /\ r \in EndState /\ s \in EndState /\ DOMAIN link[k] = End
  BY PairAt DEF DialInv
<1>2. PICK x \in Prefixes(s.wire) : link' = Closed(link, k, e, x)
  BY DEF DropConnection
<1>. DEFINE t == [r EXCEPT !.stage = "gone", !.queue = <<>>, !.written = 0, !.wire = <<>>, !.buf = <<>>]
            u == Over(s, x)
<1>3. /\ DOMAIN link' = DOMAIN link /\ \A j \in Attempt : j # k => link'[j] = link[j]
      /\ DOMAIN link'[k] = End /\ link'[k][e] = t /\ link'[k][Other(e)] = u
  BY <1>1, <1>2, OtherEnd DEF Closed, Attempt
<1>4. x \in Seq(Piece)
  BY <1>1, <1>2, PrefixType DEF EndState
<1>. HIDE DEF r, s
<1>5. u \in EndState /\ Apart({"wire", "closed"}, s, u) /\ u.wire = x /\ u.closed
  BY <1>1, <1>4, FlagType DEF EndState, Apart, Over
<1>6. /\ t \in EndState /\ Apart({"stage", "queue", "written", "wire", "buf"}, r, t)
      /\ t.stage = "gone" /\ t.queue = <<>> /\ t.written = 0 /\ t.wire = <<>> /\ t.buf = <<>>
  <2>1. "gone" \in Stage /\ <<>> \in Seq(Frame) /\ <<>> \in Seq(Piece)
    BY DEF Stage
  <2>. QED
    BY <1>1, <2>1 DEF EndState, Apart
<1>. HIDE DEF t, u
<1>7. Pair(k, e, t, u)
  BY <1>1, <1>5, <1>6, ClosedKeeps
<1>. QED
  BY <1>3, <1>7, OneConnection

LEMMA HelloStep ==
    ASSUME StreamInv, DialInv, NEW k \in Attempt, NEW e \in End, RecvHello(k, e)
    PROVE  StreamInv'
<1>. DEFINE r == link[k][e]
            s == link[k][Other(e)]
            f == Parsed(r.buf)
            d == Drained(r.buf)
            a == [[[r EXCEPT !.buf = d] EXCEPT !.queue = Append(@, HelloAck("Accepted"))]
                      EXCEPT !.stage = "ack_out", !.peer = f.session]
            z == [[[r EXCEPT !.buf = d] EXCEPT !.queue = Append(@, HelloAck("Rejected"))]
                      EXCEPT !.stage = "reject_out"]
<1>1. Pair(k, e, r, s) /\ r \in EndState /\ k \in Nat
  BY PairAt DEF DialInv
<1>2. r.stage = "hello_in" /\ Buffered(r.buf) /\ scene' = scene
  BY DEF RecvHello, besideLink
<1>3. link' = Set(k, e, IF VerifyHello(e, f) THEN a ELSE z)
  BY DEF RecvHello, Queued
<1>4. f \in Frame /\ d \in Seq(Piece)
  BY <1>1, <1>2, ParsedType DEF EndState
<1>5. ASSUME NEW st \in {"Accepted", "Rejected"}
      PROVE  Append(r.queue, HelloAck(st)) \in Seq(Frame)
  <2>. DEFINE q == r.queue
              g == HelloAck(st)
  <2>1. q \in Seq(Frame) /\ g \in Frame
    BY <1>1, Frames DEF EndState
  <2>. HIDE DEF q, g
  <2>2. Append(q, g) \in Seq(Frame)
    BY <2>1
  <2>. QED
    BY <2>2 DEF q, g
<1>6. ASSUME VerifyHello(e, f)
      PROVE  Pair(k, e, a, s)
  <2>. DEFINE q == Append(r.queue, HelloAck("Accepted"))
              p == f.session
  <2>1. p \in PeerId /\ q \in Seq(Frame) /\ "ack_out" \in Stage
    BY <1>4, <1>5, <1>6, SessionType DEF VerifyHello, Stage, Establishing
  <2>2. a = [r EXCEPT !.buf = d, !.queue = q, !.stage = "ack_out", !.peer = p]
    <3>. HIDE DEF r, f, d
    <3>. QED
      BY <1>1 DEF EndState
  <2>3. /\ a \in EndState /\ Apart({"stage", "queue", "buf", "peer"}, r, a)
        /\ a.buf = d /\ a.queue = q /\ a.stage = "ack_out" /\ a.peer = p
    <3>. HIDE DEF r, f, d, q, p, a
    <3>. QED
      BY <1>1, <1>4, <2>1, <2>2 DEF EndState, Apart
  <2>. HIDE DEF a, r, s
  <2>. QED
    BY <1>1, <1>2, <2>3, HelloKeeps
<1>7. Pair(k, e, z, s)
  <2>. DEFINE q == Append(r.queue, HelloAck("Rejected"))
  <2>1. q \in Seq(Frame) /\ "reject_out" \in Stage
    BY <1>5 DEF Stage, Establishing
  <2>2. z = [r EXCEPT !.buf = d, !.queue = q, !.stage = "reject_out"]
    <3>. HIDE DEF r, f, d
    <3>. QED
      BY <1>1 DEF EndState
  <2>3. /\ z \in EndState /\ Apart({"stage", "queue", "buf", "peer"}, r, z)
        /\ z.buf = d /\ z.queue = q /\ z.stage = "reject_out" /\ z.peer = r.peer
    <3>. HIDE DEF r, f, d, q, z
    <3>. QED
      BY <1>1, <1>4, <2>1, <2>2 DEF EndState, Apart
  <2>. HIDE DEF z, r, s
  <2>. QED
    BY <1>1, <1>2, <2>3, HelloKeeps
<1>8. Pair(k, e, IF VerifyHello(e, f) THEN a ELSE z, s)
  BY <1>6, <1>7
<1>. HIDE DEF a, z, f
<1>. QED
  BY <1>2, <1>3, <1>8, OneEnd

LEMMA AckStep ==
    ASSUME StreamInv, DialInv, NEW k \in Attempt, NEW e \in End, RecvAck(k, e)
    PROVE  StreamInv'
<1>. DEFINE r == link[k][e]
            s == link[k][Other(e)]
            d == Drained(r.buf)
            a == [[r EXCEPT !.buf = d] EXCEPT !.stage = "up"]
            z == [r EXCEPT !.buf = d]
<1>1. Pair(k, e, r, s) /\ r \in EndState /\ k \in Nat
  BY PairAt DEF DialInv
<1>2. r.stage = "ack_in" /\ Buffered(r.buf) /\ scene' = scene
  BY DEF RecvAck, besideLink
<1>3. link' = Set(k, e, IF Accepts(Parsed(r.buf)) THEN a ELSE Abandon(z))
  BY DEF RecvAck
<1>4. d \in Seq(Piece)
  BY <1>1, <1>2, ParsedType DEF EndState
<1>5. ASSUME Accepts(Parsed(r.buf))
      PROVE  Pair(k, e, a, s)
  <2>1. a \in EndState /\ Apart({"stage", "buf"}, r, a) /\ a.buf = d /\ a.stage = "up"
    <3>1. "up" \in Stage
      BY DEF Stage
    <3>. HIDE DEF r, d
    <3>. QED
      BY <1>1, <1>4, <3>1 DEF EndState, Apart
  <2>. HIDE DEF a, r, s
  <2>. QED
    BY <1>1, <1>2, <1>5, <2>1, AckKeeps
<1>6. Pair(k, e, Abandon(z), s)
  <2>1. Abandon(z) = Abandon(r)
    <3>. HIDE DEF r, d
    <3>. QED
      BY <1>1 DEF Abandon, EndState
  <2>. QED
    BY <1>1, <1>2, <2>1, AbandonKeeps
<1>7. Pair(k, e, IF Accepts(Parsed(r.buf)) THEN a ELSE Abandon(z), s)
  BY <1>5, <1>6
<1>. HIDE DEF a, z
<1>. QED
  BY <1>2, <1>3, <1>7, OneEnd

LEMMA RecvStep ==
    ASSUME StreamInv, DialInv, NEW k \in Attempt, NEW e \in End, Recv(k, e)
    PROVE  StreamInv'
<1>. DEFINE r == link[k][e]
            s == link[k][Other(e)]
            d == Drained(r.buf)
            g == Append(r.got, Parsed(r.buf))
            t == [r EXCEPT !.got = g, !.buf = d]
<1>1. Pair(k, e, r, s) /\ r \in EndState /\ k \in Nat
  BY PairAt DEF DialInv
<1>2. r.stage = "up" /\ Buffered(r.buf) /\ scene' = scene /\ link' = Set(k, e, t)
  BY DEF Recv, besideLink
<1>3. d \in Seq(Piece) /\ g \in Seq(Frame)
  <2>1. d \in Seq(Piece) /\ Parsed(r.buf) \in Frame /\ r.got \in Seq(Frame)
    BY <1>1, <1>2, ParsedType DEF EndState
  <2>. DEFINE q == r.got
              x == Parsed(r.buf)
  <2>2. q \in Seq(Frame) /\ x \in Frame
    BY <2>1
  <2>. HIDE DEF q, x
  <2>3. Append(q, x) \in Seq(Frame)
    BY <2>2
  <2>. QED
    BY <2>1, <2>3 DEF q, x
<1>4. t \in EndState /\ Apart({"got", "buf"}, r, t) /\ t.buf = d /\ t.got = g
  <2>. HIDE DEF r, d, g
  <2>. QED
    BY <1>1, <1>3 DEF EndState, Apart
<1>. HIDE DEF r, s, t
<1>5. Pair(k, e, t, s)
  BY <1>1, <1>2, <1>4, RecvKeeps
<1>. QED
  BY <1>2, <1>5, OneEnd DEF s

LEMMA PostStep ==
    ASSUME StreamInv, DialInv, NEW k \in Attempt, NEW e \in End, NEW f \in SessionFrame,
           Post(k, e, f), scene' = scene
    PROVE  StreamInv'
<1>. DEFINE r == link[k][e]
            s == link[k][Other(e)]
            q == Append(r.queue, f)
            g == Append(r.sent, f)
            t == [r EXCEPT !.queue = q, !.sent = g]
<1>1. Pair(k, e, r, s) /\ r \in EndState /\ k \in Nat
  BY PairAt DEF DialInv
<1>2. r.stage = "up" /\ link' = Set(k, e, [[r EXCEPT !.queue = q] EXCEPT !.sent = Append(@, f)])
  BY DEF Post, Queued
<1>3. /\ q \in Seq(Frame) /\ g \in Seq(SessionFrame)
      /\ Appended(r.queue, f, q) /\ Appended(r.sent, f, g)
  <2>. DEFINE a == r.queue
              b == r.sent
  <2>1. a \in Seq(Frame) /\ b \in Seq(SessionFrame) /\ f \in Frame
    BY <1>1, Frames DEF EndState
  <2>. HIDE DEF a, b
  <2>2. /\ Append(a, f) \in Seq(Frame) /\ Append(b, f) \in Seq(SessionFrame)
        /\ Appended(a, f, Append(a, f)) /\ Appended(b, f, Append(b, f))
    BY <2>1, AppendIs
  <2>. QED
    BY <2>2 DEF a, b
<1>4. link' = Set(k, e, t)
  <2>1. [[r EXCEPT !.queue = q] EXCEPT !.sent = Append(@, f)] = t
    <3>. HIDE DEF r, q
    <3>. QED
      BY <1>1 DEF EndState
  <2>. QED
    BY <1>2, <2>1
<1>5. t \in EndState /\ Apart({"queue", "sent"}, r, t) /\ t.queue = q /\ t.sent = g
  <2>. HIDE DEF r, q, g
  <2>. QED
    BY <1>1, <1>3 DEF EndState, Apart
<1>. HIDE DEF r, s, t, q, g
<1>6. Pair(k, e, t, s)
  BY <1>1, <1>2, <1>3, <1>5, PostKeeps
<1>. QED
  BY <1>4, <1>6, OneEnd DEF s

LEMMA CancelStep ==
    ASSUME StreamInv, DialInv, NEW k \in Attempt, NEW e \in End, CancelRecv(k, e)
    PROVE  StreamInv'
<1>1. link[k][e] \in EndState /\ DOMAIN link[k] = End
  BY PairAt DEF DialInv
<1>2. link' = [link EXCEPT ![k][e].buf = @] /\ scene' = scene
  BY DEF CancelRecv, AfterCancel, besideLink
<1>3. /\ DOMAIN link' = DOMAIN link /\ \A j \in Attempt : j # k => link'[j] = link[j]
      /\ DOMAIN link'[k] = End /\ link'[k][e] = [link[k][e] EXCEPT !.buf = @]
      /\ link'[k][Other(e)] = link[k][Other(e)]
  BY <1>1, <1>2, OtherEnd DEF Attempt
<1>4. [link[k][e] EXCEPT !.buf = @] = link[k][e]
  BY <1>1 DEF EndState
<1>5. Pair(k, e, link[k][e], link[k][Other(e)])
  BY PairAt DEF DialInv
<1>. QED
  BY <1>2, <1>3, <1>4, <1>5, OneConnection

LEMMA ConnectedStep ==
    ASSUME StreamInv, DialInv, NEW k \in Attempt, Connected(k)
    PROVE  StreamInv'
<1>. DEFINE r == link[k]["initiator"]
            s == link[k]["acceptor"]
            q == Append(r.queue, Hello(k, "initiator"))
            w == <<Part(Prime, 1)>>
            t == [[r EXCEPT !.queue = q] EXCEPT !.stage = "hello_out"]
            u == [s EXCEPT !.wire = w]
<1>1. /\ Pair(k, "initiator", r, s) /\ r \in EndState /\ s \in EndState /\ k \in Nat
      /\ DOMAIN link[k] = End
  BY PairAt, OtherEnd DEF DialInv, End
<1>2. r.stage = "connecting" /\ s.stage # "none" /\ ~r.closed /\ scene' = scene
  BY DEF Connected, besideLink
<1>3. /\ DOMAIN link' = DOMAIN link /\ \A j \in Attempt : j # k => link'[j] = link[j]
      /\ DOMAIN link'[k] = End /\ link'[k]["initiator"] = t /\ link'[k]["acceptor"] = u
  BY <1>1 DEF Connected, StartHello, Queued, Attempt, End
<1>4. r.queue = <<>>
  BY <1>1, <1>2 DEF Pair, EndOK, QueueOK
<1>5. w \in Seq(Piece) /\ q = <<Hello(k, "initiator")>> /\ q \in Seq(Frame) /\ "hello_out" \in Stage
  <2>1. Part(Prime, 1) \in Piece /\ Hello(k, "initiator") \in Frame /\ "hello_out" \in Stage
    BY <1>1, Frames DEF Stage, Establishing, End
  <2>2. q = <<Hello(k, "initiator")>>
    BY <1>4
  <2>. QED
    BY <2>1, <2>2, Singleton
<1>. HIDE DEF r, s, q, w
<1>6. t \in EndState /\ Apart({"stage", "queue"}, r, t) /\ t.stage = "hello_out" /\ t.queue = q
  BY <1>1, <1>5 DEF EndState, Apart
<1>7. u \in EndState /\ Apart({"wire"}, s, u) /\ u.wire = w
  BY <1>1, <1>5 DEF EndState, Apart
<1>. HIDE DEF t, u
<1>8. Pair(k, "initiator", t, u)
  BY <1>1, <1>2, <1>5, <1>6, <1>7, ConnectedKeeps DEF w
<1>9. "initiator" \in End /\ Other("initiator") = "acceptor"
  BY OtherEnd DEF End
<1>. QED
  BY <1>2, <1>3, <1>8, <1>9, OneConnection

LEMMA PrimeStep ==
    ASSUME StreamInv, DialInv, NEW k \in Attempt, ConsumePrime(k)
    PROVE  StreamInv'
<1>. DEFINE r == link[k]["acceptor"]
            s == link[k]["initiator"]
            w == Tail(r.wire)
            b == IF Head(r.wire).frame = Prime THEN <<>> ELSE <<Head(r.wire)>>
            q == Append(r.queue, Hello(k, "acceptor"))
            t == [[[r EXCEPT !.wire = w, !.buf = b] EXCEPT !.queue = Append(@, Hello(k, "acceptor"))]
                      EXCEPT !.stage = "hello_out"]
<1>0. "acceptor" \in End /\ Other("acceptor") = "initiator"
  BY OtherEnd DEF End
<1>1. Pair(k, "acceptor", r, s) /\ r \in EndState /\ k \in Nat
  BY <1>0, PairAt DEF DialInv
<1>2. r.stage = "prime" /\ r.wire # <<>> /\ scene' = scene /\ link' = Set(k, "acceptor", t)
  BY DEF ConsumePrime, StartHello, Queued, besideLink
<1>3. r.queue = <<>>
  BY <1>1, <1>2 DEF Pair, EndOK, QueueOK
<1>4. q = <<Hello(k, "acceptor")>> /\ q \in Seq(Frame) /\ "hello_out" \in Stage
  <2>1. Hello(k, "acceptor") \in Frame /\ "hello_out" \in Stage
    BY <1>0, <1>1, Frames DEF Stage, Establishing
  <2>2. q = <<Hello(k, "acceptor")>>
    BY <1>3
  <2>. QED
    BY <2>1, <2>2, Singleton
<1>5. w \in Seq(Piece) /\ Tailed(r.wire, w) /\ Head(r.wire) = r.wire[1] /\ r.wire[1] \in Piece
  <2>. DEFINE p == r.wire
  <2>1. p \in Seq(Piece) /\ p # <<>>
    BY <1>1, <1>2 DEF EndState
  <2>. HIDE DEF p
  <2>2. Tail(p) \in Seq(Piece) /\ Tailed(p, Tail(p)) /\ Head(p) = p[1] /\ p[1] \in Piece
    BY <2>1, TailIs
  <2>. QED
    BY <2>2 DEF p
<1>6. b \in Seq(Piece) /\ b = IF r.wire[1].frame = Prime THEN <<>> ELSE <<r.wire[1]>>
  BY <1>5
<1>7. t = [r EXCEPT !.wire = w, !.buf = b, !.queue = q, !.stage = "hello_out"]
  <2>. HIDE DEF r, w, b
  <2>. QED
    BY <1>1 DEF EndState
<1>8. /\ t \in EndState /\ Apart({"stage", "queue", "wire", "buf"}, r, t)
      /\ t.wire = w /\ t.buf = b /\ t.queue = q /\ t.stage = "hello_out"
  <2>. HIDE DEF r, w, b, q, t
  <2>. QED
    BY <1>1, <1>4, <1>5, <1>6, <1>7 DEF EndState, Apart
<1>. HIDE DEF r, s, w, b, q, t
<1>9. Pair(k, "acceptor", t, s)
  BY <1>1, <1>2, <1>4, <1>5, <1>6, <1>8, PrimeKeeps
<1>. QED
  BY <1>0, <1>2, <1>9, OneEnd DEF s

\* An attempt begins at one end: it dials, or takes what came in.
LEMMA BeginKeeps ==
    ASSUME StreamInv, DialInv, NEW k \in Attempt, NEW e \in End, link[k][e].stage = "none",
           NEW g, g = IF e = "acceptor" THEN "prime" ELSE "connecting"
    PROVE  Pair(k, e, [link[k][e] EXCEPT !.stage = g], link[k][Other(e)])
<1>. DEFINE r == link[k][e]
            s == link[k][Other(e)]
            t == [r EXCEPT !.stage = g]
<1>1. Pair(k, e, r, s) /\ r \in EndState /\ r.stage = "none"
  BY PairAt DEF DialInv
<1>2. g \in Stage
  BY DEF Stage, Establishing
<1>. HIDE DEF r, s
<1>3. t \in EndState /\ Apart({"stage"}, r, t) /\ t.stage = g
  BY <1>1, <1>2 DEF EndState, Apart
<1>. HIDE DEF t
<1>4. Pair(k, e, t, s)
  BY <1>1, <1>3, StageKeeps
<1>. QED
  BY <1>4 DEF t, r, s

LEMMA AcceptStep ==
    ASSUME StreamInv, DialInv, NEW k \in Attempt, AcceptIncoming(k)
    PROVE  StreamInv'
<1>1. link[k]["acceptor"].stage = "none" /\ scene' = scene /\ "acceptor" \in End
      /\ link' = Set(k, "acceptor", [link[k]["acceptor"] EXCEPT !.stage = "prime"])
  BY DEF AcceptIncoming, Set, End
<1>. QED
  BY <1>1, BeginKeeps, OneEnd

LEMMA LostStep ==
    ASSUME StreamInv, DialInv, NEW k \in Attempt, PathLost(k)
    PROVE  StreamInv'
<1>. DEFINE r == link[k]["initiator"]
            s == link[k]["acceptor"]
<1>0. "initiator" \in End /\ "acceptor" \in End /\ Other("initiator") = "acceptor" /\ Other("acceptor") = "initiator"
  BY OtherEnd DEF End
<1>1. Pair(k, "initiator", r, s) /\ r \in EndState /\ s \in EndState /\ DOMAIN link[k] = End
  BY <1>0, PairAt DEF DialInv
<1>2. PICK x \in Prefixes(r.wire), y \in Prefixes(s.wire) :
        link' = [link EXCEPT ![k]["initiator"] = Over(@, x), ![k]["acceptor"] = Over(@, y)]
  BY DEF PathLost
<1>. DEFINE t == Over(r, x)
            u == Over(s, y)
<1>3. /\ DOMAIN link' = DOMAIN link /\ \A j \in Attempt : j # k => link'[j] = link[j]
      /\ DOMAIN link'[k] = End /\ link'[k]["initiator"] = t /\ link'[k]["acceptor"] = u
  BY <1>1, <1>2 DEF Attempt, End
<1>4. ASSUME NEW a \in EndState, NEW p \in Prefixes(a.wire)
      PROVE  Over(a, p) \in EndState /\ Apart({"wire", "closed"}, a, Over(a, p)) /\ Over(a, p).wire = p /\ Over(a, p).closed
  <2>1. p \in Seq(Piece)
    BY <1>4, PrefixType DEF EndState
  <2>. QED
    BY <1>4, <2>1, FlagType DEF EndState, Apart, Over
<1>5. /\ t \in EndState /\ Apart({"wire", "closed"}, r, t) /\ t.wire = x /\ t.closed
      /\ u \in EndState /\ Apart({"wire", "closed"}, s, u) /\ u.wire = y /\ u.closed
  BY <1>1, <1>4
<1>. HIDE DEF t, u, r, s
<1>6. EndOK(k, "initiator", r, s) /\ EndOK(k, "acceptor", s, r)
  BY <1>0, <1>1 DEF Pair
<1>7. /\ u.stage = s.stage /\ u.peer = s.peer /\ u.sent = s.sent
      /\ t.stage = r.stage /\ t.peer = r.peer /\ t.sent = r.sent
  BY <1>1, <1>5 DEF EndState, Apart
<1>8. EndOK(k, "initiator", t, u)
  BY <1>0, <1>5, <1>6, <1>7, CutKeeps
<1>9. EndOK(k, "acceptor", u, t)
  BY <1>0, <1>5, <1>6, <1>7, CutKeeps
<1>10. Pair(k, "initiator", t, u) /\ scene' = scene
  BY <1>0, <1>8, <1>9 DEF Pair, PathLost
<1>. QED
  BY <1>0, <1>3, <1>10, OneConnection

LEMMA EachConnection ==
    ASSUME StreamInv, scene' = scene, DOMAIN link' = DOMAIN link, NEW e \in End,
           \A j \in Attempt : DOMAIN link'[j] = End /\ Pair(j, e, link'[j][e], link'[j][Other(e)])
    PROVE  StreamInv'
<1>1. ASSUME NEW j \in Attempt, NEW d \in End
      PROVE  EndOK(j, d, link'[j][d], link'[j][Other(d)])
  BY OtherEnd DEF Pair, End
<1>. QED
  BY <1>1 DEF StreamInv, Attempt

LEMMA At ==
    ASSUME StreamInv, DialInv
    PROVE  /\ Attempt = 1 .. Len(scene.candidates) /\ Len(scene.candidates) \in Nat
           /\ dial.state # "idle" => dial.at \in Attempt
           /\ serving.state # "listen" => serving.at \in Attempt
<1>. DEFINE n == Len(scene.candidates)
<1>1. n \in Nat /\ dial.at \in 0 .. n /\ serving.at \in 0 .. n
  BY DEF DialInv
<1>2. Attempt = 1 .. n
  BY DEF StreamInv, Attempt
<1>3. (dial.state # "idle" => dial.at > 0) /\ (serving.state # "listen" => serving.at > 0)
  BY DEF DialInv
<1>. HIDE DEF n
<1>4. (dial.state # "idle" => dial.at \in 1 .. n) /\ (serving.state # "listen" => serving.at \in 1 .. n)
  BY <1>1, <1>3
<1>. QED
  BY <1>1, <1>2, <1>4 DEF n

\* A new attempt, after the last one was given up or before the first.
LEMMA DialOn ==
    ASSUME StreamInv, DialInv, scene' = scene, UNCHANGED serving,
           dial'.at = dial.at + 1, DOMAIN dial' = {"at", "errors", "state"}, dial.at < Len(scene.candidates),
           NEW l, DOMAIN l = Attempt, \A j \in Attempt : DOMAIN l[j] = End,
           \A j \in Attempt : Pair(j, "initiator", l[j]["initiator"], l[j]["acceptor"]),
           \A j \in Attempt : j > dial.at => l[j] = link[j],
           link' = [l EXCEPT ![dial.at + 1]["initiator"].stage = "connecting"]
    PROVE  StreamInv' /\ DialInv'
<1>. DEFINE n == Len(scene.candidates)
            k == dial.at + 1
            r == link[k]["initiator"]
<1>1. n \in Nat /\ dial.at \in 0 .. n /\ Attempt = 1 .. n
  BY At DEF DialInv
<1>2. k \in Attempt /\ k > dial.at /\ k \in 0 .. n /\ k > 0
  BY <1>1
<1>3. r.stage = "none" /\ l[k] = link[k] /\ r \in EndState /\ "initiator" \in End
      /\ Other("initiator") = "acceptor"
  BY <1>2, OtherEnd, PairAt DEF DialInv, End
<1>4. /\ DOMAIN link' = DOMAIN link /\ \A j \in Attempt : DOMAIN link'[j] = End
      /\ \A j \in Attempt : j # k => link'[j] = l[j]
      /\ link'[k]["initiator"] = [r EXCEPT !.stage = "connecting"] /\ link'[k]["acceptor"] = link[k]["acceptor"]
  <2>1. link' = [l EXCEPT ![k]["initiator"].stage = "connecting"] /\ r = l[k]["initiator"]
    BY <1>3
  <2>. HIDE DEF k, r
  <2>. QED
    BY <1>2, <1>3, <2>1 DEF Attempt, End
<1>5. Pair(k, "initiator", [r EXCEPT !.stage = "connecting"], link[k]["acceptor"])
  BY <1>2, <1>3, BeginKeeps
<1>6. StreamInv'
  BY <1>3, <1>4, <1>5, EachConnection
<1>7. dial'.at = k
  OBVIOUS
<1>8. \A j \in Attempt' : j > dial'.at => link'[j]["initiator"].stage = "none"
  <2>1. Attempt' = Attempt
    BY <1>4 DEF Attempt
  <2>2. \A j \in Attempt : j > k => j # k /\ j > dial.at
    BY <1>1
  <2>. QED
    BY <1>4, <1>7, <2>1, <2>2 DEF DialInv
<1>. HIDE DEF n, k, r
<1>9. DialInv'
  BY <1>2, <1>7, <1>8 DEF DialInv, n
<1>. QED
  BY <1>6, <1>9

LEMMA StartStep ==
    ASSUME StreamInv, DialInv, StartDial
    PROVE  StreamInv' /\ DialInv'
<1>1. /\ scene' = scene /\ UNCHANGED serving /\ dial.at < Len(scene.candidates)
      /\ dial' = [at |-> dial.at + 1, errors |-> <<>>, state |-> "trying"]
      /\ link' = [link EXCEPT ![dial.at + 1]["initiator"].stage = "connecting"]
  BY DEF StartDial
<1>2. /\ DOMAIN link = Attempt /\ \A j \in Attempt : DOMAIN link[j] = End
      /\ \A j \in Attempt : Pair(j, "initiator", link[j]["initiator"], link[j]["acceptor"])
  BY PairAt, OtherEnd DEF DialInv, Attempt, End
<1>3. dial'.at = dial.at + 1 /\ DOMAIN dial' = {"at", "errors", "state"}
  BY <1>1
<1>. QED
  BY <1>1, <1>2, <1>3, DialOn

\* The attempt is given up, if it was not already.
GivenUp(l) ==
    \/ l = link
    \/ Dialed.stage \notin {"up", "gone"} /\ l = Set(dial.at, "initiator", Abandon(Dialed))

LEMMA NextStep ==
    ASSUME StreamInv, DialInv, dial.state = "trying", scene' = scene, UNCHANGED serving,
           NEW l, GivenUp(l), NEW why, NextCandidate(l, why)
    PROVE  StreamInv' /\ DialInv'
<1>. DEFINE k == dial.at
<1>1. k \in Attempt /\ Attempt = 1 .. Len(scene.candidates) /\ Len(scene.candidates) \in Nat /\ k \in Nat
  BY At
<1>2. /\ DOMAIN link = Attempt /\ \A j \in Attempt : DOMAIN link[j] = End
      /\ \A j \in Attempt : Pair(j, "initiator", link[j]["initiator"], link[j]["acceptor"])
  BY PairAt, OtherEnd DEF DialInv, Attempt, End
<1>3. /\ DOMAIN l = Attempt /\ \A j \in Attempt : DOMAIN l[j] = End
      /\ \A j \in Attempt : Pair(j, "initiator", l[j]["initiator"], l[j]["acceptor"])
      /\ \A j \in Attempt : j # k => l[j] = link[j]
  <2>1. CASE l = link
    BY <1>2, <2>1
  <2>2. CASE Dialed.stage \notin {"up", "gone"} /\ l = Set(dial.at, "initiator", Abandon(Dialed))
    <3>1. Pair(k, "initiator", Abandon(link[k]["initiator"]), link[k]["acceptor"])
      BY <1>1, <1>2, <2>2, AbandonKeeps DEF Dialed, End
    <3>2. /\ DOMAIN l = Attempt /\ \A j \in Attempt : DOMAIN l[j] = End
          /\ \A j \in Attempt : j # k => l[j] = link[j]
          /\ l[k]["initiator"] = Abandon(link[k]["initiator"]) /\ l[k]["acceptor"] = link[k]["acceptor"]
      BY <1>1, <1>2, <2>2 DEF Set, Dialed, End
    <3>. QED
      BY <1>2, <3>1, <3>2
  <2>. QED
    BY <2>1, <2>2 DEF GivenUp
<1>4. CASE k < Len(scene.candidates)
  <2>1. /\ dial' = [dial EXCEPT !.at = k + 1, !.errors = Append(dial.errors, why)]
        /\ link' = [l EXCEPT ![k + 1]["initiator"].stage = "connecting"]
    BY <1>4 DEF NextCandidate
  <2>2. dial'.at = dial.at + 1 /\ DOMAIN dial' = {"at", "errors", "state"}
    BY <2>1 DEF DialInv
  <2>3. \A j \in Attempt : j > dial.at => l[j] = link[j]
    BY <1>1, <1>3
  <2>. QED
    BY <1>3, <1>4, <2>1, <2>2, <2>3, DialOn
<1>5. CASE ~(k < Len(scene.candidates))
  <2>1. link' = l /\ dial' = [dial EXCEPT !.state = Lead(Append(dial.errors, why)), !.errors = Append(dial.errors, why)]
    BY <1>5 DEF NextCandidate
  <2>2. StreamInv'
    BY <1>2, <1>3, <2>1, EachConnection, OtherEnd DEF End, Attempt
  <2>3. dial'.at = k /\ DOMAIN dial' = {"at", "errors", "state"} /\ k > 0
    BY <1>1, <2>1 DEF DialInv
  <2>4. \A j \in Attempt' : ~(j > k)
    BY <1>1, <1>3, <1>5, <2>1 DEF Attempt
  <2>. QED
    BY <2>2, <2>3, <2>4 DEF DialInv
<1>. QED
  BY <1>4, <1>5


\* An attempt not begun at an end is not begun there by what this names.
Untouched ==
    /\ DOMAIN link' = DOMAIN link
    /\ \A j \in Attempt : link[j]["initiator"].stage = "none" => link'[j]["initiator"].stage = "none"

LEMMA SetUntouched ==
    ASSUME StreamInv, NEW k \in Attempt, NEW e \in End, NEW t, link' = Set(k, e, t),
           link[k][e].stage # "none" \/ t.stage = link[k][e].stage
    PROVE  Untouched
BY DEF Untouched, Attempt, Set, StreamInv, End

LEMMA DropUntouched ==
    ASSUME StreamInv, DialInv, NEW k \in Attempt, NEW e \in End, link' \in DropConnection(link, k, e),
           link[k][e].stage # "none"
    PROVE  Untouched
<1>1. DOMAIN link[k] = End /\ link[k][e] \in EndState /\ link[k][Other(e)] \in EndState
  BY PairAt DEF DialInv
<1>2. PICK x : link' = Closed(link, k, e, x)
  BY DEF DropConnection
<1>3. /\ DOMAIN link' = DOMAIN link /\ \A j \in Attempt : j # k => link'[j] = link[j]
      /\ link'[k][Other(e)] = Over(link[k][Other(e)], x)
  BY <1>1, <1>2, OtherEnd DEF Closed, Attempt
<1>4. link'[k][Other(e)].stage = link[k][Other(e)].stage
  BY <1>1, <1>3 DEF Over, EndState
<1>5. \A d \in End : d = e \/ d = Other(e)
  BY OtherEnd DEF End
<1>. QED
  BY <1>3, <1>4, <1>5 DEF Untouched, End

LEMMA ControlUntouched ==
    ASSUME StreamInv, DialInv, NEW k \in Attempt, NEW e \in End,
           \/ WriteOn(k, e) \/ WriteFails(k, e) \/ Sent(k, e) \/ Fill(k, e) \/ ReadFails(k, e)
           \/ LetGo(k, e) \/ RecvHello(k, e) \/ RecvAck(k, e)
           \/ Send(k, e) \/ Recv(k, e) \/ CancelRecv(k, e)
           \/ Connected(k) \/ ConsumePrime(k)
    PROVE  Untouched
<1>1. DOMAIN link[k] = End /\ link[k][e] \in EndState /\ link[k][Other(e)] \in EndState
  BY PairAt DEF DialInv
<1>2. CASE WriteOn(k, e)
  <2>1. /\ DOMAIN link' = DOMAIN link /\ \A j \in Attempt : j # k => link'[j] = link[j]
        /\ link'[k][e] = AfterWrite(link[k][e])
        /\ link'[k][Other(e)].stage = link[k][Other(e)].stage
    BY <1>1, <1>2, OtherEnd DEF WriteOn, Attempt, EndState
  <2>2. AfterWrite(link[k][e]).stage = link[k][e].stage
    BY <1>1 DEF AfterWrite, EndState
  <2>3. \A d \in End : d = e \/ d = Other(e)
    BY OtherEnd DEF End
  <2>. QED
    BY <2>1, <2>2, <2>3 DEF Untouched, End
<1>3. CASE WriteFails(k, e)
  <2>1. EndOK(k, e, link[k][e], link[k][Other(e)])
    BY DEF StreamInv
  <2>2. link[k][e].stage # "none"
    BY <1>3, <2>1 DEF WriteFails, EndOK, QueueOK
  <2>. QED
    BY <1>3, <2>2, SetUntouched DEF WriteFails
<1>4. CASE Sent(k, e)
  BY <1>4, SetUntouched DEF Sent, Sending
<1>5. CASE Fill(k, e)
  BY <1>5, SetUntouched DEF Fill
<1>6. CASE ReadFails(k, e)
  BY <1>6, SetUntouched DEF ReadFails
<1>7. CASE LetGo(k, e)
  BY <1>7, DropUntouched DEF LetGo
<1>8. CASE RecvHello(k, e)
  BY <1>8, SetUntouched DEF RecvHello
<1>9. CASE RecvAck(k, e)
  BY <1>9, SetUntouched DEF RecvAck
<1>10. CASE Send(k, e)
  BY <1>10, SetUntouched DEF Send, Post
<1>11. CASE Recv(k, e)
  BY <1>11, SetUntouched DEF Recv
<1>12. CASE CancelRecv(k, e)
  <2>1. link' = Set(k, e, [link[k][e] EXCEPT !.buf = AfterCancel(@)])
    BY <1>12 DEF CancelRecv, Set
  <2>. QED
    BY <1>12, <2>1, SetUntouched DEF CancelRecv
<1>13. CASE Connected(k)
  <2>1. /\ DOMAIN link' = DOMAIN link /\ \A j \in Attempt : j # k => link'[j] = link[j]
    BY <1>13 DEF Connected, Attempt
  <2>. QED
    BY <1>13, <2>1 DEF Untouched, Connected
<1>14. CASE ConsumePrime(k)
  BY <1>14, SetUntouched DEF ConsumePrime, End
<1>. QED
  BY <1>2, <1>3, <1>4, <1>5, <1>6, <1>7, <1>8, <1>9, <1>10, <1>11, <1>12, <1>13, <1>14

LEMMA DialKept ==
    ASSUME StreamInv, DialInv, scene' = scene, Untouched, dial'.at = dial.at,
           DOMAIN dial' = DOMAIN dial, dial.state = "idle" => dial'.state = "idle",
           DOMAIN serving' = DOMAIN serving, serving'.at \in 0 .. Len(scene.candidates),
           serving'.state # "listen" => serving'.at > 0
    PROVE  DialInv'
<1>1. dial'.state # "idle" => dial'.at > 0
  BY DEF DialInv
<1>2. Attempt' = Attempt
  BY DEF Untouched, Attempt
<1>. QED
  BY <1>1, <1>2 DEF DialInv, Untouched

-----------------------------------------------------------------------------
(* The invariant of the transport                                          *)

LinkInv == StreamInv /\ DialInv /\ MotionInv /\ BulkInv

LEMMA ControlStep ==
    ASSUME StreamInv, DialInv, NEW k \in Attempt, NEW e \in End,
           \/ WriteOn(k, e) \/ WriteFails(k, e) \/ Sent(k, e) \/ Fill(k, e) \/ ReadFails(k, e)
           \/ LetGo(k, e) \/ RecvHello(k, e) \/ RecvAck(k, e)
           \/ Send(k, e) \/ Recv(k, e) \/ CancelRecv(k, e)
           \/ Connected(k) \/ ConsumePrime(k)
    PROVE  StreamInv' /\ DialInv'
<1>1. scene' = scene /\ dial' = dial /\ serving' = serving
  BY ControlLeaves DEF besideLink
<1>2. Untouched
  BY ControlUntouched
<1>3. DialInv'
  <2>1. /\ dial'.at = dial.at /\ DOMAIN dial' = DOMAIN dial /\ DOMAIN serving' = DOMAIN serving
        /\ dial.state = "idle" => dial'.state = "idle"
    BY ONLY <1>1
  <2>2. serving'.at \in 0 .. Len(scene.candidates) /\ (serving'.state # "listen" => serving'.at > 0)
    BY ONLY <1>1, DialInv DEF DialInv
  <2>. QED
    BY <1>1, <1>2, <2>1, <2>2, DialKept
<1>4. CASE ReadFails(k, e)
  <2>1. link[k][e].stage \notin {"up", "gone"} /\ link' = Set(k, e, Abandon(link[k][e]))
    BY <1>4 DEF ReadFails
  <2>. QED
    BY <1>1, <1>3, <2>1, AbandonStep
<1>5. CASE LetGo(k, e)
  BY <1>1, <1>3, <1>5, CloseStep DEF LetGo
<1>6. CASE Send(k, e)
  <2>1. link[k][e] \in EndState
    BY PairAt DEF DialInv
  <2>2. Len(link[k][e].sent) + 1 \in Nat
    BY <2>1 DEF EndState
  <2>3. Data(Len(link[k][e].sent) + 1) \in SessionFrame
    BY <2>2, Frames
  <2>. QED
    BY <1>1, <1>3, <1>6, <2>3, PostStep DEF Send
<1>. QED
  BY <1>3, <1>4, <1>5, <1>6, WriteStep, FailStep, SentStep, FillStep, HelloStep, AckStep, RecvStep,
     CancelStep, ConnectedStep, PrimeStep

LEMMA StreamStep ==
    ASSUME LinkInv, LinkNext
    PROVE  StreamInv' /\ DialInv'
<1>. USE DEF LinkInv
<1>1. CASE StartDial
  BY <1>1, StartStep
<1>2. CASE DialFails
  <2>1. PICK l : GivenUp(l) /\ NextCandidate(l, "error")
    BY <1>2 DEF DialFails, GivenUp
  <2>. QED
    BY <1>2, <2>1, NextStep DEF DialFails
<1>3. CASE DialTimeout
  <2>1. PICK l : GivenUp(l) /\ NextCandidate(l, "timeout")
    BY <1>3 DEF DialTimeout, GivenUp, Establishing
  <2>. QED
    BY <1>3, <2>1, NextStep DEF DialTimeout
<1>4. ASSUME UNCHANGED <<scene, link>>, dial'.at = dial.at, DOMAIN dial' = DOMAIN dial,
             dial.state = "idle" => dial'.state = "idle",
             DOMAIN serving' = DOMAIN serving, serving'.at \in 0 .. Len(scene.candidates),
             serving'.state # "listen" => serving'.at > 0
      PROVE  StreamInv' /\ DialInv'
  <2>1. Untouched
    BY <1>4 DEF Untouched
  <2>2. StreamInv'
    BY <1>4 DEF StreamInv, Attempt
  <2>. QED
    BY <1>4, <2>1, <2>2, DialKept
<1>5. ASSUME UNCHANGED <<scene, link, dial, serving>>
      PROVE  StreamInv' /\ DialInv'
  BY <1>4, <1>5 DEF DialInv
<1>6. CASE DialDone
  BY <1>4, <1>6 DEF DialDone, DialInv
<1>7. CASE BeginSession \/ WithdrawSession
  BY <1>4, <1>7 DEF BeginSession, WithdrawSession, DialInv
<1>8. CASE AcceptFails
  <2>1. /\ scene' = scene /\ dial' = dial /\ serving' = [serving EXCEPT !.state = "listen"]
        /\ serving.at \in Attempt
    BY <1>8, At DEF AcceptFails
  <2>2. /\ DOMAIN serving' = DOMAIN serving /\ serving'.at = serving.at /\ serving'.state = "listen"
    BY <2>1 DEF DialInv
  <2>3. CASE UNCHANGED link
    BY <1>4, <2>1, <2>2, <2>3 DEF DialInv
  <2>4. CASE Served.stage \in Establishing /\ link' = Set(serving.at, "acceptor", Abandon(Served))
    <3>1. StreamInv'
      BY <2>1, <2>4, AbandonStep DEF Served, Establishing, End
    <3>2. Untouched
      BY <2>1, <2>4, SetUntouched DEF Served, Establishing, End
    <3>. QED
      BY <2>1, <2>2, <3>1, <3>2, DialKept DEF DialInv
  <2>. QED
    BY <1>8, <2>3, <2>4 DEF AcceptFails
<1>9. ASSUME NEW e \in End, CloseSession(e)
      PROVE  StreamInv' /\ DialInv'
  <2>. DEFINE k == IF e = "initiator" THEN dial.at ELSE serving.at
  <2>1. /\ link[k][e].stage = "up" /\ link' \in DropConnection(link, k, e)
        /\ scene' = scene /\ dial' = dial
        /\ serving' = serving \/ (serving' = [serving EXCEPT !.state = "ending"] /\ serving.state = "session")
    BY <1>9 DEF CloseSession
  <2>2. k \in Attempt
    BY <1>9, At DEF CloseSession
  <2>. HIDE DEF k
  <2>3. StreamInv' /\ Untouched
    BY <2>1, <2>2, CloseStep, DropUntouched
  <2>4. /\ DOMAIN serving' = DOMAIN serving /\ serving'.at = serving.at
        /\ serving'.state # "listen" => serving.state # "listen"
    BY <2>1 DEF DialInv
  <2>. QED
    BY <2>1, <2>3, <2>4, DialKept DEF DialInv
<1>10. ASSUME NEW k \in Attempt, AcceptIncoming(k)
       PROVE  StreamInv' /\ DialInv'
  <2>1. /\ scene' = scene /\ dial' = dial /\ serving' = [state |-> "establish", at |-> k]
        /\ link' = Set(k, "acceptor", [link[k]["acceptor"] EXCEPT !.stage = "prime"])
    BY <1>10 DEF AcceptIncoming, Set
  <2>2. Untouched
    BY <2>1 DEF Untouched, Set, Attempt
  <2>3. k \in 0 .. Len(scene.candidates) /\ k > 0
    BY At
  <2>4. DOMAIN serving' = DOMAIN serving /\ serving'.at = k
    BY <2>1 DEF DialInv
  <2>. QED
    BY <1>10, <2>1, <2>2, <2>3, <2>4, AcceptStep, DialKept
<1>11. ASSUME NEW k \in Attempt, PathLost(k)
       PROVE  StreamInv' /\ DialInv'
  <2>1. /\ scene' = scene /\ dial' = dial /\ serving' = serving
        /\ DOMAIN link' = DOMAIN link /\ \A j \in Attempt : j # k => link'[j] = link[j]
        /\ link[k]["initiator"].stage # "none"
    BY <1>11 DEF PathLost, Attempt, End
  <2>2. Untouched
    BY <2>1 DEF Untouched
  <2>. QED
    BY <1>11, <2>1, <2>2, LostStep, DialKept DEF DialInv
<1>12. CASE SendMotion
  <2>1. UNCHANGED <<scene, dial, serving>> /\ dial.state = "done"
    BY <1>12 DEF SendMotion
  <2>2. CASE UNCHANGED link
    BY <1>5, <2>1, <2>2
  <2>3. CASE Post(dial.at, "initiator", [type |-> "motion", n |-> motion.n + 1])
    <3>1. dial.at \in Attempt /\ motion.n + 1 \in Nat
      BY <2>1, At DEF MotionInv, MotionType
    <3>2. [type |-> "motion", n |-> motion.n + 1] \in SessionFrame
      BY <3>1, Frames
    <3>3. StreamInv'
      BY <2>1, <2>3, <3>1, <3>2, PostStep DEF End
    <3>4. Untouched
      BY <2>3, <3>1, SetUntouched DEF Post, End
    <3>. QED
      BY <2>1, <3>3, <3>4, DialKept DEF DialInv
  <2>. QED
    BY <1>12, <2>2, <2>3 DEF SendMotion
<1>13. PumpTakes \/ PumpSends => UNCHANGED <<scene, link, dial, serving>>
  BY Zenon DEF PumpTakes, PumpSends
<1>14. AcceptorLooks \/ AcceptorInterrupted \/ BindBulk \/ AcceptorWakes \/ HandleBulk
       \/ (\E b \in BulkDial : DialBulk(b) \/ BulkDialTimeout(b) \/ AcceptBulk(b))
       => UNCHANGED <<scene, link, dial, serving>>
  BY Zenon DEF AcceptorLooks, AcceptorInterrupted, BindBulk, AcceptorWakes, HandleBulk,
               DialBulk, BulkDialTimeout, AcceptBulk, besideBulk
<1>. HIDE DEF LinkInv
<1>15. StreamInv /\ DialInv /\ "initiator" \in End
  BY DEF LinkInv, End
<1>. QED
  BY <1>1, <1>2, <1>3, <1>5, <1>6, <1>7, <1>8, <1>9, <1>10, <1>11, <1>12, <1>13, <1>14, <1>15,
     ControlStep DEF LinkNext

LEMMA LinkStep ==
    ASSUME LinkInv, [LinkNext]_linkVars
    PROVE  LinkInv'
<1>1. StreamInv' /\ DialInv'
  <2>1. CASE LinkNext
    BY <2>1, StreamStep
  <2>2. CASE UNCHANGED linkVars
    BY <2>2 DEF linkVars, LinkInv, StreamInv, DialInv, Attempt
  <2>. QED
    BY <2>1, <2>2
<1>2. MotionInv'
  BY MotionStep DEF LinkInv
<1>3. dial.at \in Nat /\ serving.at \in Nat
  BY DEF LinkInv, DialInv
<1>4. BulkInv'
  BY <1>3, BulkStep DEF LinkInv
<1>. QED
  BY <1>1, <1>2, <1>4 DEF LinkInv


LEMMA FreshHolds ==
    ASSUME NEW k \in Nat, NEW e \in End
    PROVE  EndOK(k, e, FreshEnd, FreshEnd)
<1>. DEFINE r == FreshEnd
<1>1. /\ r.stage = "none" /\ r.queue = <<>> /\ r.written = 0 /\ r.wire = <<>> /\ r.buf = <<>>
      /\ r.closed = FALSE /\ r.peer = <<>> /\ r.sent = <<>> /\ r.got = <<>>
  BY Zenon DEF FreshEnd
<1>2. r \in EndState
  <2>. DEFINE c == FALSE
              q == <<>>
  <2>1. c \in Flag
    BY FlagType
  <2>2. q \in Seq(Frame) /\ q \in Seq(Piece) /\ q \in Seq(SessionFrame)
    OBVIOUS
  <2>3. q \in PeerId
    BY Zenon DEF PeerId
  <2>4. "none" \in Stage /\ 0 \in {0, 1}
    BY DEF Stage
  <2>5. r = [stage |-> "none", queue |-> q, written |-> 0, wire |-> q, buf |-> q, closed |-> c,
             peer |-> q, sent |-> q, got |-> q]
    BY Zenon DEF FreshEnd
  <2>. HIDE DEF c, q, r
  <2>. QED
    BY <2>1, <2>2, <2>3, <2>4, <2>5 DEF EndState
<1>. HIDE DEF r
<1>3. Arrived(r) = 0 /\ Len(r.queue) = 0 /\ Len(r.got) = 0 /\ Len(r.sent) = 0
  BY <1>1 DEF Arrived
<1>4. QueueOK(r) /\ PeerOK(k, e, r, r) /\ GotOK(r, r)
  BY <1>1, <1>3 DEF QueueOK, PeerOK, GotOK
<1>5. ArrivedOK(k, e, r, r)
  BY <1>3 DEF ArrivedOK
<1>6. WriterOK(k, e, r, r)
  BY <1>1, <1>3, OtherEnd DEF WriterOK, Expects, Emits, End
<1>7. ~r.closed
  BY <1>1
<1>. QED
  BY <1>1, <1>2, <1>4, <1>5, <1>6, <1>7 DEF EndOK, r

LEMMA LinkStart ==
    ASSUME SceneOK(scene), LinkInit
    PROVE  LinkInv
<1>1. scene.candidates \in Seq({"dead", "other", "peer"}) /\ scene.bulks \in Nat
  BY DEF SceneOK
<1>2. StreamInv
  <2>1. DOMAIN link = 1 .. Len(scene.candidates)
    BY DEF LinkInit
  <2>2. ASSUME NEW k \in Attempt, NEW e \in End
        PROVE  DOMAIN link[k] = End /\ EndOK(k, e, link[k][e], link[k][Other(e)])
    <3>1. k \in Nat /\ Other(e) \in End
      BY <1>1, <2>1, OtherEnd DEF Attempt
    <3>2. DOMAIN link[k] = End /\ link[k][e] = FreshEnd /\ link[k][Other(e)] = FreshEnd
      BY <3>1 DEF LinkInit, Attempt
    <3>. QED
      BY <3>1, <3>2, FreshHolds
  <2>. QED
    BY <2>1, <2>2 DEF StreamInv
<1>3. DialInv
  <2>1. \A k \in Attempt : link[k]["initiator"].stage = "none"
    BY DEF LinkInit, Attempt, End, FreshEnd
  <2>2. /\ dial = [at |-> 0, errors |-> <<>>, state |-> "idle"]
        /\ serving = [state |-> "listen", at |-> 0]
    BY DEF LinkInit
  <2>3. 0 \in 0 .. Len(scene.candidates)
    BY <1>1
  <2>. QED
    BY <1>1, <2>1, <2>2, <2>3 DEF DialInv
<1>4. MotionInv
  BY DEF LinkInit, MotionInv, MotionType, FreshMotion, NewestMotionLeaves
<1>5. BulkInv
  <2>1. bulk \in [1 .. scene.bulks -> BulkState]
    BY DEF LinkInit, BulkState
  <2>2. \A b \in BulkDial : bulk[b].stage = "none"
    BY DEF LinkInit, BulkDial
  <2>3. acceptor.state = "look" /\ AcceptorType(acceptor) /\ active \in Nat
    BY DEF LinkInit, AcceptorType
  <2>. QED
    BY <1>1, <2>1, <2>2, <2>3 DEF BulkInv, BulkIsBound
<1>. QED
  BY <1>2, <1>3, <1>4, <1>5 DEF LinkInv

-----------------------------------------------------------------------------
(* What the invariant implies                                              *)

LEMMA Framed ==
    ASSUME StreamInv
    PROVE  ControlIsFramed
<1>. SUFFICES ASSUME NEW k \in Attempt, NEW e \in End
              PROVE  IsPrefix(link[k][e].got, link[k][Other(e)].sent)
  BY DEF ControlIsFramed
<1>. DEFINE g == link[k][e].got
            s == link[k][Other(e)].sent
<1>1. g \in Seq(Frame) /\ s \in Seq(SessionFrame) /\ Len(g) <= Len(s) /\ \A i \in 1 .. Len(g) : g[i] = s[i]
  BY OtherEnd DEF StreamInv, EndOK, EndState, GotOK
<1>. HIDE DEF g, s
<1>2. SubSeq(g, 1, Len(g)) = SubSeq(s, 1, Len(g))
  BY <1>1
<1>. QED
  BY <1>1, <1>2 DEF IsPrefix, g, s

\* An end that waits has consumed all that the other, waiting too, emitted;
\* only within a session can half a frame be left.
LEMMA WaitingEnd ==
    ASSUME NEW k, NEW e \in End, NEW r, NEW s, EndOK(k, e, r, s), EndOK(k, Other(e), s, r), Waits(r), Waits(s)
    PROVE  /\ Expects(e, r) <= Emits(Other(e), s)
           /\ r.stage # "up" => Expects(e, r) = Emits(Other(e), s)
<1>1. r \in EndState /\ s \in EndState /\ WriterOK(k, e, r, s) /\ QueueOK(s)
  BY DEF EndOK
<1>2. Live(r) /\ Live(s) /\ ~r.closed /\ r.wire = <<>> /\ s.queue = <<>> /\ s.written = 0
  BY <1>1 DEF Waits, Live, QueueOK
<1>3. /\ Len(s.queue) = 0 /\ Arrived(r) = Len(r.buf) /\ Len(r.buf) \in Nat /\ Expects(e, r) \in Nat
      /\ Len(s.sent) \in Nat
  <2>1. r.buf \in Seq(Piece) /\ s.sent \in Seq(SessionFrame)
    BY <1>1 DEF EndState
  <2>2. Len(r.wire) = 0 /\ Len(s.queue) = 0
    BY <1>2
  <2>3. Len(r.buf) \in Nat /\ Len(s.sent) \in Nat
    BY <2>1
  <2>4. Arrived(r) = Len(r.buf)
    BY <2>2, <2>3 DEF Arrived
  <2>. QED
    BY <1>1, <2>2, <2>3, <2>4, ExpectsNat
<1>4. Expects(e, r) + Len(r.buf) = Emits(Other(e), s)
  <2>1. CASE s.stage = "up"
    BY <1>1, <1>2, <1>3, <2>1 DEF WriterOK, Emits
  <2>2. CASE s.stage # "up"
    <3>1. Expects(e, r) + Len(r.buf) + 0 = Emits(Other(e), s)
      BY <1>1, <1>2, <1>3, <2>2 DEF WriterOK
    <3>. QED
      BY <1>3, <3>1
  <2>. QED
    BY <2>1, <2>2
<1>5. ASSUME r.stage # "up"
      PROVE  Len(r.buf) = 0
  <2>1. CASE r.stage = "prime"
    BY <2>1 DEF EndOK
  <2>2. ASSUME r.stage \in {"hello_in", "ack_in"}, r.buf # <<>>
        PROVE  FALSE
    <3>1. Len(r.buf) >= 1 /\ IsPiece(k, Other(e), s, Expects(e, r), r.buf[1])
      BY <1>2, <2>2, FirstPiece
    <3>2. PICK f : r.buf[1] = Part(f, 1) /\ Size(f) = 1
      BY <2>2, <3>1, Sizes DEF IsPiece, Expects
    <3>3. r.buf[1].frame = f
      BY <3>2 DEF Part
    <3>. QED
      BY <2>2, <3>1, <3>2, <3>3 DEF Waits, Buffered
  <2>. QED
    BY <1>5, <2>1, <2>2 DEF Waits
<1>. QED
  BY <1>3, <1>4, <1>5

LEMMA Handshake ==
    ASSUME StreamInv, DialInv
    PROVE  HandshakeIsMutual
<1>. SUFFICES ASSUME NEW k \in Attempt
              PROVE  Mutual(k) /\ NoMutualSilence(k)
  BY DEF HandshakeIsMutual
<1>. DEFINE r == link[k]["initiator"]
            s == link[k]["acceptor"]
<1>1. Mutual(k)
  <2>. SUFFICES ASSUME NEW e \in End, link[k][e].stage = "up"
                PROVE  link[k][e].peer = <<k, Other(e)>> /\ link[k][Other(e)].peer = <<k, e>>
    BY DEF Mutual
  <2>. QED
    BY DEF StreamInv, EndOK, PeerOK
<1>2. EndOK(k, "initiator", r, s) /\ EndOK(k, "acceptor", s, r)
  BY OtherEnd DEF StreamInv, End
<1>. HIDE DEF r, s
<1>3. ASSUME Waits(r), Waits(s)
      PROVE  r.stage = "up" /\ s.stage = "up"
  <2>1. /\ Expects("initiator", r) <= Emits("acceptor", s)
        /\ r.stage # "up" => Expects("initiator", r) = Emits("acceptor", s)
    BY <1>2, <1>3, WaitingEnd, OtherEnd DEF End
  <2>2. /\ Expects("acceptor", s) <= Emits("initiator", r)
        /\ s.stage # "up" => Expects("acceptor", s) = Emits("initiator", r)
    BY <1>2, <1>3, WaitingEnd, OtherEnd DEF End
  <2>3. /\ r.stage \in {"hello_in", "ack_in", "up"} /\ s.stage \in {"prime", "hello_in", "ack_in", "up"}
    BY <1>2, <1>3 DEF EndOK, Waits
  <2>4. /\ Len(r.sent) \in Nat /\ Len(s.sent) \in Nat /\ Len(r.got) \in Nat /\ Len(s.got) \in Nat
    BY <1>2 DEF EndOK, EndState
  <2>. QED
    BY <2>1, <2>2, <2>3, <2>4 DEF Expects, Emits
<1>4. NoMutualSilence(k)
  BY <1>3 DEF NoMutualSilence, End, r, s
<1>. QED
  BY <1>1, <1>4

-----------------------------------------------------------------------------
(* The theorems                                                            *)

LEMMA LifeInvariant == LifeSpec => []LinkInv
<1>1. LifeInit => LinkInv
  <2>1. StillScene \in LinkScene
    BY TransportConstants DEF StillScene
  <2>. QED
    BY <2>1, LinkStart, TransportConstants DEF LifeInit
<1>2. LinkInv /\ [LifeNext]_allVars => LinkInv'
  <2>1. [LifeNext]_allVars => [LinkNext]_linkVars
    BY DEF LifeNext, allVars, linkVars
  <2>. QED
    BY <2>1, LinkStep
<1>. QED
  BY <1>1, <1>2, PTL DEF LifeSpec

\* What recv_control returns is what the other end gave to send_control, whole
\* and in order: however writes are split, reads are cancelled, connections
\* close or paths die (control.rs, spawn_writer and RecvState).
THEOREM FramesArriveInOrder == LifeSpec => []ControlIsFramed
<1>1. LinkInv => ControlIsFramed
  BY Framed DEF LinkInv
<1>. QED
  BY <1>1, LifeInvariant, PTL

\* An end is up only when each has verified the other's Hello and holds the
\* other's session id, and two ends never wait for each other inside a
\* handshake (handshake.rs, exchange; transport.rs, establish).
THEOREM HandshakeCompletes == LifeSpec => []HandshakeIsMutual
<1>1. LinkInv => HandshakeIsMutual
  BY Handshake DEF LinkInv
<1>. QED
  BY <1>1, LifeInvariant, PTL

\* A pump that has caught up has handed QUIC the newest motion sample or found
\* it too large, whatever the receiver takes and whenever the connection dies
\* (motion.rs, MotionSender and pump).
THEOREM PumpKeepsNewest == LifeSpec => []NewestMotionLeaves
<1>1. LinkInv => NewestMotionLeaves
  BY DEF LinkInv, MotionInv
<1>. QED
  BY <1>1, LifeInvariant, PTL

\* A bulk connection is served only under the session it was dialed for, over
\* any number of sessions and bulk dials (bulk acceptor, verify_bulk_hello).
THEOREM BulkBelongsToSession == LifeSpec => []BulkIsBound
<1>1. LinkInv => BulkIsBound
  BY DEF LinkInv, BulkInv
<1>. QED
  BY <1>1, LifeInvariant, PTL
=============================================================================
