----------------------------- MODULE Transport -----------------------------
(***************************************************************************)
(* The interactive connection of mouser-net, from the dial to the end of a *)
(* session, between an initiator and an acceptor: the candidates of a dial *)
(* and their timeouts, the priming of the control stream, the exchange of  *)
(* Hello and HelloAck, the writer task and the receive buffer behind the   *)
(* control stream, the keep-newest motion pump, and the bulk connections   *)
(* that are bound to the session (with the daemon's bulk acceptor).        *)
(*                                                                         *)
(* QUIC is external: a connection carries bytes in order each way until an *)
(* end closes it or it dies; what was under way then may be cut anywhere.  *)
(* A frame is what one send writes; only the frames of a session are long  *)
(* enough to be split (a first and a second part).                         *)
(***************************************************************************)
EXTENDS Integers, FiniteSets, Sequences, SequencesExt

CONSTANTS
    LinkScene,      \* what a behaviour exercises: see SceneOK
    WriteQueueCap   \* the bound of the writer's channel (64 in the code)

SceneOK(s) ==
    /\ s.candidates \in Seq({"dead", "other", "peer"})  \* what answers at each address
    /\ s.refuses \subseteq {"initiator", "acceptor"}    \* ends that do not accept the other's Hello
    /\ s.datagrams \in BOOLEAN                          \* does the peer take datagrams
    /\ {s.frames, s.samples, s.bulks, s.faults} \subseteq Nat   \* bounds

ASSUME TransportConstants ==
    /\ WriteQueueCap \in Nat \ {0}
    /\ LinkScene # {} /\ \A s \in LinkScene : SceneOK(s)

VARIABLES
    scene,
    link,       \* connection attempt -> its two ends
    dial,       \* the initiator's dial: candidate, errors so far, state
    serving,    \* the acceptor's serve loop
    motion,     \* the initiator's motion sender
    bulk,       \* bulk dials of the initiator
    acceptor,   \* the acceptor's bulk acceptor task
    active,     \* watch channel: the attempt whose session is active, 0 for none
    losses

linkVars == <<scene, link, dial, serving, motion, bulk, acceptor, active, losses>>
besideLink == <<scene, dial, serving, motion, bulk, acceptor, active, losses>>
besideBulk == <<scene, link, dial, serving, motion, active, losses>>

End == {"initiator", "acceptor"}
Other(e) == CHOOSE o \in End : o # e

Attempt == DOMAIN link
BulkDial == DOMAIN bulk

FreshEnd ==
    [stage |-> "none", queue |-> <<>>, written |-> 0,   \* the writer task
     wire |-> <<>>, buf |-> <<>>, closed |-> FALSE,     \* towards this end; read; over
     peer |-> <<>>,                                     \* the other's session id, once verified
     sent |-> <<>>, got |-> <<>>]                       \* session frames sent and returned

-----------------------------------------------------------------------------
(* Frames                                                                  *)

Prime == [type |-> "prime"]
Hello(k, e) == [type |-> "hello", session |-> <<k, e>>]
HelloAck(status) == [type |-> "ack", status |-> status]
Data(n) == [type |-> "data", n |-> n]
Garbage == [type |-> "garbage"]

Size(f) == IF f.type \in {"data", "motion"} THEN 2 ELSE 1
Part(f, n) == [frame |-> f, part |-> n]

\* Reading Size(first header) bytes from wherever the buffer starts.
Buffered(b) == b # <<>> /\ Len(b) >= Size(b[1].frame)
Parsed(b) ==
    LET f == b[1].frame
    IN IF \A n \in 1 .. Size(f) : b[n] = Part(f, n) THEN f ELSE Garbage
Drained(b) == SubSeq(b, Size(b[1].frame) + 1, Len(b))

-----------------------------------------------------------------------------
(* The ends of a connection                                                *)

Set(k, e, r) == [link EXCEPT ![k][e] = r]

Queued(r, f) == [r EXCEPT !.queue = Append(@, f)]

\* exchange: the Hello goes to the writer, whose answer is awaited.
StartHello(k, e, r) == [Queued(r, Hello(k, e)) EXCEPT !.stage = "hello_out"]

\* The end lets go of connection and control stream, without having been an
\* InteractiveConnection: the writer is detached and finishes its queue.
Abandon(r) == [r EXCEPT !.stage = "dropped", !.buf = <<>>]

\* No more comes to this end than what has arrived.
Over(r, arrived) == [r EXCEPT !.wire = arrived, !.closed = TRUE]

\* The last handle of end e is gone: the other sees the end of what arrived.
Closed(l, k, e, arrived) ==
    [l EXCEPT ![k][e] = [@ EXCEPT !.stage = "gone", !.queue = <<>>, !.written = 0, !.wire = <<>>, !.buf = <<>>],
              ![k][Other(e)] = Over(@, arrived)]

\* Dropping an InteractiveConnection: the writer is aborted, the connection closed.
DropConnection(l, k, e) ==
    {Closed(l, k, e, arrived) : arrived \in Prefixes(l[k][Other(e)].wire)}

\* The detached writer has nothing left to write.
LetGo(k, e) ==
    /\ link[k][e].stage = "dropped" /\ link[k][e].queue = <<>>
    /\ link' \in DropConnection(link, k, e)
    /\ UNCHANGED besideLink

\* spawn_writer: a frame is written whole before the next one is taken.
AfterWrite(r) ==
    IF r.written + 1 < Size(Head(r.queue))
    THEN [r EXCEPT !.written = @ + 1]
    ELSE [r EXCEPT !.written = 0, !.queue = Tail(@)]

WriteOn(k, e) ==
    LET r == link[k][e] IN
    /\ r.queue # <<>> /\ ~r.closed
    /\ link' = [link EXCEPT ![k][e] = AfterWrite(r),
                            ![k][Other(e)].wire = Append(@, Part(Head(r.queue), r.written + 1))]
    /\ UNCHANGED besideLink

Sending == {"hello_out", "ack_out", "reject_out"}

\* The write fails: an end in the handshake gives up, the rest is discarded.
WriteFails(k, e) ==
    LET r == link[k][e]
        emptied == [r EXCEPT !.queue = Tail(@), !.written = 0]
    IN
    /\ r.queue # <<>> /\ r.closed
    /\ link' = Set(k, e, IF r.stage \in Sending THEN Abandon(emptied) ELSE emptied)
    /\ UNCHANGED besideLink

\* The writer confirms, and exchange goes on.
Sent(k, e) ==
    LET r == link[k][e] IN
    /\ r.stage \in Sending /\ r.queue = <<>>
    /\ link' = Set(k, e, CASE r.stage = "hello_out" -> [r EXCEPT !.stage = "hello_in"]
                           [] r.stage = "ack_out" -> [r EXCEPT !.stage = "ack_in"]
                           [] r.stage = "reject_out" -> Abandon(r))
    /\ UNCHANGED besideLink

\* fill_to: a read returns what has arrived, whole or in part.
Fill(k, e) ==
    LET r == link[k][e] IN
    /\ r.stage \in {"hello_in", "ack_in", "up"} /\ r.wire # <<>> /\ ~Buffered(r.buf)
    /\ \E n \in {1, Len(r.wire)} :
           link' = Set(k, e, [r EXCEPT !.buf = @ \o SubSeq(r.wire, 1, n),
                                       !.wire = SubSeq(r.wire, n + 1, Len(r.wire))])
    /\ UNCHANGED besideLink

\* As if recv read into a buffer of its own.
AfterCancelForgets(b) == <<>>

\* The future of recv is dropped: what was read stays in RecvState.
AfterCancel(b) == b

CancelRecv(k, e) ==
    /\ link[k][e].stage = "up" /\ link[k][e].buf # <<>>
    /\ link' = [link EXCEPT ![k][e].buf = AfterCancel(@)]
    /\ UNCHANGED besideLink

\* The stream is over before a frame is complete.
ReadFails(k, e) ==
    LET r == link[k][e] IN
    /\ r.stage \in {"prime", "hello_in", "ack_in"}
    /\ r.closed /\ r.wire = <<>> /\ ~Buffered(r.buf)
    /\ link' = Set(k, e, Abandon(r))
    /\ UNCHANGED besideLink

-----------------------------------------------------------------------------
(* The handshake                                                           *)

\* consume_prime: a first frame that is no prime becomes the seed.
ConsumePrime(k) ==
    LET r == link[k]["acceptor"]
        seed == IF Head(r.wire).frame = Prime THEN <<>> ELSE <<Head(r.wire)>>
    IN
    /\ r.stage = "prime" /\ r.wire # <<>>
    /\ link' = Set(k, "acceptor", StartHello(k, "acceptor", [r EXCEPT !.wire = Tail(@), !.buf = seed]))
    /\ UNCHANGED besideLink

\* verify_hello: the claimed id, the pinned certificate and the signature agree.
VerifyHello(e, f) == f.type = "hello" /\ e \notin scene.refuses

RecvHello(k, e) ==
    LET r == link[k][e]
        f == Parsed(r.buf)
        s == [r EXCEPT !.buf = Drained(@)]
    IN
    /\ r.stage = "hello_in" /\ Buffered(r.buf)
    /\ link' = Set(k, e,
           IF VerifyHello(e, f)
           THEN [Queued(s, HelloAck("Accepted")) EXCEPT !.stage = "ack_out", !.peer = f.session]
           ELSE [Queued(s, HelloAck("Rejected")) EXCEPT !.stage = "reject_out"])
    /\ UNCHANGED besideLink

\* As if any answer would do.
AcceptsAnyAck(f) == f.type = "ack"

Accepts(f) == f.type = "ack" /\ f.status = "Accepted"

RecvAck(k, e) ==
    LET r == link[k][e]
        s == [r EXCEPT !.buf = Drained(@)]
    IN
    /\ r.stage = "ack_in" /\ Buffered(r.buf)
    /\ link' = Set(k, e, IF Accepts(Parsed(r.buf)) THEN [s EXCEPT !.stage = "up"] ELSE Abandon(s))
    /\ UNCHANGED besideLink

Establishing == {"prime", "hello_out", "hello_in", "ack_out", "ack_in", "reject_out"}

-----------------------------------------------------------------------------
(* Dialing and accepting                                                   *)

\* DialErrors::finish: the first failure that is no timeout leads.
Lead(errors) ==
    LET told == SelectSeq(errors, LAMBDA x : x # "timeout")
    IN IF told # <<>> THEN told[1] ELSE "timeout"

\* The attempt failed; the next candidate is tried, or the dial reports.
NextCandidate(l, why) ==
    LET k == dial.at
        errors == Append(dial.errors, why)
    IN IF k < Len(scene.candidates)
       THEN /\ dial' = [dial EXCEPT !.at = k + 1, !.errors = errors]
            /\ link' = [l EXCEPT ![k + 1]["initiator"].stage = "connecting"]
       ELSE /\ dial' = [dial EXCEPT !.state = Lead(errors), !.errors = errors]
            /\ link' = l

Dialed == link[dial.at]["initiator"]

\* The first dial, and the redial after a session.
StartDial ==
    /\ dial.state = "idle" \/ (dial.state = "done" /\ Dialed.stage = "gone")
    /\ dial.at < Len(scene.candidates)
    /\ dial' = [at |-> dial.at + 1, errors |-> <<>>, state |-> "trying"]
    /\ link' = [link EXCEPT ![dial.at + 1]["initiator"].stage = "connecting"]
    /\ UNCHANGED <<scene, serving, motion, bulk, acceptor, active, losses>>

\* QUIC is up on both sides: the control stream is opened and primed.
Connected(k) ==
    LET r == link[k]["initiator"] IN
    /\ r.stage = "connecting" /\ link[k]["acceptor"].stage # "none" /\ ~r.closed
    /\ link' = [link EXCEPT ![k]["initiator"] = StartHello(k, "initiator", r),
                            ![k]["acceptor"].wire = <<Part(Prime, 1)>>]
    /\ UNCHANGED besideLink

\* The pin refuses the certificate, the connection closes, or the exchange fails.
DialFails ==
    /\ dial.state = "trying"
    /\ \/ Dialed.stage = "connecting" /\ (scene.candidates[dial.at] = "other" \/ Dialed.closed)
       \/ Dialed.stage \in {"dropped", "gone"}
    /\ LET l == IF Dialed.stage = "connecting" THEN Set(dial.at, "initiator", Abandon(Dialed)) ELSE link
       IN NextCandidate(l, "error")
    /\ UNCHANGED <<scene, serving, motion, bulk, acceptor, active, losses>>

\* DIAL_ATTEMPT_TIMEOUT drops the attempt wherever it is.
DialTimeout ==
    /\ dial.state = "trying"
    /\ Dialed.stage \in {"connecting"} \cup Establishing
    /\ NextCandidate(Set(dial.at, "initiator", Abandon(Dialed)), "timeout")
    /\ UNCHANGED <<scene, serving, motion, bulk, acceptor, active, losses>>

FreshMotion ==
    [n |-> 0, slot |-> 0, changed |-> FALSE, pump |-> "wait", hand |-> 0,
     plane |-> "Datagram", handed |-> 0, large |-> {}]

\* The dial returns an InteractiveConnection, with its motion pump.
DialDone ==
    /\ dial.state = "trying" /\ Dialed.stage = "up"
    /\ dial' = [dial EXCEPT !.state = "done"]
    /\ motion' = FreshMotion
    /\ UNCHANGED <<scene, link, serving, bulk, acceptor, active, losses>>

\* One handshake at a time: the other attempts wait in the endpoint.
AcceptIncoming(k) ==
    /\ serving.state = "listen" /\ scene.candidates[k] = "peer"
    /\ link[k]["initiator"].stage = "connecting" /\ link[k]["acceptor"].stage = "none"
    /\ link' = [link EXCEPT ![k]["acceptor"].stage = "prime"]
    /\ serving' = [state |-> "establish", at |-> k]
    /\ UNCHANGED <<scene, dial, motion, bulk, acceptor, active, losses>>

Served == link[serving.at]["acceptor"]

\* ACCEPT_HANDSHAKE_TIMEOUT, or the exchange failed: back to accepting.
AcceptFails ==
    /\ serving.state = "establish"
    /\ \/ Served.stage \in Establishing /\ link' = Set(serving.at, "acceptor", Abandon(Served))
       \/ Served.stage \in {"dropped", "gone"} /\ UNCHANGED link
    /\ serving' = [serving EXCEPT !.state = "listen"]
    /\ UNCHANGED <<scene, dial, motion, bulk, acceptor, active, losses>>

\* serve: the session is published to the bulk acceptor before it runs, ...
BeginSession ==
    /\ serving.state = "establish" /\ Served.stage = "up"
    /\ serving' = [serving EXCEPT !.state = "session"]
    /\ active' = serving.at
    /\ acceptor' = [acceptor EXCEPT !.changed = TRUE]
    /\ UNCHANGED <<scene, link, dial, motion, bulk, losses>>

\* ... ends for whatever reason on either side, ...
CloseSession(e) ==
    LET k == IF e = "initiator" THEN dial.at ELSE serving.at IN
    /\ (e = "initiator" /\ dial.state = "done") \/ (e = "acceptor" /\ serving.state = "session")
    /\ link[k][e].stage = "up"
    /\ link' \in DropConnection(link, k, e)
    /\ serving' = IF e = "acceptor" THEN [serving EXCEPT !.state = "ending"] ELSE serving
    /\ motion' = IF e = "initiator" THEN FreshMotion ELSE motion
    /\ UNCHANGED <<scene, dial, bulk, acceptor, active, losses>>

\* ... and is taken back afterwards.
WithdrawSession ==
    /\ serving.state = "ending"
    /\ serving' = [serving EXCEPT !.state = "listen"]
    /\ active' = 0
    /\ acceptor' = [acceptor EXCEPT !.changed = TRUE]
    /\ UNCHANGED <<scene, link, dial, motion, bulk, losses>>

\* The path is lost: both ends find out by MAX_IDLE.
PathLost(k) ==
    /\ losses < scene.faults
    /\ losses' = losses + 1
    /\ \A e \in End : link[k][e].stage \notin {"none", "gone"}
    /\ \E x \in Prefixes(link[k]["initiator"].wire), y \in Prefixes(link[k]["acceptor"].wire) :
           link' = [link EXCEPT ![k]["initiator"] = Over(@, x), ![k]["acceptor"] = Over(@, y)]
    /\ UNCHANGED <<scene, dial, serving, motion, bulk, acceptor, active>>

-----------------------------------------------------------------------------
(* A session: control frames and motion                                    *)

Post(k, e, f) ==
    /\ link[k][e].stage = "up" /\ Len(link[k][e].queue) < WriteQueueCap
    /\ link' = Set(k, e, [Queued(link[k][e], f) EXCEPT !.sent = Append(@, f)])

\* The frame is queued at once; whether its caller waits for the answer is
\* no matter to the writer.
Send(k, e) ==
    /\ Len(link[k][e].sent) < scene.frames
    /\ Post(k, e, Data(Len(link[k][e].sent) + 1))
    /\ UNCHANGED besideLink

Recv(k, e) ==
    LET r == link[k][e] IN
    /\ r.stage = "up" /\ Buffered(r.buf)
    /\ link' = Set(k, e, [r EXCEPT !.got = Append(@, Parsed(r.buf)), !.buf = Drained(@)])
    /\ UNCHANGED besideLink

\* The runtime's sender: by the pump's slot, or as a control frame once the
\* datagram plane is known to be out of use.
SendMotion ==
    LET n == motion.n + 1 IN
    /\ dial.state = "done" /\ Dialed.stage = "up" /\ n <= scene.samples
    /\ \/ /\ motion.plane = "Datagram"
          /\ motion' = [motion EXCEPT !.n = n, !.slot = n, !.changed = TRUE]
          /\ UNCHANGED link
       \/ /\ motion.plane = "ControlFallback"
          /\ motion' = [motion EXCEPT !.n = n]
          /\ Post(dial.at, "initiator", [type |-> "motion", n |-> n])
    /\ UNCHANGED <<scene, dial, serving, bulk, acceptor, active, losses>>

\* pump: the slot is marked seen as it is read.
PumpTake(m) == [m EXCEPT !.pump = "sending", !.hand = m.slot, !.changed = FALSE]

PumpTakes ==
    /\ dial.state = "done" /\ motion.pump = "wait" /\ motion.changed
    /\ motion' = PumpTake(motion)
    /\ UNCHANGED <<scene, link, dial, serving, bulk, acceptor, active, losses>>

\* What send_datagram_wait may come back with.
SendResult ==
    IF Dialed.closed THEN {"ConnectionLost"}
    ELSE IF scene.datagrams THEN {"ok", "TooLarge"} ELSE {"UnsupportedByPeer"}

Classify(result) ==
    CASE result \in {"ok", "TooLarge"} -> "Continue"
      [] result = "UnsupportedByPeer" -> "Fallback"
      [] result = "ConnectionLost" -> "Exit"

\* As if the slot were marked seen when its sample is out.
ReactSeesLate(m, action) == [m EXCEPT !.pump = "wait", !.changed = FALSE]

React(m, action) ==
    CASE action = "Continue" -> [m EXCEPT !.pump = "wait"]
      [] action = "Fallback" -> [m EXCEPT !.pump = "ended", !.plane = "ControlFallback"]
      [] action = "Exit" -> [m EXCEPT !.pump = "ended"]

PumpSends ==
    /\ dial.state = "done" /\ motion.pump = "sending"
    /\ \E result \in SendResult :
           LET m == React(motion, Classify(result)) IN
           motion' = CASE result = "ok" -> [m EXCEPT !.handed = motion.hand]
                       [] result = "TooLarge" -> [m EXCEPT !.large = @ \cup {motion.hand}]
                       [] OTHER -> m
    /\ UNCHANGED <<scene, link, dial, serving, bulk, acceptor, active, losses>>

-----------------------------------------------------------------------------
(* Bulk connections of the initiator, and the acceptor's task for them     *)

\* A file send or a clipboard pull dials for the session it was started in,
\* which may be over by the time the dial is answered.
DialBulk(b) ==
    /\ dial.state = "done" /\ Dialed.stage = "up" /\ bulk[b].stage = "none"
    /\ bulk' = [bulk EXCEPT ![b] = [stage |-> "dialing", session |-> dial.at, under |-> 0]]
    /\ UNCHANGED <<scene, link, dial, serving, motion, acceptor, active, losses>>

BulkDialTimeout(b) ==
    /\ bulk[b].stage = "dialing"
    /\ bulk' = [bulk EXCEPT ![b].stage = "failed"]
    /\ UNCHANGED <<scene, link, dial, serving, motion, acceptor, active, losses>>

\* current_bulk_session: reads the channel and marks it seen.
AcceptorLooks ==
    /\ acceptor.state = "look" /\ active # 0
    /\ acceptor' = [state |-> "accept", session |-> active, changed |-> FALSE, at |-> 0]
    /\ UNCHANGED <<scene, link, dial, serving, motion, bulk, active, losses>>

\* accept_bulk takes the next incoming connection, ...
AcceptBulk(b) ==
    /\ acceptor.state = "accept" /\ bulk[b].stage = "dialing"
    /\ bulk' = [bulk EXCEPT ![b].stage = "binding"]
    /\ acceptor' = [acceptor EXCEPT !.state = "bind", !.at = b]
    /\ UNCHANGED besideBulk

\* ... unless the session changes first: the select drops it.
AcceptorInterrupted ==
    /\ acceptor.state \in {"accept", "bind"} /\ acceptor.changed
    /\ bulk' = IF acceptor.state = "bind" THEN [bulk EXCEPT ![acceptor.at].stage = "failed"] ELSE bulk
    /\ acceptor' = [acceptor EXCEPT !.state = "look"]
    /\ UNCHANGED besideBulk

\* verify_bulk_hello: the Hello names the session this side expects.
VerifyBulkHello(b) == bulk[b].session = acceptor.session

\* The Hello is not answered; after a refusal or a timeout the task sleeps.
BindBulk ==
    /\ acceptor.state = "bind"
    /\ \/ /\ VerifyBulkHello(acceptor.at)
          /\ acceptor' = [acceptor EXCEPT !.state = "handle"]
          /\ UNCHANGED bulk
       \/ /\ acceptor' = [acceptor EXCEPT !.state = "sleep"]
          /\ bulk' = [bulk EXCEPT ![acceptor.at].stage = "failed"]
    /\ UNCHANGED besideBulk

AcceptorWakes ==
    /\ acceptor.state = "sleep"
    /\ acceptor' = [acceptor EXCEPT !.state = "look"]
    /\ UNCHANGED <<scene, link, dial, serving, motion, bulk, active, losses>>

\* As if the id the Hello named were proof enough.
StillActiveUnread(session) == TRUE

StillActive(session) == active = session

\* spawn_bulk_receiver looks at the channel once more.
HandleBulk ==
    LET b == acceptor.at IN
    /\ acceptor.state = "handle"
    /\ bulk' = IF StillActive(acceptor.session)
               THEN [bulk EXCEPT ![b].stage = "served", ![b].under = active]
               ELSE [bulk EXCEPT ![b].stage = "failed"]
    /\ acceptor' = [acceptor EXCEPT !.state = "look"]
    /\ UNCHANGED besideBulk

-----------------------------------------------------------------------------

LinkInit ==
    /\ link = [k \in 1 .. Len(scene.candidates) |-> [e \in End |-> FreshEnd]]
    /\ dial = [at |-> 0, errors |-> <<>>, state |-> "idle"]
    /\ serving = [state |-> "listen", at |-> 0]
    /\ motion = FreshMotion
    /\ bulk = [b \in 1 .. scene.bulks |-> [stage |-> "none", session |-> 0, under |-> 0]]
    /\ acceptor = [state |-> "look", session |-> 0, changed |-> FALSE, at |-> 0]
    /\ active = 0
    /\ losses = 0

LinkNext ==
    \/ StartDial \/ DialFails \/ DialTimeout \/ DialDone
    \/ AcceptFails \/ BeginSession \/ WithdrawSession
    \/ \E e \in End : CloseSession(e)
    \/ \E k \in Attempt : Connected(k) \/ AcceptIncoming(k) \/ ConsumePrime(k) \/ PathLost(k)
    \/ \E k \in Attempt, e \in End :
          \/ WriteOn(k, e) \/ WriteFails(k, e) \/ Sent(k, e) \/ Fill(k, e) \/ ReadFails(k, e) \/ LetGo(k, e)
          \/ RecvHello(k, e) \/ RecvAck(k, e)
          \/ Send(k, e) \/ Recv(k, e) \/ CancelRecv(k, e)
    \/ SendMotion \/ PumpTakes \/ PumpSends
    \/ \E b \in BulkDial : DialBulk(b) \/ BulkDialTimeout(b) \/ AcceptBulk(b)
    \/ AcceptorLooks \/ AcceptorInterrupted \/ BindBulk \/ AcceptorWakes \/ HandleBulk

-----------------------------------------------------------------------------
(* Properties                                                              *)

\* What recv_control returned is what the other end sent, whole and in order,
\* whoever gave up waiting for a send or a receive in between (control.rs).
ControlIsFramed ==
    \A k \in Attempt, e \in End : IsPrefix(link[k][e].got, link[k][Other(e)].sent)

\* An end only comes up once each has verified the other, and with the session
\* ids the two will bind their bulk connections to (handshake::exchange).
Mutual(k) ==
    \A e \in End : link[k][e].stage = "up" =>
        /\ link[k][e].peer = <<k, Other(e)>>
        /\ link[k][Other(e)].peer = <<k, e>>

Waits(r) ==
    /\ r.stage \in {"prime", "hello_in", "ack_in", "up"}
    /\ r.queue = <<>> /\ r.wire = <<>> /\ ~Buffered(r.buf) /\ ~r.closed

\* Neither end is left in a handshake with both waiting for the other to
\* speak (establish primes the stream so that this cannot be).
NoMutualSilence(k) ==
    (\A e \in End : Waits(link[k][e])) => \A e \in End : link[k][e].stage = "up"

HandshakeIsMutual == \A k \in Attempt : Mutual(k) /\ NoMutualSilence(k)

\* A pump that has caught up gave QUIC the newest sample, or found it too
\* large: no sample is lost to a newer one that came while it was sending.
NewestMotionLeaves ==
    (motion.pump = "wait" /\ ~motion.changed /\ motion.n > 0) =>
        motion.n = motion.handed \/ motion.n \in motion.large

\* Whatever order sessions, bulk dials and the acceptor's wake-ups come in, a
\* bulk connection is served only while the session it was dialed in is the
\* active one (run_bulk_acceptor, verify_bulk_hello, spawn_bulk_receiver).
BulkIsBound ==
    \A b \in BulkDial : bulk[b].stage = "served" => bulk[b].under = bulk[b].session
=============================================================================
