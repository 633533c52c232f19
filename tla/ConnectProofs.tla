---------------------------- MODULE ConnectProofs ----------------------------
(***************************************************************************)
(* Proofs about Connect, for any number of machines, any roles and any     *)
(* number of commands, faults and restarts.                                *)
(***************************************************************************)
EXTENDS Connect, TLAPS

-----------------------------------------------------------------------------
(* The inductive invariant                                                 *)

\* (A set of its own, so that flags can be typed without being looked into.)
Flag == BOOLEAN
Stage == {"no", "signal", "failed"}
Held == Slot \cup {NoSlot}
Someone == Node \cup {None}

Loop == [phase: Phases, intent: Someone, target: Someone, acceptInbound: Flag,
         dial: Held, acc: Held, pairing: Flag, sess: Held, control: Flag]
Ends == [d: {"shake", "up", "gone"}, a: {"wait", "shake", "up", "gone"}, acked: Flag, broken: Flag]

\* What machine n may hold in each phase.  An intent is never listened under,
\* and a handshake under an intent is with its peer.
Fits(n, x) ==
    /\ x.dial # NoSlot => /\ Dialer(x.dial) = n /\ x.phase \in {"seek", "ipcdial", "redial"}
                          /\ x.phase # "seek" => Acceptor(x.dial) = x.target
    /\ x.acc # NoSlot => /\ Acceptor(x.acc) = n
                         /\ x.phase = "seek" \/ (x.phase = "redial" /\ x.acceptInbound)
    /\ x.pairing => x.acc # NoSlot
    /\ x.sess # NoSlot => x.phase = "session"
    /\ x.intent # None => /\ ~x.acceptInbound /\ x.target = x.intent
                          /\ x.phase \in {"check", "resolve", "redial", "delay", "session"}
    /\ x.intent # None /\ x.phase = "session" => x.control

\* The peer of a session, or of a dial past its check of the pins, is trusted;
\* t is the trust file.
Safe(x, t) ==
    /\ x.dial # NoSlot => Acceptor(x.dial) \in t
    /\ x.phase \in {"resolve", "ipcdial", "session"} => x.target \in t

LoopInv == st \in [Node -> Loop] /\ \A n \in Node : Fits(n, st[n])

ConnInv == conn \in [Slot -> Ends] /\ EveryConnectionIsHeld

PromptInv == prompt \in [Node -> Someone] /\ PromptIsLive

QueueInv ==
    /\ trust \in [Node -> SUBSET Node] /\ connectQ \in [Node -> Seq(Node)]
    /\ discQ \in [Node -> Nat] /\ resetting \in [Node -> Stage]
    /\ sees \in [Node -> SUBSET Node] /\ \A n \in Node : n \notin sees[n]

\* Unless its Disconnect is on the way, or a reset failed half way.
TrustInv == \A n \in Node : Safe(st[n], trust[n]) \/ discQ[n] > 0 \/ resetting[n] # "no"

ConnectInv == LoopInv /\ ConnInv /\ PromptInv /\ QueueInv /\ TrustInv

-----------------------------------------------------------------------------
(* Slots and loops                                                         *)

LEMMA SlotIs ==
    /\ None \notin Node /\ NoSlot \notin Slot
    /\ \A s \in Slot : Dialer(s) \in Node /\ Acceptor(s) \in Node /\ Dialer(s) # Acceptor(s)
BY NodesOrdered DEF None, NoSlot, Slot, Dialer, Acceptor

LEMMA SlotMade ==
    ASSUME NEW n \in Node, NEW p \in Node, n # p, NEW k \in {1, 2}, NEW s, s = <<n, p, k>>
    PROVE  s \in Slot /\ Dialer(s) = n /\ Acceptor(s) = p
BY DEF Slot, Dialer, Acceptor

LEMMA PeerIs ==
    ASSUME NEW n \in Node, NEW s \in Slot
    PROVE  /\ PeerOn(n, s) \in Node
           /\ Dialer(s) = n => PeerOn(n, s) = Acceptor(s)
           /\ Acceptor(s) = n => PeerOn(n, s) = Dialer(s)
BY SlotIs DEF PeerOn

LEMMA Flags == TRUE \in Flag /\ FALSE \in Flag
BY Zenon DEF Flag

LEMMA FreeIs == Free \in Ends /\ Free.d = "gone" /\ Free.a = "gone"
BY Flags DEF Free, Ends

\* A loop that holds no connection.
Bare(phase, intent, target, acceptInbound) ==
    [NewLoop EXCEPT !.phase = phase, !.intent = intent, !.target = target, !.acceptInbound = acceptInbound]

IsBare(x, phase, intent, target, acceptInbound) ==
    /\ x \in Loop /\ x.phase = phase /\ x.intent = intent /\ x.target = target
    /\ x.acceptInbound = acceptInbound /\ x.control = FALSE
    /\ x.dial = NoSlot /\ x.acc = NoSlot /\ x.sess = NoSlot /\ x.pairing = FALSE

LEMMA BareLoop ==
    ASSUME NEW phase \in Phases, NEW intent \in Someone, NEW target \in Someone, NEW listening \in Flag
    PROVE  IsBare(Bare(phase, intent, target, listening), phase, intent, target, listening)
<1>1. NoSlot \in Held
  BY DEF Held
<1>. HIDE DEF NoSlot
<1>. QED
  BY <1>1, Flags DEF IsBare, Bare, NewLoop, Loop

LEMMA NewLoopIs ==
    /\ NewLoop \in Loop /\ NewLoop.phase = "seek" /\ NewLoop.intent = None
    /\ NewLoop.dial = NoSlot /\ NewLoop.acc = NoSlot /\ NewLoop.sess = NoSlot /\ NewLoop.pairing = FALSE
<1>1. NoSlot \in Held /\ None \in Someone /\ "seek" \in Phases
  BY DEF Held, Someone, Phases
<1>. HIDE DEF NoSlot, None
<1>. QED
  BY <1>1, Flags DEF NewLoop, Loop

\* A loop in a session.
Running(s, peer, controls, intent) ==
    [NewLoop EXCEPT !.phase = "session", !.intent = intent, !.target = peer, !.sess = s, !.control = controls]

IsRunning(x, s, peer, controls, intent) ==
    /\ x \in Loop /\ x.phase = "session" /\ x.intent = intent /\ x.target = peer
    /\ x.acceptInbound = FALSE /\ x.control = controls
    /\ x.dial = NoSlot /\ x.acc = NoSlot /\ x.sess = s /\ x.pairing = FALSE

LEMMA RunningLoop ==
    ASSUME NEW s \in Slot, NEW p \in Node, NEW controls \in Flag, NEW intent \in Someone
    PROVE  IsRunning(Running(s, p, controls, intent), s, p, controls, intent)
<1>1. NoSlot \in Held /\ s \in Held /\ None \in Someone /\ p \in Someone /\ "session" \in Phases
  BY DEF Held, Someone, Phases
<1>. HIDE DEF NoSlot, None
<1>. QED
  BY <1>1, Flags DEF IsRunning, Running, NewLoop, Loop

-----------------------------------------------------------------------------
(* Closing connections                                                     *)

\* z opens no end that was closed in conn.
Fewer(z) ==
    \A s \in Slot : /\ z[s].d # "gone" => conn[s].d # "gone"
                    /\ z[s].a \in {"shake", "up"} => conn[s].a \in {"shake", "up"}

LEMMA ClosedEnd ==
    ASSUME NEW c \in Ends, NEW n \in Node, NEW s \in Slot
    PROVE  LET z == CloseEnd(c, n, s) IN
           /\ z \in Ends
           /\ z.d # "gone" => c.d # "gone"
           /\ z.a \in {"shake", "up"} => c.a \in {"shake", "up"}
           /\ Dialer(s) = n => z.d = "gone"
           /\ Acceptor(s) = n => z.a = "gone"
<1>. DEFINE x == [c EXCEPT !.d = "gone"]
            y == [c EXCEPT !.a = "gone"]
<1>1. x \in Ends /\ x.d = "gone" /\ x.a = c.a /\ y \in Ends /\ y.d = c.d /\ y.a = "gone"
  BY DEF Ends
<1>2. CloseEnd(c, n, s) = Collect(IF Dialer(s) = n THEN x ELSE y)
  BY DEF CloseEnd
<1>. HIDE DEF x, y
<1>. QED
  BY <1>1, <1>2, FreeIs, SlotIs DEF Collect

LEMMA ClosingOthers ==
    ASSUME ConnInv, LoopInv, NEW n \in Node, NEW keep
    PROVE  LET z == CloseOthers(conn, n, keep) IN
           /\ z \in [Slot -> Ends] /\ Fewer(z)
           /\ \A s \in Slot : s # keep => /\ Dialer(s) = n => z[s].d = "gone"
                                          /\ Acceptor(s) = n => z[s].a \in {"wait", "gone"}
           /\ keep \in Slot => z[keep] = conn[keep]
<1>. DEFINE z == CloseOthers(conn, n, keep)
            H == {st[n].dial, st[n].acc, st[n].sess} \ {keep}
<1>1. z = [s \in Slot |-> IF s \in H THEN CloseEnd(conn[s], n, s) ELSE conn[s]]
  BY DEF CloseOthers
<1>2. keep \notin H
  OBVIOUS
<1>3. ASSUME NEW s \in Slot, s # keep
      PROVE  /\ Dialer(s) = n /\ conn[s].d # "gone" => s \in H
             /\ Acceptor(s) = n /\ conn[s].a \in {"shake", "up"} => s \in H
  BY <1>3 DEF ConnInv, EveryConnectionIsHeld
<1>. HIDE DEF z, H
<1>4. ASSUME NEW s \in Slot
      PROVE  /\ z[s] \in Ends
             /\ z[s].d # "gone" => conn[s].d # "gone"
             /\ z[s].a \in {"shake", "up"} => conn[s].a \in {"shake", "up"}
             /\ s # keep => /\ Dialer(s) = n => z[s].d = "gone"
                            /\ Acceptor(s) = n => z[s].a \in {"wait", "gone"}
  <2>1. conn[s] \in Ends
    BY DEF ConnInv
  <2>2. CASE s \in H
    <3>1. z[s] = CloseEnd(conn[s], n, s)
      BY <1>1, <2>2
    <3>. QED
      BY <2>1, <3>1, ClosedEnd
  <2>3. CASE s \notin H
    <3>1. z[s] = conn[s]
      BY <1>1, <2>3
    <3>2. conn[s].a \in {"wait", "shake", "up", "gone"}
      BY <2>1 DEF Ends
    <3>. QED
      BY <1>3, <2>1, <2>3, <3>1, <3>2
  <2>. QED
    BY <2>2, <2>3
<1>5. keep \in Slot => z[keep] = conn[keep]
  BY <1>1, <1>2
<1>6. z \in [Slot -> Ends] /\ Fewer(z)
  BY <1>1, <1>4 DEF Fewer
<1>. QED
  BY <1>4, <1>5, <1>6 DEF z

-----------------------------------------------------------------------------
(* Moves of one loop                                                       *)

\* The loop of n becomes x, every other one stays.
Becomes(n, x) == st' \in [Node -> Loop] /\ st'[n] = x /\ \A m \in Node : m # n => st'[m] = st[m]

LEMMA LoopStep ==
    ASSUME LoopInv, NEW n \in Node, NEW x \in Loop, st' = [st EXCEPT ![n] = x], Fits(n, x)
    PROVE  LoopInv' /\ Becomes(n, x)
BY DEF LoopInv, Becomes

\* The ends that z leaves open are held.
LEMMA FewerHeld ==
    ASSUME ConnInv, NEW n \in Node, NEW x, Becomes(n, x), conn' \in [Slot -> Ends], Fewer(conn'),
           \A s \in Slot : /\ Dialer(s) = n /\ conn'[s].d # "gone" => s \in {x.dial, x.sess}
                           /\ Acceptor(s) = n /\ conn'[s].a \in {"shake", "up"} => s \in {x.acc, x.sess}
    PROVE  ConnInv'
<1>1. ASSUME NEW s \in Slot
      PROVE  /\ conn'[s].d # "gone" => s \in {st'[Dialer(s)].dial, st'[Dialer(s)].sess}
             /\ conn'[s].a \in {"shake", "up"} => s \in {st'[Acceptor(s)].acc, st'[Acceptor(s)].sess}
  BY SlotIs DEF ConnInv, EveryConnectionIsHeld, Becomes, Fewer
<1>. QED
  BY <1>1 DEF ConnInv, EveryConnectionIsHeld

LEMMA PromptStep ==
    ASSUME PromptInv, NEW n \in Node, NEW x, Becomes(n, x), x.pairing = FALSE, DropPrompt(n)
    PROVE  PromptInv'
<1>1. prompt' \in [Node -> Someone] /\ prompt'[n] = None /\ \A m \in Node : m # n => prompt'[m] = prompt[m]
  BY DEF PromptInv, PromptIsLive, DropPrompt, ClearPairing, Someone
<1>2. ASSUME NEW m \in Node
      PROVE  prompt'[m] = IF st'[m].pairing THEN Dialer(st'[m].acc) ELSE None
  BY <1>1 DEF PromptInv, PromptIsLive, Becomes
<1>. QED
  BY <1>1, <1>2 DEF PromptInv, PromptIsLive

LEMMA EnterStep ==
    ASSUME LoopInv, ConnInv, PromptInv, NEW n \in Node,
           NEW phase \in Phases, phase # "session", NEW intent \in Someone, NEW target \in Someone,
           NEW listening \in Flag,
           intent # None => ~listening /\ target = intent /\ phase \in {"check", "delay"},
           Enter(n, phase, intent, target, listening)
    PROVE  LoopInv' /\ ConnInv' /\ PromptInv' /\ Becomes(n, Bare(phase, intent, target, listening))
<1>. DEFINE x == Bare(phase, intent, target, listening)
            z == CloseOthers(conn, n, NoSlot)
<1>1. IsBare(x, phase, intent, target, listening)
  BY BareLoop
<1>2. st' = [st EXCEPT ![n] = x] /\ conn' = z /\ DropPrompt(n)
  BY DEF Enter, Bare
<1>3. /\ z \in [Slot -> Ends] /\ Fewer(z)
      /\ \A s \in Slot : s # NoSlot => /\ Dialer(s) = n => z[s].d = "gone"
                                       /\ Acceptor(s) = n => z[s].a \in {"wait", "gone"}
  BY ClosingOthers
<1>. HIDE DEF x, z
<1>4. Fits(n, x)
  BY <1>1 DEF Fits, IsBare
<1>5. LoopInv' /\ Becomes(n, x)
  BY <1>1, <1>2, <1>4, LoopStep DEF IsBare
<1>6. PromptInv'
  BY <1>1, <1>2, <1>5, PromptStep DEF IsBare
<1>7. \A s \in Slot : /\ Dialer(s) = n => conn'[s].d = "gone"
                      /\ Acceptor(s) = n => conn'[s].a \notin {"shake", "up"}
  BY <1>2, <1>3, SlotIs
<1>8. ConnInv'
  <2>1. conn' \in [Slot -> Ends] /\ Fewer(conn')
    BY <1>2, <1>3
  <2>. QED
    BY <1>5, <1>7, <2>1, FewerHeld
<1>. QED
  BY <1>5, <1>6, <1>8 DEF x

LEMMA OpenedEnd ==
    ASSUME NEW c \in Ends, NEW n \in Node, NEW s \in Slot
    PROVE  /\ OpenEnd(c, n, s) \in Ends
           /\ Dialer(s) = n => OpenEnd(c, n, s).a = c.a
           /\ Dialer(s) # n => OpenEnd(c, n, s).d = c.d
BY Flags DEF OpenEnd, Ends

LEMMA BeginStep ==
    ASSUME LoopInv, ConnInv, PromptInv, NEW n \in Node, NEW s \in Slot, n \in {Dialer(s), Acceptor(s)},
           NEW controls \in Flag, NEW intent \in Someone,
           intent # None => controls /\ PeerOn(n, s) = intent,
           BeginSession(n, s, controls, intent)
    PROVE  LoopInv' /\ ConnInv' /\ PromptInv' /\ Becomes(n, Running(s, PeerOn(n, s), controls, intent))
<1>. DEFINE p == PeerOn(n, s)
            x == Running(s, p, controls, intent)
            z == CloseOthers(conn, n, s)
            o == OpenEnd(z[s], n, s)
<1>0. p \in Node
  BY PeerIs
<1>1. IsRunning(x, s, p, controls, intent)
  BY <1>0, RunningLoop
<1>2. st' = [st EXCEPT ![n] = x] /\ DropPrompt(n)
  BY DEF BeginSession, Running
<1>3. /\ z \in [Slot -> Ends] /\ Fewer(z) /\ z[s] = conn[s]
      /\ \A u \in Slot : u # s => /\ Dialer(u) = n => z[u].d = "gone"
                                  /\ Acceptor(u) = n => z[u].a \in {"wait", "gone"}
  BY ClosingOthers
<1>4. conn' = [z EXCEPT ![s] = o]
  BY DEF BeginSession
<1>5. o \in Ends /\ (Dialer(s) = n => o.a = conn[s].a) /\ (Dialer(s) # n => o.d = conn[s].d)
  BY <1>3, OpenedEnd
<1>. HIDE DEF x, z, o
<1>6. Fits(n, x)
  BY <1>1, SlotIs DEF Fits, IsRunning, p
<1>. HIDE DEF p
<1>7. LoopInv' /\ Becomes(n, x)
  BY <1>1, <1>2, <1>6, LoopStep DEF IsRunning
<1>8. PromptInv'
  BY <1>1, <1>2, <1>7, PromptStep DEF IsRunning
<1>9. conn' \in [Slot -> Ends] /\ conn'[s] = o /\ \A u \in Slot : u # s => conn'[u] = z[u]
  BY <1>3, <1>4, <1>5
<1>10. ASSUME NEW u \in Slot
       PROVE  /\ conn'[u].d # "gone" => u \in {st'[Dialer(u)].dial, st'[Dialer(u)].sess}
              /\ conn'[u].a \in {"shake", "up"} => u \in {st'[Acceptor(u)].acc, st'[Acceptor(u)].sess}
  <2>1. /\ conn[u].d # "gone" => u \in {st[Dialer(u)].dial, st[Dialer(u)].sess}
        /\ conn[u].a \in {"shake", "up"} => u \in {st[Acceptor(u)].acc, st[Acceptor(u)].sess}
    BY DEF ConnInv, EveryConnectionIsHeld
  <2>2. st'[n] = x /\ \A m \in Node : m # n => st'[m] = st[m]
    BY <1>7 DEF Becomes
  <2>3. CASE u = s
    <3>1. Dialer(s) = n => Acceptor(s) # n
      BY SlotIs
    <3>. QED
      BY <1>1, <1>5, <1>9, <2>1, <2>2, <2>3, <3>1, SlotIs DEF IsRunning
  <2>4. CASE u # s
    BY <1>1, <1>3, <1>9, <2>1, <2>2, <2>4, SlotIs DEF Fewer, IsRunning
  <2>. QED
    BY <2>3, <2>4
<1>11. ConnInv'
  BY <1>9, <1>10 DEF ConnInv, EveryConnectionIsHeld
<1>. QED
  BY <1>7, <1>8, <1>11 DEF x, p

-----------------------------------------------------------------------------
(* Trust                                                                   *)

LEMMA TrustStep ==
    ASSUME TrustInv, NEW n \in Node, NEW x, Becomes(n, x),
           \A m \in Node : m # n => trust'[m] = trust[m] /\ discQ'[m] = discQ[m] /\ resetting'[m] = resetting[m],
           Safe(x, trust'[n]) \/ discQ'[n] > 0 \/ resetting'[n] # "no"
    PROVE  TrustInv'
<1>1. ASSUME NEW m \in Node
      PROVE  Safe(st'[m], trust'[m]) \/ discQ'[m] > 0 \/ resetting'[m] # "no"
  <2>1. CASE m = n
    BY <2>1 DEF Becomes
  <2>2. CASE m # n
    <3>1. st'[m] = st[m] /\ trust'[m] = trust[m] /\ discQ'[m] = discQ[m] /\ resetting'[m] = resetting[m]
      BY <2>2 DEF Becomes
    <3>2. Safe(st[m], trust[m]) \/ discQ[m] > 0 \/ resetting[m] # "no"
      BY DEF TrustInv
    <3>. QED
      BY <3>1, <3>2
  <2>. QED
    BY <2>1, <2>2
<1>. QED
  BY <1>1 DEF TrustInv

\* Nothing that trust matters for.
Idle(x) == x.dial = NoSlot /\ x.phase \notin {"resolve", "ipcdial", "session"}

\* The loop of n now holds nothing.
Settled(n) == LoopInv' /\ ConnInv' /\ PromptInv' /\ \E x : Becomes(n, x) /\ Idle(x)

LEMMA SettledEnter ==
    ASSUME LoopInv, ConnInv, PromptInv, NEW n \in Node, NEW phase \in {"seek", "check", "delay", "stopped"},
           NEW intent \in Someone, NEW target \in Someone, NEW listening \in Flag,
           intent # None => ~listening /\ target = intent /\ phase \in {"check", "delay"},
           Enter(n, phase, intent, target, listening)
    PROVE  Settled(n)
<1>. DEFINE x == Bare(phase, intent, target, listening)
<1>1. phase \in Phases /\ phase # "session"
  BY DEF Phases
<1>2. LoopInv' /\ ConnInv' /\ PromptInv' /\ Becomes(n, x)
  BY <1>1, EnterStep
<1>3. IsBare(x, phase, intent, target, listening)
  BY <1>1, BareLoop
<1>. HIDE DEF x
<1>4. Idle(x)
  BY <1>3 DEF Idle, IsBare
<1>. QED
  BY <1>2, <1>4 DEF Settled

LEMMA SettledSeek ==
    ASSUME LoopInv, ConnInv, PromptInv, NEW n \in Node, SeekAgain(n) \/ LoopTop(n, None)
    PROVE  Settled(n)
<1>1. Enter(n, "seek", None, None, FALSE) /\ None \in Someone
  BY DEF SeekAgain, LoopTop, Someone
<1>. QED
  BY <1>1, SettledEnter, Flags

LEMMA SettledTop ==
    ASSUME LoopInv, ConnInv, PromptInv, NEW n \in Node, NEW p \in Node, LoopTop(n, p)
    PROVE  Settled(n)
<1>1. Enter(n, "check", p, p, FALSE) /\ p \in Someone
  BY SlotIs DEF LoopTop, Someone
<1>. QED
  BY <1>1, SettledEnter, Flags

LEMMA SettledFailure ==
    ASSUME LoopInv, ConnInv, PromptInv, NEW n \in Node, st[n].phase \in {"seek", "ipcdial", "redial"},
           AfterFailure(n)
    PROVE  Settled(n)
<1>1. CASE st[n].phase \in {"seek", "ipcdial"}
  BY <1>1, SettledSeek DEF AfterFailure
<1>2. CASE st[n].phase = "redial"
  <2>. DEFINE x == st[n]
  <2>1. Enter(n, "delay", x.intent, x.target, x.acceptInbound)
    BY <1>2 DEF AfterFailure, BackOff
  <2>2. x \in Loop /\ Fits(n, x)
    BY DEF LoopInv
  <2>. HIDE DEF x
  <2>3. x.intent \in Someone /\ x.target \in Someone /\ x.acceptInbound \in Flag
    BY <2>2 DEF Loop
  <2>4. x.intent # None => ~x.acceptInbound /\ x.target = x.intent
    BY <2>2 DEF Fits
  <2>. QED
    BY <2>1, <2>3, <2>4, SettledEnter
<1>. QED
  BY <1>1, <1>2

\* A step of n that leaves its loop settled.
LEMMA SettledStep ==
    ASSUME ConnectInv, NEW n \in Node, Settled(n), QueueInv',
           \A m \in Node : m # n => trust'[m] = trust[m] /\ discQ'[m] = discQ[m] /\ resetting'[m] = resetting[m]
    PROVE  ConnectInv'
<1>1. PICK x : Becomes(n, x) /\ Idle(x)
  BY DEF Settled
<1>2. Safe(x, trust'[n])
  BY <1>1 DEF Idle, Safe
<1>3. TrustInv'
  BY <1>1, <1>2, TrustStep DEF ConnectInv
<1>. QED
  BY <1>3 DEF ConnectInv, Settled

\* A step of n into a session with p.
LEMMA SessionStep ==
    ASSUME ConnectInv, NEW n \in Node, NEW s \in Slot, n \in {Dialer(s), Acceptor(s)},
           NEW controls \in Flag, NEW intent \in Someone,
           intent # None => controls /\ PeerOn(n, s) = intent,
           BeginSession(n, s, controls, intent), QueueInv',
           \A m \in Node : m # n => trust'[m] = trust[m] /\ discQ'[m] = discQ[m] /\ resetting'[m] = resetting[m],
           PeerOn(n, s) \in trust'[n] \/ discQ'[n] > 0 \/ resetting'[n] # "no"
    PROVE  ConnectInv'
<1>. DEFINE x == Running(s, PeerOn(n, s), controls, intent)
<1>1. LoopInv' /\ ConnInv' /\ PromptInv' /\ Becomes(n, x)
  BY BeginStep DEF ConnectInv
<1>2. IsRunning(x, s, PeerOn(n, s), controls, intent)
  BY RunningLoop, PeerIs
<1>. HIDE DEF x
<1>3. PeerOn(n, s) \in trust'[n] => Safe(x, trust'[n])
  BY <1>2 DEF Safe, IsRunning
<1>4. TrustInv'
  BY <1>1, <1>3, TrustStep DEF ConnectInv
<1>. QED
  BY <1>1, <1>4 DEF ConnectInv

-----------------------------------------------------------------------------
(* Steps that change part of a loop                                        *)

LEMMA PromptSame ==
    ASSUME PromptInv, NEW n \in Node, NEW x, Becomes(n, x), x.pairing = st[n].pairing,
           st[n].pairing => x.acc = st[n].acc, UNCHANGED prompt
    PROVE  PromptInv'
<1>1. ASSUME NEW m \in Node
      PROVE  prompt'[m] = IF st'[m].pairing THEN Dialer(st'[m].acc) ELSE None
  BY DEF PromptInv, PromptIsLive, Becomes
<1>. QED
  BY <1>1 DEF PromptInv, PromptIsLive

LEMMA TrustSame ==
    ASSUME ConnectInv, NEW n \in Node, NEW x, Becomes(n, x), UNCHANGED <<trust, discQ, resetting>>,
           Safe(st[n], trust[n]) => Safe(x, trust[n])
    PROVE  TrustInv'
<1>1. Safe(st[n], trust[n]) \/ discQ[n] > 0 \/ resetting[n] # "no"
  BY DEF ConnectInv, TrustInv
<1>. QED
  BY <1>1, TrustStep DEF ConnectInv

LEMMA DialStep ==
    ASSUME ConnectInv, NEW n \in Node, NEW p \in Node, n # p, NEW phase, StartDial(n, p, phase),
           st[n].dial = NoSlot,
           \/ phase = "seek" /\ st[n].phase = "seek" /\ p \in trust[n]
           \/ phase = "ipcdial" /\ st[n].phase = "ipcdial" /\ p = st[n].target
           \/ phase = "redial" /\ st[n].phase = "resolve" /\ p = st[n].target,
           UNCHANGED <<trust, discQ, resetting, prompt, connectQ, sees>>
    PROVE  ConnectInv'
<1>1. LoopInv /\ ConnInv /\ PromptInv /\ QueueInv
  BY DEF ConnectInv
<1>2. PICK s \in {<<n, p, k>> : k \in {1, 2}} :
            /\ conn[s] = Free
            /\ conn' = [conn EXCEPT ![s] = [d |-> "shake", a |-> "wait", acked |-> FALSE, broken |-> FALSE]]
            /\ st' = [st EXCEPT ![n].dial = s, ![n].phase = phase]
  BY DEF StartDial
<1>3. s \in Slot /\ Dialer(s) = n /\ Acceptor(s) = p
  <2>1. PICK k \in {1, 2} : s = <<n, p, k>>
    BY <1>2
  <2>. QED
    BY <2>1, SlotMade
<1>. DEFINE c == [d |-> "shake", a |-> "wait", acked |-> FALSE, broken |-> FALSE]
            y == st[n]
            x == [y EXCEPT !.dial = s, !.phase = phase]
<1>4. y \in Loop /\ Fits(n, y)
  BY <1>1 DEF LoopInv
<1>5. st' = [st EXCEPT ![n] = x]
  BY <1>1, <1>2 DEF LoopInv
<1>. HIDE DEF y
<1>6. /\ x \in Loop /\ x.dial = s /\ x.phase = phase /\ x.intent = y.intent /\ x.target = y.target
      /\ x.acceptInbound = y.acceptInbound /\ x.acc = y.acc /\ x.pairing = y.pairing /\ x.sess = y.sess
      /\ x.control = y.control
  <2>1. phase \in Phases /\ s \in Held
    BY <1>3 DEF Phases, Held
  <2>. QED
    BY <1>4, <2>1 DEF Loop
<1>. HIDE DEF x
<1>7. y.phase \in {"seek", "ipcdial", "resolve"} /\ (phase = "redial" <=> y.phase = "resolve")
      /\ (phase # "redial" => phase = y.phase) /\ (phase # "seek" => p = y.target) /\ y.dial = NoSlot
  BY DEF y
<1>8. Fits(n, x)
  BY <1>3, <1>4, <1>6, <1>7 DEF Fits
<1>9. LoopInv' /\ Becomes(n, x)
  BY <1>1, <1>5, <1>6, <1>8, LoopStep
<1>10. c \in Ends /\ c.d = "shake" /\ c.a = "wait"
  BY Flags DEF Ends
<1>. HIDE DEF c
<1>11. conn' \in [Slot -> Ends] /\ conn'[s] = c /\ \A u \in Slot : u # s => conn'[u] = conn[u]
  BY <1>1, <1>2, <1>3, <1>10 DEF ConnInv, c
<1>12. ConnInv'
  <2>1. ASSUME NEW u \in Slot
        PROVE  /\ conn'[u].d # "gone" => u \in {st'[Dialer(u)].dial, st'[Dialer(u)].sess}
               /\ conn'[u].a \in {"shake", "up"} => u \in {st'[Acceptor(u)].acc, st'[Acceptor(u)].sess}
    <3>1. /\ conn[u].d # "gone" => u \in {st[Dialer(u)].dial, st[Dialer(u)].sess}
          /\ conn[u].a \in {"shake", "up"} => u \in {st[Acceptor(u)].acc, st[Acceptor(u)].sess}
      BY <1>1 DEF ConnInv, EveryConnectionIsHeld
    <3>2. st'[n] = x /\ st[n] = y /\ \A m \in Node : m # n => st'[m] = st[m]
      BY <1>9 DEF Becomes, y
    <3>3. CASE u = s
      BY <1>3, <1>6, <1>10, <1>11, <3>2, <3>3
    <3>4. CASE u # s
      BY <1>6, <1>7, <1>11, <3>1, <3>2, <3>4, SlotIs
    <3>. QED
      BY <3>3, <3>4
  <2>. QED
    BY <1>11, <2>1 DEF ConnInv, EveryConnectionIsHeld
<1>13. PromptInv'
  BY <1>1, <1>6, <1>9, PromptSame DEF y
<1>14. TrustInv'
  <2>1. Safe(y, trust[n]) => Safe(x, trust[n])
    BY <1>3, <1>6, <1>7, SlotIs DEF Safe
  <2>. QED
    BY <1>9, <2>1, TrustSame DEF y
<1>. QED
  BY <1>1, <1>9, <1>12, <1>13, <1>14 DEF ConnectInv, QueueInv

\* The connection in s becomes c, and the loop of n becomes x: an end that
\* opens is held by x, and an end that x lets go of is closed.
Turns(n, x, s, c) ==
    /\ c.d # "gone" => conn[s].d # "gone"
    /\ c.a \in {"shake", "up"} => conn[s].a \in {"shake", "up"} \/ (Acceptor(s) = n /\ x.acc = s)
    /\ x.dial = st[n].dial /\ x.sess = st[n].sess
    /\ \A u \in Slot : u = st[n].acc /\ Acceptor(u) = n => u = x.acc \/ (u = s /\ c.a = "gone")

LEMMA EndStep ==
    ASSUME ConnInv, NEW n \in Node, NEW x, Becomes(n, x), NEW s \in Slot, NEW c \in Ends,
           conn' = [conn EXCEPT ![s] = c], Turns(n, x, s, c)
    PROVE  ConnInv'
<1>1. conn' \in [Slot -> Ends] /\ conn'[s] = c /\ \A u \in Slot : u # s => conn'[u] = conn[u]
  BY DEF ConnInv
<1>2. ASSUME NEW u \in Slot
      PROVE  /\ conn'[u].d # "gone" => u \in {st'[Dialer(u)].dial, st'[Dialer(u)].sess}
             /\ conn'[u].a \in {"shake", "up"} => u \in {st'[Acceptor(u)].acc, st'[Acceptor(u)].sess}
  <2>1. /\ conn[u].d # "gone" => u \in {st[Dialer(u)].dial, st[Dialer(u)].sess}
        /\ conn[u].a \in {"shake", "up"} => u \in {st[Acceptor(u)].acc, st[Acceptor(u)].sess}
    BY DEF ConnInv, EveryConnectionIsHeld
  <2>2. st'[n] = x /\ \A m \in Node : m # n => st'[m] = st[m]
    BY DEF Becomes
  <2>3. CASE u = s
    BY <1>1, <2>1, <2>2, <2>3, SlotIs DEF Turns
  <2>4. CASE u # s
    BY <1>1, <2>1, <2>2, <2>4, SlotIs DEF Turns
  <2>. QED
    BY <2>3, <2>4
<1>. QED
  BY <1>1, <1>2 DEF ConnInv, EveryConnectionIsHeld

\* A step that leaves the loops and the connections alone.
LEMMA StillStep ==
    ASSUME ConnectInv, NEW n \in Node, UNCHANGED <<st, conn, prompt>>, QueueInv',
           \A m \in Node : m # n => trust'[m] = trust[m] /\ discQ'[m] = discQ[m] /\ resetting'[m] = resetting[m],
           Safe(st[n], trust[n]) \/ discQ[n] > 0 \/ resetting[n] # "no"
              => Safe(st[n], trust'[n]) \/ discQ'[n] > 0 \/ resetting'[n] # "no"
    PROVE  ConnectInv'
<1>1. LoopInv' /\ Becomes(n, st[n])
  BY DEF ConnectInv, LoopInv, Becomes
<1>2. ConnInv'
  BY DEF ConnectInv, ConnInv, EveryConnectionIsHeld
<1>3. PromptInv'
  BY DEF ConnectInv, PromptInv, PromptIsLive
<1>4. Safe(st[n], trust'[n]) \/ discQ'[n] > 0 \/ resetting'[n] # "no"
  BY DEF ConnectInv, TrustInv
<1>5. TrustInv'
  BY <1>1, <1>4, TrustStep DEF ConnectInv
<1>. QED
  BY <1>1, <1>2, <1>3, <1>5 DEF ConnectInv

LEMMA QueueSame ==
    ASSUME ConnectInv, UNCHANGED <<trust, sees, connectQ, discQ, resetting>>
    PROVE  QueueInv' /\ \A m \in Node : trust'[m] = trust[m] /\ discQ'[m] = discQ[m] /\ resetting'[m] = resetting[m]
BY DEF ConnectInv, QueueInv

\* The loop of a machine, and what it fits.
LEMMA LoopIs ==
    ASSUME ConnectInv, NEW n \in Node
    PROVE  st[n] \in Loop /\ Fits(n, st[n])
BY DEF ConnectInv, LoopInv

LEMMA AcceptStep ==
    ASSUME ConnectInv, NEW n \in Node, AcceptStart(n)
    PROVE  ConnectInv'
<1>1. LoopInv /\ ConnInv /\ PromptInv /\ QueueInv
  BY DEF ConnectInv
<1>2. /\ Accepting(n) /\ st[n].acc = NoSlot
      /\ UNCHANGED <<trust, sees, connectQ, discQ, resetting, prompt>>
  BY DEF AcceptStart
<1>3. PICK s \in Slot : /\ Acceptor(s) = n
                        /\ conn' = [conn EXCEPT ![s].a = "shake"]
                        /\ st' = [st EXCEPT ![n].acc = s]
  BY DEF AcceptStart
<1>. DEFINE y == st[n]
            x == [y EXCEPT !.acc = s]
            c == [conn[s] EXCEPT !.a = "shake"]
<1>4. y \in Loop /\ Fits(n, y)
  BY LoopIs
<1>5. st' = [st EXCEPT ![n] = x]
  BY <1>1, <1>3 DEF LoopInv
<1>6. y.acc = NoSlot /\ (y.phase = "seek" \/ (y.phase = "redial" /\ y.acceptInbound))
  BY <1>2 DEF Accepting
<1>. HIDE DEF y
<1>7. /\ x \in Loop /\ x.dial = y.dial /\ x.phase = y.phase /\ x.intent = y.intent /\ x.target = y.target
      /\ x.acceptInbound = y.acceptInbound /\ x.acc = s /\ x.pairing = y.pairing /\ x.sess = y.sess
      /\ x.control = y.control
  BY <1>4 DEF Loop, Held
<1>. HIDE DEF x
<1>8. Fits(n, x)
  BY <1>3, <1>4, <1>6, <1>7, SlotIs DEF Fits
<1>9. LoopInv' /\ Becomes(n, x)
  BY <1>1, <1>5, <1>7, <1>8, LoopStep
<1>10. c \in Ends /\ c.d = conn[s].d /\ c.a = "shake" /\ conn' = [conn EXCEPT ![s] = c]
  BY <1>1, <1>3 DEF ConnInv, Ends
<1>. HIDE DEF c
<1>11. ConnInv'
  <2>1. x.dial = st[n].dial /\ x.sess = st[n].sess /\ st[n].acc = NoSlot
    BY <1>6, <1>7 DEF y
  <2>2. Turns(n, x, s, c)
    BY <1>3, <1>7, <1>10, <2>1, SlotIs DEF Turns
  <2>. QED
    BY <1>1, <1>9, <1>10, <2>2, EndStep
<1>12. PromptInv'
  <2>1. ~y.pairing
    BY <1>4, <1>6 DEF Fits
  <2>. QED
    BY <1>1, <1>2, <1>7, <1>9, <2>1, PromptSame DEF y
<1>13. TrustInv'
  <2>1. Safe(y, trust[n]) => Safe(x, trust[n])
    BY <1>7 DEF Safe
  <2>. QED
    BY <1>2, <1>9, <2>1, TrustSame DEF y
<1>. QED
  BY <1>2, <1>9, <1>11, <1>12, <1>13, QueueSame DEF ConnectInv

\* An untrusted dialer is put before the user.
LEMMA PairStep ==
    ASSUME ConnectInv, NEW n \in Node, st[n].acc # NoSlot, ~st[n].pairing,
           st' = [st EXCEPT ![n].pairing = TRUE],
           conn' = [conn EXCEPT ![st[n].acc].a = "up"],
           RequestPairing(n, Dialer(st[n].acc)),
           UNCHANGED <<trust, sees, connectQ, discQ, resetting>>
    PROVE  ConnectInv'
<1>1. LoopInv /\ ConnInv /\ PromptInv /\ QueueInv
  BY DEF ConnectInv
<1>0. PICK s : s = st[n].acc
  OBVIOUS
<1>. DEFINE y == st[n]
            x == [y EXCEPT !.pairing = TRUE]
            c == [conn[s] EXCEPT !.a = "up"]
<1>2. y \in Loop /\ Fits(n, y)
  BY LoopIs
<1>3. st' = [st EXCEPT ![n] = x]
  BY <1>1 DEF LoopInv
<1>4. s \in Slot /\ Acceptor(s) = n
  <2>1. y.acc # NoSlot /\ y.acc = s
    BY <1>0
  <2>. HIDE DEF y
  <2>. QED
    BY <1>2, <2>1 DEF Fits, Loop, Held
<1>5. c \in Ends /\ c.d = conn[s].d /\ c.a = "up" /\ conn' = [conn EXCEPT ![s] = c]
  BY <1>0, <1>1, <1>4 DEF ConnInv, Ends
<1>6. prompt' = [prompt EXCEPT ![n] = Dialer(s)]
  BY <1>0 DEF RequestPairing
<1>. HIDE DEF y, c
<1>7. /\ x \in Loop /\ x.dial = y.dial /\ x.phase = y.phase /\ x.intent = y.intent /\ x.target = y.target
      /\ x.acceptInbound = y.acceptInbound /\ x.acc = y.acc /\ x.pairing = TRUE /\ x.sess = y.sess
      /\ x.control = y.control
  BY <1>2, Flags DEF Loop
<1>. HIDE DEF x
<1>8. y.acc # NoSlot
  BY DEF y
<1>9. Fits(n, x)
  BY <1>2, <1>7, <1>8 DEF Fits
<1>10. LoopInv' /\ Becomes(n, x)
  BY <1>1, <1>3, <1>7, <1>9, LoopStep
<1>11. ConnInv'
  <2>1. x.dial = st[n].dial /\ x.sess = st[n].sess /\ x.acc = s
    BY <1>0, <1>7 DEF y
  <2>2. Turns(n, x, s, c)
    BY <1>0, <1>4, <1>5, <2>1 DEF Turns
  <2>. QED
    BY <1>1, <1>4, <1>5, <1>10, <2>2, EndStep
<1>12. PromptInv'
  <2>1. prompt' \in [Node -> Someone] /\ prompt'[n] = Dialer(s) /\ \A m \in Node : m # n => prompt'[m] = prompt[m]
    BY <1>1, <1>4, <1>6, SlotIs DEF PromptInv, Someone
  <2>2. ASSUME NEW m \in Node
        PROVE  prompt'[m] = IF st'[m].pairing THEN Dialer(st'[m].acc) ELSE None
    <3>1. CASE m = n
      BY <1>0, <1>7, <1>10, <2>1, <3>1 DEF Becomes, y
    <3>2. CASE m # n
      BY <1>1, <1>10, <2>1, <3>2 DEF PromptInv, PromptIsLive, Becomes
    <3>. QED
      BY <3>1, <3>2
  <2>. QED
    BY <2>1, <2>2 DEF PromptInv, PromptIsLive
<1>13. TrustInv'
  <2>1. Safe(y, trust[n]) => Safe(x, trust[n])
    BY <1>7 DEF Safe
  <2>. QED
    BY <1>10, <2>1, TrustSame DEF y
<1>. QED
  BY <1>10, <1>11, <1>12, <1>13, QueueSame DEF ConnectInv

LEMMA RejectStep ==
    ASSUME ConnectInv, NEW n \in Node, st[n].acc # NoSlot, Reject(n),
           UNCHANGED <<trust, sees, connectQ, discQ, resetting>>
    PROVE  ConnectInv'
<1>1. LoopInv /\ ConnInv /\ PromptInv /\ QueueInv
  BY DEF ConnectInv
<1>0. PICK s : s = st[n].acc
  OBVIOUS
<1>. DEFINE y == st[n]
            x == [y EXCEPT !.acc = NoSlot, !.pairing = FALSE]
            c == CloseEnd(conn[s], n, s)
<1>2. y \in Loop /\ Fits(n, y)
  BY LoopIs
<1>3. st' = [st EXCEPT ![n] = x]
  BY <1>1 DEF LoopInv, Reject
<1>4. s \in Slot /\ Acceptor(s) = n
  <2>1. y.acc # NoSlot /\ y.acc = s
    BY <1>0
  <2>. HIDE DEF y
  <2>. QED
    BY <1>2, <2>1 DEF Fits, Loop, Held
<1>5. conn' = [conn EXCEPT ![s] = c] /\ DropPrompt(n)
  BY <1>0 DEF Reject
<1>6. c \in Ends /\ (c.d # "gone" => conn[s].d # "gone") /\ c.a = "gone"
  <2>1. conn[s] \in Ends
    BY <1>1, <1>4 DEF ConnInv
  <2>. QED
    BY <1>4, <2>1, ClosedEnd
<1>. HIDE DEF y, c
<1>7. NoSlot \in Held
  BY DEF Held
<1>8. /\ x \in Loop /\ x.dial = y.dial /\ x.phase = y.phase /\ x.intent = y.intent /\ x.target = y.target
      /\ x.acceptInbound = y.acceptInbound /\ x.acc = NoSlot /\ x.pairing = FALSE /\ x.sess = y.sess
      /\ x.control = y.control
  <2>. HIDE DEF NoSlot
  <2>. QED
    BY <1>2, <1>7, Flags DEF Loop
<1>. HIDE DEF x
<1>9. Fits(n, x)
  BY <1>2, <1>8 DEF Fits
<1>10. LoopInv' /\ Becomes(n, x)
  BY <1>1, <1>3, <1>8, <1>9, LoopStep
<1>11. ConnInv'
  <2>1. x.dial = st[n].dial /\ x.sess = st[n].sess /\ st[n].acc = s
    BY <1>0, <1>8 DEF y
  <2>2. Turns(n, x, s, c)
    BY <1>0, <1>6, <2>1 DEF Turns
  <2>. QED
    BY <1>1, <1>4, <1>5, <1>6, <1>10, <2>2, EndStep
<1>12. PromptInv'
  BY <1>1, <1>5, <1>8, <1>10, PromptStep
<1>13. TrustInv'
  <2>1. Safe(y, trust[n]) => Safe(x, trust[n])
    BY <1>8 DEF Safe
  <2>. QED
    BY <1>10, <2>1, TrustSame DEF y
<1>. QED
  BY <1>10, <1>11, <1>12, <1>13, QueueSame DEF ConnectInv

\* The loop moves on and holds what it held.
LEMMA PhaseStep ==
    ASSUME ConnectInv, NEW n \in Node, NEW phase, st' = [st EXCEPT ![n].phase = phase],
           \/ phase = "resolve" /\ st[n].phase = "check" /\ st[n].target \in trust[n]
           \/ phase = "check" /\ st[n].phase = "delay",
           UNCHANGED <<trust, sees, connectQ, discQ, resetting, conn, prompt>>
    PROVE  ConnectInv'
<1>1. LoopInv /\ ConnInv /\ PromptInv /\ QueueInv
  BY DEF ConnectInv
<1>. DEFINE y == st[n]
            x == [y EXCEPT !.phase = phase]
<1>2. y \in Loop /\ Fits(n, y)
  BY LoopIs
<1>3. st' = [st EXCEPT ![n] = x]
  BY <1>1 DEF LoopInv
<1>4. /\ y.phase \in {"check", "delay"} /\ phase \in {"resolve", "check"}
      /\ phase = "resolve" => y.target \in trust[n]
  OBVIOUS
<1>. HIDE DEF y
<1>5. /\ x \in Loop /\ x.dial = y.dial /\ x.phase = phase /\ x.intent = y.intent /\ x.target = y.target
      /\ x.acceptInbound = y.acceptInbound /\ x.acc = y.acc /\ x.pairing = y.pairing /\ x.sess = y.sess
      /\ x.control = y.control
  BY <1>2, <1>4 DEF Loop, Phases
<1>. HIDE DEF x
<1>6. Fits(n, x)
  BY <1>2, <1>4, <1>5 DEF Fits
<1>7. LoopInv' /\ Becomes(n, x)
  BY <1>1, <1>3, <1>5, <1>6, LoopStep
<1>8. ConnInv'
  <2>1. conn' \in [Slot -> Ends] /\ Fewer(conn')
    BY <1>1 DEF ConnInv, Fewer
  <2>2. ASSUME NEW s \in Slot
        PROVE  /\ Dialer(s) = n /\ conn'[s].d # "gone" => s \in {x.dial, x.sess}
               /\ Acceptor(s) = n /\ conn'[s].a \in {"shake", "up"} => s \in {x.acc, x.sess}
    BY <1>1, <1>5 DEF ConnInv, EveryConnectionIsHeld, y
  <2>. QED
    BY <1>1, <1>7, <2>1, <2>2, FewerHeld
<1>9. PromptInv'
  BY <1>1, <1>5, <1>7, PromptSame DEF y
<1>10. TrustInv'
  <2>1. Safe(y, trust[n]) => Safe(x, trust[n])
    BY <1>4, <1>5 DEF Safe
  <2>. QED
    BY <1>7, <2>1, TrustSame DEF y
<1>. QED
  BY <1>7, <1>8, <1>9, <1>10, QueueSame DEF ConnectInv

\* A mark on a connection that opens and closes no end.
LEMMA MarkStep ==
    ASSUME ConnectInv, NEW s \in Slot, NEW c \in Ends, conn' = [conn EXCEPT ![s] = c],
           c.d = conn[s].d, c.a = conn[s].a,
           UNCHANGED <<st, prompt, trust, sees, connectQ, discQ, resetting>>
    PROVE  ConnectInv'
<1>. DEFINE n == Dialer(s)
            x == st[n]
<1>1. n \in Node
  BY SlotIs
<1>2. LoopInv' /\ Becomes(n, x)
  BY DEF ConnectInv, LoopInv, Becomes
<1>3. Turns(n, x, s, c)
  BY DEF Turns
<1>. HIDE DEF n, x
<1>4. ConnInv'
  BY <1>1, <1>2, <1>3, EndStep DEF ConnectInv
<1>5. PromptInv' /\ TrustInv'
  BY DEF ConnectInv, PromptInv, PromptIsLive, TrustInv
<1>. QED
  BY <1>2, <1>4, <1>5, QueueSame DEF ConnectInv

-----------------------------------------------------------------------------
(* The steps of a machine                                                  *)

\* What is dialed is a slot of the dialer, and what is accepted one of the
\* acceptor; an intent is never listened under.
LEMMA Handles ==
    ASSUME ConnectInv, NEW n \in Node
    PROVE  /\ st[n].dial # NoSlot => /\ st[n].dial \in Slot /\ Dialer(st[n].dial) = n
                                     /\ PeerOn(n, st[n].dial) = Acceptor(st[n].dial)
                                     /\ st[n].phase \in {"seek", "ipcdial", "redial"}
                                     /\ st[n].intent # None => Acceptor(st[n].dial) = st[n].intent
           /\ st[n].acc # NoSlot => /\ st[n].acc \in Slot /\ Acceptor(st[n].acc) = n
                                    /\ PeerOn(n, st[n].acc) = Dialer(st[n].acc)
                                    /\ st[n].phase \in {"seek", "redial"} /\ st[n].intent = None
           /\ st[n].pairing => st[n].acc # NoSlot
           /\ st[n].intent \in Someone /\ st[n].target \in Someone /\ st[n].acceptInbound \in Flag
           /\ st[n].control \in Flag
<1>. DEFINE x == st[n]
<1>1. x \in Loop /\ Fits(n, x)
  BY LoopIs
<1>. HIDE DEF x
<1>2. x.dial # NoSlot => /\ x.dial \in Slot /\ Dialer(x.dial) = n
                         /\ x.phase \in {"seek", "ipcdial", "redial"}
                         /\ x.intent # None => Acceptor(x.dial) = x.intent
  BY <1>1 DEF Fits, Loop, Held
<1>3. x.acc # NoSlot => /\ x.acc \in Slot /\ Acceptor(x.acc) = n
                        /\ x.phase \in {"seek", "redial"} /\ x.intent = None
  BY <1>1 DEF Fits, Loop, Held
<1>4. /\ x.dial # NoSlot => PeerOn(n, x.dial) = Acceptor(x.dial)
      /\ x.acc # NoSlot => PeerOn(n, x.acc) = Dialer(x.acc)
  BY <1>2, <1>3, PeerIs
<1>5. /\ x.pairing => x.acc # NoSlot
      /\ x.intent \in Someone /\ x.target \in Someone /\ x.acceptInbound \in Flag /\ x.control \in Flag
  BY <1>1 DEF Fits, Loop
<1>. QED
  BY <1>2, <1>3, <1>4, <1>5 DEF x

LEMMA DialDoneStep ==
    ASSUME ConnectInv, NEW n \in Node, DialDone(n)
    PROVE  ConnectInv'
<1>1. st[n].dial # NoSlot /\ UNCHANGED <<trust, sees, connectQ, discQ, resetting>>
  BY DEF DialDone
<1>0. PICK s : s = st[n].dial
  OBVIOUS
<1>. DEFINE intent == IF st[n].phase = "ipcdial" THEN Acceptor(s) ELSE st[n].intent
<1>2. BeginSession(n, s, TRUE, intent)
  BY <1>0 DEF DialDone
<1>3. /\ s \in Slot /\ Dialer(s) = n /\ PeerOn(n, s) = Acceptor(s)
      /\ st[n].intent # None => Acceptor(s) = st[n].intent
      /\ st[n].intent \in Someone
  BY <1>0, <1>1, Handles
<1>4. intent \in Someone /\ (intent # None => TRUE /\ PeerOn(n, s) = intent)
  BY <1>3, SlotIs DEF Someone
<1>5. PeerOn(n, s) \in trust'[n] \/ discQ'[n] > 0 \/ resetting'[n] # "no"
  BY <1>0, <1>1, <1>3 DEF ConnectInv, TrustInv, Safe
<1>. HIDE DEF intent
<1>. QED
  BY <1>1, <1>2, <1>3, <1>4, <1>5, QueueSame, SessionStep, Flags

\* A step that ends in an accepted session, or in a failed redial.
LEMMA AcceptedStep ==
    ASSUME ConnectInv, NEW n \in Node, st[n].acc # NoSlot, Accepted(n), QueueInv',
           \A m \in Node : m # n => trust'[m] = trust[m] /\ discQ'[m] = discQ[m] /\ resetting'[m] = resetting[m],
           Dialer(st[n].acc) \in trust'[n]
    PROVE  ConnectInv'
<1>0. PICK s : s = st[n].acc
  OBVIOUS
<1>1. /\ s \in Slot /\ Acceptor(s) = n /\ PeerOn(n, s) = Dialer(s)
      /\ st[n].phase \in {"seek", "redial"} /\ st[n].intent = None
  BY <1>0, Handles
<1>2. CASE AfterFailure(n)
  BY <1>1, <1>2, SettledFailure, SettledStep DEF ConnectInv
<1>3. CASE BeginSession(n, s, FALSE, None)
  <2>1. None \in Someone /\ PeerOn(n, s) \in trust'[n]
    BY <1>0, <1>1 DEF Someone
  <2>. QED
    BY <1>1, <1>3, <2>1, SessionStep, Flags
<1>. QED
  BY <1>0, <1>1, <1>2, <1>3 DEF Accepted

LEMMA AcceptDoneStep ==
    ASSUME ConnectInv, NEW n \in Node, AcceptDone(n)
    PROVE  ConnectInv'
<1>1. st[n].acc # NoSlot /\ ~st[n].pairing /\ UNCHANGED <<trust, sees, connectQ, discQ, resetting>>
  BY DEF AcceptDone
<1>2. CASE IsPeerTrusted(n, Dialer(st[n].acc))
  <2>1. Accepted(n)
    BY <1>2 DEF AcceptDone
  <2>2. Dialer(st[n].acc) \in trust'[n]
    BY <1>1, <1>2 DEF IsPeerTrusted
  <2>. QED
    BY <1>1, <2>1, <2>2, QueueSame, AcceptedStep
<1>3. CASE ~IsPeerTrusted(n, Dialer(st[n].acc)) /\ n \in Headless
  BY <1>1, <1>3, RejectStep DEF AcceptDone
<1>4. CASE ~IsPeerTrusted(n, Dialer(st[n].acc)) /\ n \notin Headless
  BY <1>1, <1>4, PairStep DEF AcceptDone
<1>. QED
  BY <1>2, <1>3, <1>4

LEMMA DecisionStep ==
    ASSUME ConnectInv, NEW n \in Node, TakeDecision(n)
    PROVE  ConnectInv'
<1>1. st[n].acc # NoSlot /\ UNCHANGED <<sees, connectQ, discQ, resetting>>
  BY Handles DEF TakeDecision
<1>. DEFINE p == Dialer(st[n].acc)
<1>2. p \in Node
  BY <1>1, Handles, SlotIs
<1>3. CASE TrustPeer(n, p) /\ Accepted(n)
  <2>1. /\ trust' \in [Node -> SUBSET Node] /\ p \in trust'[n]
        /\ \A m \in Node : m # n => trust'[m] = trust[m]
    BY <1>2, <1>3 DEF TrustPeer, ConnectInv, QueueInv
  <2>2. QueueInv' /\ \A m \in Node : m # n => trust'[m] = trust[m] /\ discQ'[m] = discQ[m] /\ resetting'[m] = resetting[m]
    BY <1>1, <2>1 DEF ConnectInv, QueueInv
  <2>. QED
    BY <1>1, <1>3, <2>1, <2>2, AcceptedStep
<1>4. CASE Reject(n) /\ UNCHANGED trust
  BY <1>1, <1>4, RejectStep
<1>5. CASE UNCHANGED <<st, conn, trust, ui, prompt>>
  BY <1>1, <1>5, QueueSame, StillStep
<1>. QED
  BY <1>3, <1>4, <1>5 DEF TakeDecision

\* A step that settles the loop of n and touches no queue.
LEMMA SettledOnly ==
    ASSUME ConnectInv, NEW n \in Node, Settled(n), UNCHANGED <<trust, sees, connectQ, discQ, resetting>>
    PROVE  ConnectInv'
BY QueueSame, SettledStep

LEMMA DialingStep ==
    ASSUME ConnectInv, NEW n \in Node, DialDiscovered(n) \/ DialFail(n) \/ Resolve(n) \/ IpcDial(n)
    PROVE  ConnectInv'
<1>0. LoopInv /\ ConnInv /\ PromptInv /\ QueueInv
  BY DEF ConnectInv
<1>1. CASE DialDiscovered(n)
  <2>1. PICK p \in Node \ {n} : MayAutoDial(n, p) /\ StartDial(n, p, "seek")
    BY <1>1 DEF DialDiscovered
  <2>2. p \in trust[n]
    BY <2>1 DEF MayAutoDial, IsPeerTrusted
  <2>3. /\ st[n].phase = "seek" /\ st[n].dial = NoSlot
        /\ UNCHANGED <<trust, discQ, resetting, prompt, connectQ, sees>>
    BY <1>1 DEF DialDiscovered
  <2>. QED
    BY <2>1, <2>2, <2>3, DialStep
<1>2. CASE DialFail(n)
  <2>1. st[n].phase \in {"seek", "ipcdial", "redial"}
    BY <1>2, Handles DEF DialFail
  <2>2. AfterFailure(n) /\ UNCHANGED <<trust, sees, connectQ, discQ, resetting>>
    BY <1>2 DEF DialFail
  <2>. QED
    BY <1>0, <2>1, <2>2, SettledFailure, SettledOnly
<1>3. CASE Resolve(n)
  <2>0. PICK p : p = st[n].target
    OBVIOUS
  <2>1. p \in Node /\ p # n
    BY <1>0, <1>3, <2>0 DEF Resolve, QueueInv
  <2>2. st[n].dial = NoSlot
    BY <1>3, Handles DEF Resolve
  <2>3. /\ st[n].phase = "resolve" /\ StartDial(n, p, "redial")
        /\ UNCHANGED <<trust, discQ, resetting, prompt, connectQ, sees>>
    BY <1>3, <2>0 DEF Resolve
  <2>. QED
    BY <2>0, <2>1, <2>2, <2>3, DialStep
<1>4. CASE IpcDial(n)
  <2>1. /\ st[n].phase = "ipcdial" /\ st[n].dial = NoSlot
        /\ UNCHANGED <<trust, discQ, resetting, connectQ, sees>>
    BY <1>4 DEF IpcDial
  <2>2. CASE st[n].target \in sees[n]
    <3>0. PICK p : p = st[n].target
      OBVIOUS
    <3>1. p \in Node /\ p # n
      BY <1>0, <2>2, <3>0 DEF QueueInv
    <3>2. StartDial(n, p, "ipcdial") /\ UNCHANGED prompt
      BY <1>4, <2>2, <3>0 DEF IpcDial
    <3>. QED
      BY <2>1, <3>0, <3>1, <3>2, DialStep
  <2>3. CASE st[n].target \notin sees[n]
    <3>1. AfterFailure(n)
      BY <1>4, <2>3 DEF IpcDial
    <3>. QED
      BY <1>0, <2>1, <3>1, SettledFailure, SettledOnly
  <2>. QED
    BY <2>2, <2>3
<1>. QED
  BY <1>1, <1>2, <1>3, <1>4

LEMMA WaitingStep ==
    ASSUME ConnectInv, NEW n \in Node,
           AcceptFail(n) \/ PairingTimeout(n) \/ CheckTrust(n) \/ DelayOver(n) \/ ConnectionLost(n)
    PROVE  ConnectInv'
<1>0. LoopInv /\ ConnInv /\ PromptInv /\ QueueInv
  BY DEF ConnectInv
<1>1. CASE AcceptFail(n)
  <2>1. st[n].phase \in {"seek", "ipcdial", "redial"}
    BY <1>1, Handles DEF AcceptFail
  <2>2. AfterFailure(n) /\ UNCHANGED <<trust, sees, connectQ, discQ, resetting>>
    BY <1>1 DEF AcceptFail
  <2>. QED
    BY <1>0, <2>1, <2>2, SettledFailure, SettledOnly
<1>2. CASE PairingTimeout(n)
  <2>1. st[n].acc # NoSlot
    BY <1>2, Handles DEF PairingTimeout
  <2>. QED
    BY <1>2, <2>1, RejectStep DEF PairingTimeout
<1>3. CASE CheckTrust(n)
  <2>1. st[n].phase = "check" /\ UNCHANGED <<trust, sees, connectQ, discQ, resetting>>
    BY <1>3 DEF CheckTrust
  <2>2. CASE st[n].target \in trust[n]
    <3>1. st' = [st EXCEPT ![n].phase = "resolve"] /\ UNCHANGED <<conn, prompt>>
      BY <1>3, <2>2 DEF CheckTrust, IsPeerTrusted
    <3>. QED
      BY <2>1, <2>2, <3>1, PhaseStep
  <2>3. CASE st[n].target \notin trust[n]
    <3>1. LoopTop(n, None)
      BY <1>3, <2>3 DEF CheckTrust, IsPeerTrusted
    <3>. QED
      BY <1>0, <2>1, <3>1, SettledSeek, SettledOnly
  <2>. QED
    BY <2>2, <2>3
<1>4. CASE DelayOver(n)
  BY <1>4, PhaseStep DEF DelayOver
<1>5. CASE ConnectionLost(n)
  <2>1. UNCHANGED <<trust, sees, connectQ, discQ, resetting>>
    BY <1>5 DEF ConnectionLost
  <2>2. CASE st[n].intent # None /\ LoopTop(n, st[n].intent)
    <3>0. PICK p : p = st[n].intent
      OBVIOUS
    <3>1. p \in Node /\ LoopTop(n, p)
      BY <2>2, <3>0, Handles DEF Someone
    <3>. QED
      BY <1>0, <2>1, <3>1, SettledTop, SettledOnly
  <2>3. CASE LoopTop(n, None)
    BY <1>0, <2>1, <2>3, SettledSeek, SettledOnly
  <2>4. CASE Enter(n, "check", None, st[n].target, TRUE)
    <3>0. PICK p : p = st[n].target
      OBVIOUS
    <3>1. p \in Someone /\ None \in Someone /\ Enter(n, "check", None, p, TRUE)
      BY <2>4, <3>0, Handles DEF Someone
    <3>2. Settled(n)
      BY <1>0, <3>1, SettledEnter, Flags
    <3>. QED
      BY <2>1, <3>2, SettledOnly
  <2>. QED
    BY <1>5, <2>2, <2>3, <2>4 DEF ConnectionLost
<1>. QED
  BY <1>1, <1>2, <1>3, <1>4, <1>5

LEMMA RequestStep ==
    ASSUME ConnectInv, NEW n \in Node, TakeConnect(n) \/ SwitchSource(n) \/ TakeDisconnect(n)
    PROVE  ConnectInv'
<1>0. LoopInv /\ ConnInv /\ PromptInv /\ QueueInv
  BY DEF ConnectInv
<1>1. ASSUME connectQ[n] # <<>>, connectQ' = [connectQ EXCEPT ![n] = Tail(@)],
             UNCHANGED <<trust, sees, discQ, resetting>>
      PROVE  /\ QueueInv' /\ Head(connectQ[n]) \in Node
             /\ \A m \in Node : trust'[m] = trust[m] /\ discQ'[m] = discQ[m] /\ resetting'[m] = resetting[m]
  <2>1. connectQ[n] \in Seq(Node)
    BY <1>0 DEF QueueInv
  <2>2. Head(connectQ[n]) \in Node /\ Tail(connectQ[n]) \in Seq(Node)
    BY <1>1, <2>1
  <2>. QED
    BY <1>0, <1>1, <2>2 DEF QueueInv
<1>2. CASE TakeConnect(n)
  <2>0. PICK p : p = Head(connectQ[n])
    OBVIOUS
  <2>1. /\ QueueInv' /\ p \in Node
        /\ \A m \in Node : trust'[m] = trust[m] /\ discQ'[m] = discQ[m] /\ resetting'[m] = resetting[m]
    BY <1>1, <1>2, <2>0 DEF TakeConnect
  <2>2. CASE p \in trust[n]
    <3>. DEFINE x == Bare("ipcdial", None, p, FALSE)
    <3>1. /\ Enter(n, "ipcdial", None, p, FALSE) /\ "ipcdial" \in Phases /\ "ipcdial" # "session"
          /\ None \in Someone /\ p \in Someone
      BY <1>2, <2>0, <2>1, <2>2 DEF TakeConnect, DialConnectRequest, IsPeerTrusted, Phases, Someone
    <3>2. LoopInv' /\ ConnInv' /\ PromptInv' /\ Becomes(n, x)
      BY <1>0, <3>1, EnterStep, Flags
    <3>3. IsBare(x, "ipcdial", None, p, FALSE)
      BY <3>1, BareLoop, Flags
    <3>. HIDE DEF x
    <3>4. Safe(x, trust'[n])
      BY <2>1, <2>2, <3>3 DEF IsBare, Safe
    <3>5. TrustInv'
      BY <2>1, <3>2, <3>4, TrustStep DEF ConnectInv
    <3>. QED
      BY <2>1, <3>2, <3>5 DEF ConnectInv
  <2>3. CASE p \notin trust[n]
    <3>1. SeekAgain(n)
      BY <1>2, <2>0, <2>3 DEF TakeConnect, DialConnectRequest, IsPeerTrusted
    <3>. QED
      BY <1>0, <2>1, <3>1, SettledSeek, SettledStep
  <2>. QED
    BY <2>2, <2>3
<1>3. CASE SwitchSource(n)
  <2>0. PICK p : p = Head(connectQ[n])
    OBVIOUS
  <2>1. /\ QueueInv' /\ p \in Node
        /\ \A m \in Node : trust'[m] = trust[m] /\ discQ'[m] = discQ[m] /\ resetting'[m] = resetting[m]
    BY <1>1, <1>3, <2>0 DEF SwitchSource
  <2>2. CASE UNCHANGED <<st, conn, ui, prompt>>
    BY <2>1, <2>2, StillStep
  <2>3. CASE LoopTop(n, p)
    BY <1>0, <2>1, <2>3, SettledTop, SettledStep
  <2>. QED
    BY <1>3, <2>0, <2>2, <2>3 DEF SwitchSource, BecomeController
<1>4. CASE TakeDisconnect(n)
  <2>1. LoopTop(n, None) /\ UNCHANGED <<trust, sees, connectQ, resetting>>
    BY <1>4 DEF TakeDisconnect
  <2>2. discQ' \in [Node -> Nat] /\ \A m \in Node : m # n => discQ'[m] = discQ[m]
    BY <1>0, <1>4 DEF TakeDisconnect, QueueInv
  <2>3. QueueInv' /\ \A m \in Node : m # n => trust'[m] = trust[m] /\ discQ'[m] = discQ[m] /\ resetting'[m] = resetting[m]
    BY <1>0, <2>1, <2>2 DEF QueueInv
  <2>. QED
    BY <1>0, <2>1, <2>3, SettledSeek, SettledStep
<1>. QED
  BY <1>2, <1>3, <1>4

\* Safety grows with the trust file.
LEMMA SafeGrows ==
    ASSUME NEW x, NEW t, NEW u, Safe(x, t), t \subseteq u
    PROVE  Safe(x, u)
BY DEF Safe

LEMMA SignalStep ==
    ASSUME ConnectInv, NEW n \in Node, UserDisconnect(n) \/ ResetSignals(n)
    PROVE  ConnectInv'
<1>0. QueueInv
  BY DEF ConnectInv
<1>1. ASSUME discQ' = [discQ EXCEPT ![n] = @ + 1], UNCHANGED <<trust, sees, connectQ>>,
             \/ UNCHANGED resetting
             \/ resetting' = [resetting EXCEPT ![n] = "no"]
      PROVE  /\ QueueInv' /\ discQ'[n] > 0
             /\ \A m \in Node : m # n => trust'[m] = trust[m] /\ discQ'[m] = discQ[m] /\ resetting'[m] = resetting[m]
  <2>1. discQ' \in [Node -> Nat] /\ discQ'[n] > 0 /\ \A m \in Node : m # n => discQ'[m] = discQ[m]
    BY <1>0, <1>1 DEF QueueInv
  <2>2. resetting' \in [Node -> Stage] /\ \A m \in Node : m # n => resetting'[m] = resetting[m]
    BY <1>0, <1>1 DEF QueueInv, Stage
  <2>. QED
    BY <1>0, <1>1, <2>1, <2>2 DEF QueueInv
<1>2. CASE UserDisconnect(n)
  BY <1>1, <1>2, StillStep DEF UserDisconnect
<1>3. CASE ResetSignals(n)
  BY <1>1, <1>3, StillStep DEF ResetSignals
<1>. QED
  BY <1>2, <1>3

LEMMA ResetStep ==
    ASSUME ConnectInv, NEW n \in Node, NEW ok \in BOOLEAN, UserReset(n, ok)
    PROVE  ConnectInv'
<1>. DEFINE stage == IF ok THEN "signal" ELSE "failed"
<1>0. QueueInv
  BY DEF ConnectInv
<1>1. /\ trust' = [trust EXCEPT ![n] = {}] /\ resetting' = [resetting EXCEPT ![n] = stage]
      /\ UNCHANGED <<st, conn, prompt, sees, connectQ, discQ>>
  BY DEF UserReset, ResetData
<1>2. stage \in Stage /\ stage # "no"
  BY DEF Stage
<1>. HIDE DEF stage
<1>3. trust' \in [Node -> SUBSET Node] /\ \A m \in Node : m # n => trust'[m] = trust[m]
  BY <1>0, <1>1 DEF QueueInv
<1>4. /\ resetting' \in [Node -> Stage] /\ resetting'[n] # "no"
      /\ \A m \in Node : m # n => resetting'[m] = resetting[m]
  BY <1>0, <1>1, <1>2 DEF QueueInv
<1>5. QueueInv'
  BY <1>0, <1>1, <1>3, <1>4 DEF QueueInv
<1>. QED
  BY <1>1, <1>3, <1>4, <1>5, StillStep

LEMMA UserStep ==
    ASSUME ConnectInv, NEW n \in Node, NEW p \in Node, n # p,
           UserConnect(n, p) \/ UserTrust(n, p) \/ Discover(n, p)
    PROVE  ConnectInv'
<1>0. QueueInv
  BY DEF ConnectInv
<1>1. CASE UserConnect(n, p)
  <2>1. connectQ' \in [Node -> Seq(Node)]
    <3>1. connectQ[n] \in Seq(Node)
      BY <1>0 DEF QueueInv
    <3>2. Append(connectQ[n], p) \in Seq(Node)
      BY <3>1
    <3>. QED
      BY <1>0, <1>1, <3>2 DEF QueueInv, UserConnect
  <2>2. UNCHANGED <<st, conn, trust, sees, discQ, resetting, prompt>>
    BY <1>1 DEF UserConnect
  <2>3. QueueInv'
    BY <1>0, <2>1, <2>2 DEF QueueInv
  <2>. QED
    BY <2>2, <2>3, StillStep
<1>2. CASE UserTrust(n, p)
  <2>1. trust' = [trust EXCEPT ![n] = @ \cup {p}] /\ UNCHANGED <<st, conn, sees, connectQ, discQ, resetting, prompt>>
    BY <1>2 DEF UserTrust, TrustPeer
  <2>2. /\ trust' \in [Node -> SUBSET Node] /\ trust[n] \subseteq trust'[n]
        /\ \A m \in Node : m # n => trust'[m] = trust[m]
    BY <1>0, <2>1 DEF QueueInv
  <2>3. QueueInv'
    BY <1>0, <2>1, <2>2 DEF QueueInv
  <2>4. Safe(st[n], trust[n]) => Safe(st[n], trust'[n])
    BY <2>2, SafeGrows
  <2>. QED
    BY <2>1, <2>2, <2>3, <2>4, StillStep
<1>3. CASE Discover(n, p)
  <2>1. UNCHANGED <<st, conn, trust, connectQ, discQ, resetting, prompt>>
    BY <1>3 DEF Discover
  <2>2. sees' \in [Node -> SUBSET Node] /\ \A m \in Node : m \notin sees'[m]
    BY <1>0, <1>3 DEF Discover, QueueInv
  <2>3. QueueInv'
    BY <1>0, <2>1, <2>2 DEF QueueInv
  <2>. QED
    BY <2>1, <2>3, StillStep
<1>. QED
  BY <1>1, <1>2, <1>3

LEMMA ShutdownStep ==
    ASSUME ConnectInv, NEW n \in Node, Shutdown(n)
    PROVE  ConnectInv'
<1>0. LoopInv /\ ConnInv /\ PromptInv /\ QueueInv
  BY DEF ConnectInv
<1>1. /\ Enter(n, "stopped", None, None, FALSE) /\ None \in Someone
      /\ UNCHANGED <<trust, sees>>
  BY DEF Shutdown, Someone
<1>2. Settled(n)
  BY <1>0, <1>1, SettledEnter, Flags
<1>3. /\ connectQ' \in [Node -> Seq(Node)] /\ discQ' \in [Node -> Nat]
      /\ resetting' \in [Node -> Stage]
      /\ \A m \in Node : m # n => discQ'[m] = discQ[m] /\ resetting'[m] = resetting[m]
  BY <1>0 DEF Shutdown, QueueInv, Stage
<1>4. QueueInv'
  BY <1>0, <1>1, <1>3 DEF QueueInv
<1>. QED
  BY <1>1, <1>2, <1>3, <1>4, SettledStep

LEMMA RestartStep ==
    ASSUME ConnectInv, NEW n \in Node, Restart(n)
    PROVE  ConnectInv'
<1>0. LoopInv /\ ConnInv /\ PromptInv /\ QueueInv
  BY DEF ConnectInv
<1>. DEFINE x == NewLoop
            y == st[n]
<1>1. /\ y.phase = "stopped" /\ st' = [st EXCEPT ![n] = x]
      /\ UNCHANGED <<conn, trust, sees, connectQ, discQ, resetting, prompt>>
  BY DEF Restart
<1>2. y \in Loop /\ Fits(n, y)
  BY LoopIs
<1>3. /\ x \in Loop /\ x.phase = "seek" /\ x.intent = None
      /\ x.dial = NoSlot /\ x.acc = NoSlot /\ x.sess = NoSlot /\ x.pairing = FALSE
  BY NewLoopIs
<1>. HIDE DEF x, y
<1>4. Fits(n, x)
  BY <1>3 DEF Fits
<1>5. LoopInv' /\ Becomes(n, x)
  BY <1>0, <1>1, <1>3, <1>4, LoopStep
<1>6. y.dial = NoSlot /\ y.acc = NoSlot /\ y.sess = NoSlot /\ ~y.pairing
  BY <1>1, <1>2 DEF Fits
<1>7. ConnInv'
  <2>1. conn' \in [Slot -> Ends] /\ Fewer(conn')
    BY <1>0, <1>1 DEF ConnInv, Fewer
  <2>2. ASSUME NEW s \in Slot
        PROVE  /\ Dialer(s) = n /\ conn'[s].d # "gone" => s \in {x.dial, x.sess}
               /\ Acceptor(s) = n /\ conn'[s].a \in {"shake", "up"} => s \in {x.acc, x.sess}
    BY <1>0, <1>1, <1>3, <1>6 DEF ConnInv, EveryConnectionIsHeld, y
  <2>. QED
    BY <1>0, <1>5, <2>1, <2>2, FewerHeld
<1>8. PromptInv'
  <2>1. DropPrompt(n)
    BY <1>1, <1>6 DEF DropPrompt, y
  <2>. QED
    BY <1>0, <1>3, <1>5, <2>1, PromptStep
<1>9. Settled(n)
  <2>1. Idle(x)
    BY <1>3 DEF Idle
  <2>. QED
    BY <1>5, <1>7, <1>8, <2>1 DEF Settled
<1>. QED
  BY <1>1, <1>9, SettledOnly

LEMMA AckStep ==
    ASSUME ConnectInv, NEW n \in Node, DialAck(n)
    PROVE  ConnectInv'
<1>0. PICK s : s = st[n].dial
  OBVIOUS
<1>. DEFINE c == [conn[s] EXCEPT !.acked = TRUE]
<1>1. s \in Slot
  BY <1>0, Handles DEF DialAck
<1>2. c \in Ends /\ c.d = conn[s].d /\ c.a = conn[s].a /\ conn' = [conn EXCEPT ![s] = c]
  BY <1>0, <1>1, Flags DEF DialAck, ConnectInv, ConnInv, Ends
<1>. HIDE DEF c
<1>. QED
  BY <1>1, <1>2, MarkStep DEF DialAck

LEMMA BreakStep ==
    ASSUME ConnectInv, NEW s \in Slot, Break(s)
    PROVE  ConnectInv'
<1>. DEFINE c == [conn[s] EXCEPT !.broken = TRUE]
<1>1. c \in Ends /\ c.d = conn[s].d /\ c.a = conn[s].a /\ conn' = [conn EXCEPT ![s] = c]
  BY Flags DEF Break, ConnectInv, ConnInv, Ends
<1>. HIDE DEF c
<1>. QED
  BY <1>1, MarkStep DEF Break

-----------------------------------------------------------------------------
(* The specification                                                       *)

LEMMA ConnectInit == Init => ConnectInv
<1>. SUFFICES ASSUME Init PROVE ConnectInv
  OBVIOUS
<1>. DEFINE x == NewLoop
<1>1. st = [n \in Node |-> x] /\ conn = [s \in Slot |-> Free] /\ prompt = [n \in Node |-> None]
  BY DEF Init
<1>2. /\ x \in Loop /\ x.phase = "seek" /\ x.intent = None
      /\ x.dial = NoSlot /\ x.acc = NoSlot /\ x.sess = NoSlot /\ x.pairing = FALSE
  BY NewLoopIs
<1>. HIDE DEF x
<1>3. \A n \in Node : Fits(n, x)
  BY <1>2 DEF Fits
<1>4. LoopInv
  BY <1>1, <1>2, <1>3 DEF LoopInv
<1>5. ConnInv
  BY <1>1, FreeIs DEF ConnInv, EveryConnectionIsHeld
<1>6. PromptInv
  BY <1>1, <1>2 DEF PromptInv, PromptIsLive, Someone
<1>7. QueueInv
  <2>1. trust \in [Node -> SUBSET Node] /\ sees \in [Node -> SUBSET Node] /\ \A n \in Node : n \notin sees[n]
    BY DEF Init
  <2>2. connectQ \in [Node -> Seq(Node)] /\ discQ \in [Node -> Nat]
    BY DEF Init
  <2>3. resetting \in [Node -> Stage]
    BY DEF Init, Stage
  <2>. QED
    BY <2>1, <2>2, <2>3 DEF QueueInv
<1>8. \A n \in Node : Safe(st[n], trust[n])
  BY <1>1, <1>2 DEF Safe
<1>9. TrustInv
  BY <1>8 DEF TrustInv
<1>. QED
  BY <1>4, <1>5, <1>6, <1>7, <1>9 DEF ConnectInv

LEMMA ConnectNext == ConnectInv /\ [Next]_vars => ConnectInv'
<1>. SUFFICES ASSUME ConnectInv, [Next]_vars PROVE ConnectInv'
  OBVIOUS
<1>1. ASSUME NEW n \in Node, Daemon(n)
      PROVE  ConnectInv'
  BY <1>1, DialingStep, WaitingStep, RequestStep, DecisionStep, SignalStep, RestartStep DEF Daemon
<1>2. ASSUME NEW n \in Node, DialAck(n) \/ DialDone(n) \/ AcceptStart(n) \/ AcceptDone(n)
      PROVE  ConnectInv'
  BY <1>2, AckStep, DialDoneStep, AcceptStep, AcceptDoneStep
<1>3. CASE Environment
  <2>1. ASSUME NEW n \in Node, NEW p \in Node, n # p, UserConnect(n, p) \/ UserTrust(n, p) \/ Discover(n, p)
        PROVE  ConnectInv'
    BY <2>1, UserStep
  <2>2. ASSUME NEW n \in Node, UserDisconnect(n) \/ Shutdown(n)
        PROVE  ConnectInv'
    BY <2>2, SignalStep, ShutdownStep
  <2>3. ASSUME NEW n \in Node, NEW yes \in BOOLEAN, UserDecide(n, yes) \/ UserReset(n, yes)
        PROVE  ConnectInv'
    <3>1. CASE UserDecide(n, yes)
      <4>1. UNCHANGED <<st, conn, trust, sees, connectQ, discQ, resetting, prompt>>
        BY <3>1 DEF UserDecide
      <4>. QED
        BY <4>1, QueueSame, StillStep
    <3>. QED
      BY <2>3, <3>1, ResetStep
  <2>4. ASSUME NEW s \in Slot, Break(s)
        PROVE  ConnectInv'
    BY <2>4, BreakStep
  <2>. QED
    BY <1>3, <2>1, <2>2, <2>3, <2>4 DEF Environment
<1>4. CASE UNCHANGED vars
  BY <1>4 DEF vars, ConnectInv, LoopInv, ConnInv, EveryConnectionIsHeld, PromptInv, PromptIsLive, QueueInv, TrustInv
<1>. QED
  BY <1>1, <1>2, <1>3, <1>4 DEF Next

LEMMA ConnectAlways == Spec => []ConnectInv
BY ConnectInit, ConnectNext, PTL DEF Spec

\* An explicit Connect makes the clicking machine the controller, and of that
\* peer (serve.rs, serve): no inbound handshake, late dial, switch, loss or
\* restart leaves a machine that has an intent as the receiver of a session.
THEOREM IntentIsKept == Spec => []IntentControls
<1>1. ConnectInv => IntentControls
  <2>. SUFFICES ASSUME ConnectInv, NEW n \in Node, st[n].phase = "session", st[n].intent # None
                PROVE  st[n].control /\ st[n].target = st[n].intent
    BY DEF IntentControls
  <2>1. Fits(n, st[n])
    BY LoopIs
  <2>. QED
    BY <2>1 DEF Fits
<1>. QED
  BY <1>1, ConnectAlways, PTL

\* Whatever arm of a select wins, and however the loop leaves it, no
\* connection stays open that nobody holds, and the pairing prompt stands for
\* the connection that waits for the answer (serve.rs, next_connection and
\* accept_trusted; the PairingGuard).
THEOREM SelectLeaksNothing == Spec => []NothingLeaks
<1>1. ConnectInv => NothingLeaks
  BY DEF ConnectInv, ConnInv, PromptInv, NothingLeaks
<1>. QED
  BY <1>1, ConnectAlways, PTL

\* After a reset that succeeded, a session with a peer that is no longer
\* trusted has its Disconnect on the way, also when the dial or the accept
\* that began it was in flight while the reset removed the pins (serve.rs,
\* serve; the bridge's reset_data). A reset that fails on its second file is
\* outside the theorem: it leaves the session, as the run connect_reset shows.
THEOREM ResetEndsSessions == Spec => []CompleteResetEnds
<1>1. ConnectInv => CompleteResetEnds
  <2>. SUFFICES ASSUME ConnectInv, NEW n \in Node, st[n].phase = "session", st[n].target \notin trust[n]
                PROVE  discQ[n] > 0 \/ resetting[n] # "no"
    BY DEF CompleteResetEnds
  <2>. QED
    BY DEF ConnectInv, TrustInv, Safe
<1>. QED
  BY <1>1, ConnectAlways, PTL
=============================================================================
