------------------------------- MODULE Connect -------------------------------
(***************************************************************************)
(* The daemon's connection supervisor on every machine: discovery dialing, *)
(* inbound acceptance with pairing, the explicit Connect that makes a      *)
(* machine the persistent controller, the redial after a lost session, and *)
(* the handshake that joins a dialer and an acceptor into one session.     *)
(*                                                                         *)
(* A `select!` is one phase whose futures are the handshakes held in       *)
(* `dial` and `acc`: whichever arm completes first drops the other         *)
(* futures, and dropping a handshake closes its connection.                *)
(***************************************************************************)
EXTENDS Integers, Sequences, FiniteSets, FiniteSetsExt

CONSTANTS
    Node,        \* device ids, ordered as integers
    Roles,       \* the role assignments considered, functions on Node
    Headless,    \* the machines that run without an IPC bridge
    MaxEvents    \* user commands, network faults and restarts

VARIABLES
    role,        \* role[n]: auto, source or target
    st,          \* st[n]: where the serve loop of n is and what it holds
    conn,        \* conn[s]: the connection in slot s, or Free
    trust,       \* trust[n]: the trusted-peers file of n
    sees,        \* sees[n]: peers in the discovery registry of n
    connectQ,    \* connectQ[n]: Connect requests not yet taken
    discQ,       \* discQ[n]: Disconnect requests not yet taken
    decisionQ,   \* decisionQ[n]: pairing decisions not yet taken
    resetting,   \* resetting[n]: "signal": pins removed, Disconnect not yet sent;
                 \* "failed": pins removed, but the reset failed and sends none
    ui,          \* ui[n]: the ConnectionDto of the bridge, [state, peer]
    prompt,      \* prompt[n]: the peer of the pairing prompt shown, or None
    events       \* commands and faults so far

vars == <<role, st, conn, trust, sees, connectQ, discQ, decisionQ, resetting,
          ui, prompt, events>>

ASSUME NodesOrdered == IsFiniteSet(Node) /\ Node \subseteq Nat \ {0}
ASSUME BoundIsNat == MaxEvents \in Nat
ASSUME RolesAreRoles == Roles \subseteq [Node -> {"auto", "source", "target"}]

None == 0
NoSlot == <<0, 0, 0>>
Free == [d |-> "gone", a |-> "gone", acked |-> FALSE, broken |-> FALSE]

\* A slot names dialer and acceptor. Two per pair suffice: the dialer holds
\* one at a time, and the acceptor may still hold an older one.
Slot == {s \in Node \X Node \X {1, 2} : s[1] # s[2]}
Dialer(s)   == s[1]
Acceptor(s) == s[2]
PeerOn(n, s) == IF Dialer(s) = n THEN Acceptor(s) ELSE Dialer(s)

Phases == {"seek", "ipcdial", "check", "resolve", "redial", "delay", "session",
           "stopped"}

NewLoop == [phase |-> "seek", intent |-> None, target |-> None,
            acceptInbound |-> FALSE, dial |-> NoSlot, acc |-> NoSlot,
            pairing |-> FALSE, sess |-> NoSlot, control |-> FALSE]
IdleUi == [state |-> "idle", peer |-> None]

TypeOK ==
    /\ role \in Roles
    /\ st \in [Node -> [phase : Phases, intent : Node \cup {None},
                        target : Node \cup {None}, acceptInbound : BOOLEAN,
                        dial : Slot \cup {NoSlot}, acc : Slot \cup {NoSlot},
                        pairing : BOOLEAN, sess : Slot \cup {NoSlot}, control : BOOLEAN]]
    /\ conn \in [Slot -> [d : {"shake", "up", "gone"}, a : {"wait", "shake", "up", "gone"},
                          acked : BOOLEAN, broken : BOOLEAN]]
    /\ trust \in [Node -> SUBSET Node] /\ sees \in [Node -> SUBSET Node]
    /\ connectQ \in [Node -> Seq(Node)] /\ discQ \in [Node -> Nat]
    /\ decisionQ \in [Node -> Seq(Node \X BOOLEAN)]
    /\ resetting \in [Node -> {"no", "signal", "failed"}]
    /\ ui \in [Node -> [state : {"idle", "connecting", "connected"},
                        peer : Node \cup {None}]]
    /\ prompt \in [Node -> Node \cup {None}]

Init ==
    /\ role \in Roles
    /\ st = [n \in Node |-> NewLoop]
    /\ conn = [s \in Slot |-> Free]
    /\ trust \in {[n \in Node |-> Node \ {n}],
                  [n \in Node |-> IF n = Min(Node) THEN Node \ {n} ELSE {}]}
    /\ sees = [n \in Node |-> Node \ {n}]
    /\ connectQ = [n \in Node |-> <<>>]
    /\ discQ = [n \in Node |-> 0]
    /\ decisionQ = [n \in Node |-> <<>>]
    /\ resetting = [n \in Node |-> "no"]
    /\ ui = [n \in Node |-> IdleUi]
    /\ prompt = [n \in Node |-> None]
    /\ events = 0

-----------------------------------------------------------------------------
(* Connections. A closed end is gone at once; the other end learns of it   *)
(* later. A slot nobody holds any more is free again.                      *)

Collect(c) == IF c.d = "gone" /\ c.a \in {"gone", "wait"} THEN Free ELSE c

CloseEnd(c, n, s) ==
    Collect(IF Dialer(s) = n THEN [c EXCEPT !.d = "gone"] ELSE [c EXCEPT !.a = "gone"])

\* Dropping the futures of n, and its session, except the connection `keep`.
CloseOthers(cn, n, keep) ==
    [s \in Slot |-> IF s \in {st[n].dial, st[n].acc, st[n].sess} \ {keep}
                    THEN CloseEnd(cn[s], n, s) ELSE cn[s]]

\* The other end of s is closed, or the path between the two is dead.
Dead(n, s) ==
    \/ conn[s].broken
    \/ IF Dialer(s) = n THEN conn[s].a = "gone" ELSE conn[s].d = "gone"

-----------------------------------------------------------------------------
(* What the serve loop reports to the bridge, and the trust store.         *)

SetConnected(n, p)  == ui' = [ui EXCEPT ![n] = [state |-> "connected", peer |-> p]]
SetConnecting(n, p) == ui' = [ui EXCEPT ![n] = [state |-> "connecting", peer |-> p]]
SetConnectError(n)  == ui' = [ui EXCEPT ![n] = IdleUi]
SetIdle(n)          == ui' = [ui EXCEPT ![n] = IdleUi]

IsPeerTrusted(n, p) == p \in trust[n]
TrustPeer(n, p)     == trust' = [trust EXCEPT ![n] = @ \cup {p}]
ResetData(n)        == trust' = [trust EXCEPT ![n] = {}]

-----------------------------------------------------------------------------
(* Moves of the serve loop.                                                *)

RequestPairing(n, p) == prompt' = [prompt EXCEPT ![n] = p]
ClearPairing(n)      == prompt' = [prompt EXCEPT ![n] = None]

\* PairingGuard: the accept future that showed the prompt clears it on drop.
DropPrompt(n) == IF st[n].pairing THEN ClearPairing(n) ELSE UNCHANGED prompt

\* Enter a phase that holds no connection.
Enter(n, phase, intent, target, acceptInbound) ==
    /\ conn' = CloseOthers(conn, n, NoSlot)
    /\ st' = [st EXCEPT ![n] = [NewLoop EXCEPT !.phase = phase, !.intent = intent,
                                !.target = target, !.acceptInbound = acceptInbound]]
    /\ DropPrompt(n)

\* `continue` in next_connection: the select starts over with fresh futures.
SeekAgain(n) == Enter(n, "seek", None, None, FALSE)

\* The controller listens while it redials.
LoopTopListening(n, intent) ==
    IF intent = None THEN Enter(n, "seek", None, None, FALSE)
    ELSE Enter(n, "check", intent, intent, TRUE)

\* The top of the serve loop when no connection is carried over.
LoopTop(n, intent) ==
    IF intent = None THEN Enter(n, "seek", None, None, FALSE)
    ELSE Enter(n, "check", intent, intent, FALSE)

\* The handshake is complete for n.
OpenEnd(c, n, s) ==
    IF Dialer(s) = n THEN [c EXCEPT !.d = "up", !.acked = TRUE] ELSE [c EXCEPT !.a = "up"]

\* The losers of the select stay open.
BeginSessionLeaky(n, s, canControl, intent) ==
    /\ conn' = [conn EXCEPT ![s] = OpenEnd(@, n, s)]
    /\ st' = [st EXCEPT ![n] = [NewLoop EXCEPT !.phase = "session", !.intent = intent,
                                !.target = PeerOn(n, s), !.sess = s,
                                !.control = canControl]]
    /\ SetConnected(n, PeerOn(n, s))
    /\ DropPrompt(n)

\* set_connected and run_session: the winner of the select becomes the session.
BeginSession(n, s, canControl, intent) ==
    /\ conn' = [CloseOthers(conn, n, s) EXCEPT ![s] = OpenEnd(@, n, s)]
    /\ st' = [st EXCEPT ![n] = [NewLoop EXCEPT !.phase = "session", !.intent = intent,
                                !.target = PeerOn(n, s), !.sess = s,
                                !.control = canControl]]
    /\ SetConnected(n, PeerOn(n, s))
    /\ DropPrompt(n)

-----------------------------------------------------------------------------
(* Dialing (connect_interactive_any) and the handshake.                    *)

\* Start a handshake towards p; it waits until p accepts it.
StartDial(n, p, phase) ==
    \E s \in {<<n, p, k>> : k \in {1, 2}} :
        /\ conn[s] = Free
        /\ \A k \in {1, 2} : k < s[3] => conn[<<n, p, k>>] # Free
        /\ conn' = [conn EXCEPT ![s] = [d |-> "shake", a |-> "wait",
                                        acked |-> FALSE, broken |-> FALSE]]
        /\ st' = [st EXCEPT ![n].dial = s, ![n].phase = phase]

\* dial_discovered: the first trusted peer in the registry, and in auto mode
\* only one with a higher id.
MayAutoDial(n, p) ==
    /\ role[n] # "target"
    /\ p \in sees[n] /\ IsPeerTrusted(n, p)
    /\ role[n] = "source" \/ n < p

DialDiscovered(n) ==
    /\ st[n].phase = "seek" /\ st[n].dial = NoSlot
    /\ LET ok == {p \in Node \ {n} : MayAutoDial(n, p)}
       IN  \E p \in ok : (\A o \in ok : p <= o) /\ StartDial(n, p, "seek")
    /\ UNCHANGED <<role, trust, sees, connectQ, discQ, decisionQ, resetting, ui, prompt, events>>

\* The dialer has verified the acceptor's Hello and sent its own HelloAck.
DialAck(n) ==
    /\ st[n].dial # NoSlot
    /\ conn[st[n].dial].a \in {"shake", "up"} /\ ~conn[st[n].dial].acked
    /\ ~conn[st[n].dial].broken
    /\ conn' = [conn EXCEPT ![st[n].dial].acked = TRUE]
    /\ UNCHANGED <<role, st, trust, sees, connectQ, discQ, decisionQ, resetting, ui, prompt, events>>

\* The acceptor's HelloAck has arrived: the dial is complete, whatever phase
\* started it, and this machine controls the peer.
DialDone(n) ==
    /\ st[n].dial # NoSlot
    /\ conn[st[n].dial].acked /\ ~conn[st[n].dial].broken
    /\ BeginSession(n, st[n].dial, TRUE,
                    IF st[n].phase = "ipcdial" THEN Acceptor(st[n].dial) ELSE st[n].intent)
    /\ UNCHANGED <<role, trust, sees, connectQ, discQ, decisionQ, resetting, events>>

\* A redial that failed stays "connecting" and waits for reconnect_delay.
BackOff(n) ==
    /\ Enter(n, "delay", st[n].intent, st[n].target, st[n].acceptInbound)
    /\ SetConnecting(n, st[n].target)

\* What a phase does when its dial or its accept failed.
AfterFailure(n) ==
    CASE st[n].phase = "seek"    -> SeekAgain(n) /\ UNCHANGED ui
      [] st[n].phase = "ipcdial" -> SeekAgain(n) /\ SetConnectError(n)
      [] st[n].phase = "redial"  -> BackOff(n)

Accepting(n) == st[n].phase = "seek" \/ (st[n].phase = "redial" /\ st[n].acceptInbound)

\* Between two attempts a redialing controller is deaf for one delay only,
\* and the first delays are shorter than DIAL_ATTEMPT_TIMEOUT.
SoonAccepting(n) ==
    /\ st[n].acceptInbound
    /\ st[n].phase \in {"check", "delay"} \/ (st[n].phase = "resolve" /\ st[n].target \in sees[n])

\* The dial was refused, or ran into DIAL_ATTEMPT_TIMEOUT: the peer does not
\* listen, is busy with another handshake, or the path is dead.
DialFail(n) ==
    /\ st[n].dial # NoSlot
    /\ LET c == conn[st[n].dial]
           p == Acceptor(st[n].dial)
       IN  \/ c.broken \/ c.a = "gone"
           \/ c.a = "wait" /\ ~SoonAccepting(p) /\ ~(Accepting(p) /\ st[p].acc = NoSlot)
    /\ AfterFailure(n)
    /\ UNCHANGED <<role, trust, sees, connectQ, discQ, decisionQ, resetting, events>>

-----------------------------------------------------------------------------
(* Accepting (accept_trusted) and pairing.                                 *)

AcceptStart(n) ==
    /\ Accepting(n) /\ st[n].acc = NoSlot
    /\ \E s \in Slot :
        /\ Acceptor(s) = n /\ conn[s].a = "wait" /\ conn[s].d = "shake" /\ ~conn[s].broken
        /\ conn' = [conn EXCEPT ![s].a = "shake"]
        /\ st' = [st EXCEPT ![n].acc = s]
    /\ UNCHANGED <<role, trust, sees, connectQ, discQ, decisionQ, resetting, ui, prompt, events>>

\* accept_from honours only the peer being redialed; next_connection anyone.
Accepted(n) ==
    IF st[n].phase = "redial" /\ Dialer(st[n].acc) # st[n].target
    THEN AfterFailure(n)
    ELSE BeginSession(n, st[n].acc, FALSE, st[n].intent)

\* The peer is rejected: close its connection and accept the next one.
Reject(n) ==
    /\ conn' = [conn EXCEPT ![st[n].acc] = CloseEnd(@, n, st[n].acc)]
    /\ st' = [st EXCEPT ![n].acc = NoSlot, ![n].pairing = FALSE]
    /\ DropPrompt(n)
    /\ UNCHANGED ui

\* The dialer's HelloAck has arrived: a trusted peer is in, an untrusted one
\* is put before the user, or refused where there is no bridge.
AcceptDone(n) ==
    /\ st[n].acc # NoSlot /\ ~st[n].pairing /\ conn[st[n].acc].acked
    /\ CASE IsPeerTrusted(n, Dialer(st[n].acc)) -> Accepted(n)
         [] OTHER -> IF n \in Headless THEN Reject(n)
                     ELSE /\ st' = [st EXCEPT ![n].pairing = TRUE]
                          /\ conn' = [conn EXCEPT ![st[n].acc].a = "up"]
                          /\ RequestPairing(n, Dialer(st[n].acc))
                          /\ UNCHANGED ui
    /\ UNCHANGED <<role, trust, sees, connectQ, discQ, decisionQ, resetting, events>>

\* The dialer left, or did not finish within ACCEPT_HANDSHAKE_TIMEOUT.
AcceptFail(n) ==
    /\ st[n].acc # NoSlot /\ ~st[n].pairing /\ Dead(n, st[n].acc)
    /\ AfterFailure(n)
    /\ UNCHANGED <<role, trust, sees, connectQ, discQ, decisionQ, resetting, events>>

\* pair_via_ui takes the next decision; one about another peer is skipped.
TakeDecision(n) ==
    /\ st[n].pairing /\ decisionQ[n] # <<>>
    /\ decisionQ' = [decisionQ EXCEPT ![n] = Tail(@)]
    /\ LET p == Dialer(st[n].acc)
           d == Head(decisionQ[n])
       IN  CASE d = <<p, TRUE>>  -> TrustPeer(n, p) /\ Accepted(n)
             [] d = <<p, FALSE>> -> Reject(n) /\ UNCHANGED trust
             [] OTHER            -> UNCHANGED <<st, conn, trust, ui, prompt>>
    /\ UNCHANGED <<role, sees, connectQ, discQ, resetting, events>>

PairingTimeout(n) ==
    /\ st[n].pairing /\ decisionQ[n] = <<>>
    /\ Reject(n)
    /\ UNCHANGED <<role, trust, sees, connectQ, discQ, decisionQ, resetting, events>>

-----------------------------------------------------------------------------
(* Redialing (redial_until_reconnected).                                   *)

\* The head of the loop reads the trust file.
CheckTrust(n) ==
    /\ st[n].phase = "check"
    /\ IF IsPeerTrusted(n, st[n].target)
       THEN /\ st' = [st EXCEPT ![n].phase = "resolve"]
            /\ SetConnecting(n, st[n].target)
            /\ UNCHANGED <<conn, prompt>>
       ELSE /\ LoopTop(n, None)
            /\ SetConnectError(n)
    /\ UNCHANGED <<role, trust, sees, connectQ, discQ, decisionQ, resetting, events>>

\* wait_for_peer_addr returns and the dial starts.
Resolve(n) ==
    /\ st[n].phase = "resolve" /\ st[n].target \in sees[n]
    /\ StartDial(n, st[n].target, "redial")
    /\ UNCHANGED <<role, trust, sees, connectQ, discQ, decisionQ, resetting, ui, prompt, events>>

DelayOver(n) ==
    /\ st[n].phase = "delay"
    /\ st' = [st EXCEPT ![n].phase = "check"]
    /\ UNCHANGED <<role, conn, trust, sees, connectQ, discQ, decisionQ, resetting, ui,
                   prompt, events>>

-----------------------------------------------------------------------------
(* Requests from the bridge.                                               *)

\* dial_connect_request checks trust once more before it dials.
DialConnectRequest(n, p) ==
    IF IsPeerTrusted(n, p) THEN Enter(n, "ipcdial", None, p, FALSE) /\ SetConnecting(n, p)
                           ELSE SeekAgain(n) /\ SetConnectError(n)

\* next_connection takes a Connect request: its other arms are dropped.
TakeConnect(n) ==
    /\ st[n].phase = "seek" /\ connectQ[n] # <<>>
    /\ connectQ' = [connectQ EXCEPT ![n] = Tail(@)]
    /\ DialConnectRequest(n, Head(connectQ[n]))
    /\ UNCHANGED <<role, trust, sees, discQ, decisionQ, resetting, events>>

\* registry_addrs_for found the peer, or gave up after five seconds.
IpcDial(n) ==
    /\ st[n].phase = "ipcdial" /\ st[n].dial = NoSlot
    /\ IF st[n].target \in sees[n] THEN StartDial(n, st[n].target, "ipcdial") /\ UNCHANGED <<ui, prompt>>
                                   ELSE AfterFailure(n)
    /\ UNCHANGED <<role, trust, sees, connectQ, discQ, decisionQ, resetting, events>>

\* The user asked to control p: n becomes its persistent controller.
BecomeController(n, p) == LoopTop(n, p) /\ SetConnecting(n, p)

\* A Connect during a session: already the controller of that peer, or switch.
SwitchSource(n) ==
    /\ st[n].phase = "session" /\ connectQ[n] # <<>>
    /\ connectQ' = [connectQ EXCEPT ![n] = Tail(@)]
    /\ LET p == Head(connectQ[n])
       IN  IF st[n].control /\ p = st[n].target
           THEN UNCHANGED <<st, conn, ui, prompt>>
           ELSE BecomeController(n, p)
    /\ UNCHANGED <<role, trust, sees, discQ, decisionQ, resetting, events>>

\* Disconnect ends a session or a redial; next_connection does not listen.
TakeDisconnect(n) ==
    /\ st[n].phase \in {"session", "resolve", "redial", "delay"} /\ discQ[n] > 0
    /\ discQ' = [discQ EXCEPT ![n] = @ - 1]
    /\ LoopTop(n, None)
    /\ IF st[n].phase = "session" \/ st[n].intent # None THEN SetIdle(n) ELSE UNCHANGED ui
    /\ UNCHANGED <<role, trust, sees, connectQ, decisionQ, resetting, events>>

\* Only the dialer's side of a lost session redials without listening.
LostKeepsRefusing(n) ==
    /\ st[n].phase = "session" /\ Dead(n, st[n].sess)
    /\ IF st[n].intent # None THEN LoopTop(n, st[n].intent)
       ELSE IF role[n] = "target" \/ ~st[n].control THEN LoopTop(n, None)
       ELSE Enter(n, "check", None, st[n].target, FALSE)
    /\ SetConnectError(n)
    /\ UNCHANGED <<role, trust, sees, connectQ, discQ, decisionQ, resetting, events>>

\* The runtime reported the connection dead: the persistent controller and a
\* controller by discovery redial, the latter while listening; a target waits.
ConnectionLost(n) ==
    /\ st[n].phase = "session" /\ Dead(n, st[n].sess)
    /\ IF st[n].intent # None THEN LoopTop(n, st[n].intent)
       ELSE IF role[n] = "target" \/ ~st[n].control THEN LoopTop(n, None)
       ELSE Enter(n, "check", None, st[n].target, TRUE)
    /\ SetConnectError(n)
    /\ UNCHANGED <<role, trust, sees, connectQ, discQ, decisionQ, resetting, events>>

-----------------------------------------------------------------------------
(* The command loop of the bridge, the user behind it, and faults.         *)

Event == events < MaxEvents /\ events' = events + 1

Commandable(n) == n \notin Headless /\ st[n].phase # "stopped"

\* connect_request: only a discovered, trusted peer is queued.
ConnectRequest(n, p) == p \in sees[n] /\ IsPeerTrusted(n, p)
UserConnect(n, p) ==
    /\ Event /\ Commandable(n)
    /\ IF ConnectRequest(n, p)
       THEN connectQ' = [connectQ EXCEPT ![n] = Append(@, p)] /\ UNCHANGED ui
       ELSE SetConnectError(n) /\ UNCHANGED connectQ
    /\ UNCHANGED <<role, st, conn, trust, sees, discQ, decisionQ, resetting, prompt>>

UserDisconnect(n) ==
    /\ Event /\ Commandable(n)
    /\ discQ' = [discQ EXCEPT ![n] = @ + 1]
    /\ UNCHANGED <<role, st, conn, trust, sees, connectQ, decisionQ, resetting, ui, prompt>>

UserTrust(n, p) ==
    /\ Event /\ Commandable(n) /\ resetting[n] # "signal"
    /\ p \in sees[n] \ trust[n]
    /\ TrustPeer(n, p)
    /\ UNCHANGED <<role, st, conn, sees, connectQ, discQ, decisionQ, resetting, ui, prompt>>

\* Approve or Deny, while the prompt is on the screen.
UserDecide(n, yes) ==
    /\ Event /\ Commandable(n) /\ prompt[n] # None
    /\ decisionQ' = [decisionQ EXCEPT ![n] = Append(@, <<prompt[n], yes>>)]
    /\ UNCHANGED <<role, st, conn, trust, sees, connectQ, discQ, resetting, ui, prompt>>

\* reset_data removes the pins, then the settings; when the second fails the
\* command loop only logs it. A reset that fails on the pins changes nothing.
UserReset(n, ok) ==
    /\ Event /\ Commandable(n) /\ resetting[n] # "signal"
    /\ ResetData(n)
    /\ resetting' = [resetting EXCEPT ![n] = IF ok THEN "signal" ELSE "failed"]
    /\ UNCHANGED <<role, st, conn, sees, connectQ, discQ, decisionQ, ui, prompt>>
\* The reset forgets to end the session.
ResetSilently(n) ==
    /\ resetting[n] = "signal"
    /\ resetting' = [resetting EXCEPT ![n] = "no"]
    /\ UNCHANGED <<role, st, conn, trust, sees, connectQ, discQ, decisionQ, ui, prompt, events>>
\* After a complete reset the command loop signals Disconnect.
ResetSignals(n) ==
    /\ resetting[n] = "signal"
    /\ resetting' = [resetting EXCEPT ![n] = "no"]
    /\ discQ' = [discQ EXCEPT ![n] = @ + 1]
    /\ UNCHANGED <<role, st, conn, trust, sees, connectQ, decisionQ, ui, prompt, events>>

\* The network between the ends of an established connection fails.
Break(s) ==
    /\ Event /\ conn[s] # Free /\ ~conn[s].broken
    /\ conn' = [conn EXCEPT ![s].broken = TRUE]
    /\ UNCHANGED <<role, st, trust, sees, connectQ, discQ, decisionQ, resetting, ui, prompt>>

\* A peer's advertisement expires or returns.
Discover(n, p) ==
    /\ Event /\ p # n
    /\ sees' = [sees EXCEPT ![n] = IF p \in @ THEN @ \ {p} ELSE @ \cup {p}]
    /\ UNCHANGED <<role, st, conn, trust, connectQ, discQ, decisionQ, resetting, ui, prompt>>

\* ctrl-c, heard by every select but not inside an explicit dial; then the
\* service manager starts the daemon again with what the store kept.
Shutdown(n) ==
    /\ Event /\ st[n].phase \notin {"ipcdial", "stopped"} /\ resetting[n] # "signal"
    /\ Enter(n, "stopped", None, None, FALSE)
    /\ connectQ' = [connectQ EXCEPT ![n] = <<>>]
    /\ discQ' = [discQ EXCEPT ![n] = 0]
    /\ decisionQ' = [decisionQ EXCEPT ![n] = <<>>]
    /\ resetting' = [resetting EXCEPT ![n] = "no"]
    /\ SetIdle(n)
    /\ UNCHANGED <<role, trust, sees>>
Restart(n) ==
    /\ st[n].phase = "stopped"
    /\ st' = [st EXCEPT ![n] = NewLoop]
    /\ UNCHANGED <<role, conn, trust, sees, connectQ, discQ, decisionQ, resetting, ui,
                   prompt, events>>

-----------------------------------------------------------------------------
Daemon(n) ==
    \/ DialDiscovered(n) \/ DialFail(n)
    \/ AcceptFail(n) \/ TakeDecision(n) \/ PairingTimeout(n)
    \/ CheckTrust(n) \/ Resolve(n) \/ DelayOver(n)
    \/ TakeConnect(n) \/ IpcDial(n) \/ SwitchSource(n) \/ TakeDisconnect(n)
    \/ ConnectionLost(n) \/ ResetSignals(n) \/ Restart(n)

Environment ==
    \/ \E n, p \in Node : n # p /\ (UserConnect(n, p) \/ UserTrust(n, p) \/ Discover(n, p))
    \/ \E n \in Node : UserDisconnect(n) \/ Shutdown(n)
    \/ \E n \in Node, yes \in BOOLEAN : UserDecide(n, yes) \/ UserReset(n, yes)
    \/ \E s \in Slot : Break(s)

Next ==
    \/ \E n \in Node : Daemon(n) \/ DialAck(n) \/ DialDone(n) \/ AcceptStart(n) \/ AcceptDone(n)
    \/ Environment

\* Every ready future is polled. A handshake takes milliseconds and a failed
\* dial seconds, so a handshake that keeps getting ready completes at last.
Fairness ==
    \A n \in Node :
        /\ WF_vars(Daemon(n))
        /\ SF_vars(DialAck(n)) /\ SF_vars(DialDone(n))
        /\ SF_vars(AcceptStart(n)) /\ SF_vars(AcceptDone(n))

Spec == Init /\ [][Next]_vars /\ Fairness

-----------------------------------------------------------------------------
(* Properties.                                                             *)

\* An explicit Connect makes the clicking machine the controller: while the
\* intent stands it is never the receiver, and of no other peer.
IntentControls ==
    \A n \in Node : st[n].phase = "session" /\ st[n].intent # None
        => st[n].control /\ st[n].target = st[n].intent

\* A connection that is open at an end is held there, as the session or by a
\* future of the current select: dropping the losers leaks none.
EveryConnectionIsHeld ==
    \A s \in Slot :
        /\ conn[s].d # "gone" => s \in {st[Dialer(s)].dial, st[Dialer(s)].sess}
        /\ conn[s].a \in {"shake", "up"} => s \in {st[Acceptor(s)].acc, st[Acceptor(s)].sess}

\* A complete reset ends what it untrusts, even a session that a dial or an
\* accept in flight begins after the pins are gone: its Disconnect is on the
\* way. Only a reset that failed half way leaves one behind, until a later
\* reset succeeds or the daemon restarts.
CompleteResetEnds ==
    \A n \in Node : st[n].phase = "session" /\ st[n].target \notin trust[n]
        => discQ[n] > 0 \/ resetting[n] # "no"

\* What the bridge says of every reset that untrusts the peer (ipc_bridge.rs,
\* "must not linger"): no session with an untrusted peer goes on without its
\* Disconnect. A reset that failed half way breaks it.
UntrustedSessionEnds ==
    \A n \in Node : st[n].phase = "session" /\ st[n].target \notin trust[n]
        => discQ[n] > 0 \/ resetting[n] = "signal"

\* The pairing prompt on the screen is about the connection that waits for
\* the answer, and goes away with it.
PromptIsLive ==
    \A n \in Node :
        prompt[n] = IF st[n].pairing THEN Dialer(st[n].acc) ELSE None

\* Together: nothing outlives the select that holds it.
NothingLeaks == EveryConnectionIsHeld /\ PromptIsLive

\* In a session that is alive at both ends.
Joined(n) ==
    LET s == st[n].sess
    IN  /\ s # NoSlot /\ conn[s].d = "up" /\ conn[s].a = "up" /\ ~conn[s].broken
        /\ st[Dialer(s)].sess = s /\ st[Acceptor(s)].sess = s

Redialing(n) == st[n].phase \in {"check", "resolve", "redial", "delay"}
Initiates(n, p) ==
    IF Redialing(n) THEN st[n].target = p
    ELSE st[n].intent = p \/ (st[n].intent = None /\ MayAutoDial(n, p))
Accepts(n) == st[n].intent = None /\ (st[n].phase = "resolve" => st[n].target \in sees[n])

\* n dials and p listens. (When both do both, only the jitter of the backoff
\* separates them; when neither listens, or a redial waits for another peer
\* or for an advertisement that does not come, nothing does.)
CanMeet(n, p) ==
    /\ n \in trust[p] /\ p \in trust[n] /\ p \in sees[n]
    /\ Initiates(n, p) /\ Accepts(p)
    /\ Redialing(p) => st[p].target = n
    /\ ~(Initiates(p, n) /\ Accepts(n))

\* After the last command and the last fault no two machines that can meet
\* are both left alone, whoever was the controller before.
Settles == <>[](\A n, p \in Node : n # p /\ CanMeet(n, p) => Joined(n) \/ Joined(p))
=============================================================================
