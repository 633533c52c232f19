------------------------- MODULE ControlPlaneProofs -------------------------
(***************************************************************************)
(* Proofs about ControlPlane, for any set of peers, clients and settings   *)
(* and any bounds on commands, sessions, faults and restarts.              *)
(***************************************************************************)
EXTENDS ControlPlane, SequenceTheorems, TLAPS

-----------------------------------------------------------------------------
(* The shape of the state                                                  *)

\* A record with these fields, whatever they hold.
Has(r, fields) == r = [f \in fields |-> r[f]]

ClientField == {"script", "cmd", "open", "sock", "unread", "task", "seen", "half", "there"}

IsTrust(f)  == Has(f, {"valid", "peers"})
IsWrite(w)  == Has(w, {"at", "peers"}) /\ (w.at = "idle" => w = NoWrite)
IsServe(s)  == Has(s, {"sess", "asking", "write"})
IsClient(k) == Has(k, ClientField)

Decision == [peer : {c.peer : c \in Command}, approved : BOOLEAN]

\* What a step of the network, of a client, or of a publishing task never touches.
trustVars == <<trustFile, step, srv, decisionQ, approved, crossed>>
bridgeVars == <<dto, prompt, settings>>

ClientMoves(c) ==
    \/ \E cmd \in Command : ClientConnect(c, cmd)
    \/ ClientSend(c) \/ ClientRead(c) \/ ClientClose(c) \/ ClientForget(c)
    \/ Accept(c) \/ InitialSnapshot(c) \/ SelectLoop(c) \/ WriteSnapshot(c) \/ Forward(c)

LEMMA ClientFrame ==
    ASSUME NEW c \in Client, ClientMoves(c)
    PROVE  UNCHANGED <<trustVars, bridgeVars, registry, changed, pub, published, excuse>>
<1>1. \E new : ClientStep(c, new)
  <2>1. CASE \E cmd \in Command : ClientConnect(c, cmd)
    BY <2>1 DEF ClientConnect
  <2>2. CASE ClientSend(c)
    BY <2>2 DEF ClientSend
  <2>3. CASE ClientRead(c)
    BY <2>3 DEF ClientRead
  <2>4. CASE ClientClose(c) \/ ClientForget(c) \/ Accept(c) \/ InitialSnapshot(c)
    BY <2>4 DEF ClientClose, ClientForget, Accept, InitialSnapshot
  <2>5. CASE SelectLoop(c)
    BY <2>5 DEF SelectLoop
  <2>6. CASE WriteSnapshot(c) \/ Forward(c)
    BY <2>6 DEF WriteSnapshot, Forward
  <2>. QED
    BY <2>1, <2>2, <2>3, <2>4, <2>5, <2>6 DEF ClientMoves
<1>. QED
  BY <1>1 DEF ClientStep, storeVars, chanVars, discoveryVars, trustVars, bridgeVars

LEMMA NetworkFrame ==
    ASSUME Network
    PROVE  UNCHANGED <<trustVars, bridgeVars, pub, published, cmdq, cl, excuse, lost>>
BY DEF Network, Restless, chanVars, trustVars, bridgeVars

LEMMA PublishFrame ==
    ASSUME NEW t \in Task, Build(t) \/ Publish(t) \/ RepublishLoop
    PROVE  UNCHANGED <<trustVars, bridgeVars, registry, cmdq, lost>>
BY DEF Build, Publish, RepublishLoop, storeVars, chanVars, discoveryVars, trustVars, bridgeVars

\* What a command leaves alone when the command loop takes it.
LEMMA TakeFrame ==
    ASSUME NEW op, Take(op)
    PROVE  /\ step = NoWrite /\ cmdq # <<>> /\ Head(cmdq).op = op /\ cmdq' = Tail(cmdq)
           /\ UNCHANGED <<registry, changed, prompt, published, srv, cl, lost>>
BY DEF Take, discoveryVars

\* Every step, by the part of the state it may change.
LEMMA Steps ==
    ASSUME [Next]_vars
    PROVE  \/ Network \/ (\E t \in Task : Build(t) \/ Publish(t)) \/ RepublishLoop
           \/ \E c \in Client : ClientMoves(c)
           \/ \E cmd \in Command : CommandArrives(cmd)
           \/ CommandConnect \/ CommandDisconnect \/ CommandSendFiles \/ CommandUpdateSettings
           \/ \E op \in {"approve", "deny"} : CommandDecide(op)
           \/ CommandRefresh \/ CommandTrust \/ CommandTrustWrite
           \/ \E outcome \in {"ok", "partly", "failed"} : CommandReset(outcome)
           \/ \E p \in Peer : SetConnected(p) \/ RequestPairing(p) \/ CliTrust(p)
           \/ \E error \in {None, "unreachable"} : SetIdle(error)
           \/ SetOwnerEpoch \/ TakeDisconnect \/ TakeConnect \/ IgnoreConnect \/ TakeFileSend
           \/ TakeDecision \/ PairingTrustWrite \/ PairingTimeout
           \/ Restart \/ UNCHANGED vars
BY Zenon DEF Next, ClientMoves

-----------------------------------------------------------------------------
(* Clients: a command that was seen whole is read                          *)

\* What a connection still has to do: it has its one frame before it, has
\* sent its length, or has sent it all.
Unsent == {<<"send">>, <<"send", "read">>, <<"read", "send", "read">>}
Begun  == {<<"finish">>, <<"finish", "read">>}
Sent   == {<<>>, <<"read">>}

Piece == {"length", "payload"}
Whole == <<"length", "payload">>

\* The socket holds what was sent and not read. Before its first poll the
\* task has read nothing; a frame it saw whole stays whole until it is read,
\* and the task does not write while one is there.
OkFrame(script, sock, task, half, there) ==
    /\ script \in Unsent \cup Begun \cup Sent
    /\ script \in Unsent => sock = <<>> /\ ~half
    /\ script \in Begun => sock \in {<<>>, <<"length">>}
    /\ sock \in {<<>>, <<"length">>, <<"payload">>, Whole}
    /\ task \in {"none", "backlog", "initial"} =>
          ~half /\ (script \in Begun => sock = <<"length">>) /\ (script \in Sent => sock \in {<<>>, Whole})
    /\ there => task = "select" /\ sock = Whole /\ script \in Sent /\ ~half

OkClient(k) ==
    /\ IsClient(k) /\ k.cmd \in Command
    /\ OkFrame(k.script, k.sock, k.task, k.half, k.there)

ClientInv ==
    /\ cmdq \in Seq(Command) /\ "seen" \notin lost
    /\ Has(cl, Client) /\ \A c \in Client : OkClient(cl[c])

\* The few sequences above.
LEMMA Scripts ==
    /\ Head(<<"send">>) = "send" /\ Head(<<"send", "read">>) = "send"
    /\ Head(<<"finish">>) = "finish" /\ Head(<<"finish", "read">>) = "finish"
    /\ Head(<<"read">>) = "read" /\ Head(<<"read", "send", "read">>) = "read"
    /\ Tail(<<"finish">>) = <<>> /\ Tail(<<"finish", "read">>) = <<"read">>
    /\ Tail(<<"read">>) = <<>> /\ Tail(<<"read", "send", "read">>) = <<"send", "read">>
    /\ [<<"send">> EXCEPT ![1] = "finish"] = <<"finish">>
    /\ [<<"send", "read">> EXCEPT ![1] = "finish"] = <<"finish", "read">>
OBVIOUS

LEMMA Sockets ==
    /\ Append(<<>>, "length") = <<"length">> /\ Append(<<"length">>, "payload") = Whole
    /\ Append(<<>>, "payload") = <<"payload">>
    /\ Last(Whole) = "payload" /\ Last(<<"length">>) = "length" /\ Last(<<"payload">>) = "payload"
    /\ Head(Whole) = "length" /\ Head(<<"payload">>) = "payload"
    /\ Whole # <<>> /\ <<"length">> # <<>> /\ <<"payload">> # <<>>
<1>1. Append(<<>>, "length") = <<"length">> /\ Append(<<>>, "payload") = <<"payload">>
  OBVIOUS
<1>2. Append(<<"length">>, "payload") = Whole
  <2>. DEFINE l == <<"length">>
              a == Append(l, "payload")
  <2>1. Len(l) = 1 /\ l[1] = "length"
    OBVIOUS
  <2>2. l \in Seq(Piece) /\ "payload" \in Piece
    BY DEF Piece
  <2>. HIDE DEF l
  <2>3. a \in Seq(Piece)
    BY <2>2
  <2>4. Len(a) = Len(l) + 1 /\ a[Len(l) + 1] = "payload" /\ \A i \in 1..Len(l) : a[i] = l[i]
    BY <2>2, AppendProperties
  <2>5. Len(a) = 2
    BY <2>1, <2>4
  <2>6. a[1] = "length" /\ a[2] = "payload"
    BY <2>1, <2>4
  <2>. HIDE DEF a
  <2>7. a = <<"length", "payload">>
    BY <2>3, <2>5, <2>6
  <2>. QED
    BY <2>7 DEF a, l, Whole
<1>3. Head(Whole) = "length" /\ Head(<<"payload">>) = "payload"
  BY DEF Whole
<1>4. Len(Whole) = 2 /\ Len(<<"length">>) = 1 /\ Len(<<"payload">>) = 1
  BY DEF Whole
<1>5. Whole[2] = "payload" /\ <<"length">>[1] = "length" /\ <<"payload">>[1] = "payload"
  BY DEF Whole
<1>6. Last(Whole) = "payload"
  BY <1>4, <1>5 DEF Last
<1>7. Last(<<"length">>) = "length" /\ Last(<<"payload">>) = "payload"
  BY <1>4, <1>5 DEF Last
<1>8. Whole # <<>> /\ <<"length">> # <<>> /\ <<"payload">> # <<>>
  BY DEF Whole
<1>. QED
  BY <1>1, <1>2, <1>3, <1>6, <1>7, <1>8

LEMMA Stages ==
    /\ Unsent \cap Begun = {} /\ Unsent \cap Sent = {} /\ Begun \cap Sent = {}
    /\ Whole # <<"length">> /\ Whole # <<"payload">> /\ <<"length">> # <<"payload">>
BY DEF Unsent, Begun, Sent, Whole

LEMMA NoClientIs == OkClient(NoClient)
<1>1. IsClient(NoClient) /\ NoClient.cmd \in Command
  BY DEF IsClient, Has, ClientField, NoClient, GetSnapshot, Command
<1>2. <<>> \in Sent
  BY DEF Sent
<1>3. OkFrame(<<>>, <<>>, "none", FALSE, FALSE)
  BY <1>2, Stages, Sockets DEF OkFrame
<1>. QED
  BY <1>1, <1>3 DEF OkClient, NoClient

LEMMA EndedIs ==
    ASSUME NEW k, OkClient(k)
    PROVE  OkClient(Ended(k))
<1>. DEFINE new == Ended(k)
<1>1. /\ IsClient(new) /\ new.cmd = k.cmd /\ new.script = k.script /\ new.task = "ended"
      /\ new.sock = <<>> /\ new.half = FALSE /\ new.there = FALSE
  BY DEF OkClient, IsClient, Has, ClientField, Ended
<1>. HIDE DEF new
<1>2. OkFrame(new.script, new.sock, new.task, new.half, new.there)
  BY <1>1, Sockets DEF OkClient, OkFrame
<1>. QED
  BY <1>1, <1>2 DEF OkClient, new

\* Writing a snapshot moves the task and notes what it has seen.
LEMMA WrittenIs ==
    ASSUME NEW k, OkClient(k)
    PROVE  OkClient(Written(k, "select"))
<1>. DEFINE new == Written(k, "select")
<1>1. /\ IsClient(new) /\ new.cmd = k.cmd /\ new.script = k.script /\ new.task = "select"
      /\ new.sock = k.sock /\ new.half = k.half /\ new.there = k.there
  BY DEF OkClient, IsClient, Has, ClientField, Written
<1>. HIDE DEF new
<1>2. OkFrame(new.script, new.sock, new.task, new.half, new.there)
  BY <1>1 DEF OkClient, OkFrame
<1>. QED
  BY <1>1, <1>2 DEF OkClient, new

\* The biased read takes a frame that was seen whole; the push is chosen only
\* when no whole frame is there.
LEMMA PollIs ==
    ASSUME NEW k, OkClient(k), k.task = "select", NEW new \in Poll(k)
    PROVE  OkClient(new) /\ "seen" \notin Losses(k, new)
<1>. DEFINE a == Taken(k)
            b == [k EXCEPT !.half = TRUE, !.sock = <<>>]
            p == [k EXCEPT !.task = "push", !.half = FALSE, !.there = WholeFrame(k)]
<1>0. OkFrame(k.script, k.sock, k.task, k.half, k.there)
  BY DEF OkClient
<1>1. /\ IsClient(a) /\ a.cmd = k.cmd /\ a.script = k.script /\ a.task \in {"reply", "forward"}
      /\ a.sock = <<>> /\ a.half = FALSE /\ a.there = FALSE
  BY DEF OkClient, IsClient, Has, ClientField, Taken
<1>2. /\ IsClient(b) /\ b.cmd = k.cmd /\ b.script = k.script /\ b.task = k.task
      /\ b.sock = <<>> /\ b.half = TRUE /\ b.there = k.there
  BY DEF OkClient, IsClient, Has, ClientField
<1>3. /\ IsClient(p) /\ p.cmd = k.cmd /\ p.script = k.script /\ p.task = "push"
      /\ p.sock = k.sock /\ p.half = FALSE /\ p.there = WholeFrame(k)
  BY DEF OkClient, IsClient, Has, ClientField
<1>4. k.there => WholeFrame(k) /\ Head(k.sock) = "length"
  BY <1>0, Sockets DEF OkFrame, WholeFrame
<1>5. /\ k.sock # <<>> /\ ~WholeFrame(k) => k.sock = <<"length">> /\ ~k.there
      /\ k.sock = <<>> => ~WholeFrame(k)
  BY <1>0, <1>4, Sockets DEF OkFrame, WholeFrame
<1>. HIDE DEF a, b, p
<1>6. \/ WholeFrame(k) /\ new = a
      \/ WholeFrame(k) /\ ~(k.half \/ Head(k.sock) = "length") /\ new = Ended(k)
      \/ ~WholeFrame(k) /\ k.sock # <<>> /\ new = b
      \/ k.sock = <<>> /\ (new = Ended(k) \/ new = p)
  <2>1. CASE WholeFrame(k) /\ (k.half \/ Head(k.sock) = "length")
    <3>1. ReadBranch(k) = {a}
      BY <1>5, <2>1 DEF ReadBranch, a
    <3>. QED
      BY <2>1, <3>1 DEF Poll
  <2>2. CASE WholeFrame(k) /\ ~(k.half \/ Head(k.sock) = "length")
    <3>1. ReadBranch(k) = {Ended(k)}
      BY <1>5, <2>2 DEF ReadBranch
    <3>. QED
      BY <2>2, <3>1 DEF Poll
  <2>3. CASE ~WholeFrame(k) /\ k.sock # <<>>
    <3>1. ReadBranch(k) = {b}
      BY <2>3 DEF ReadBranch, b
    <3>. QED
      BY <2>3, <3>1 DEF Poll
  <2>4. CASE k.sock = <<>>
    <3>1. ReadBranch(k) \in {{}, {Ended(k)}}
      BY <1>5, <2>4 DEF ReadBranch
    <3>2. PushBranch(k) \in {{}, {p}}
      BY DEF PushBranch, p
    <3>. QED
      BY <2>4, <3>1, <3>2 DEF Poll
  <2>. QED
    BY <2>1, <2>2, <2>3, <2>4
<1>7. CASE new = a
  <2>1. OkFrame(a.script, a.sock, a.task, a.half, a.there)
    BY <1>0, <1>1, Sockets DEF OkFrame
  <2>. QED
    BY <1>1, <1>7, <2>1 DEF OkClient, Losses
<1>8. CASE ~WholeFrame(k) /\ k.sock # <<>> /\ new = b
  <2>1. k.script \notin Unsent /\ ~k.there
    BY <1>0, <1>5, <1>8, Sockets, Stages DEF OkFrame
  <2>2. OkFrame(b.script, b.sock, b.task, b.half, b.there)
    BY <1>0, <1>2, <2>1, Sockets, Stages DEF OkFrame
  <2>. QED
    BY <1>2, <1>8, <2>2 DEF OkClient, Losses
<1>9. CASE WholeFrame(k) /\ ~(k.half \/ Head(k.sock) = "length") /\ new = Ended(k)
  BY <1>4, <1>9, EndedIs DEF Losses
<1>10. CASE k.sock = <<>> /\ new = Ended(k)
  BY <1>5, <1>10, EndedIs DEF Losses
<1>11. CASE k.sock = <<>> /\ new = p
  <2>1. OkFrame(p.script, p.sock, p.task, p.half, p.there)
    BY <1>0, <1>3, <1>5, <1>11 DEF OkFrame
  <2>. QED
    BY <1>3, <1>11, <2>1 DEF OkClient, Losses
<1>. QED
  BY <1>6, <1>7, <1>8, <1>9, <1>10, <1>11

\* The client writes the next piece of its frame.
LEMMA SendIs ==
    ASSUME NEW k, OkClient(k), k.script # <<>>, NEW new,
           \/ Head(k.script) = "send" /\ new = [k EXCEPT !.sock = Append(@, "length"), !.script[1] = "finish"]
           \/ Head(k.script) = "finish" /\ new = [k EXCEPT !.sock = Append(@, "payload"), !.script = Tail(@)]
    PROVE  OkClient(new)
<1>0. OkFrame(k.script, k.sock, k.task, k.half, k.there)
  BY DEF OkClient
<1>1. CASE Head(k.script) = "send"
  <2>. DEFINE f == [k.script EXCEPT ![1] = "finish"]
  <2>1. new = [k EXCEPT !.sock = Append(@, "length"), !.script[1] = "finish"]
    BY <1>1
  <2>2. /\ IsClient(new) /\ new.cmd = k.cmd /\ new.script = f /\ new.task = k.task
        /\ new.sock = Append(k.sock, "length") /\ new.half = k.half /\ new.there = k.there
    BY <2>1 DEF OkClient, IsClient, Has, ClientField
  <2>3. k.script \in {<<"send">>, <<"send", "read">>}
    BY <1>0, <1>1, Scripts DEF OkFrame, Unsent, Begun, Sent
  <2>4. f \in Begun
    BY <2>3, Scripts DEF Begun
  <2>. HIDE DEF f
  <2>5. k.script \in Unsent
    BY <2>3 DEF Unsent
  <2>6. new.sock = <<"length">> /\ ~k.half /\ ~k.there
    BY <1>0, <2>2, <2>5, Sockets, Stages DEF OkFrame
  <2>7. OkFrame(f, <<"length">>, k.task, k.half, k.there)
    BY <1>0, <2>4, <2>6, Stages, Sockets DEF OkFrame
  <2>. QED
    BY <2>2, <2>6, <2>7 DEF OkClient
<1>2. CASE Head(k.script) = "finish"
  <2>1. new = [k EXCEPT !.sock = Append(@, "payload"), !.script = Tail(@)]
    BY <1>2
  <2>2. /\ IsClient(new) /\ new.cmd = k.cmd /\ new.script = Tail(k.script) /\ new.task = k.task
        /\ new.sock = Append(k.sock, "payload") /\ new.half = k.half /\ new.there = k.there
    BY <2>1 DEF OkClient, IsClient, Has, ClientField
  <2>3. k.script \in {<<"finish">>, <<"finish", "read">>}
    BY <1>0, <1>2, Scripts DEF OkFrame, Unsent, Begun, Sent
  <2>4. Tail(k.script) \in Sent /\ k.script \in Begun
    BY <2>3, Scripts DEF Begun, Sent
  <2>5. k.sock \in {<<>>, <<"length">>} /\ ~k.there
    BY <1>0, <2>4, Stages, Sockets DEF OkFrame
  <2>6. new.sock = IF k.sock = <<>> THEN <<"payload">> ELSE Whole
    BY <2>2, <2>5, Sockets
  <2>7. OkFrame(Tail(k.script), new.sock, k.task, k.half, k.there)
    BY <1>0, <2>4, <2>5, <2>6, Stages, Sockets DEF OkFrame
  <2>. QED
    BY <2>2, <2>7 DEF OkClient
<1>. QED
  BY <1>1, <1>2

\* The client reads, times out, or gives up: at most the read is done.
LEMMA ScriptIs ==
    ASSUME NEW k, OkClient(k), NEW new, IsClient(new), new.cmd = k.cmd, new.task = k.task,
           new.sock = k.sock, new.half = k.half, new.there = k.there,
           \/ new.script = k.script
           \/ k.script # <<>> /\ Head(k.script) = "read" /\ new.script = Tail(k.script)
           \/ new.script = <<>> /\ (k.task \in {"refused", "ended"} \/ k.script = <<>> \/ Head(k.script) = "read")
    PROVE  OkClient(new)
<1>0. OkFrame(k.script, k.sock, k.task, k.half, k.there)
  BY DEF OkClient
<1>1. CASE new.script = k.script
  BY <1>0, <1>1 DEF OkClient
<1>2. CASE k.script # <<>> /\ Head(k.script) = "read" /\ new.script = Tail(k.script)
  <2>1. k.script \in {<<"read">>, <<"read", "send", "read">>}
    BY <1>0, <1>2, Scripts DEF OkFrame, Unsent, Begun, Sent
  <2>2. \/ k.script \in Sent /\ new.script \in Sent
        \/ k.script \in Unsent /\ new.script \in Unsent
    BY <1>2, <2>1, Scripts DEF Unsent, Sent
  <2>3. OkFrame(new.script, k.sock, k.task, k.half, k.there)
    BY <1>0, <2>2, Stages DEF OkFrame
  <2>. QED
    BY <2>3 DEF OkClient
<1>3. CASE new.script = <<>> /\ (k.task \in {"refused", "ended"} \/ k.script = <<>> \/ Head(k.script) = "read")
  <2>1. new.script \in Sent
    BY <1>3 DEF Sent
  <2>2. k.task \in {"refused", "ended"} \/ k.script \in Sent \cup Unsent
    BY <1>0, <1>3, Scripts DEF OkFrame, Begun
  <2>3. OkFrame(new.script, k.sock, k.task, k.half, k.there)
    BY <1>0, <2>1, <2>2, Stages, Sockets DEF OkFrame
  <2>. QED
    BY <2>3 DEF OkClient
<1>. QED
  BY <1>1, <1>2, <1>3

LEMMA ClientNext ==
    ASSUME ClientInv, NEW c \in Client, ClientMoves(c)
    PROVE  ClientInv'
<1>. DEFINE k == cl[c]
<1>0. OkClient(k) /\ IsClient(k) /\ k.cmd \in Command /\ OkFrame(k.script, k.sock, k.task, k.half, k.there)
  BY DEF ClientInv, OkClient
<1>. HIDE DEF k
<1>1. ASSUME NEW new, OkClient(new), ClientStep(c, new), lost' = lost \/ "seen" \notin lost',
             cmdq' = cmdq \/ cmdq' = Append(cmdq, k.cmd)
      PROVE  ClientInv'
  <2>1. cmdq' \in Seq(Command)
    BY <1>0, <1>1 DEF ClientInv, OkClient
  <2>2. cl' = [cl EXCEPT ![c] = new]
    BY <1>1 DEF ClientStep
  <2>3. Has(cl', Client) /\ \A d \in Client : OkClient(cl'[d])
    BY <1>1, <2>2 DEF ClientInv, Has
  <2>. QED
    BY <1>1, <2>1, <2>3 DEF ClientInv
<1>2. CASE \E cmd \in Command : ClientConnect(c, cmd)
  <2>1. PICK cmd \in Command : ClientConnect(c, cmd)
    BY <1>2
  <2>. DEFINE new == [NoClient EXCEPT !.script = Script(cmd), !.cmd = cmd, !.open = TRUE, !.task = "backlog"]
  <2>2. /\ IsClient(new) /\ new.cmd = cmd /\ new.script = Script(cmd) /\ new.task = "backlog"
        /\ new.sock = <<>> /\ new.half = FALSE /\ new.there = FALSE
    BY DEF NoClient, IsClient, Has, ClientField
  <2>3. ClientStep(c, new) /\ UNCHANGED <<cmdq, lost>>
    BY <2>1 DEF ClientConnect
  <2>. HIDE DEF new
  <2>4. Script(cmd) \in Unsent
    BY DEF Script, FetchSnapshot, RefreshedSnapshot, SendCommand, Unsent
  <2>5. OkFrame(Script(cmd), <<>>, "backlog", FALSE, FALSE)
    BY <2>4, Stages, Sockets DEF OkFrame
  <2>6. OkClient(new)
    BY <2>2, <2>5 DEF OkClient
  <2>. QED
    BY <1>1, <2>3, <2>6
<1>3. CASE ClientSend(c)
  <2>. DEFINE f == [k EXCEPT !.script = <<>>]
              g == [k EXCEPT !.sock = Append(@, "length"), !.script[1] = "finish"]
              h == [k EXCEPT !.sock = Append(@, "payload"), !.script = Tail(@)]
  <2>1. /\ IsClient(f) /\ f.cmd = k.cmd /\ f.script = <<>> /\ f.task = k.task
        /\ f.sock = k.sock /\ f.half = k.half /\ f.there = k.there
    BY <1>0 DEF IsClient, Has, ClientField
  <2>2. PICK new : /\ ClientStep(c, new) /\ UNCHANGED <<cmdq, lost>> /\ k.script # <<>>
                   /\ \/ k.task \in {"refused", "ended"} /\ new = f
                      \/ Head(k.script) = "send" /\ new = g
                      \/ Head(k.script) = "finish" /\ new = h
    BY <1>3 DEF ClientSend, Refused, k
  <2>3. CASE k.task \in {"refused", "ended"} /\ new = f
    <3>. HIDE DEF f
    <3>1. OkClient(f)
      BY <1>0, <2>1, <2>3, ScriptIs
    <3>. QED
      BY <1>1, <2>2, <2>3, <3>1
  <2>4. CASE Head(k.script) = "send" /\ new = g
    <3>1. OkClient(new)
      BY <1>0, <2>2, <2>4, SendIs
    <3>. QED
      BY <1>1, <2>2, <3>1
  <2>5. CASE Head(k.script) = "finish" /\ new = h
    <3>1. OkClient(new)
      BY <1>0, <2>2, <2>5, SendIs
    <3>. QED
      BY <1>1, <2>2, <3>1
  <2>. HIDE DEF f, g, h
  <2>. QED
    BY <2>2, <2>3, <2>4, <2>5
<1>4. CASE ClientRead(c)
  <2>. DEFINE f == [k EXCEPT !.unread = @ - 1, !.script = Tail(@)]
              g == [k EXCEPT !.script = <<>>]
  <2>1. \A new \in {f, g} : /\ IsClient(new) /\ new.cmd = k.cmd /\ new.task = k.task
                            /\ new.sock = k.sock /\ new.half = k.half /\ new.there = k.there
    BY <1>0 DEF IsClient, Has, ClientField
  <2>2. f.script = Tail(k.script) /\ g.script = <<>>
    BY <1>0 DEF IsClient, Has, ClientField
  <2>3. PICK new \in {f, g} : ClientStep(c, new) /\ UNCHANGED <<cmdq, lost>>
    BY <1>4 DEF ClientRead, k
  <2>4. k.script # <<>> /\ Head(k.script) = "read"
    BY <1>4 DEF ClientRead, k
  <2>. HIDE DEF f, g
  <2>5. new.script \in {Tail(k.script), <<>>}
    BY <2>2, <2>3
  <2>6. OkClient(new)
    BY <1>0, <2>1, <2>3, <2>4, <2>5, ScriptIs
  <2>. QED
    BY <1>1, <2>3, <2>6
<1>5. CASE ClientClose(c)
  <2>. DEFINE f == [k EXCEPT !.open = FALSE, !.script = <<>>, !.unread = 0]
  <2>1. /\ IsClient(f) /\ f.cmd = k.cmd /\ f.script = <<>> /\ f.task = k.task
        /\ f.sock = k.sock /\ f.half = k.half /\ f.there = k.there
    BY <1>0 DEF IsClient, Has, ClientField
  <2>2. ClientStep(c, f) /\ UNCHANGED <<cmdq, lost>> /\ (k.script # <<>> => Head(k.script) = "read")
    BY <1>5 DEF ClientClose, k
  <2>. HIDE DEF f
  <2>3. OkClient(f)
    BY <1>0, <2>1, <2>2, ScriptIs
  <2>. QED
    BY <1>1, <2>2, <2>3
<1>6. CASE ClientForget(c)
  BY <1>1, <1>6, NoClientIs DEF ClientForget
<1>7. CASE Accept(c)
  <2>. DEFINE t == IF Cardinality(Serving) < left.slots THEN "initial" ELSE "refused"
              f == [k EXCEPT !.task = t]
  <2>1. k.task = "backlog" /\ ClientStep(c, f) /\ UNCHANGED <<cmdq, lost>>
    BY <1>7 DEF Accept, k
  <2>2. t \in {"initial", "refused"}
    OBVIOUS
  <2>. HIDE DEF t
  <2>3. /\ IsClient(f) /\ f.cmd = k.cmd /\ f.script = k.script /\ f.task = t
        /\ f.sock = k.sock /\ f.half = k.half /\ f.there = k.there
    BY <1>0 DEF IsClient, Has, ClientField
  <2>. HIDE DEF f
  <2>4. OkFrame(k.script, k.sock, t, k.half, k.there)
    BY <1>0, <2>1, <2>2 DEF OkFrame
  <2>5. OkClient(f)
    BY <1>0, <2>3, <2>4 DEF OkClient
  <2>. QED
    BY <1>1, <2>1, <2>5
<1>8. CASE InitialSnapshot(c)
  <2>. DEFINE f == [k EXCEPT !.there = WholeFrame(k)]
              new == Written(f, "select")
  <2>1. k.task = "initial" /\ ClientStep(c, new) /\ UNCHANGED <<cmdq, lost>>
    BY <1>8 DEF InitialSnapshot, k
  <2>2. /\ IsClient(new) /\ new.cmd = k.cmd /\ new.script = k.script /\ new.task = "select"
        /\ new.sock = k.sock /\ new.half = k.half /\ new.there = WholeFrame(k)
    BY <1>0 DEF IsClient, Has, ClientField, Written
  <2>. HIDE DEF new
  <2>3. WholeFrame(k) => k.sock = Whole /\ k.script \in Sent /\ ~k.half
    BY <1>0, <2>1, Sockets, Stages DEF OkFrame, WholeFrame
  <2>4. OkFrame(k.script, k.sock, "select", k.half, WholeFrame(k))
    BY <1>0, <2>3 DEF OkFrame
  <2>5. OkClient(new)
    BY <1>0, <2>2, <2>4 DEF OkClient
  <2>. QED
    BY <1>1, <2>1, <2>5
<1>9. CASE SelectLoop(c)
  <2>1. PICK new \in Poll(k) : /\ ClientStep(c, new) /\ UNCHANGED cmdq /\ k.task = "select"
                               /\ lost' = lost \cup Losses(k, new)
    BY <1>9 DEF SelectLoop, k
  <2>2. OkClient(new) /\ "seen" \notin Losses(k, new)
    BY <1>0, <2>1, PollIs
  <2>3. "seen" \notin lost'
    BY <2>1, <2>2 DEF ClientInv
  <2>. QED
    BY <1>1, <2>1, <2>2, <2>3
<1>10. CASE WriteSnapshot(c)
  <2>1. ~k.there
    BY <1>0, <1>10 DEF WriteSnapshot, OkFrame, k
  <2>2. PICK new \in {Written(k, "select"), Ended(k)} :
            ClientStep(c, new) /\ UNCHANGED cmdq /\ lost' = lost \cup Losses(k, new)
    BY <1>10 DEF WriteSnapshot, k
  <2>3. "seen" \notin lost'
    BY <2>1, <2>2 DEF Losses, ClientInv
  <2>. QED
    BY <1>0, <1>1, <2>2, <2>3, WrittenIs, EndedIs
<1>11. CASE Forward(c)
  <2>. DEFINE f == [k EXCEPT !.task = "select"]
  <2>1. /\ IsClient(f) /\ f.cmd = k.cmd /\ f.script = k.script /\ f.task = "select"
        /\ f.sock = k.sock /\ f.half = k.half /\ f.there = k.there
    BY <1>0 DEF IsClient, Has, ClientField
  <2>2. ClientStep(c, f) /\ cmdq' = Append(cmdq, k.cmd) /\ UNCHANGED lost
    BY <1>11 DEF Forward, k
  <2>. HIDE DEF f
  <2>3. OkFrame(k.script, k.sock, "select", k.half, k.there)
    BY <1>0 DEF OkFrame
  <2>4. OkClient(f)
    BY <1>0, <2>1, <2>3 DEF OkClient
  <2>. QED
    BY <1>1, <2>2, <2>4
<1>. QED
  BY <1>2, <1>3, <1>4, <1>5, <1>6, <1>7, <1>8, <1>9, <1>10, <1>11 DEF ClientMoves

LEMMA ClientInvariant == ClientInv /\ [Next]_vars => ClientInv'
<1>. SUFFICES ASSUME ClientInv, [Next]_vars PROVE ClientInv'
  OBVIOUS
<1>1. ASSUME UNCHANGED <<cl, lost>>, cmdq' = cmdq \/ (cmdq # <<>> /\ cmdq' = Tail(cmdq))
      PROVE  ClientInv'
  BY <1>1 DEF ClientInv, Has
<1>2. CASE \E c \in Client : ClientMoves(c)
  BY <1>2, ClientNext
<1>3. CASE \E t \in Task : Publish(t)
  <2>1. cl' = [c \in Client |-> [cl[c] EXCEPT !.seen = FALSE]] /\ UNCHANGED <<cmdq, lost>>
    BY <1>3 DEF Publish
  <2>2. ASSUME NEW k, OkClient(k) PROVE OkClient([k EXCEPT !.seen = FALSE])
    <3>. DEFINE f == [k EXCEPT !.seen = FALSE]
    <3>1. /\ IsClient(f) /\ f.cmd = k.cmd /\ f.script = k.script /\ f.task = k.task
          /\ f.sock = k.sock /\ f.half = k.half /\ f.there = k.there
      BY <2>2 DEF OkClient, IsClient, Has, ClientField
    <3>. HIDE DEF f
    <3>2. OkClient(f)
      BY <2>2, <3>1 DEF OkClient
    <3>. QED
      BY <3>2 DEF f
  <2>3. Has(cl', Client) /\ \A c \in Client : OkClient(cl'[c])
    BY <2>1, <2>2 DEF ClientInv, Has
  <2>. QED
    BY <2>1, <2>3 DEF ClientInv
<1>4. CASE Restart
  <2>1. cl' = [c \in Client |-> IF cl[c] = NoClient THEN NoClient ELSE Ended(cl[c])] /\ cmdq' = <<>> /\ UNCHANGED lost
    BY <1>4 DEF Restart
  <2>2. Has(cl', Client) /\ \A c \in Client : OkClient(cl'[c])
    BY <2>1, NoClientIs, EndedIs DEF ClientInv, Has
  <2>. QED
    BY <2>1, <2>2 DEF ClientInv
<1>5. CASE \E cmd \in Command : CommandArrives(cmd)
  BY <1>5 DEF CommandArrives, ClientInv
<1>6. CASE Network \/ (\E t \in Task : Build(t)) \/ RepublishLoop \/ UNCHANGED vars
  BY <1>1, <1>6, NetworkFrame DEF Build, RepublishLoop, vars
<1>7. CASE \/ CommandConnect \/ CommandDisconnect \/ CommandSendFiles \/ CommandUpdateSettings
           \/ \E op \in {"approve", "deny"} : CommandDecide(op)
           \/ CommandRefresh \/ CommandTrust
           \/ \E outcome \in {"ok", "partly", "failed"} : CommandReset(outcome)
  <2>1. PICK op : Take(op)
    BY <1>7 DEF CommandConnect, CommandDisconnect, CommandSendFiles, CommandUpdateSettings,
                CommandDecide, CommandRefresh, CommandTrust, CommandReset
  <2>. QED
    BY <1>1, <2>1, TakeFrame
<1>8. CASE \/ \E p \in Peer : SetConnected(p)
           \/ \E error \in {None, "unreachable"} : SetIdle(error)
           \/ SetOwnerEpoch \/ TakeDisconnect \/ TakeConnect
  BY <1>1, <1>8 DEF SetConnected, SetIdle, SetOwnerEpoch, TakeDisconnect, TakeConnect, ReportDto
<1>9. CASE CommandTrustWrite \/ IgnoreConnect \/ TakeFileSend \/ \E p \in Peer : CliTrust(p)
  BY <1>1, <1>9 DEF CommandTrustWrite, IgnoreConnect, TakeFileSend, CliTrust
<1>10. CASE (\E p \in Peer : RequestPairing(p)) \/ TakeDecision \/ PairingTrustWrite \/ PairingTimeout
  BY <1>1, <1>10 DEF RequestPairing, TakeDecision, PairingTrustWrite, PairingTimeout, ServeStep
<1>. QED
  BY <1>2, <1>3, <1>4, <1>5, <1>6, <1>7, <1>8, <1>9, <1>10, Steps

-----------------------------------------------------------------------------
(* Trust: everything that can reach the file was approved                  *)

\* What is trusted, about to be written, or decided and not yet taken, was
\* named by a command since the last reset.
Backed ==
    /\ trustFile.peers \subseteq approved
    /\ step.peers \subseteq approved /\ srv.write.peers \subseteq approved
    /\ \A i \in 1..Len(decisionQ) : decisionQ[i].approved => decisionQ[i].peer \in approved

TrustShape ==
    /\ IsTrust(trustFile) /\ IsWrite(step) /\ IsServe(srv) /\ IsWrite(srv.write)
    /\ decisionQ \in Seq(Decision)

TrustInv == TrustShape /\ (crossed \/ Backed)

LEMMA NoWriteIs == IsWrite(NoWrite) /\ NoWrite.peers = {} /\ NoWrite.at = "idle"
BY DEF IsWrite, Has, NoWrite

\* trust_peer adds the peer to what the file holds.
LEMMA TrustPeerIs ==
    ASSUME NEW p
    PROVE  IsWrite(TrustPeer(p)) /\ TrustPeer(p).peers \subseteq trustFile.peers \cup {p}
<1>. DEFINE w == [at |-> "truncate", peers |-> trustFile.peers \cup {p}]
<1>1. IsWrite(w) /\ w.peers = trustFile.peers \cup {p}
  BY DEF IsWrite, Has
<1>2. TrustPeer(p) = w \/ TrustPeer(p) = NoWrite
  BY DEF TrustPeer
<1>. HIDE DEF w
<1>. QED
  BY <1>1, <1>2, NoWriteIs

\* However the write goes, the file holds no more than was to be written.
LEMMA WriteIs ==
    ASSUME NEW w, IsWrite(w), NEW at \in {"fill", "done", "failed"}, WriteTrusted(w, [w EXCEPT !.at = at])
    PROVE  /\ IsTrust(trustFile') /\ trustFile'.peers \subseteq w.peers
           /\ IsWrite([w EXCEPT !.at = at]) /\ [w EXCEPT !.at = at].peers = w.peers /\ w.at # "idle"
           /\ [w EXCEPT !.at = at] # NoWrite /\ w # NoWrite
<1>. DEFINE new == [w EXCEPT !.at = at]
<1>1. new.at = at /\ new.peers = w.peers /\ Has(new, {"at", "peers"})
  BY DEF IsWrite, Has
<1>2. IsWrite(new) /\ new # NoWrite
  BY <1>1, NoWriteIs DEF IsWrite
<1>3. w.at \in {"truncate", "fill"}
  BY DEF WriteTrusted
<1>4. \/ trustFile' = [valid |-> TRUE, peers |-> {}]
      \/ trustFile' = [valid |-> TRUE, peers |-> w.peers]
      \/ trustFile' \in Remains(w.peers)
  BY <1>3 DEF WriteTrusted
<1>5. \/ trustFile' = [valid |-> FALSE, peers |-> {}]
      \/ \E s \in SUBSET w.peers : trustFile' = [valid |-> TRUE, peers |-> s]
  BY <1>4 DEF Remains
<1>6. IsTrust(trustFile') /\ trustFile'.peers \subseteq w.peers
  BY <1>5 DEF IsTrust, Has
<1>. QED
  BY <1>1, <1>2, <1>3, <1>6, NoWriteIs

\* A step that leaves what can reach the file alone.
LEMMA TrustStill ==
    ASSUME TrustInv, UNCHANGED <<trustFile, step, decisionQ, approved, crossed>>,
           IsServe(srv'), srv'.write = srv.write
    PROVE  TrustInv'
BY DEF TrustInv, TrustShape, Backed

LEMMA DecideStep ==
    ASSUME TrustInv, ClientInv, NEW op \in {"approve", "deny"}, CommandDecide(op)
    PROVE  TrustInv'
<1>. DEFINE d == [peer |-> Head(cmdq).peer, approved |-> op = "approve"]
<1>1. /\ decisionQ' = Append(decisionQ, d)
      /\ approved' = IF op = "approve" THEN approved \cup {Head(cmdq).peer} ELSE approved
      /\ UNCHANGED <<trustFile, crossed, step>>
  BY DEF CommandDecide
<1>2. UNCHANGED srv /\ cmdq # <<>>
  BY TakeFrame DEF CommandDecide
<1>3. Head(cmdq) \in Command
  BY <1>2 DEF ClientInv
<1>4. d \in Decision /\ d.peer = Head(cmdq).peer /\ (d.approved <=> op = "approve")
  <2>1. (op = "approve") \in BOOLEAN
    OBVIOUS
  <2>2. d \in Decision
    BY <1>3, <2>1 DEF Decision
  <2>. QED
    BY <2>2
<1>. HIDE DEF d
<1>5. decisionQ \in Seq(Decision)
  BY DEF TrustInv, TrustShape
<1>6. decisionQ' \in Seq(Decision) /\ Len(decisionQ') = Len(decisionQ) + 1
      /\ \A i \in 1..Len(decisionQ') : decisionQ'[i] = d \/ (i \in 1..Len(decisionQ) /\ decisionQ'[i] = decisionQ[i])
  BY <1>1, <1>4, <1>5
<1>7. approved \subseteq approved' /\ (d.approved => d.peer \in approved')
  BY <1>1, <1>4
<1>8. Backed => Backed'
  BY <1>1, <1>2, <1>6, <1>7 DEF Backed
<1>. QED
  BY <1>1, <1>2, <1>6, <1>8 DEF TrustInv, TrustShape

LEMMA ResetStep ==
    ASSUME TrustInv, NEW outcome \in {"ok", "partly", "failed"}, CommandReset(outcome)
    PROVE  TrustInv'
<1>1. ResetData(outcome) /\ UNCHANGED <<step, decisionQ, srv>> /\ step = NoWrite
  BY TakeFrame DEF CommandReset
<1>2. CASE outcome = "failed"
  <2>1. UNCHANGED <<trustFile, approved>> /\ (crossed' <=> crossed)
    BY <1>1, <1>2 DEF ResetData
  <2>. QED
    BY <1>1, <2>1 DEF TrustInv, TrustShape, Backed
<1>3. CASE outcome # "failed"
  <2>1. /\ trustFile' = [valid |-> TRUE, peers |-> {}]
        /\ approved' = {p \in approved : \E i \in DOMAIN decisionQ : decisionQ[i].peer = p}
        /\ crossed' \/ (~crossed /\ srv.write.at = "idle")
    BY <1>1, <1>3 DEF ResetData
  <2>2. IsTrust(trustFile') /\ trustFile'.peers = {}
    BY <2>1 DEF IsTrust, Has
  <2>3. TrustShape'
    BY <1>1, <2>2 DEF TrustInv, TrustShape
  <2>4. ASSUME ~crossed, srv.write.at = "idle" PROVE Backed'
    <3>1. srv.write = NoWrite
      BY <2>4 DEF TrustInv, TrustShape, IsWrite
    <3>2. Backed /\ decisionQ \in Seq(Decision)
      BY <2>4 DEF TrustInv, TrustShape
    <3>3. \A i \in 1..Len(decisionQ) : decisionQ[i].approved => decisionQ[i].peer \in approved'
      BY <2>1, <3>2 DEF Backed
    <3>. QED
      BY <1>1, <2>2, <3>1, <3>3, NoWriteIs DEF Backed
  <2>. QED
    BY <2>1, <2>3, <2>4 DEF TrustInv
<1>. QED
  BY <1>2, <1>3

LEMMA TrustCommandStep ==
    ASSUME TrustInv, CommandTrust \/ CommandTrustWrite
    PROVE  TrustInv'
<1>1. CASE CommandTrust
  <2>. DEFINE p == Head(cmdq).peer
  <2>1. approved' = approved \cup {p} /\ step' = TrustPeer(p) /\ UNCHANGED <<trustFile, crossed, decisionQ, srv>>
    BY <1>1, TakeFrame DEF CommandTrust, chanVars
  <2>2. IsWrite(step') /\ step'.peers \subseteq trustFile.peers \cup {p}
    BY <2>1, TrustPeerIs
  <2>. HIDE DEF p
  <2>3. Backed => Backed'
    BY <2>1, <2>2 DEF Backed
  <2>. QED
    BY <2>1, <2>2, <2>3 DEF TrustInv, TrustShape
<1>2. CASE CommandTrustWrite
  <2>1. PICK at \in {"fill", "done", "failed"} :
             /\ WriteTrusted(step, [step EXCEPT !.at = at])
             /\ step' = IF at = "fill" THEN [step EXCEPT !.at = at] ELSE NoWrite
    BY <1>2 DEF CommandTrustWrite
  <2>2. UNCHANGED <<approved, crossed, srv, decisionQ>>
    BY <1>2 DEF CommandTrustWrite, chanVars
  <2>3. /\ IsTrust(trustFile') /\ trustFile'.peers \subseteq step.peers
        /\ IsWrite([step EXCEPT !.at = at]) /\ [step EXCEPT !.at = at].peers = step.peers
    BY <2>1, WriteIs DEF TrustInv, TrustShape
  <2>4. IsWrite(step') /\ step'.peers \subseteq step.peers
    BY <2>1, <2>3, NoWriteIs
  <2>5. Backed => Backed'
    BY <2>2, <2>3, <2>4 DEF Backed
  <2>. QED
    BY <2>2, <2>3, <2>4, <2>5 DEF TrustInv, TrustShape
<1>. QED
  BY <1>1, <1>2

LEMMA PairingStep ==
    ASSUME TrustInv, TakeDecision \/ PairingTrustWrite
    PROVE  TrustInv'
<1>0. IsServe(srv) /\ IsWrite(srv.write)
  BY DEF TrustInv, TrustShape
<1>1. CASE TakeDecision
  <2>. DEFINE d == Head(decisionQ)
              write == IF d.peer = srv.asking /\ d.approved THEN TrustPeer(d.peer) ELSE NoWrite
  <2>1. /\ decisionQ # <<>> /\ decisionQ' = Tail(decisionQ)
        /\ UNCHANGED <<trustFile, approved, crossed, step>>
    BY <1>1 DEF TakeDecision, ServeStep
  <2>2. PICK b : srv' = [srv EXCEPT !.write = write, !.asking = b]
    BY <1>1 DEF TakeDecision
  <2>3. decisionQ \in Seq(Decision)
    BY DEF TrustInv, TrustShape
  <2>4. /\ decisionQ' \in Seq(Decision) /\ d = decisionQ[1] /\ 1 \in 1..Len(decisionQ)
        /\ \A i \in 1..Len(decisionQ') : i + 1 \in 1..Len(decisionQ) /\ decisionQ'[i] = decisionQ[i + 1]
    BY <2>1, <2>3
  <2>5. /\ IsWrite(write)
        /\ write.peers \subseteq trustFile.peers \cup (IF d.approved THEN {d.peer} ELSE {})
    BY TrustPeerIs, NoWriteIs
  <2>. HIDE DEF write, d
  <2>6. IsServe(srv') /\ srv'.write = write
    BY <1>0, <2>2 DEF IsServe, Has
  <2>7. ASSUME Backed PROVE Backed'
    <3>1. d.approved => d.peer \in approved
      BY <2>4, <2>7 DEF Backed
    <3>2. write.peers \subseteq approved
      BY <2>5, <2>7, <3>1 DEF Backed
    <3>. QED
      BY <2>1, <2>4, <2>6, <2>7, <3>2 DEF Backed
  <2>. QED
    BY <2>1, <2>4, <2>5, <2>6, <2>7 DEF TrustInv, TrustShape
<1>2. CASE PairingTrustWrite
  <2>. DEFINE w == srv.write
  <2>1. PICK at \in {"fill", "done", "failed"} :
             /\ WriteTrusted(w, [w EXCEPT !.at = at])
             /\ \/ srv' = [srv EXCEPT !.write = [w EXCEPT !.at = at]]
                \/ srv' = [srv EXCEPT !.write = NoWrite, !.asking = None]
    BY <1>2 DEF PairingTrustWrite
  <2>2. UNCHANGED <<approved, crossed, step, decisionQ>>
    BY <1>2 DEF PairingTrustWrite, ServeStep
  <2>. HIDE DEF w
  <2>3. /\ IsTrust(trustFile') /\ trustFile'.peers \subseteq w.peers
        /\ IsWrite([w EXCEPT !.at = at]) /\ [w EXCEPT !.at = at].peers = w.peers
    BY <1>0, <2>1, WriteIs DEF w
  <2>4. IsServe(srv') /\ (srv'.write = [w EXCEPT !.at = at] \/ srv'.write = NoWrite)
    BY <1>0, <2>1 DEF IsServe, Has
  <2>6. IsWrite(srv'.write) /\ srv'.write.peers \subseteq w.peers
    BY <2>3, <2>4, NoWriteIs
  <2>5. Backed => Backed'
    BY <2>2, <2>3, <2>6 DEF Backed, w
  <2>. QED
    BY <2>2, <2>3, <2>4, <2>5, <2>6 DEF TrustInv, TrustShape
<1>. QED
  BY <1>1, <1>2

LEMMA OutsideStep ==
    ASSUME TrustInv, Restart \/ \E p \in Peer : CliTrust(p)
    PROVE  TrustInv'
<1>1. CASE Restart
  <2>1. UNCHANGED <<trustFile, approved, crossed>> /\ step' = NoWrite /\ srv' = NoServe /\ decisionQ' = <<>>
    BY <1>1 DEF Restart, storeVars
  <2>2. IsServe(srv') /\ srv'.write = NoWrite
    BY <2>1 DEF NoServe, IsServe, Has
  <2>3. decisionQ' \in Seq(Decision) /\ Len(decisionQ') = 0
    BY <2>1
  <2>4. Backed => Backed'
    BY <2>1, <2>2, <2>3, NoWriteIs DEF Backed
  <2>. QED
    BY <2>1, <2>2, <2>3, <2>4, NoWriteIs DEF TrustInv, TrustShape
<1>2. ASSUME NEW p \in Peer, CliTrust(p) PROVE TrustInv'
  <2>1. /\ trustFile' = [trustFile EXCEPT !.peers = @ \cup {p}] /\ approved' = approved \cup {p}
        /\ UNCHANGED <<step, srv, decisionQ>> /\ (crossed => crossed')
    BY <1>2 DEF CliTrust, chanVars
  <2>2. IsTrust(trustFile') /\ trustFile'.peers = trustFile.peers \cup {p}
    BY <2>1 DEF TrustInv, TrustShape, IsTrust, Has
  <2>3. Backed => Backed'
    BY <2>1, <2>2 DEF Backed
  <2>. QED
    BY <2>1, <2>2, <2>3 DEF TrustInv, TrustShape
<1>. QED
  BY <1>1, <1>2

LEMMA TrustNext == ClientInv /\ TrustInv /\ [Next]_vars => TrustInv'
<1>. SUFFICES ASSUME ClientInv, TrustInv, [Next]_vars PROVE TrustInv'
  OBVIOUS
<1>0. IsServe(srv)
  BY DEF TrustInv, TrustShape
<1>1. ASSUME UNCHANGED trustVars PROVE TrustInv'
  BY <1>0, <1>1, TrustStill DEF trustVars
<1>2. CASE \/ Network \/ (\E t \in Task : Build(t) \/ Publish(t)) \/ RepublishLoop
           \/ \E c \in Client : ClientMoves(c)
  BY <1>1, <1>2, NetworkFrame, PublishFrame, ClientFrame DEF Task
<1>3. CASE (\E cmd \in Command : CommandArrives(cmd)) \/ IgnoreConnect \/ TakeFileSend \/ UNCHANGED vars
  BY <1>1, <1>3 DEF CommandArrives, IgnoreConnect, TakeFileSend, vars, storeVars, chanVars, trustVars
<1>4. CASE CommandConnect \/ CommandDisconnect \/ CommandSendFiles \/ CommandUpdateSettings \/ CommandRefresh
  <2>1. UNCHANGED <<trustFile, step, decisionQ, approved, crossed>>
    BY <1>4 DEF CommandConnect, CommandDisconnect, CommandSendFiles, CommandUpdateSettings, CommandRefresh,
                storeVars, chanVars
  <2>2. PICK op : Take(op)
    BY <1>4 DEF CommandConnect, CommandDisconnect, CommandSendFiles, CommandUpdateSettings, CommandRefresh
  <2>. QED
    BY <1>1, <2>1, <2>2, TakeFrame DEF trustVars
<1>5. CASE (\E op \in {"approve", "deny"} : CommandDecide(op)) \/ CommandTrust \/ CommandTrustWrite
           \/ \E outcome \in {"ok", "partly", "failed"} : CommandReset(outcome)
  BY <1>5, DecideStep, TrustCommandStep, ResetStep
<1>6. CASE \/ \E p \in Peer : SetConnected(p)
           \/ \E error \in {None, "unreachable"} : SetIdle(error)
           \/ SetOwnerEpoch \/ TakeDisconnect \/ TakeConnect
  <2>1. UNCHANGED <<trustFile, step, decisionQ, approved, crossed>>
    BY <1>6 DEF SetConnected, SetIdle, SetOwnerEpoch, TakeDisconnect, TakeConnect, ReportDto, storeVars, chanVars
  <2>2. srv' = srv \/ \E a : srv' = [srv EXCEPT !.sess = a]
    BY <1>6 DEF SetConnected, SetIdle, SetOwnerEpoch, TakeDisconnect, TakeConnect
  <2>3. IsServe(srv') /\ srv'.write = srv.write
    BY <1>0, <2>2 DEF IsServe, Has
  <2>. QED
    BY <2>1, <2>3, TrustStill
<1>7. CASE (\E p \in Peer : RequestPairing(p)) \/ PairingTimeout
  <2>1. UNCHANGED <<trustFile, step, decisionQ, approved, crossed>>
    BY <1>7 DEF RequestPairing, PairingTimeout, ServeStep
  <2>2. \E a : srv' = [srv EXCEPT !.asking = a]
    BY <1>7 DEF RequestPairing, PairingTimeout
  <2>3. IsServe(srv') /\ srv'.write = srv.write
    BY <1>0, <2>2 DEF IsServe, Has
  <2>. QED
    BY <2>1, <2>3, TrustStill
<1>8. CASE TakeDecision \/ PairingTrustWrite \/ Restart \/ \E p \in Peer : CliTrust(p)
  BY <1>8, PairingStep, OutsideStep
<1>. QED
  BY <1>2, <1>3, <1>4, <1>5, <1>6, <1>7, <1>8, Steps

-----------------------------------------------------------------------------
(* Snapshots: every change is followed by a publication                    *)

SnapInv == Has(pub, Task) /\ Has(registry, Peer) /\ PublishedIsCurrent

\* A publication is on its way, or excused.
Coming ==
    \/ \E t \in Task : pub[t].at # "idle"
    \/ step # NoWrite \/ srv.write # NoWrite
    \/ changed \/ excuse # {}

LEMMA ComingIs == PublishedIsCurrent <=> (Coming \/ published = BuildSnapshot)
BY DEF PublishedIsCurrent, Coming

LEMMA SameSnapshot == UNCHANGED <<registry, trustFile, bridgeVars>> => BuildSnapshot' = BuildSnapshot
BY DEF BuildSnapshot, LoadTrustedPeers, bridgeVars

\* Nothing that a snapshot shows changes, and nothing is taken back.
LEMMA SnapStill ==
    ASSUME SnapInv, UNCHANGED <<registry, trustFile, bridgeVars, pub, published, step, excuse>>,
           srv'.write = srv.write, changed => changed'
    PROVE  SnapInv'
<1>1. BuildSnapshot' = BuildSnapshot
  BY SameSnapshot
<1>2. Coming => Coming'
  BY DEF Coming
<1>3. Coming \/ published = BuildSnapshot
  BY ComingIs DEF SnapInv
<1>4. Coming' \/ published' = BuildSnapshot'
  BY <1>1, <1>2, <1>3
<1>5. PublishedIsCurrent'
  BY <1>4 DEF PublishedIsCurrent, Coming
<1>. QED
  BY <1>5 DEF SnapInv, Has

\* Something else covers the step.
LEMMA SnapComing ==
    ASSUME SnapInv, Has(registry', Peer), Coming',
           pub' = pub \/ \E t \in Task : \E r : pub' = [pub EXCEPT ![t] = r]
    PROVE  SnapInv'
<1>1. Has(pub', Task)
  BY DEF SnapInv, Has
<1>2. PublishedIsCurrent'
  BY DEF PublishedIsCurrent, Coming
<1>. QED
  BY <1>1, <1>2 DEF SnapInv

LEMMA SnapRepublish ==
    ASSUME SnapInv, UNCHANGED registry, NEW t \in Task, Republish(t)
    PROVE  SnapInv'
<1>1. pub' = [pub EXCEPT ![t] = ToBuild] /\ Has(registry', Peer)
  BY DEF Republish, SnapInv
<1>2. pub'[t] = ToBuild
  BY <1>1 DEF SnapInv, Has
<1>3. Coming'
  BY <1>2 DEF Coming, ToBuild
<1>. QED
  BY <1>1, <1>3, SnapComing

LEMMA TaskIs == "serve" \in Task /\ "command" \in Task /\ "republish" \in Task
BY DEF Task

LEMMA SnapPublish ==
    ASSUME SnapInv, NEW t \in Task, Build(t) \/ Publish(t) \/ RepublishLoop
    PROVE  SnapInv'
<1>0. UNCHANGED <<trustVars, bridgeVars, registry>>
  BY PublishFrame
<1>1. CASE Build(t)
  <2>. DEFINE r == [at |-> "publish", snap |-> BuildSnapshot]
  <2>1. pub' = [pub EXCEPT ![t] = r] /\ r.at = "publish"
    BY <1>1 DEF Build
  <2>. HIDE DEF r
  <2>2. Coming'
    BY <2>1 DEF Coming, SnapInv, Has
  <2>3. Has(registry', Peer)
    BY <1>0 DEF SnapInv
  <2>. QED
    BY <2>1, <2>2, <2>3, SnapComing
<1>2. CASE Publish(t)
  <2>1. /\ published' = pub[t].snap /\ pub' = [pub EXCEPT ![t] = NotPublishing]
        /\ excuse' = IF pub[t].snap = BuildSnapshot THEN {} ELSE excuse \cup {"overtaken"}
    BY <1>2 DEF Publish
  <2>2. BuildSnapshot' = BuildSnapshot
    BY <1>0, SameSnapshot DEF trustVars
  <2>3. Coming' \/ published' = BuildSnapshot'
    BY <2>1, <2>2 DEF Coming
  <2>4. PublishedIsCurrent'
    BY <2>3 DEF PublishedIsCurrent, Coming
  <2>5. Has(pub', Task) /\ Has(registry', Peer)
    BY <1>0, <2>1 DEF SnapInv, Has
  <2>. QED
    BY <2>4, <2>5 DEF SnapInv
<1>3. CASE RepublishLoop
  BY <1>0, <1>3, TaskIs, SnapRepublish DEF RepublishLoop
<1>. QED
  BY <1>1, <1>2, <1>3

\* The registry never changes without being marked.
LEMMA RegistryStep ==
    ASSUME Has(registry, Peer), Network
    PROVE  Has(registry', Peer) /\ (changed' \/ (UNCHANGED registry /\ ~changed))
<1>1. CASE RunRegistry
  <2>1. CASE UNCHANGED <<registry, changed>>
    BY <2>1
  <2>2. CASE Apply(Head(mdns))
    <3>. DEFINE e == Head(mdns)
                entry == IF e.kind = "found" THEN Merged(e.peer, e) ELSE Unknown
    <3>1. registry' = [registry EXCEPT ![e.peer] = entry] /\ changed' = (changed \/ entry # registry[e.peer])
      BY <2>2 DEF Apply
    <3>. HIDE DEF e, entry
    <3>2. Has(registry', Peer)
      BY <3>1 DEF Has
    <3>3. entry = registry[e.peer] => UNCHANGED registry
      BY <3>1 DEF Has
    <3>. QED
      BY <3>1, <3>2, <3>3
  <2>. QED
    BY <1>1, <2>1, <2>2 DEF RunRegistry
<1>2. CASE \E p \in left.roaming : NetEvent(p)
  <2>1. UNCHANGED <<registry, changed>>
    BY <1>2 DEF NetEvent, Resolve, Report, HostStarts, HostMoves, HostLeaves, HostCrashes
  <2>. QED
    BY <2>1
<1>3. CASE \E p \in Peer : NudgeAnswered(p) \/ Expire(p)
  <2>1. UNCHANGED <<registry, changed>>
    BY <1>3 DEF NudgeAnswered, Expire, Report
  <2>. QED
    BY <2>1
<1>. QED
  BY <1>1, <1>2, <1>3 DEF Network

LEMMA SnapNetwork ==
    ASSUME SnapInv, Network
    PROVE  SnapInv'
<1>0. UNCHANGED <<trustVars, bridgeVars, pub, published, excuse>>
  BY NetworkFrame
<1>1. Has(registry', Peer) /\ (changed' \/ (UNCHANGED registry /\ ~changed))
  BY RegistryStep DEF SnapInv
<1>2. CASE changed'
  <2>1. Coming'
    BY <1>2 DEF Coming
  <2>. QED
    BY <1>0, <1>1, <2>1, SnapComing
<1>3. CASE UNCHANGED registry /\ ~changed
  BY <1>0, <1>3, SnapStill DEF trustVars
<1>. QED
  BY <1>1, <1>2, <1>3

LEMMA SnapCommand ==
    ASSUME SnapInv, TrustInv,
           \/ CommandConnect \/ CommandDisconnect \/ CommandSendFiles \/ CommandUpdateSettings
           \/ \E op \in {"approve", "deny"} : CommandDecide(op)
           \/ CommandRefresh \/ CommandTrust
           \/ \E outcome \in {"ok", "partly", "failed"} : CommandReset(outcome)
    PROVE  SnapInv'
<1>1. PICK op : Take(op)
  BY DEF CommandConnect, CommandDisconnect, CommandSendFiles, CommandUpdateSettings,
         CommandDecide, CommandRefresh, CommandTrust, CommandReset
<1>2. step = NoWrite /\ UNCHANGED <<registry, changed, prompt, published, srv>>
  BY <1>1, TakeFrame
<1>3. Has(registry', Peer)
  BY <1>2 DEF SnapInv
<1>4. CASE Republish("command")
  BY <1>2, <1>4, TaskIs, SnapRepublish
<1>5. ASSUME UNCHANGED <<trustFile, dto, settings, pub, step, excuse>> PROVE SnapInv'
  BY <1>2, <1>5, SnapStill DEF bridgeVars
<1>6. CASE CommandConnect
  BY <1>4, <1>5, <1>6 DEF CommandConnect, storeVars
<1>7. CASE CommandDisconnect \/ CommandSendFiles \/ \E o \in {"approve", "deny"} : CommandDecide(o)
  BY <1>5, <1>7 DEF CommandDisconnect, CommandSendFiles, CommandDecide, storeVars
<1>8. CASE CommandUpdateSettings \/ CommandRefresh
  BY <1>4, <1>8 DEF CommandUpdateSettings, CommandRefresh
<1>9. CASE CommandTrust
  <2>1. UNCHANGED <<trustFile, dto, settings, pub, excuse>>
    BY <1>9 DEF CommandTrust
  <2>2. CASE step' = NoWrite
    BY <1>2, <1>5, <2>1, <2>2
  <2>3. CASE step' # NoWrite
    <3>1. Coming'
      BY <2>3 DEF Coming
    <3>. QED
      BY <1>3, <2>1, <3>1, SnapComing
  <2>. QED
    BY <2>2, <2>3
<1>10. ASSUME NEW outcome \in {"ok", "partly", "failed"}, CommandReset(outcome) PROVE SnapInv'
  <2>1. CASE outcome = "ok"
    BY <1>4, <1>10, <2>1 DEF CommandReset
  <2>2. CASE outcome = "partly"
    <3>1. excuse' = excuse \cup {"partly reset"} /\ UNCHANGED pub
      BY <1>10, <2>2 DEF CommandReset
    <3>2. Coming'
      BY <3>1 DEF Coming
    <3>. QED
      BY <1>3, <3>1, <3>2, SnapComing
  <2>3. CASE outcome = "failed"
    BY <1>5, <1>10, <2>3 DEF CommandReset, ResetData
  <2>. QED
    BY <2>1, <2>2, <2>3
<1>. QED
  BY <1>6, <1>7, <1>8, <1>9, <1>10

LEMMA SnapWrite ==
    ASSUME SnapInv, TrustInv, CommandTrustWrite \/ PairingTrustWrite
    PROVE  SnapInv'
<1>1. CASE CommandTrustWrite
  <2>1. PICK at \in {"fill", "done", "failed"} :
             /\ WriteTrusted(step, [step EXCEPT !.at = at])
             /\ step' = IF at = "fill" THEN [step EXCEPT !.at = at] ELSE NoWrite
             /\ IF at = "done" THEN Republish("command") ELSE UNCHANGED pub
             /\ excuse' = IF at = "failed" THEN excuse \cup {"trust not written"} ELSE excuse
    BY <1>1 DEF CommandTrustWrite
  <2>2. UNCHANGED registry
    BY <1>1 DEF CommandTrustWrite, discoveryVars
  <2>3. [step EXCEPT !.at = at] # NoWrite
    BY <2>1, WriteIs DEF TrustInv, TrustShape
  <2>4. Has(registry', Peer)
    BY <2>2 DEF SnapInv
  <2>5. CASE at = "done"
    BY <2>1, <2>2, <2>5, TaskIs, SnapRepublish
  <2>6. CASE at # "done"
    <3>1. Coming' /\ UNCHANGED pub
      BY <2>1, <2>3, <2>6 DEF Coming
    <3>. QED
      BY <2>4, <3>1, SnapComing
  <2>. QED
    BY <2>5, <2>6
<1>2. CASE PairingTrustWrite
  <2>. DEFINE w == srv.write
  <2>1. PICK at \in {"fill", "done", "failed"} :
             /\ WriteTrusted(w, [w EXCEPT !.at = at])
             /\ \/ srv' = [srv EXCEPT !.write = [w EXCEPT !.at = at]] /\ UNCHANGED pub
                \/ Republish("serve")
    BY <1>2 DEF PairingTrustWrite
  <2>2. UNCHANGED registry
    BY <1>2 DEF PairingTrustWrite, ServeStep, discoveryVars
  <2>3. IsServe(srv) /\ IsWrite(w)
    BY DEF TrustInv, TrustShape
  <2>. HIDE DEF w
  <2>4. [w EXCEPT !.at = at] # NoWrite
    BY <2>1, <2>3, WriteIs
  <2>5. CASE Republish("serve")
    BY <2>2, <2>5, TaskIs, SnapRepublish
  <2>6. CASE srv' = [srv EXCEPT !.write = [w EXCEPT !.at = at]] /\ UNCHANGED pub
    <3>1. srv'.write = [w EXCEPT !.at = at]
      BY <2>3, <2>6 DEF IsServe, Has
    <3>2. Coming' /\ Has(registry', Peer)
      BY <2>2, <2>4, <3>1 DEF Coming, SnapInv
    <3>. QED
      BY <2>6, <3>2, SnapComing
  <2>. QED
    BY <2>1, <2>5, <2>6
<1>. QED
  BY <1>1, <1>2

LEMMA SnapServe ==
    ASSUME SnapInv, TrustInv,
           \/ \E p \in Peer : SetConnected(p) \/ RequestPairing(p)
           \/ \E error \in {None, "unreachable"} : SetIdle(error)
           \/ SetOwnerEpoch \/ TakeDisconnect \/ TakeConnect
           \/ TakeDecision \/ PairingTimeout
    PROVE  SnapInv'
<1>1. CASE \/ \E p \in Peer : SetConnected(p)
           \/ \E error \in {None, "unreachable"} : SetIdle(error)
           \/ SetOwnerEpoch \/ TakeDisconnect \/ TakeConnect
  <2>1. UNCHANGED registry /\ Republish("serve")
    BY <1>1 DEF SetConnected, SetIdle, SetOwnerEpoch, TakeDisconnect, TakeConnect, ReportDto, discoveryVars
  <2>. QED
    BY <2>1, TaskIs, SnapRepublish
<1>2. CASE (\E p \in Peer : RequestPairing(p)) \/ PairingTimeout
  <2>1. UNCHANGED registry /\ Republish("serve")
    BY <1>2 DEF RequestPairing, PairingTimeout, ServeStep, discoveryVars
  <2>. QED
    BY <2>1, TaskIs, SnapRepublish
<1>3. CASE TakeDecision
  <2>1. /\ UNCHANGED <<registry, changed, trustFile, dto, settings, published, step, excuse>>
        /\ srv.write = NoWrite
    BY <1>3 DEF TakeDecision, ServeStep, ServeIdle, discoveryVars
  <2>2. PICK write, b : /\ srv' = [srv EXCEPT !.write = write, !.asking = b]
                        /\ Republish("serve") \/ UNCHANGED <<prompt, pub>>
    BY <1>3 DEF TakeDecision
  <2>3. srv'.write = write
    BY <2>2 DEF TrustInv, TrustShape, IsServe, Has
  <2>4. CASE Republish("serve")
    BY <2>1, <2>4, TaskIs, SnapRepublish
  <2>5. CASE UNCHANGED <<prompt, pub>> /\ write = NoWrite
    BY <2>1, <2>3, <2>5, SnapStill DEF bridgeVars
  <2>6. CASE UNCHANGED <<prompt, pub>> /\ write # NoWrite
    <3>1. Coming' /\ Has(registry', Peer)
      BY <2>1, <2>3, <2>6 DEF Coming, SnapInv
    <3>. QED
      BY <2>6, <3>1, SnapComing
  <2>. QED
    BY <2>2, <2>4, <2>5, <2>6
<1>. QED
  BY <1>1, <1>2, <1>3

LEMMA SnapOutside ==
    ASSUME SnapInv, Restart \/ \E p \in Peer : CliTrust(p)
    PROVE  SnapInv'
<1>1. CASE Restart
  <2>1. /\ pub' = [t \in Task |-> IF t = "republish" THEN ToBuild ELSE NotPublishing]
        /\ registry' = [p \in Peer |-> Unknown]
    BY <1>1 DEF Restart, BrowseAnew
  <2>2. Has(pub', Task) /\ Has(registry', Peer)
    BY <2>1 DEF Has
  <2>3. pub'["republish"].at = "build"
    BY <2>1, TaskIs DEF ToBuild
  <2>4. PublishedIsCurrent'
    BY <2>3, TaskIs DEF PublishedIsCurrent
  <2>. QED
    BY <2>2, <2>4 DEF SnapInv
<1>2. CASE \E p \in Peer : CliTrust(p)
  <2>1. excuse' = excuse \cup {"another process"} /\ UNCHANGED <<pub, registry>>
    BY <1>2 DEF CliTrust, discoveryVars
  <2>2. Coming' /\ Has(registry', Peer)
    BY <2>1 DEF Coming, SnapInv
  <2>. QED
    BY <2>1, <2>2, SnapComing
<1>. QED
  BY <1>1, <1>2

LEMMA SnapNext == TrustInv /\ SnapInv /\ [Next]_vars => SnapInv'
<1>. SUFFICES ASSUME TrustInv, SnapInv, [Next]_vars PROVE SnapInv'
  OBVIOUS
<1>1. CASE Network
  BY <1>1, SnapNetwork
<1>2. CASE (\E t \in Task : Build(t) \/ Publish(t)) \/ RepublishLoop
  BY <1>2, SnapPublish, TaskIs
<1>3. CASE \E c \in Client : ClientMoves(c)
  BY <1>3, ClientFrame, SnapStill DEF trustVars
<1>4. CASE (\E cmd \in Command : CommandArrives(cmd)) \/ IgnoreConnect \/ TakeFileSend \/ UNCHANGED vars
  <2>1. UNCHANGED <<registry, changed, trustFile, bridgeVars, pub, published, step, excuse, srv>>
    BY <1>4 DEF CommandArrives, IgnoreConnect, TakeFileSend, vars, storeVars, discoveryVars, bridgeVars
  <2>. QED
    BY <2>1, SnapStill
<1>. QED
  BY <1>1, <1>2, <1>3, <1>4, SnapCommand, SnapWrite, SnapServe, SnapOutside, Steps

-----------------------------------------------------------------------------
(* Discovery: what the registry will hold                                  *)

Event == [kind : {"found", "removed"}, peer : Peer, addrs : SUBSET Iface, port : Nat]

\* The entry r of a peer after the event e about it.
AppliedTo(r, e) ==
    IF e.kind # "found" THEN Unknown
    ELSE IF e.addrs = {} THEN r
    ELSE [known |-> TRUE, addrs |-> e.addrs \cup r.addrs, port |-> e.port]

\* No event in q from i on about p removes it or has another port than n.
FreshFrom(p, q, i, n) == \A j \in i..Len(q) : q[j].peer = p => q[j].kind = "found" /\ q[j].port = n

\* Address a of p is in its entry r at port n, or will be once q is applied.
Arrives(p, a, q, r, n) ==
    \/ a \in r.addrs /\ r.port = n /\ FreshFrom(p, q, 1, n)
    \/ \E k \in 1..Len(q) : q[k].peer = p /\ a \in q[k].addrs /\ FreshFrom(p, q, k, n)

\* No event in q from i on lists p.
MuteFrom(p, q, i) == \A j \in i..Len(q) : q[j].peer = p => q[j].kind = "removed" \/ q[j].addrs = {}

\* The entry r of p is unknown, or will be once q is applied.
Vanishes(p, q, r) ==
    \/ ~r.known /\ MuteFrom(p, q, 1)
    \/ \E k \in 1..Len(q) : q[k].peer = p /\ q[k].kind = "removed" /\ MuteFrom(p, q, k)

\* An event in q will cause the nudge for the other family of p.
WillNudge(p, q) == \E k \in 1..Len(q) : q[k].peer = p /\ q[k].kind = "found" /\ IsSingleFamily(q[k].addrs)

\* What is owed of a machine that is up is reported, or its nudge is ahead.
Owed(p) ==
    \/ told[p] = {} \/ p \in asked \/ p \in again
    \/ Advertised(host[p].ifaces) \subseteq told[p]
    \/ p \notin nudged /\ WillNudge(p, mdns)

\* After a nudge only a full report, or a change of the machine, can follow.
Nudged(p) == p \in nudged \ (asked \cup again) => Advertised(host[p].ifaces) \subseteq told[p]

Tracks(p) ==
    /\ host[p].up => /\ \A a \in told[p] : Arrives(p, a, mdns, registry[p], host[p].port)
                     /\ Owed(p) /\ Nudged(p)
    /\ p \notin cached => Vanishes(p, mdns, registry[p])

IsHost(h) == Has(h, {"up", "ifaces", "port", "v4only"}) /\ h.ifaces \subseteq Iface /\ h.port \in Nat \ {0}

NetShape ==
    /\ Has(host, Peer) /\ Has(told, Peer) /\ Has(registry, Peer)
    /\ \A p \in Peer : IsHost(host[p]) /\ told[p] \subseteq Iface
    /\ mdns \in Seq(Event)

NetInv == NetShape /\ \A p \in Peer : Tracks(p)

LEMMA QueueTail ==
    ASSUME NEW q \in Seq(Event), q # <<>>
    PROVE  /\ Tail(q) \in Seq(Event) /\ Len(Tail(q)) = Len(q) - 1 /\ Len(q) \in Nat /\ Len(q) > 0
           /\ Head(q) = q[1] /\ Head(q) \in Event
           /\ \A j \in 1..Len(Tail(q)) : Tail(q)[j] = q[j + 1]
OBVIOUS

LEMMA FreshFirst ==
    ASSUME NEW p, NEW q \in Seq(Event), q # <<>>, NEW n, FreshFrom(p, q, 1, n)
    PROVE  FreshFrom(p, Tail(q), 1, n) /\ (q[1].peer = p => q[1].kind = "found" /\ q[1].port = n)
BY QueueTail DEF FreshFrom

LEMMA FreshTail ==
    ASSUME NEW p, NEW q \in Seq(Event), q # <<>>, NEW n, NEW i \in 1..Len(q), i > 1, FreshFrom(p, q, i, n)
    PROVE  FreshFrom(p, Tail(q), i - 1, n)
BY QueueTail DEF FreshFrom

LEMMA MergedIs ==
    ASSUME NEW r, NEW e, e.kind = "found"
    PROVE  e.addrs # {} => AppliedTo(r, e).addrs = r.addrs \cup e.addrs /\ AppliedTo(r, e).port = e.port
BY DEF AppliedTo

\* Taking the event at the head of the queue.
LEMMA ArrivesTail ==
    ASSUME NEW p, NEW a, NEW q \in Seq(Event), q # <<>>, NEW r, NEW n, Arrives(p, a, q, r, n)
    PROVE  Arrives(p, a, Tail(q), IF q[1].peer = p THEN AppliedTo(r, q[1]) ELSE r, n)
<1>. DEFINE s == IF q[1].peer = p THEN AppliedTo(r, q[1]) ELSE r
<1>0. Len(q) \in Nat /\ Len(q) > 0 /\ Len(Tail(q)) = Len(q) - 1 /\ \A j \in 1..Len(Tail(q)) : Tail(q)[j] = q[j + 1]
  BY QueueTail
<1>1. CASE a \in r.addrs /\ r.port = n /\ FreshFrom(p, q, 1, n)
  <2>1. FreshFrom(p, Tail(q), 1, n) /\ (q[1].peer = p => q[1].kind = "found" /\ q[1].port = n)
    BY <1>1, FreshFirst
  <2>2. a \in s.addrs /\ s.port = n
    <3>1. CASE s = r
      BY <1>1, <3>1
    <3>2. CASE s # r
      <4>1. q[1].peer = p /\ q[1].addrs # {} /\ s = AppliedTo(r, q[1])
        BY <2>1, <3>2 DEF AppliedTo
      <4>. HIDE DEF s
      <4>. QED
        BY <1>1, <2>1, <4>1, MergedIs
    <3>. QED
      BY <3>1, <3>2
  <2>. HIDE DEF s
  <2>3. Arrives(p, a, Tail(q), s, n)
    BY <2>1, <2>2 DEF Arrives
  <2>. QED
    BY <2>3 DEF s
<1>2. ASSUME NEW k \in 1..Len(q), q[k].peer = p, a \in q[k].addrs, FreshFrom(p, q, k, n)
      PROVE  Arrives(p, a, Tail(q), s, n)
  <2>1. CASE k = 1
    <3>1. FreshFrom(p, Tail(q), 1, n) /\ q[1].kind = "found" /\ q[1].port = n
      BY <1>2, <2>1, FreshFirst
    <3>2. a \in s.addrs /\ s.port = n
      <4>1. q[1].addrs # {} /\ s = AppliedTo(r, q[1])
        BY <1>2, <2>1
      <4>. HIDE DEF s
      <4>. QED
        BY <1>2, <2>1, <3>1, <4>1, MergedIs
    <3>. HIDE DEF s
    <3>. QED
      BY <3>1, <3>2 DEF Arrives
  <2>2. CASE k > 1
    <3>. DEFINE i == k - 1
    <3>1. i \in 1..Len(Tail(q)) /\ Tail(q)[i] = q[k]
      BY <1>0, <2>2
    <3>2. FreshFrom(p, Tail(q), i, n)
      BY <1>2, <2>2, FreshTail
    <3>. HIDE DEF i, s
    <3>. QED
      BY <1>2, <3>1, <3>2 DEF Arrives
  <2>. QED
    BY <1>0, <2>1, <2>2
<1>. QED
  BY <1>1, <1>2 DEF Arrives

LEMMA MuteFirst ==
    ASSUME NEW p, NEW q \in Seq(Event), q # <<>>, MuteFrom(p, q, 1)
    PROVE  MuteFrom(p, Tail(q), 1) /\ (q[1].peer = p => q[1].kind = "removed" \/ q[1].addrs = {})
BY QueueTail DEF MuteFrom

LEMMA MuteTail ==
    ASSUME NEW p, NEW q \in Seq(Event), q # <<>>, NEW i \in 1..Len(q), i > 1, MuteFrom(p, q, i)
    PROVE  MuteFrom(p, Tail(q), i - 1)
BY QueueTail DEF MuteFrom

LEMMA VanishesTail ==
    ASSUME NEW p, NEW q \in Seq(Event), q # <<>>, NEW r, Vanishes(p, q, r)
    PROVE  Vanishes(p, Tail(q), IF q[1].peer = p THEN AppliedTo(r, q[1]) ELSE r)
<1>. DEFINE s == IF q[1].peer = p THEN AppliedTo(r, q[1]) ELSE r
<1>0. Len(q) \in Nat /\ Len(q) > 0 /\ Len(Tail(q)) = Len(q) - 1 /\ \A j \in 1..Len(Tail(q)) : Tail(q)[j] = q[j + 1]
  BY QueueTail
<1>1. ~Unknown.known
  BY DEF Unknown
<1>2. CASE ~r.known /\ MuteFrom(p, q, 1)
  <2>1. MuteFrom(p, Tail(q), 1) /\ (q[1].peer = p => q[1].kind = "removed" \/ q[1].addrs = {})
    BY <1>2, MuteFirst
  <2>2. ~s.known
    BY <1>1, <1>2, <2>1 DEF AppliedTo
  <2>. HIDE DEF s
  <2>3. Vanishes(p, Tail(q), s)
    BY <2>1, <2>2 DEF Vanishes
  <2>. QED
    BY <2>3 DEF s
<1>3. ASSUME NEW k \in 1..Len(q), q[k].peer = p, q[k].kind = "removed", MuteFrom(p, q, k)
      PROVE  Vanishes(p, Tail(q), s)
  <2>1. CASE k = 1
    <3>1. MuteFrom(p, Tail(q), 1)
      BY <1>3, <2>1, MuteFirst
    <3>2. ~s.known
      BY <1>1, <1>3, <2>1 DEF AppliedTo
    <3>. HIDE DEF s
    <3>. QED
      BY <3>1, <3>2 DEF Vanishes
  <2>2. CASE k > 1
    <3>. DEFINE i == k - 1
    <3>1. i \in 1..Len(Tail(q)) /\ Tail(q)[i] = q[k]
      BY <1>0, <2>2
    <3>2. MuteFrom(p, Tail(q), i)
      BY <1>3, <2>2, MuteTail
    <3>. HIDE DEF i, s
    <3>. QED
      BY <1>3, <3>1, <3>2 DEF Vanishes
  <2>. QED
    BY <1>0, <2>1, <2>2
<1>. QED
  BY <1>2, <1>3 DEF Vanishes

\* A new event at the end of the queue.
LEMMA QueueAppend ==
    ASSUME NEW q \in Seq(Event), NEW e \in Event
    PROVE  /\ Append(q, e) \in Seq(Event) /\ Len(Append(q, e)) = Len(q) + 1 /\ Len(q) \in Nat
           /\ Append(q, e)[Len(q) + 1] = e
           /\ \A j \in 1..Len(q) : Append(q, e)[j] = q[j]
OBVIOUS

LEMMA ArrivesAppend ==
    ASSUME NEW p, NEW a, NEW q \in Seq(Event), NEW r, NEW n, NEW e \in Event,
           e.peer = p => e.kind = "found" /\ e.port = n,
           Arrives(p, a, q, r, n) \/ (e.peer = p /\ a \in e.addrs)
    PROVE  Arrives(p, a, Append(q, e), r, n)
<1>. DEFINE w == Append(q, e)
<1>0. /\ w \in Seq(Event) /\ Len(w) = Len(q) + 1 /\ Len(q) \in Nat /\ w[Len(q) + 1] = e
      /\ \A j \in 1..Len(q) : w[j] = q[j]
  BY QueueAppend
<1>. HIDE DEF w
<1>1. ASSUME NEW i \in 1..(Len(q) + 1), FreshFrom(p, q, i, n) PROVE FreshFrom(p, w, i, n)
  BY <1>0, <1>1 DEF FreshFrom
<1>2. CASE a \in r.addrs /\ r.port = n /\ FreshFrom(p, q, 1, n)
  BY <1>0, <1>1, <1>2 DEF Arrives, w
<1>3. ASSUME NEW k \in 1..Len(q), q[k].peer = p, a \in q[k].addrs, FreshFrom(p, q, k, n)
      PROVE  Arrives(p, a, w, r, n)
  <2>1. k \in 1..Len(w) /\ w[k] = q[k] /\ FreshFrom(p, w, k, n)
    BY <1>0, <1>1, <1>3
  <2>. QED
    BY <1>3, <2>1 DEF Arrives
<1>4. CASE e.peer = p /\ a \in e.addrs
  <2>. DEFINE k == Len(q) + 1
  <2>1. FreshFrom(p, q, k, n) /\ k \in 1..Len(w) /\ w[k] = e
    BY <1>0 DEF FreshFrom
  <2>2. FreshFrom(p, w, k, n)
    BY <1>0, <1>1, <2>1
  <2>. HIDE DEF k
  <2>. QED
    BY <1>4, <2>1, <2>2 DEF Arrives, w
<1>. QED
  BY <1>2, <1>3, <1>4 DEF Arrives, w

LEMMA VanishesAppend ==
    ASSUME NEW p, NEW q \in Seq(Event), NEW r, NEW e \in Event,
           (Vanishes(p, q, r) /\ e.peer # p) \/ (e.peer = p /\ e.kind = "removed")
    PROVE  Vanishes(p, Append(q, e), r)
<1>. DEFINE w == Append(q, e)
<1>0. /\ w \in Seq(Event) /\ Len(w) = Len(q) + 1 /\ Len(q) \in Nat /\ w[Len(q) + 1] = e
      /\ \A j \in 1..Len(q) : w[j] = q[j]
  BY QueueAppend
<1>. HIDE DEF w
<1>1. ASSUME NEW i \in 1..(Len(q) + 1), MuteFrom(p, q, i) PROVE MuteFrom(p, w, i)
  BY <1>0, <1>1 DEF MuteFrom
<1>2. CASE ~r.known /\ MuteFrom(p, q, 1)
  BY <1>0, <1>1, <1>2 DEF Vanishes, w
<1>3. ASSUME NEW k \in 1..Len(q), q[k].peer = p, q[k].kind = "removed", MuteFrom(p, q, k)
      PROVE  Vanishes(p, w, r)
  <2>1. k \in 1..Len(w) /\ w[k] = q[k] /\ MuteFrom(p, w, k)
    BY <1>0, <1>1, <1>3
  <2>. QED
    BY <1>3, <2>1 DEF Vanishes
<1>4. CASE e.peer = p /\ e.kind = "removed"
  <2>. DEFINE k == Len(q) + 1
  <2>1. MuteFrom(p, q, k) /\ k \in 1..Len(w) /\ w[k] = e
    BY <1>0 DEF MuteFrom
  <2>2. MuteFrom(p, w, k)
    BY <1>0, <1>1, <2>1
  <2>. HIDE DEF k
  <2>. QED
    BY <1>4, <2>1, <2>2 DEF Vanishes, w
<1>. QED
  BY <1>2, <1>3, <1>4 DEF Vanishes, w

LEMMA NudgeAppend ==
    ASSUME NEW p, NEW q \in Seq(Event), NEW e \in Event,
           WillNudge(p, q) \/ (e.peer = p /\ e.kind = "found" /\ IsSingleFamily(e.addrs))
    PROVE  WillNudge(p, Append(q, e))
<1>. DEFINE w == Append(q, e)
<1>0. /\ Len(w) = Len(q) + 1 /\ Len(q) \in Nat /\ w[Len(q) + 1] = e
      /\ \A j \in 1..Len(q) : w[j] = q[j]
  BY QueueAppend
<1>. HIDE DEF w
<1>1. CASE WillNudge(p, q)
  BY <1>0, <1>1 DEF WillNudge, w
<1>2. CASE e.peer = p /\ e.kind = "found" /\ IsSingleFamily(e.addrs)
  <2>. DEFINE k == Len(q) + 1
  <2>1. k \in 1..Len(w) /\ w[k] = e
    BY <1>0
  <2>. HIDE DEF k
  <2>. QED
    BY <1>2, <2>1 DEF WillNudge, w
<1>. QED
  BY <1>1, <1>2

LEMMA NudgeTail ==
    ASSUME NEW p, NEW q \in Seq(Event), q # <<>>, WillNudge(p, q)
    PROVE  WillNudge(p, Tail(q)) \/ (q[1].peer = p /\ q[1].kind = "found" /\ IsSingleFamily(q[1].addrs))
<1>1. PICK k \in 1..Len(q) : q[k].peer = p /\ q[k].kind = "found" /\ IsSingleFamily(q[k].addrs)
  BY DEF WillNudge
<1>2. Len(q) \in Nat /\ Len(Tail(q)) = Len(q) - 1 /\ \A j \in 1..Len(Tail(q)) : Tail(q)[j] = q[j + 1]
  BY QueueTail
<1>3. CASE k > 1
  <2>. DEFINE i == k - 1
  <2>1. i \in 1..Len(Tail(q)) /\ Tail(q)[i] = q[k]
    BY <1>2, <1>3
  <2>. HIDE DEF i
  <2>. QED
    BY <1>1, <2>1 DEF WillNudge
<1>4. CASE k = 1
  BY <1>1, <1>4
<1>. QED
  BY <1>2, <1>3, <1>4

\* A resolution reports nothing, everything, or a single family.
LEMMA FamiliesAre ==
    ASSUME NEW adv, NEW sixes \in SUBSET BOOLEAN
    PROVE  LET addrs == UNION {Family(adv, six) : six \in sixes} IN
           /\ addrs \subseteq adv
           /\ addrs = {} \/ addrs = adv \/ IsSingleFamily(addrs)
<1>. DEFINE addrs == UNION {Family(adv, six) : six \in sixes}
<1>1. \A a : a \in addrs <=> a \in adv /\ (\E six \in sixes : IsIpv6(a) = six)
  BY DEF Family
<1>2. \A a : IsIpv6(a) \in BOOLEAN
  BY DEF IsIpv6
<1>. HIDE DEF addrs
<1>3. ASSUME \E a \in addrs : IsIpv6(a), \E a \in addrs : ~IsIpv6(a) PROVE addrs = adv
  <2>1. TRUE \in sixes
    BY <1>1, <1>2, <1>3
  <2>2. FALSE \in sixes
    BY <1>1, <1>2, <1>3
  <2>. QED
    BY <1>1, <1>2, <2>1, <2>2
<1>4. addrs = {} \/ addrs = adv \/ IsSingleFamily(addrs)
  BY <1>3 DEF IsSingleFamily
<1>. QED
  BY <1>1, <1>4 DEF addrs

LEMMA AdvertisedIs ==
    ASSUME NEW ifaces
    PROVE  Advertised(ifaces) \subseteq ifaces
BY DEF Advertised

\* What another machine does leaves this one's records alone.
LEMMA OtherTracks ==
    ASSUME NetInv, NEW q \in Peer, host'[q] = host[q], told'[q] = told[q], registry'[q] = registry[q],
           q \in cached => q \in cached', q \in asked' <=> q \in asked, q \in again' <=> q \in again,
           q \in nudged' <=> q \in nudged,
           mdns' = mdns \/ \E e \in Event : mdns' = Append(mdns, e) /\ e.peer # q
    PROVE  Tracks(q)'
<1>1. Tracks(q) /\ mdns \in Seq(Event)
  BY DEF NetInv, NetShape
<1>2. \A a : Arrives(q, a, mdns, registry[q], host[q].port) => Arrives(q, a, mdns', registry[q], host[q].port)
  BY <1>1, ArrivesAppend
<1>3. Vanishes(q, mdns, registry[q]) => Vanishes(q, mdns', registry[q])
  BY <1>1, VanishesAppend
<1>4. WillNudge(q, mdns) => WillNudge(q, mdns')
  BY <1>1, NudgeAppend
<1>. QED
  BY <1>1, <1>2, <1>3, <1>4 DEF Tracks, Owed, Nudged

\* The machine's records after a report of some of its addresses.
LEMMA ReportTracks ==
    ASSUME NetInv, NEW p \in Peer, NEW addrs, Report(p, addrs), host[p].up,
           addrs \subseteq Advertised(host[p].ifaces),
           \/ addrs = Advertised(host[p].ifaces) /\ asked' \in {asked, asked \ {p}}
           \/ (addrs = {} \/ IsSingleFamily(addrs)) /\ asked' = asked
    PROVE  Tracks(p)'
<1>. DEFINE e == Found(p, addrs)
            adv == Advertised(host[p].ifaces)
<1>1. Tracks(p) /\ mdns \in Seq(Event) /\ IsHost(host[p]) /\ Has(told, Peer)
  BY DEF NetInv, NetShape
<1>2. /\ mdns' = Append(mdns, e) /\ cached' = cached \cup {p}
      /\ told'[p] = told[p] \cup addrs /\ UNCHANGED <<host, nudged, registry, again>>
  BY <1>1 DEF Report, Has
<1>3. e \in Event /\ e.peer = p /\ e.kind = "found" /\ e.port = host[p].port /\ e.addrs = addrs
  <2>1. adv \subseteq Iface
    BY <1>1, AdvertisedIs DEF IsHost
  <2>2. host[p].port \in Nat
    BY <1>1 DEF IsHost
  <2>. QED
    BY <2>1, <2>2 DEF Found, Event
<1>. HIDE DEF e
<1>4. ASSUME NEW a \in told'[p] PROVE Arrives(p, a, mdns', registry'[p], host'[p].port)
  <2>1. Arrives(p, a, mdns, registry[p], host[p].port) \/ a \in e.addrs
    BY <1>1, <1>2, <1>3 DEF Tracks
  <2>. QED
    BY <1>1, <1>2, <1>3, <2>1, ArrivesAppend
<1>5. Owed(p) /\ Nudged(p)
  BY <1>1 DEF Tracks
<1>6. WillNudge(p, mdns) => WillNudge(p, mdns')
  BY <1>1, <1>2, <1>3, NudgeAppend
<1>7. CASE addrs = adv /\ asked' \in {asked, asked \ {p}}
  <2>1. Owed(p)' /\ Nudged(p)'
    BY <1>2, <1>7 DEF Owed, Nudged
  <2>. QED
    BY <1>2, <1>4, <2>1 DEF Tracks
<1>8. CASE (addrs = {} \/ IsSingleFamily(addrs)) /\ asked' = asked
  <2>1. Nudged(p)'
    BY <1>2, <1>5, <1>8 DEF Nudged
  <2>2. CASE addrs = {}
    <3>1. told'[p] = told[p]
      BY <1>2, <2>2
    <3>2. Owed(p)'
      BY <1>2, <1>5, <1>6, <1>8, <3>1 DEF Owed
    <3>. QED
      BY <1>2, <1>4, <2>1, <3>2 DEF Tracks
  <2>3. CASE IsSingleFamily(addrs)
    <3>1. WillNudge(p, mdns')
      BY <1>1, <1>2, <1>3, <2>3, NudgeAppend
    <3>2. Owed(p)'
      BY <1>2, <2>1, <3>1 DEF Owed, Nudged
    <3>. QED
      BY <1>2, <1>4, <2>1, <3>2 DEF Tracks
  <2>. QED
    BY <1>8, <2>2, <2>3
<1>. QED
  BY <1>7, <1>8

LEMMA ReportStep ==
    ASSUME NetInv, NEW p \in Peer, NEW addrs, Report(p, addrs), host[p].up,
           addrs \subseteq Advertised(host[p].ifaces),
           \/ addrs = Advertised(host[p].ifaces) /\ asked' \in {asked, asked \ {p}}
           \/ (addrs = {} \/ IsSingleFamily(addrs)) /\ asked' = asked
    PROVE  NetInv'
<1>. DEFINE e == Found(p, addrs)
<1>1. /\ mdns \in Seq(Event) /\ IsHost(host[p]) /\ Has(told, Peer) /\ Has(host, Peer) /\ Has(registry, Peer)
      /\ \A q \in Peer : IsHost(host[q]) /\ told[q] \subseteq Iface
  BY DEF NetInv, NetShape
<1>2. /\ mdns' = Append(mdns, e) /\ cached' = cached \cup {p}
      /\ told' = [told EXCEPT ![p] = @ \cup addrs] /\ UNCHANGED <<host, nudged, registry, again>>
  BY DEF Report
<1>3. addrs \subseteq Iface
  BY <1>1, AdvertisedIs DEF IsHost
<1>4. e \in Event /\ e.peer = p
  <2>1. host[p].port \in Nat
    BY <1>1 DEF IsHost
  <2>. QED
    BY <1>3, <2>1 DEF Found, Event
<1>. HIDE DEF e
<1>5. Has(told', Peer) /\ \A q \in Peer : told'[q] = IF q = p THEN told[q] \cup addrs ELSE told[q]
  BY <1>1, <1>2 DEF Has
<1>6. NetShape'
  BY <1>1, <1>2, <1>3, <1>4, <1>5, QueueAppend DEF NetShape
<1>7. ASSUME NEW q \in Peer PROVE Tracks(q)'
  <2>1. CASE q = p
    BY <2>1, ReportTracks
  <2>2. CASE q # p
    <3>1. told'[q] = told[q] /\ (q \in asked' <=> q \in asked)
      BY <1>5, <2>2
    <3>. QED
      BY <1>2, <1>4, <2>2, <3>1, OtherTracks
  <2>. QED
    BY <2>1, <2>2
<1>. QED
  BY <1>6, <1>7 DEF NetInv

LEMMA ResolveStep ==
    ASSUME NetInv, NEW p \in Peer, NEW sixes \in SUBSET BOOLEAN, Resolve(p, sixes)
    PROVE  NetInv'
<1>. DEFINE adv == Advertised(host[p].ifaces)
            addrs == UNION {Family(adv, six) : six \in sixes}
<1>1. host[p].up /\ Report(p, addrs) /\ asked' = asked
  BY DEF Resolve
<1>2. addrs \subseteq adv /\ (addrs = {} \/ addrs = adv \/ IsSingleFamily(addrs))
  BY FamiliesAre
<1>. HIDE DEF addrs
<1>. QED
  BY <1>1, <1>2, ReportStep

LEMMA NudgeStep ==
    ASSUME NetInv, NEW p \in Peer, NudgeAnswered(p)
    PROVE  NetInv'
<1>1. CASE host[p].up
  <2>1. Report(p, Advertised(host[p].ifaces)) /\ asked' = asked \ {p}
    BY <1>1 DEF NudgeAnswered
  <2>. QED
    BY <1>1, <2>1, ReportStep
<1>2. CASE ~host[p].up
  <2>1. asked' = asked \ {p} /\ UNCHANGED <<mdns, cached, told, host, nudged, registry, again>>
    BY <1>2 DEF NudgeAnswered
  <2>2. NetShape'
    BY <2>1 DEF NetInv, NetShape
  <2>3. ASSUME NEW q \in Peer PROVE Tracks(q)'
    <3>1. CASE q = p
      BY <1>2, <2>1, <3>1 DEF NetInv, Tracks
    <3>2. CASE q # p
      BY <2>1, <3>2, OtherTracks
    <3>. QED
      BY <3>1, <3>2
  <2>. QED
    BY <2>2, <2>3 DEF NetInv
<1>. QED
  BY <1>1, <1>2

\* A machine that starts, moves, leaves or crashes: what was reported of it is
\* about an earlier machine, and a goodbye follows what was known of it.
LEMMA ChangeStep ==
    ASSUME NetInv, NEW p \in Peer, NEW h, IsHost(h), host' = [host EXCEPT ![p] = h], Changes(p),
           UNCHANGED <<asked, nudged, registry>>,
           \/ UNCHANGED <<cached, mdns>>
           \/ cached' = cached \ {p} /\ mdns' = Append(mdns, Removed(p))
    PROVE  NetInv'
<1>1. /\ mdns \in Seq(Event) /\ Has(told, Peer) /\ Has(host, Peer) /\ Has(registry, Peer)
      /\ \A q \in Peer : IsHost(host[q]) /\ told[q] \subseteq Iface
  BY DEF NetInv, NetShape
<1>2. /\ told' = [told EXCEPT ![p] = {}]
      /\ again' = IF p \in nudged \ asked THEN again \cup {p} ELSE again
  BY DEF Changes
<1>3. Has(told', Peer) /\ Has(host', Peer) /\ told'[p] = {} /\ host'[p] = h
  BY <1>1, <1>2 DEF Has
<1>4. \A q \in Peer \ {p} : told'[q] = told[q] /\ host'[q] = host[q]
  BY <1>1, <1>2 DEF Has
<1>5. Removed(p) \in Event /\ Removed(p).peer = p /\ Removed(p).kind = "removed"
  BY DEF Removed, Event
<1>6. mdns' \in Seq(Event)
  BY <1>1, <1>5
<1>7. NetShape'
  BY <1>1, <1>3, <1>4, <1>6 DEF NetShape
<1>8. Tracks(p)'
  <2>1. Owed(p)' /\ Nudged(p)'
    BY <1>2, <1>3 DEF Owed, Nudged
  <2>2. p \notin cached' => Vanishes(p, mdns', registry'[p])
    <3>1. CASE UNCHANGED <<cached, mdns>>
      BY <3>1 DEF NetInv, Tracks
    <3>2. CASE mdns' = Append(mdns, Removed(p))
      BY <1>1, <1>5, <3>2, VanishesAppend
    <3>. QED
      BY <3>1, <3>2
  <2>. QED
    BY <1>3, <2>1, <2>2 DEF Tracks
<1>9. ASSUME NEW q \in Peer, q # p PROVE Tracks(q)'
  <2>1. mdns' = mdns \/ \E e \in Event : mdns' = Append(mdns, e) /\ e.peer # q
    BY <1>5, <1>9
  <2>2. (q \in cached => q \in cached') /\ (q \in again' <=> q \in again)
    BY <1>2, <1>9
  <2>. QED
    BY <1>4, <1>9, <2>1, <2>2, OtherTracks
<1>. QED
  BY <1>7, <1>8, <1>9 DEF NetInv

LEMMA NetEventStep ==
    ASSUME NetInv, NEW p \in Peer, NetEvent(p)
    PROVE  NetInv'
<1>1. IsHost(host[p])
  BY DEF NetInv, NetShape
<1>2. CASE \E sixes \in SUBSET BOOLEAN : Resolve(p, sixes)
  BY <1>2, ResolveStep
<1>3. ASSUME NEW ifaces \in HostIfaces, NEW v4only \in BOOLEAN, HostStarts(p, ifaces, v4only)
      PROVE  NetInv'
  <2>. DEFINE h == [up |-> TRUE, ifaces |-> ifaces, port |-> host[p].port + 1, v4only |-> v4only]
  <2>1. IsHost(h)
    <3>1. ifaces \subseteq Iface /\ host[p].port + 1 \in Nat \ {0}
      BY <1>1, IfacesAreKnown DEF IsHost
    <3>. QED
      BY <3>1 DEF IsHost, Has
  <2>2. /\ host' = [host EXCEPT ![p] = h] /\ Changes(p)
        /\ UNCHANGED <<asked, nudged, registry, cached, mdns>>
    BY <1>3 DEF HostStarts
  <2>. HIDE DEF h
  <2>. QED
    BY <2>1, <2>2, ChangeStep
<1>4. CASE HostMoves(p)
  <2>. DEFINE h == [host[p] EXCEPT !.ifaces = (@ \ {"lan4"}) \cup {"moved4"}]
  <2>1. IsHost(h)
    BY <1>1 DEF IsHost, Has, Iface
  <2>2. /\ host' = [host EXCEPT ![p] = h] /\ Changes(p)
        /\ UNCHANGED <<asked, nudged, registry, cached, mdns>>
    BY <1>4 DEF HostMoves
  <2>. HIDE DEF h
  <2>. QED
    BY <2>1, <2>2, ChangeStep
<1>5. CASE HostLeaves(p) \/ HostCrashes(p)
  <2>. DEFINE h == [host[p] EXCEPT !.up = FALSE]
  <2>1. IsHost(h)
    BY <1>1 DEF IsHost, Has
  <2>2. host' = [host EXCEPT ![p] = h] /\ Changes(p) /\ UNCHANGED <<asked, nudged, registry>>
    BY <1>5 DEF HostLeaves, HostCrashes
  <2>3. \/ UNCHANGED <<cached, mdns>>
        \/ cached' = cached \ {p} /\ mdns' = Append(mdns, Removed(p))
    <3>1. CASE p \notin cached
      <4>1. cached \ {p} = cached
        BY <3>1
      <4>. QED
        BY <1>5, <3>1, <4>1 DEF HostLeaves, HostCrashes
    <3>2. CASE p \in cached
      BY <1>5, <3>2 DEF HostLeaves, HostCrashes
    <3>. QED
      BY <3>1, <3>2
  <2>. HIDE DEF h
  <2>. QED
    BY <2>1, <2>2, <2>3, ChangeStep
<1>. QED
  BY <1>2, <1>3, <1>4, <1>5 DEF NetEvent

LEMMA ExpireStep ==
    ASSUME NetInv, NEW p \in Peer, Expire(p)
    PROVE  NetInv'
<1>1. /\ told[p] = {} /\ cached' = cached \ {p} /\ mdns' = Append(mdns, Removed(p))
      /\ UNCHANGED <<host, asked, nudged, registry, told, again>>
  BY DEF Expire
<1>2. Removed(p) \in Event /\ Removed(p).peer = p /\ Removed(p).kind = "removed"
  BY DEF Removed, Event
<1>3. mdns \in Seq(Event) /\ Tracks(p)
  BY DEF NetInv, NetShape
<1>4. NetShape'
  BY <1>1, <1>2, <1>3 DEF NetInv, NetShape
<1>5. Tracks(p)'
  <2>1. Vanishes(p, mdns', registry'[p])
    BY <1>1, <1>2, <1>3, VanishesAppend
  <2>2. Owed(p)' /\ (Nudged(p) => Nudged(p)')
    BY <1>1 DEF Owed, Nudged
  <2>. QED
    BY <1>1, <1>3, <2>1, <2>2 DEF Tracks
<1>6. ASSUME NEW q \in Peer, q # p PROVE Tracks(q)'
  <2>1. \E e \in Event : mdns' = Append(mdns, e) /\ e.peer # q
    BY <1>1, <1>2, <1>6
  <2>2. q \in cached => q \in cached'
    BY <1>1, <1>6
  <2>. QED
    BY <1>1, <1>6, <2>1, <2>2, OtherTracks
<1>. QED
  BY <1>4, <1>5, <1>6 DEF NetInv

\* One turn of the registry, for every peer.
LEMMA TurnIs ==
    ASSUME NetShape, RunRegistry
    PROVE  /\ mdns # <<>> /\ mdns' = Tail(mdns) /\ mdns[1] \in Event
           /\ UNCHANGED <<host, cached, told, again>> /\ Has(registry', Peer)
           /\ \A p \in Peer : registry'[p] = IF mdns[1].peer = p THEN AppliedTo(registry[p], mdns[1]) ELSE registry[p]
           /\ nudged \subseteq nudged' /\ asked \subseteq asked' /\ nudged' \ nudged \subseteq asked'
           /\ \/ UNCHANGED <<nudged, asked>>
              \/ mdns[1].peer \in asked' /\ nudged' = nudged \cup {mdns[1].peer} /\ asked' = asked \cup {mdns[1].peer}
           /\ mdns[1].kind = "found" /\ IsSingleFamily(mdns[1].addrs) => mdns[1].peer \in nudged'
<1>1. mdns # <<>> /\ mdns' = Tail(mdns) /\ UNCHANGED <<host, cached, told, again>>
  BY DEF RunRegistry
<1>2. PICK e \in Event : e = mdns[1] /\ e = Head(mdns)
  BY <1>1, QueueTail DEF NetShape
<1>3. e.peer \in Peer /\ Has(registry, Peer)
  BY DEF NetShape, Event
<1>4. CASE e.kind = "found" /\ e.addrs = {}
  <2>1. UNCHANGED <<nudged, asked, registry>>
    BY <1>2, <1>4 DEF RunRegistry
  <2>2. ~IsSingleFamily(e.addrs)
    BY <1>4 DEF IsSingleFamily
  <2>3. \A p \in Peer : registry'[p] = IF e.peer = p THEN AppliedTo(registry[p], e) ELSE registry[p]
    BY <1>4, <2>1 DEF AppliedTo
  <2>. QED
    BY <1>1, <1>2, <1>3, <2>1, <2>2, <2>3
<1>5. CASE ~(e.kind = "found" /\ e.addrs = {})
  <2>1. Apply(e) /\ NudgeOtherFamily(e)
    BY <1>2, <1>5 DEF RunRegistry
  <2>2. registry' = [registry EXCEPT ![e.peer] = IF e.kind = "found" THEN Merged(e.peer, e) ELSE Unknown]
    BY <2>1 DEF Apply
  <2>3. \A p \in Peer : registry'[p] = IF e.peer = p THEN AppliedTo(registry[p], e) ELSE registry[p]
    BY <1>3, <1>5, <2>2 DEF AppliedTo, Merged, Has
  <2>4. Has(registry', Peer)
    BY <1>3, <2>2 DEF Has
  <2>5. /\ nudged \subseteq nudged' /\ asked \subseteq asked' /\ nudged' \ nudged \subseteq asked'
        /\ \/ UNCHANGED <<nudged, asked>>
           \/ e.peer \in asked' /\ nudged' = nudged \cup {e.peer} /\ asked' = asked \cup {e.peer}
        /\ e.kind = "found" /\ IsSingleFamily(e.addrs) => e.peer \in nudged'
    BY <2>1 DEF NudgeOtherFamily
  <2>. QED
    BY <1>1, <1>2, <2>3, <2>4, <2>5
<1>. QED
  BY <1>4, <1>5

LEMMA RegistryTurn ==
    ASSUME NetInv, RunRegistry
    PROVE  NetInv'
<1>1. NetShape /\ mdns \in Seq(Event)
  BY DEF NetInv, NetShape
<1>2. /\ mdns # <<>> /\ mdns' = Tail(mdns) /\ mdns[1] \in Event
      /\ UNCHANGED <<host, cached, told, again>> /\ Has(registry', Peer)
      /\ \A p \in Peer : registry'[p] = IF mdns[1].peer = p THEN AppliedTo(registry[p], mdns[1]) ELSE registry[p]
  BY <1>1, TurnIs
<1>3. nudged \subseteq nudged' /\ asked \subseteq asked' /\ nudged' \ nudged \subseteq asked'
  BY <1>1, TurnIs
<1>4. mdns[1].kind = "found" /\ IsSingleFamily(mdns[1].addrs) => mdns[1].peer \in nudged'
  BY <1>1, TurnIs
<1>5. NetShape'
  BY <1>1, <1>2 DEF NetShape
<1>6. ASSUME NEW p \in Peer PROVE Tracks(p)'
  <2>1. Tracks(p)
    BY DEF NetInv
  <2>2. PICK r : r = IF mdns[1].peer = p THEN AppliedTo(registry[p], mdns[1]) ELSE registry[p]
    OBVIOUS
  <2>3. registry'[p] = r
    BY <1>2, <2>2
  <2>4. \A a : Arrives(p, a, mdns, registry[p], host[p].port) => Arrives(p, a, mdns', r, host[p].port)
    BY <1>1, <1>2, <2>2, ArrivesTail
  <2>5. Vanishes(p, mdns, registry[p]) => Vanishes(p, mdns', r)
    BY <1>1, <1>2, <2>2, VanishesTail
  <2>6. Nudged(p) => Nudged(p)'
    BY <1>2, <1>3 DEF Nudged
  <2>7. WillNudge(p, mdns) => WillNudge(p, mdns') \/ p \in nudged'
    <3>1. WillNudge(p, mdns) => \/ WillNudge(p, Tail(mdns))
                                \/ (mdns[1].peer = p /\ mdns[1].kind = "found" /\ IsSingleFamily(mdns[1].addrs))
      BY <1>1, <1>2, NudgeTail
    <3>. QED
      BY <1>2, <1>4, <3>1
  <2>8. Owed(p) => Owed(p)'
    BY <1>2, <1>3, <2>7 DEF Owed
  <2>. QED
    BY <1>2, <2>1, <2>3, <2>4, <2>5, <2>6, <2>8 DEF Tracks
<1>. QED
  BY <1>5, <1>6 DEF NetInv

LEMMA AnewStep ==
    ASSUME NetInv, BrowseAnew
    PROVE  NetInv'
<1>1. /\ cached' = {} /\ nudged' = {} /\ asked' = {} /\ again' = {} /\ mdns' = <<>> /\ UNCHANGED host
      /\ registry' = [p \in Peer |-> Unknown] /\ told' = [p \in Peer |-> {}]
  BY DEF BrowseAnew
<1>2. Has(registry', Peer) /\ Has(told', Peer) /\ \A p \in Peer : told'[p] = {} /\ registry'[p] = Unknown
  BY <1>1 DEF Has
<1>3. mdns' \in Seq(Event) /\ Len(mdns') = 0
  BY <1>1
<1>4. NetShape'
  BY <1>1, <1>2, <1>3 DEF NetInv, NetShape
<1>5. ASSUME NEW p \in Peer PROVE Tracks(p)'
  <2>1. ~registry'[p].known
    BY <1>2 DEF Unknown
  <2>2. Vanishes(p, mdns', registry'[p])
    BY <1>3, <2>1 DEF Vanishes, MuteFrom
  <2>3. Owed(p)' /\ Nudged(p)'
    BY <1>1, <1>2 DEF Owed, Nudged
  <2>. QED
    BY <1>2, <2>2, <2>3 DEF Tracks
<1>. QED
  BY <1>4, <1>5 DEF NetInv

\* The machines an instance lets roam are among its peers.
RoamInv == "roaming" \in DOMAIN left /\ left.roaming \subseteq Peer

LEMMA RoamStill ==
    ASSUME RoamInv, left' = left \/ \E kind : kind # "roaming" /\ Spend(kind)
    PROVE  RoamInv'
<1>1. CASE left' = left
  BY <1>1 DEF RoamInv
<1>2. ASSUME NEW kind, kind # "roaming", Spend(kind) PROVE RoamInv'
  BY <1>2 DEF RoamInv, Spend
<1>. QED
  BY <1>1, <1>2

LEMMA NetStill ==
    ASSUME NetInv, UNCHANGED <<networkVars, registry>>
    PROVE  NetInv'
<1>1. UNCHANGED <<host, cached, mdns, asked, nudged, told, again, registry>>
  BY DEF networkVars
<1>2. NetShape'
  BY <1>1 DEF NetInv, NetShape
<1>3. ASSUME NEW p \in Peer PROVE Tracks(p)'
  BY <1>1, OtherTracks
<1>. QED
  BY <1>2, <1>3 DEF NetInv

LEMMA NetNext == RoamInv /\ NetInv /\ [Next]_vars => RoamInv' /\ NetInv'
<1>. SUFFICES ASSUME RoamInv, NetInv, [Next]_vars PROVE RoamInv' /\ NetInv'
  OBVIOUS
<1>1. ASSUME UNCHANGED <<networkVars, registry>>, left' = left \/ \E kind : kind # "roaming" /\ Spend(kind)
      PROVE  RoamInv' /\ NetInv'
  BY <1>1, NetStill, RoamStill
<1>2. CASE Network
  <2>1. CASE \E p \in left.roaming : Spend("net") /\ NetEvent(p)
    <3>1. PICK p \in Peer : Spend("net") /\ NetEvent(p)
      BY <2>1 DEF RoamInv
    <3>. QED
      BY <3>1, NetEventStep, RoamStill
  <2>2. CASE RunRegistry /\ UNCHANGED left
    BY <2>2, RegistryTurn, RoamStill
  <2>3. CASE \E p \in Peer : (NudgeAnswered(p) \/ Expire(p)) /\ UNCHANGED left
    BY <2>3, NudgeStep, ExpireStep, RoamStill
  <2>. QED
    BY <1>2, <2>1, <2>2, <2>3 DEF Network
<1>3. CASE Restart
  <2>1. BrowseAnew /\ Spend("crashes")
    BY <1>3 DEF Restart
  <2>. QED
    BY <2>1, AnewStep, RoamStill
<1>4. CASE (\E t \in Task : Build(t) \/ Publish(t)) \/ RepublishLoop \/ UNCHANGED vars
  BY <1>1, <1>4 DEF Build, Publish, RepublishLoop, vars, discoveryVars
<1>5. CASE \E c \in Client : ClientMoves(c)
  <2>1. PICK c \in Client : ClientMoves(c)
    BY <1>5
  <2>2. CASE \E cmd \in Command : ClientConnect(c, cmd)
    BY <1>1, <2>2 DEF ClientConnect, ClientStep, discoveryVars
  <2>3. CASE ClientSend(c) \/ ClientRead(c) \/ ClientClose(c) \/ ClientForget(c)
    <3>1. (\E new : ClientStep(c, new)) /\ UNCHANGED left
      BY <2>3 DEF ClientSend, ClientRead, ClientClose, ClientForget
    <3>. QED
      BY <1>1, <3>1 DEF ClientStep, discoveryVars
  <2>4. CASE Accept(c) \/ InitialSnapshot(c) \/ SelectLoop(c) \/ WriteSnapshot(c) \/ Forward(c)
    <3>1. (\E new : ClientStep(c, new)) /\ UNCHANGED left
      BY <2>4 DEF Accept, InitialSnapshot, SelectLoop, WriteSnapshot, Forward
    <3>. QED
      BY <1>1, <3>1 DEF ClientStep, discoveryVars
  <2>. QED
    BY <2>1, <2>2, <2>3, <2>4 DEF ClientMoves
<1>6. CASE \E cmd \in Command : CommandArrives(cmd)
  BY <1>1, <1>6 DEF CommandArrives, discoveryVars
<1>7. CASE \/ CommandConnect \/ CommandDisconnect \/ CommandSendFiles \/ CommandUpdateSettings
           \/ \E op \in {"approve", "deny"} : CommandDecide(op)
           \/ CommandRefresh \/ CommandTrust
           \/ \E outcome \in {"ok", "partly", "failed"} : CommandReset(outcome)
  <2>1. PICK op : Take(op)
    BY <1>7 DEF CommandConnect, CommandDisconnect, CommandSendFiles, CommandUpdateSettings,
                CommandDecide, CommandRefresh, CommandTrust, CommandReset
  <2>. QED
    BY <1>1, <2>1 DEF Take, discoveryVars
<1>8. CASE \/ \E p \in Peer : SetConnected(p)
           \/ \E error \in {None, "unreachable"} : SetIdle(error)
           \/ SetOwnerEpoch \/ TakeDisconnect \/ TakeConnect
  BY <1>1, <1>8 DEF SetConnected, SetIdle, SetOwnerEpoch, TakeDisconnect, TakeConnect, ReportDto, discoveryVars
<1>9. CASE CommandTrustWrite \/ IgnoreConnect \/ TakeFileSend \/ \E p \in Peer : CliTrust(p)
  BY <1>1, <1>9 DEF CommandTrustWrite, IgnoreConnect, TakeFileSend, CliTrust, discoveryVars
<1>10. CASE (\E p \in Peer : RequestPairing(p)) \/ TakeDecision \/ PairingTrustWrite \/ PairingTimeout
  BY <1>1, <1>10 DEF RequestPairing, TakeDecision, PairingTrustWrite, PairingTimeout, ServeStep, discoveryVars
<1>. QED
  BY <1>2, <1>3, <1>4, <1>5, <1>6, <1>7, <1>8, <1>9, <1>10, Steps

LEMMA NetInit == Init => RoamInv /\ NetInv
<1>. SUFFICES ASSUME Init PROVE RoamInv /\ NetInv
  OBVIOUS
<1>1. RoamInv /\ left.visible \subseteq Peer
  BY BoundsAreOfPeers DEF Init, RoamInv
<1>2. PICK visible : visible = left.visible
  OBVIOUS
<1>3. /\ host = [p \in Peer |-> [up |-> TRUE, ifaces |-> {"lan4"}, port |-> 1, v4only |-> FALSE]]
      /\ cached = visible /\ nudged = visible
      /\ told = [p \in Peer |-> IF p \in visible THEN {"lan4"} ELSE {}]
      /\ registry = [p \in Peer |-> IF p \in visible
                       THEN [known |-> TRUE, addrs |-> {"lan4"}, port |-> 1] ELSE Unknown]
      /\ mdns = <<>>
  BY <1>2 DEF Init, DiscoveryInit
<1>4. Has(host, Peer) /\ Has(told, Peer) /\ Has(registry, Peer)
  BY <1>3 DEF Has
<1>5. mdns \in Seq(Event) /\ Len(mdns) = 0
  BY <1>3
<1>6. ASSUME NEW p \in Peer
      PROVE  IsHost(host[p]) /\ told[p] \subseteq Iface /\ Tracks(p)
  <2>1. IsHost(host[p]) /\ host[p].port = 1 /\ host[p].ifaces = {"lan4"}
    BY <1>3 DEF IsHost, Has, Iface
  <2>2. Advertised(host[p].ifaces) = {"lan4"}
    <3>. DEFINE lan == {"lan4"}
    <3>1. {i \in lan \ {"awdl6"} : ~IsVirtualIface(i) /\ ~IsUnusableV4(i)} = lan
      BY DEF IsVirtualIface, IsUnusableV4
    <3>2. \E i \in lan : ~IsVirtualIface(i) /\ ~IsIpv6(i) /\ ~IsUnusableV4(i)
      BY DEF IsVirtualIface, IsIpv6, IsUnusableV4
    <3>. QED
      BY <2>1, <3>1, <3>2 DEF Advertised
  <2>3. CASE p \in visible
    <3>1. told[p] = {"lan4"} /\ registry[p].addrs = {"lan4"} /\ registry[p].port = 1
      BY <1>3, <2>3
    <3>2. \A a \in told[p] : Arrives(p, a, mdns, registry[p], host[p].port)
      BY <1>5, <2>1, <3>1 DEF Arrives, FreshFrom
    <3>3. Owed(p) /\ Nudged(p)
      BY <2>2, <3>1 DEF Owed, Nudged
    <3>. QED
      BY <1>3, <2>1, <2>3, <3>1, <3>2, <3>3 DEF Tracks, Iface
  <2>4. CASE p \notin visible
    <3>1. told[p] = {} /\ ~registry[p].known /\ p \notin nudged
      BY <1>3, <2>4 DEF Unknown
    <3>2. Vanishes(p, mdns, registry[p])
      BY <1>5, <3>1 DEF Vanishes, MuteFrom
    <3>3. Owed(p) /\ Nudged(p)
      BY <3>1 DEF Owed, Nudged
    <3>. QED
      BY <2>1, <3>1, <3>2, <3>3 DEF Tracks
  <2>. QED
    BY <2>3, <2>4
<1>. QED
  BY <1>1, <1>4, <1>5, <1>6 DEF NetInv, NetShape

\* Once nothing is on its way, what will be is.
LEMMA QuietRegistry ==
    ASSUME NetInv, NEW p \in Peer, Quiet(p)
    PROVE  /\ host[p].up => \A a \in told[p] : a \in registry[p].addrs /\ registry[p].port = host[p].port
           /\ host[p].up /\ told[p] # {} /\ p \notin again => Advertised(host[p].ifaces) \subseteq told[p]
           /\ p \notin cached => ~registry[p].known
<1>1. Tracks(p) /\ mdns \in Seq(Event)
  BY DEF NetInv, NetShape
<1>2. p \notin asked /\ \A i \in 1..Len(mdns) : mdns[i].peer # p
  BY <1>1 DEF Quiet
<1>3. ~WillNudge(p, mdns)
  BY <1>2 DEF WillNudge
<1>4. \A a : Arrives(p, a, mdns, registry[p], host[p].port) => a \in registry[p].addrs /\ registry[p].port = host[p].port
  BY <1>2 DEF Arrives
<1>5. Vanishes(p, mdns, registry[p]) => ~registry[p].known
  BY <1>2 DEF Vanishes
<1>. QED
  BY <1>1, <1>2, <1>3, <1>4, <1>5 DEF Tracks, Owed

\* Every address at which a machine can answer is a dial candidate.
LEMMA CandidatesAre ==
    ASSUME NEW addrs, NEW a \in {"lan4", "moved4", "lan6"}, a \in addrs
    PROVE  a \in ToSet(OrderedDialableIps(addrs))
<1>. DEFINE s1 == Candidate("lan4", addrs)
            s2 == Candidate("moved4", addrs)
            s3 == Candidate("virtual4", addrs)
            s4 == Candidate("awdl6", addrs)
            s5 == Candidate("lan6", addrs)
<1>1. ASSUME NEW x \in Iface PROVE Candidate(x, addrs) \in Seq(Iface)
  BY DEF Candidate
<1>2. s1 \in Seq(Iface) /\ s2 \in Seq(Iface) /\ s3 \in Seq(Iface) /\ s4 \in Seq(Iface) /\ s5 \in Seq(Iface)
  BY <1>1 DEF Iface
<1>3. Len(Candidate(a, addrs)) = 1 /\ Candidate(a, addrs)[1] = a
  BY DEF Candidate
<1>4. Candidate(a, addrs) \in {s1, s2, s5}
  OBVIOUS
<1>5. ASSUME NEW s \in Seq(Iface), NEW t \in Seq(Iface)
      PROVE  ToSet(s) \cup ToSet(t) \subseteq ToSet(s \o t) /\ s \o t \in Seq(Iface)
  <2>1. s \o t \in Seq(Iface) /\ Len(s \o t) = Len(s) + Len(t) /\ Len(s) \in Nat /\ Len(t) \in Nat
    OBVIOUS
  <2>2. \A i \in 1..Len(s) : i \in 1..Len(s \o t) /\ (s \o t)[i] = s[i]
    BY <2>1
  <2>3. \A i \in 1..Len(t) : Len(s) + i \in 1..Len(s \o t) /\ (s \o t)[Len(s) + i] = t[i]
    BY <2>1
  <2>4. DOMAIN s = 1..Len(s) /\ DOMAIN t = 1..Len(t) /\ DOMAIN (s \o t) = 1..Len(s \o t)
    BY <2>1
  <2>5. ASSUME NEW x \in ToSet(s) PROVE x \in ToSet(s \o t)
    <3>1. PICK i \in 1..Len(s) : x = s[i]
      BY <2>4 DEF ToSet
    <3>. QED
      BY <2>2, <2>4, <3>1 DEF ToSet
  <2>6. ASSUME NEW x \in ToSet(t) PROVE x \in ToSet(s \o t)
    <3>1. PICK i \in 1..Len(t) : x = t[i]
      BY <2>4 DEF ToSet
    <3>. QED
      BY <2>3, <2>4, <3>1 DEF ToSet
  <2>. QED
    BY <2>1, <2>5, <2>6
<1>6. a \in ToSet(Candidate(a, addrs))
  BY <1>3 DEF ToSet, Candidate
<1>. HIDE DEF s1, s2, s3, s4, s5
<1>. DEFINE t2 == s1 \o s2
            t3 == t2 \o s3
            t4 == t3 \o s4
<1>7. t2 \in Seq(Iface) /\ ToSet(s1) \subseteq ToSet(t2) /\ ToSet(s2) \subseteq ToSet(t2)
  BY <1>2, <1>5
<1>. HIDE DEF t2
<1>8. t3 \in Seq(Iface) /\ ToSet(t2) \subseteq ToSet(t3)
  BY <1>2, <1>5, <1>7
<1>. HIDE DEF t3
<1>9. t4 \in Seq(Iface) /\ ToSet(t3) \subseteq ToSet(t4)
  BY <1>2, <1>5, <1>8
<1>. HIDE DEF t4
<1>10. ToSet(t4) \subseteq ToSet(t4 \o s5) /\ ToSet(s5) \subseteq ToSet(t4 \o s5)
  BY <1>2, <1>5, <1>9
<1>11. OrderedDialableIps(addrs) = t4 \o s5
  BY DEF OrderedDialableIps, t2, t3, t4, s1, s2, s3, s4, s5
<1>. QED
  BY <1>4, <1>6, <1>7, <1>8, <1>9, <1>10, <1>11

LEMMA NetTracks == NetInv => RegistryTracksNetwork
<1>. SUFFICES ASSUME NetInv, NEW p \in Peer, Quiet(p)
     PROVE  /\ host[p].up /\ told[p] # {} =>
                 /\ registry[p].port = host[p].port
                 /\ Answers(host[p]) \cap (IF p \in again THEN told[p] ELSE Advertised(host[p].ifaces))
                      \subseteq ToSet(PeerSocketAddrs(registry[p]))
            /\ ~host[p].up /\ p \notin cached => ~registry[p].known
  BY DEF RegistryTracksNetwork
<1>1. ~host[p].up /\ p \notin cached => ~registry[p].known
  BY QuietRegistry
<1>2. ASSUME host[p].up, told[p] # {}
      PROVE  /\ registry[p].port = host[p].port
             /\ Answers(host[p]) \cap (IF p \in again THEN told[p] ELSE Advertised(host[p].ifaces))
                      \subseteq ToSet(PeerSocketAddrs(registry[p]))
  <2>1. registry[p].port = host[p].port /\ told[p] \subseteq registry[p].addrs
    BY <1>2, QuietRegistry
  <2>2. (IF p \in again THEN told[p] ELSE Advertised(host[p].ifaces)) \subseteq told[p]
    BY <1>2, QuietRegistry
  <2>3. registry[p].port # 0
    BY <2>1 DEF NetInv, NetShape, IsHost
  <2>4. PeerSocketAddrs(registry[p]) = OrderedDialableIps(registry[p].addrs)
    BY <2>3 DEF PeerSocketAddrs
  <2>5. Answers(host[p]) \subseteq {"lan4", "moved4", "lan6"}
    BY DEF Answers
  <2>. QED
    BY <2>1, <2>2, <2>4, <2>5, CandidatesAre
<1>. QED
  BY <1>1, <1>2

-----------------------------------------------------------------------------
(* The specification                                                       *)

\* The bridge's part of the state: clients, trust and snapshots.
PlaneInv == ClientInv /\ TrustInv /\ SnapInv

LEMMA PlaneInit == Init => PlaneInv
<1>. SUFFICES ASSUME Init PROVE PlaneInv
  OBVIOUS
<1>1. ClientInv
  BY NoClientIs DEF Init, ClientInv, Has
<1>2. TrustInv
  <2>1. /\ trustFile = [valid |-> TRUE, peers |-> left.trusted] /\ approved = trustFile.peers
        /\ step = NoWrite /\ srv = NoServe /\ decisionQ = <<>>
    BY DEF Init
  <2>2. IsTrust(trustFile) /\ trustFile.peers \subseteq approved
    BY <2>1 DEF IsTrust, Has
  <2>3. IsServe(srv) /\ srv.write = NoWrite
    BY <2>1 DEF NoServe, IsServe, Has
  <2>4. decisionQ \in Seq(Decision) /\ Len(decisionQ) = 0
    BY <2>1
  <2>. QED
    BY <2>1, <2>2, <2>3, <2>4, NoWriteIs DEF TrustInv, TrustShape, Backed
<1>3. SnapInv
  <2>1. /\ pub = [t \in Task |-> IF t = "republish" THEN ToBuild ELSE NotPublishing]
        /\ registry = [p \in Peer |-> IF p \in left.visible
                         THEN [known |-> TRUE, addrs |-> {"lan4"}, port |-> 1] ELSE Unknown]
    BY DEF Init, DiscoveryInit
  <2>2. Has(pub, Task) /\ Has(registry, Peer)
    BY <2>1 DEF Has
  <2>3. pub["republish"].at = "build"
    BY <2>1, TaskIs DEF ToBuild
  <2>4. PublishedIsCurrent
    BY <2>3, TaskIs DEF PublishedIsCurrent
  <2>. QED
    BY <2>2, <2>4 DEF SnapInv
<1>. QED
  BY <1>1, <1>2, <1>3 DEF PlaneInv

LEMMA PlaneAlways == Spec => []PlaneInv
<1>1. PlaneInv /\ [Next]_vars => PlaneInv'
  BY ClientInvariant, TrustNext, SnapNext DEF PlaneInv
<1>. QED
  BY <1>1, PlaneInit, PTL DEF Spec

\* Whatever clients connect, half-send, close or are refused while snapshots
\* are pushed to them, a command whose frame was whole when its client task
\* last looked is read: neither the on-connect write nor a push that is ready
\* as well ends the task before it (server.rs, serve_client). A frame cut by
\* a push, or not there yet at the last poll, is outside the theorem: the
\* code may lose it, as the run control_plane_drain shows.
THEOREM SeenIsRead == Spec => []SeenCommandsAreRead
<1>1. PlaneInv => SeenCommandsAreRead
  BY DEF PlaneInv, ClientInv, SeenCommandsAreRead
<1>. QED
  BY <1>1, PlaneAlways, PTL

\* Every change of what the snapshot shows is followed by a publication, so
\* once the tasks are idle the watch holds the present state (ipc_bridge.rs,
\* publish and its callers; discovery.rs, apply's change notification).
THEOREM WatchCatchesUp == Spec => []PublishedIsCurrent
<1>1. PlaneInv => PublishedIsCurrent
  BY DEF PlaneInv, SnapInv
<1>. QED
  BY <1>1, PlaneAlways, PTL

\* A peer in the trust file was named by a command since the last reset,
\* whatever the order of prompts, decisions, truncated and failed writes and
\* restarts (daemon_store.rs, trust_peer and reset_data; pairing.rs).
THEOREM OnlyApprovedIsTrusted == Spec => []TrustIsApproved
<1>1. PlaneInv => TrustIsApproved
  BY DEF PlaneInv, TrustInv, Backed, TrustIsApproved, LoadTrustedPeers
<1>. QED
  BY <1>1, PlaneAlways, PTL

\* However a machine's records arrive, in whichever pieces and across its
\* moves, departures, crashes and expiries, once nothing about it is on its
\* way the dialers have every address it is owed, at its current port, and a
\* machine that is gone is not offered (discovery.rs, apply and
\* nudge_other_family; dialable addresses of the registry's entry).
THEOREM RegistryFollows == Spec => []RegistryTracksNetwork
<1>1. Spec => [](RoamInv /\ NetInv)
  BY NetInit, NetNext, PTL DEF Spec
<1>. QED
  BY <1>1, NetTracks, PTL
=============================================================================
