---------------------------- MODULE ControlPlane ----------------------------
(***************************************************************************)
(* The daemon's control plane: the IPC server and its client tasks, the    *)
(* bridge whose three tasks build and publish snapshots and carry out the  *)
(* commands of the desktop app and the MCP server, and the store they      *)
(* write. The tasks run on a multi-threaded runtime: between building a    *)
(* snapshot and publishing it, and between loading the trust file and      *)
(* writing it back, another task may run.                                  *)
(* The serve loop is reduced to what it reports and takes (see Connect).   *)
(***************************************************************************)
EXTENDS Discovery, Integers, TLC

CONSTANTS
    Client,      \* connections to the IPC server that may be open at once
    Settings,    \* settings values, "default" among them
    Bounds       \* how much of everything an instance explores (records)

VARIABLES
    left,        \* the instance's bounds: events still allowed, and its limits
    trustFile,   \* trusted_peers: [valid, peers]
    settingsFile,\* settings.json: a value, "absent" or "torn"
    dto,         \* Shared.connection: [state, peer, owner, error]
    prompt,      \* Shared.pairing: the peer asking, or None
    settings,    \* Shared.settings
    pub,         \* pub[t]: the publishing step task t is in, and what it built
    published,   \* the snapshot in the watch channel
    cmdq,        \* commands forwarded to the command loop
    step,        \* the trust write the command loop is in
    srv,         \* the serve loop: [sess, asking, write]
    connectQ, discQ, fileQ, decisionQ,   \* channels to the serve loop
    cl           \* cl[c]: a client, its socket and its server task

VARIABLES        \* history, read by the properties only
    approved,    \* peers a user command allowed since the last reset
    crossed,     \* a reset ran while a trust write was under way
    excuse,      \* why the published snapshot may be out of date
    lost         \* commands lost with their connection: "seen" if the frame was
                 \* whole when its task last looked, else "unseen"

storeVars == <<trustFile, settingsFile, approved, crossed>>
chanVars == <<connectQ, discQ, fileQ, decisionQ>>
vars == <<discoveryVars, left, trustFile, settingsFile, dto, prompt, settings, pub,
          published, cmdq, step, srv, connectQ, discQ, fileQ,
          decisionQ, cl, approved, crossed, excuse, lost>>

ASSUME DefaultIsSetting == "default" \in Settings
ASSUME BoundsAreOfPeers ==
    \A b \in Bounds : {"roaming", "visible"} \subseteq DOMAIN b /\ b.roaming \cup b.visible \subseteq Peer

None == "none"
Task == {"serve", "command", "republish"}

Spend(kind) == left[kind] > 0 /\ left' = [left EXCEPT ![kind] = @ - 1]

-----------------------------------------------------------------------------
(* The store.                                                              *)

LoadSettings(file) == IF file \in Settings THEN file ELSE "default"

\* A trust file that does not parse trusts nobody and cannot be added to.
LoadTrustedPeers == IF trustFile.valid THEN trustFile.peers ELSE {}
IsPeerTrusted(p) == p \in LoadTrustedPeers

\* What a write leaves that fails or is cut off: the file was truncated, and
\* holds nothing, some of the lines, or a line that does not parse.
Remains(peers) == {[valid |-> TRUE, peers |-> s] : s \in SUBSET peers}
                    \cup {[valid |-> FALSE, peers |-> {}]}

-----------------------------------------------------------------------------
(* Snapshots.                                                              *)

IdleDto == [state |-> "idle", peer |-> None, owner |-> None, error |-> None]

\* The health item an error text leads to.
ConnectionErrorDiagnostic(error) ==
    CASE error = "untrusted"                    -> {"peer_untrusted"}
      [] error \in {"unlisted", "unreachable"}  -> {"connect_unreachable"}
      [] error \in {None, "store"}              -> {}

BuildDiagnostics(peers, error) ==
    ConnectionErrorDiagnostic(error)
        \cup (IF peers = {} THEN {"advertising_zero_peers"} ELSE {})

\* What the snapshot shows of the registry, the trust file and the bridge.
SnapshotOf(adverts, trusted, conn, pairing, applied) ==
    LET peers == {p \in Peer : adverts[p].known}
        FirstAddr(addrs) == Head(SelectSeq(AddrOrder, LAMBDA a : a \in addrs))
    IN  [peers    |-> [p \in peers |-> [trusted |-> p \in trusted,
                                        host |-> FirstAddr(adverts[p].addrs),
                                        port |-> adverts[p].port]],
         conn     |-> conn,
         pairing  |-> pairing,
         settings |-> applied,
         health   |-> BuildDiagnostics(peers, conn.error)]
BuildSnapshot == SnapshotOf(registry, LoadTrustedPeers, dto, prompt, settings)

NotPublishing == [at |-> "idle", snap |-> None]
ToBuild == [at |-> "build", snap |-> None]

\* Having changed the shared state, task t is about to rebuild and publish.
Republish(t) == pub' = [pub EXCEPT ![t] = ToBuild]

Build(t) ==
    /\ pub[t].at = "build"
    /\ pub' = [pub EXCEPT ![t] = [at |-> "publish", snap |-> BuildSnapshot]]
    /\ UNCHANGED <<discoveryVars, left, storeVars, dto, prompt, settings, published,
                   cmdq, step, srv, chanVars, cl, excuse, lost>>

\* send_replace. Publishing what another task has overtaken leaves the watch
\* behind the state until somebody publishes again.
Publish(t) ==
    /\ pub[t].at = "publish"
    /\ published' = pub[t].snap
    /\ cl' = [c \in Client |-> [cl[c] EXCEPT !.seen = FALSE]]
    /\ pub' = [pub EXCEPT ![t] = NotPublishing]
    /\ excuse' = IF pub[t].snap = BuildSnapshot THEN {} ELSE excuse \cup {"overtaken"}
    /\ UNCHANGED <<discoveryVars, left, storeVars, dto, prompt, settings,
                   cmdq, step, srv, chanVars, lost>>

\* republish_loop: publish, then wait for the registry to change.
RepublishLoop ==
    /\ pub["republish"].at = "idle"
    /\ changed
    /\ changed' = FALSE
    /\ Republish("republish")
    /\ UNCHANGED <<networkVars, registry, left, storeVars, dto, prompt, settings, published,
                   cmdq, step, srv, chanVars, cl, excuse, lost>>

-----------------------------------------------------------------------------
(* IPC clients. A frame is a length and a payload, written separately.     *)
(* A script is what one connection is used for: the desktop app and the    *)
(* MCP tools open one per command (send, close), one per snapshot (send    *)
(* GetSnapshot, read) and one per log (read, send RefreshSnapshot, read).  *)

GetSnapshot == [op |-> "get"]
FetchSnapshot     == <<"send", "read">>
RefreshedSnapshot == <<"read", "send", "read">>
SendCommand       == <<"send">>
Script(cmd) == CASE cmd.op = "get"     -> FetchSnapshot
                 [] cmd.op = "refresh" -> RefreshedSnapshot
                 [] OTHER              -> SendCommand

NoClient == [script |-> <<>>, cmd |-> GetSnapshot, open |-> FALSE, sock |-> <<>>,
             unread |-> 0, task |-> "none", seen |-> FALSE, half |-> FALSE,
             there |-> FALSE]

Command ==
    [op : {"connect", "trust", "approve", "deny"}, peer : Peer]
      \cup [op : {"get", "disconnect", "sendFiles", "reset", "refresh"}]
      \cup [op : {"update"}, settings : Settings]

ClientStep(c, new) ==
    /\ cl' = [cl EXCEPT ![c] = new]
    /\ UNCHANGED <<discoveryVars, storeVars, dto, prompt, settings, pub, published,
                   step, srv, chanVars, excuse>>

\* connect_at: the connection is in the listener's backlog.
ClientConnect(c, cmd) ==
    /\ cl[c] = NoClient
    /\ cmd.op \in left.ops
    /\ Spend("clients")
    /\ ClientStep(c, [NoClient EXCEPT !.script = Script(cmd), !.cmd = cmd, !.open = TRUE,
                                      !.task = "backlog"])
    /\ UNCHANGED <<cmdq, lost>>

Refused(c) == cl[c].task \in {"refused", "ended"}

\* write_message writes the length, then the payload, into the socket's
\* buffer; it fails once the server side has closed.
ClientSend(c) ==
    /\ cl[c].open /\ cl[c].script # <<>> /\ Head(cl[c].script) \in {"send", "finish"}
    /\ LET k == cl[c]
       IN  ClientStep(c, CASE Refused(c) -> [k EXCEPT !.script = <<>>]
                           [] ~Refused(c) /\ Head(k.script) = "send" ->
                                [k EXCEPT !.sock = Append(@, "length"), !.script[1] = "finish"]
                           [] ~Refused(c) /\ Head(k.script) = "finish" ->
                                [k EXCEPT !.sock = Append(@, "payload"), !.script = Tail(@)])
    /\ UNCHANGED <<left, cmdq, lost>>

ClientRead(c) ==
    /\ cl[c].open /\ cl[c].script # <<>> /\ Head(cl[c].script) = "read"
    /\ cl[c].unread > 0 \/ Refused(c)
    /\ ClientStep(c, IF cl[c].unread > 0
                     THEN [cl[c] EXCEPT !.unread = @ - 1, !.script = Tail(@)]
                     ELSE [cl[c] EXCEPT !.script = <<>>])
    /\ UNCHANGED <<left, cmdq, lost>>

\* The script is done, or it timed out waiting for the server.
ClientClose(c) ==
    /\ cl[c].open
    /\ (cl[c].script # <<>> => Head(cl[c].script) = "read")
    /\ ClientStep(c, [cl[c] EXCEPT !.open = FALSE, !.script = <<>>, !.unread = 0])
    /\ UNCHANGED <<left, cmdq, lost>>

\* Both ends are gone: the connection may be another one next time.
ClientForget(c) ==
    /\ ~cl[c].open /\ Refused(c)
    /\ ClientStep(c, NoClient)
    /\ UNCHANGED <<left, cmdq, lost>>

-----------------------------------------------------------------------------
(* The server's task for a client.                                         *)

WholeFrame(k) == k.sock # <<>> /\ Last(k.sock) = "payload"
Serving == {c \in Client : cl[c].task \notin {"none", "backlog", "refused", "ended"}}

\* accept_loop: without a free slot the stream is dropped.
Accept(c) ==
    /\ cl[c].task = "backlog"
    /\ ClientStep(c, [cl[c] EXCEPT !.task = IF Cardinality(Serving) < left.slots
                                            THEN "initial" ELSE "refused"])
    /\ UNCHANGED <<left, cmdq, lost>>

\* The task returns: whatever is still in the socket is lost.
Ended(k) == [k EXCEPT !.task = "ended", !.sock = <<>>, !.half = FALSE, !.there = FALSE]

\* What is lost when k becomes new: a whole frame that nobody has read.
Losses(k, new) ==
    IF new.task = "ended" /\ WholeFrame(k) /\ k.cmd # GetSnapshot
    THEN {IF k.there THEN "seen" ELSE "unseen"} ELSE {}

\* borrow_and_update, then write: what the client gets is what is marked
\* seen. A write to a client that closed fails.
Written(k, next) ==
    [k EXCEPT !.seen = TRUE, !.task = next,
              !.unread = IF k.open THEN @ + 1 ELSE @]

\* The on-connect snapshot is best effort: a failed write is ignored.
InitialSnapshot(c) ==
    /\ cl[c].task = "initial"
    /\ ClientStep(c, Written([cl[c] EXCEPT !.there = WholeFrame(cl[c])], "select"))
    /\ UNCHANGED <<left, cmdq, lost>>

\* A whole command is read.
Taken(k) == [k EXCEPT !.task = IF k.cmd = GetSnapshot THEN "reply" ELSE "forward",
                      !.sock = <<>>, !.half = FALSE, !.there = FALSE]

\* read_message: a length already read stays with the read until the other
\* branch wins and drops it; then the payload is taken for a length, which
\* ends the task.
ReadBranch(k) ==
    CASE WholeFrame(k) /\ (k.half \/ Head(k.sock) = "length") ->
            {Taken(k)}
      [] WholeFrame(k) /\ ~k.half /\ Head(k.sock) # "length" -> {Ended(k)}
      [] ~WholeFrame(k) /\ k.sock # <<>> -> {[k EXCEPT !.half = TRUE, !.sock = <<>>]}
      [] k.sock = <<>> /\ ~k.open -> {Ended(k)}
      [] OTHER -> {}

\* A newer snapshot is to be written; the read is dropped.
PushBranch(k) ==
    IF k.seen THEN {} ELSE {[k EXCEPT !.task = "push", !.half = FALSE, !.there = WholeFrame(k)]}

\* One poll of a select! that is not biased.
PollUnbiased(k) == ReadBranch(k) \cup PushBranch(k)

\* One poll of the biased select!: the read comes first.
Poll(k) == IF ReadBranch(k) # {} THEN ReadBranch(k) ELSE PushBranch(k)

SelectLoop(c) ==
    /\ cl[c].task = "select"
    /\ \E new \in Poll(cl[c]) : ClientStep(c, new) /\ lost' = lost \cup Losses(cl[c], new)
    /\ UNCHANGED <<left, cmdq>>

\* Forward a newer snapshot, or answer GetSnapshot: a failed write returns.
WriteSnapshot(c) ==
    /\ cl[c].task \in {"push", "reply"}
    /\ LET new == IF cl[c].open THEN Written(cl[c], "select") ELSE Ended(cl[c])
       IN  ClientStep(c, new) /\ lost' = lost \cup Losses(cl[c], new)
    /\ UNCHANGED <<left, cmdq>>

\* command_tx.send waits for room in the queue.
Forward(c) ==
    /\ cl[c].task = "forward"
    /\ Len(cmdq) < left.queue
    /\ cmdq' = Append(cmdq, cl[c].cmd)
    /\ ClientStep(c, [cl[c] EXCEPT !.task = "select"])
    /\ UNCHANGED <<left, lost>>

\* In the slices that are not about sockets, a command's connection is one
\* step.
CommandArrives(cmd) ==
    /\ cmd.op \in left.arriving
    /\ Len(cmdq) < left.queue
    /\ Spend("commands")
    /\ cmdq' = Append(cmdq, cmd)
    /\ UNCHANGED <<discoveryVars, storeVars, dto, prompt, settings, pub, published,
                   step, srv, chanVars, cl, excuse, lost>>

-----------------------------------------------------------------------------
(* The command loop.                                                       *)

NoWrite == [at |-> "idle", peers |-> {}]

\* It takes a command when it is done with the last, snapshot included.
Take(op) ==
    /\ step = NoWrite /\ pub["command"].at = "idle"
    /\ cmdq # <<>> /\ Head(cmdq).op = op
    /\ cmdq' = Tail(cmdq)
    /\ UNCHANGED <<discoveryVars, left, prompt, published, srv, cl, lost>>

\* connect_request: the peer is listed and trusted.
ConnectRequest(p) ==
    IF ~registry[p].known THEN "unlisted"
    ELSE IF ~trustFile.valid THEN "store"
    ELSE IF ~IsPeerTrusted(p) THEN "untrusted" ELSE "ok"

CommandConnect ==
    /\ Take("connect")
    /\ LET p == Head(cmdq).peer
       IN  IF ConnectRequest(p) = "ok"
           THEN connectQ' = Append(connectQ, p) /\ UNCHANGED <<dto, pub>>
           ELSE /\ dto' = [IdleDto EXCEPT !.error = ConnectRequest(p)]
                /\ Republish("command")
                /\ UNCHANGED connectQ
    /\ UNCHANGED <<storeVars, settings, step, discQ, fileQ, decisionQ, excuse>>

CommandDisconnect ==
    /\ Take("disconnect")
    /\ discQ' = discQ + 1
    /\ UNCHANGED <<storeVars, dto, settings, pub, step, connectQ, fileQ, decisionQ, excuse>>

\* A decision goes to the serve loop as it is, for whichever prompt is up.
CommandDecide(op) ==
    /\ Take(op)
    /\ decisionQ' = Append(decisionQ, [peer |-> Head(cmdq).peer, approved |-> op = "approve"])
    /\ approved' = IF op = "approve" THEN approved \cup {Head(cmdq).peer} ELSE approved
    /\ UNCHANGED <<trustFile, settingsFile, crossed, dto, settings, pub, step, connectQ,
                   discQ, fileQ, excuse>>

\* Files go to the peer the bridge shows as connected, if any.
CommandSendFiles ==
    /\ Take("sendFiles")
    /\ fileQ' = IF dto.state = "connected" THEN Append(fileQ, dto.peer) ELSE fileQ
    /\ UNCHANGED <<storeVars, dto, settings, pub, step, connectQ, discQ, decisionQ, excuse>>

\* Saving may fail, before or after truncating the file; the settings apply
\* all the same.
CommandUpdateSettings ==
    /\ Take("update")
    /\ LET s == Head(cmdq).settings
       IN  /\ settings' = s
           /\ settingsFile' \in {s} \cup (IF left.io > 0 THEN {settingsFile, "torn"} ELSE {})
    /\ Republish("command")
    /\ UNCHANGED <<trustFile, approved, crossed, dto, step, chanVars, excuse>>

CommandRefresh ==
    /\ Take("refresh")
    /\ Republish("command")
    /\ UNCHANGED <<storeVars, dto, settings, step, chanVars, excuse>>

\* reset_data removes the trust file, then the settings file. If either
\* fails nothing else happens, the trust may be gone all the same.
ResetData(outcome) ==
    /\ trustFile' = IF outcome = "failed" THEN trustFile ELSE [valid |-> TRUE, peers |-> {}]
    /\ settingsFile' = IF outcome = "ok" THEN "absent" ELSE settingsFile
    /\ approved' = IF outcome = "failed" THEN approved
                   ELSE {p \in approved : \E i \in DOMAIN decisionQ : decisionQ[i].peer = p}
    /\ crossed' = (crossed \/ (outcome # "failed" /\ srv.write.at # "idle"))

CommandReset(outcome) ==
    /\ Take("reset")
    /\ outcome # "ok" => left.io > 0
    /\ ResetData(outcome)
    /\ IF outcome = "ok"
       THEN /\ discQ' = discQ + 1
            /\ settings' = "default"
            /\ Republish("command")
            /\ UNCHANGED excuse
       ELSE /\ excuse' = IF outcome = "partly" THEN excuse \cup {"partly reset"} ELSE excuse
            /\ UNCHANGED <<discQ, settings, pub>>
    /\ UNCHANGED <<dto, step, connectQ, fileQ, decisionQ>>

\* trust_peer starts by loading the file; a file that does not parse ends it.
TrustPeer(p) ==
    IF trustFile.valid THEN [at |-> "truncate", peers |-> trustFile.peers \cup {p}] ELSE NoWrite

\* fs::write truncates the file, then fills it; it may fail in between. The
\* error is only logged: no snapshot follows it.
WriteTrusted(w, new) ==
    CASE w.at = "truncate" ->
            /\ trustFile' = [valid |-> TRUE, peers |-> {}]
            /\ new = [w EXCEPT !.at = "fill"]
      [] w.at = "fill" ->
            /\ \/ trustFile' = [valid |-> TRUE, peers |-> w.peers] /\ new = [w EXCEPT !.at = "done"]
               \/ /\ left.io > 0
                  /\ trustFile' \in Remains(w.peers)
                  /\ new = [w EXCEPT !.at = "failed"]
      [] OTHER -> FALSE

CommandTrust ==
    /\ Take("trust")
    /\ approved' = approved \cup {Head(cmdq).peer}
    /\ step' = TrustPeer(Head(cmdq).peer)
    /\ UNCHANGED <<trustFile, settingsFile, crossed, dto, settings, pub, chanVars, excuse>>

CommandTrustWrite ==
    /\ \E at \in {"fill", "done", "failed"} :
        LET new == [step EXCEPT !.at = at]
        IN  /\ WriteTrusted(step, new)
            /\ step' = IF at = "fill" THEN new ELSE NoWrite
            /\ IF at = "done" THEN Republish("command") ELSE UNCHANGED pub
            /\ excuse' = IF at = "failed" THEN excuse \cup {"trust not written"} ELSE excuse
    /\ UNCHANGED <<discoveryVars, left, settingsFile, approved, crossed, dto, prompt, settings,
                   published, cmdq, srv, chanVars, cl, lost>>

-----------------------------------------------------------------------------
(* The serve loop, as far as the bridge sees it.                           *)

NoServe == [sess |-> None, asking |-> None, write |-> NoWrite]

ServeIdle == pub["serve"].at = "idle" /\ srv.write = NoWrite

\* A report to the bridge: the connection it shows, then the snapshot.
ReportDto(new) ==
    /\ ServeIdle
    /\ dto' = new
    /\ Republish("serve")
    /\ UNCHANGED <<discoveryVars, storeVars, settings, published, cmdq, step,
                   cl, excuse, lost>>

SetConnected(p) ==
    /\ srv.sess = None /\ srv.asking = None /\ IsPeerTrusted(p)
    /\ Spend("sessions")
    /\ ReportDto([IdleDto EXCEPT !.state = "connected", !.peer = p, !.owner = "here"])
    /\ srv' = [srv EXCEPT !.sess = p]
    /\ UNCHANGED <<prompt, chanVars>>

\* The session is lost or taken down; a redial reports why it failed.
SetIdle(error) ==
    /\ srv.sess # None
    /\ Spend("sessions")
    /\ ReportDto([IdleDto EXCEPT !.error = error])
    /\ srv' = [srv EXCEPT !.sess = None]
    /\ UNCHANGED <<prompt, chanVars>>

\* Ignored unless the bridge shows a connection: the command loop may have
\* replaced it by an error while the session went on.
SetOwnerEpoch ==
    /\ srv.sess # None /\ dto.state = "connected"
    /\ Spend("sessions")
    /\ ReportDto([dto EXCEPT !.owner = IF @ = "here" THEN "there" ELSE "here"])
    /\ UNCHANGED <<srv, prompt, chanVars>>

TakeDisconnect ==
    /\ srv.sess # None /\ discQ > 0
    /\ discQ' = discQ - 1
    /\ ReportDto(IdleDto)
    /\ srv' = [srv EXCEPT !.sess = None]
    /\ UNCHANGED <<left, prompt, connectQ, fileQ, decisionQ>>

\* A Connect ends the session with another peer, or with the same peer when
\* this machine is its receiver; a dial follows.
TakeConnect ==
    /\ connectQ # <<>> /\ srv.asking = None
    /\ ReportDto([IdleDto EXCEPT !.state = "connecting", !.peer = Head(connectQ)])
    /\ connectQ' = Tail(connectQ)
    /\ srv' = [srv EXCEPT !.sess = None]
    /\ UNCHANGED <<left, prompt, discQ, fileQ, decisionQ>>

\* The session's source already controls the peer: nothing to do.
IgnoreConnect ==
    /\ ServeIdle /\ connectQ # <<>> /\ srv.sess = Head(connectQ)
    /\ connectQ' = Tail(connectQ)
    /\ UNCHANGED <<discoveryVars, left, storeVars, dto, prompt, settings, pub, published,
                   cmdq, step, srv, discQ, fileQ, decisionQ, cl, excuse, lost>>

\* run_session: a request for another peer is dropped, the session's own is
\* carried out by a task of its own (see FileTransfer).
TakeFileSend ==
    /\ ServeIdle /\ srv.sess # None /\ fileQ # <<>>
    /\ fileQ' = Tail(fileQ)
    /\ UNCHANGED <<discoveryVars, left, storeVars, dto, prompt, settings, pub, published,
                   cmdq, step, srv, connectQ, discQ, decisionQ, cl, excuse, lost>>

ServeStep ==
    UNCHANGED <<discoveryVars, settingsFile, approved, crossed, dto, settings, published,
                cmdq, step, connectQ, discQ, fileQ, cl, excuse, lost>>

\* An untrusted peer connected: the user is asked.
RequestPairing(p) ==
    /\ ServeIdle /\ srv.sess = None /\ srv.asking = None /\ ~IsPeerTrusted(p)
    /\ Spend("prompts")
    /\ srv' = [srv EXCEPT !.asking = p]
    /\ prompt' = p
    /\ Republish("serve")
    /\ UNCHANGED <<trustFile, decisionQ>> /\ ServeStep

\* Takes any approval for the peer that asks.
TakesAnyDecision ==
    /\ ServeIdle /\ srv.asking # None /\ decisionQ # <<>>
    /\ decisionQ' = Tail(decisionQ)
    /\ srv' = [srv EXCEPT !.write = IF Head(decisionQ).approved THEN TrustPeer(srv.asking)
                                                                ELSE NoWrite]
    /\ UNCHANGED <<trustFile, left, prompt, pub>> /\ ServeStep

\* pair_via_ui takes decisions until one names the peer that asks.
TakeDecision ==
    /\ ServeIdle /\ srv.asking # None /\ decisionQ # <<>>
    /\ decisionQ' = Tail(decisionQ)
    /\ LET d == Head(decisionQ)
           write == IF d.peer = srv.asking /\ d.approved THEN TrustPeer(d.peer) ELSE NoWrite
       IN  /\ srv' = [srv EXCEPT !.write = write,
                                 !.asking = IF d.peer = @ /\ write = NoWrite THEN None ELSE @]
           /\ IF d.peer = srv.asking /\ write = NoWrite
              THEN prompt' = None /\ Republish("serve")
              ELSE UNCHANGED <<prompt, pub>>
    /\ UNCHANGED <<trustFile, left>> /\ ServeStep

\* Written or not, the guard clears the prompt and publishes.
PairingTrustWrite ==
    /\ \E at \in {"fill", "done", "failed"} :
        LET new == [srv.write EXCEPT !.at = at]
        IN  /\ WriteTrusted(srv.write, new)
            /\ IF at = "fill"
               THEN srv' = [srv EXCEPT !.write = new] /\ UNCHANGED <<prompt, pub>>
               ELSE /\ srv' = [srv EXCEPT !.write = NoWrite, !.asking = None]
                    /\ prompt' = None
                    /\ Republish("serve")
    /\ UNCHANGED <<left, decisionQ>> /\ ServeStep

\* The dialer left, or the user did not answer.
PairingTimeout ==
    /\ ServeIdle /\ srv.asking # None
    /\ srv' = [srv EXCEPT !.asking = None]
    /\ prompt' = None
    /\ Republish("serve")
    /\ UNCHANGED <<left, trustFile, decisionQ>> /\ ServeStep

-----------------------------------------------------------------------------
(* Other processes, and the daemon starting.                               *)

\* `mouserd trust` in another process writes the same file.
CliTrust(p) ==
    /\ Spend("cli")
    /\ trustFile.valid
    /\ trustFile' = [trustFile EXCEPT !.peers = @ \cup {p}]
    /\ approved' = approved \cup {p}
    /\ excuse' = excuse \cup {"another process"}
    /\ crossed' = (crossed \/ step # NoWrite \/ srv.write # NoWrite)
    /\ UNCHANGED <<discoveryVars, settingsFile, dto, prompt, settings, pub, published,
                   cmdq, step, srv, chanVars, cl, lost>>

\* The daemon is killed and started again. The files are what they are;
\* memory, browse and registry start afresh, and the republish loop is about
\* to publish its first snapshot.
Restart ==
    /\ Spend("crashes")
    /\ dto' = IdleDto /\ prompt' = None
    /\ settings' = LoadSettings(settingsFile)
    /\ pub' = [t \in Task |-> IF t = "republish" THEN ToBuild ELSE NotPublishing]
    /\ cmdq' = <<>> /\ step' = NoWrite /\ srv' = NoServe
    /\ connectQ' = <<>> /\ discQ' = 0 /\ fileQ' = <<>> /\ decisionQ' = <<>>
    /\ cl' = [c \in Client |-> IF cl[c] = NoClient THEN NoClient ELSE Ended(cl[c])]
    /\ BrowseAnew
    /\ excuse' = {}
    /\ UNCHANGED <<storeVars, published, lost>>

Init ==
    /\ left \in Bounds
    /\ DiscoveryInit(left.visible)
    /\ trustFile = [valid |-> TRUE, peers |-> left.trusted]
    /\ settingsFile = "absent"
    /\ dto = IdleDto /\ prompt = None /\ settings = "default"
    /\ pub = [t \in Task |-> IF t = "republish" THEN ToBuild ELSE NotPublishing]
    /\ published = BuildSnapshot
    /\ cmdq = <<>> /\ step = NoWrite /\ srv = NoServe
    /\ connectQ = <<>> /\ discQ = 0 /\ fileQ = <<>> /\ decisionQ = <<>>
    /\ cl = [c \in Client |-> NoClient]
    /\ approved = trustFile.peers /\ crossed = FALSE /\ excuse = {}
    /\ lost = {}

Restless == <<trustFile, settingsFile, dto, prompt, settings, pub, published,
              cmdq, step, srv, chanVars, cl, approved, crossed, excuse, lost>>

Network ==
    \/ \E p \in left.roaming : Spend("net") /\ NetEvent(p) /\ UNCHANGED Restless
    \/ RunRegistry /\ UNCHANGED <<left, Restless>>
    \/ \E p \in Peer : (NudgeAnswered(p) \/ Expire(p)) /\ UNCHANGED <<left, Restless>>

Next ==
    \/ Network
    \/ \E t \in Task : Build(t) \/ Publish(t)
    \/ RepublishLoop
    \/ \E c \in Client :
        \/ \E cmd \in Command : ClientConnect(c, cmd)
        \/ ClientSend(c) \/ ClientRead(c) \/ ClientClose(c) \/ ClientForget(c)
        \/ Accept(c) \/ InitialSnapshot(c) \/ SelectLoop(c) \/ WriteSnapshot(c) \/ Forward(c)
    \/ \E cmd \in Command : CommandArrives(cmd)
    \/ CommandConnect \/ CommandDisconnect \/ CommandSendFiles \/ CommandUpdateSettings
    \/ \E op \in {"approve", "deny"} : CommandDecide(op)
    \/ CommandRefresh \/ CommandTrust \/ CommandTrustWrite
    \/ \E outcome \in {"ok", "partly", "failed"} : CommandReset(outcome)
    \/ \E p \in Peer : SetConnected(p) \/ RequestPairing(p) \/ CliTrust(p)
    \/ \E error \in {None, "unreachable"} : SetIdle(error)
    \/ SetOwnerEpoch \/ TakeDisconnect \/ TakeConnect \/ IgnoreConnect \/ TakeFileSend
    \/ TakeDecision \/ PairingTrustWrite \/ PairingTimeout
    \/ Restart

Spec == Init /\ [][Next]_vars

-----------------------------------------------------------------------------
(* Properties.                                                             *)

(* A command that was whole when its client task last looked is read,      *)
(* though its client has closed by then: neither the ignored on-connect    *)
(* write nor a snapshot that is ready at the same time ends the task       *)
(* before it (serve_client, the biased select!).                           *)
SeenCommandsAreRead == "seen" \notin lost

(* What the comment of the select! says of every command: reading first    *)
(* guarantees that it is forwarded before any write can preempt it. A      *)
(* frame that a push cut in two, or that arrives between the poll and the  *)
(* write to a client that closed, breaks it.                               *)
DrainedBeforeDropped == lost = {}

(* Whatever changed the shared state, the registry or the trust file was   *)
(* followed by a publication: when no task is between a change and its     *)
(* snapshot, the watch holds the snapshot of the present state. Excused    *)
(* are a publication that another task's change overtook, a store write    *)
(* that failed half way, and a trust file written by another process.      *)
PublishedIsCurrent ==
    /\ \A t \in Task : pub[t].at = "idle"
    /\ step = NoWrite /\ srv.write = NoWrite
    /\ ~changed /\ excuse = {}
    => published = BuildSnapshot

(* A peer is trusted only if a command named that peer since the last      *)
(* reset, whatever the order of prompts, decisions, failed writes and      *)
(* restarts. Excused is a reset, or another process's write, in the middle *)
(* of a load-modify-write of the file.                                     *)
TrustIsApproved == crossed \/ LoadTrustedPeers \subseteq approved
=============================================================================
