---------------------------- MODULE FileTransfer ----------------------------
(***************************************************************************)
(* File transfer over the bulk plane: the windowed sender, the resuming    *)
(* receiver, its disk-backed sink in the quarantine directory, and the     *)
(* daemon tasks that drive both over one reliable ordered stream per       *)
(* transfer.  Attempts may follow one another (a retry after a lost        *)
(* connection) or overlap: each send is a task of its own, and a receiver  *)
(* whose sender gave up still drains what its stream has buffered.         *)
(*                                                                         *)
(* Lengths count units of Chunk-sized data; the digest of a file is its    *)
(* content, so two digests are equal exactly when the contents are.        *)
(***************************************************************************)
EXTENDS Integers, Sequences, FiniteSets, SequencesExt, FiniteSetsExt

CONSTANTS
    Attempt,        \* transfers started, in any order
    Path,           \* files on the sending machine
    Name,           \* file names, the keys of the quarantine directory
    FileName,       \* FileName[p]: last component of path p
    Flaws,          \* Flaws[p]: what sanitize_name finds wrong with that name
    Plans,          \* the lists of paths a user may send at once
    MaxLen,         \* longest file of the model
    InitLen,        \* InitLen[p]: length of p before any rewrite
    ChunkSize,      \* units per FileChunk
    Window,         \* MAX_IN_FLIGHT_PER_FILE in units
    MaxFiles, MaxFileSize, MaxTotal,    \* the receiver's admission limits
    UpCap, DownCap, \* messages the stream's flow control lets lie unread
    MaxEdits,       \* how often the user rewrites a source file
    MaxFaults       \* lost connections, timeouts, failed writes, crashes

VARIABLES
    src,        \* src[p]: content of the file at path p, a sequence of units
    disk,       \* disk[n]: content of the quarantine file n
    snd,        \* snd[t]: Sender and run_sender_stream of attempt t
    rcv,        \* rcv[t]: Receiver and run_receiver_stream of attempt t
    up, down,   \* up[t], down[t]: the two directions of the stream of t
    conn,       \* conn[t]: "none", "up" or "lost"
    edits,      \* rewrites of source files so far
    faulted,    \* attempts hit by a fault of the environment
    shared      \* attempts whose receiver had a file open that another
                \* slot of the same or of another receiver had open too

vars == <<src, disk, snd, rcv, up, down, conn, edits, faulted, shared>>

(* The sender pumps every window it has before it reads an acknowledgement,*)
(* so the unread acknowledgements of one transfer must fit in the stream's *)
(* receive window: otherwise both ends wait to write.                      *)
ASSUME AckWindowFits ==
    \A plan \in Plans : DownCap >= Len(plan) * Window + 2
ASSUME LimitsAreNatural ==
    {MaxLen, ChunkSize, Window, MaxFiles, MaxFileSize, MaxTotal, UpCap, MaxEdits, MaxFaults}
        \subseteq Nat /\ ChunkSize > 0 /\ Window > 0 /\ UpCap > 0
ASSUME PlansAreOfPaths ==
    /\ \A plan \in Plans : plan \in Seq(Path)
    /\ FileName \in [Path -> Name]
    /\ \A p \in Path : InitLen[p] \in 0 .. MaxLen

Least(a, b) == IF a <= b THEN a ELSE b
ReadAt(content, offset, want) ==
    SubSeq(content, offset + 1, Least(offset + want, Len(content)))
Total(s) == FoldSeq(LAMBDA e, sum : e.size + sum, 0, s)

-----------------------------------------------------------------------------
(* Names (path.rs).                                                        *)

\* The checks in the order sanitize_name makes them.
PathErrors == <<"EmptyOrDotted", "ContainsNul", "ContainsSeparator",
                "BidiControl", "TrailingDotOrSpace", "ReservedDeviceName">>

SanitizeName(flaws) ==
    LET found == SelectSeq(PathErrors, LAMBDA e : e \in flaws)
    IN  IF found = <<>> THEN "ok" ELSE Head(found)

\* A sanitized name is one normal component, so the path is the directory
\* joined with it: the model's quarantine files are keyed by the name.
ResolveInQuarantine(entry) == SanitizeName(entry.flaws) = "ok"

-----------------------------------------------------------------------------
(* The sink (fs_sink.rs): a handle with its own length and rolling digest. *)

OpenSinkUnseeded(n) == [name |-> n, len |-> Len(disk[n]), hashed |-> <<>>]

\* Reopening keeps the prefix, resumes after it and seeds the digest with it.
OpenSink(n) == [name |-> n, len |-> Len(disk[n]), hashed |-> disk[n]]

OverwriteTruncates(content, offset, data) == SubSeq(content, 1, offset) \o data

\* A positioned write: what another handle wrote behind it stays there.
Overwrite(content, offset, data) ==
    SubSeq(content, 1, offset) \o data
        \o SubSeq(content, offset + Len(data) + 1, Len(content))

SinkWrite(sink, data) ==
    [sink EXCEPT !.len = @ + Len(data), !.hashed = @ \o data]

\* The digest is the rolled one; the path is not read again.
FinishSink(sink) == sink.hashed

-----------------------------------------------------------------------------
(* The receiver (receiver.rs).                                             *)

CheckLimits(entries) ==
    /\ Len(entries) <= MaxFiles
    /\ \A i \in DOMAIN entries : entries[i].size <= MaxFileSize
    /\ Total(entries) <= MaxTotal

Slot(entry) ==
    LET sink == OpenSink(entry.name)
    IN  [size |-> entry.size, acked |-> sink.len, complete |-> FALSE,
         sink |-> sink, expected |-> entry.hash]

Done(ok) == [type |-> "done", ok |-> ok]
Ack(i, n) == [type |-> "ack", file |-> i, through |-> n]

Aborted(r) == [r EXCEPT !.aborted = TRUE, !.done = TRUE]

HashOkUnchecked(slot) == TRUE
HashOk(slot) == FinishSink(slot.sink) = slot.expected

\* Slots are finalized in order up to the first one whose digest is wrong.
FinalizeCompleted(r) ==
    LET due == {i \in DOMAIN r.slots :
                   ~r.slots[i].complete /\ r.slots[i].acked >= r.slots[i].size}
        bad == {i \in due : ~HashOk(r.slots[i])}
        good == IF bad = {} THEN due ELSE {i \in due : i < Min(bad)}
        slots == [i \in DOMAIN r.slots |->
                     [r.slots[i] EXCEPT !.complete = @ \/ i \in good]]
        next == [r EXCEPT !.slots = slots]
    IN  IF bad # {}
        THEN [Aborted(next) EXCEPT !.out = Append(@, Done(FALSE))]
        ELSE IF ~r.done /\ \A i \in DOMAIN slots : slots[i].complete
             THEN [next EXCEPT !.done = TRUE, !.out = Append(@, Done(TRUE))]
             ELSE next

Terminal(r) ==
    r.aborted \/ (r.slots # <<>> /\ \A i \in DOMAIN r.slots : r.slots[i].complete)

NoReceiver == [pc |-> "none", slots |-> <<>>, out |-> <<>>, done |-> FALSE, aborted |-> FALSE]
Rejected == [NoReceiver EXCEPT !.pc = "open", !.aborted = TRUE, !.done = TRUE,
                               !.out = <<[type |-> "reject"]>>]

ResumePoints(slots) ==
    [i \in {j \in DOMAIN slots : slots[j].acked > 0} |-> slots[i].acked]

AcceptOfferUnfinalized(entries) ==
    LET slots == [i \in DOMAIN entries |-> Slot(entries[i])]
    IN  IF \E i \in DOMAIN slots : slots[i].acked > slots[i].size
        THEN Rejected
        ELSE [NoReceiver EXCEPT !.pc = "open", !.slots = slots,
                 !.out = <<[type |-> "accept", resume |-> ResumePoints(slots)]>>]

\* Everything is validated before a sink is opened, and a prefix longer than
\* the offer rejects the whole transfer.
AcceptOffer(entries) ==
    LET slots == [i \in DOMAIN entries |-> Slot(entries[i])]
    IN  IF \/ ~CheckLimits(entries)
           \/ \E i \in DOMAIN entries : ~ResolveInQuarantine(entries[i])
           \/ \E i \in DOMAIN slots : slots[i].acked > slots[i].size
        THEN Rejected
        ELSE FinalizeCompleted(
                 [NoReceiver EXCEPT !.pc = "open", !.slots = slots,
                     !.out = <<[type |-> "accept", resume |-> ResumePoints(slots)]>>])

Stored(slot, c) ==
    [slot EXCEPT !.acked = c.offset + Len(c.data), !.sink = SinkWrite(@, c.data)]

\* What a chunk does to the receiver; "store" says the bytes are written.
OnChunk(r, c) ==
    LET s == r.slots[c.file]
        reack == [r EXCEPT !.out = <<Ack(c.file, s.acked)>>]
        end == c.offset + Len(c.data)
        taken == [r EXCEPT !.slots = [@ EXCEPT ![c.file] = Stored(s, c)],
                           !.out = <<Ack(c.file, end)>>]
    IN  IF r.aborted THEN [store |-> FALSE, r |-> r]
        ELSE IF s.complete THEN [store |-> FALSE, r |-> reack]
        ELSE IF end > s.size
             THEN [store |-> FALSE, r |-> [Aborted(r) EXCEPT !.out = <<Done(FALSE)>>]]
        ELSE IF c.offset # s.acked THEN [store |-> FALSE, r |-> reack]
        ELSE [store |-> TRUE, r |-> FinalizeCompleted(taken)]

-----------------------------------------------------------------------------
(* The sender (sender.rs).                                                 *)

NoSender == [pc |-> "new", files |-> <<>>, sent |-> <<>>, acked |-> <<>>]

PrepareSources(plan) ==
    [i \in DOMAIN plan |->
        [path |-> plan[i], name |-> FileName[plan[i]], flaws |-> Flaws[plan[i]],
         size |-> Len(src[plan[i]]), hash |-> src[plan[i]]]]

Sender(plan) ==
    [pc |-> "offered", files |-> PrepareSources(plan),
     sent |-> [i \in DOMAIN plan |-> 0], acked |-> [i \in DOMAIN plan |-> 0]]

\* A resume list that names an unknown file or goes past its size changes
\* nothing; otherwise both counters start at the resume point.
ResumeIsValid(s, resume) ==
    \A i \in DOMAIN resume : i \in DOMAIN s.files /\ resume[i] <= s.files[i].size

OnAcceptForgetsSent(s, resume) ==
    [s EXCEPT !.pc = "sending",
              !.acked = [i \in DOMAIN @ |-> IF i \in DOMAIN resume THEN resume[i] ELSE @[i]]]

OnAccept(s, resume) ==
    LET start(old) == [i \in DOMAIN old |-> IF i \in DOMAIN resume THEN resume[i] ELSE old[i]]
    IN  [s EXCEPT !.pc = "sending", !.sent = start(@), !.acked = start(@)]

AckIsValid(s, a) == a.through <= s.files[a.file].size /\ a.through <= s.sent[a.file]
OnAck(s, a) == [s EXCEPT !.acked[a.file] = IF a.through > @ THEN a.through ELSE @]

Sendable(s) ==
    {i \in DOMAIN s.files : s.sent[i] < s.files[i].size /\ s.sent[i] - s.acked[i] < Window}

\* The next chunk of the first file with room in its window.  A file that
\* shrank since it was offered yields no data.
PollChunk(s) ==
    LET i == Min(Sendable(s))
        want == Least(ChunkSize, Least(Window - (s.sent[i] - s.acked[i]),
                                       s.files[i].size - s.sent[i]))
    IN  [type |-> "chunk", file |-> i, offset |-> s.sent[i],
         data |-> ReadAt(src[s.files[i].path], s.sent[i], want)]

IsComplete(s) == \A i \in DOMAIN s.files : s.acked[i] >= s.files[i].size

-----------------------------------------------------------------------------
(* The daemon tasks (file_transfer.rs) and their environment.              *)

Init ==
    /\ src = [p \in Path |-> [i \in 1 .. InitLen[p] |-> 0]]
    /\ disk = [n \in Name |-> <<>>]
    /\ snd = [t \in Attempt |-> NoSender]
    /\ rcv = [t \in Attempt |-> NoReceiver]
    /\ up = [t \in Attempt |-> <<>>]
    /\ down = [t \in Attempt |-> <<>>]
    /\ conn = [t \in Attempt |-> "none"]
    /\ edits = 0
    /\ faulted = {}
    /\ shared = {}

SenderActive(t) == snd[t].pc \in {"offered", "sending"}

\* The sender task returns: its stream and connection are closed with it.
EndSender(t, pc) ==
    /\ snd' = [snd EXCEPT ![t].pc = pc]
    /\ conn' = [conn EXCEPT ![t] = "lost"]

\* send_paths_to_addr up to the offer: unsafe names fail before dialling.
Start(t) ==
    /\ snd[t].pc = "new"
    /\ \E plan \in Plans :
          LET s == Sender(plan)
          IN  IF \E i \in DOMAIN plan : SanitizeName(Flaws[plan[i]]) # "ok"
              THEN /\ snd' = [snd EXCEPT ![t].pc = "failed"]
                   /\ UNCHANGED <<conn, up>>
              ELSE /\ snd' = [snd EXCEPT ![t] = s]
                   /\ conn' = [conn EXCEPT ![t] = "up"]
                   /\ up' = [up EXCEPT ![t] = <<[type |-> "offer", files |-> s.files]>>]
    /\ UNCHANGED <<src, disk, rcv, down, edits, faulted, shared>>

RecvReply(t) ==
    /\ snd[t].pc = "offered" /\ down[t] # <<>>
    /\ LET m == Head(down[t])
       IN  IF m.type = "accept" /\ ResumeIsValid(snd[t], m.resume)
           THEN snd' = [snd EXCEPT ![t] = OnAccept(@, m.resume)] /\ UNCHANGED conn
           ELSE EndSender(t, "failed")
    /\ down' = [down EXCEPT ![t] = Tail(@)]
    /\ UNCHANGED <<src, disk, rcv, up, edits, faulted, shared>>

SendChunk(t) ==
    /\ snd[t].pc = "sending" /\ Sendable(snd[t]) # {} /\ Len(up[t]) < UpCap
    /\ LET c == PollChunk(snd[t])
       IN  IF c.data = <<>>
           THEN EndSender(t, "failed") /\ UNCHANGED up
           ELSE /\ snd' = [snd EXCEPT ![t].sent[c.file] = @ + Len(c.data)]
                /\ up' = [up EXCEPT ![t] = Append(@, c)]
                /\ UNCHANGED conn
    /\ UNCHANGED <<src, disk, rcv, down, edits, faulted, shared>>

\* Only when nothing can be sent does the task read; once every byte is
\* acknowledged the one message it takes is FileDone.
RecvProgress(t) ==
    /\ snd[t].pc = "sending" /\ Sendable(snd[t]) = {} /\ down[t] # <<>>
    /\ LET m == Head(down[t])
       IN  CASE m.type = "done" -> EndSender(t, IF m.ok THEN "ok" ELSE "failed")
             [] m.type = "ack" /\ ~IsComplete(snd[t]) /\ AckIsValid(snd[t], m) ->
                    snd' = [snd EXCEPT ![t] = OnAck(@, m)] /\ UNCHANGED conn
             [] OTHER -> EndSender(t, "failed")
    /\ down' = [down EXCEPT ![t] = Tail(@)]
    /\ UNCHANGED <<src, disk, rcv, up, edits, faulted, shared>>

\* The stream or the connection is gone and the sender notices.
SenderLost(t) ==
    /\ SenderActive(t) /\ conn[t] = "lost"
    /\ EndSender(t, "failed")
    /\ UNCHANGED <<src, disk, rcv, up, down, edits, faulted, shared>>

\* Other slots that have a file of this offer open.
OpenNames(t) == {rcv[t].slots[i].sink.name : i \in DOMAIN rcv[t].slots}
HasDuplicates(files) == \E i, j \in DOMAIN files : i # j /\ files[i].name = files[j].name
Overlaps(t, files) ==
    {u \in Attempt \ {t} :
        rcv[u].pc = "open" /\ OpenNames(u) \cap {files[i].name : i \in DOMAIN files} # {}}
    \cup {u \in {t} : HasDuplicates(files)}

RecvOffer(t) ==
    /\ rcv[t].pc = "none" /\ up[t] # <<>>
    /\ LET files == Head(up[t]).files
           over == Overlaps(t, files)
       IN  /\ rcv' = [rcv EXCEPT ![t] = AcceptOffer(files)]
           /\ shared' = shared \cup over \cup (IF over = {} THEN {} ELSE {t})
    /\ up' = [up EXCEPT ![t] = Tail(@)]
    /\ UNCHANGED <<src, disk, snd, down, conn, edits, faulted>>

RecvChunk(t) ==
    /\ rcv[t].pc = "open" /\ rcv[t].out = <<>> /\ ~Terminal(rcv[t]) /\ up[t] # <<>>
    /\ LET c == Head(up[t])
           o == OnChunk(rcv[t], c)
           n == rcv[t].slots[c.file].sink.name
       IN  /\ rcv' = [rcv EXCEPT ![t] = o.r]
           /\ disk' = IF o.store
                      THEN [disk EXCEPT ![n] = Overwrite(@, c.offset, c.data)]
                      ELSE disk
    /\ up' = [up EXCEPT ![t] = Tail(@)]
    /\ UNCHANGED <<src, snd, down, conn, edits, faulted, shared>>

\* send_outbound_batch, one message at a time as the flow control allows.
Emit(t) ==
    /\ rcv[t].pc = "open" /\ rcv[t].out # <<>> /\ Len(down[t]) < DownCap
    /\ down' = [down EXCEPT ![t] = Append(@, Head(rcv[t].out))]
    /\ LET r == [rcv[t] EXCEPT !.out = Tail(@)]
       IN  rcv' = [rcv EXCEPT ![t] =
              [r EXCEPT !.pc = IF r.out = <<>> /\ Terminal(r) THEN "closed" ELSE "open"]]
    /\ UNCHANGED <<src, disk, snd, up, conn, edits, faulted, shared>>

\* After the sender closed, the receiver may still read what is buffered
\* (RecvChunk); sooner or later its read or write fails.
ReceiverLost(t) ==
    /\ rcv[t].pc \in {"none", "open"} /\ conn[t] = "lost"
    /\ rcv' = [rcv EXCEPT ![t].pc = "closed", ![t].out = <<>>]
    /\ UNCHANGED <<src, disk, snd, up, down, conn, edits, faulted, shared>>

-----------------------------------------------------------------------------
(* Faults and the user.                                                    *)

Fault(S) == faulted' = faulted \cup S /\ Cardinality(faulted) < MaxFaults

Timeout(t) ==
    /\ \/ snd[t].pc = "offered"
       \/ snd[t].pc = "sending" /\ Sendable(snd[t]) = {}
    /\ down[t] = <<>> /\ conn[t] = "up"
    /\ Fault({t})
    /\ EndSender(t, "failed")
    /\ UNCHANGED <<src, disk, rcv, up, down, edits, shared>>

Disconnect(t) ==
    /\ conn[t] = "up"
    /\ Fault({t})
    /\ conn' = [conn EXCEPT ![t] = "lost"]
    /\ UNCHANGED <<src, disk, snd, rcv, up, down, edits, shared>>

\* The receiver's disk refuses the write: nothing is stored and the peer is
\* told.
WriteFails(t) ==
    /\ rcv[t].pc = "open" /\ rcv[t].out = <<>> /\ ~Terminal(rcv[t]) /\ up[t] # <<>>
    /\ OnChunk(rcv[t], Head(up[t])).store
    /\ Fault({t})
    /\ rcv' = [rcv EXCEPT ![t] = [Aborted(@) EXCEPT !.out = <<Done(FALSE)>>]]
    /\ up' = [up EXCEPT ![t] = Tail(@)]
    /\ UNCHANGED <<src, disk, snd, down, conn, edits, shared>>

\* The sink cannot be opened (a symlink, an unreadable file): the stream is
\* dropped without a reject.
OpenFails(t) ==
    /\ rcv[t].pc = "none" /\ up[t] # <<>>
    /\ Fault({t})
    /\ rcv' = [rcv EXCEPT ![t].pc = "closed"]
    /\ conn' = [conn EXCEPT ![t] = "lost"]
    /\ UNCHANGED <<src, disk, snd, up, down, edits, shared>>

\* The receiving daemon dies in the middle of a write: a prefix of the chunk
\* may be on disk, every receiver and connection is gone.
Crash(t) ==
    /\ rcv[t].pc = "open" /\ rcv[t].out = <<>> /\ ~Terminal(rcv[t]) /\ up[t] # <<>>
    /\ LET c == Head(up[t])
           n == rcv[t].slots[c.file].sink.name
       IN  \E k \in 0 .. Len(c.data) :
             disk' = IF OnChunk(rcv[t], c).store
                     THEN [disk EXCEPT ![n] = Overwrite(@, c.offset, SubSeq(c.data, 1, k))]
                     ELSE disk
    /\ LET live == {u \in Attempt : rcv[u].pc = "open" \/ conn[u] = "up"}
       IN  /\ Fault(live)
           /\ rcv' = [u \in Attempt |-> IF u \in live THEN [rcv[u] EXCEPT !.pc = "closed"] ELSE rcv[u]]
           /\ conn' = [u \in Attempt |-> IF u \in live THEN "lost" ELSE conn[u]]
    /\ UNCHANGED <<src, snd, up, down, edits, shared>>

\* The user rewrites a source file in place.
Edit(p) ==
    /\ edits < MaxEdits
    /\ edits' = edits + 1
    /\ \E n \in 0 .. MaxLen : src' = [src EXCEPT ![p] = [i \in 1 .. n |-> edits + 1]]
    /\ UNCHANGED <<disk, snd, rcv, up, down, conn, faulted, shared>>

SenderStep(t) == Start(t) \/ RecvReply(t) \/ SendChunk(t) \/ RecvProgress(t) \/ SenderLost(t)
ReceiverStep(t) == RecvOffer(t) \/ RecvChunk(t) \/ Emit(t) \/ ReceiverLost(t)
FaultStep(t) == Timeout(t) \/ Disconnect(t) \/ WriteFails(t) \/ OpenFails(t) \/ Crash(t)

Next ==
    \/ \E t \in Attempt : SenderStep(t) \/ ReceiverStep(t) \/ FaultStep(t)
    \/ \E p \in Path : Edit(p)

Spec == Init /\ [][Next]_vars

-----------------------------------------------------------------------------
(* Properties.                                                             *)

\* What each receiver has told its peer about the whole transfer.
EmitsOk(t) == ~rcv[t].done /\ rcv'[t].done /\ ~rcv'[t].aborted

\* receiver.rs finalize_completed_files: whatever the file's history - legs
\* resumed after lost connections and torn writes, a source rewritten while
\* it was being sent - FileDone{ok} is only produced when the quarantine holds
\* exactly the content that was hashed for the offer, unless another slot had
\* the same quarantine file open.
CommitIsFaithful ==
    [][\A t \in Attempt \ shared' :
          EmitsOk(t) => \A i \in DOMAIN snd[t].files :
                           disk'[snd[t].files[i].name] = snd[t].files[i].hash]_vars

\* receiver.rs on_chunk, the two re-acknowledgement paths: the sender never
\* rewinds, so a chunk that does not continue the receiver's prefix would
\* leave a hole for ever.  Resume points, windows and several files at once
\* always leave the next chunk of the stream where the receiver's prefix ends.
ChunksContinuePrefix ==
    \A t \in Attempt :
        LET of(k, i) == up[t][k].type = "chunk" /\ up[t][k].file = i
            first(k, i) == of(k, i) /\ \A j \in 1 .. k - 1 : ~of(j, i)
        IN  rcv[t].pc = "open" /\ ~rcv[t].aborted =>
            \A i \in DOMAIN rcv[t].slots :
                /\ \A k \in DOMAIN up[t] : first(k, i) => up[t][k].offset = rcv[t].slots[i].acked
                /\ snd[t].pc = "sending" =>
                       rcv[t].slots[i].acked \in snd[t].acked[i] .. snd[t].sent[i]

\* run_sender_stream / accept_offer: with sources left alone, distinct names
\* and a healthy network, disk and peer, no attempt fails, however many
\* earlier attempts broke off or still drain their streams.
NoSpuriousFailure ==
    \A t \in Attempt :
        snd[t].pc = "failed" => \/ edits > 0
                                \/ t \in faulted
                                \/ HasDuplicates(snd[t].files)
                                \/ snd[t].files = <<>>
                                \/ ~CheckLimits(snd[t].files)

SenderWaits(t) ==
    /\ SenderActive(t) /\ conn[t] = "up"
    /\ IF snd[t].pc = "sending" /\ Sendable(snd[t]) # {}
       THEN Len(up[t]) >= UpCap
       ELSE down[t] = <<>>
ReceiverWaits(t) ==
    IF rcv[t].pc = "open" /\ rcv[t].out # <<>>
    THEN Len(down[t]) >= DownCap
    ELSE up[t] = <<>> \/ rcv[t].pc = "closed"

\* run_sender_stream against run_receiver_stream: the sender writes without
\* reading and the receiver answers every chunk before it reads the next.  No
\* window, resume point, empty file or early end leaves each of them waiting
\* for the other, so an attempt never needs its 30 s timeout to end.
NoMutualWait == \A t \in Attempt : ~(SenderWaits(t) /\ ReceiverWaits(t))

Wanted(t) == {<<snd[t].files[i].name, snd[t].files[i].size>> : i \in DOMAIN snd[t].files}

Delivery == INSTANCE FileDelivery WITH
    Limit <- MaxLen,
    held <- [n \in Name |-> Len(disk[n])],
    wanted <- [t \in Attempt |-> Wanted(t)],
    outcome <- [t \in Attempt |->
        CASE SenderActive(t) -> "running" [] OTHER -> snd[t].pc]

\* The transfer implements FileDelivery: bytes in quarantine are never lost
\* or cut, and "ok" is only reported when every offered byte is held.
ImplementsDelivery == Delivery!Spec
=============================================================================
