------------------------------ MODULE Clipboard ------------------------------
(***************************************************************************)
(* Clipboard sharing between two connected machines: the platform          *)
(* clipboards and their conversions, the poll that turns a local change    *)
(* into an offer, the eager pull, the answer on the control stream or on   *)
(* the bulk plane, reassembly, and the marker that keeps an applied clip   *)
(* from being offered back.                                                *)
(*                                                                         *)
(* Bytes are short sequences of symbols; a digest is the canonical content *)
(* itself, so two digests are equal exactly when the contents are.         *)
(***************************************************************************)
EXTENDS Integers, Sequences, FiniteSets, SequencesExt, FiniteSetsExt, TLC

CONSTANTS
    Node,               \* the two machines of one session
    OsPairs,            \* the pairs of platforms considered, functions on Node
    UserClips,          \* what a user may copy: representation -> bytes
    SettingsChoices,    \* the settings a user may switch between
    ControlTextCap,     \* CONTROL_TEXT_CAP, in symbols
    MaxDataChunk,       \* MAX_DATA_CHUNK, in symbols
    MaxPendingPulls, MaxAppliedClips, PullStallTicks,
    MaxEvents           \* copies by the users, changes of settings and faults
                        \* (failed writes and dials, broken connections, reconnects)

VARIABLES
    os, bulkEnabled,    \* platforms, and whether the session has a bulk plane
    settings,           \* settings[n]: the settings the bridge holds
    clip,               \* clip[n]: native clipboard, representation -> bytes
    dirty,              \* dirty[n]: native change counter moved since last_token
    lastSeen,           \* lastSeen[n]: clipboard at last_token
    eng,                \* eng[n]: ClipboardEngine and MemContentSource
    lane,               \* lane[n]: control frames on their way to n
    bulk,               \* bulk[n]: bulk sends on their way to n
    conn,               \* conn[n]: cached bulk connection of the sender to n
    events,             \* copies, changes and faults so far
    copied,             \* copied[n]: representations the user of n copied
    written,            \* written[n]: representations the driver of n wrote
    unobserved,         \* unobserved[n]: those no poll of n ever read back
    lastOffer,          \* lastOffer[n]: representations of the newest offer
    newest              \* the newest copy, and whether it must arrive

clipboardVars == <<os, bulkEnabled, settings, clip, dirty, lastSeen, eng, lane, bulk,
          conn, events, copied, written, unobserved, lastOffer, newest>>

ASSUME BoundsPositive ==
    /\ {ControlTextCap, MaxDataChunk, MaxPendingPulls, MaxAppliedClips, PullStallTicks}
           \subseteq Nat \ {0}
    /\ MaxEvents \in Nat
    /\ ControlTextCap <= MaxDataChunk
ASSUME TwoNodes == Cardinality(Node) = 2

Other(n) == CHOOSE m \in Node : m # n

-----------------------------------------------------------------------------
(* Canonical forms (canonical.rs).                                         *)

CrlfToLf(s) ==
    LET kept == SelectSeq([i \in DOMAIN s |-> i],
                    LAMBDA i : ~(s[i] = "CR" /\ i < Len(s) /\ s[i + 1] = "LF"))
    IN  [k \in DOMAIN kept |-> s[kept[k]]]

CanonicalText(s) ==
    LET out == CrlfToLf(s)
    IN  SubSeq(out, 1, Max({0} \cup {i \in DOMAIN out : out[i] # "NUL"}))

CanonicalUriList(s) ==
    LET out == CrlfToLf(s)
    IN  IF out # <<>> /\ Last(out) = "LF" THEN Front(out) ELSE out

Canonical(f, s) ==
    CASE f = "Utf8Text" -> CanonicalText(s)
      [] f = "UriList"  -> CanonicalUriList(s)
      [] OTHER          -> s

-----------------------------------------------------------------------------
(* The platform clipboards: each stores its native form and converts on    *)
(* the way in and out.                                                     *)

\* Windows text: a lone LF becomes CRLF on write; a read stops at NUL.
LfToCrlf(s) ==
    FlattenSeq([i \in DOMAIN s |->
        IF s[i] = "LF" /\ (i = 1 \/ s[i - 1] # "CR") THEN <<"CR", "LF">> ELSE <<s[i]>>])
UntilNul(s) ==
    LET nuls == {i \in DOMAIN s : s[i] = "NUL"}
    IN  IF nuls = {} THEN s ELSE SubSeq(s, 1, Min(nuls) - 1)

\* Windows HTML carries a header in front of the fragment.
EncodeHtml(s) == <<"HEADER">> \o s
DecodeHtml(s) == IF s # <<>> /\ Head(s) = "HEADER" THEN Tail(s) ELSE s

\* macOS and Windows hold files only: other lines are dropped, the rest joined.
IsFile(line) == line \in {"file1", "file2"}
FilesOf(s) == SelectSeq(s, IsFile)
JoinLines(lines) ==
    [i \in 1 .. (IF lines = <<>> THEN 0 ELSE 2 * Len(lines) - 1) |->
        IF i % 2 = 1 THEN lines[(i + 1) \div 2] ELSE "LF"]

WinNative(f, s) ==
    CASE f = "Utf8Text" -> LfToCrlf(s) \o <<"NUL">>
      [] f = "UriList"  -> FilesOf(s)
      [] f = "Html"     -> EncodeHtml(s)
      [] OTHER          -> s
WinRead(f, s) ==
    CASE f = "Utf8Text" -> CrlfToLf(UntilNul(s))
      [] f = "UriList"  -> JoinLines(FilesOf(s))
      [] f = "Html"     -> DecodeHtml(s)
      [] OTHER          -> s

\* An empty list of files clears the macOS pasteboard and writes nothing.
MacNative(f, s) == IF f = "UriList" THEN FilesOf(s) ELSE s
MacRead(f, s)   == IF f = "UriList" THEN JoinLines(FilesOf(s)) ELSE s

\* What `write` leaves on the clipboard: the one representation, alone.
Stored(o, f, s) ==
    CASE o = "windows" -> f :> WinNative(f, s)
      [] o = "macos"   -> IF f = "UriList" /\ FilesOf(s) = <<>> THEN <<>>
                          ELSE f :> MacNative(f, s)
      [] OTHER         -> f :> s

ReadAs(o, f, s) ==
    CASE o = "windows" -> WinRead(f, s)
      [] o = "macos"   -> MacRead(f, s)
      [] OTHER         -> s

\* Absent: no such representation, no file on macOS, no bytes under X11.
Readable(o, c) ==
    {f \in DOMAIN c :
        /\ o = "macos" /\ f = "UriList" => FilesOf(c[f]) # <<>>
        /\ o = "x11" => c[f] # <<>>}

\* Wayland and X11 have no change counter: the token is the content.
ChangeToken(n) == IF os[n] \in {"wayland", "x11"} THEN clip[n] # lastSeen[n] ELSE dirty[n]

-----------------------------------------------------------------------------
(* Settings and their gates (settings.rs).                                 *)

DefaultSettings ==
    [shared |-> TRUE, text |-> TRUE, images |-> TRUE, files |-> TRUE,
     max |-> 0, native |-> TRUE, direction |-> "bidirectional"]

AllowsSend(d)    == d \in {"bidirectional", "send_only"}
AllowsReceive(d) == d \in {"bidirectional", "receive_only"}

FormatEnabled(s, f) ==
    CASE f = "Png"     -> s.images
      [] f = "UriList" -> s.files
      [] OTHER         -> s.text
CanOffer(s)   == s.shared /\ AllowsSend(s.direction)
CanReceive(s) == s.shared /\ AllowsReceive(s.direction)
WithinAutoSyncLimit(s, size) == s.max = 0 \/ size <= s.max
IsApple(o) == o = "macos"
PreferNativeSuppresses(s, local, peer) == s.native /\ IsApple(local) /\ IsApple(peer)

-----------------------------------------------------------------------------
(* Bookkeeping (tracking.rs) and reassembly (reassembly.rs).  Every origin *)
(* is the peer: a key is a representation and a digest.                    *)

Rep(f, h) == [format |-> f, hash |-> h]
KeyOf(p) == Rep(p.format, p.hash)

NewEngine == [pending |-> <<>>, applied |-> <<>>, source |-> {}]

NewPending(k, size) ==
    [format |-> k.format, hash |-> k.hash, size |-> size, buf |-> <<>>, age |-> 0]

RemovePull(pending, k) == SelectSeq(pending, LAMBDA p : KeyOf(p) # k)

\* insert: a pull of the same key starts over, the oldest make room.
InsertPull(pending, new) ==
    LET others == RemovePull(pending, KeyOf(new))
        room   == Max({0, Len(others) - MaxPendingPulls + 1})
    IN  Append(SubSeq(others, room + 1, Len(others)), new)

RetainOriginOffer(pending, keys) == SelectSeq(pending, LAMBDA p : KeyOf(p) \in keys)

ExpireStalled(pending) ==
    LET aged == [i \in DOMAIN pending |-> [pending[i] EXCEPT !.age = @ + 1]]
    IN  SelectSeq(aged, LAMBDA p : p.age < PullStallTicks)

RecordUnarmed(applied, k) ==
    Append(SelectSeq(applied, LAMBDA m : KeyOf(m) # k),
           [format |-> k.format, hash |-> k.hash, armed |-> FALSE])

\* record: a marker armed for one echo, the oldest make room.
RecordApplied(applied, k) ==
    LET others == SelectSeq(applied, LAMBDA m : KeyOf(m) # k)
        room   == Max({0, Len(others) - MaxAppliedClips + 1})
    IN  Append(SubSeq(others, room + 1, Len(others)),
               [format |-> k.format, hash |-> k.hash, armed |-> TRUE])

Armed(applied, k) == \E i \in DOMAIN applied : KeyOf(applied[i]) = k /\ applied[i].armed

NeverDisarm(applied, keys) == applied
SuppressOnce(applied, keys) ==
    [i \in DOMAIN applied |->
        [applied[i] EXCEPT !.armed = @ /\ KeyOf(applied[i]) \notin keys]]

PushAnywhere(p, d) ==
    LET buf == p.buf \o d.data
    IN  [buf |-> buf,
         result |-> IF Len(buf) > p.size THEN "error"
                    ELSE IF ~d.last THEN "more"
                    ELSE IF buf = p.hash THEN "done" ELSE "error"]

\* push: contiguous, within the offered size, whole and verified at the end.
Push(p, d) ==
    LET buf == p.buf \o d.data
        bad == \/ Len(d.data) > MaxDataChunk
               \/ d.offset # Len(p.buf)
               \/ Len(buf) > p.size
               \/ d.last /\ (Len(buf) # p.size \/ buf # p.hash)
    IN  [buf |-> buf,
         result |-> IF bad THEN "error" ELSE IF d.last THEN "done" ELSE "more"]

-----------------------------------------------------------------------------
(* The engine's decisions (engine.rs) and the daemon's filters             *)
(* (daemon/clipboard.rs).                                                  *)

Preference == <<"Png", "Rtf", "Html", "UriList", "Utf8Text">>
Formats    == <<"Utf8Text", "Html", "Rtf", "UriList", "Png">>

IsTextFormat(f) == f # "Png"
TransportFor(f, size) ==
    IF IsTextFormat(f) /\ size <= ControlTextCap THEN "control" ELSE "bulk"

SupportedEntry(e) == bulkEnabled \/ TransportFor(e.format, e.size) = "control"

\* snapshot_local: every enabled representation that can be read.
SnapshotLocal(n) ==
    LET here == SelectSeq(Formats, LAMBDA f :
                    /\ CanOffer(settings[n])
                    /\ FormatEnabled(settings[n], f)
                    /\ f \in Readable(os[n], clip[n]))
    IN  [i \in DOMAIN here |->
            Rep(here[i], Canonical(here[i], ReadAs(os[n], here[i], clip[n][here[i]])))]

\* on_local_change and supported_offer: what the offer lists.
OfferEntries(n, reps) ==
    LET fresh == SelectSeq(reps, LAMBDA k : ~Armed(eng[n].applied, k))
        entry(k) == [format |-> k.format, hash |-> k.hash, size |-> Len(k.hash)]
        entries  == [i \in DOMAIN fresh |-> entry(fresh[i])]
    IN  SelectSeq(entries, SupportedEntry)

\* best_entry: most preferred among the enabled ones within the limit.
BestEntries(s, entries) ==
    LET ok == SelectSeq(entries, LAMBDA e :
                  FormatEnabled(s, e.format) /\ WithinAutoSyncLimit(s, e.size))
        by(f) == SelectSeq(ok, LAMBDA e : e.format = f)
    IN  FlattenSeq([i \in DOMAIN Preference |-> by(Preference[i])])

ChunkData(k) ==
    LET data(o) == SubSeq(k.hash, o + 1, Min({o + MaxDataChunk, Len(k.hash)}))
        chunk(o, d) == [type |-> "data", format |-> k.format, hash |-> k.hash, offset |-> o,
                        data |-> d, last |-> o + Len(d) = Len(k.hash)]
    IN  IF TransportFor(k.format, Len(k.hash)) = "control" \/ k.hash = <<>>
        THEN <<chunk(0, k.hash)>>
        ELSE LET count == (Len(k.hash) + MaxDataChunk - 1) \div MaxDataChunk
             IN  [i \in 1 .. count |->
                     chunk((i - 1) * MaxDataChunk, data((i - 1) * MaxDataChunk))]

IsControlData(d) ==
    d.offset = 0 /\ d.last /\ TransportFor(d.format, Len(d.data)) = "control"

-----------------------------------------------------------------------------
(* The driver: one select loop per machine (run_driver).                   *)

Send(n, msgs) == lane' = [lane EXCEPT ![Other(n)] = @ \o msgs]
Reply(n, msgs) ==
    lane' = [lane EXCEPT ![n] = Tail(@), ![Other(n)] = @ \o msgs]

ghosts == <<copied, written, unobserved>>

Disturbed(b) == newest' = [newest EXCEPT !.due = @ /\ ~b]

\* The interval arm: age the pulls, and offer what changed since last_token.
Poll(n) ==
    LET reps    == SnapshotLocal(n)
        entries == OfferEntries(n, reps)
        pending == ExpireStalled(eng[n].pending)
    IN  /\ \/ /\ ~ChangeToken(n)
              /\ eng' = [eng EXCEPT ![n].pending = pending]
              /\ UNCHANGED <<dirty, lastSeen, lane>>
           \/ /\ ChangeToken(n)
              /\ dirty' = [dirty EXCEPT ![n] = FALSE]
              /\ lastSeen' = [lastSeen EXCEPT ![n] = clip[n]]
              /\ eng' = [eng EXCEPT ![n] =
                            [pending |-> pending, source |-> Range(reps),
                             applied |-> SuppressOnce(eng[n].applied, Range(reps))]]
              /\ Send(n, IF entries = <<>> THEN <<>>
                         ELSE <<[type |-> "offer", entries |-> entries]>>)
        /\ Disturbed(Len(pending) < Len(eng[n].pending))
        /\ UNCHANGED <<os, bulkEnabled, settings, clip, bulk, conn, events, lastOffer, ghosts>>

Head1(n, type) == lane[n] # <<>> /\ Head(lane[n]).type = type

\* An offer: the pulls it no longer lists are dropped, its best entry pulled.
OnOffer(n) ==
    /\ Head1(n, "offer")
    /\ LET entries == SelectSeq(Head(lane[n]).entries, SupportedEntry)
           keys    == {Rep(e.format, e.hash) : e \in Range(entries)}
           best    == BestEntries(settings[n], entries)
           k       == Rep(best[1].format, best[1].hash)
           kept    == RetainOriginOffer(eng[n].pending, keys)
       IN  \/ /\ entries = <<>> \/ ~CanReceive(settings[n])
              /\ Reply(n, <<>>)
              /\ UNCHANGED <<eng, lastOffer>>
           \/ /\ entries # <<>> /\ CanReceive(settings[n])
              /\ PreferNativeSuppresses(settings[n], os[n], os[Other(n)])
              /\ eng' = [eng EXCEPT ![n].pending = <<>>]
              /\ lastOffer' = [lastOffer EXCEPT ![n] = {}]
              /\ Reply(n, <<>>)
           \/ /\ entries # <<>> /\ CanReceive(settings[n])
              /\ ~PreferNativeSuppresses(settings[n], os[n], os[Other(n)])
              /\ lastOffer' = [lastOffer EXCEPT ![n] = keys]
              /\ IF best = <<>>
                 THEN /\ eng' = [eng EXCEPT ![n].pending = kept]
                      /\ Reply(n, <<>>)
                 ELSE /\ eng' = [eng EXCEPT ![n].pending =
                                    InsertPull(kept, NewPending(k, best[1].size))]
                      /\ Reply(n, <<[type |-> "pull", format |-> k.format, hash |-> k.hash]>>)
    /\ UNCHANGED <<os, bulkEnabled, settings, clip, dirty, lastSeen, bulk, conn, events, newest, ghosts>>

\* A pull is answered from the snapshot of the newest offer, if it is there.
AnswerPull(n, k) ==
    IF /\ CanOffer(settings[n]) /\ FormatEnabled(settings[n], k.format)
       /\ k \in eng[n].source
    THEN ChunkData(k) ELSE <<>>

OnPull(n) ==
    /\ Head1(n, "pull")
    /\ LET chunks   == AnswerPull(n, Rep(Head(lane[n]).format, Head(lane[n]).hash))
           control  == SelectSeq(chunks, IsControlData)
           bulkPart == IF bulkEnabled THEN SelectSeq(chunks, LAMBDA d : ~IsControlData(d)) ELSE <<>>
       IN  /\ Reply(n, control)
           /\ bulk' = [bulk EXCEPT ![Other(n)] =
                          IF bulkPart = <<>> THEN @
                          ELSE Append(@, [stage |-> "queued", chunks |-> bulkPart])]
    /\ UNCHANGED <<os, bulkEnabled, settings, clip, dirty, lastSeen, eng, conn, events, lastOffer, newest, ghosts>>

Reps(o, c) == {Rep(f, Canonical(f, ReadAs(o, f, c[f]))) : f \in Readable(o, c)}

\* The write that follows a completed pull: it succeeds, or leaves the old
\* clipboard, or (macOS, Windows) an emptied one.
WriteClip(n, k) ==
    LET failed == {clip[n]} \cup (IF os[n] \in {"macos", "windows"} THEN {<<>>} ELSE {})
        after(c) == /\ clip' = [clip EXCEPT ![n] = c]
                    /\ dirty' = [dirty EXCEPT ![n] = @ \/ c # clip[n] \/ c = Stored(os[n], k.format, k.hash)]
                    /\ unobserved' = [unobserved EXCEPT ![n] = @
                           \cup (IF ChangeToken(n) THEN Reps(os[n], clip[n]) ELSE {})
                           \cup (IF c = clip[n] THEN {k} ELSE {})]
    IN  \/ /\ after(Stored(os[n], k.format, k.hash))
           /\ written' = [written EXCEPT ![n] = @ \cup {k}]
           /\ UNCHANGED <<events, newest>>
        \/ /\ events < MaxEvents
           /\ events' = events + 1
           /\ \E c \in failed : after(c)
           /\ Disturbed(TRUE)
           /\ UNCHANGED written

Untouched == UNCHANGED <<clip, dirty, written, unobserved, events, newest>>

\* apply_data: feed the chunk to its pull; gates are checked again at the end.
ApplyData(n, d) ==
    LET k    == Rep(d.format, d.hash)
        hit  == {i \in DOMAIN eng[n].pending : KeyOf(eng[n].pending[i]) = k}
        i    == CHOOSE j \in hit : TRUE
        step == Push(eng[n].pending[i], d)
        rest == RemovePull(eng[n].pending, k)
        ok   == /\ CanReceive(settings[n]) /\ FormatEnabled(settings[n], d.format)
                /\ ~PreferNativeSuppresses(settings[n], os[n], os[Other(n)])
    IN  \/ /\ hit = {}
           /\ UNCHANGED eng /\ Untouched
        \/ /\ hit # {} /\ step.result = "more"
           /\ eng' = [eng EXCEPT ![n].pending[i].buf = step.buf]
           /\ Untouched
        \/ /\ hit # {} /\ (step.result = "error" \/ (step.result = "done" /\ ~ok))
           /\ eng' = [eng EXCEPT ![n].pending = rest]
           /\ Untouched
        \/ /\ hit # {} /\ step.result = "done" /\ ok
           /\ eng' = [eng EXCEPT ![n].pending = rest, ![n].applied = RecordApplied(@, k)]
           /\ WriteClip(n, k)

OnData(n) ==
    /\ Head1(n, "data")
    /\ Reply(n, <<>>)
    /\ IF IsControlData(Head(lane[n])) THEN ApplyData(n, Head(lane[n]))
       ELSE UNCHANGED eng /\ Untouched
    /\ UNCHANGED <<os, bulkEnabled, settings, lastSeen, bulk, conn, lastOffer, copied>>

-----------------------------------------------------------------------------
(* The bulk plane (clipboard_bulk.rs): every answer is sent by a task of   *)
(* its own on a stream of its own, over one cached connection.             *)

DropBulk(n, i) == bulk' = [bulk EXCEPT ![n] = RemoveAt(@, i)]

UnchangedByBulk ==
    UNCHANGED <<os, bulkEnabled, settings, clip, dirty, lastSeen, eng, lane, lastOffer, ghosts>>

\* send_chunks: dial if there is no connection; a dead one fails this send
\* and is forgotten.
SendChunks(n, i) ==
    /\ i \in DOMAIN bulk[n] /\ bulk[n][i].stage = "queued"
    /\ \/ /\ conn[n] # "broken"
          /\ conn' = [conn EXCEPT ![n] = "up"]
          /\ bulk' = [bulk EXCEPT ![n][i].stage = "open"]
          /\ UNCHANGED <<events, newest>>
       \/ /\ conn[n] = "broken"
          /\ conn' = [conn EXCEPT ![n] = "none"]
          /\ DropBulk(n, i)
          /\ UNCHANGED <<events, newest>>
       \/ /\ conn[n] = "none"
          /\ events < MaxEvents
          /\ events' = events + 1
          /\ DropBulk(n, i)
          /\ Disturbed(TRUE)
          /\ UNCHANGED conn
    /\ UnchangedByBulk

\* receive_clipboard_stream publishes the chunks of one stream in order;
\* streams interleave; the driver feeds what it takes to the engine.
OnBulkData(n, i) ==
    /\ i \in DOMAIN bulk[n] /\ bulk[n][i].stage = "open"
    /\ IF Len(bulk[n][i].chunks) = 1 THEN DropBulk(n, i)
       ELSE bulk' = [bulk EXCEPT ![n][i].chunks = Tail(@)]
    /\ ApplyData(n, Head(bulk[n][i].chunks))
    /\ UNCHANGED <<os, bulkEnabled, settings, lastSeen, lane, conn, lastOffer, copied>>

\* The connection breaks: the streams on it end where they are.
BulkBreaks(n) ==
    /\ conn[n] = "up" /\ events < MaxEvents
    /\ conn' = [conn EXCEPT ![n] = "broken"]
    /\ bulk' = [bulk EXCEPT ![n] = SelectSeq(@, LAMBDA t : t.stage = "queued")]
    /\ events' = events + 1
    /\ Disturbed(TRUE)
    /\ UnchangedByBulk

-----------------------------------------------------------------------------
(* The users, and the session.                                             *)

Quiet ==
    \A n \in Node : ~ChangeToken(n) /\ lane[n] = <<>> /\ bulk[n] = <<>>

\* The representation the peer of n should end with, if any.
Wanted(n, c) ==
    LET reps == SelectSeq(Formats, LAMBDA f : f \in Readable(os[n], c))
        entries == [i \in DOMAIN reps |->
            LET h == Canonical(reps[i], ReadAs(os[n], reps[i], c[reps[i]]))
            IN  [format |-> reps[i], hash |-> h, size |-> Len(h)]]
        best == BestEntries(DefaultSettings, SelectSeq(entries, SupportedEntry))
    IN  IF best = <<>> THEN {} ELSE {Rep(best[1].format, best[1].hash)}

RoundTrips(o, k) == k \in Reps(o, Stored(o, k.format, k.hash))

\* A user copies.  The copy must reach the peer when nothing disturbs it:
\* nothing was on its way (or it is a new content of the same user), it
\* survives the peer's conversions, and no old marker waits for it.
UserCopy(n, c) ==
    /\ events < MaxEvents
    /\ events' = events + 1
    /\ clip' = [clip EXCEPT ![n] = c]
    /\ dirty' = [dirty EXCEPT ![n] = TRUE]
    /\ copied' = [copied EXCEPT ![n] = @ \cup Reps(os[n], c)]
    /\ unobserved' = [unobserved EXCEPT ![n] = @
           \cup (IF ChangeToken(n) THEN Reps(os[n], clip[n]) ELSE {})]
    /\ newest' = [node |-> n, clip |-> c, due |->
           /\ newest.due
           /\ Quiet \/ newest.clip = <<>> \/ (newest.node = n /\ Reps(os[n], c) \cap UNION Range(copied) = {})
           /\ Reps(os[n], c) \cap unobserved[n] = {}
           /\ \A k \in Wanted(n, c) : RoundTrips(os[Other(n)], k)]
    /\ UNCHANGED <<os, bulkEnabled, settings, lastSeen, eng, lane, bulk, conn, written, lastOffer>>

ChangeSettings(n, s) ==
    /\ events < MaxEvents
    /\ s # settings[n]
    /\ settings' = [settings EXCEPT ![n] = s]
    /\ events' = events + 1
    /\ Disturbed(TRUE)
    /\ UNCHANGED <<os, bulkEnabled, clip, dirty, lastSeen, eng, lane, bulk, conn, lastOffer, ghosts>>

\* A new session: new engines, new lanes, last_token read afresh.  Streams
\* already open go on: the receiver's channel outlives the session.
Reconnect ==
    /\ events < MaxEvents
    /\ events' = events + 1
    /\ eng' = [n \in Node |-> NewEngine]
    /\ lane' = [n \in Node |-> <<>>]
    /\ dirty' = [n \in Node |-> FALSE]
    /\ lastSeen' = clip
    /\ conn' = [n \in Node |-> "none"]
    /\ bulk' = [n \in Node |-> SelectSeq(bulk[n], LAMBDA t : t.stage = "open")]
    /\ lastOffer' = [n \in Node |-> {}]
    /\ Disturbed(TRUE)
    /\ UNCHANGED <<os, bulkEnabled, settings, clip, ghosts>>

ClipboardInit ==
    /\ os \in OsPairs
    /\ bulkEnabled \in BOOLEAN
    /\ settings = [n \in Node |-> DefaultSettings]
    /\ clip = [n \in Node |-> <<>>]
    /\ dirty = [n \in Node |-> FALSE]
    /\ lastSeen = clip
    /\ eng = [n \in Node |-> NewEngine]
    /\ lane = [n \in Node |-> <<>>]
    /\ bulk = [n \in Node |-> <<>>]
    /\ conn = [n \in Node |-> "none"]
    /\ events = 0
    /\ copied = [n \in Node |-> {}]
    /\ written = [n \in Node |-> {}]
    /\ unobserved = [n \in Node |-> {}]
    /\ lastOffer = [n \in Node |-> {}]
    /\ newest = [node |-> CHOOSE n \in Node : TRUE, clip |-> <<>>, due |-> TRUE]

ClipboardNext ==
    \/ \E n \in Node :
          \/ Poll(n) \/ OnOffer(n) \/ OnPull(n) \/ OnData(n) \/ BulkBreaks(n)
          \/ \E i \in DOMAIN bulk[n] : SendChunks(n, i) \/ OnBulkData(n, i)
          \/ \E c \in UserClips : UserCopy(n, c)
          \/ \E s \in SettingsChoices : ChangeSettings(n, s)
    \/ Reconnect

ClipboardSpec == ClipboardInit /\ [][ClipboardNext]_clipboardVars

-----------------------------------------------------------------------------
(* Properties.                                                             *)

\* Loop prevention (AppliedLog): an offer on the wire lists only what the
\* user of the offering machine copied there.  The one exception is a clip
\* whose write and read back do not return what was written: the platform's
\* version of it is offered as if the user had copied it.
NoBounce ==
    \A n \in Node : \A m \in Range(lane[Other(n)]) : m.type = "offer" =>
        \A e \in Range(m.entries) :
            \/ Rep(e.format, e.hash) \in copied[n]
            \/ \E w \in written[n] : /\ ~RoundTrips(os[n], w)
                                     /\ Rep(e.format, e.hash) \in Reps(os[n], Stored(os[n], w.format, w.hash))

\* Supersession (on_offer): every pull in flight is listed by the newest
\* offer the engine looked at, so late data of an older copy finds no pull.
PullsAreCurrent ==
    \A n \in Node : \A i \in DOMAIN eng[n].pending :
        KeyOf(eng[n].pending[i]) \in lastOffer[n]

\* Reassembly (push): whatever streams, repeated pulls and breaks interleave,
\* what a pull holds is a prefix of the content its digest names.
PullsHoldPrefix ==
    \A n \in Node : \A i \in DOMAIN eng[n].pending :
        LET p == eng[n].pending[i] IN IsPrefix(p.buf, p.hash) /\ Len(p.buf) < Max({1, p.size})

\* Together: a pull in flight is wanted and what it holds is sound.
PullsAreSound == PullsAreCurrent /\ PullsHoldPrefix

\* Delivery (the whole path): once everything has settled, the newest copy is
\* on the other machine's clipboard, in the most preferred representation.
NewestCopyArrives ==
    (newest.due /\ Quiet /\ newest.clip # <<>>) =>
        LET a == newest.node
            b == Other(a)
        IN  PreferNativeSuppresses(DefaultSettings, os[b], os[a]) \/ Wanted(a, newest.clip) \subseteq Reps(os[b], clip[b])
=============================================================================
