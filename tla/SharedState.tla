---------------------------- MODULE SharedState ----------------------------
(***************************************************************************)
(* The replicated cluster state (mouser-state): devices, aliases, input    *)
(* preferences and the monitor layout with its revision, kept in an        *)
(* automerge document on every replica.                                    *)
(*                                                                         *)
(* A replica's document is the set of changes in its history; every change *)
(* remembers its causal past.  An operation is identified as automerge     *)
(* does, by a counter above everything its author had seen and, on a tie,  *)
(* by the author's random actor id.  A register holds the puts no other    *)
(* put has seen; plain reads return the one of the highest operation, and  *)
(* to put a scalar that the register already holds alone is no operation.  *)
(* Layouts are the identities of the changes that wrote them.              *)
(***************************************************************************)
EXTENDS Integers, FiniteSets, FiniteSetsExt, Sequences, SequencesExt

CONSTANTS
    Replica,        \* the device ids of the replicas
    Device,         \* devices the state is about
    Actor,          \* actor ids that new and load draw from
    MonitorCounts,  \* how many monitors an edit may list
    Prefs,          \* input preferences a user may set
    Infos,          \* metadata a device may report
    Aliases,        \* aliases a user may give
    MaxChanges,     \* bound: changes made in all
    MaxBatch,       \* bound: items of a StateChanges batch
    SnapshotCap     \* changes of the largest snapshot under SNAPSHOT_WIRE_CAP

PrefFields == {"edge_dwell_ms", "lock_on_drag", "cursor_accel", "cmd_ctrl_swap", "hotkeys"}
DeviceFields == {"name", "os"}

ASSUME StateConstants ==
    /\ Replica \subseteq Nat \ {0}
    /\ Actor \subseteq Nat
    /\ MonitorCounts \subseteq Nat
    /\ \A prefs \in Prefs : DOMAIN prefs = PrefFields
    /\ \A info \in Infos : DOMAIN info = DeviceFields
    /\ MaxChanges \in Nat
    /\ MaxBatch \in Nat
    /\ SnapshotCap \in Nat

VARIABLES
    changes,    \* every change made; a change is named by its place here
    doc,        \* replica -> the changes in its document and those waiting for others
    actor,      \* replica -> the actor id of its writes
    received    \* replica -> the well-formed changes it made, loaded or was handed

stateVars == <<changes, doc, actor, received>>

Unset == 0          \* the writer of what was never written
Absent == "absent"  \* what a field never put is read as
Garbled == -1       \* bytes that are no acceptable change
Forged == -2        \* a change with the author and number of one its receiver has

-----------------------------------------------------------------------------
(* automerge: histories, operations and registers                          *)

GenesisOps == 5

Past(c) == changes[c].past

\* Operations compare by counter, then by actor.
Precedes(a, b) ==
    \/ changes[a].first < changes[b].first
    \/ (changes[a].first = changes[b].first /\ changes[a].actor < changes[b].actor)

Winner(cs) ==
    IF cs = {} THEN Unset ELSE CHOOSE c \in cs : \A b \in cs \ {c} : Precedes(b, c)

\* Of the puts to one register, those no other has seen.
Visible(puts) == {c \in puts : \A b \in puts : c \notin Past(b)}

Heads(has) == Visible(has)

\* validate_change_bytes and Change::from_bytes accept the item.
Decodes(item) == item # Garbled

\* automerge has another change of that author and number already.
DuplicateSeq(item) == item = Forged

\* Changes in any order: those whose past is there are applied, others wait.
ApplyAll(d, cs) ==
    LET got == d.has \cup d.queue \cup cs
        ready == {b \in got : Past(b) \subseteq got}
    IN  [has |-> ready, queue |-> got \ ready]

ApplyOne(d, c) == ApplyAll(d, {c})

-----------------------------------------------------------------------------
(* Reading the document                                                    *)

\* The changes of a history that wrote an item.
Writes(has, kind, device) == {c \in has : changes[c].kind = kind /\ changes[c].device = device}

LayoutWrites(has) == {c \in has : changes[c].kind = "layout"}

HistoryChangeCount(has) == Cardinality(has) + 1

StampLess(a, b) == a[1] < b[1] \/ (a[1] = b[1] /\ a[2] < b[2])

Stamp(c) == <<changes[c].rev, changes[c].editor>>

\* resolved_lww_at, over the puts to one layout_lww register.
ResolvedLww(has, puts) ==
    LET capped == {<<Min({Stamp(c)[1], HistoryChangeCount(has)}), Stamp(c)[2]>> : c \in Visible(puts)}
    IN  CHOOSE s \in capped \cup {<<0, 0>>} : \A t \in capped : ~StampLess(s, t)

LayoutRev(has) == ResolvedLww(has, LayoutWrites(has))[1]

\* The map objects a key of layout or devices holds, each named by its creator.
Entries(has, kind, device) == {c \in Writes(has, kind, device) : changes[c].entry = c}

InEntry(has, e) == {c \in has : changes[c].entry = e}

\* Takes the entry that lost.
EnsureMapLoser(has, kind, device, new) ==
    LET there == Entries(has, kind, device)
    IN  IF there = {} THEN new ELSE CHOOSE c \in there : \A b \in there \ {c} : Precedes(c, b)

\* ensure_map: the object already there, else one the change itself creates.
EnsureMap(has, kind, device, new) ==
    LET there == Entries(has, kind, device) IN IF there = {} THEN new ELSE Winner(there)

LayoutForStamp(has, e, stamp) == Winner({c \in InEntry(has, e) : Stamp(c) = stamp})

MonitorsAt(has, e) == Winner(Visible(InEntry(has, e)))

\* As if it read only the entry automerge's own order favours.
LayoutOfWinner(has, device) ==
    LET e == Winner(Entries(has, "layout", device))
    IN  IF e = Unset THEN Unset ELSE LayoutForStamp(has, e, ResolvedLww(has, InEntry(has, e)))

\* layout: the best stamp over the entries in conflict, the first on a tie.
Layout(has, device) ==
    LET lww(e) == ResolvedLww(has, InEntry(has, e))
        stamped == {e \in Entries(has, "layout", device) : lww(e)[1] # 0}
        best == CHOOSE e \in stamped :
                    \A o \in stamped \ {e} :
                        StampLess(lww(o), lww(e)) \/ (lww(o) = lww(e) /\ Precedes(e, o))
        edit == LayoutForStamp(has, best, lww(best))
    IN  IF stamped = {} THEN Unset
        ELSE IF edit # Unset THEN edit ELSE MonitorsAt(has, best)

\* The values a field holds: of the writes that put it, those not overwritten.
Puts(writes, field) == Visible({c \in writes : field \in DOMAIN changes[c].ops})

\* A plain read of a field: the put of the highest operation.
FieldAt(writes, field) ==
    LET held == Puts(writes, field)
        op(c) == <<changes[c].ops[field], changes[c].actor>>
        last == CHOOSE c \in held : \A b \in held \ {c} : StampLess(op(b), op(c))
    IN  IF held = {} THEN Absent ELSE changes[last].value[field]

DeviceInfo(has, device) ==
    LET e == Winner(Entries(has, "device", device))
    IN  [f \in DeviceFields |-> FieldAt(InEntry(has, e), f)]

Alias(has, device) == [alias |-> FieldAt(Writes(has, "alias", device), "alias")]

InputPrefs(has) == [f \in PrefFields |-> FieldAt(Writes(has, "prefs", Unset), f)]

-----------------------------------------------------------------------------
(* Writing it                                                              *)

MonitorOps(n) == 1 + 8 * n

LastOp(has) == Max({GenesisOps} \cup {changes[c].last : c \in has})

\* Commits one change of so many operations on top of all the replica has seen.
Commit(r, kind, device, entry, rev, value, ops, count) ==
    LET c == Len(changes) + 1
        has == doc[r].has
    IN  /\ Len(changes) < MaxChanges
        /\ changes' = Append(changes,
               [kind |-> kind, device |-> device, entry |-> entry, rev |-> rev, editor |-> r,
                value |-> value, ops |-> ops, past |-> has, actor |-> actor[r],
                first |-> LastOp(has) + 1, last |-> LastOp(has) + count])
        /\ doc' = [doc EXCEPT ![r].has = @ \cup {c}]
        /\ received' = [received EXCEPT ![r] = @ \cup {c}]
        /\ UNCHANGED actor

\* automerge's put: a scalar that is the only value held is not put again;
\* hotkeys is an object, made anew each time.
IsNoOp(writes, field, new) ==
    /\ field # "hotkeys"
    /\ \E c \in Puts(writes, field) :
           Puts(writes, field) = {c} /\ changes[c].value[field] = new

\* Puts the fields in order, after so many new map objects; a call that
\* changes nothing commits no change.
CommitFields(r, kind, device, entry, order, value, writes, maps) ==
    LET put == SelectSeq(order, LAMBDA f : ~IsNoOp(writes, f, value[f]))
        op(f) == LastOp(doc[r].has) + maps + (CHOOSE i \in DOMAIN put : put[i] = f)
    IN  /\ maps > 0 \/ put # <<>>
        /\ Commit(r, kind, device, entry, 0, value, [f \in Range(put) |-> op(f)], maps + Len(put))

SetLayout(r, device, n) ==
    LET new == Len(changes) + 1
        entry == EnsureMap(doc[r].has, "layout", device, new)
        maps == IF entry = new THEN 3 ELSE 1
    IN  Commit(r, "layout", device, entry, LayoutRev(doc[r].has) + 1, <<>>, <<>>,
               maps + 2 * MonitorOps(n) + 2)

SetDevice(r, device, info) ==
    LET new == Len(changes) + 1
        entry == EnsureMap(doc[r].has, "device", device, new)
    IN  CommitFields(r, "device", device, entry, <<"name", "os">>, info,
                     InEntry(doc[r].has, entry), IF entry = new THEN 1 ELSE 0)

SetAlias(r, device, alias) ==
    CommitFields(r, "alias", device, Unset, <<"alias">>, [alias |-> alias],
                 Writes(doc[r].has, "alias", device), 0)

SetInputPrefs(r, prefs) ==
    CommitFields(r, "prefs", Unset, Unset,
                 <<"edge_dwell_ms", "lock_on_drag", "cursor_accel", "cmd_ctrl_swap", "hotkeys">>,
                 prefs, Writes(doc[r].has, "prefs", Unset), 0)

-----------------------------------------------------------------------------
(* Exchanging it                                                           *)

\* changes_since: all but the heads the asker named and what they have seen.
ChangesSince(has, heads) ==
    has \ UNION {{h} \cup Past(h) : h \in heads \cap has}

\* missing_deps: what the heads and the waiting changes lack.
MissingDeps(d, heads) ==
    (heads \cup UNION {Past(c) : c \in d.queue}) \ (d.has \cup d.queue)

\* A batch that is given up at the first item refused.
ApplyUntilError(d, batch) ==
    LET refused == {i \in DOMAIN batch : ~Decodes(batch[i]) \/ DuplicateSeq(batch[i])}
    IN  FoldLeft(ApplyOne, d, SubSeq(batch, 1, Min(refused \cup {Len(batch) + 1}) - 1))

\* apply_changes: each item on its own, those that do not decode or are
\* forged skipped.
ApplyChanges(d, batch) ==
    FoldLeft(ApplyOne, d, SelectSeq(batch, LAMBDA item : Decodes(item) /\ ~DuplicateSeq(item)))

\* The changes of the cluster in a batch.
WellFormed(batch) == ToSet(batch) \cap DOMAIN changes

\* A StateDelta or StateChanges arrives: late, again, out of order, damaged
\* or with a forgery of a change r already has.
HandChanges(r, batch) ==
    /\ Forged \in Range(batch) => doc[r].has # {}
    /\ doc' = [doc EXCEPT ![r] = ApplyChanges(@, batch)]
    /\ received' = [received EXCEPT ![r] = @ \cup WellFormed(batch)]
    /\ UNCHANGED <<changes, actor>>

\* A StateRequest with r's heads is answered in full by s.
Answer(r, s) ==
    LET reply == ChangesSince(doc[s].has, Heads(doc[r].has))
    IN  /\ doc' = [doc EXCEPT ![r] = ApplyAll(@, reply)]
        /\ received' = [received EXCEPT ![r] = @ \cup doc[s].has]
        /\ UNCHANGED <<changes, actor>>

\* r asks s for what its waiting changes and the heads of s lack.
FetchMissing(r, s) ==
    LET asked == MissingDeps(doc[r], Heads(doc[s].has)) \cap doc[s].has
    IN  /\ asked # {}
        /\ doc' = [doc EXCEPT ![r] = ApplyAll(@, asked)]
        /\ received' = [received EXCEPT ![r] = @ \cup asked]
        /\ UNCHANGED <<changes, actor>>

\* snapshot_for_wire and load: refused when the history outgrew the cap.
SnapshotFits(has) == Cardinality(has) <= SnapshotCap

\* r merges the snapshot of s.
Merge(r, s) ==
    /\ SnapshotFits(doc[s].has)
    /\ doc' = [doc EXCEPT ![r] = ApplyAll(@, doc[s].has)]
    /\ received' = [received EXCEPT ![r] = @ \cup doc[s].has]
    /\ UNCHANGED <<changes, actor>>

FreshActors == Actor \ (Range(actor) \cup {changes[c].actor : c \in DOMAIN changes})

\* r restarts: nothing of the document is kept, new draws another actor.
New(r) ==
    /\ \E a \in FreshActors : actor' = [actor EXCEPT ![r] = a]
    /\ doc' = [doc EXCEPT ![r] = [has |-> {}, queue |-> {}]]
    /\ received' = [received EXCEPT ![r] = {}]
    /\ UNCHANGED changes

\* r starts over from the snapshot of s.
Load(r, s) ==
    /\ SnapshotFits(doc[s].has)
    /\ \E a \in FreshActors : actor' = [actor EXCEPT ![r] = a]
    /\ doc' = [doc EXCEPT ![r] = [has |-> doc[s].has, queue |-> {}]]
    /\ received' = [received EXCEPT ![r] = doc[s].has]
    /\ UNCHANGED changes

StateInit ==
    /\ changes = <<>>
    /\ doc = [r \in Replica |-> [has |-> {}, queue |-> {}]]
    /\ actor \in Injection(Replica, Actor)
    /\ received = [r \in Replica |-> {}]

Items == {"layout", "device", "alias", "prefs"}

\* A behaviour writes one kind of item: the kinds share only the history.
Write(r, item) ==
    \/ item = "layout" /\ \E d \in Device, n \in MonitorCounts : SetLayout(r, d, n)
    \/ item = "device" /\ \E d \in Device, info \in Infos : SetDevice(r, d, info)
    \/ item = "alias" /\ \E d \in Device, alias \in Aliases : SetAlias(r, d, alias)
    \/ item = "prefs" /\ \E prefs \in Prefs : SetInputPrefs(r, prefs)

\* Refused items come before the change they must not hold up: behind it they
\* do nothing, and each further change is as good as a batch of its own.
Batches ==
    LET refused == UNION {[1..k -> {Garbled, Forged}] : k \in 0..(MaxBatch - 1)}
    IN  {Append(items, c) : items \in refused, c \in DOMAIN changes}

StateNext(item) ==
    \E r \in Replica :
        \/ Write(r, item)
        \/ \E batch \in Batches : HandChanges(r, batch)
        \/ New(r)
        \/ \E s \in Replica \ {r} : Answer(r, s) \/ FetchMissing(r, s) \/ Merge(r, s) \/ Load(r, s)

-----------------------------------------------------------------------------
(* Properties                                                              *)

\* The layout a replica reads, and the revision it reports, are those of the
\* highest (rev, editor) among all edits in its history, however its entries
\* came to conflict and in whatever order they were merged (layout,
\* resolved_lww_at, set_layout).
NewestEditWins ==
    \A r \in Replica :
        LET has == doc[r].has
            newest(cs) == {c \in cs : \A b \in cs : ~StampLess(Stamp(c), Stamp(b))}
        IN  /\ \A c \in newest(LayoutWrites(has)) : LayoutRev(has) = changes[c].rev
            /\ \A d \in Device :
                   LET edits == Writes(has, "layout", d)
                   IN  edits # {} => Layout(has, d) \in newest(edits)

\* Every field of a device's metadata, of its alias and of the preferences is
\* read as a writer nobody has superseded wanted it, although what that
\* writer found in place was not written again, and although entries of one
\* device may be in conflict: no overwritten value comes back. Fields of two
\* concurrent writers may be read together (set_device, set_alias,
\* set_input_prefs).
ReadsAreCurrent ==
    \A r \in Replica :
        LET has == doc[r].has
            current(reading, writes) ==
                \A f \in DOMAIN reading :
                    IF writes = {} THEN reading[f] = Absent
                    ELSE \E c \in Visible(writes) : reading[f] = changes[c].value[f]
        IN  /\ current(InputPrefs(has), Writes(has, "prefs", Unset))
            /\ \A d \in Device :
                   /\ current(DeviceInfo(has, d), Writes(has, "device", d))
                   /\ current(Alias(has, d), Writes(has, "alias", d))

\* Together: what is read is of the newest writer, or of one of the newest.
NewestIsRead == NewestEditWins /\ ReadsAreCurrent

\* Every change a replica was handed is in its document once all that change
\* depends on has arrived too, and nothing else is: a damaged, forged,
\* repeated or early item holds up nothing (apply_changes, changes_since,
\* missing_deps).
DeliveredIsApplied ==
    \A r \in Replica :
        doc[r].has = {c \in received[r] : Past(c) \subseteq received[r]}
=============================================================================
