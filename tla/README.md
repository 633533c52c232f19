# Mouser: TLA+ models

Mouser is a software KVM written in Rust: one keyboard and mouse drive several
machines. This directory models the parts of it that carry its own logic: who owns
the input, how machines find, trust and join each other, what travels between them
(input, clipboard, files, the shared layout), and how the three platform adapters
capture and inject. Paths below are relative to the repository root (`src/` in
`PROJECT.json`).

## 1. The system

| Part | State | Operations | Talks to |
|---|---|---|---|
| Ownership token (`mouser-core/ownership.rs`) | owner, epoch, focus, origin of the epoch | `grant_to`, `reclaim`, `observe` | the engine core; peers through `OwnershipTransfer` |
| Election (`mouser-core/election.rs`) | held lease with its deadline, highest term seen | `on_lease`, `on_claim`, `on_yield`, `tick`, `start_claim` | library only: no caller in the repository |
| Engine core (`mouser-engine/core*.rs`) | ownership view, outgoing counters, replay guard, held keys, authorisation, rate tokens, pending ack, virtual peer cursor, arm flags, missed heartbeats | local input, control frames, motion, tick, injection failure, missing suppression; each returns a list of actions | the runtime |
| Runtime (`mouser-engine/runtime*.rs`) | the core behind a mutex, outbound / mode / owner channels, death flag and reason | sender, control and motion receivers, ticker, mode task, capture callback, `shutdown` | core, connection, platform adapters, session loop |
| Serve loop (`daemon/serve*.rs`, `reconnect.rs`, `pairing.rs`) | intent, target, the dial and accept in flight, pairing prompt, queued commands | next_connection, explicit dial, redial, accept_trusted, session | network, IPC bridge, trust store, runtime |
| IPC server and bridge (`mouser-ipc`, `daemon/ipc_bridge.rs`) | client slots, watch channel with the snapshot, command queue, bridge state | drain, forward, apply a command, publish | apps, MCP, CLI; serve loop; store |
| Trust store (`daemon_store.rs`) | the trusted-peers file, settings, identity | load, trust, save, reset | serve loop, bridge, CLI |
| Discovery (`mouser-net/discovery.rs`, `mouser-engine/discovery.rs`) | advertised interfaces, registry | advertise, browse events, nudge | mDNS, serve loop, bridge |
| Clipboard (`mouser-clipboard`, `daemon/clipboard*`) | offers, pending pulls, reassembly buffers, echo markers, cached bulk connection | poll, offer, pull, data, apply, expire | control lane, bulk connection, platform clipboard |
| Files (`mouser-files`, `daemon/file_transfer.rs`) | windows, resume points, quarantine file | offer, accept, chunk, ack, finish, abort | bulk connection, disk |
| Shared state (`mouser-state`) | an automerge document: devices, aliases, preferences, layout with its revision | set, read, delta, merge, snapshot, load | library only |
| Platform adapters (`platform-*`) | capture threads and generation, hooks, queue, held modifiers, parked cursor, overlay | `set_mode`, `stop`, capture callbacks, inject, cursor | runtime, the operating system |
| Connections (`mouser-net`) | QUIC connection, writer queue, receive buffer, motion slot and plane, session ids | dial, accept, hello exchange, send and receive, motion pump, bulk dial and accept | serve loop, runtime, clipboard, files |
| Apps, FFI | user interface | commands | IPC server |

What is hard about it:

* two machines mint ownership epochs independently, and a grant, its refusal and
  a reclaim pass each other on the wire, while motion travels in datagrams that are
  lost, duplicated and reordered;
* the core is unlocked before the actions it returned are applied, so the actions
  of several tasks interleave, and the platform may refuse any of them;
* both machines dial, accept, pair, redial and take over control at once, in
  `select!`s that drop the futures that lose;
* the connection dies under several tasks at once; a peer may hang without closing;
* the two ends of a new connection wait for each other's first frame, futures of a
  send or receive are dropped in the middle of a frame, and bulk connections are
  accepted for a session that may be over by then;
* a clip written from the peer is seen by the next poll as a local copy;
* transfers break off and resume while older attempts still drain their streams,
  and the sender's and receiver's flow control may wait for each other;
* several tasks publish snapshots of state that others change, and several
  processes rewrite the trust file in place;
* capture threads of an abandoned mode are not joined, callers of `set_mode`
  overlap, and starting a mode fails half way;
* replicas create the same entry of the shared document concurrently.

`PROJECT.json` lists the hazards at their lines with the properties that would
notice them.

## 2. The modules

```
Ownership ──┬── OwnershipCluster ── OwnershipProofs
            └── EngineCore ──┬── Session ── SessionProofs
                             └── Runtime
Election ── ElectionProofs
OwnershipCluster, Election ── Coordination
Runtime, Clipboard ── SessionServices
Transport, RuntimeLife ── ConnectionLife ── TransportProofs
FileTransfer ── implements ── FileDelivery
           └── FileTransferProofs
Connect ── ConnectProofs
Discovery ── ControlPlane ── ControlPlaneProofs
CaptureModes, CaptureEvents, Pointer, SharedState ── Periphery
```

* **Ownership**: `ownership.rs` as functions on one view. Device ids are numbers
  (the code compares 32-byte ids), the epoch saturates at `EpochMax` (`u64::MAX`).
* **OwnershipCluster**: any number of views. Announced claims stay deliverable for
  ever, to anyone, so loss, duplication and reordering come for free.
* **EngineCore**: each public handler of `EngineCore` is an operator from a core
  and its input to the next core and the actions, in the order the code returns
  them. One axis of the screen is kept, with the peer across the right edge: the
  other three orientations are mirror images. "No value" is 0 for optional epochs
  and counters. Two things are folded: the counter of missed heartbeats stops at
  its limit, and the source's heartbeats to the target are not sent (the target
  resets a counter it never reads).
* **Session**: two cores, the control stream and the datagrams; a handler and the
  application of its actions are one step. `can_suppress` and the injections that
  `FailKinds` names are the platform's choices; `Hang` stops the target. The
  variables `applied`, `os_keys` and `forwarded` are what the target's desktop and
  an observer of the source would see.
* **Runtime**: the same core on the source, but every task applies its action list
  step by step after the unlock (`todo`). `platform` says which one deficiency the
  source's platform has, if any. The peer's steps are atomic. Motion has no effect
  here and is left out.
* **RuntimeLife**: `DeathState::mark` and `wait` statement by statement, the
  session's select loop, and `shutdown` racing the mode task.
* **Transport**: one initiator and one acceptor. Each dial attempt is a connection with
  two ends; an end has its handshake stage, the writer's queue, the bytes under way to
  it, its receive buffer, and what it sent and returned. A session frame is two parts,
  so that reads, cancelled receives, closes and lost paths can cut it. Beside it the
  candidate loop with its timeouts and error report, `serve`'s accept and its watch
  channel for the bulk acceptor, the motion pump with its slot and plane, and the bulk
  acceptor with the session it holds. A scene fixes what answers at each address, who
  refuses whom, and how much is sent.
* **ConnectionLife**: one specification for the last two (they share no state).
* **Election**: nodes with their own clocks: a held lease carries the time it has
  left on its holder's clock. Every operation may be called at any time, since the
  repository has no caller.
* **Coordination**: one specification for `OwnershipCluster` and `Election`, which share
  no state: a behaviour follows one of the two.
* **FileDelivery**: what a file transfer promises. The length held of each name only
  grows, an attempt fixes the set of names and lengths it wants when it begins, and it
  ends once: failed at any time, or ok when everything it wants is held.
* **FileTransfer**: `run_sender_stream`, `run_receiver_stream`, sender, receiver and
  sink state, with attempts that overlap; content is a sequence of model bytes whose
  digest is itself. Faults: a lost connection, a timeout, a failed write, a crash in
  the middle of a write; a source may be rewritten while it is sent.
* **Clipboard**: two machines with the engine (offers, supersession, pulls,
  reassembly, markers), the daemon's driver and routing, the bulk plane with its
  cached connection, and the platform clipboards with what they really store
  (line ends, file lists, canonical forms).
* **SessionServices**: one specification for `Runtime` and `Clipboard`, in the same way.
* **Connect**: two daemons: `serve`'s loop, `next_connection`'s select over dial,
  accept and commands, explicit and redialled connections, pairing with its guard and
  timeout, disconnects, restarts, and resets, whose second file may fail to go after the
  first. A connection has an end on each side.
* **Discovery**: interfaces advertised, records resolved one address family at a
  time, the nudge, the registry and its change signal.
* **ControlPlane**: client tasks of the IPC server with their half-read frames and the
  ways to lose one, the command queue, `apply_command` and the reports of the serve loop, publication of
  snapshots by three tasks, the trust file written in two steps, CLI and MCP clients.
  A bound record opens one part of it (clients, store, sessions, network) per
  behaviour, since all parts at once cannot be enumerated.
* **CaptureModes**: `set_mode`, `stop` and the start of threads, taps, hooks and
  readers of the three platforms, lock section by lock section.
* **CaptureEvents**: the path of a key, modifier, button or motion from the tap,
  hooks or evdev reader through queue and worker to the peer's injector. Motion on
  Windows is raw deltas, points of the hook, or both, by what the last packet was from.
  `made` and `localX` are how far the user has moved and where that has brought the
  local cursor, `moved` and `skipped` how far the peer's pointer has come and what went
  into the first point of a capture, which is only a baseline.
* **Pointer**: display ids and arrangements, pixel to 16-bit fraction and back,
  `move_cursor`, hiding (parking, overlay) and showing, at real screen sizes.
* **SharedState**: automerge as a set of changes with their causal past and
  automerge's order of operations; on it the writes, reads and exchanges of
  `mouser-state`, including restarts and changes that come early, twice, damaged or
  forged. Preferences and device metadata are written field by field: automerge puts no
  scalar again that a register already holds alone, so a change has the operations of
  the fields it alters only.
* **Periphery**: one specification for the last four; a behaviour exercises one part
  (they share no state), and of the shared state one kind of item. Where the replicas'
  own ids play no part (all items but layouts), their actor ids start in one order
  (`ActorsInOrder`): another order is the same behaviour with the replicas renamed.

Each handler of the code is one operator or action of the same name (`on_transfer`
is `OnTransfer`); `PROJECT.json` "map" gives the lines. The definitions commented
*Mutant* or *As if* (and those "mutants" names) are deliberately wrong variants of the
definition that follows them and are used by nothing: substituted for it, each makes
the property it belongs to fail, which shows that the property depends on that code.

## 3. The runs

| Run | Instance | Shows |
|---|---|---|
| `coordination` | ownership: 3 devices, epochs to 3; election: 3 nodes, ttl 2, terms to 2, 4 campaigns | `OwnersAreGenuine`, `LeadershipIsGenuine`, `PartitionHeals`, `YieldSparesLiveLeader` |
| `session_handoff` | 4-pixel screen, two crossings (`MaxCross` 3), 2 datagrams, target may refuse motion, peer may ping and say goodbye | `NoTwoDrivers`, `HandoffIsCoherent`, `FreshInjections` |
| `session_input` | one key and scrolling, one token, two events per epoch, two crossings, with and without suppression | `KeysMirrored`, `NoCrossLoop` |
| `session_liveness` | motion only, one crossing, target may refuse motion, with and without suppression; fair | `InputComesBack` |
| `session_services` | runtime: four platforms, one crossing; clipboard: two machines (windows–x11 and macos–macos), three clips, limits of 2, three events (copies, settings, faults) | `WireIsCoherent`, `FailsClosed`, `NoBounce`, `PullsAreSound`, `NewestCopyArrives` |
| `connection_life` | a dial past a dead address and a stranger; a Hello refused by either end; two frames each way, one lost path; three motion samples with and without datagrams; two sessions with two bulk dials; and three network tasks with two other branches of the session's select, fair | `HandshakeIsMutual`, `ControlIsFramed`, `NewestMotionLeaves`, `BulkIsBound`, `DeathIsSeen` |
| `file_transfer` | two attempts that may overlap, two files of 1 and 2 chunks, a bad name, window 1, one fault, one rewrite of a source | `ChunksContinuePrefix`, `NoSpuriousFailure`, `NoMutualWait`, `CommitIsFaithful`, `ImplementsDelivery` |
| `connect` | two machines in three combinations of roles, two events (clicks, faults, resets); fair | `IntentControls`, `NothingLeaks`, `CompleteResetEnds`, `Settles` |
| `connect_reset` | the same, one event | violates `UntrustedSessionEnds` (see below) |
| `control_plane` | two clients, two peers, seven bound records | `SeenCommandsAreRead`, `PublishedIsCurrent`, `TrustIsApproved`, `RegistryTracksNetwork` |
| `control_plane_drain` | two clients, the bound record of the wire | violates `DrainedBeforeDropped` |
| `periphery` | two callers and three calls of `set_mode`, one failing start; four inputs over three platform pairs and a queue of 3; two tasks and four cursor operations on three arrangements; two replicas with three changes and a restart | `ModeIsReal`, `CaptureIsFaithful`, `ClicksLandInPlace`, `PointerLandsWhereSent`, `CursorComesHome`, `NewestIsRead`, `DeliveredIsApplied` |

A property that is a conjunction (`OwnersAreGenuine`, `HandoffIsCoherent`,
`InputComesBack`, `WireIsCoherent`, `DeathIsSeen`, `LeadershipIsGenuine`,
`PullsAreSound`, `NothingLeaks`, `HandshakeIsMutual`, `CaptureIsFaithful`,
`NewestIsRead`) has its parts defined and explained just above it; the type invariants
are parts of the first ones.

**Two runs end in a counterexample.** Each states what a comment of the code says, and
what the code does is in the model that the passing runs use:

* `UntrustedSessionEnds` (`ipc_bridge.rs:398-399`, a session with an untrusted peer "must
  not linger"): `reset_data` removes the trust file, then the settings file
  (`daemon_store.rs:157-158`). If the second fails, the peers are untrusted and line 412
  logs "store left unchanged" without a `Disconnect`. What holds is
  `CompleteResetEnds`: of a reset that did not fail half way.
* `DrainedBeforeDropped` (`server.rs:282-288`, "reading first guarantees"): a command that
  arrives between the poll and the write to a client that has closed is lost, and so is
  one whose length had been read when a snapshot won the `select!` (`read_message` is
  not cancel-safe). What holds is `SeenCommandsAreRead`: of a command that was whole when
  its task last looked.

`ImplementsDelivery` is the refinement: `FileTransfer` under the mapping at the end of
its module is a behaviour of `FileDelivery`.

**Bounds.** `MaxCross` stops handing input over from that epoch on (3 allows two
complete crossings, so every epoch meets the leftovers of the one before; 1 allows
one, which in `Runtime` is already a crossing and a reclaim whose actions
interleave). `MaxCtr`, `MaxSeq`, `MaxDgrams` bound events, motion samples and
datagrams in flight per epoch: two of each are what it takes to be reordered, and
one token with two events exhausts the rate cap. `HeartbeatMissLimit` and
`OwnershipAckTicks` are 1 and 0 or 2 and 1 instead of 3 and 2: the limits are only
compared with counters. Screen widths 4 and 2 and a margin of 1 (or 0, so that one
sample leaves the edge and comes back) reach every branch of the edge logic.
Unasked frames of the peer are sent on an empty stream only; in `Runtime` one
heartbeat is on its way at a time and a warp is refused once. The instances type keys
and scroll; a mouse button takes the path of a key that never repeats. `EpochMax` 20
is never reached in `Session` and `Runtime`; in `OwnershipCluster` operations stop at
it, so saturation itself is not exercised (2^64 handoffs).
In `Transport` the writer's channel holds 2 frames instead of 64, and only the frames
of a session are split (a handshake message cut short ends the handshake as a missing
one does). In `FileTransfer` a window of one chunk makes every file wait for acknowledgements and
the capacities (`UpCap`, `DownCap`) stand for QUIC's flow control. In `Clipboard` the
limits are 2, so three clips evict; `PullStallTicks` 2 lets data arrive between the
ticks. `MaxEvents` bounds what users and faults do, never what the daemons do in
response. In `Periphery`, `MaxChanges` 3 is two concurrent creations of an entry and a
later edit, and the third actor is what a restart draws; three metadata records of a
device are what two concurrent changes of different fields take. The changes of a batch
are applied one after the other, so a batch has one, behind what is refused. Four inputs
over a queue of 3 are a chord with one event more, and an overflow with or without
motion in the queue; the cursor starts a capture in one of two places (`Corners`), so
that the first point may lie far from the last of the capture before. In `Election` four
campaigns (`MaxClaims`) are two rivals in each term, or three and one that is elected
anew.

**Fairness.** `Session`: weak fairness of the tickers (timers), the control receivers
(woken by the stream) and the mode task's report. `RuntimeLife`: running code goes on,
a woken task is polled. `Connect`: weak fairness of every daemon step that needs no
user, strong fairness of the dial and accept steps, which races keep interrupting but
which jittered delays let through now and then. The user, the platform, the datagrams,
the failure of a connection and the end of a session are never promised. The target's
tasks owe nothing once it hangs.

**Deadlock** is checked in `coordination`, `session_services` and the session runs; the
other models end when their bounds are used up.

## 4. What is proved

With TLAPS, for every set of machines, clients, files and attempts and for every bound.
Each module states its inductive invariant before the proofs; TLC checked each of them
on the run's instance first. In all of them the properties of section 3 are too weak to
be inductive: they speak of the moment when something has arrived, and the invariant
says what holds of everything still on its way to it.

* **OwnershipProofs**, from `OwnershipAssumption` (ids are naturals). `ViewsTyped` and
  `Provenance` are inductive together. `ReclaimRaceConverges` follows from them:
  when two devices at one epoch name different owners, each of their claims is
  announced, both are reclaims, so the device with the higher owner would accept
  the other's claim, and the cluster is not settled. `EpochNeverRegresses` and
  `GrantStands` are action properties of one view, which are proved and not in a run: each action is
  shown to respect them. `Genuine` puts the invariants together as the run checks them.
* **ElectionProofs**, from `ElectionAssumption`. The inductive invariant is
  `TypeOK /\ LeadersAreElected /\ TermsAreSeen /\ YieldIsFinal /\ YieldsAreSeen`;
  the last conjunct (who yielded a term has seen it) is the strengthening that
  makes `YieldIsFinal` inductive, because a new campaign starts above `seen_term`.
  `Genuine`, `PartitionHeals` and `YieldSparesLiveLeader` follow from it.
* **SessionProofs** (`OneDriver`, `NoReplay`, `NoCrossingBack`, `PendingStands`,
  `HandoffAgrees`, `KeysFollow`), from `SessionAssumption` and `EngineAssumption` (bounds
  are naturals, inputs are well formed, and crossings stop before the last epoch of a
  `u64`). First every handler of
  `EngineCore` is characterised by a lemma (what it does to the token, the guard and the
  pending grant, and which actions it may return); `SessionInv` then adds to the types
  that every claim on its way to the target is one the source has made (`WireInv`), that
  the target *follows* the source's token until its platform refuses an injection
  (`FollowInv`), and that whatever was injected is covered by the replay guard
  (`AppliedInv`: its epoch is over, or the guard has counted past it). `SessionNext`
  says that every step is one of the source, of the target or of the wire alone, and what
  each puts on the streams; on these three steps stand `TokenInv` (until its platform
  refuses, the target claims nothing, and it is behind only while the source's claim is on
  its way) and `HandInv` (the machines take turns, the target owns the odd epochs; while it
  is behind, the claim or its refusal is on its way and a grant is pending; a blocked
  target is at most one epoch ahead, and then its own claim is on its way). With both
  streams empty nothing is on its way, and what is left of them is `HandoffIsCoherent`.
  `MirrorInv` is about keys: input follows its epoch's claim with growing counters and is
  ahead of the guard (`OrderInv`), the guard has counted no further than the source
  (`CountInv`), a key the core takes for held is down on the desktop, so that a shed
  repeat loses nothing (`HeldInv`), and the last transition of each key is the newest on
  its way or shown (`KeyInv`). With `TokenInv`, a transition that arrives is let through.
* **TransportProofs** (`FramesArriveInOrder`, `HandshakeCompletes`, `PumpKeepsNewest`,
  `BulkBelongsToSession`), of `ConnectionLife`'s specification, from
  `TransportConstants`. `StreamInv` relates the two ends of an attempt: what the one
  has queued, written, has under way and buffered, appended to what the other returned,
  is what was sent, with a cut frame only at the end of a dead stream; and the stage of
  one end bounds the stage of the other. `DialInv` says that later candidates are
  untouched; `MotionInv` and `BulkInv` cover the pump and the bulk acceptor.
* **ConnectProofs** (`IntentIsKept`, `SelectLeaksNothing`, `ResetEndsSessions`, the last
  of `CompleteResetEnds`), from
  `NodesOrdered`, `BoundIsNat`, `RolesAreRoles`. `ConnectInv` adds what a machine may
  hold in each phase of its loop (`Fits`: under an intent nothing inbound is held and
  every handshake is with its peer) and that a peer past the pin check is trusted unless
  a Disconnect is on the way or a reset is at work or has failed half way (`TrustInv`),
  which must hold already while a dial or an accept is in flight.
* **ControlPlaneProofs** (`SeenIsRead`, `WatchCatchesUp`, `OnlyApprovedIsTrusted`,
  `RegistryFollows`), from
  `DefaultIsSetting`, `BoundsAreOfPeers` and `IfacesAreKnown`. `ClientInv`: a task that
  is about to write found no whole frame when it looked. `TrustInv`: not only
  the file but every half-written file and every queued decision is backed by an
  approval. `SnapInv`: the snapshot is current or a publication is on its way. `NetInv`: every reported address of
  a live machine is in the registry or in an event not yet applied, with no removal or
  older port behind it; a record that is gone is followed by nothing that revives it; and
  the missing family is reported, asked for, or its nudge is ahead.
* **FileTransferProofs** (`ChunksContinue`, `CommitsAreFaithful`,
  `TransferImplementsDelivery`), from `LimitsAreNatural` and `PlansAreOfPaths`.
  `TransferInv` has for each attempt and file a *chain*: the chunks on the stream follow
  each other without a gap from the receiver's prefix to what the sender sent, whose
  acknowledgements lag behind both; no answer on its way claims more than the slot holds,
  and a `FileDone{ok}` anywhere means that everything offered is held. `FaithInv` adds
  that a slot that shared its file with nobody has hashed exactly what the disk holds.
  The refinement is then step by step: a sender's start, success and failure are
  `FileDelivery`'s actions, a write or the part of it a crash left extends one file,
  everything else is a stutter. `AckWindowFits` is not used.
* **PeripheryProofs** (`ThreadsFollowMode`, `CursorReturns`, `EventsAreFaithful`,
  `ClicksStayInPlace`), from
  `CallBounds`, `InputBounds` and `PathsArePlatforms`.
  `ModesInv` has a part per platform. Linux: a reader runs exactly while the run holds
  it. Windows: what every thread is doing, by where the one caller that holds the mutex
  is. macOS, where nothing is held across a call: each call has its generation to
  itself, a thread that watches is held by the run, by the call about to stop it or by
  the call that has still to claim it, what the run holds is of its own generation and
  makes up its mode, and the current call has done exactly what the run shows. At rest
  nobody is about to do anything, and what is left is `ModeIsReal`. `CursorInv` adds
  that a hide waiting for the lock has read a position and that the command in the
  overlay's mailbox is what the last call wants. `PathInv` follows an event from the
  keyboard to the target. `MirrorsAre` says per platform how far each copy of the
  modifiers may lag behind the keyboard (Linux: by what the reader's buffer holds), so
  that two Ctrl keys down are noticed, on Linux by the end of the reader's round. `UpIsFreed` says that a key which is up but
  held on the target, or pressed by an event that waits or among its modifiers, has a
  release waiting behind that; enqueueing, dropping and merging motion, and handing over
  keep this (`FreedAppended`, `FreedDropped`, `FreedReplaced`, `FreedPopped`).
  `QueueIsComplete` numbers what waits in the Windows queue: there is an assignment of
  the user's transitions to places in the queue (`Loosely`) and of distances to them
  (`Exactly`) that continues what was handed over to all that was made. A delta adds to
  the distance and a point sets it, less the `Base` by which the local cursor runs ahead.
  For that the worker must turn a point back into the same distance, which it does
  because the last point it handed over is where the pointer is (`MotionIsKnown`): no
  delta can have come between them, since what kinds of motion wait is on record, and a
  capture in which both kinds ever wait is `mixed`. The first point of a capture puts the
  distance so far into `skipped`. With the queue empty these are `NoStuckKey` and
  `ClicksLandInPlace`.

Only model-checked:

* all liveness (`InputComesBack`, `DeathIsSeen`, `Settles`): fairness and `ENABLED` are
  outside the prover's reach;
* the `Runtime` properties, whose cores differ from their own dispatched actions;
* `NoMutualWait`, which needs sums of chunks in flight over all files, and
  `NoSpuriousFailure`, which needs the contents of all earlier attempts at a name: both
  are inductions over data;
* `Clipboard`, and of `Periphery` the pixel arithmetic and the replicas
  (`PointerLandsWhereSent`, `NewestIsRead`, `DeliveredIsApplied`);
* the two statements that fail, whose counterexamples TLC finds.

Where the model uses a library operator that is recursive inside (`SelectSeq`,
`FoldSet`), the proofs use no more than what the definition gives without induction.

## 5. Known limits of the code

Behaviours met while modelling that a property excuses, or that its bounds or an
assumption keep out. The models contain the steps that lead to them unless stated.

*Ownership and sessions.*

* A grant and a reclaim of the same epoch are never reconciled (`ownership.rs:190`
  breaks ties between reclaims only): of three devices two may stay owner. Hence
  `OnlyReclaims` in `ReclaimRaceConverges`. The shipped engine has two per session,
  but `docs/audit-round1.md:143` says "no two-owner path".
* The source's platform refuses the warp that follows a reclaim: `on_injection_failed`
  (`core/wire.rs:214`) gives input away again without `SetCaptureMode`, so the source
  drives with passive capture; and with a target that is blocked too, each refuses the
  other's transfer and nobody owns input. `FailKinds` of the runs has no `"Warp"`, and
  `AgreeWhenQuiet` asks for `input_allowed`.
* The core is unlocked before dispatch (`runtime.rs:140`): a crossing and a reclaim can
  queue their modes in the opposite order and `ActiveForward` stays installed on the
  owner, contrary to `runtime.rs:15-18`. No property speaks of the installed mode.
* `shutdown` (`runtime.rs:500`) does not wait for the mode task: a mode already taken
  is applied after `capture.stop()`.
* An epoch change forgets the keys held on the target without releasing them
  (`core/wire.rs:54`); `KeysMirrored` speaks of one epoch.

*Connecting.*

* Both users click Connect: both hold the intent, both redial without listening and
  never meet. Two machines that dial and listen are separated only by jitter, and
  `wait_for_peer_addr` does not listen. `CanMeet` excludes these pairs.
* A `Disconnect` sent while idle waits in its channel and ends the next session at
  once; "harmless when already idle" (`ipc_bridge.rs:400`) is not so.
  After a reset that fails half way a session goes on with a peer that is no longer
  trusted (`connect_reset`). A `Disconnect` during a redial without intent leaves the UI "connecting" (`serve.rs:294`).
* A dial error drops an inbound handshake and its prompt; `publish_connect_error`
  reports idle while a session lives; a late pairing decision answers the next prompt
  of the same peer; ctrl-c is not heard during an explicit dial.

*Connections.*

* A `BulkHello` is not answered: `connect_bulk` returns before the acceptor has verified
  it, and a dial that arrives while the acceptor still holds the previous session's id
  is refused without the dialer being told why.
* A motion sample in the slot when the datagram plane turns out to be unsupported is
  dropped; the next one goes by the control stream. The reason of a refused Hello is lost
  when the close overtakes the `HelloAck`, and after `DIAL_ATTEMPT_TIMEOUT` an acceptor
  may hold a session whose initiator has already left (`AcceptFails` and the death of the
  connection end it).

*Control plane.*

* `read_message` inside `select!` is not cancel-safe: a snapshot published between a
  frame's length and its payload loses the command; so does a client that sends and
  closes between the poll and the write (`server.rs:282-288` says otherwise:
  `control_plane_drain`).
* A client refused for want of a slot is told nothing; commands of two connections can
  be reordered; overlapping publishers can leave an older snapshot last.
* The trust file is truncated and rewritten: a failed write loses peers or leaves a
  file nobody can parse; two load-modify-writes lose trust or bring back what a reset
  removed. A reset that fails half way leaves the snapshot as it was
  (`ipc_bridge.rs:409-412` says otherwise). Trust given by the CLI is not republished;
  settings that fail to save live on in memory.
* The nudge is spent once per browse; a renamed machine gets a second entry (not
  modelled); stale addresses stay until the record is removed.

*Clipboard.*

* `canonical` is not idempotent (CR CR LF), and two platforms drop non-file URIs: such
  a clip bounces once.
* A marker whose echo no poll reads stays armed and swallows a later genuine copy.
* A clip offered again while its pull is in flight may be lost; concurrent copies swap
  the clipboards; a cached bulk connection that died idle loses one clip.

*Files.*

* The sender writes every file's window before it reads an acknowledgement: with some
  700 files of 8 MiB the two flow controls wait for each other. `AckWindowFits` is that
  assumption.
* Duplicate base names, or overlapping sends of one name, share a quarantine file
  (`shared`); a changed file of the same name cannot be sent again.

*Adapters.*

* macOS: `CFRunLoop::stop` between the claim of a tap and its run is lost; modifiers
  held while no tap looks toggle the wrong way; `OtherMouseDragged` is not observed.
* Linux: `set_mode` and `stop` between two locks record a mode without a reader; an idle
  round of the reader ungrabs, so the next event leaks; the reader also takes Mouser's
  own uinput device; the first motion after the peer gave input back still reports the
  integrated position; both keep the old sink when the mode does not change.
* Windows motion: a tablet's packet comes after the hook has run for the same move, and
  so does the next packet of a mouse, so of a capture that has both the first move of the
  tablet reaches nobody and one of the mouse counts twice: `ClicksLandInPlace` excuses a
  capture with motion of both kinds (`mixed`), and does not count a tablet move that the
  hook did not queue as made. Motion up to the first point of a capture is its baseline
  and no delta (`skipped`). That the local cursor stops at the edge of the desktop while
  its events are suppressed, and points with it (`capture_hooks.rs:343-348`), is left
  out: in the model a move always moves it.
* Linux: the emergency chord takes effect when the reader's round has ended; until then
  the devices are still grabbed (`settled` in `ChordReachesDesktop`).
* Windows: a queue full of transitions drops the oldest; `set_mode` called from the
  worker would deadlock; a hide that reads the position while a show restores it parks
  the corner (`adapter.rs:373` says otherwise); a move after a concurrent hide leaves the
  overlay up; displays are cached across a hot-plug.
* A key pressed before a crossing and released after it is never released locally;
  scrolling in /120 steps loses remainders; a pixel may land one nearer the origin.

*Shared state.* Two replicas that change different fields of one device, or of the
preferences, end up with a mixture of both, since only the changed fields are put
(`state.rs:112-113`, `328-332`): `ReadsAreCurrent` speaks of single fields. `hotkeys` is
kept an opaque value although it is a map of its own, made anew by every write. Forged
changes are such as carry the author and number of one the receiver has already
(`sync.rs:63-65` skips them); one that arrives before the true change, and takes its
place, is not modelled, nor are refused items behind the last good one of a batch, which
change nothing.
A replica that restarts and edits before it has synchronised reuses a
revision and loses against its own earlier edit. `changes_since` does not test the cap
the receiver applies: a change above 256 KiB never arrives, nor does what follows it.

## 6. What is not modelled, and what is left

`PROJECT.json` "components" has the complete list. Wire formats, key tables and the
Cmd/Ctrl swap are conversions without state; the apps, the mobile bindings and the
sidecar supervision are user interface; QUIC, mDNS, automerge and the window systems are
libraries, modelled by how the code uses them. Certificates, pins and signatures of
`mouser-net` appear as a Hello that verifies or does not; socket binding, the short
authentication string and the limit of receiver streams per bulk connection are left out.
`Connect` has the outcomes of `Transport` (a handshake in flight, refused, up, dropped) as
steps of its own; the two are not composed. Direct mode dials one address without discovery, bridge or redial. `set_peer_trusted`,
`set_input_allowed(true)` and `mark_disconnected` have no caller outside tests. Election
leases with a foreign ttl are not modelled.

A file sent goes to the peer the request names, or is refused: one guard
(`serve_session.rs:164-174`), so `ControlPlane` has the step and no property of it.

`WireIsCoherent` and `FailsClosed` of `Runtime`, `PullsAreSound` of `Clipboard` and the
properties of `SharedState` stay with TLC: the first two speak of lists filtered
with `SelectSeq`, the last of replicas folded over sets of changes, both inductions over
data, and pulls need what every earlier announcement of every session held.
