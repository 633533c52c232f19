---------------------------- MODULE CaptureEvents ----------------------------
(***************************************************************************)
(* The path of one local event while this machine drives a peer: from the  *)
(* keyboard and mouse through the event tap (macos), the low-level hooks,  *)
(* capture queue and worker (windows) or the evdev reader (linux) to the   *)
(* sink, and on to the injector of the peer's platform.                    *)
(*                                                                         *)
(* The peer owns input throughout, so the sink forwards every event and    *)
(* answers Suppress; only the emergency chord, both Ctrl keys at once,     *)
(* lets events through to the local desktop.                               *)
(***************************************************************************)
EXTENDS Integers, Sequences, SequencesExt

CONSTANTS MaxInput, MaxCaptureQueue

ASSUME InputBounds == MaxInput \in Nat /\ MaxCaptureQueue \in Nat \ {0}

Ctrls == {"leftCtrl", "rightCtrl"}
Modifiers == Ctrls                  \* the twins stand for all eight
Buttons == {"leftButton"}
Keys == Modifiers \cup {"a"} \cup Buttons

VARIABLES
    source, target,   \* platforms of the two machines
    phys,             \* keys down on the source's keyboard
    tapped,           \* capture is running
    mods, ctrls,      \* modifiers the adapter believes held; macos reclaim's own copy
    reclaim,          \* the emergency chord is in force
    queue, batch,     \* capture queue and the worker's swapped-out batch; evdev buffer
    grabbed, frame,   \* linux: EVIOCGRAB, and the round's decision so far
    rawActive, rawAbsolute, lastPoint,    \* windows motion source and its baseline
    localX,           \* where Windows has the local cursor
    motions, mixed,   \* kinds of motion this capture has queued; one had both kinds
    held,             \* keys down on the target
    sent, made,       \* transitions the user made, and motion, in order
    got, moved,       \* the same as they reach the sink
    skipped,          \* motion up to the first point of a capture, which is no delta yet
    seen, settled,    \* keys pressed under this capture; linux: a round has ended under the chord
    passed,           \* every event made under the chord has reached the local desktop
    missed,           \* keys whose state this capture cannot know: changed unwatched
    full,             \* the queue overflowed with motion in it, with transitions only
    inputs            \* events the user may still make

pathVars == <<source, target, phys, tapped, mods, ctrls, reclaim, queue, batch, grabbed, frame,
              rawActive, rawAbsolute, lastPoint, localX, motions, mixed, held, sent, made, got,
              moved, skipped, seen, settled, passed, missed, full, inputs>>

\* What only the motion of windows changes.
motionVars == <<rawActive, rawAbsolute, lastPoint, localX, motions, mixed, made, skipped>>

NoPoint == -99
Corners == {0, 7}   \* where the local cursor may be when a capture starts

PathInit ==
    /\ phys = {} /\ tapped = FALSE
    /\ mods = {} /\ ctrls = {} /\ reclaim = FALSE
    /\ queue = <<>> /\ batch = <<>>
    /\ grabbed = FALSE /\ frame = "PassThrough"
    /\ rawActive = FALSE /\ rawAbsolute = FALSE /\ lastPoint = NoPoint
    /\ localX = 0 /\ motions = {} /\ mixed = FALSE /\ skipped = 0
    /\ held = {}
    /\ sent = <<>> /\ made = 0 /\ got = <<>> /\ moved = 0
    /\ seen = {} /\ settled = FALSE /\ passed = TRUE /\ missed = {}
    /\ full = {}
    /\ inputs = MaxInput

Key(k, down, m) == [kind |-> "key", key |-> k, down |-> down, mods |-> m]
After(held0, k, down) == IF down THEN held0 \cup {k} ELSE held0 \ {k}
Chord(m) == Ctrls \subseteq m

(***************************************************************************)
(* Injection of a key on the target.                                       *)
(***************************************************************************)
\* macos posts one event; the modifiers ride along as flags of that event.
MacKeyPress(h, e) == After(h, e.key, e.down)

\* windows and linux press the modifiers before the key and release them after.
WinKey(h, e) == IF e.down THEN h \cup e.mods \cup {e.key} ELSE (h \ {e.key}) \ e.mods

LinuxKey(h, e) == IF e.down THEN h \cup e.mods \cup {e.key} ELSE (h \ {e.key}) \ e.mods

MacButton(h, e) == After(h, e.key, e.down)
WinButton(h, e) == After(h, e.key, e.down)
LinuxButton(h, e) == After(h, e.key, e.down)

InjectButton(h, e) ==
    CASE target = "macos" -> MacButton(h, e)
      [] target = "windows" -> WinButton(h, e)
      [] target = "linux" -> LinuxButton(h, e)

InjectKey(h, e) ==
    CASE e.key \in Buttons -> InjectButton(h, e)
      [] target = "macos" -> MacKeyPress(h, e)
      [] target = "windows" -> WinKey(h, e)
      [] target = "linux" -> LinuxKey(h, e)

\* Only the queue of windows calls for the history.
Logged(log, entry) == IF source = "windows" THEN Append(log, entry) ELSE log

\* The sink forwards the event; motion advances the pointer it drives.
Deliver(e) ==
    IF e.kind = "key"
    THEN /\ held' = InjectKey(held, e)
         /\ got' = Logged(got, <<e.key, e.down, moved + skipped>>)
         /\ UNCHANGED moved
    ELSE moved' = moved + e.dx /\ UNCHANGED <<held, got>>

(***************************************************************************)
(* macOS: the tap decides inline.                                          *)
(***************************************************************************)
\* Direction from the flag both Ctrl keys share.
MacToggleByFlag(m, k) == IF After(phys, k, k \notin phys) \cap Ctrls # {} THEN m \cup {k} ELSE m \ {k}

\* A FlagsChanged names the key but not the direction: each one toggles it.
MacToggle(m, k) == IF k \in m THEN m \ {k} ELSE m \cup {k}

MacEvent(k, down) ==
    IF k \in Modifiers THEN Key(k, k \in MacToggle(mods, k), MacToggle(mods, k)) ELSE Key(k, down, {})

MacMods(k) == IF k \in Modifiers THEN MacToggle(mods, k) ELSE mods

\* EmergencyReclaim::observe: <<held Ctrl keys, in force, let this one pass>>.
MacObserve(e) ==
    LET ctrl == IF e.key \in Ctrls THEN After(ctrls, e.key, e.down) ELSE ctrls
        act  == reclaim \/ Chord(e.mods \cup ctrl)
    IN  <<ctrl, act /\ ctrl # {}, reclaim \/ act>>

(***************************************************************************)
(* Windows: hooks enqueue, a worker delivers.                              *)
(***************************************************************************)
IsMotion(q) == q.kind \in {"raw", "point"}

DropOne(q) ==
    IF \E i \in DOMAIN q : IsMotion(q[i])
    THEN RemoveAt(q, CHOOSE i \in DOMAIN q : IsMotion(q[i]) /\ \A j \in 1..(i - 1) : ~IsMotion(q[j]))
    ELSE Tail(q)

\* A point replaces the one that waits, even if a click came after it.
EnqueuePastClicks(q, e) ==
    LET points == {i \in DOMAIN q : q[i].kind = "point"}
    IN  IF q # <<>> /\ e.kind = "raw" /\ Last(q).kind = "raw"
        THEN [q EXCEPT ![Len(q)].dx = @ + e.dx]
        ELSE IF e.kind = "point" /\ points # {}
        THEN [q EXCEPT ![CHOOSE i \in points : TRUE] = e]
        ELSE Append(IF Len(q) >= MaxCaptureQueue THEN DropOne(q) ELSE q, e)

\* A trailing delta is extended, a trailing point replaced; a full queue
\* gives up motion before a transition.
Enqueue(q, e) ==
    IF q # <<>> /\ e.kind = "raw" /\ Last(q).kind = "raw"
    THEN [q EXCEPT ![Len(q)].dx = @ + e.dx]
    ELSE IF q # <<>> /\ e.kind = "point" /\ Last(q).kind = "point"
    THEN [q EXCEPT ![Len(q)] = e]
    ELSE Append(IF Len(q) >= MaxCaptureQueue THEN DropOne(q) ELSE q, e)

\* Which limit an enqueue met, judged from the queue before it.
Overflow(q, e) ==
    IF Len(q) < MaxCaptureQueue \/ (e.kind # "key" /\ Last(q).kind = e.kind) THEN {}
    ELSE IF \E i \in DOMAIN q : IsMotion(q[i]) THEN {"motion"} ELSE {"transition"}

WinMods(k, down) == IF k \in Modifiers THEN After(mods, k, down) ELSE mods

WinKeyEvent(k, down) == Key(k, down, WinMods(k, down))
WinMouseEvent(k, down) == Key(k, down, {})
WinEvent(k, down) == IF k \in Buttons THEN WinMouseEvent(k, down) ELSE WinKeyEvent(k, down)

(***************************************************************************)
(* The user.                                                               *)
(***************************************************************************)
\* Both Ctrl keys were pressed under this capture and are still down.
ChordKnown ==
    /\ tapped /\ Ctrls \subseteq seen
    /\ source = "macos" => missed \cap Ctrls = {}

\* An event made under the chord has to reach the desktop.
Passes(p) == passed' = (passed /\ (ChordKnown => p))

MacPress(k, down) ==
    /\ LET e == MacEvent(k, down)
           o == MacObserve(e)
       IN  /\ mods' = MacMods(k)
           /\ ctrls' = o[1] /\ reclaim' = o[2]
           /\ Deliver(e) /\ Passes(o[3])
    /\ missed' = IF k \in Modifiers THEN missed ELSE missed \ {k}
    /\ UNCHANGED <<queue, full>>

WinPress(k, down) ==
    /\ LET e == WinEvent(k, down)
       IN  /\ mods' = WinMods(k, down)
           /\ reclaim' = (reclaim \/ (down /\ Chord(e.mods)))
           /\ queue' = Enqueue(queue, e)
           /\ full' = full \cup Overflow(queue, e)
    /\ Passes(reclaim')
    /\ missed' = missed \ {k}
    /\ UNCHANGED <<ctrls, held, got, moved>>

\* The reader gets a copy; a grab keeps the original from the desktop.
LinuxPress(k, down) ==
    /\ queue' = Append(queue, Key(k, down, {}))
    /\ Passes(settled => ~grabbed)
    /\ missed' = missed \ {k}
    /\ UNCHANGED <<mods, ctrls, reclaim, held, got, moved, full>>

Press(k) ==
    /\ inputs > 0 /\ inputs' = inputs - 1
    /\ LET down == k \notin phys
       IN  /\ phys' = After(phys, k, down)
           /\ seen' = IF tapped THEN After(seen, k, down) ELSE seen
           /\ settled' = (settled /\ ChordKnown /\ Ctrls \subseteq seen')
           /\ sent' = IF tapped THEN Logged(sent, <<k, down, made>>) ELSE sent
           /\ \/ /\ ~tapped
                 /\ missed' = missed \cup {k}
                 /\ UNCHANGED <<mods, ctrls, reclaim, queue, held, got, moved, passed, full>>
              \/ tapped /\ source = "macos" /\ MacPress(k, down)
              \/ tapped /\ source = "windows" /\ WinPress(k, down)
              \/ tapped /\ source = "linux" /\ LinuxPress(k, down)
    /\ UNCHANGED <<source, target, tapped, batch, grabbed, frame, motionVars>>

\* The hook queues the point a move leads to unless raw input carries motion.
Hooked == ~rawActive \/ rawAbsolute
Point == [kind |-> "point", x |-> localX + 1]
AfterHook == IF Hooked THEN Enqueue(queue, Point) ELSE queue
HookOverflow == IF Hooked THEN Overflow(queue, Point) ELSE {}

QueuesMotion(kinds) ==
    /\ motions' = motions \cup kinds
    /\ mixed' = (mixed \/ {"point", "raw"} \subseteq motions')

\* A relative mouse moves the cursor: the hook first, then WM_INPUT.
WinMove ==
    /\ tapped /\ source = "windows" /\ inputs > 0 /\ inputs' = inputs - 1
    /\ LET raw == [kind |-> "raw", dx |-> 1]
       IN  /\ queue' = IF rawActive THEN Enqueue(AfterHook, raw) ELSE AfterHook
           /\ full' = full \cup HookOverflow \cup (IF rawActive THEN Overflow(AfterHook, raw) ELSE {})
    /\ QueuesMotion((IF rawActive THEN {"raw"} ELSE {}) \cup (IF Hooked THEN {"point"} ELSE {}))
    /\ rawAbsolute' = FALSE
    /\ localX' = localX + 1 /\ made' = made + 1
    /\ UNCHANGED <<source, target, phys, tapped, mods, ctrls, reclaim, batch, grabbed, frame, rawActive,
                   lastPoint, held, sent, got, moved, skipped, seen, settled, passed, missed>>

\* A tablet does: its packet carries no delta but switches motion to the
\* hook, which has already run. So the first one moves nothing else.
WinTablet ==
    /\ tapped /\ source = "windows" /\ rawActive /\ inputs > 0 /\ inputs' = inputs - 1
    /\ queue' = AfterHook /\ full' = full \cup HookOverflow
    /\ QueuesMotion(IF Hooked THEN {"point"} ELSE {})
    /\ rawAbsolute' = TRUE
    /\ localX' = localX + 1 /\ made' = IF Hooked THEN made + 1 ELSE made
    /\ UNCHANGED <<source, target, phys, tapped, mods, ctrls, reclaim, batch, grabbed, frame, rawActive,
                   lastPoint, held, sent, got, moved, skipped, seen, settled, passed, missed>>

\* The worker takes the whole queue, then hands it over one by one.
WinTake ==
    /\ source = "windows" /\ batch = <<>> /\ queue # <<>>
    /\ batch' = queue /\ queue' = <<>>
    /\ UNCHANGED <<source, target, phys, tapped, mods, ctrls, reclaim, grabbed, frame, motionVars,
                   held, sent, got, moved, seen, settled, passed, missed, full, inputs>>

\* Where a point is, in steps of the user: the local cursor need not start
\* where the pointer it drives does.
Reached(x) == x - (localX - made)

\* A point becomes the motion since the last one handed over; the first has
\* none before it.
WinProcess ==
    /\ source = "windows" /\ batch # <<>>
    /\ LET e == Head(batch)
       IN  IF e.kind = "point"
           THEN /\ Deliver([kind |-> "raw", dx |-> IF lastPoint = NoPoint THEN 0 ELSE e.x - lastPoint])
                /\ lastPoint' = e.x
                /\ skipped' = IF lastPoint = NoPoint THEN Reached(e.x) - moved ELSE skipped
           ELSE Deliver(e) /\ UNCHANGED <<lastPoint, skipped>>
    /\ batch' = Tail(batch)
    /\ UNCHANGED <<source, target, phys, tapped, mods, ctrls, reclaim, queue, grabbed, frame, rawActive,
                   rawAbsolute, localX, motions, mixed, sent, made, seen, settled, passed, missed, full,
                   inputs>>

\* macOS disables a tap that stalls; its events pass unseen until the
\* callback, told of it, switches the tap on again.
MacTapDisabled ==
    /\ source = "macos" /\ tapped /\ inputs > 0 /\ inputs' = inputs - 1
    /\ \E k \in Keys :
          /\ phys' = After(phys, k, k \notin phys)
          /\ missed' = missed \cup {k}
          /\ seen' = seen \ {k}
    /\ UNCHANGED <<source, target, tapped, mods, ctrls, reclaim, queue, batch, grabbed, frame, motionVars,
                   held, sent, got, moved, settled, passed, full>>

(***************************************************************************)
(* Linux: the reader drains its buffer, then grabs or releases.            *)
(***************************************************************************)
LinuxObserve(e) ==
    LET m == IF e.key \in Modifiers THEN After(mods, e.key, e.down) ELSE mods
        act == reclaim \/ Chord(m)
    IN  <<m, act /\ m \cap Ctrls # {}, reclaim \/ act>>

LinuxRead ==
    /\ source = "linux" /\ tapped /\ queue # <<>>
    /\ LET o == LinuxObserve(Head(queue))
       IN  /\ mods' = o[1] /\ reclaim' = o[2]
           /\ Deliver(IF Head(queue).key \in Buttons THEN Head(queue) ELSE [Head(queue) EXCEPT !.mods = o[1]])
           /\ frame' = IF o[3] THEN frame ELSE "Suppress"
    /\ queue' = Tail(queue)
    /\ UNCHANGED <<source, target, phys, tapped, ctrls, batch, grabbed, motionVars,
                   sent, seen, settled, passed, missed, full, inputs>>

\* End of a round: an idle one counts as PassThrough.
LinuxRound ==
    /\ source = "linux" /\ tapped /\ queue = <<>>
    /\ grabbed' = (frame = "Suppress") /\ frame' = "PassThrough"
    /\ settled' = (settled \/ (ChordKnown /\ frame = "PassThrough"))
    /\ UNCHANGED <<source, target, phys, tapped, mods, ctrls, reclaim, queue, batch, motionVars,
                   held, sent, got, moved, seen, passed, missed, full, inputs>>

(***************************************************************************)
(* Capture starts with the crossing and ends with it.                      *)
(***************************************************************************)
\* Everything about the keyboard starts empty, whatever is held down, and
\* the cursor wherever it has been left.
Start ==
    /\ ~tapped /\ tapped' = TRUE
    /\ queue = <<>> /\ batch = <<>>                \* the worker before was joined
    /\ mods' = {} /\ ctrls' = {} /\ reclaim' = FALSE /\ seen' = {}
    /\ lastPoint' = NoPoint /\ motions' = {}
    /\ localX' \in (IF source = "windows" THEN Corners ELSE {localX})
    /\ missed' = IF source = "macos" THEN missed \cup (phys \cap Modifiers) ELSE missed
    /\ rawActive' \in (IF source = "windows" THEN BOOLEAN ELSE {FALSE})
    /\ UNCHANGED <<source, target, phys, queue, batch, grabbed, frame, rawAbsolute, mixed, held, sent, made,
                   got, moved, skipped, settled, passed, full, inputs>>

\* Hooks go before the worker, which still drains; a reader leaves what it
\* has not read, and releases its devices.
Stop ==
    /\ tapped /\ tapped' = FALSE
    /\ reclaim' = FALSE /\ mods' = {} /\ ctrls' = {}
    /\ rawActive' = FALSE /\ rawAbsolute' = FALSE
    /\ grabbed' = FALSE /\ frame' = "PassThrough" /\ settled' = FALSE
    /\ IF source = "linux"
       THEN queue' = <<>> /\ missed' = missed \cup {queue[i].key : i \in DOMAIN queue}
       ELSE UNCHANGED <<queue, missed>>
    /\ UNCHANGED <<source, target, phys, batch, lastPoint, localX, motions, mixed, held, sent, made, got,
                   moved, skipped, seen, passed, full, inputs>>

PathNext ==
    \/ \E k \in Keys : Press(k)
    \/ WinMove \/ WinTablet \/ WinTake \/ WinProcess
    \/ MacTapDisabled
    \/ LinuxRead \/ LinuxRound
    \/ Start \/ Stop

(***************************************************************************)
(* Properties.                                                             *)
(***************************************************************************)
(***************************************************************************)
(* The emergency chord: once both Ctrl keys have gone down under this      *)
(* capture, every further event reaches the local desktop until one is     *)
(* released, although the sink goes on answering Suppress.  On linux only  *)
(* once a round of the reader has ended under the chord (settled): until   *)
(* then the devices are still grabbed.                                     *)
(***************************************************************************)
ChordReachesDesktop == passed

(***************************************************************************)
(* A key is down on the target only if it is down on the source's          *)
(* keyboard: across the tap's toggling of modifier twins, the modifiers    *)
(* the injector adds to each key and restarts of capture.  Except for a    *)
(* key that changed while nothing watched it, and a queue that overflowed  *)
(* with transitions.                                                       *)
(***************************************************************************)
NoStuckKey ==
    (queue = <<>> /\ batch = <<>> /\ "transition" \notin full) => held \subseteq phys \cup missed

\* Together: what the user does on the keyboard is what the local or the
\* remote desktop gets to see (capture to injection, EmergencyReclaim).
CaptureIsFaithful == ChordReachesDesktop /\ NoStuckKey

Transitions(s) == [i \in DOMAIN s |-> <<s[i][1], s[i][2]>>]

(***************************************************************************)
(* The Windows capture queue (enqueue_queued_capture_event and its         *)
(* worker): transitions reach the sink complete and in order unless the    *)
(* queue was full of transitions alone.  As long as it never overflowed,   *)
(* each finds the pointer moved exactly as far as when the user made it,   *)
(* however deltas and points were merged: by raw deltas, or by points,     *)
(* from the first one of a capture on.  Except for a capture that has had  *)
(* motion of both kinds, whose sum counts some of it twice.                *)
(***************************************************************************)
ClicksLandInPlace ==
    source = "windows" =>
        LET drained == queue = <<>> /\ batch = <<>>
        IN  /\ "transition" \notin full =>
                  /\ IsPrefix(Transitions(got), Transitions(sent))
                  /\ drained => Len(got) = Len(sent)
            /\ full = {} /\ ~mixed =>
                  /\ IsPrefix(got, sent)
                  /\ drained => moved + skipped = made
=============================================================================
