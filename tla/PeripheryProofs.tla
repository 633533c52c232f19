-------------------------- MODULE PeripheryProofs --------------------------
(***************************************************************************)
(* What the platform adapters promise for any number of callers and tasks, *)
(* any number of calls and faults and every arrangement of monitors: the   *)
(* threads that watch local input are those of the mode reported, the      *)
(* parked cursor of Windows comes home, and what the user presses and      *)
(* moves is what one of the two desktops gets to see.                      *)
(***************************************************************************)
EXTENDS Periphery, TLAPS, WellFoundedInduction

(***************************************************************************)
(* The cursor.                                                             *)
(***************************************************************************)
TaskPc == {"idle", "show", "live", "lock"}

\* A hide that waits for the lock has read a position, so what it saves is
\* never mistaken for "visible".
HideHasPosition ==
    \A t \in Task : (task[t].pc = "lock" /\ ~task[t].visible) => task[t].live # Nothing

\* Neither the cursor nor the position to restore is the corner, short of the
\* race of a hide that reads the position before a show restores it.
ParkedIsSaved ==
    "park" \notin crossed => ~parked.saved /\ (saved = Nothing => ~parked.now)

\* A command still in the mailbox, or else the window, is what the last call
\* wants; a window that was never made has no commands.
OverlayFollows ==
    /\ window = "none" => mailbox = Nothing
    /\ "overlay" \notin crossed =>
          IF mailbox = Nothing THEN window \in {"none", expect}
          ELSE expect = (IF mailbox[1] = "hide" THEN "hidden" ELSE "shown")

CursorTyped ==
    /\ task = [t \in Task |-> [pc |-> task[t].pc, visible |-> task[t].visible,
                               live |-> task[t].live, parked |-> task[t].parked]]
    /\ \A t \in Task : task[t].pc \in TaskPc /\ task[t].visible \in BOOLEAN /\ task[t].parked \in BOOLEAN
    /\ parked \in [now : BOOLEAN, saved : BOOLEAN]

CursorInv == CursorTyped /\ HideHasPosition /\ ParkedIsSaved /\ OverlayFollows

(***************************************************************************)
(* Capture: what all three platforms share.                                *)
(***************************************************************************)
Gen0 == 0..MaxCalls
CallPc == {"idle", "detach", "join", "poll", "spawn", "claim", "abandon", "tap", "wait", "record"}
TapPc == {"none", "spawned", "created", "enabled", "claimed", "running", "stopping", "failed", "done"}

RunType == [mode : Mode, pending : Mode \cup {"none"}, canSuppress : BOOLEAN, generation : Gen0,
            tap : Gen0, stop : Gen0, handle : Gen0]
TapType == [Gen -> [pc : TapPc, suppress : BOOLEAN, listen : BOOLEAN]]
CallType == [Caller -> [pc : CallPc, mode : Mode, gen : Gen0, tap : Gen0, stop : Gen0, handle : Gen0]]

ModesTyped ==
    /\ run \in RunType
    /\ tap \in TapType
    /\ poll \in [Gen -> {"none", "running", "done"}]
    /\ pollStop \subseteq Gen
    /\ call \in CallType
    /\ faults \in 0..MaxFaults
    /\ wanted \in Mode
    /\ excused \in BOOLEAN

\* Nothing of a generation to come exists.
Unborn ==
    \A g \in Gen : g > run.generation => tap[g].pc = "none" /\ poll[g] = "none" /\ g \notin pollStop

Failed == faults < MaxFaults

(***************************************************************************)
(* Linux: a reader runs exactly while the run holds it; while no stop came *)
(* between the two locks of a set_mode, there is one whenever a mode is    *)
(* recorded or about to be.                                                *)
(***************************************************************************)
LinShape ==
    /\ run.pending = "none" /\ run.mode = wanted
    /\ \A g \in Gen : poll[g] = "none" /\ tap[g].pc \in {"none", "running", "stopping", "done"}
    /\ \A c \in Caller : /\ call[c].pc \in {"idle", "record", "join"}
                         /\ call[c].pc = "record" => call[c].mode # "Off"

LinReader ==
    /\ \A g \in Gen : tap[g].pc = "running" <=> g = run.tap
    /\ run.canSuppress => run.mode = "ActiveForward" /\ run.tap # None

LinRecorded == ~excused => (run.tap # None <=> CrossedStop \/ run.mode # "Off")

LinInv == LinShape /\ LinReader /\ LinRecorded

(***************************************************************************)
(* Windows: by where the one caller that holds the mutex is.               *)
(***************************************************************************)
NoHandles == run.tap = None /\ run.stop = None /\ run.handle = None

\* Nobody holds it: the threads are those of the mode.
WinFree ==
    /\ \A g \in Gen : tap[g].pc \in {"none", "running", "failed", "done"} /\ (tap[g].pc = "running" <=> g = run.tap)
    /\ \A g \in Gen : poll[g] = "running" <=> g = run.handle
    /\ run.stop = run.handle /\ run.handle \notin pollStop
    /\ run.tap # None <=> run.mode = "ActiveForward"
    /\ run.handle # None <=> run.mode = "PassiveEdge"
    /\ run.canSuppress <=> run.mode = "ActiveForward"
    /\ run.tap # None => tap[run.tap].suppress
    /\ run.mode = wanted \/ (Failed /\ run.mode = "Off")

\* c joins the threads of the mode before.
WinJoining(c) ==
    /\ NoHandles /\ call[c].gen = run.generation /\ call[c].gen # None /\ call[c].mode = wanted
    /\ tap[call[c].gen].pc = "none" /\ poll[call[c].gen] = "none" /\ call[c].gen \notin pollStop
    /\ \A g \in Gen : \/ tap[g].pc \in {"none", "failed", "done"}
                      \/ tap[g].pc = "stopping" /\ g = call[c].tap
    /\ \A g \in Gen : poll[g] = "running" => g = call[c].handle /\ g \in pollStop

\* c waits for its hook thread to report.
WinWaiting(c) ==
    /\ NoHandles /\ call[c].gen = run.generation /\ call[c].gen # None
    /\ run.mode = "Off" /\ ~run.canSuppress /\ wanted = "ActiveForward"
    /\ \A g \in Gen : poll[g] # "running"
    /\ \A g \in Gen : \/ tap[g].pc \in {"none", "failed", "done"}
                      \/ g = call[c].gen /\ tap[g].pc \in {"spawned", "running"}
    /\ LET t == tap[call[c].gen]
       IN  /\ t.pc \in {"spawned", "running", "failed"}
           /\ t.pc = "running" => t.suppress
           /\ t.pc = "failed" => Failed

WinInv ==
    /\ run.pending = "none"
    /\ \A c \in Caller : call[c].pc \in {"idle", "join", "wait"}
    /\ \A c, d \in Caller : ~Idle(c) /\ ~Idle(d) => c = d
    /\ Unlocked => WinFree
    /\ \A c \in Caller : /\ call[c].pc = "join" => WinJoining(c)
                         /\ call[c].pc = "wait" => WinWaiting(c)

(***************************************************************************)
(* macOS.                                                                  *)
(***************************************************************************)
Starting == {"detach", "join", "poll", "spawn", "claim", "abandon", "tap"}

\* A call has its generation to itself.
OwnGeneration ==
    /\ \A c \in Caller : call[c].pc # "record"
    /\ \A c \in Caller : ~Idle(c) => call[c].gen \in 1..run.generation
    /\ \A c, d \in Caller : ~Idle(c) /\ ~Idle(d) /\ call[c].gen = call[d].gen => c = d

\* Its threads do not exist before it starts them.
StartsItsThreads ==
    \A c \in Caller :
        /\ call[c].pc \in Starting => tap[call[c].gen].pc = "none"
        /\ call[c].pc \in {"detach", "join", "poll", "spawn"} => poll[call[c].gen] = "none"
        /\ call[c].pc = "claim" => poll[call[c].gen] # "none"
        /\ call[c].pc = "wait" => tap[call[c].gen].pc # "none"

\* It goes the way of its mode, and so does its tap.
GoesByMode ==
    \A c \in Caller :
        /\ call[c].pc \in {"poll", "spawn", "claim", "abandon"} => call[c].mode = "PassiveEdge"
        /\ call[c].pc \in {"tap", "wait"} => call[c].mode # "Off"
        /\ call[c].pc = "wait" => (tap[call[c].gen].listen <=> call[c].mode = "PassiveEdge")

\* What it detaches are the threads of the generation before its own.
DetachesThePrevious ==
    \A c \in Caller : call[c].pc = "detach" =>
        /\ call[c].tap \in {None, call[c].gen - 1}
        /\ call[c].stop \in {None, call[c].gen - 1}
        /\ call[c].handle \in {None, call[c].stop}
        /\ call[c].tap # None => tap[call[c].tap].pc \in {"claimed", "running"}

\* A tap that starts has its caller waiting; one that ends is superseded.
TapsAwaited ==
    \A g \in Gen :
        /\ tap[g].pc \in {"spawned", "created", "enabled"} =>
              \E c \in Caller : call[c].pc = "wait" /\ call[c].gen = g
        /\ tap[g].pc = "stopping" => g < run.generation

\* A tap that only listens never suppresses.
ListenersLetPass == \A g \in Gen : tap[g].listen => ~tap[g].suppress

\* A tap that runs is held by the run or by the call about to stop it.
TapsHeld ==
    ~excused => \A g \in Gen : tap[g].pc \in {"claimed", "running"} =>
        g = run.tap \/ \E c \in Caller : call[c].pc = "detach" /\ call[c].tap = g

\* So is a poll not told to stop, unless its call has still to claim it.
PollsHeld ==
    \A g \in Gen : poll[g] = "running" /\ g \notin pollStop =>
        \/ g = run.handle
        \/ \E c \in Caller : call[c].pc = "claim" /\ call[c].gen = g
        \/ \E c \in Caller : call[c].pc = "detach" /\ call[c].stop = g

\* Only polls told to stop end.
PollsEndWhenTold == \A g \in Gen : poll[g] = "done" => g \in pollStop

\* What the run holds is of its own generation.
RunHolds ==
    /\ run.tap \in {None, run.generation} /\ run.stop \in {None, run.generation}
    /\ run.handle \in {None, run.stop}
    /\ run.tap # None => tap[run.tap].pc \in {"claimed", "running"}
    /\ \A g \in pollStop : g < run.generation
    /\ run.handle # None => poll[run.handle] = "running"

RunSuppresses == IF run.tap = None THEN ~run.canSuppress ELSE run.canSuppress = tap[run.tap].suppress

\* It makes up the mode.
RunIsMode ==
    /\ run.handle # None <=> run.mode = "PassiveEdge"
    /\ run.mode = "Off" => run.tap = None
    /\ run.mode # "Off" => run.pending = "none"
    /\ run.mode = "PassiveEdge" /\ run.tap # None => tap[run.tap].listen
    /\ run.mode = "ActiveForward" => run.tap # None /\ run.stop = None

\* What is pending, or half started, is in the hands of the current call.
PendingIsUnderWay ==
    /\ run.pending # "none" => \E c \in Caller : ~Idle(c) /\ Current(c) /\ call[c].mode = run.pending
    /\ run.stop # None /\ run.handle = None => \E c \in Caller : call[c].pc \in {"spawn", "claim"} /\ Current(c)

\* What the current call has done so far is what the run shows.
RunFollowsCall(c) ==
    /\ call[c].pc # "abandon"
    /\ call[c].pc \in {"detach", "join", "poll"} => run.stop = None
    /\ call[c].pc \in {"spawn", "claim"} => run.stop = run.generation
    /\ call[c].pc \in {"detach", "join", "poll", "spawn", "claim"} =>
          run.mode = "Off" /\ run.pending = (IF call[c].mode = "Off" THEN "none" ELSE call[c].mode)
    /\ call[c].pc \in {"tap", "wait"} /\ call[c].mode = "PassiveEdge" => run.mode = "PassiveEdge"
    /\ call[c].pc \in {"tap", "wait"} /\ call[c].mode = "ActiveForward" =>
          \/ run.mode = "ActiveForward" /\ call[c].pc = "wait"
          \/ run.mode = "Off" /\ run.pending = "ActiveForward" /\ run.stop = None
    /\ call[c].pc = "wait" =>
          /\ tap[call[c].gen].pc # "done"
          /\ tap[call[c].gen].pc = "failed" => Failed
          /\ tap[call[c].gen].pc \in {"claimed", "running"} => run.tap = run.generation

CurrentCall == \A c \in Caller : ~Idle(c) /\ Current(c) => RunFollowsCall(c)

\* What was asked for last is pending, in force or has failed.
WantedIsServed ==
    \/ run.pending = wanted
    \/ run.pending = "none" /\ (run.mode = wanted \/ (Failed /\ run.mode = "Off"))

MacInv ==
    /\ OwnGeneration /\ StartsItsThreads /\ GoesByMode /\ DetachesThePrevious
    /\ TapsAwaited /\ ListenersLetPass /\ TapsHeld /\ PollsHeld /\ PollsEndWhenTold
    /\ RunHolds /\ RunSuppresses /\ RunIsMode
    /\ PendingIsUnderWay /\ CurrentCall /\ WantedIsServed

ModesInv ==
    /\ os \in OS /\ ModesTyped /\ Unborn
    /\ os = "linux" => LinInv
    /\ os = "windows" => WinInv
    /\ os = "macos" => MacInv

-----------------------------------------------------------------------------
(* The cursor comes home.                                                  *)

\* Before the first call the cursor is where the user left it.
LEMMA CursorStarts == PointerInit => CursorInv
<1> SUFFICES ASSUME PointerInit PROVE CursorInv
  OBVIOUS
<1>1. \A t \in Task : task[t] = Resting
  BY DEF PointerInit
<1>2. task = [t \in Task |-> [pc |-> task[t].pc, visible |-> task[t].visible,
                              live |-> task[t].live, parked |-> task[t].parked]]
  BY DEF PointerInit, Resting
<1>3. CursorTyped /\ HideHasPosition
  BY <1>1, <1>2 DEF PointerInit, CursorTyped, HideHasPosition, Resting, TaskPc
<1>4. ParkedIsSaved /\ OverlayFollows
  BY DEF PointerInit, ParkedIsSaved, OverlayFollows
<1>5. QED
  BY <1>3, <1>4 DEF CursorInv

\* What does not touch the calls, the parking or the overlay disturbs nothing.
LEMMA CursorUntouched ==
    CursorInv /\ UNCHANGED <<task, parked, saved, crossed, window, mailbox, expect>> => CursorInv'
BY DEF CursorInv, CursorTyped, HideHasPosition, ParkedIsSaved, OverlayFollows

\* A cursor that moves by itself leaves the corner.
LEMMA LeavingIsHarmless ==
    ASSUME CursorInv, parked' \in [now : BOOLEAN, saved : {parked.saved}], parked'.now => parked.now,
           UNCHANGED <<task, saved, crossed, window, mailbox, expect>>
    PROVE  CursorInv'
<1>1. parked' \in [now : BOOLEAN, saved : BOOLEAN]
  BY DEF CursorInv, CursorTyped
<1>2. parked'.saved = parked.saved
  OBVIOUS
<1>3. CursorTyped'
  BY <1>1 DEF CursorInv, CursorTyped
<1>4. ParkedIsSaved'
  BY <1>2 DEF CursorInv, ParkedIsSaved
<1>5. QED
  BY <1>3, <1>4 DEF CursorInv, HideHasPosition, OverlayFollows

\* An injected move on Windows: the overlay is drawn by a later step.
LEMMA CursorMoveBegins ==
    ASSUME CursorInv, NEW t \in Task, At(t, "idle"),
           task' = [task EXCEPT ![t].pc = "show"], LeavesCorner,
           UNCHANGED <<saved, crossed, window, mailbox, expect>>
    PROVE  CursorInv'
<1>1. CursorTyped'
  <2>1. task' = [u \in Task |-> IF u = t
                    THEN [pc |-> "show", visible |-> task[t].visible, live |-> task[t].live,
                          parked |-> task[t].parked]
                    ELSE task[u]]
    BY DEF CursorInv, CursorTyped
  <2>2. task' = [u \in Task |-> [pc |-> task'[u].pc, visible |-> task'[u].visible,
                                 live |-> task'[u].live, parked |-> task'[u].parked]]
    BY <2>1 DEF CursorInv, CursorTyped
  <2>3. \A u \in Task : task'[u].pc \in TaskPc /\ task'[u].visible \in BOOLEAN /\ task'[u].parked \in BOOLEAN
    <3>1. \A u \in Task : task[u].pc \in TaskPc /\ task[u].visible \in BOOLEAN /\ task[u].parked \in BOOLEAN
      BY DEF CursorInv, CursorTyped
    <3>2. "show" \in TaskPc
      BY DEF TaskPc
    <3>3. \A u \in Task : /\ task'[u].pc = (IF u = t THEN "show" ELSE task[u].pc)
                         /\ task'[u].visible = task[u].visible /\ task'[u].parked = task[u].parked
      BY <2>1
    <3>. QED
      BY <3>1, <3>2, <3>3
  <2>4. parked' \in [now : BOOLEAN, saved : BOOLEAN]
    BY DEF CursorInv, CursorTyped, LeavesCorner
  <2>5. QED
    BY <2>2, <2>3, <2>4 DEF CursorTyped
<1>2. HideHasPosition'
  BY DEF CursorInv, CursorTyped, HideHasPosition
<1>3. ParkedIsSaved'
  BY DEF CursorInv, CursorTyped, ParkedIsSaved, LeavesCorner
<1>4. QED
  BY <1>1, <1>2, <1>3 DEF CursorInv, OverlayFollows

LEMMA CursorMoveShows ==
    ASSUME CursorInv, NEW t \in Task, WinMoveShow(t)
    PROVE  CursorInv'
<1>1. CursorTyped' /\ HideHasPosition'
  BY DEF CursorInv, CursorTyped, HideHasPosition, WinMoveShow, Finish, Resting, TaskPc
<1>2. ParkedIsSaved'
  BY DEF CursorInv, ParkedIsSaved, WinMoveShow
<1>3. OverlayFollows'
  <2>1. CASE window # "none" /\ mailbox' = <<"show", cursor>> /\ UNCHANGED window
    BY <2>1 DEF CursorInv, OverlayFollows, WinMoveShow, Nothing
  <2>2. CASE window = "none" /\ window' = "hidden" /\ mailbox' = <<"show", cursor>>
    BY <2>2 DEF CursorInv, OverlayFollows, WinMoveShow, Nothing
  <2>3. CASE window = "none" /\ UNCHANGED <<window, mailbox>>
    BY <2>3 DEF CursorInv, OverlayFollows, WinMoveShow
  <2>4. QED
    BY <2>1, <2>2, <2>3 DEF WinMoveShow, PostShow
<1>4. QED
  BY <1>1, <1>2, <1>3 DEF CursorInv

LEMMA CursorVisibleBegins ==
    ASSUME CursorInv, NEW t \in Task, NEW visible \in BOOLEAN, VisibleBegin(t, visible)
    PROVE  CursorInv'
<1>1. CursorTyped' /\ HideHasPosition'
  BY DEF CursorInv, CursorTyped, HideHasPosition, VisibleBegin, TaskPc
<1>2. ParkedIsSaved'
  BY DEF CursorInv, ParkedIsSaved, VisibleBegin
<1>3. OverlayFollows'
  <2>1. CASE window = "none"
    BY <2>1 DEF CursorInv, OverlayFollows, VisibleBegin, PostHide
  <2>2. CASE window # "none"
    BY <2>2 DEF CursorInv, OverlayFollows, VisibleBegin, PostHide, Nothing
  <2>3. QED
    BY <2>1, <2>2
<1>4. QED
  BY <1>1, <1>2, <1>3 DEF CursorInv

LEMMA CursorPositionRead ==
    ASSUME CursorInv, NEW t \in Task, VisibleLive(t)
    PROVE  CursorInv'
<1>1. CASE task' = [task EXCEPT ![t] = [pc |-> "lock", visible |-> @.visible, live |-> <<cursor>>, parked |-> parked.now]]
  <2>1. CursorTyped'
    <3>1. task' = [u \in Task |-> IF u = t
                      THEN [pc |-> "lock", visible |-> task[t].visible, live |-> <<cursor>>,
                            parked |-> parked.now]
                      ELSE task[u]]
      BY <1>1 DEF CursorInv, CursorTyped
    <3>2. task' = [u \in Task |-> [pc |-> task'[u].pc, visible |-> task'[u].visible,
                                   live |-> task'[u].live, parked |-> task'[u].parked]]
      BY <3>1 DEF CursorInv, CursorTyped
    <3>3. parked' = parked /\ parked.now \in BOOLEAN
      BY DEF CursorInv, CursorTyped, VisibleLive
    <3>4. QED
      BY <3>1, <3>2, <3>3 DEF CursorInv, CursorTyped, TaskPc
  <2>2. HideHasPosition'
    BY <1>1 DEF CursorInv, CursorTyped, HideHasPosition, Nothing
  <2>3. QED
    BY <2>1, <2>2 DEF CursorInv, ParkedIsSaved, OverlayFollows, VisibleLive
<1>2. CASE Finish(t)
  BY <1>2 DEF CursorInv, CursorTyped, HideHasPosition, ParkedIsSaved, OverlayFollows, VisibleLive, Finish,
              Resting, TaskPc
<1>3. QED
  BY <1>1, <1>2 DEF VisibleLive

LEMMA CursorCommits ==
    ASSUME CursorInv, NEW t \in Task, VisibleCommit(t)
    PROVE  CursorInv'
<1>1. CursorTyped' /\ HideHasPosition'
  <2>1. parked' \in [now : BOOLEAN, saved : BOOLEAN]
    <3>1. \/ parked' = parked \/ parked' = [now |-> parked.saved, saved |-> FALSE]
          \/ parked' = [now |-> TRUE, saved |-> task[t].parked]
      BY DEF VisibleCommit
    <3>2. parked.saved \in BOOLEAN /\ task[t].parked \in BOOLEAN /\ parked \in [now : BOOLEAN, saved : BOOLEAN]
      BY DEF CursorInv, CursorTyped
    <3>3. CASE parked' = [now |-> parked.saved, saved |-> FALSE]
      BY <3>2, <3>3
    <3>4. CASE parked' = [now |-> TRUE, saved |-> task[t].parked]
      BY <3>2, <3>4
    <3>5. QED
      BY <3>1, <3>2, <3>3, <3>4
  <2>2. QED
    BY <2>1 DEF CursorInv, CursorTyped, HideHasPosition, VisibleCommit, Finish, Resting, TaskPc
<1>2. OverlayFollows'
  BY DEF CursorInv, OverlayFollows, VisibleCommit
<1>3. ParkedIsSaved'
  <2>1. CASE UNCHANGED <<saved, parked, crossed>>
    BY <2>1 DEF CursorInv, ParkedIsSaved
  <2>2. CASE task[t].visible
    BY <2>2 DEF CursorInv, CursorTyped, ParkedIsSaved, VisibleCommit, NextCursorState, Nothing
  <2>3. CASE ~task[t].visible
    BY <2>3 DEF CursorInv, CursorTyped, HideHasPosition, ParkedIsSaved, VisibleCommit, NextCursorState, At,
                Nothing
  <2>4. QED
    BY <2>1, <2>2, <2>3 DEF CursorInv, CursorTyped
<1>4. QED
  BY <1>1, <1>2, <1>3 DEF CursorInv

LEMMA CursorOverlayApplies ==
    ASSUME CursorInv, OverlayApply
    PROVE  CursorInv'
BY DEF CursorInv, CursorTyped, HideHasPosition, ParkedIsSaved, OverlayFollows, OverlayApply, Nothing

\* Every step of the pointer keeps the invariant.
LEMMA CursorSteps == CursorInv /\ PointerNext => CursorInv'
<1> SUFFICES ASSUME CursorInv, PointerNext PROVE CursorInv'
  OBVIOUS
<1>1. ASSUME NEW r \in Request, MacMoveCursor(r) \/ LinuxMoveCursor(r) PROVE CursorInv'
  BY <1>1, CursorUntouched DEF MacMoveCursor, LinuxMoveCursor
<1>2. ASSUME NEW r \in Request, NEW t \in Task, WinMoveCursor(t, r) PROVE CursorInv'
  <2>1. CASE UNCHANGED <<task, parked>>
    BY <1>2, <2>1, CursorUntouched DEF WinMoveCursor
  <2>2. CASE task' = [task EXCEPT ![t].pc = "show"] /\ LeavesCorner
    BY <1>2, <2>2, CursorMoveBegins DEF WinMoveCursor
  <2>3. QED
    BY <1>2, <2>1, <2>2 DEF WinMoveCursor
<1>3. ASSUME NEW t \in Task, WinMoveRelative(t) PROVE CursorInv'
  BY <1>3, CursorMoveBegins DEF WinMoveRelative
<1>4. ASSUME CursorMoves PROVE CursorInv'
  BY <1>4, LeavingIsHarmless DEF CursorMoves, LeavesCorner, CursorInv, CursorTyped
<1>5. ASSUME Rearrange PROVE CursorInv'
  <2>1. parked' = [now |-> parked.now /\ cursor' = cursor, saved |-> parked.saved]
    BY <1>5 DEF Rearrange, CursorInv, CursorTyped
  <2>2. QED
    BY <1>5, <2>1, LeavingIsHarmless DEF Rearrange
<1>6. ASSUME Poll \/ CaptureStart \/ \E suppress \in BOOLEAN : EventFromDelta(suppress) PROVE CursorInv'
  BY <1>6, CursorUntouched DEF Poll, CaptureStart, EventFromDelta
<1>7. QED
  BY <1>1, <1>2, <1>3, <1>4, <1>5, <1>6, CursorMoveShows, CursorVisibleBegins, CursorPositionRead,
     CursorCommits, CursorOverlayApplies DEF PointerNext

(***************************************************************************)
(* Whatever tasks hide, show and move the cursor at once and whichever OS  *)
(* call fails, a cursor the Windows adapter holds to be visible is not     *)
(* left in its corner and the overlay ends as the last call wants it,      *)
(* short of the two known races (set_cursor_visible, next_cursor_state,    *)
(* the overlay's mailbox).                                                 *)
(***************************************************************************)
THEOREM CursorReturns == Spec => []CursorComesHome
<1>1. Init => CursorInv
  BY CursorStarts DEF Init
<1>2. CursorInv /\ [Next]_allVars => CursorInv'
  <2> SUFFICES ASSUME CursorInv, [Next]_allVars PROVE CursorInv'
    OBVIOUS
  <2>1. CASE PointerNext
    BY <2>1, CursorSteps
  <2>2. CASE UNCHANGED cursorVars
    BY <2>2, CursorUntouched DEF cursorVars
  <2>3. QED
    BY <2>1, <2>2 DEF Next, allVars
<1>3. CursorInv => CursorComesHome
  BY DEF CursorInv, ParkedIsSaved, OverlayFollows, CursorComesHome
<1>4. QED
  BY <1>1, <1>2, <1>3, PTL DEF Spec

-----------------------------------------------------------------------------
(* The mode is real.  First what the moves of threads and calls do.        *)

LEMMA TapMoved ==
    ASSUME tap \in TapType, NEW g \in Gen, NEW pc \in TapPc, TapMoves(g, pc)
    PROVE  /\ tap' \in TapType
           /\ \A h \in Gen : /\ tap'[h].pc = (IF h = g THEN pc ELSE tap[h].pc)
                             /\ tap'[h].suppress = tap[h].suppress /\ tap'[h].listen = tap[h].listen
BY DEF TapType, TapMoves

LEMMA CallWent ==
    ASSUME call \in CallType, NEW c \in Caller, NEW pc \in CallPc, Goto(c, pc)
    PROVE  /\ call' \in CallType
           /\ \A d \in Caller : /\ call'[d].pc = (IF d = c THEN pc ELSE call[d].pc)
                                /\ call'[d].mode = call[d].mode /\ call'[d].gen = call[d].gen
                                /\ call'[d].tap = call[d].tap /\ call'[d].stop = call[d].stop
                                /\ call'[d].handle = call[d].handle
BY DEF CallType, Goto

LEMMA IdleCallTyped ==
    IdleCall \in [pc : CallPc, mode : Mode, gen : Gen0, tap : Gen0, stop : Gen0, handle : Gen0]
BY CallBounds DEF IdleCall, CallPc, Mode, Gen0, None

LEMMA CallReturned ==
    ASSUME call \in CallType, NEW c \in Caller, Return(c)
    PROVE  /\ call' \in CallType
           /\ \A d \in Caller : call'[d] = (IF d = c THEN IdleCall ELSE call[d])
BY IdleCallTyped DEF CallType, Return

LEMMA FaultSpent == ASSUME faults \in 0..MaxFaults, Fault PROVE faults' \in 0..MaxFaults /\ Failed'
BY CallBounds DEF Fault, Failed

LEMMA ModesStart == ModesInit => ModesTyped /\ Unborn /\ LinInv /\ WinInv /\ MacInv
<1> SUFFICES ASSUME ModesInit PROVE ModesTyped /\ Unborn /\ LinInv /\ WinInv /\ MacInv
  OBVIOUS
<1> USE CallBounds DEF ModesInit, None
<1>1. run.mode = "Off" /\ run.pending = "none" /\ run.canSuppress = FALSE /\ run.generation = 0 /\ NoHandles
  BY DEF CaptureRun0, NoHandles
<1>2. \A g \in Gen : tap[g].pc = "none" /\ tap[g].listen = FALSE /\ tap[g].suppress = FALSE /\ poll[g] = "none"
  OBVIOUS
<1>3. \A c \in Caller : call[c] = IdleCall /\ call[c].pc = "idle"
  BY DEF IdleCall
<1>4. None \notin Gen
  BY DEF Gen
<1>5. ModesTyped
  <2>1. run \in RunType
    BY DEF CaptureRun0, RunType, Gen0, Mode
  <2>2. tap \in TapType /\ poll \in [Gen -> {"none", "running", "done"}]
    BY DEF TapType, TapPc
  <2>3. call \in CallType
    BY IdleCallTyped DEF CallType
  <2>4. faults \in 0..MaxFaults
    OBVIOUS
  <2>5. pollStop \subseteq Gen /\ wanted \in Mode
    BY DEF Mode
  <2>6. excused \in BOOLEAN
    OBVIOUS
  <2>7. QED
    BY <2>1, <2>2, <2>3, <2>4, <2>5, <2>6 DEF ModesTyped
<1>6. Unborn
  BY <1>2 DEF Unborn
<1>7. LinInv
  BY <1>1, <1>2, <1>3, <1>4 DEF LinInv, LinShape, LinReader, LinRecorded, CrossedStop, NoHandles
<1>8. WinInv
  BY <1>1, <1>2, <1>3, <1>4 DEF WinInv, WinFree, NoHandles, Idle
<1>9. MacInv
  <2>1. OwnGeneration /\ StartsItsThreads /\ GoesByMode /\ DetachesThePrevious
    BY <1>3 DEF OwnGeneration, StartsItsThreads, GoesByMode, DetachesThePrevious, Idle, Starting
  <2>2. TapsAwaited /\ ListenersLetPass /\ TapsHeld /\ PollsHeld /\ PollsEndWhenTold
    BY <1>2 DEF TapsAwaited, ListenersLetPass, TapsHeld, PollsHeld, PollsEndWhenTold
  <2>3. RunHolds /\ RunSuppresses /\ RunIsMode
    BY <1>1 DEF RunHolds, RunSuppresses, RunIsMode, NoHandles
  <2>4. PendingIsUnderWay /\ CurrentCall /\ WantedIsServed
    BY <1>1, <1>3 DEF PendingIsUnderWay, CurrentCall, WantedIsServed, NoHandles, Idle
  <2>5. QED
    BY <2>1, <2>2, <2>3, <2>4 DEF MacInv
<1>10. QED
  BY <1>5, <1>6, <1>7, <1>8, <1>9

-----------------------------------------------------------------------------
(* Linux.                                                                  *)

LinAll == ModesTyped /\ Unborn /\ LinInv

LEMMA LinSetModeStep ==
    ASSUME LinAll, NEW c \in Caller, NEW m \in Mode, LinSetMode(c, m)
    PROVE  LinAll'
<1> DEFINE rec == [IdleCall EXCEPT !.pc = "record", !.mode = m]
<1>1. rec \in [pc : CallPc, mode : Mode, gen : Gen0, tap : Gen0, stop : Gen0, handle : Gen0]
        /\ rec.pc = "record" /\ rec.mode = m
  BY IdleCallTyped DEF IdleCall, CallPc
<1>2. m # "Off"
  BY DEF LinSetMode
<1>3. ASSUME call' = [call EXCEPT ![c] = rec]
      PROVE  call' \in CallType /\ \A d \in Caller : call'[d] = (IF d = c THEN rec ELSE call[d])
  BY <1>1, <1>3 DEF LinAll, ModesTyped, CallType
<1>4. CASE run.tap # None /\ UNCHANGED <<run, tap, faults>> /\ call' = [call EXCEPT ![c] = rec]
  <2>1. ModesTyped' /\ Unborn'
    BY <1>3, <1>4 DEF LinAll, ModesTyped, Unborn, LinSetMode
  <2>2. LinInv'
    <3>1. LinShape' /\ LinReader'
      BY <1>1, <1>2, <1>3, <1>4 DEF LinAll, LinInv, LinShape, LinReader, LinSetMode
    <3>2. LinRecorded'
      BY <1>1, <1>3, <1>4 DEF LinRecorded, CrossedStop
    <3>3. QED
      BY <3>1, <3>2 DEF LinInv
  <2>3. QED
    BY <2>1, <2>2 DEF LinAll
<1>5. CASE /\ run.tap = None
           /\ run' = [run EXCEPT !.generation = @ + 1, !.tap = run.generation + 1]
           /\ TapMoves(run.generation + 1, "running") /\ UNCHANGED faults
           /\ call' = [call EXCEPT ![c] = rec]
  <2> DEFINE g == run.generation + 1
  <2>1. g \in Gen /\ g \in Gen0 /\ g # None /\ run.generation \in Gen0
    BY CallBounds DEF LinSetMode, Fresh, LinAll, ModesTyped, RunType, Gen, Gen0, None
  <2>2. run' \in RunType /\ run'.generation = g /\ run'.tap = g /\ run'.mode = run.mode
          /\ run'.pending = run.pending /\ run'.canSuppress = run.canSuppress
    BY <1>5, <2>1 DEF LinAll, ModesTyped, RunType
  <2>3. /\ tap' \in TapType
        /\ \A h \in Gen : tap'[h].pc = (IF h = g THEN "running" ELSE tap[h].pc)
    BY <1>5, <2>1, TapMoved DEF LinAll, ModesTyped, TapPc
  <2>4. ModesTyped'
    BY <1>3, <1>5, <2>2, <2>3 DEF LinAll, ModesTyped, LinSetMode
  <2>5. Unborn'
    BY <1>5, <2>1, <2>2, <2>3 DEF LinAll, Unborn, LinSetMode, Gen, Gen0
  <2>6. LinInv'
    <3>1. LinShape'
      BY <1>1, <1>2, <1>3, <1>5, <2>2, <2>3 DEF LinAll, LinInv, LinShape, LinSetMode
    <3>2. LinReader'
      <4>1. run.tap = None /\ None \notin Gen
        BY <1>5 DEF Gen, None
      <4>2. QED
        BY <2>1, <2>2, <2>3, <4>1 DEF LinAll, LinInv, LinReader
    <3>3. LinRecorded'
      <4>1. CrossedStop'
        BY <1>1, <1>3, <1>5 DEF CrossedStop
      <4>2. QED
        BY <2>1, <2>2, <4>1 DEF LinRecorded
    <3>4. QED
      BY <3>1, <3>2, <3>3 DEF LinInv
  <2>7. QED
    BY <2>4, <2>5, <2>6 DEF LinAll
<1>6. CASE run.tap = None /\ Fault /\ UNCHANGED <<run, tap, call>>
  <2>1. ModesTyped' /\ Unborn'
    BY <1>6, FaultSpent DEF LinAll, ModesTyped, Unborn, LinSetMode
  <2>2. LinInv'
    BY <1>6 DEF LinAll, LinInv, LinShape, LinReader, LinRecorded, LinSetMode, CrossedStop
  <2>3. QED
    BY <2>1, <2>2 DEF LinAll
<1>7. QED
  BY <1>4, <1>5, <1>6 DEF LinSetMode

LEMMA LinRecordStep ==
    ASSUME LinAll, NEW c \in Caller, LinRecord(c)
    PROVE  LinAll'
<1>1. call' \in CallType /\ \A d \in Caller : call'[d] = (IF d = c THEN IdleCall ELSE call[d])
  BY CallReturned DEF LinAll, ModesTyped, LinRecord
<1>2. call[c].mode \in Mode /\ call[c].pc = "record" /\ call[c].mode # "Off"
  BY DEF LinAll, ModesTyped, CallType, LinRecord, LinInv, LinShape
<1>3. run' \in RunType /\ run'.generation = run.generation /\ run'.tap = run.tap /\ run'.pending = run.pending
        /\ run'.mode = call[c].mode /\ run'.canSuppress = (call[c].mode = "ActiveForward" /\ run.tap # None)
  BY <1>2 DEF LinAll, ModesTyped, RunType, LinRecord
<1>4. ModesTyped' /\ Unborn'
  BY <1>1, <1>2, <1>3 DEF LinAll, ModesTyped, Unborn, LinRecord
<1>5. LinInv'
  <2>1. LinShape'
    BY <1>1, <1>2, <1>3 DEF LinAll, LinInv, LinShape, LinRecord, IdleCall
  <2>2. LinReader'
    BY <1>3 DEF LinAll, LinInv, LinReader, LinRecord
  <2>3. LinRecorded'
    BY <1>2, <1>3 DEF LinAll, LinInv, LinRecorded, CrossedStop, LinRecord
  <2>4. QED
    BY <2>1, <2>2, <2>3 DEF LinInv
<1>6. QED
  BY <1>4, <1>5 DEF LinAll

LEMMA LinStopStep ==
    ASSUME LinAll, NEW c \in Caller, LinStop(c)
    PROVE  LinAll'
<1> DEFINE rec == [IdleCall EXCEPT !.pc = "join", !.tap = run.tap]
           g == run.generation + 1
<1>1. rec \in [pc : CallPc, mode : Mode, gen : Gen0, tap : Gen0, stop : Gen0, handle : Gen0] /\ rec.pc = "join"
  BY IdleCallTyped DEF IdleCall, CallPc, LinAll, ModesTyped, RunType
<1>2. call' \in CallType /\ \A d \in Caller : call'[d] = (IF d = c THEN rec ELSE call[d])
  BY <1>1 DEF LinAll, ModesTyped, CallType, LinStop
<1>3. g \in Gen0 /\ run.generation \in Gen0 /\ None \in Gen0
  BY CallBounds DEF LinStop, Fresh, LinAll, ModesTyped, RunType, Gen, Gen0, None
<1>4. run' \in RunType /\ run'.generation = g /\ run'.tap = None /\ run'.mode = "Off"
        /\ run'.pending = run.pending /\ run'.canSuppress = FALSE
  BY <1>3 DEF LinAll, ModesTyped, RunType, LinStop, Mode
<1>5. /\ tap' \in TapType
      /\ \A h \in Gen : tap'[h].pc = (IF h = run.tap THEN "stopping" ELSE tap[h].pc)
  BY DEF LinAll, ModesTyped, LinStop, TapType, TapPc
<1>6. ModesTyped'
  BY <1>2, <1>4, <1>5 DEF LinAll, ModesTyped, LinStop, Mode
<1>7. Unborn'
  <2> SUFFICES ASSUME NEW h \in Gen, h > g
               PROVE  tap'[h].pc = "none" /\ poll'[h] = "none" /\ h \notin pollStop'
    BY <1>4 DEF Unborn
  <2>1. tap[h].pc = "none" /\ poll[h] = "none" /\ h \notin pollStop
    BY <1>3 DEF LinAll, Unborn, Gen, Gen0
  <2>2. h # run.tap
    BY <2>1 DEF LinAll, LinInv, LinReader
  <2>3. QED
    BY <1>5, <2>1, <2>2 DEF LinStop
<1>8. LinInv'
  <2>1. None \notin Gen
    BY DEF Gen, None
  <2>2. excused' = (excused \/ CrossedStop) /\ wanted' = "Off" /\ UNCHANGED poll
    BY DEF LinStop
  <2>3. ~excused' => ~CrossedStop'
    BY <1>1, <1>2, <2>2 DEF CrossedStop
  <2>4. QED
    <3>1. LinShape'
      <4>1. \A h \in Gen : poll'[h] = "none" /\ tap'[h].pc \in {"none", "running", "stopping", "done"}
        BY <1>5, <2>2 DEF LinAll, LinInv, LinShape
      <4>2. ASSUME NEW d \in Caller
            PROVE  call'[d].pc \in {"idle", "record", "join"} /\ (call'[d].pc = "record" => call'[d].mode # "Off")
        <5>1. CASE d = c
          BY <1>1, <1>2, <5>1
        <5>2. CASE d # c
          BY <1>2, <5>2 DEF LinAll, LinInv, LinShape
        <5>3. QED
          BY <5>1, <5>2
      <4>3. run'.pending = "none" /\ run'.mode = wanted'
        BY <1>4, <2>2 DEF LinAll, LinInv, LinShape
      <4>4. QED
        BY <4>1, <4>2, <4>3 DEF LinShape
    <3>2. LinReader'
      BY <1>4, <1>5, <2>1 DEF LinAll, LinInv, LinReader
    <3>3. LinRecorded'
      BY <1>4, <2>3 DEF LinRecorded
    <3>4. QED
      BY <3>1, <3>2, <3>3 DEF LinInv
<1>9. QED
  BY <1>6, <1>7, <1>8 DEF LinAll

LEMMA LinReaderEndsStep ==
    ASSUME LinAll, NEW g \in Gen, LinReaderEnds(g)
    PROVE  LinAll'
<1>1. tap' \in TapType /\ \A h \in Gen : tap'[h].pc = (IF h = g THEN "done" ELSE tap[h].pc)
  BY TapMoved DEF LinAll, ModesTyped, LinReaderEnds, TapPc
<1>2. ModesTyped' /\ Unborn'
  BY <1>1 DEF LinAll, ModesTyped, Unborn, LinReaderEnds
<1>3. LinInv'
  BY <1>1 DEF LinAll, LinInv, LinShape, LinReader, LinRecorded, LinReaderEnds, CrossedStop
<1>4. QED
  BY <1>2, <1>3 DEF LinAll

LEMMA LinJoinStep ==
    ASSUME LinAll, NEW c \in Caller, LinJoin(c)
    PROVE  LinAll'
<1>1. call' \in CallType /\ \A d \in Caller : call'[d] = (IF d = c THEN IdleCall ELSE call[d])
  BY CallReturned DEF LinAll, ModesTyped, LinJoin
<1>2. ModesTyped' /\ Unborn'
  BY <1>1 DEF LinAll, ModesTyped, Unborn, LinJoin
<1>3. LinInv'
  BY <1>1 DEF LinAll, LinInv, LinShape, LinReader, LinRecorded, LinJoin, CrossedStop, IdleCall
<1>4. QED
  BY <1>2, <1>3 DEF LinAll

-----------------------------------------------------------------------------
(* Windows.                                                                *)

WinAll == ModesTyped /\ Unborn /\ WinInv

LEMMA GenFacts ==
    ASSUME ModesTyped
    PROVE  /\ None \notin Gen /\ None \in Gen0 /\ Gen \subseteq Gen0
           /\ \A g \in Gen0 : g # None => g \in Gen
           /\ Fresh => run.generation + 1 \in Gen /\ run.generation + 1 > run.generation
           /\ run.generation \in Gen0 /\ run.generation \in Int
           /\ run.tap \in Gen0 /\ run.stop \in Gen0 /\ run.handle \in Gen0
           /\ \A g \in Gen : g \in Int
BY CallBounds DEF ModesTyped, RunType, Gen, Gen0, None, Fresh

LEMMA WinTeardownStep ==
    ASSUME WinAll, NEW c \in Caller, NEW m \in Mode, Unlocked, Fresh, WinTeardown(c, m), wanted' = m
    PROVE  WinAll'
<1> DEFINE g == run.generation + 1
           rec == [IdleCall EXCEPT !.pc = "join", !.mode = m, !.gen = g, !.tap = run.tap, !.handle = run.handle]
<1>1. ModesTyped /\ Unborn /\ WinFree /\ run.pending = "none" /\ \A d \in Caller : call[d].pc = "idle"
  BY DEF WinAll, WinInv, Unlocked, Idle
<1>2. g \in Gen /\ g \in Gen0 /\ g # None /\ g > run.generation
  BY <1>1, GenFacts
<1>3. /\ rec \in [pc : CallPc, mode : Mode, gen : Gen0, tap : Gen0, stop : Gen0, handle : Gen0]
      /\ rec.pc = "join" /\ rec.mode = m /\ rec.gen = g /\ rec.tap = run.tap /\ rec.handle = run.handle
  BY <1>1, <1>2, GenFacts, IdleCallTyped DEF IdleCall, CallPc
<1>4. call' \in CallType /\ call'[c] = rec /\ \A d \in Caller : d # c => call'[d] = call[d]
  BY <1>1, <1>3 DEF ModesTyped, CallType, WinTeardown
<1>5. /\ run' \in RunType /\ run'.generation = g /\ run'.pending = "none"
      /\ run'.tap = None /\ run'.stop = None /\ run'.handle = None
  BY <1>1, <1>2, GenFacts DEF ModesTyped, RunType, WinTeardown
<1>6. /\ tap' \in TapType
      /\ \A h \in Gen : tap'[h].pc = (IF h = run.tap THEN "stopping" ELSE tap[h].pc)
  BY <1>1 DEF ModesTyped, WinTeardown, TapType, TapPc
<1>7. pollStop' = pollStop \cup ({run.stop} \ {None}) /\ pollStop' \subseteq Gen
  BY <1>1, GenFacts DEF ModesTyped, WinTeardown
<1>8. UNCHANGED <<os, poll, faults, excused>>
  BY DEF WinTeardown
<1>9. ModesTyped'
  BY <1>1, <1>4, <1>5, <1>6, <1>7, <1>8 DEF ModesTyped
<1>10. \A h \in Gen : h > run.generation => /\ tap'[h].pc = "none" /\ poll'[h] = "none" /\ h \notin pollStop'
  <2> SUFFICES ASSUME NEW h \in Gen, h > run.generation
               PROVE  tap'[h].pc = "none" /\ poll'[h] = "none" /\ h \notin pollStop'
    OBVIOUS
  <2>1. tap[h].pc = "none" /\ poll[h] = "none" /\ h \notin pollStop
    BY <1>1 DEF Unborn
  <2>2. h # run.tap /\ h # run.stop
    BY <1>1, <2>1 DEF WinFree
  <2>3. QED
    BY <1>6, <1>7, <1>8, <2>1, <2>2
<1>11. Unborn'
  BY <1>1, <1>5, <1>10, GenFacts DEF Unborn
<1>12. WinJoining(c)'
  <2>1. NoHandles' /\ call'[c].gen = run'.generation /\ call'[c].gen # None /\ call'[c].mode = wanted'
    BY <1>2, <1>3, <1>4, <1>5 DEF NoHandles
  <2>2. tap'[g].pc = "none" /\ poll'[g] = "none" /\ g \notin pollStop'
    BY <1>2, <1>10
  <2>3. ASSUME NEW h \in Gen
        PROVE  tap'[h].pc \in {"none", "failed", "done"} \/ (tap'[h].pc = "stopping" /\ h = call'[c].tap)
    BY <1>1, <1>3, <1>4, <1>6 DEF WinFree
  <2>4. ASSUME NEW h \in Gen, poll'[h] = "running"
        PROVE  h = call'[c].handle /\ h \in pollStop'
    <3>1. h = run.handle /\ run.stop = run.handle
      BY <1>1, <1>8, <2>4 DEF WinFree
    <3>2. h # None
      BY <1>1, GenFacts
    <3>3. QED
      BY <1>3, <1>4, <1>7, <3>1, <3>2
  <2>5. QED
    BY <1>3, <1>4, <2>1, <2>2, <2>3, <2>4 DEF WinJoining
<1>13. WinInv'
  <2>1. \A d \in Caller : call'[d].pc = (IF d = c THEN "join" ELSE "idle")
    <3>1. call'[c].pc = "join"
      BY <1>3, <1>4
    <3>2. \A d \in Caller : d # c => call'[d].pc = "idle"
      BY <1>1, <1>4
    <3>3. QED
      BY <3>1, <3>2
  <2>2. QED
    BY <1>5, <1>12, <2>1 DEF WinInv, Unlocked, Idle
<1>14. QED
  BY <1>9, <1>11, <1>13 DEF WinAll

LEMMA WinSetModeStep ==
    ASSUME WinAll, NEW c \in Caller, NEW m \in Mode, WinSetMode(c, m)
    PROVE  WinAll'
<1>1. CASE WinTeardown(c, m)
  BY <1>1, WinTeardownStep DEF WinSetMode
<1>2. CASE run.mode = m /\ UNCHANGED <<os, run, tap, poll, pollStop, call, faults, excused>>
  <2>1. Unlocked /\ WinFree /\ wanted' = m
    BY DEF WinAll, WinInv, WinSetMode
  <2>2. WinFree'
    BY <1>2, <2>1 DEF WinFree, Failed
  <2>3. ModesTyped' /\ Unborn'
    BY <1>2, <2>1 DEF WinAll, ModesTyped, Unborn
  <2>4. WinInv'
    BY <1>2, <2>1, <2>2 DEF WinAll, WinInv, Unlocked, Idle
  <2>5. QED
    BY <2>3, <2>4 DEF WinAll
<1>3. QED
  BY <1>1, <1>2 DEF WinSetMode

LEMMA WinStopStep ==
    ASSUME WinAll, NEW c \in Caller, WinStop(c)
    PROVE  WinAll'
BY WinTeardownStep DEF WinStop, Mode

\* A join has seen every thread of the mode before end.
LEMMA WinJoined ==
    ASSUME WinAll, NEW c \in Caller, WinRestart(c)
    PROVE  /\ WinJoining(c) /\ call[c].gen \in Gen /\ call[c].mode \in Mode
           /\ \A d \in Caller : d # c => call[d].pc = "idle"
           /\ \A g \in Gen : tap[g].pc \in {"none", "failed", "done"}
           /\ \A g \in Gen : poll[g] # "running"
<1>1. ModesTyped /\ WinJoining(c) /\ call[c].pc = "join"
  BY DEF WinAll, WinInv, WinRestart
<1>2. call[c].gen \in Gen /\ call[c].mode \in Mode
  BY <1>1, GenFacts DEF ModesTyped, CallType, WinJoining
<1>3. \A d \in Caller : d # c => call[d].pc = "idle"
  BY <1>1 DEF WinAll, WinInv, Idle
<1>4. \A g \in Gen : g # None
  BY <1>1, GenFacts
<1>5. \A g \in Gen : tap[g].pc \in {"none", "failed", "done"}
  BY <1>1, <1>4 DEF WinJoining, WinRestart
<1>6. \A g \in Gen : poll[g] # "running"
  BY <1>1, <1>4 DEF WinJoining, WinRestart
<1>7. QED
  BY <1>1, <1>2, <1>3, <1>5, <1>6

LEMMA WinPollExitStep ==
    ASSUME WinAll, NEW g \in Gen, PollExit(g)
    PROVE  WinAll'
<1>1. poll' \in [Gen -> {"none", "running", "done"}] /\ \A h \in Gen : poll'[h] = (IF h = g THEN "done" ELSE poll[h])
  BY DEF PollExit, WinAll, ModesTyped
<1>2. g \in pollStop /\ poll[g] = "running" /\ UNCHANGED <<os, run, tap, pollStop, call, faults, wanted, excused>>
  BY DEF PollExit
<1>3. ModesTyped'
  BY <1>1, <1>2 DEF WinAll, ModesTyped
<1>4. Unborn'
  BY <1>1, <1>2 DEF WinAll, Unborn
<1>5. ~Unlocked
  BY <1>2 DEF WinAll, WinInv, WinFree
<1>6. ASSUME NEW c \in Caller, call[c].pc = "join" PROVE WinJoining(c)'
  <2>1. WinJoining(c) /\ call[c].gen \in Gen
    BY <1>6, GenFacts DEF WinAll, WinInv, ModesTyped, CallType, WinJoining
  <2>2. QED
    BY <1>1, <1>2, <2>1 DEF WinJoining, NoHandles
<1>7. ASSUME NEW c \in Caller PROVE call[c].pc # "wait"
  BY <1>2 DEF WinAll, WinInv, WinWaiting
<1>8. WinInv'
  BY <1>2, <1>5, <1>6, <1>7 DEF WinAll, WinInv, Unlocked, Idle
<1>9. QED
  BY <1>3, <1>4, <1>8 DEF WinAll

\* The mode is started in the place of the one joined: nothing else runs.
LEMMA WinRestartStep ==
    ASSUME WinAll, NEW c \in Caller, WinRestart(c)
    PROVE  WinAll'
<1> DEFINE g == call[c].gen
           off == [run EXCEPT !.mode = "Off", !.canSuppress = FALSE]
<1>1. ModesTyped /\ Unborn /\ run.pending = "none" /\ UNCHANGED <<os, pollStop, wanted, excused>>
  BY DEF WinAll, WinInv, WinRestart
<1>2. /\ WinJoining(c) /\ g \in Gen /\ call[c].mode \in Mode
      /\ \A d \in Caller : d # c => call[d].pc = "idle"
      /\ \A h \in Gen : tap[h].pc \in {"none", "failed", "done"}
      /\ \A h \in Gen : poll[h] # "running"
  BY WinJoined
<1>3. /\ off \in RunType /\ off.mode = "Off" /\ off.canSuppress = FALSE /\ off.pending = "none"
      /\ off.generation = run.generation /\ off.tap = None /\ off.stop = None /\ off.handle = None
  BY <1>1, <1>2 DEF ModesTyped, RunType, WinJoining, NoHandles, Mode
<1>4. /\ g = run.generation /\ call[c].mode = wanted /\ tap[g].pc = "none" /\ poll[g] = "none" /\ g \notin pollStop
  BY <1>2 DEF WinJoining
<1>5. None \notin Gen /\ Gen \subseteq Gen0 /\ \A h \in Gen : h \in Int
  BY <1>1, GenFacts
<1>6. ASSUME Return(c)
      PROVE  call' \in CallType /\ \A d \in Caller : call'[d].pc = "idle"
  BY <1>1, <1>2, <1>6, CallReturned DEF ModesTyped, IdleCall
<1>7. ASSUME Return(c), run' \in RunType, run'.pending = "none", run'.generation = run.generation,
             tap' = tap, poll' \in [Gen -> {"none", "running", "done"}],
             \A h \in Gen : h # g => poll'[h] = poll[h], faults' \in 0..MaxFaults, WinFree'
      PROVE  WinAll'
  <2>1. ModesTyped'
    BY <1>1, <1>6, <1>7 DEF ModesTyped
  <2>2. Unborn'
    BY <1>1, <1>4, <1>5, <1>7 DEF Unborn
  <2>3. WinInv'
    BY <1>6, <1>7 DEF WinInv, Unlocked, Idle
  <2>4. QED
    BY <2>1, <2>2, <2>3 DEF WinAll
<1>8. ASSUME run' = off, UNCHANGED <<tap, poll>>, Return(c), wanted = "Off" \/ Failed', faults' \in 0..MaxFaults
      PROVE  WinAll'
  <2>1. WinFree'
    BY <1>1, <1>2, <1>3, <1>5, <1>8 DEF WinFree, ModesTyped
  <2>2. poll' \in [Gen -> {"none", "running", "done"}]
    BY <1>1, <1>8 DEF ModesTyped
  <2>3. QED
    BY <1>3, <1>7, <1>8, <2>1, <2>2
<1>9. CASE call[c].mode = "Off"
  <2>1. run' = off /\ Return(c) /\ UNCHANGED <<tap, poll, faults>>
    BY <1>9 DEF WinRestart
  <2>2. QED
    BY <1>1, <1>4, <1>8, <1>9, <2>1 DEF ModesTyped
<1>10. CASE call[c].mode = "PassiveEdge"
  <2>1. Return(c) /\ UNCHANGED tap
    BY <1>10 DEF WinRestart
  <2>2. CASE Fault /\ run' = off /\ UNCHANGED poll
    BY <1>1, <1>8, <2>1, <2>2, FaultSpent DEF ModesTyped
  <2>3. CASE /\ run' = [off EXCEPT !.mode = "PassiveEdge", !.stop = g, !.handle = g]
             /\ poll' = [poll EXCEPT ![g] = "running"] /\ UNCHANGED faults
    <3>1. /\ run' \in RunType /\ run'.mode = "PassiveEdge" /\ run'.stop = g /\ run'.handle = g
          /\ run'.pending = "none" /\ run'.generation = run.generation /\ run'.tap = None
          /\ run'.canSuppress = FALSE
      BY <1>2, <1>3, <1>5, <2>3 DEF RunType, Mode
    <3>2. /\ poll' \in [Gen -> {"none", "running", "done"}]
          /\ \A h \in Gen : poll'[h] = (IF h = g THEN "running" ELSE poll[h])
      BY <1>1, <2>3 DEF ModesTyped
    <3>3. WinFree'
      BY <1>1, <1>2, <1>4, <1>5, <1>10, <2>1, <3>1, <3>2 DEF WinFree
    <3>4. QED
      BY <1>1, <1>7, <2>1, <2>3, <3>1, <3>2, <3>3 DEF ModesTyped
  <2>4. QED
    BY <1>10, <2>2, <2>3 DEF WinRestart
<1>11. CASE call[c].mode = "ActiveForward"
  <2>1. run' = off /\ UNCHANGED poll
    BY <1>11 DEF WinRestart
  <2>2. CASE Fault /\ Return(c) /\ UNCHANGED tap
    BY <1>1, <1>8, <2>1, <2>2, FaultSpent DEF ModesTyped
  <2>3. CASE TapMoves(g, "spawned") /\ Goto(c, "wait") /\ UNCHANGED faults
    <3>1. tap' \in TapType /\ \A h \in Gen : tap'[h].pc = (IF h = g THEN "spawned" ELSE tap[h].pc)
      BY <1>1, <1>2, <2>3, TapMoved DEF ModesTyped, TapPc
    <3>2. /\ call' \in CallType
          /\ \A d \in Caller : call'[d].pc = (IF d = c THEN "wait" ELSE call[d].pc) /\ call'[d].gen = call[d].gen
      BY <1>1, <2>3, CallWent DEF ModesTyped, CallPc
    <3>3. ModesTyped'
      BY <1>1, <1>3, <2>1, <2>3, <3>1, <3>2 DEF ModesTyped
    <3>4. Unborn'
      BY <1>1, <1>3, <1>4, <1>5, <2>1, <3>1 DEF Unborn
    <3>5. WinWaiting(c)'
      <4>1. NoHandles' /\ call'[c].gen = run'.generation /\ call'[c].gen # None
        BY <1>2, <1>3, <1>4, <1>5, <2>1, <3>2 DEF NoHandles
      <4>2. run'.mode = "Off" /\ ~run'.canSuppress /\ wanted' = "ActiveForward"
        BY <1>1, <1>3, <1>4, <1>11, <2>1
      <4>3. tap'[call'[c].gen].pc = "spawned"
        BY <1>2, <3>1, <3>2
      <4>4. QED
        BY <1>2, <2>1, <3>1, <3>2, <4>1, <4>2, <4>3 DEF WinWaiting
    <3>6. WinInv'
      BY <1>2, <1>3, <2>1, <3>2, <3>5 DEF WinInv, Unlocked, Idle
    <3>7. QED
      BY <3>3, <3>4, <3>6 DEF WinAll
  <2>4. QED
    BY <1>11, <2>2, <2>3 DEF WinRestart
<1>12. QED
  BY <1>2, <1>9, <1>10, <1>11 DEF Mode

LEMMA WinInstallStep ==
    ASSUME WinAll, NEW g \in Gen, WinInstall(g)
    PROVE  WinAll'
<1>1. ModesTyped /\ Unborn /\ tap[g].pc = "spawned" /\ UNCHANGED <<os, run, poll, pollStop, call, wanted, excused>>
  BY DEF WinAll, WinInstall
<1>2. PICK c \in Caller : call[c].pc = "wait" /\ WinWaiting(c) /\ g = call[c].gen
  <2>1. ~Unlocked
    BY <1>1 DEF WinAll, WinInv, WinFree
  <2>2. PICK c \in Caller : call[c].pc # "idle"
    BY <2>1 DEF Unlocked, Idle
  <2>3. call[c].pc # "join"
    BY <1>1 DEF WinAll, WinInv, WinJoining
  <2>4. call[c].pc = "wait" /\ WinWaiting(c)
    BY <2>2, <2>3 DEF WinAll, WinInv
  <2>5. g = call[c].gen
    BY <1>1, <2>4 DEF WinWaiting
  <2>6. QED
    BY <2>4, <2>5
<1>3. /\ tap' \in TapType /\ \A h \in Gen : h # g => tap'[h].pc = tap[h].pc
      /\ (tap'[g].pc = "running" /\ tap'[g].suppress) \/ (tap'[g].pc = "failed" /\ Failed')
      /\ faults' \in 0..MaxFaults
  <2>1. CASE tap' = [tap EXCEPT ![g].pc = "running", ![g].suppress = TRUE] /\ UNCHANGED faults
    <3>1. tap[g] \in [pc : TapPc, suppress : BOOLEAN, listen : BOOLEAN]
      BY <1>1 DEF ModesTyped, TapType
    <3>2. tap' \in TapType /\ tap'[g].pc = "running" /\ \A h \in Gen : h # g => tap'[h].pc = tap[h].pc
      BY <1>1, <2>1 DEF ModesTyped, TapType, TapPc
    <3>3. tap'[g].suppress = TRUE
      BY <1>1, <2>1, <3>1 DEF ModesTyped, TapType
    <3>4. QED
      BY <1>1, <2>1, <3>2, <3>3 DEF ModesTyped
  <2>2. CASE Fault /\ TapMoves(g, "failed")
    BY <1>1, <2>2, TapMoved, FaultSpent DEF ModesTyped, TapPc
  <2>3. QED
    BY <2>1, <2>2 DEF WinInstall
<1>4. ModesTyped' /\ Unborn'
  BY <1>1, <1>3 DEF ModesTyped, Unborn
<1>5. WinWaiting(c)'
  <2>1. \A h \in Gen : tap'[h].pc \in {"none", "failed", "done"} \/ (h = g /\ tap'[h].pc \in {"spawned", "running"})
    BY <1>2, <1>3 DEF WinWaiting
  <2>2. tap'[g].pc \in {"spawned", "running", "failed"}
    BY <1>3
  <2>3. (tap'[g].pc = "running" => tap'[g].suppress) /\ (tap'[g].pc = "failed" => Failed')
    BY <1>3
  <2>4. QED
    BY <1>1, <1>2, <2>1, <2>2, <2>3 DEF WinWaiting, NoHandles
<1>6. WinInv'
  BY <1>1, <1>2, <1>5 DEF WinAll, WinInv, Unlocked, Idle
<1>7. QED
  BY <1>4, <1>6 DEF WinAll

LEMMA WinHooksGoStep ==
    ASSUME WinAll, NEW g \in Gen, WinHooksGo(g)
    PROVE  WinAll'
<1>1. /\ ModesTyped /\ Unborn /\ tap[g].pc = "stopping"
      /\ UNCHANGED <<os, run, poll, pollStop, call, faults, wanted, excused>>
  BY DEF WinAll, WinHooksGo
<1>2. tap' \in TapType /\ tap'[g].pc = "done" /\ \A h \in Gen : h # g => tap'[h].pc = tap[h].pc
  BY <1>1 DEF WinHooksGo, ModesTyped, TapType, TapPc
<1>3. ModesTyped' /\ Unborn'
  BY <1>1, <1>2 DEF ModesTyped, Unborn
<1>4. ~Unlocked /\ \A c \in Caller : call[c].pc # "wait"
  BY <1>1 DEF WinAll, WinInv, WinFree, WinWaiting
<1>5. ASSUME NEW c \in Caller, call[c].pc = "join" PROVE WinJoining(c)'
  <2>1. WinJoining(c) /\ call[c].gen \in Gen
    BY <1>1, <1>5, GenFacts DEF WinAll, WinInv, ModesTyped, CallType, WinJoining
  <2>2. QED
    BY <1>1, <1>2, <2>1 DEF WinJoining, NoHandles
<1>6. WinInv'
  BY <1>1, <1>4, <1>5 DEF WinAll, WinInv, Unlocked, Idle
<1>7. QED
  BY <1>3, <1>6 DEF WinAll

LEMMA WinStartedStep ==
    ASSUME WinAll, NEW c \in Caller, WinStarted(c)
    PROVE  WinAll'
<1> DEFINE g == call[c].gen
<1>1. /\ ModesTyped /\ Unborn /\ call[c].pc = "wait" /\ WinWaiting(c) /\ run.pending = "none"
      /\ UNCHANGED <<os, tap, poll, pollStop, faults, wanted, excused>>
  BY DEF WinAll, WinInv, WinStarted
<1>2. \A d \in Caller : d # c => call[d].pc = "idle"
  BY <1>1 DEF WinAll, WinInv, Idle
<1>3. call' \in CallType /\ \A d \in Caller : call'[d].pc = "idle"
  BY <1>1, <1>2, CallReturned DEF WinStarted, ModesTyped, IdleCall
<1>4. g \in Gen /\ g \in Gen0 /\ None \notin Gen /\ None \notin pollStop
  BY <1>1, GenFacts DEF WinWaiting, ModesTyped, CallType
<1>5. CASE tap[g].pc = "running"
  <2>1. /\ run' \in RunType /\ run'.tap = g /\ run'.canSuppress = TRUE /\ run'.mode = "ActiveForward"
        /\ run'.pending = "none" /\ run'.stop = None /\ run'.handle = None /\ run'.generation = run.generation
    BY <1>1, <1>4, <1>5 DEF WinStarted, ModesTyped, RunType, Mode, WinWaiting, NoHandles
  <2>2. WinFree'
    BY <1>1, <1>4, <1>5, <2>1 DEF WinFree, WinWaiting
  <2>3. QED
    BY <1>1, <1>3, <2>1, <2>2 DEF WinAll, ModesTyped, Unborn, WinInv, Unlocked, Idle
<1>6. CASE tap[g].pc = "failed"
  <2>1. run' = run
    BY <1>6 DEF WinStarted
  <2>2. WinFree'
    BY <1>1, <1>4, <1>6, <2>1 DEF WinFree, WinWaiting, NoHandles, Failed
  <2>3. QED
    BY <1>1, <1>3, <2>1, <2>2 DEF WinAll, ModesTyped, Unborn, WinInv, Unlocked, Idle
<1>7. QED
  BY <1>5, <1>6 DEF WinStarted

-----------------------------------------------------------------------------
(* macOS.                                                                  *)

MacAll == ModesTyped /\ Unborn /\ MacInv

\* Where generations are numbers of threads.
LEMMA MacFacts ==
    ASSUME MacAll
    PROVE  /\ None \notin Gen /\ None \in Gen0 /\ run.generation \in Int /\ \A g \in Gen : g \in Int /\ g \in Gen0
           /\ run.tap # None => run.tap \in Gen
           /\ run.stop # None => run.stop \in Gen
           /\ run.handle # None => run.handle \in Gen
           /\ \A c \in Caller : call[c].pc # "idle" => call[c].gen \in Gen /\ call[c].gen <= run.generation
           /\ \A c \in Caller : /\ call[c].tap # None => call[c].tap \in Gen
                                /\ call[c].stop # None => call[c].stop \in Gen
                                /\ call[c].handle # None => call[c].handle \in Gen
<1>1. ModesTyped /\ OwnGeneration
  BY DEF MacAll, MacInv
<1>2. \A c \in Caller : call[c].gen \in Gen0 /\ call[c].tap \in Gen0 /\ call[c].stop \in Gen0
                        /\ call[c].handle \in Gen0
  BY <1>1 DEF ModesTyped, CallType
<1>3. \A c \in Caller : call[c].pc # "idle" => call[c].gen \in Gen /\ call[c].gen <= run.generation
  BY <1>1, <1>2, GenFacts DEF OwnGeneration, Idle, Gen, Gen0
<1>4. \A g \in Gen : g \in Int /\ g \in Gen0
  BY <1>1, GenFacts
<1>5. QED
  BY <1>1, <1>2, <1>3, <1>4, GenFacts

LEMMA MacAlreadyThereStep ==
    ASSUME MacAll, NEW m \in Mode, MacAlreadyThere(m), wanted' = m, UNCHANGED <<os, run, tap, poll, pollStop, call, faults, excused>>
    PROVE  MacAll'
<1>1. ModesTyped /\ Unborn /\ MacInv
  BY DEF MacAll
<1>2. ModesTyped'
  BY <1>1 DEF ModesTyped
<1>3. Unborn'
  BY <1>1 DEF Unborn
<1>4. OwnGeneration'
  BY <1>1 DEF MacInv, OwnGeneration, Idle
<1>5. StartsItsThreads'
  BY <1>1 DEF MacInv, StartsItsThreads, OwnGeneration, Starting, Idle
<1>6. GoesByMode'
  BY <1>1 DEF MacInv, GoesByMode
<1>7. DetachesThePrevious'
  BY <1>1 DEF MacInv, DetachesThePrevious
<1>8. TapsAwaited'
  BY <1>1 DEF MacInv, TapsAwaited
<1>9. ListenersLetPass'
  BY <1>1 DEF MacInv, ListenersLetPass
<1>10. TapsHeld'
  BY <1>1 DEF MacInv, TapsHeld
<1>11. PollsHeld'
  BY <1>1 DEF MacInv, PollsHeld
<1>12. PollsEndWhenTold'
  BY <1>1 DEF MacInv, PollsEndWhenTold
<1>13. RunHolds'
  BY <1>1 DEF MacInv, RunHolds
<1>14. RunSuppresses'
  BY <1>1 DEF MacInv, RunSuppresses
<1>15. RunIsMode'
  BY <1>1 DEF MacInv, RunIsMode
<1>16. PendingIsUnderWay'
  BY <1>1 DEF MacInv, PendingIsUnderWay, Idle, Current
<1>17. CurrentCall'
  BY <1>1 DEF MacInv, CurrentCall, RunFollowsCall, Idle, Current, Failed
<1>18. WantedIsServed'
  BY <1>1 DEF MacInv, WantedIsServed, Failed, MacAlreadyThere, RunIsMode
<1>19. QED
  BY <1>2, <1>3, <1>4, <1>5, <1>6, <1>7, <1>8, <1>9, <1>10, <1>11, <1>12, <1>13, <1>14, <1>15, <1>16, <1>17,
     <1>18 DEF MacAll, MacInv

\* set_mode and stop take the next generation and every handle of the one before.
LEMMA MacClaimStep ==
    ASSUME MacAll, NEW c \in Caller, NEW m \in Mode, Idle(c), Fresh, run' = MacClaimed(m), MacDetaching(c, m),
           wanted' = m, UNCHANGED <<os, tap, poll, pollStop, faults, excused>>
    PROVE  MacAll'
<1> DEFINE g == run.generation + 1
<1>1. ModesTyped /\ Unborn /\ MacInv
  BY DEF MacAll
<1>2. /\ None \notin Gen /\ run.generation \in Int /\ \A h \in Gen : h \in Int /\ h \in Gen0
      /\ run.tap # None => run.tap \in Gen
      /\ run.stop # None => run.stop \in Gen
      /\ run.handle # None => run.handle \in Gen
      /\ \A d \in Caller : call[d].pc # "idle" => call[d].gen \in Gen /\ call[d].gen <= run.generation
      /\ \A d \in Caller : call[d].tap # None => call[d].tap \in Gen
  BY MacFacts
<1>3. g \in Gen /\ g \in Gen0 /\ g >= 1 /\ g - 1 = run.generation /\ call[c].pc = "idle"
  BY <1>1, GenFacts DEF Idle, Gen
<1>4. /\ \A h \in Gen : (h > g => h > run.generation) /\ (h < run.generation => h < g)
      /\ \A h \in Gen : h <= run.generation => h # g /\ h <= g /\ h >= 1
  BY <1>2, <1>3 DEF Gen
<1>5. /\ run' \in RunType /\ run'.generation = g /\ run'.mode = "Off" /\ run'.canSuppress = FALSE
      /\ run'.pending = (IF m = "Off" THEN "none" ELSE m)
      /\ run'.tap = None /\ run'.stop = None /\ run'.handle = None
  BY <1>1, <1>3, GenFacts DEF MacClaimed, ModesTyped, RunType, Mode
<1>6. /\ call' \in CallType /\ \A d \in Caller : d # c => call'[d] = call[d]
      /\ call'[c].pc = "detach" /\ call'[c].mode = m /\ call'[c].gen = g
      /\ call'[c].tap = run.tap /\ call'[c].stop = run.stop /\ call'[c].handle = run.handle
  BY <1>1, <1>3, GenFacts DEF MacDetaching, ModesTyped, CallType, CallPc
<1>7. tap[g].pc = "none" /\ poll[g] = "none" /\ pollStop \subseteq Gen
  BY <1>1, <1>2, <1>3 DEF Unborn, ModesTyped
<1>8. ModesTyped'
  BY <1>1, <1>2, <1>3, <1>4, <1>5, <1>6, <1>7 DEF ModesTyped
<1>9. Unborn'
  BY <1>1, <1>2, <1>3, <1>4, <1>5, <1>6, <1>7 DEF Unborn
<1>10. OwnGeneration'
  BY <1>1, <1>2, <1>3, <1>4, <1>5, <1>6, <1>7 DEF MacInv, OwnGeneration, Idle
<1>11. StartsItsThreads'
  BY <1>1, <1>2, <1>3, <1>4, <1>5, <1>6, <1>7 DEF MacInv, StartsItsThreads, OwnGeneration, Starting, Idle
<1>12. GoesByMode'
  BY <1>1, <1>2, <1>3, <1>4, <1>5, <1>6, <1>7 DEF MacInv, GoesByMode
<1>13. DetachesThePrevious'
  BY <1>1, <1>2, <1>3, <1>4, <1>5, <1>6, <1>7 DEF MacInv, DetachesThePrevious, RunHolds
<1>14. TapsAwaited'
  BY <1>1, <1>2, <1>3, <1>4, <1>5, <1>6, <1>7 DEF MacInv, TapsAwaited
<1>15. ListenersLetPass'
  BY <1>1, <1>2, <1>3, <1>4, <1>5, <1>6, <1>7 DEF MacInv, ListenersLetPass
<1>16. TapsHeld'
  BY <1>1, <1>2, <1>3, <1>4, <1>5, <1>6, <1>7 DEF MacInv, TapsHeld, RunHolds
<1>17. PollsHeld'
  BY <1>1, <1>2, <1>3, <1>4, <1>5, <1>6, <1>7 DEF MacInv, PollsHeld, RunHolds
<1>18. PollsEndWhenTold'
  BY <1>1, <1>2, <1>3, <1>4, <1>5, <1>6, <1>7 DEF MacInv, PollsEndWhenTold
<1>19. RunHolds'
  BY <1>1, <1>2, <1>3, <1>4, <1>5, <1>6, <1>7 DEF MacInv, RunHolds
<1>20. RunSuppresses'
  BY <1>1, <1>2, <1>3, <1>4, <1>5, <1>6, <1>7 DEF MacInv, RunSuppresses
<1>21. RunIsMode'
  BY <1>1, <1>2, <1>3, <1>4, <1>5, <1>6, <1>7 DEF MacInv, RunIsMode
<1>22. PendingIsUnderWay'
  BY <1>1, <1>2, <1>3, <1>4, <1>5, <1>6, <1>7 DEF MacInv, PendingIsUnderWay, Idle, Current
<1>23. CurrentCall'
  BY <1>1, <1>2, <1>3, <1>4, <1>5, <1>6, <1>7 DEF MacInv, CurrentCall, RunFollowsCall, Idle, Current, Failed
<1>24. WantedIsServed'
  BY <1>1, <1>2, <1>3, <1>4, <1>5, <1>6, <1>7 DEF MacInv, WantedIsServed, Failed
<1>25. QED
  BY <1>8, <1>9, <1>10, <1>11, <1>12, <1>13, <1>14, <1>15, <1>16, <1>17, <1>18, <1>19, <1>20, <1>21, <1>22,
     <1>23, <1>24 DEF MacAll, MacInv

LEMMA MacDetachStep ==
    ASSUME MacAll, NEW c \in Caller, MacDetach(c)
    PROVE  MacAll'
<1>1. ModesTyped /\ Unborn /\ MacInv
  BY DEF MacAll
<1>2. /\ None \notin Gen /\ run.generation \in Int /\ \A h \in Gen : h \in Int /\ h \in Gen0
      /\ run.tap # None => run.tap \in Gen
      /\ run.stop # None => run.stop \in Gen
      /\ run.handle # None => run.handle \in Gen
      /\ \A d \in Caller : call[d].pc # "idle" => call[d].gen \in Gen /\ call[d].gen <= run.generation
      /\ \A d \in Caller : call[d].tap # None => call[d].tap \in Gen
  BY MacFacts
<1>3. call[c].pc = "detach" /\ excused' = (excused \/ LostStop(c)) /\ UNCHANGED <<os, run, poll, faults, wanted>>
  BY DEF MacDetach
<1>4. /\ tap' \in TapType
      /\ \A h \in Gen : /\ tap'[h].pc = (IF h = call[c].tap /\ tap[h].pc = "running" THEN "stopping" ELSE tap[h].pc)
                        /\ tap'[h].suppress = tap[h].suppress /\ tap'[h].listen = tap[h].listen
  BY <1>1 DEF MacDetach, ModesTyped, TapType, TapPc
<1>5. pollStop' = pollStop \cup ({call[c].stop} \ {None}) /\ pollStop' \subseteq Gen
  BY <1>1, MacFacts DEF MacDetach, ModesTyped
<1>6. /\ call' \in CallType
      /\ \A d \in Caller : /\ call'[d].pc = (IF d = c THEN "join" ELSE call[d].pc)
                           /\ call'[d].mode = call[d].mode /\ call'[d].gen = call[d].gen
                           /\ call'[d].tap = call[d].tap /\ call'[d].stop = call[d].stop
                           /\ call'[d].handle = call[d].handle
  BY <1>1, CallWent DEF MacDetach, ModesTyped, CallPc
<1>7. /\ call[c].tap # None => call[c].tap = call[c].gen - 1 /\ call[c].tap < run.generation
      /\ call[c].stop # None => call[c].stop = call[c].gen - 1 /\ call[c].stop < run.generation
  BY <1>1, <1>2, <1>3 DEF MacInv, DetachesThePrevious
<1>8. ModesTyped'
  BY <1>1, <1>2, <1>3, <1>4, <1>5, <1>6, <1>7 DEF ModesTyped
<1>9. Unborn'
  BY <1>1, <1>2, <1>3, <1>4, <1>5, <1>6, <1>7 DEF Unborn
<1>10. OwnGeneration'
  BY <1>1, <1>2, <1>3, <1>4, <1>5, <1>6, <1>7 DEF MacInv, OwnGeneration, Idle
<1>11. StartsItsThreads'
  BY <1>1, <1>2, <1>3, <1>4, <1>5, <1>6, <1>7 DEF MacInv, StartsItsThreads, OwnGeneration, Starting, Idle
<1>12. GoesByMode'
  BY <1>1, <1>2, <1>3, <1>4, <1>6 DEF MacInv, GoesByMode
<1>13. DetachesThePrevious'
  BY <1>1, <1>2, <1>3, <1>4, <1>5, <1>6, <1>7 DEF MacInv, DetachesThePrevious, OwnGeneration, Idle
<1>14. TapsAwaited'
  BY <1>1, <1>2, <1>3, <1>4, <1>5, <1>6, <1>7 DEF MacInv, TapsAwaited
<1>15. ListenersLetPass'
  BY <1>1, <1>2, <1>3, <1>4, <1>5, <1>6, <1>7 DEF MacInv, ListenersLetPass
<1>16. TapsHeld'
  <2> SUFFICES ASSUME ~excused', NEW g \in Gen, tap'[g].pc \in {"claimed", "running"}
               PROVE  g = run'.tap \/ \E d \in Caller : call'[d].pc = "detach" /\ call'[d].tap = g
    BY DEF TapsHeld
  <2>1. ~excused /\ ~LostStop(c) /\ tap[g].pc \in {"claimed", "running"}
    BY <1>3, <1>4
  <2>2. g # call[c].tap
    BY <1>2, <1>4, <2>1 DEF LostStop
  <2>3. CASE g = run.tap
    BY <1>3, <2>3
  <2>4. ASSUME NEW d \in Caller, call[d].pc = "detach", call[d].tap = g
        PROVE  call'[d].pc = "detach" /\ call'[d].tap = g
    BY <1>6, <2>2, <2>4
  <2>5. QED
    BY <1>1, <2>1, <2>3, <2>4 DEF MacInv, TapsHeld
<1>17. PollsHeld'
  BY <1>1, <1>2, <1>3, <1>4, <1>5, <1>6, <1>7 DEF MacInv, PollsHeld
<1>18. PollsEndWhenTold'
  BY <1>1, <1>2, <1>3, <1>4, <1>5, <1>6, <1>7 DEF MacInv, PollsEndWhenTold
<1>19. RunHolds'
  BY <1>1, <1>2, <1>3, <1>4, <1>5, <1>6, <1>7 DEF MacInv, RunHolds
<1>20. RunSuppresses'
  BY <1>1, <1>2, <1>3, <1>4, <1>5, <1>6, <1>7 DEF MacInv, RunSuppresses
<1>21. RunIsMode'
  BY <1>1, <1>2, <1>3, <1>4, <1>5, <1>6, <1>7 DEF MacInv, RunIsMode
<1>22. PendingIsUnderWay'
  BY <1>1, <1>2, <1>3, <1>4, <1>5, <1>6, <1>7 DEF MacInv, PendingIsUnderWay, Idle, Current
<1>23. CurrentCall'
  BY <1>1, <1>2, <1>3, <1>4, <1>5, <1>6, <1>7 DEF MacInv, CurrentCall, RunFollowsCall, Idle, Current, Failed
<1>24. WantedIsServed'
  BY <1>1, <1>2, <1>3, <1>4, <1>5, <1>6, <1>7 DEF MacInv, WantedIsServed, Failed
<1>25. QED
  BY <1>8, <1>9, <1>10, <1>11, <1>12, <1>13, <1>14, <1>15, <1>16, <1>17, <1>18, <1>19, <1>20, <1>21, <1>22,
     <1>23, <1>24 DEF MacAll, MacInv

LEMMA MacJoinOffStep ==
    ASSUME MacAll, NEW c \in Caller, MacJoin(c), call[c].mode = "Off"
    PROVE  MacAll'
<1>1. ModesTyped /\ Unborn /\ MacInv
  BY DEF MacAll
<1>2. /\ None \notin Gen /\ run.generation \in Int /\ \A h \in Gen : h \in Int /\ h \in Gen0
      /\ run.tap # None => run.tap \in Gen
      /\ run.stop # None => run.stop \in Gen
      /\ run.handle # None => run.handle \in Gen
      /\ \A d \in Caller : call[d].pc # "idle" => call[d].gen \in Gen /\ call[d].gen <= run.generation
      /\ \A d \in Caller : call[d].tap # None => call[d].tap \in Gen
  BY MacFacts
<1>3. call[c].pc = "join" /\ UNCHANGED <<os, run, tap, poll, pollStop, faults, wanted, excused>>
  BY DEF MacJoin
<1>4. /\ call' \in CallType /\ IdleCall.pc = "idle"
      /\ \A d \in Caller : call'[d] = (IF d = c THEN IdleCall ELSE call[d])
  BY <1>1, CallReturned DEF MacJoin, ModesTyped, IdleCall
<1>5. ModesTyped'
  BY <1>1, <1>2, <1>3, <1>4 DEF ModesTyped
<1>6. Unborn'
  BY <1>1, <1>2, <1>3, <1>4 DEF Unborn
<1>7. OwnGeneration'
  BY <1>1, <1>2, <1>3, <1>4 DEF MacInv, OwnGeneration, Idle
<1>8. StartsItsThreads'
  BY <1>1, <1>2, <1>3, <1>4 DEF MacInv, StartsItsThreads, OwnGeneration, Starting, Idle
<1>9. GoesByMode'
  BY <1>1, <1>2, <1>3, <1>4 DEF MacInv, GoesByMode
<1>10. DetachesThePrevious'
  BY <1>1, <1>2, <1>3, <1>4 DEF MacInv, DetachesThePrevious
<1>11. TapsAwaited'
  BY <1>1, <1>2, <1>3, <1>4 DEF MacInv, TapsAwaited
<1>12. ListenersLetPass'
  BY <1>1, <1>2, <1>3, <1>4 DEF MacInv, ListenersLetPass
<1>13. TapsHeld'
  BY <1>1, <1>2, <1>3, <1>4 DEF MacInv, TapsHeld
<1>14. PollsHeld'
  BY <1>1, <1>2, <1>3, <1>4 DEF MacInv, PollsHeld
<1>15. PollsEndWhenTold'
  BY <1>1, <1>2, <1>3, <1>4 DEF MacInv, PollsEndWhenTold
<1>16. RunHolds'
  BY <1>1, <1>2, <1>3, <1>4 DEF MacInv, RunHolds
<1>17. RunSuppresses'
  BY <1>1, <1>2, <1>3, <1>4 DEF MacInv, RunSuppresses
<1>18. RunIsMode'
  BY <1>1, <1>2, <1>3, <1>4 DEF MacInv, RunIsMode
<1>19. PendingIsUnderWay'
  BY <1>1, <1>2, <1>3, <1>4 DEF MacInv, PendingIsUnderWay, Idle, Current, CurrentCall, RunFollowsCall
<1>20. CurrentCall'
  BY <1>1, <1>2, <1>3, <1>4 DEF MacInv, CurrentCall, RunFollowsCall, Idle, Current, Failed
<1>21. WantedIsServed'
  BY <1>1, <1>2, <1>3, <1>4 DEF MacInv, WantedIsServed, Failed
<1>22. QED
  BY <1>5, <1>6, <1>7, <1>8, <1>9, <1>10, <1>11, <1>12, <1>13, <1>14, <1>15, <1>16, <1>17, <1>18, <1>19, <1>20,
     <1>21 DEF MacAll, MacInv

LEMMA MacJoinOnStep ==
    ASSUME MacAll, NEW c \in Caller, MacJoin(c), call[c].mode # "Off"
    PROVE  MacAll'
<1>1. ModesTyped /\ Unborn /\ MacInv
  BY DEF MacAll
<1>2. /\ None \notin Gen /\ run.generation \in Int /\ \A h \in Gen : h \in Int /\ h \in Gen0
      /\ run.tap # None => run.tap \in Gen
      /\ run.stop # None => run.stop \in Gen
      /\ run.handle # None => run.handle \in Gen
      /\ \A d \in Caller : call[d].pc # "idle" => call[d].gen \in Gen /\ call[d].gen <= run.generation
      /\ \A d \in Caller : call[d].tap # None => call[d].tap \in Gen
  BY MacFacts
<1>3. call[c].pc = "join" /\ call[c].mode \in {"PassiveEdge", "ActiveForward"} /\ UNCHANGED <<os, run, tap, poll, pollStop, faults, wanted, excused>>
  BY <1>1 DEF MacJoin, ModesTyped, CallType, Mode
<1>4. /\ call' \in CallType
      /\ \A d \in Caller : /\ call'[d].pc = (IF d = c THEN IF call[c].mode = "PassiveEdge" THEN "poll" ELSE "tap" ELSE call[d].pc)
                           /\ call'[d].mode = call[d].mode /\ call'[d].gen = call[d].gen
                           /\ call'[d].tap = call[d].tap /\ call'[d].stop = call[d].stop
                           /\ call'[d].handle = call[d].handle
  <2>1. call \in CallType /\ {"poll", "tap"} \subseteq CallPc
    BY <1>1 DEF ModesTyped, CallPc
  <2>2. CASE call[c].mode = "PassiveEdge"
    <3>1. Goto(c, "poll")
      BY <2>2 DEF MacJoin
    <3>2. QED
      BY <2>1, <2>2, <3>1, CallWent
  <2>3. CASE call[c].mode = "ActiveForward"
    <3>1. Goto(c, "tap")
      BY <2>3 DEF MacJoin
    <3>2. QED
      BY <2>1, <2>3, <3>1, CallWent
  <2>4. QED
    BY <1>3, <2>2, <2>3
<1>5. ModesTyped'
  BY <1>1, <1>2, <1>3, <1>4 DEF ModesTyped
<1>6. Unborn'
  BY <1>1, <1>2, <1>3, <1>4 DEF Unborn
<1>7. OwnGeneration'
  BY <1>1, <1>2, <1>3, <1>4 DEF MacInv, OwnGeneration, Idle
<1>8. StartsItsThreads'
  BY <1>1, <1>2, <1>3, <1>4 DEF MacInv, StartsItsThreads, OwnGeneration, Starting, Idle
<1>9. GoesByMode'
  BY <1>1, <1>2, <1>3, <1>4 DEF MacInv, GoesByMode
<1>10. DetachesThePrevious'
  BY <1>1, <1>2, <1>3, <1>4 DEF MacInv, DetachesThePrevious
<1>11. TapsAwaited'
  BY <1>1, <1>2, <1>3, <1>4 DEF MacInv, TapsAwaited
<1>12. ListenersLetPass'
  BY <1>1, <1>2, <1>3, <1>4 DEF MacInv, ListenersLetPass
<1>13. TapsHeld'
  BY <1>1, <1>2, <1>3, <1>4 DEF MacInv, TapsHeld
<1>14. PollsHeld'
  BY <1>1, <1>2, <1>3, <1>4 DEF MacInv, PollsHeld
<1>15. PollsEndWhenTold'
  BY <1>1, <1>2, <1>3, <1>4 DEF MacInv, PollsEndWhenTold
<1>16. RunHolds'
  BY <1>1, <1>2, <1>3, <1>4 DEF MacInv, RunHolds
<1>17. RunSuppresses'
  BY <1>1, <1>2, <1>3, <1>4 DEF MacInv, RunSuppresses
<1>18. RunIsMode'
  BY <1>1, <1>2, <1>3, <1>4 DEF MacInv, RunIsMode
<1>19. PendingIsUnderWay'
  BY <1>1, <1>2, <1>3, <1>4 DEF MacInv, PendingIsUnderWay, Idle, Current
<1>20. CurrentCall'
  BY <1>1, <1>2, <1>3, <1>4 DEF MacInv, CurrentCall, RunFollowsCall, Idle, Current, Failed
<1>21. WantedIsServed'
  BY <1>1, <1>2, <1>3, <1>4 DEF MacInv, WantedIsServed, Failed
<1>22. QED
  BY <1>5, <1>6, <1>7, <1>8, <1>9, <1>10, <1>11, <1>12, <1>13, <1>14, <1>15, <1>16, <1>17, <1>18, <1>19, <1>20,
     <1>21 DEF MacAll, MacInv

LEMMA MacPollPublishStep ==
    ASSUME MacAll, NEW c \in Caller, MacPollPublish(c), Current(c)
    PROVE  MacAll'
<1>1. ModesTyped /\ Unborn /\ MacInv
  BY DEF MacAll
<1>2. /\ None \notin Gen /\ run.generation \in Int /\ \A h \in Gen : h \in Int /\ h \in Gen0
      /\ run.tap # None => run.tap \in Gen
      /\ run.stop # None => run.stop \in Gen
      /\ run.handle # None => run.handle \in Gen
      /\ \A d \in Caller : call[d].pc # "idle" => call[d].gen \in Gen /\ call[d].gen <= run.generation
      /\ \A d \in Caller : call[d].tap # None => call[d].tap \in Gen
  BY MacFacts
<1>3. call[c].pc = "poll" /\ run.generation = call[c].gen /\ UNCHANGED <<os, tap, poll, pollStop, faults, wanted, excused>>
  BY DEF MacPollPublish, Current
<1>4. /\ run' \in RunType /\ run'.generation = run.generation /\ run'.mode = run.mode /\ run'.canSuppress = run.canSuppress
      /\ run'.pending = run.pending /\ run'.tap = run.tap /\ run'.stop = call[c].gen /\ run'.handle = run.handle
  BY <1>1, <1>2, <1>3, GenFacts DEF MacPollPublish, ModesTyped, RunType
<1>5. /\ call' \in CallType
      /\ \A d \in Caller : /\ call'[d].pc = (IF d = c THEN "spawn" ELSE call[d].pc)
                           /\ call'[d].mode = call[d].mode /\ call'[d].gen = call[d].gen
                           /\ call'[d].tap = call[d].tap /\ call'[d].stop = call[d].stop
                           /\ call'[d].handle = call[d].handle
  BY <1>1, CallWent DEF MacPollPublish, ModesTyped, CallPc
<1>6. ModesTyped'
  BY <1>1, <1>2, <1>3, <1>4, <1>5 DEF ModesTyped
<1>7. Unborn'
  BY <1>1, <1>2, <1>3, <1>4, <1>5 DEF Unborn
<1>8. OwnGeneration'
  BY <1>1, <1>2, <1>3, <1>4, <1>5 DEF MacInv, OwnGeneration, Idle
<1>9. StartsItsThreads'
  BY <1>1, <1>2, <1>3, <1>4, <1>5 DEF MacInv, StartsItsThreads, OwnGeneration, Starting, Idle
<1>10. GoesByMode'
  BY <1>1, <1>2, <1>3, <1>4, <1>5 DEF MacInv, GoesByMode
<1>11. DetachesThePrevious'
  BY <1>1, <1>2, <1>3, <1>4, <1>5 DEF MacInv, DetachesThePrevious
<1>12. TapsAwaited'
  BY <1>1, <1>2, <1>3, <1>4, <1>5 DEF MacInv, TapsAwaited
<1>13. ListenersLetPass'
  BY <1>1, <1>2, <1>3, <1>4, <1>5 DEF MacInv, ListenersLetPass
<1>14. TapsHeld'
  BY <1>1, <1>2, <1>3, <1>4, <1>5 DEF MacInv, TapsHeld
<1>15. PollsHeld'
  BY <1>1, <1>2, <1>3, <1>4, <1>5 DEF MacInv, PollsHeld
<1>16. PollsEndWhenTold'
  BY <1>1, <1>2, <1>3, <1>4, <1>5 DEF MacInv, PollsEndWhenTold
<1>17. RunHolds'
  BY <1>1, <1>2, <1>3, <1>4, <1>5 DEF MacInv, RunHolds
<1>18. RunSuppresses'
  BY <1>1, <1>2, <1>3, <1>4, <1>5 DEF MacInv, RunSuppresses
<1>19. RunIsMode'
  BY <1>1, <1>2, <1>3, <1>4, <1>5 DEF MacInv, RunIsMode, CurrentCall, RunFollowsCall, Idle, Current
<1>20. PendingIsUnderWay'
  BY <1>1, <1>2, <1>3, <1>4, <1>5 DEF MacInv, PendingIsUnderWay, Idle, Current
<1>21. CurrentCall'
  <2> SUFFICES ASSUME NEW d \in Caller, call'[d].pc # "idle", run'.generation = call'[d].gen
               PROVE  RunFollowsCall(d)'
    BY DEF CurrentCall, Idle, Current
  <2>0. call[d].gen = call[c].gen /\ run'.generation = call[c].gen
    BY <1>1, <1>3, <1>4, <1>5
  <2>1. call[d].pc # "idle" /\ call[c].pc # "idle" /\ call[d].gen = call[c].gen
    BY <1>3, <1>5, <2>0
  <2>2. OwnGeneration
    BY <1>1 DEF MacInv
  <2>3. d = c
    BY <2>1, <2>2 DEF OwnGeneration, Idle
  <2>4. RunFollowsCall(c)
    BY <1>1, <1>3 DEF MacInv, CurrentCall, Idle, Current
  <2>5. QED
    BY <1>1, <1>2, <1>3, <1>4, <1>5, <2>3, <2>4 DEF MacInv, RunFollowsCall, GoesByMode, Failed
<1>22. WantedIsServed'
  BY <1>1, <1>2, <1>3, <1>4, <1>5 DEF MacInv, WantedIsServed, Failed
<1>23. QED
  BY <1>6, <1>7, <1>8, <1>9, <1>10, <1>11, <1>12, <1>13, <1>14, <1>15, <1>16, <1>17, <1>18, <1>19, <1>20,
     <1>21, <1>22 DEF MacAll, MacInv

LEMMA MacPollStaleStep ==
    ASSUME MacAll, NEW c \in Caller, MacPollPublish(c), ~Current(c)
    PROVE  MacAll'
<1>1. ModesTyped /\ Unborn /\ MacInv
  BY DEF MacAll
<1>2. /\ None \notin Gen /\ run.generation \in Int /\ \A h \in Gen : h \in Int /\ h \in Gen0
      /\ run.tap # None => run.tap \in Gen
      /\ run.stop # None => run.stop \in Gen
      /\ run.handle # None => run.handle \in Gen
      /\ \A d \in Caller : call[d].pc # "idle" => call[d].gen \in Gen /\ call[d].gen <= run.generation
      /\ \A d \in Caller : call[d].tap # None => call[d].tap \in Gen
  BY MacFacts
<1>3. call[c].pc = "poll" /\ run.generation # call[c].gen /\ UNCHANGED <<os, run, tap, poll, pollStop, faults, wanted, excused>>
  BY DEF MacPollPublish, Current
<1>4. /\ call' \in CallType
      /\ \A d \in Caller : /\ call'[d].pc = (IF d = c THEN "tap" ELSE call[d].pc)
                           /\ call'[d].mode = call[d].mode /\ call'[d].gen = call[d].gen
                           /\ call'[d].tap = call[d].tap /\ call'[d].stop = call[d].stop
                           /\ call'[d].handle = call[d].handle
  BY <1>1, CallWent DEF MacPollPublish, ModesTyped, CallPc
<1>5. ModesTyped'
  BY <1>1, <1>2, <1>3, <1>4 DEF ModesTyped
<1>6. Unborn'
  BY <1>1, <1>2, <1>3, <1>4 DEF Unborn
<1>7. OwnGeneration'
  BY <1>1, <1>2, <1>3, <1>4 DEF MacInv, OwnGeneration, Idle
<1>8. StartsItsThreads'
  BY <1>1, <1>2, <1>3, <1>4 DEF MacInv, StartsItsThreads, OwnGeneration, Starting, Idle
<1>9. GoesByMode'
  BY <1>1, <1>2, <1>3, <1>4 DEF MacInv, GoesByMode
<1>10. DetachesThePrevious'
  BY <1>1, <1>2, <1>3, <1>4 DEF MacInv, DetachesThePrevious
<1>11. TapsAwaited'
  BY <1>1, <1>2, <1>3, <1>4 DEF MacInv, TapsAwaited
<1>12. ListenersLetPass'
  BY <1>1, <1>2, <1>3, <1>4 DEF MacInv, ListenersLetPass
<1>13. TapsHeld'
  BY <1>1, <1>2, <1>3, <1>4 DEF MacInv, TapsHeld
<1>14. PollsHeld'
  BY <1>1, <1>2, <1>3, <1>4 DEF MacInv, PollsHeld
<1>15. PollsEndWhenTold'
  BY <1>1, <1>2, <1>3, <1>4 DEF MacInv, PollsEndWhenTold
<1>16. RunHolds'
  BY <1>1, <1>2, <1>3, <1>4 DEF MacInv, RunHolds
<1>17. RunSuppresses'
  BY <1>1, <1>2, <1>3, <1>4 DEF MacInv, RunSuppresses
<1>18. RunIsMode'
  BY <1>1, <1>2, <1>3, <1>4 DEF MacInv, RunIsMode
<1>19. PendingIsUnderWay'
  BY <1>1, <1>2, <1>3, <1>4 DEF MacInv, PendingIsUnderWay, Idle, Current
<1>20. CurrentCall'
  BY <1>1, <1>2, <1>3, <1>4 DEF MacInv, CurrentCall, RunFollowsCall, Idle, Current, Failed
<1>21. WantedIsServed'
  BY <1>1, <1>2, <1>3, <1>4 DEF MacInv, WantedIsServed, Failed
<1>22. QED
  BY <1>5, <1>6, <1>7, <1>8, <1>9, <1>10, <1>11, <1>12, <1>13, <1>14, <1>15, <1>16, <1>17, <1>18, <1>19, <1>20,
     <1>21 DEF MacAll, MacInv

LEMMA MacPollSpawnStep ==
    ASSUME MacAll, NEW c \in Caller, MacPollSpawn(c)
    PROVE  MacAll'
<1>1. ModesTyped /\ Unborn /\ MacInv
  BY DEF MacAll
<1>2. /\ None \notin Gen /\ run.generation \in Int /\ \A h \in Gen : h \in Int /\ h \in Gen0
      /\ run.tap # None => run.tap \in Gen
      /\ run.stop # None => run.stop \in Gen
      /\ run.handle # None => run.handle \in Gen
      /\ \A d \in Caller : call[d].pc # "idle" => call[d].gen \in Gen /\ call[d].gen <= run.generation
      /\ \A d \in Caller : call[d].tap # None => call[d].tap \in Gen
  BY MacFacts
<1>3. call[c].pc = "spawn" /\ UNCHANGED <<os, run, tap, pollStop, faults, wanted, excused>>
  BY DEF MacPollSpawn
<1>4. /\ poll' \in [Gen -> {"none", "running", "done"}]
      /\ \A h \in Gen : poll'[h] = (IF h = call[c].gen THEN "running" ELSE poll[h])
  BY <1>1, <1>2, <1>3 DEF MacPollSpawn, ModesTyped
<1>5. /\ call' \in CallType
      /\ \A d \in Caller : /\ call'[d].pc = (IF d = c THEN "claim" ELSE call[d].pc)
                           /\ call'[d].mode = call[d].mode /\ call'[d].gen = call[d].gen
                           /\ call'[d].tap = call[d].tap /\ call'[d].stop = call[d].stop
                           /\ call'[d].handle = call[d].handle
  BY <1>1, CallWent DEF MacPollSpawn, ModesTyped, CallPc
<1>6. ModesTyped'
  BY <1>1, <1>2, <1>3, <1>4, <1>5 DEF ModesTyped
<1>7. Unborn'
  BY <1>1, <1>2, <1>3, <1>4, <1>5 DEF Unborn
<1>8. OwnGeneration'
  BY <1>1, <1>2, <1>3, <1>4, <1>5 DEF MacInv, OwnGeneration, Idle
<1>9. StartsItsThreads'
  BY <1>1, <1>2, <1>3, <1>4, <1>5 DEF MacInv, StartsItsThreads, OwnGeneration, Starting, Idle
<1>10. GoesByMode'
  BY <1>1, <1>2, <1>3, <1>4, <1>5 DEF MacInv, GoesByMode
<1>11. DetachesThePrevious'
  BY <1>1, <1>2, <1>3, <1>4, <1>5 DEF MacInv, DetachesThePrevious
<1>12. TapsAwaited'
  BY <1>1, <1>2, <1>3, <1>4, <1>5 DEF MacInv, TapsAwaited
<1>13. ListenersLetPass'
  BY <1>1, <1>2, <1>3, <1>4, <1>5 DEF MacInv, ListenersLetPass
<1>14. TapsHeld'
  BY <1>1, <1>2, <1>3, <1>4, <1>5 DEF MacInv, TapsHeld
<1>15. PollsHeld'
  BY <1>1, <1>2, <1>3, <1>4, <1>5 DEF MacInv, PollsHeld
<1>16. PollsEndWhenTold'
  BY <1>1, <1>2, <1>3, <1>4, <1>5 DEF MacInv, PollsEndWhenTold
<1>17. RunHolds'
  BY <1>1, <1>2, <1>3, <1>4, <1>5 DEF MacInv, RunHolds
<1>18. RunSuppresses'
  BY <1>1, <1>2, <1>3, <1>4, <1>5 DEF MacInv, RunSuppresses
<1>19. RunIsMode'
  BY <1>1, <1>2, <1>3, <1>4, <1>5 DEF MacInv, RunIsMode
<1>20. PendingIsUnderWay'
  BY <1>1, <1>2, <1>3, <1>4, <1>5 DEF MacInv, PendingIsUnderWay, Idle, Current
<1>21. CurrentCall'
  BY <1>1, <1>2, <1>3, <1>4, <1>5 DEF MacInv, CurrentCall, RunFollowsCall, Idle, Current, Failed
<1>22. WantedIsServed'
  BY <1>1, <1>2, <1>3, <1>4, <1>5 DEF MacInv, WantedIsServed, Failed
<1>23. QED
  BY <1>6, <1>7, <1>8, <1>9, <1>10, <1>11, <1>12, <1>13, <1>14, <1>15, <1>16, <1>17, <1>18, <1>19, <1>20,
     <1>21, <1>22 DEF MacAll, MacInv

LEMMA MacPollSpawnFailsStep ==
    ASSUME MacAll, NEW c \in Caller, MacPollSpawnFails(c)
    PROVE  MacAll'
<1>1. ModesTyped /\ Unborn /\ MacInv
  BY DEF MacAll
<1>2. /\ None \notin Gen /\ run.generation \in Int /\ \A h \in Gen : h \in Int /\ h \in Gen0
      /\ run.tap # None => run.tap \in Gen
      /\ run.stop # None => run.stop \in Gen
      /\ run.handle # None => run.handle \in Gen
      /\ \A d \in Caller : call[d].pc # "idle" => call[d].gen \in Gen /\ call[d].gen <= run.generation
      /\ \A d \in Caller : call[d].tap # None => call[d].tap \in Gen
  BY MacFacts
<1>3. call[c].pc = "spawn" /\ faults' \in 0..MaxFaults /\ Failed' /\ UNCHANGED <<os, tap, poll, pollStop, wanted, excused>>
  BY <1>1, FaultSpent DEF MacPollSpawnFails, ModesTyped
<1>4. /\ call' \in CallType /\ IdleCall.pc = "idle"
      /\ \A d \in Caller : call'[d] = (IF d = c THEN IdleCall ELSE call[d])
  BY <1>1, CallReturned DEF MacPollSpawnFails, ModesTyped, IdleCall
<1>5. Current(c) => /\ run' \in RunType /\ run'.generation = run.generation /\ run'.mode = "Off" /\ run'.canSuppress = FALSE
      /\ run'.pending = "none" /\ run'.tap = run.tap /\ run'.stop = None /\ run'.handle = None
  BY <1>1, GenFacts DEF MacPollSpawnFails, ClearPendingStart, ModesTyped, RunType, Mode
<1>6. ~Current(c) => run' = run
  BY DEF MacPollSpawnFails
<1>7. run' \in RunType /\ run'.generation = run.generation
  BY <1>1, <1>5, <1>6 DEF ModesTyped
<1>8. Current(c) => run.mode = "Off" /\ run.tap = None /\ run.handle = None
  BY <1>1, <1>3 DEF MacInv, CurrentCall, RunFollowsCall, RunIsMode, Idle, Mode
<1>9. ModesTyped'
  BY <1>1, <1>2, <1>3, <1>4, <1>5, <1>6, <1>7, <1>8 DEF ModesTyped
<1>10. Unborn'
  BY <1>1, <1>2, <1>3, <1>4, <1>5, <1>6, <1>7, <1>8 DEF Unborn
<1>11. OwnGeneration'
  BY <1>1, <1>2, <1>3, <1>4, <1>5, <1>6, <1>7, <1>8 DEF MacInv, OwnGeneration, Idle
<1>12. StartsItsThreads'
  BY <1>1, <1>2, <1>3, <1>4, <1>5, <1>6, <1>7, <1>8 DEF MacInv, StartsItsThreads, OwnGeneration, Starting, Idle
<1>13. GoesByMode'
  BY <1>1, <1>2, <1>3, <1>4, <1>5, <1>6, <1>7, <1>8 DEF MacInv, GoesByMode
<1>14. DetachesThePrevious'
  BY <1>1, <1>2, <1>3, <1>4, <1>5, <1>6, <1>7, <1>8 DEF MacInv, DetachesThePrevious
<1>15. TapsAwaited'
  BY <1>1, <1>2, <1>3, <1>4, <1>5, <1>6, <1>7, <1>8 DEF MacInv, TapsAwaited
<1>16. ListenersLetPass'
  BY <1>1, <1>2, <1>3, <1>4, <1>5, <1>6, <1>7, <1>8 DEF MacInv, ListenersLetPass
<1>17. TapsHeld'
  BY <1>1, <1>2, <1>3, <1>4, <1>5, <1>6, <1>7, <1>8 DEF MacInv, TapsHeld
<1>18. PollsHeld'
  BY <1>1, <1>2, <1>3, <1>4, <1>5, <1>6, <1>7, <1>8 DEF MacInv, PollsHeld
<1>19. PollsEndWhenTold'
  BY <1>1, <1>2, <1>3, <1>4, <1>5, <1>6, <1>7, <1>8 DEF MacInv, PollsEndWhenTold
<1>20. RunHolds'
  BY <1>1, <1>2, <1>3, <1>4, <1>5, <1>6, <1>7, <1>8 DEF MacInv, RunHolds
<1>21. RunSuppresses'
  BY <1>1, <1>2, <1>3, <1>4, <1>5, <1>6, <1>7, <1>8 DEF MacInv, RunSuppresses
<1>22. RunIsMode'
  BY <1>1, <1>2, <1>3, <1>4, <1>5, <1>6, <1>7, <1>8 DEF MacInv, RunIsMode
<1>23. PendingIsUnderWay'
  BY <1>1, <1>2, <1>3, <1>4, <1>5, <1>6, <1>7, <1>8 DEF MacInv, PendingIsUnderWay, Idle, Current
<1>24. CurrentCall'
  BY <1>1, <1>2, <1>3, <1>4, <1>5, <1>6, <1>7, <1>8 DEF MacInv, CurrentCall, RunFollowsCall, Idle, Current,
     Failed, OwnGeneration
<1>25. WantedIsServed'
  BY <1>1, <1>2, <1>3, <1>4, <1>5, <1>6, <1>7, <1>8 DEF MacInv, WantedIsServed, Failed
<1>26. QED
  BY <1>9, <1>10, <1>11, <1>12, <1>13, <1>14, <1>15, <1>16, <1>17, <1>18, <1>19, <1>20, <1>21, <1>22, <1>23,
     <1>24, <1>25 DEF MacAll, MacInv

LEMMA MacPollClaimStep ==
    ASSUME MacAll, NEW c \in Caller, MacPollClaim(c), Current(c)
    PROVE  MacAll'
<1>1. ModesTyped /\ Unborn /\ MacInv
  BY DEF MacAll
<1>2. /\ None \notin Gen /\ run.generation \in Int /\ \A h \in Gen : h \in Int /\ h \in Gen0
      /\ run.tap # None => run.tap \in Gen
      /\ run.stop # None => run.stop \in Gen
      /\ run.handle # None => run.handle \in Gen
      /\ \A d \in Caller : call[d].pc # "idle" => call[d].gen \in Gen /\ call[d].gen <= run.generation
      /\ \A d \in Caller : call[d].tap # None => call[d].tap \in Gen
  BY MacFacts
<1>3. call[c].pc = "claim" /\ run.generation = call[c].gen /\ UNCHANGED <<os, tap, poll, pollStop, faults, wanted, excused>>
  BY DEF MacPollClaim, Current
<1>4. /\ run' \in RunType /\ run'.generation = run.generation /\ run'.mode = "PassiveEdge" /\ run'.canSuppress = FALSE
      /\ run'.pending = "none" /\ run'.tap = run.tap /\ run'.stop = call[c].gen /\ run'.handle = call[c].gen
  <2>1. run \in RunType /\ call[c].gen \in Gen0
    BY <1>1, <1>2, <1>3 DEF ModesTyped
  <2>2. run' = [run EXCEPT !.stop = call[c].gen, !.handle = call[c].gen, !.canSuppress = FALSE,
                           !.mode = "PassiveEdge", !.pending = "none"]
    BY DEF MacPollClaim
  <2>3. QED
    BY <2>1, <2>2 DEF RunType, Mode
<1>5. /\ call' \in CallType
      /\ \A d \in Caller : /\ call'[d].pc = (IF d = c THEN "tap" ELSE call[d].pc)
                           /\ call'[d].mode = call[d].mode /\ call'[d].gen = call[d].gen
                           /\ call'[d].tap = call[d].tap /\ call'[d].stop = call[d].stop
                           /\ call'[d].handle = call[d].handle
  BY <1>1, CallWent DEF MacPollClaim, ModesTyped, CallPc
<1>6. /\ poll[call[c].gen] = "running" /\ call[c].mode = "PassiveEdge"
      /\ run.mode = "Off" /\ run.pending = "PassiveEdge" /\ run.tap = None /\ run.handle = None
  <2>1. call[c].mode = "PassiveEdge" /\ run.mode = "Off" /\ run.pending = "PassiveEdge"
    BY <1>1, <1>3 DEF MacInv, GoesByMode, CurrentCall, RunFollowsCall, Idle, Current
  <2>2. call[c].gen \notin pollStop /\ call[c].gen \in Gen
    BY <1>1, <1>2, <1>3 DEF MacInv, RunHolds
  <2>3. poll[call[c].gen] = "running"
    BY <1>1, <1>3, <2>2 DEF MacInv, StartsItsThreads, PollsEndWhenTold, ModesTyped
  <2>4. run.tap = None /\ run.handle = None
    BY <1>1, <2>1 DEF MacInv, RunIsMode
  <2>5. QED
    BY <2>1, <2>3, <2>4
<1>7. ModesTyped'
  BY <1>1, <1>2, <1>3, <1>4, <1>5, <1>6 DEF ModesTyped
<1>8. Unborn'
  BY <1>1, <1>2, <1>3, <1>4, <1>5, <1>6 DEF Unborn
<1>9. OwnGeneration'
  BY <1>1, <1>2, <1>3, <1>4, <1>5, <1>6 DEF MacInv, OwnGeneration, Idle
<1>10. StartsItsThreads'
  BY <1>1, <1>2, <1>3, <1>4, <1>5, <1>6 DEF MacInv, StartsItsThreads, OwnGeneration, Starting, Idle
<1>11. GoesByMode'
  BY <1>1, <1>2, <1>3, <1>4, <1>5, <1>6 DEF MacInv, GoesByMode
<1>12. DetachesThePrevious'
  BY <1>1, <1>2, <1>3, <1>4, <1>5, <1>6 DEF MacInv, DetachesThePrevious
<1>13. TapsAwaited'
  BY <1>1, <1>2, <1>3, <1>4, <1>5, <1>6 DEF MacInv, TapsAwaited
<1>14. ListenersLetPass'
  BY <1>1, <1>2, <1>3, <1>4, <1>5, <1>6 DEF MacInv, ListenersLetPass
<1>15. TapsHeld'
  BY <1>1, <1>2, <1>3, <1>4, <1>5, <1>6 DEF MacInv, TapsHeld
<1>16. PollsHeld'
  BY <1>1, <1>2, <1>3, <1>4, <1>5, <1>6 DEF MacInv, PollsHeld
<1>17. PollsEndWhenTold'
  BY <1>1, <1>2, <1>3, <1>4, <1>5, <1>6 DEF MacInv, PollsEndWhenTold
<1>18. RunHolds'
  BY <1>1, <1>2, <1>3, <1>4, <1>5, <1>6 DEF MacInv, RunHolds
<1>19. RunSuppresses'
  BY <1>1, <1>2, <1>3, <1>4, <1>5, <1>6 DEF MacInv, RunSuppresses
<1>20. RunIsMode'
  BY <1>1, <1>2, <1>3, <1>4, <1>5, <1>6 DEF MacInv, RunIsMode
<1>21. PendingIsUnderWay'
  BY <1>1, <1>2, <1>3, <1>4, <1>5, <1>6 DEF MacInv, PendingIsUnderWay, Idle, Current
<1>22. CurrentCall'
  <2> SUFFICES ASSUME NEW d \in Caller, call'[d].pc # "idle", run'.generation = call'[d].gen
               PROVE  RunFollowsCall(d)'
    BY DEF CurrentCall, Idle, Current
  <2>0. call[d].gen = call[c].gen /\ run'.generation = call[c].gen
    BY <1>1, <1>3, <1>4, <1>5
  <2>1. call[d].pc # "idle" /\ call[c].pc # "idle" /\ call[d].gen = call[c].gen
    BY <1>3, <1>5, <2>0
  <2>2. OwnGeneration
    BY <1>1 DEF MacInv
  <2>3. d = c
    BY <2>1, <2>2 DEF OwnGeneration, Idle
  <2>4. RunFollowsCall(c)
    BY <1>1, <1>3 DEF MacInv, CurrentCall, Idle, Current
  <2>5. QED
    BY <1>1, <1>2, <1>3, <1>4, <1>5, <1>6, <2>3, <2>4 DEF MacInv, RunFollowsCall, GoesByMode, Failed
<1>23. WantedIsServed'
  BY <1>1, <1>2, <1>3, <1>4, <1>5, <1>6 DEF MacInv, WantedIsServed, Failed
<1>24. QED
  BY <1>7, <1>8, <1>9, <1>10, <1>11, <1>12, <1>13, <1>14, <1>15, <1>16, <1>17, <1>18, <1>19, <1>20, <1>21,
     <1>22, <1>23 DEF MacAll, MacInv

LEMMA MacPollDisownStep ==
    ASSUME MacAll, NEW c \in Caller, MacPollClaim(c), ~Current(c)
    PROVE  MacAll'
<1>1. ModesTyped /\ Unborn /\ MacInv
  BY DEF MacAll
<1>2. /\ None \notin Gen /\ run.generation \in Int /\ \A h \in Gen : h \in Int /\ h \in Gen0
      /\ run.tap # None => run.tap \in Gen
      /\ run.stop # None => run.stop \in Gen
      /\ run.handle # None => run.handle \in Gen
      /\ \A d \in Caller : call[d].pc # "idle" => call[d].gen \in Gen /\ call[d].gen <= run.generation
      /\ \A d \in Caller : call[d].tap # None => call[d].tap \in Gen
  BY MacFacts
<1>3. call[c].pc = "claim" /\ run.generation # call[c].gen /\ UNCHANGED <<os, run, tap, poll, faults, wanted, excused>>
  BY DEF MacPollClaim, Current
<1>4. pollStop' = pollStop \cup {call[c].gen} /\ pollStop' \subseteq Gen
  BY <1>1, <1>2, <1>3 DEF MacPollClaim, ModesTyped
<1>5. /\ call' \in CallType
      /\ \A d \in Caller : /\ call'[d].pc = (IF d = c THEN "abandon" ELSE call[d].pc)
                           /\ call'[d].mode = call[d].mode /\ call'[d].gen = call[d].gen
                           /\ call'[d].tap = call[d].tap /\ call'[d].stop = call[d].stop
                           /\ call'[d].handle = call[d].handle
  BY <1>1, CallWent DEF MacPollClaim, ModesTyped, CallPc
<1>6. ModesTyped'
  BY <1>1, <1>2, <1>3, <1>4, <1>5 DEF ModesTyped
<1>7. Unborn'
  BY <1>1, <1>2, <1>3, <1>4, <1>5 DEF Unborn
<1>8. OwnGeneration'
  BY <1>1, <1>2, <1>3, <1>4, <1>5 DEF MacInv, OwnGeneration, Idle
<1>9. StartsItsThreads'
  BY <1>1, <1>2, <1>3, <1>4, <1>5 DEF MacInv, StartsItsThreads, OwnGeneration, Starting, Idle
<1>10. GoesByMode'
  BY <1>1, <1>2, <1>3, <1>4, <1>5 DEF MacInv, GoesByMode
<1>11. DetachesThePrevious'
  BY <1>1, <1>2, <1>3, <1>4, <1>5 DEF MacInv, DetachesThePrevious
<1>12. TapsAwaited'
  BY <1>1, <1>2, <1>3, <1>4, <1>5 DEF MacInv, TapsAwaited
<1>13. ListenersLetPass'
  BY <1>1, <1>2, <1>3, <1>4, <1>5 DEF MacInv, ListenersLetPass
<1>14. TapsHeld'
  BY <1>1, <1>2, <1>3, <1>4, <1>5 DEF MacInv, TapsHeld
<1>15. PollsHeld'
  BY <1>1, <1>2, <1>3, <1>4, <1>5 DEF MacInv, PollsHeld
<1>16. PollsEndWhenTold'
  BY <1>1, <1>2, <1>3, <1>4, <1>5 DEF MacInv, PollsEndWhenTold
<1>17. RunHolds'
  BY <1>1, <1>2, <1>3, <1>4, <1>5 DEF MacInv, RunHolds
<1>18. RunSuppresses'
  BY <1>1, <1>2, <1>3, <1>4, <1>5 DEF MacInv, RunSuppresses
<1>19. RunIsMode'
  BY <1>1, <1>2, <1>3, <1>4, <1>5 DEF MacInv, RunIsMode
<1>20. PendingIsUnderWay'
  BY <1>1, <1>2, <1>3, <1>4, <1>5 DEF MacInv, PendingIsUnderWay, Idle, Current
<1>21. CurrentCall'
  BY <1>1, <1>2, <1>3, <1>4, <1>5 DEF MacInv, CurrentCall, RunFollowsCall, Idle, Current, Failed
<1>22. WantedIsServed'
  BY <1>1, <1>2, <1>3, <1>4, <1>5 DEF MacInv, WantedIsServed, Failed
<1>23. QED
  BY <1>6, <1>7, <1>8, <1>9, <1>10, <1>11, <1>12, <1>13, <1>14, <1>15, <1>16, <1>17, <1>18, <1>19, <1>20,
     <1>21, <1>22 DEF MacAll, MacInv

LEMMA MacPollAbandonStep ==
    ASSUME MacAll, NEW c \in Caller, MacPollAbandon(c)
    PROVE  MacAll'
<1>1. ModesTyped /\ Unborn /\ MacInv
  BY DEF MacAll
<1>2. /\ None \notin Gen /\ run.generation \in Int /\ \A h \in Gen : h \in Int /\ h \in Gen0
      /\ run.tap # None => run.tap \in Gen
      /\ run.stop # None => run.stop \in Gen
      /\ run.handle # None => run.handle \in Gen
      /\ \A d \in Caller : call[d].pc # "idle" => call[d].gen \in Gen /\ call[d].gen <= run.generation
      /\ \A d \in Caller : call[d].tap # None => call[d].tap \in Gen
  BY MacFacts
<1>3. call[c].pc = "abandon" /\ UNCHANGED <<os, run, tap, poll, pollStop, faults, wanted, excused>>
  BY DEF MacPollAbandon
<1>4. /\ call' \in CallType
      /\ \A d \in Caller : /\ call'[d].pc = (IF d = c THEN "tap" ELSE call[d].pc)
                           /\ call'[d].mode = call[d].mode /\ call'[d].gen = call[d].gen
                           /\ call'[d].tap = call[d].tap /\ call'[d].stop = call[d].stop
                           /\ call'[d].handle = call[d].handle
  BY <1>1, CallWent DEF MacPollAbandon, ModesTyped, CallPc
<1>5. ModesTyped'
  BY <1>1, <1>2, <1>3, <1>4 DEF ModesTyped
<1>6. Unborn'
  BY <1>1, <1>2, <1>3, <1>4 DEF Unborn
<1>7. OwnGeneration'
  BY <1>1, <1>2, <1>3, <1>4 DEF MacInv, OwnGeneration, Idle
<1>8. StartsItsThreads'
  BY <1>1, <1>2, <1>3, <1>4 DEF MacInv, StartsItsThreads, OwnGeneration, Starting, Idle
<1>9. GoesByMode'
  BY <1>1, <1>2, <1>3, <1>4 DEF MacInv, GoesByMode
<1>10. DetachesThePrevious'
  BY <1>1, <1>2, <1>3, <1>4 DEF MacInv, DetachesThePrevious
<1>11. TapsAwaited'
  BY <1>1, <1>2, <1>3, <1>4 DEF MacInv, TapsAwaited
<1>12. ListenersLetPass'
  BY <1>1, <1>2, <1>3, <1>4 DEF MacInv, ListenersLetPass
<1>13. TapsHeld'
  BY <1>1, <1>2, <1>3, <1>4 DEF MacInv, TapsHeld
<1>14. PollsHeld'
  BY <1>1, <1>2, <1>3, <1>4 DEF MacInv, PollsHeld
<1>15. PollsEndWhenTold'
  BY <1>1, <1>2, <1>3, <1>4 DEF MacInv, PollsEndWhenTold
<1>16. RunHolds'
  BY <1>1, <1>2, <1>3, <1>4 DEF MacInv, RunHolds
<1>17. RunSuppresses'
  BY <1>1, <1>2, <1>3, <1>4 DEF MacInv, RunSuppresses
<1>18. RunIsMode'
  BY <1>1, <1>2, <1>3, <1>4 DEF MacInv, RunIsMode
<1>19. PendingIsUnderWay'
  BY <1>1, <1>2, <1>3, <1>4 DEF MacInv, PendingIsUnderWay, Idle, Current
<1>20. CurrentCall'
  BY <1>1, <1>2, <1>3, <1>4 DEF MacInv, CurrentCall, RunFollowsCall, Idle, Current, Failed
<1>21. WantedIsServed'
  BY <1>1, <1>2, <1>3, <1>4 DEF MacInv, WantedIsServed, Failed
<1>22. QED
  BY <1>5, <1>6, <1>7, <1>8, <1>9, <1>10, <1>11, <1>12, <1>13, <1>14, <1>15, <1>16, <1>17, <1>18, <1>19, <1>20,
     <1>21 DEF MacAll, MacInv

LEMMA MacTapSpawnStep ==
    ASSUME MacAll, NEW c \in Caller, MacTapSpawn(c)
    PROVE  MacAll'
<1>1. ModesTyped /\ Unborn /\ MacInv
  BY DEF MacAll
<1>2. /\ None \notin Gen /\ run.generation \in Int /\ \A h \in Gen : h \in Int /\ h \in Gen0
      /\ run.tap # None => run.tap \in Gen
      /\ run.stop # None => run.stop \in Gen
      /\ run.handle # None => run.handle \in Gen
      /\ \A d \in Caller : call[d].pc # "idle" => call[d].gen \in Gen /\ call[d].gen <= run.generation
      /\ \A d \in Caller : call[d].tap # None => call[d].tap \in Gen
  BY MacFacts
<1>3. call[c].pc = "tap" /\ call[c].mode \in Mode /\ tap[call[c].gen].pc = "none" /\ UNCHANGED <<os, run, poll, pollStop, faults, wanted, excused>>
  BY <1>1 DEF MacTapSpawn, MacInv, StartsItsThreads, Starting, ModesTyped, CallType
<1>4. /\ tap' \in TapType /\ \A h \in Gen : h # call[c].gen => tap'[h] = tap[h]
      /\ tap'[call[c].gen].pc = "spawned" /\ tap'[call[c].gen].suppress = FALSE
      /\ tap'[call[c].gen].listen = (call[c].mode # "ActiveForward")
  BY <1>1, <1>2, <1>3 DEF MacTapSpawn, ModesTyped, TapType, TapPc, Required
<1>5. /\ call' \in CallType
      /\ \A d \in Caller : /\ call'[d].pc = (IF d = c THEN "wait" ELSE call[d].pc)
                           /\ call'[d].mode = call[d].mode /\ call'[d].gen = call[d].gen
                           /\ call'[d].tap = call[d].tap /\ call'[d].stop = call[d].stop
                           /\ call'[d].handle = call[d].handle
  BY <1>1, CallWent DEF MacTapSpawn, ModesTyped, CallPc
<1>6. ModesTyped'
  BY <1>1, <1>2, <1>3, <1>4, <1>5 DEF ModesTyped
<1>7. Unborn'
  BY <1>1, <1>2, <1>3, <1>4, <1>5 DEF Unborn
<1>8. OwnGeneration'
  BY <1>1, <1>2, <1>3, <1>4, <1>5 DEF MacInv, OwnGeneration, Idle
<1>9. StartsItsThreads'
  BY <1>1, <1>2, <1>3, <1>4, <1>5 DEF MacInv, StartsItsThreads, OwnGeneration, Starting, Idle
<1>10. GoesByMode'
  <2> SUFFICES ASSUME NEW d \in Caller
               PROVE  /\ call'[d].pc \in {"poll", "spawn", "claim", "abandon"} => call'[d].mode = "PassiveEdge"
                      /\ call'[d].pc \in {"tap", "wait"} => call'[d].mode # "Off"
                      /\ call'[d].pc = "wait" => (tap'[call'[d].gen].listen <=> call'[d].mode = "PassiveEdge")
    BY DEF GoesByMode
  <2>1. CASE d = c
    BY <1>1, <1>3, <1>4, <1>5, <2>1 DEF MacInv, GoesByMode, Mode
  <2>2. CASE d # c
    <3>1. call[d].pc = "wait" => call[d].gen # call[c].gen /\ call[d].gen \in Gen
      BY <1>1, <1>2, <1>3, <2>2 DEF MacInv, OwnGeneration, Idle
    <3>2. QED
      BY <1>1, <1>4, <1>5, <2>2, <3>1 DEF MacInv, GoesByMode
  <2>3. QED
    BY <2>1, <2>2
<1>11. DetachesThePrevious'
  BY <1>1, <1>2, <1>3, <1>4, <1>5 DEF MacInv, DetachesThePrevious
<1>12. TapsAwaited'
  BY <1>1, <1>2, <1>3, <1>4, <1>5 DEF MacInv, TapsAwaited
<1>13. ListenersLetPass'
  BY <1>1, <1>2, <1>3, <1>4, <1>5 DEF MacInv, ListenersLetPass
<1>14. TapsHeld'
  BY <1>1, <1>2, <1>3, <1>4, <1>5 DEF MacInv, TapsHeld
<1>15. PollsHeld'
  BY <1>1, <1>2, <1>3, <1>4, <1>5 DEF MacInv, PollsHeld
<1>16. PollsEndWhenTold'
  BY <1>1, <1>2, <1>3, <1>4, <1>5 DEF MacInv, PollsEndWhenTold
<1>17. RunHolds'
  BY <1>1, <1>2, <1>3, <1>4, <1>5 DEF MacInv, RunHolds
<1>18. RunSuppresses'
  BY <1>1, <1>2, <1>3, <1>4, <1>5 DEF MacInv, RunSuppresses, RunHolds
<1>19. RunIsMode'
  BY <1>1, <1>2, <1>3, <1>4, <1>5 DEF MacInv, RunIsMode, RunHolds
<1>20. PendingIsUnderWay'
  BY <1>1, <1>2, <1>3, <1>4, <1>5 DEF MacInv, PendingIsUnderWay, Idle, Current
<1>21. CurrentCall'
  BY <1>1, <1>2, <1>3, <1>4, <1>5 DEF MacInv, CurrentCall, RunFollowsCall, Idle, Current, Failed
<1>22. WantedIsServed'
  BY <1>1, <1>2, <1>3, <1>4, <1>5 DEF MacInv, WantedIsServed, Failed
<1>23. QED
  BY <1>6, <1>7, <1>8, <1>9, <1>10, <1>11, <1>12, <1>13, <1>14, <1>15, <1>16, <1>17, <1>18, <1>19, <1>20,
     <1>21, <1>22 DEF MacAll, MacInv

LEMMA MacTapSpawnFailsStep ==
    ASSUME MacAll, NEW c \in Caller, MacTapSpawnFails(c)
    PROVE  MacAll'
<1>1. ModesTyped /\ Unborn /\ MacInv
  BY DEF MacAll
<1>2. /\ None \notin Gen /\ run.generation \in Int /\ \A h \in Gen : h \in Int /\ h \in Gen0
      /\ run.tap # None => run.tap \in Gen
      /\ run.stop # None => run.stop \in Gen
      /\ run.handle # None => run.handle \in Gen
      /\ \A d \in Caller : call[d].pc # "idle" => call[d].gen \in Gen /\ call[d].gen <= run.generation
      /\ \A d \in Caller : call[d].tap # None => call[d].tap \in Gen
  BY MacFacts
<1>3. call[c].pc = "tap" /\ call[c].mode \in Mode /\ faults' \in 0..MaxFaults /\ Failed' /\ UNCHANGED <<os, tap, poll, pollStop, wanted, excused>>
  BY <1>1, FaultSpent DEF MacTapSpawnFails, ModesTyped, CallType
<1>4. /\ call' \in CallType /\ IdleCall.pc = "idle"
      /\ \A d \in Caller : call'[d] = (IF d = c THEN IdleCall ELSE call[d])
  BY <1>1, CallReturned DEF MacTapSpawnFails, ModesTyped, IdleCall
<1>5. (call[c].mode = "ActiveForward" /\ Current(c)) => /\ run' \in RunType /\ run'.generation = run.generation /\ run'.mode = "Off" /\ run'.canSuppress = FALSE
      /\ run'.pending = "none" /\ run'.tap = run.tap /\ run'.stop = run.stop /\ run'.handle = run.handle
  BY <1>1, GenFacts DEF MacTapSpawnFails, Required, ClearPendingStart, ModesTyped, RunType, Mode
<1>6. ~(call[c].mode = "ActiveForward" /\ Current(c)) => run' = run
  BY DEF MacTapSpawnFails, Required, ClearPendingStart
<1>7. run' \in RunType /\ run'.generation = run.generation
  BY <1>1, <1>5, <1>6 DEF ModesTyped
<1>8. (call[c].mode = "ActiveForward" /\ Current(c)) => run.mode = "Off" /\ run.tap = None /\ run.stop = None /\ run.handle = None
  BY <1>1, <1>3 DEF MacInv, CurrentCall, RunFollowsCall, RunIsMode, Idle
<1>9. (call[c].mode # "ActiveForward" /\ Current(c)) => run.pending = "none" /\ run.handle # None
  BY <1>1, <1>3 DEF MacInv, GoesByMode, CurrentCall, RunFollowsCall, RunIsMode, Idle, Mode
<1>10. ModesTyped'
  BY <1>1, <1>2, <1>3, <1>4, <1>5, <1>6, <1>7, <1>8, <1>9 DEF ModesTyped
<1>11. Unborn'
  BY <1>1, <1>2, <1>3, <1>4, <1>5, <1>6, <1>7, <1>8, <1>9 DEF Unborn
<1>12. OwnGeneration'
  BY <1>1, <1>2, <1>3, <1>4, <1>5, <1>6, <1>7, <1>8, <1>9 DEF MacInv, OwnGeneration, Idle
<1>13. StartsItsThreads'
  BY <1>1, <1>2, <1>3, <1>4, <1>5, <1>6, <1>7, <1>8, <1>9 DEF MacInv, StartsItsThreads, OwnGeneration,
     Starting, Idle
<1>14. GoesByMode'
  BY <1>1, <1>2, <1>3, <1>4, <1>5, <1>6, <1>7, <1>8, <1>9 DEF MacInv, GoesByMode
<1>15. DetachesThePrevious'
  BY <1>1, <1>2, <1>3, <1>4, <1>5, <1>6, <1>7, <1>8, <1>9 DEF MacInv, DetachesThePrevious
<1>16. TapsAwaited'
  BY <1>1, <1>2, <1>3, <1>4, <1>5, <1>6, <1>7, <1>8, <1>9 DEF MacInv, TapsAwaited
<1>17. ListenersLetPass'
  BY <1>1, <1>2, <1>3, <1>4, <1>5, <1>6, <1>7, <1>8, <1>9 DEF MacInv, ListenersLetPass
<1>18. TapsHeld'
  BY <1>1, <1>2, <1>3, <1>4, <1>5, <1>6, <1>7, <1>8, <1>9 DEF MacInv, TapsHeld
<1>19. PollsHeld'
  BY <1>1, <1>2, <1>3, <1>4, <1>5, <1>6, <1>7, <1>8, <1>9 DEF MacInv, PollsHeld
<1>20. PollsEndWhenTold'
  BY <1>1, <1>2, <1>3, <1>4, <1>5, <1>6, <1>7, <1>8, <1>9 DEF MacInv, PollsEndWhenTold
<1>21. RunHolds'
  BY <1>1, <1>2, <1>3, <1>4, <1>5, <1>6, <1>7, <1>8, <1>9 DEF MacInv, RunHolds
<1>22. RunSuppresses'
  BY <1>1, <1>2, <1>3, <1>4, <1>5, <1>6, <1>7, <1>8, <1>9 DEF MacInv, RunSuppresses
<1>23. RunIsMode'
  BY <1>1, <1>2, <1>3, <1>4, <1>5, <1>6, <1>7, <1>8, <1>9 DEF MacInv, RunIsMode
<1>24. PendingIsUnderWay'
  BY <1>1, <1>2, <1>3, <1>4, <1>5, <1>6, <1>7, <1>8, <1>9 DEF MacInv, PendingIsUnderWay, Idle, Current
<1>25. CurrentCall'
  BY <1>1, <1>2, <1>3, <1>4, <1>5, <1>6, <1>7, <1>8, <1>9 DEF MacInv, CurrentCall, RunFollowsCall, Idle,
     Current, Failed, OwnGeneration
<1>26. WantedIsServed'
  BY <1>1, <1>2, <1>3, <1>4, <1>5, <1>6, <1>7, <1>8, <1>9 DEF MacInv, WantedIsServed, Failed
<1>27. QED
  BY <1>10, <1>11, <1>12, <1>13, <1>14, <1>15, <1>16, <1>17, <1>18, <1>19, <1>20, <1>21, <1>22, <1>23, <1>24,
     <1>25, <1>26 DEF MacAll, MacInv

LEMMA MacTapCreateStep ==
    ASSUME MacAll, NEW g \in Gen, MacTapCreate(g)
    PROVE  MacAll'
<1>1. ModesTyped /\ Unborn /\ MacInv
  BY DEF MacAll
<1>2. /\ None \notin Gen /\ run.generation \in Int /\ \A h \in Gen : h \in Int /\ h \in Gen0
      /\ run.tap # None => run.tap \in Gen
      /\ run.stop # None => run.stop \in Gen
      /\ run.handle # None => run.handle \in Gen
      /\ \A d \in Caller : call[d].pc # "idle" => call[d].gen \in Gen /\ call[d].gen <= run.generation
      /\ \A d \in Caller : call[d].tap # None => call[d].tap \in Gen
  BY MacFacts
<1>3. tap[g].pc = "spawned" /\ UNCHANGED <<os, run, poll, pollStop, call, wanted, excused>>
  BY DEF MacTapCreate
<1>4. /\ tap' \in TapType /\ \A h \in Gen : h # g => tap'[h] = tap[h]
      /\ tap'[g].listen = tap[g].listen /\ (tap'[g].listen => ~tap'[g].suppress)
      /\ tap'[g].pc = "created" \/ (tap'[g].pc = "failed" /\ Failed')
      /\ faults' \in 0..MaxFaults /\ (Failed => Failed')
  <2>1. tap \in TapType /\ faults \in 0..MaxFaults /\ (tap[g].listen => ~tap[g].suppress) /\ tap[g].listen \in BOOLEAN
    BY <1>1 DEF ModesTyped, MacInv, ListenersLetPass, TapType
  <2>2. CASE tap' = [tap EXCEPT ![g].pc = "created", ![g].suppress = ~tap[g].listen] /\ UNCHANGED faults
    <3>0. [tap[g] EXCEPT !.pc = "created", !.suppress = ~tap[g].listen]
             \in [pc : TapPc, suppress : BOOLEAN, listen : BOOLEAN]
      BY <2>1 DEF TapType, TapPc
    <3>1. tap' \in TapType /\ \A h \in Gen : h # g => tap'[h] = tap[h]
      BY <2>1, <2>2, <3>0 DEF TapType
    <3>2. tap'[g].pc = "created" /\ tap'[g].listen = tap[g].listen
      BY <2>1, <2>2 DEF TapType
    <3>3. tap'[g].suppress = ~tap[g].listen
      BY <2>1, <2>2 DEF TapType
    <3>4. QED
      BY <2>1, <2>2, <3>1, <3>2, <3>3 DEF Failed
  <2>3. CASE Fault /\ TapMoves(g, "created")
    BY <2>1, <2>3, FaultSpent DEF TapMoves, TapType, TapPc
  <2>4. CASE Fault /\ TapMoves(g, "failed")
    BY <2>1, <2>4, FaultSpent DEF TapMoves, TapType, TapPc
  <2>5. QED
    BY <2>2, <2>3, <2>4 DEF MacTapCreate
<1>5. ModesTyped'
  BY <1>1, <1>2, <1>3, <1>4 DEF ModesTyped
<1>6. Unborn'
  BY <1>1, <1>2, <1>3, <1>4 DEF Unborn
<1>7. OwnGeneration'
  BY <1>1, <1>2, <1>3, <1>4 DEF MacInv, OwnGeneration, Idle
<1>8. StartsItsThreads'
  BY <1>1, <1>2, <1>3, <1>4 DEF MacInv, StartsItsThreads, OwnGeneration, Starting, Idle
<1>9. GoesByMode'
  BY <1>1, <1>2, <1>3, <1>4 DEF MacInv, GoesByMode
<1>10. DetachesThePrevious'
  BY <1>1, <1>2, <1>3, <1>4 DEF MacInv, DetachesThePrevious
<1>11. TapsAwaited'
  BY <1>1, <1>2, <1>3, <1>4 DEF MacInv, TapsAwaited
<1>12. ListenersLetPass'
  BY <1>1, <1>2, <1>3, <1>4 DEF MacInv, ListenersLetPass
<1>13. TapsHeld'
  BY <1>1, <1>2, <1>3, <1>4 DEF MacInv, TapsHeld
<1>14. PollsHeld'
  BY <1>1, <1>2, <1>3, <1>4 DEF MacInv, PollsHeld
<1>15. PollsEndWhenTold'
  BY <1>1, <1>2, <1>3, <1>4 DEF MacInv, PollsEndWhenTold
<1>16. RunHolds'
  BY <1>1, <1>2, <1>3, <1>4 DEF MacInv, RunHolds
<1>17. RunSuppresses'
  BY <1>1, <1>2, <1>3, <1>4 DEF MacInv, RunSuppresses, RunHolds
<1>18. RunIsMode'
  BY <1>1, <1>2, <1>3, <1>4 DEF MacInv, RunIsMode
<1>19. PendingIsUnderWay'
  BY <1>1, <1>2, <1>3, <1>4 DEF MacInv, PendingIsUnderWay, Idle, Current
<1>20. CurrentCall'
  BY <1>1, <1>2, <1>3, <1>4 DEF MacInv, CurrentCall, RunFollowsCall, Idle, Current, Failed
<1>21. WantedIsServed'
  BY <1>1, <1>2, <1>3, <1>4 DEF MacInv, WantedIsServed, Failed
<1>22. QED
  BY <1>5, <1>6, <1>7, <1>8, <1>9, <1>10, <1>11, <1>12, <1>13, <1>14, <1>15, <1>16, <1>17, <1>18, <1>19, <1>20,
     <1>21 DEF MacAll, MacInv

LEMMA MacTapEnableStep ==
    ASSUME MacAll, NEW g \in Gen, MacTapEnable(g)
    PROVE  MacAll'
<1>1. ModesTyped /\ Unborn /\ MacInv
  BY DEF MacAll
<1>2. /\ None \notin Gen /\ run.generation \in Int /\ \A h \in Gen : h \in Int /\ h \in Gen0
      /\ run.tap # None => run.tap \in Gen
      /\ run.stop # None => run.stop \in Gen
      /\ run.handle # None => run.handle \in Gen
      /\ \A d \in Caller : call[d].pc # "idle" => call[d].gen \in Gen /\ call[d].gen <= run.generation
      /\ \A d \in Caller : call[d].tap # None => call[d].tap \in Gen
  BY MacFacts
<1>3. tap[g].pc = "created" /\ UNCHANGED <<os, run, poll, pollStop, call, faults, wanted, excused>>
  BY DEF MacTapEnable
<1>4. /\ tap' \in TapType
      /\ \A h \in Gen : /\ tap'[h].pc = (IF h = g THEN (IF run.generation = g THEN "enabled" ELSE "done") ELSE tap[h].pc)
                        /\ tap'[h].suppress = tap[h].suppress /\ tap'[h].listen = tap[h].listen
  BY <1>1, TapMoved DEF MacTapEnable, ModesTyped, TapPc
<1>5. ModesTyped'
  BY <1>1, <1>2, <1>3, <1>4 DEF ModesTyped
<1>6. Unborn'
  BY <1>1, <1>2, <1>3, <1>4 DEF Unborn
<1>7. OwnGeneration'
  BY <1>1, <1>2, <1>3, <1>4 DEF MacInv, OwnGeneration, Idle
<1>8. StartsItsThreads'
  BY <1>1, <1>2, <1>3, <1>4 DEF MacInv, StartsItsThreads, OwnGeneration, Starting, Idle
<1>9. GoesByMode'
  BY <1>1, <1>2, <1>3, <1>4 DEF MacInv, GoesByMode
<1>10. DetachesThePrevious'
  BY <1>1, <1>2, <1>3, <1>4 DEF MacInv, DetachesThePrevious
<1>11. TapsAwaited'
  BY <1>1, <1>2, <1>3, <1>4 DEF MacInv, TapsAwaited
<1>12. ListenersLetPass'
  BY <1>1, <1>2, <1>3, <1>4 DEF MacInv, ListenersLetPass
<1>13. TapsHeld'
  BY <1>1, <1>2, <1>3, <1>4 DEF MacInv, TapsHeld
<1>14. PollsHeld'
  BY <1>1, <1>2, <1>3, <1>4 DEF MacInv, PollsHeld
<1>15. PollsEndWhenTold'
  BY <1>1, <1>2, <1>3, <1>4 DEF MacInv, PollsEndWhenTold
<1>16. RunHolds'
  BY <1>1, <1>2, <1>3, <1>4 DEF MacInv, RunHolds
<1>17. RunSuppresses'
  BY <1>1, <1>2, <1>3, <1>4 DEF MacInv, RunSuppresses
<1>18. RunIsMode'
  BY <1>1, <1>2, <1>3, <1>4 DEF MacInv, RunIsMode
<1>19. PendingIsUnderWay'
  BY <1>1, <1>2, <1>3, <1>4 DEF MacInv, PendingIsUnderWay, Idle, Current
<1>20. CurrentCall'
  BY <1>1, <1>2, <1>3, <1>4 DEF MacInv, CurrentCall, RunFollowsCall, Idle, Current, Failed
<1>21. WantedIsServed'
  BY <1>1, <1>2, <1>3, <1>4 DEF MacInv, WantedIsServed, Failed
<1>22. QED
  BY <1>5, <1>6, <1>7, <1>8, <1>9, <1>10, <1>11, <1>12, <1>13, <1>14, <1>15, <1>16, <1>17, <1>18, <1>19, <1>20,
     <1>21 DEF MacAll, MacInv

LEMMA MacTapClaimStep ==
    ASSUME MacAll, NEW g \in Gen, MacTapClaim(g), run.generation = g
    PROVE  MacAll'
<1>1. ModesTyped /\ Unborn /\ MacInv
  BY DEF MacAll
<1>2. /\ None \notin Gen /\ run.generation \in Int /\ \A h \in Gen : h \in Int /\ h \in Gen0
      /\ run.tap # None => run.tap \in Gen
      /\ run.stop # None => run.stop \in Gen
      /\ run.handle # None => run.handle \in Gen
      /\ \A d \in Caller : call[d].pc # "idle" => call[d].gen \in Gen /\ call[d].gen <= run.generation
      /\ \A d \in Caller : call[d].tap # None => call[d].tap \in Gen
  BY MacFacts
<1>3. tap[g].pc = "enabled" /\ UNCHANGED <<os, poll, pollStop, call, faults, wanted, excused>>
  BY DEF MacTapClaim
<1>4. /\ tap' \in TapType
      /\ \A h \in Gen : /\ tap'[h].pc = (IF h = g THEN "claimed" ELSE tap[h].pc)
                        /\ tap'[h].suppress = tap[h].suppress /\ tap'[h].listen = tap[h].listen
  BY <1>1, TapMoved DEF MacTapClaim, ModesTyped, TapPc
<1>5. /\ run' \in RunType /\ run'.generation = g /\ run'.mode = (IF tap[g].listen THEN "PassiveEdge" ELSE "ActiveForward")
      /\ run'.pending = "none" /\ run'.tap = g /\ run'.stop = run.stop /\ run'.handle = run.handle
      /\ run'.canSuppress = tap[g].suppress
  <2>1. run \in RunType /\ g \in Gen0 /\ tap[g].suppress \in BOOLEAN
    BY <1>1, <1>2 DEF ModesTyped, TapType
  <2>2. run' = [run EXCEPT !.tap = g, !.canSuppress = tap[g].suppress, !.pending = "none",
                           !.mode = IF tap[g].listen THEN "PassiveEdge" ELSE "ActiveForward"]
    BY DEF MacTapClaim
  <2>3. QED
    BY <2>1, <2>2 DEF RunType, Mode
<1>6. run.tap = None
  BY <1>1, <1>3 DEF MacInv, RunHolds
<1>7. PICK c \in Caller : /\ call[c].pc = "wait" /\ call[c].gen = g /\ RunFollowsCall(c)
                          /\ tap[g].listen <=> call[c].mode = "PassiveEdge"
                          /\ call[c].mode \in {"PassiveEdge", "ActiveForward"}
  BY <1>1, <1>3 DEF MacInv, TapsAwaited, CurrentCall, Current, Idle, GoesByMode, ModesTyped, CallType, Mode
<1>8. IF tap[g].listen THEN run.mode = "PassiveEdge" ELSE run.mode = "Off" /\ run.pending = "ActiveForward" /\ run.stop = None
  <2>1. run.mode # "ActiveForward"
    BY <1>1, <1>6 DEF MacInv, RunIsMode
  <2>2. QED
    BY <1>7, <2>1 DEF RunFollowsCall
<1>9. ModesTyped'
  BY <1>1, <1>2, <1>3, <1>4, <1>5, <1>6, <1>7, <1>8 DEF ModesTyped
<1>10. Unborn'
  BY <1>1, <1>2, <1>3, <1>4, <1>5, <1>6, <1>7, <1>8 DEF Unborn
<1>11. OwnGeneration'
  BY <1>1, <1>2, <1>3, <1>4, <1>5, <1>6, <1>7, <1>8 DEF MacInv, OwnGeneration, Idle
<1>12. StartsItsThreads'
  BY <1>1, <1>2, <1>3, <1>4, <1>5, <1>6, <1>7, <1>8 DEF MacInv, StartsItsThreads, OwnGeneration, Starting, Idle
<1>13. GoesByMode'
  BY <1>1, <1>2, <1>3, <1>4, <1>5, <1>6, <1>7, <1>8 DEF MacInv, GoesByMode
<1>14. DetachesThePrevious'
  BY <1>1, <1>2, <1>3, <1>4, <1>5, <1>6, <1>7, <1>8 DEF MacInv, DetachesThePrevious
<1>15. TapsAwaited'
  BY <1>1, <1>2, <1>3, <1>4, <1>5, <1>6, <1>7, <1>8 DEF MacInv, TapsAwaited
<1>16. ListenersLetPass'
  BY <1>1, <1>2, <1>3, <1>4, <1>5, <1>6, <1>7, <1>8 DEF MacInv, ListenersLetPass
<1>17. TapsHeld'
  BY <1>1, <1>2, <1>3, <1>4, <1>5, <1>6, <1>7, <1>8 DEF MacInv, TapsHeld
<1>18. PollsHeld'
  BY <1>1, <1>2, <1>3, <1>4, <1>5, <1>6, <1>7, <1>8 DEF MacInv, PollsHeld
<1>19. PollsEndWhenTold'
  BY <1>1, <1>2, <1>3, <1>4, <1>5, <1>6, <1>7, <1>8 DEF MacInv, PollsEndWhenTold
<1>20. RunHolds'
  BY <1>1, <1>2, <1>3, <1>4, <1>5, <1>6, <1>7, <1>8 DEF MacInv, RunHolds
<1>21. RunSuppresses'
  BY <1>1, <1>2, <1>3, <1>4, <1>5, <1>6, <1>7, <1>8 DEF MacInv, RunSuppresses
<1>22. RunIsMode'
  BY <1>1, <1>2, <1>3, <1>4, <1>5, <1>6, <1>7, <1>8 DEF MacInv, RunIsMode
<1>23. PendingIsUnderWay'
  BY <1>1, <1>2, <1>3, <1>4, <1>5, <1>6, <1>7, <1>8 DEF MacInv, PendingIsUnderWay, Idle, Current
<1>24. CurrentCall'
  <2> SUFFICES ASSUME NEW d \in Caller, call'[d].pc # "idle", run'.generation = call'[d].gen
               PROVE  RunFollowsCall(d)'
    BY DEF CurrentCall, Idle, Current
  <2>0. call[d].gen = call[c].gen /\ run'.generation = call[c].gen
    BY <1>1, <1>3, <1>5, <1>7
  <2>1. call[d].pc # "idle" /\ call[c].pc # "idle" /\ call[d].gen = call[c].gen
    BY <1>3, <1>7, <2>0
  <2>2. OwnGeneration
    BY <1>1 DEF MacInv
  <2>3. d = c
    BY <2>1, <2>2 DEF OwnGeneration, Idle
  <2>4. RunFollowsCall(c)
    BY <1>7
  <2>5. QED
    BY <1>1, <1>2, <1>3, <1>4, <1>5, <1>6, <1>7, <1>8, <2>3, <2>4 DEF MacInv, RunFollowsCall, GoesByMode, Failed
<1>25. WantedIsServed'
  BY <1>1, <1>2, <1>3, <1>4, <1>5, <1>6, <1>7, <1>8 DEF MacInv, WantedIsServed, Failed, RunIsMode
<1>26. QED
  BY <1>9, <1>10, <1>11, <1>12, <1>13, <1>14, <1>15, <1>16, <1>17, <1>18, <1>19, <1>20, <1>21, <1>22, <1>23,
     <1>24, <1>25 DEF MacAll, MacInv

LEMMA MacTapDisownStep ==
    ASSUME MacAll, NEW g \in Gen, MacTapClaim(g), run.generation # g
    PROVE  MacAll'
<1>1. ModesTyped /\ Unborn /\ MacInv
  BY DEF MacAll
<1>2. /\ None \notin Gen /\ run.generation \in Int /\ \A h \in Gen : h \in Int /\ h \in Gen0
      /\ run.tap # None => run.tap \in Gen
      /\ run.stop # None => run.stop \in Gen
      /\ run.handle # None => run.handle \in Gen
      /\ \A d \in Caller : call[d].pc # "idle" => call[d].gen \in Gen /\ call[d].gen <= run.generation
      /\ \A d \in Caller : call[d].tap # None => call[d].tap \in Gen
  BY MacFacts
<1>3. tap[g].pc = "enabled" /\ UNCHANGED <<os, run, poll, pollStop, call, faults, wanted, excused>>
  BY DEF MacTapClaim
<1>4. /\ tap' \in TapType
      /\ \A h \in Gen : /\ tap'[h].pc = (IF h = g THEN "done" ELSE tap[h].pc)
                        /\ tap'[h].suppress = tap[h].suppress /\ tap'[h].listen = tap[h].listen
  BY <1>1, TapMoved DEF MacTapClaim, ModesTyped, TapPc
<1>5. ModesTyped'
  BY <1>1, <1>2, <1>3, <1>4 DEF ModesTyped
<1>6. Unborn'
  BY <1>1, <1>2, <1>3, <1>4 DEF Unborn
<1>7. OwnGeneration'
  BY <1>1, <1>2, <1>3, <1>4 DEF MacInv, OwnGeneration, Idle
<1>8. StartsItsThreads'
  BY <1>1, <1>2, <1>3, <1>4 DEF MacInv, StartsItsThreads, OwnGeneration, Starting, Idle
<1>9. GoesByMode'
  BY <1>1, <1>2, <1>3, <1>4 DEF MacInv, GoesByMode
<1>10. DetachesThePrevious'
  BY <1>1, <1>2, <1>3, <1>4 DEF MacInv, DetachesThePrevious
<1>11. TapsAwaited'
  BY <1>1, <1>2, <1>3, <1>4 DEF MacInv, TapsAwaited
<1>12. ListenersLetPass'
  BY <1>1, <1>2, <1>3, <1>4 DEF MacInv, ListenersLetPass
<1>13. TapsHeld'
  BY <1>1, <1>2, <1>3, <1>4 DEF MacInv, TapsHeld
<1>14. PollsHeld'
  BY <1>1, <1>2, <1>3, <1>4 DEF MacInv, PollsHeld
<1>15. PollsEndWhenTold'
  BY <1>1, <1>2, <1>3, <1>4 DEF MacInv, PollsEndWhenTold
<1>16. RunHolds'
  BY <1>1, <1>2, <1>3, <1>4 DEF MacInv, RunHolds
<1>17. RunSuppresses'
  BY <1>1, <1>2, <1>3, <1>4 DEF MacInv, RunSuppresses
<1>18. RunIsMode'
  BY <1>1, <1>2, <1>3, <1>4 DEF MacInv, RunIsMode
<1>19. PendingIsUnderWay'
  BY <1>1, <1>2, <1>3, <1>4 DEF MacInv, PendingIsUnderWay, Idle, Current
<1>20. CurrentCall'
  BY <1>1, <1>2, <1>3, <1>4 DEF MacInv, CurrentCall, RunFollowsCall, Idle, Current, Failed
<1>21. WantedIsServed'
  BY <1>1, <1>2, <1>3, <1>4 DEF MacInv, WantedIsServed, Failed
<1>22. QED
  BY <1>5, <1>6, <1>7, <1>8, <1>9, <1>10, <1>11, <1>12, <1>13, <1>14, <1>15, <1>16, <1>17, <1>18, <1>19, <1>20,
     <1>21 DEF MacAll, MacInv

LEMMA MacTapRunStep ==
    ASSUME MacAll, NEW g \in Gen, MacTapRun(g)
    PROVE  MacAll'
<1>1. ModesTyped /\ Unborn /\ MacInv
  BY DEF MacAll
<1>2. /\ None \notin Gen /\ run.generation \in Int /\ \A h \in Gen : h \in Int /\ h \in Gen0
      /\ run.tap # None => run.tap \in Gen
      /\ run.stop # None => run.stop \in Gen
      /\ run.handle # None => run.handle \in Gen
      /\ \A d \in Caller : call[d].pc # "idle" => call[d].gen \in Gen /\ call[d].gen <= run.generation
      /\ \A d \in Caller : call[d].tap # None => call[d].tap \in Gen
  BY MacFacts
<1>3. tap[g].pc = "claimed" /\ UNCHANGED <<os, run, poll, pollStop, call, faults, wanted, excused>>
  BY DEF MacTapRun
<1>4. /\ tap' \in TapType
      /\ \A h \in Gen : /\ tap'[h].pc = (IF h = g THEN "running" ELSE tap[h].pc)
                        /\ tap'[h].suppress = tap[h].suppress /\ tap'[h].listen = tap[h].listen
  BY <1>1, TapMoved DEF MacTapRun, ModesTyped, TapPc
<1>5. ModesTyped'
  BY <1>1, <1>2, <1>3, <1>4 DEF ModesTyped
<1>6. Unborn'
  BY <1>1, <1>2, <1>3, <1>4 DEF Unborn
<1>7. OwnGeneration'
  BY <1>1, <1>2, <1>3, <1>4 DEF MacInv, OwnGeneration, Idle
<1>8. StartsItsThreads'
  BY <1>1, <1>2, <1>3, <1>4 DEF MacInv, StartsItsThreads, OwnGeneration, Starting, Idle
<1>9. GoesByMode'
  BY <1>1, <1>2, <1>3, <1>4 DEF MacInv, GoesByMode
<1>10. DetachesThePrevious'
  BY <1>1, <1>2, <1>3, <1>4 DEF MacInv, DetachesThePrevious
<1>11. TapsAwaited'
  BY <1>1, <1>2, <1>3, <1>4 DEF MacInv, TapsAwaited
<1>12. ListenersLetPass'
  BY <1>1, <1>2, <1>3, <1>4 DEF MacInv, ListenersLetPass
<1>13. TapsHeld'
  BY <1>1, <1>2, <1>3, <1>4 DEF MacInv, TapsHeld
<1>14. PollsHeld'
  BY <1>1, <1>2, <1>3, <1>4 DEF MacInv, PollsHeld
<1>15. PollsEndWhenTold'
  BY <1>1, <1>2, <1>3, <1>4 DEF MacInv, PollsEndWhenTold
<1>16. RunHolds'
  BY <1>1, <1>2, <1>3, <1>4 DEF MacInv, RunHolds
<1>17. RunSuppresses'
  BY <1>1, <1>2, <1>3, <1>4 DEF MacInv, RunSuppresses
<1>18. RunIsMode'
  BY <1>1, <1>2, <1>3, <1>4 DEF MacInv, RunIsMode
<1>19. PendingIsUnderWay'
  BY <1>1, <1>2, <1>3, <1>4 DEF MacInv, PendingIsUnderWay, Idle, Current
<1>20. CurrentCall'
  BY <1>1, <1>2, <1>3, <1>4 DEF MacInv, CurrentCall, RunFollowsCall, Idle, Current, Failed
<1>21. WantedIsServed'
  BY <1>1, <1>2, <1>3, <1>4 DEF MacInv, WantedIsServed, Failed
<1>22. QED
  BY <1>5, <1>6, <1>7, <1>8, <1>9, <1>10, <1>11, <1>12, <1>13, <1>14, <1>15, <1>16, <1>17, <1>18, <1>19, <1>20,
     <1>21 DEF MacAll, MacInv

LEMMA MacTapEndStep ==
    ASSUME MacAll, NEW g \in Gen, MacTapEnd(g)
    PROVE  MacAll'
<1>1. ModesTyped /\ Unborn /\ MacInv
  BY DEF MacAll
<1>2. /\ None \notin Gen /\ run.generation \in Int /\ \A h \in Gen : h \in Int /\ h \in Gen0
      /\ run.tap # None => run.tap \in Gen
      /\ run.stop # None => run.stop \in Gen
      /\ run.handle # None => run.handle \in Gen
      /\ \A d \in Caller : call[d].pc # "idle" => call[d].gen \in Gen /\ call[d].gen <= run.generation
      /\ \A d \in Caller : call[d].tap # None => call[d].tap \in Gen
  BY MacFacts
<1>3. tap[g].pc = "stopping" /\ g < run.generation /\ UNCHANGED <<os, poll, pollStop, call, faults, wanted, excused>>
  BY <1>1 DEF MacTapEnd, MacInv, TapsAwaited
<1>4. run' = run
  BY <1>2, <1>3 DEF MacTapEnd
<1>5. /\ tap' \in TapType
      /\ \A h \in Gen : /\ tap'[h].pc = (IF h = g THEN "done" ELSE tap[h].pc)
                        /\ tap'[h].suppress = tap[h].suppress /\ tap'[h].listen = tap[h].listen
  BY <1>1, TapMoved DEF MacTapEnd, ModesTyped, TapPc
<1>6. ModesTyped'
  BY <1>1, <1>2, <1>3, <1>4, <1>5 DEF ModesTyped
<1>7. Unborn'
  BY <1>1, <1>2, <1>3, <1>4, <1>5 DEF Unborn
<1>8. OwnGeneration'
  BY <1>1, <1>2, <1>3, <1>4, <1>5 DEF MacInv, OwnGeneration, Idle
<1>9. StartsItsThreads'
  BY <1>1, <1>2, <1>3, <1>4, <1>5 DEF MacInv, StartsItsThreads, OwnGeneration, Starting, Idle
<1>10. GoesByMode'
  BY <1>1, <1>2, <1>3, <1>4, <1>5 DEF MacInv, GoesByMode
<1>11. DetachesThePrevious'
  BY <1>1, <1>2, <1>3, <1>4, <1>5 DEF MacInv, DetachesThePrevious
<1>12. TapsAwaited'
  BY <1>1, <1>2, <1>3, <1>4, <1>5 DEF MacInv, TapsAwaited
<1>13. ListenersLetPass'
  BY <1>1, <1>2, <1>3, <1>4, <1>5 DEF MacInv, ListenersLetPass
<1>14. TapsHeld'
  BY <1>1, <1>2, <1>3, <1>4, <1>5 DEF MacInv, TapsHeld
<1>15. PollsHeld'
  BY <1>1, <1>2, <1>3, <1>4, <1>5 DEF MacInv, PollsHeld
<1>16. PollsEndWhenTold'
  BY <1>1, <1>2, <1>3, <1>4, <1>5 DEF MacInv, PollsEndWhenTold
<1>17. RunHolds'
  BY <1>1, <1>2, <1>3, <1>4, <1>5 DEF MacInv, RunHolds
<1>18. RunSuppresses'
  BY <1>1, <1>2, <1>3, <1>4, <1>5 DEF MacInv, RunSuppresses
<1>19. RunIsMode'
  BY <1>1, <1>2, <1>3, <1>4, <1>5 DEF MacInv, RunIsMode
<1>20. PendingIsUnderWay'
  BY <1>1, <1>2, <1>3, <1>4, <1>5 DEF MacInv, PendingIsUnderWay, Idle, Current
<1>21. CurrentCall'
  BY <1>1, <1>2, <1>3, <1>4, <1>5 DEF MacInv, CurrentCall, RunFollowsCall, Idle, Current, Failed
<1>22. WantedIsServed'
  BY <1>1, <1>2, <1>3, <1>4, <1>5 DEF MacInv, WantedIsServed, Failed
<1>23. QED
  BY <1>6, <1>7, <1>8, <1>9, <1>10, <1>11, <1>12, <1>13, <1>14, <1>15, <1>16, <1>17, <1>18, <1>19, <1>20,
     <1>21, <1>22 DEF MacAll, MacInv

LEMMA MacTapReportStep ==
    ASSUME MacAll, NEW c \in Caller, MacTapReport(c)
    PROVE  MacAll'
<1>1. ModesTyped /\ Unborn /\ MacInv
  BY DEF MacAll
<1>2. /\ None \notin Gen /\ run.generation \in Int /\ \A h \in Gen : h \in Int /\ h \in Gen0
      /\ run.tap # None => run.tap \in Gen
      /\ run.stop # None => run.stop \in Gen
      /\ run.handle # None => run.handle \in Gen
      /\ \A d \in Caller : call[d].pc # "idle" => call[d].gen \in Gen /\ call[d].gen <= run.generation
      /\ \A d \in Caller : call[d].tap # None => call[d].tap \in Gen
  BY MacFacts
<1>3. /\ call[c].pc = "wait" /\ tap[call[c].gen].pc \in {"failed", "claimed", "running", "stopping", "done"}
      /\ call[c].mode \in {"PassiveEdge", "ActiveForward"} /\ UNCHANGED <<os, tap, poll, pollStop, faults, wanted, excused>>
  BY <1>1 DEF MacTapReport, MacInv, GoesByMode, ModesTyped, CallType, Mode
<1>4. /\ call' \in CallType /\ IdleCall.pc = "idle"
      /\ \A d \in Caller : call'[d] = (IF d = c THEN IdleCall ELSE call[d])
  BY <1>1, CallReturned DEF MacTapReport, ModesTyped, IdleCall
<1>5. (tap[call[c].gen].pc = "failed" /\ call[c].mode = "ActiveForward" /\ Current(c)) => /\ run' \in RunType /\ run'.generation = run.generation /\ run'.mode = "Off" /\ run'.canSuppress = FALSE
      /\ run'.pending = "none" /\ run'.tap = run.tap /\ run'.stop = run.stop /\ run'.handle = run.handle
  BY <1>1, GenFacts DEF MacTapReport, Required, ClearPendingStart, ModesTyped, RunType, Mode
<1>6. ~(tap[call[c].gen].pc = "failed" /\ call[c].mode = "ActiveForward" /\ Current(c)) => run' = run
  BY DEF MacTapReport, Required, ClearPendingStart
<1>7. run' \in RunType /\ run'.generation = run.generation
  BY <1>1, <1>5, <1>6 DEF ModesTyped
<1>8. (tap[call[c].gen].pc = "failed" /\ call[c].mode = "ActiveForward" /\ Current(c)) =>
         run.mode = "Off" /\ run.tap = None /\ run.stop = None /\ run.handle = None /\ Failed
  <2> SUFFICES ASSUME tap[call[c].gen].pc = "failed", call[c].mode = "ActiveForward", Current(c)
               PROVE  run.mode = "Off" /\ run.tap = None /\ run.stop = None /\ run.handle = None /\ Failed
    OBVIOUS
  <2>1. RunFollowsCall(c) /\ RunHolds /\ RunIsMode
    BY <1>1, <1>3 DEF MacInv, CurrentCall, Idle
  <2>2. run.tap = None
    BY <2>1 DEF RunHolds, Current
  <2>3. QED
    BY <1>3, <2>1, <2>2 DEF RunFollowsCall, RunIsMode
<1>9. (Current(c) /\ ~(tap[call[c].gen].pc = "failed" /\ call[c].mode = "ActiveForward")) => run.pending = "none"
  <2> SUFFICES ASSUME Current(c), ~(tap[call[c].gen].pc = "failed" /\ call[c].mode = "ActiveForward")
               PROVE  run.pending = "none"
    OBVIOUS
  <2>1. RunFollowsCall(c) /\ RunIsMode /\ run.generation = call[c].gen
    BY <1>1, <1>3 DEF MacInv, CurrentCall, Idle, Current
  <2>2. tap[call[c].gen].pc # "stopping"
    BY <1>1, <1>2, <1>3, <2>1 DEF MacInv, TapsAwaited
  <2>3. CASE call[c].mode = "PassiveEdge"
    BY <1>3, <2>1, <2>3 DEF RunFollowsCall, RunIsMode
  <2>4. CASE call[c].mode = "ActiveForward"
    BY <1>2, <1>3, <2>1, <2>2, <2>4 DEF RunFollowsCall, RunIsMode
  <2>5. QED
    BY <1>3, <2>3, <2>4
<1>10. ModesTyped'
  BY <1>1, <1>2, <1>3, <1>4, <1>5, <1>6, <1>7, <1>8, <1>9 DEF ModesTyped
<1>11. Unborn'
  BY <1>1, <1>2, <1>3, <1>4, <1>5, <1>6, <1>7, <1>8, <1>9 DEF Unborn
<1>12. OwnGeneration'
  BY <1>1, <1>2, <1>3, <1>4, <1>5, <1>6, <1>7, <1>8, <1>9 DEF MacInv, OwnGeneration, Idle
<1>13. StartsItsThreads'
  BY <1>1, <1>2, <1>3, <1>4, <1>5, <1>6, <1>7, <1>8, <1>9 DEF MacInv, StartsItsThreads, OwnGeneration,
     Starting, Idle
<1>14. GoesByMode'
  BY <1>1, <1>2, <1>3, <1>4, <1>5, <1>6, <1>7, <1>8, <1>9 DEF MacInv, GoesByMode
<1>15. DetachesThePrevious'
  BY <1>1, <1>2, <1>3, <1>4, <1>5, <1>6, <1>7, <1>8, <1>9 DEF MacInv, DetachesThePrevious
<1>16. TapsAwaited'
  BY <1>1, <1>2, <1>3, <1>4, <1>5, <1>6, <1>7, <1>8, <1>9 DEF MacInv, TapsAwaited
<1>17. ListenersLetPass'
  BY <1>1, <1>2, <1>3, <1>4, <1>5, <1>6, <1>7, <1>8, <1>9 DEF MacInv, ListenersLetPass
<1>18. TapsHeld'
  BY <1>1, <1>2, <1>3, <1>4, <1>5, <1>6, <1>7, <1>8, <1>9 DEF MacInv, TapsHeld
<1>19. PollsHeld'
  BY <1>1, <1>2, <1>3, <1>4, <1>5, <1>6, <1>7, <1>8, <1>9 DEF MacInv, PollsHeld
<1>20. PollsEndWhenTold'
  BY <1>1, <1>2, <1>3, <1>4, <1>5, <1>6, <1>7, <1>8, <1>9 DEF MacInv, PollsEndWhenTold
<1>21. RunHolds'
  BY <1>1, <1>2, <1>3, <1>4, <1>5, <1>6, <1>7, <1>8, <1>9 DEF MacInv, RunHolds
<1>22. RunSuppresses'
  BY <1>1, <1>2, <1>3, <1>4, <1>5, <1>6, <1>7, <1>8, <1>9 DEF MacInv, RunSuppresses
<1>23. RunIsMode'
  BY <1>1, <1>2, <1>3, <1>4, <1>5, <1>6, <1>7, <1>8, <1>9 DEF MacInv, RunIsMode
<1>24. PendingIsUnderWay'
  BY <1>1, <1>2, <1>3, <1>4, <1>5, <1>6, <1>7, <1>8, <1>9 DEF MacInv, PendingIsUnderWay, Idle, Current
<1>25. CurrentCall'
  BY <1>1, <1>2, <1>3, <1>4, <1>5, <1>6, <1>7, <1>8, <1>9 DEF MacInv, CurrentCall, RunFollowsCall, Idle,
     Current, Failed, OwnGeneration
<1>26. WantedIsServed'
  BY <1>1, <1>2, <1>3, <1>4, <1>5, <1>6, <1>7, <1>8, <1>9 DEF MacInv, WantedIsServed, Failed
<1>27. QED
  BY <1>10, <1>11, <1>12, <1>13, <1>14, <1>15, <1>16, <1>17, <1>18, <1>19, <1>20, <1>21, <1>22, <1>23, <1>24,
     <1>25, <1>26 DEF MacAll, MacInv

LEMMA MacPollExitStep ==
    ASSUME MacAll, NEW g \in Gen, PollExit(g)
    PROVE  MacAll'
<1>1. ModesTyped /\ Unborn /\ MacInv
  BY DEF MacAll
<1>2. /\ None \notin Gen /\ run.generation \in Int /\ \A h \in Gen : h \in Int /\ h \in Gen0
      /\ run.tap # None => run.tap \in Gen
      /\ run.stop # None => run.stop \in Gen
      /\ run.handle # None => run.handle \in Gen
      /\ \A d \in Caller : call[d].pc # "idle" => call[d].gen \in Gen /\ call[d].gen <= run.generation
      /\ \A d \in Caller : call[d].tap # None => call[d].tap \in Gen
  BY MacFacts
<1>3. poll[g] = "running" /\ g \in pollStop /\ g < run.generation /\ UNCHANGED <<os, run, tap, pollStop, call, faults, wanted, excused>>
  BY <1>1 DEF PollExit, MacInv, RunHolds
<1>4. /\ poll' \in [Gen -> {"none", "running", "done"}]
      /\ \A h \in Gen : poll'[h] = (IF h = g THEN "done" ELSE poll[h])
  BY <1>1 DEF PollExit, ModesTyped
<1>5. ModesTyped'
  BY <1>1, <1>2, <1>3, <1>4 DEF ModesTyped
<1>6. Unborn'
  BY <1>1, <1>2, <1>3, <1>4 DEF Unborn
<1>7. OwnGeneration'
  BY <1>1, <1>2, <1>3, <1>4 DEF MacInv, OwnGeneration, Idle
<1>8. StartsItsThreads'
  BY <1>1, <1>2, <1>3, <1>4 DEF MacInv, StartsItsThreads, OwnGeneration, Starting, Idle
<1>9. GoesByMode'
  BY <1>1, <1>2, <1>3, <1>4 DEF MacInv, GoesByMode
<1>10. DetachesThePrevious'
  BY <1>1, <1>2, <1>3, <1>4 DEF MacInv, DetachesThePrevious
<1>11. TapsAwaited'
  BY <1>1, <1>2, <1>3, <1>4 DEF MacInv, TapsAwaited
<1>12. ListenersLetPass'
  BY <1>1, <1>2, <1>3, <1>4 DEF MacInv, ListenersLetPass
<1>13. TapsHeld'
  BY <1>1, <1>2, <1>3, <1>4 DEF MacInv, TapsHeld
<1>14. PollsHeld'
  BY <1>1, <1>2, <1>3, <1>4 DEF MacInv, PollsHeld
<1>15. PollsEndWhenTold'
  BY <1>1, <1>2, <1>3, <1>4 DEF MacInv, PollsEndWhenTold
<1>16. RunHolds'
  BY <1>1, <1>2, <1>3, <1>4 DEF MacInv, RunHolds
<1>17. RunSuppresses'
  BY <1>1, <1>2, <1>3, <1>4 DEF MacInv, RunSuppresses
<1>18. RunIsMode'
  BY <1>1, <1>2, <1>3, <1>4 DEF MacInv, RunIsMode
<1>19. PendingIsUnderWay'
  BY <1>1, <1>2, <1>3, <1>4 DEF MacInv, PendingIsUnderWay, Idle, Current
<1>20. CurrentCall'
  BY <1>1, <1>2, <1>3, <1>4 DEF MacInv, CurrentCall, RunFollowsCall, Idle, Current, Failed
<1>21. WantedIsServed'
  BY <1>1, <1>2, <1>3, <1>4 DEF MacInv, WantedIsServed, Failed
<1>22. QED
  BY <1>5, <1>6, <1>7, <1>8, <1>9, <1>10, <1>11, <1>12, <1>13, <1>14, <1>15, <1>16, <1>17, <1>18, <1>19, <1>20,
     <1>21 DEF MacAll, MacInv

-----------------------------------------------------------------------------
(* Whatever the platform, every step keeps the invariant.                  *)

\* A host does not change its platform.
LEMMA PlatformStays == ModesNext => UNCHANGED os
<1> SUFFICES ASSUME ModesNext PROVE UNCHANGED os
  OBVIOUS
<1>1. CASE MacNext
  BY <1>1, Zenon DEF MacNext, MacSetMode, MacStop, MacDetach, MacJoin, MacPollPublish, MacPollSpawn,
     MacPollSpawnFails, MacPollClaim, MacPollAbandon, MacTapSpawn, MacTapSpawnFails, MacTapReport, MacTapCreate,
     MacTapEnable, MacTapClaim, MacTapRun, MacTapEnd
<1>2. CASE WinNext
  BY <1>2, Zenon DEF WinNext, WinSetMode, WinTeardown, WinStop, WinRestart, WinStarted, WinInstall, WinHooksGo
<1>3. CASE LinNext
  BY <1>3, Zenon DEF LinNext, LinSetMode, LinRecord, LinStop, LinReaderEnds, LinJoin
<1>4. QED
  BY <1>1, <1>2, <1>3 DEF ModesNext, PollExit

\* A Linux run has no poll to end.
LEMMA LinSteps == LinAll /\ os = "linux" /\ ModesNext => LinAll'
<1> SUFFICES ASSUME LinAll, os = "linux", ModesNext PROVE LinAll'
  OBVIOUS
<1>1. CASE LinNext
  <2>1. ASSUME NEW c \in Caller, NEW m \in Mode, LinSetMode(c, m) PROVE LinAll'
    BY <2>1, LinSetModeStep
  <2>2. ASSUME NEW c \in Caller, LinRecord(c) PROVE LinAll'
    BY <2>2, LinRecordStep
  <2>3. ASSUME NEW c \in Caller, LinStop(c) PROVE LinAll'
    BY <2>3, LinStopStep
  <2>4. ASSUME NEW c \in Caller, LinJoin(c) PROVE LinAll'
    BY <2>4, LinJoinStep
  <2>5. ASSUME NEW g \in Gen, LinReaderEnds(g) PROVE LinAll'
    BY <2>5, LinReaderEndsStep
  <2>6. QED
    BY <1>1, <2>1, <2>2, <2>3, <2>4, <2>5 DEF LinNext
<1>2. ~MacNext
  BY DEF MacNext, MacSetMode, MacStop, MacDetach, MacJoin, MacPollPublish, MacPollSpawn, MacPollSpawnFails,
         MacPollClaim, MacPollAbandon, MacTapSpawn, MacTapSpawnFails, MacTapReport, MacTapCreate, MacTapEnable,
         MacTapClaim, MacTapRun, MacTapEnd
<1>3. ~WinNext
  BY DEF WinNext, WinSetMode, WinStop, WinRestart, WinStarted, WinInstall, WinHooksGo
<1>4. ASSUME NEW g \in Gen PROVE ~PollExit(g)
  BY DEF LinAll, LinInv, LinShape, PollExit
<1>5. QED
  BY <1>1, <1>2, <1>3, <1>4 DEF ModesNext

LEMMA WinSteps == WinAll /\ os = "windows" /\ ModesNext => WinAll'
<1> SUFFICES ASSUME WinAll, os = "windows", ModesNext PROVE WinAll'
  OBVIOUS
<1>1. CASE WinNext
  <2>1. ASSUME NEW c \in Caller, NEW m \in Mode, WinSetMode(c, m) PROVE WinAll'
    BY <2>1, WinSetModeStep
  <2>2. ASSUME NEW c \in Caller, WinStop(c) PROVE WinAll'
    BY <2>2, WinStopStep
  <2>3. ASSUME NEW c \in Caller, WinRestart(c) PROVE WinAll'
    BY <2>3, WinRestartStep
  <2>4. ASSUME NEW c \in Caller, WinStarted(c) PROVE WinAll'
    BY <2>4, WinStartedStep
  <2>5. ASSUME NEW g \in Gen, WinInstall(g) PROVE WinAll'
    BY <2>5, WinInstallStep
  <2>6. ASSUME NEW g \in Gen, WinHooksGo(g) PROVE WinAll'
    BY <2>6, WinHooksGoStep
  <2>7. QED
    BY <1>1, <2>1, <2>2, <2>3, <2>4, <2>5, <2>6 DEF WinNext
<1>2. ~MacNext
  BY DEF MacNext, MacSetMode, MacStop, MacDetach, MacJoin, MacPollPublish, MacPollSpawn, MacPollSpawnFails,
         MacPollClaim, MacPollAbandon, MacTapSpawn, MacTapSpawnFails, MacTapReport, MacTapCreate, MacTapEnable,
         MacTapClaim, MacTapRun, MacTapEnd
<1>3. ~LinNext
  BY DEF LinNext, LinSetMode, LinRecord, LinStop, LinReaderEnds, LinJoin
<1>4. ASSUME NEW g \in Gen, PollExit(g) PROVE WinAll'
  BY <1>4, WinPollExitStep
<1>5. QED
  BY <1>1, <1>2, <1>3, <1>4 DEF ModesNext

\* A caller of the macOS adapter, from the claim of a generation to its return.
LEMMA MacCallSteps ==
    ASSUME MacAll, NEW c \in Caller,
           \/ \E m \in Mode : MacSetMode(c, m)
           \/ MacStop(c) \/ MacDetach(c) \/ MacJoin(c)
           \/ MacPollPublish(c) \/ MacPollSpawn(c) \/ MacPollSpawnFails(c)
           \/ MacPollClaim(c) \/ MacPollAbandon(c)
           \/ MacTapSpawn(c) \/ MacTapSpawnFails(c) \/ MacTapReport(c)
    PROVE  MacAll'
<1>1. ASSUME NEW m \in Mode, MacSetMode(c, m) PROVE MacAll'
  <2>1. CASE MacAlreadyThere(m)
    BY <1>1, <2>1, MacAlreadyThereStep DEF MacSetMode
  <2>2. CASE ~MacAlreadyThere(m)
    BY <1>1, <2>2, MacClaimStep DEF MacSetMode
  <2>3. QED
    BY <2>1, <2>2
<1>2. CASE MacStop(c)
  BY <1>2, MacClaimStep DEF MacStop, Mode
<1>3. CASE MacDetach(c)
  BY <1>3, MacDetachStep
<1>4. CASE MacJoin(c)
  BY <1>4, MacJoinOffStep, MacJoinOnStep
<1>5. CASE MacPollPublish(c)
  BY <1>5, MacPollPublishStep, MacPollStaleStep
<1>6. CASE MacPollSpawn(c)
  BY <1>6, MacPollSpawnStep
<1>7. CASE MacPollSpawnFails(c)
  BY <1>7, MacPollSpawnFailsStep
<1>8. CASE MacPollClaim(c)
  BY <1>8, MacPollClaimStep, MacPollDisownStep
<1>9. CASE MacPollAbandon(c)
  BY <1>9, MacPollAbandonStep
<1>10. CASE MacTapSpawn(c)
  BY <1>10, MacTapSpawnStep
<1>11. CASE MacTapSpawnFails(c)
  BY <1>11, MacTapSpawnFailsStep
<1>12. CASE MacTapReport(c)
  BY <1>12, MacTapReportStep
<1>13. QED
  BY <1>1, <1>2, <1>3, <1>4, <1>5, <1>6, <1>7, <1>8, <1>9, <1>10, <1>11, <1>12

\* A thread of it.
LEMMA MacThreadSteps ==
    ASSUME MacAll, NEW g \in Gen,
           MacTapCreate(g) \/ MacTapEnable(g) \/ MacTapClaim(g) \/ MacTapRun(g) \/ MacTapEnd(g) \/ PollExit(g)
    PROVE  MacAll'
<1>1. CASE MacTapCreate(g)
  BY <1>1, MacTapCreateStep
<1>2. CASE MacTapEnable(g)
  BY <1>2, MacTapEnableStep
<1>3. CASE MacTapClaim(g)
  BY <1>3, MacTapClaimStep, MacTapDisownStep
<1>4. CASE MacTapRun(g)
  BY <1>4, MacTapRunStep
<1>5. CASE MacTapEnd(g)
  BY <1>5, MacTapEndStep
<1>6. CASE PollExit(g)
  BY <1>6, MacPollExitStep
<1>7. QED
  BY <1>1, <1>2, <1>3, <1>4, <1>5, <1>6

LEMMA MacSteps == MacAll /\ os = "macos" /\ ModesNext => MacAll'
<1> SUFFICES ASSUME MacAll, os = "macos", ModesNext PROVE MacAll'
  OBVIOUS
<1>1. ~WinNext
  BY DEF WinNext, WinSetMode, WinStop, WinRestart, WinStarted, WinInstall, WinHooksGo
<1>2. ~LinNext
  BY DEF LinNext, LinSetMode, LinRecord, LinStop, LinReaderEnds, LinJoin
<1>3. CASE MacNext
  BY <1>3, MacCallSteps, MacThreadSteps DEF MacNext
<1>4. ASSUME NEW g \in Gen, PollExit(g) PROVE MacAll'
  BY <1>4, MacThreadSteps
<1>5. QED
  BY <1>1, <1>2, <1>3, <1>4 DEF ModesNext

LEMMA ModesSteps == ModesInv /\ ModesNext => ModesInv'
<1> SUFFICES ASSUME ModesInv, ModesNext PROVE ModesInv'
  OBVIOUS
<1>1. CASE os = "linux"
  BY <1>1, LinSteps, PlatformStays DEF ModesInv, LinAll
<1>2. CASE os = "windows"
  BY <1>2, WinSteps, PlatformStays DEF ModesInv, WinAll
<1>3. CASE os = "macos"
  BY <1>3, MacSteps, PlatformStays DEF ModesInv, MacAll
<1>4. QED
  BY <1>1, <1>2, <1>3 DEF ModesInv, OS

LEMMA ModesUntouched == ModesInv /\ UNCHANGED modeVars => ModesInv'
<1> SUFFICES ASSUME ModesInv, UNCHANGED modeVars PROVE ModesInv'
  OBVIOUS
<1>1. UNCHANGED <<os, run, tap, poll, pollStop, call, faults, wanted, excused>>
  BY DEF modeVars
<1>2. (ModesTyped /\ Unborn)'
  BY <1>1 DEF ModesInv, ModesTyped, Unborn
<1>3. LinInv => LinInv'
  BY <1>1 DEF LinInv, LinShape, LinReader, LinRecorded, CrossedStop
<1>4. WinInv => WinInv'
  BY <1>1 DEF WinInv, WinFree, WinJoining, WinWaiting, NoHandles, Unlocked, Idle, Failed
<1>5. MacInv => MacInv'
  BY <1>1 DEF MacInv, OwnGeneration, StartsItsThreads, GoesByMode, DetachesThePrevious, TapsAwaited,
     ListenersLetPass, TapsHeld, PollsHeld, PollsEndWhenTold, RunHolds, RunSuppresses, RunIsMode,
     PendingIsUnderWay, CurrentCall, RunFollowsCall, WantedIsServed, Idle, Current, Failed
<1>6. QED
  BY <1>1, <1>2, <1>3, <1>4, <1>5 DEF ModesInv

-----------------------------------------------------------------------------
(* At rest the invariant is the mode being real.                           *)

LEMMA LinIsReal ==
    ASSUME LinAll, os = "linux", AtRest, ~excused
    PROVE  ModeIsReal
<1>1. None \notin Gen /\ (run.tap # None => run.tap \in Gen)
  BY GenFacts DEF LinAll, ModesTyped, RunType
<1>2. run.mode = wanted /\ run.pending = "none" /\ Polling = {}
  BY DEF LinAll, LinInv, LinShape, Polling
<1>3. Live = (IF run.tap = None THEN {} ELSE {run.tap})
  BY <1>1 DEF LinAll, LinInv, LinReader, Live
<1>4. run.tap # None <=> run.mode # "Off"
  BY DEF LinAll, LinInv, LinRecorded, CrossedStop, AtRest, Idle
<1>5. run.canSuppress => run.mode = "ActiveForward" /\ run.tap # None
  BY DEF LinAll, LinInv, LinReader
<1>6. QED
  BY <1>2, <1>3, <1>4, <1>5 DEF ModeIsReal

LEMMA WinIsReal ==
    ASSUME WinAll, os = "windows", AtRest
    PROVE  ModeIsReal
<1>1. /\ None \notin Gen /\ run.mode \in Mode
      /\ run.tap # None => run.tap \in Gen
      /\ run.handle # None => run.handle \in Gen
  BY GenFacts DEF WinAll, ModesTyped, RunType
<1>2. WinFree /\ run.pending = "none"
  BY DEF WinAll, WinInv, Unlocked, AtRest
<1>3. Live = (IF run.tap = None THEN {} ELSE {run.tap})
  BY <1>1, <1>2 DEF WinFree, Live
<1>4. Polling = (IF run.handle = None THEN {} ELSE {run.handle})
  BY <1>1, <1>2 DEF WinFree, Polling
<1>5. /\ run.tap # None <=> run.mode = "ActiveForward"
      /\ run.handle # None <=> run.mode = "PassiveEdge"
      /\ run.canSuppress <=> run.mode = "ActiveForward"
      /\ run.tap # None => tap[run.tap].suppress
      /\ run.stop = run.handle
      /\ run.mode = wanted \/ (faults < MaxFaults /\ run.mode = "Off")
  BY <1>2 DEF WinFree, Failed
<1>6. run.mode = "ActiveForward" => run.canSuppress = tap[run.tap].suppress
  <2>1. run.canSuppress \in BOOLEAN /\ \A g \in Gen : tap[g].suppress \in BOOLEAN
    BY DEF WinAll, ModesTyped, RunType, TapType
  <2>2. QED
    BY <1>1, <1>5, <2>1
<1>7. QED
  BY <1>2, <1>3, <1>4, <1>5, <1>6 DEF ModeIsReal

LEMMA MacIsReal ==
    ASSUME MacAll, os = "macos", AtRest, ~excused
    PROVE  ModeIsReal
<1>1. /\ None \notin Gen /\ run.mode \in Mode /\ wanted \in Mode
      /\ run.tap # None => run.tap \in Gen
      /\ run.handle # None => run.handle \in Gen
  BY MacFacts DEF MacAll, ModesTyped, RunType
<1>2. \A c \in Caller : call[c].pc = "idle"
  BY DEF AtRest, Idle
<1>3. run.pending = "none"
  BY <1>2 DEF MacAll, MacInv, PendingIsUnderWay, Idle
<1>4. run.mode = wanted \/ (faults < MaxFaults /\ run.mode = "Off")
  BY <1>1, <1>3 DEF MacAll, MacInv, WantedIsServed, Failed, Mode
<1>5. run.tap # None => tap[run.tap].pc = "running"
  BY <1>1 DEF MacAll, MacInv, RunHolds, AtRest
<1>6. Live = (IF run.tap = None THEN {} ELSE {run.tap})
  <2>1. \A g \in Gen : tap[g].pc = "running" => g = run.tap
    BY <1>2 DEF MacAll, MacInv, TapsHeld
  <2>2. QED
    BY <1>1, <1>5, <2>1 DEF Live
<1>7. Polling = (IF run.handle = None THEN {} ELSE {run.handle})
  <2>1. \A g \in Gen : poll[g] = "running" => g \notin pollStop
    BY DEF AtRest, Polling
  <2>2. \A g \in Gen : poll[g] = "running" => g = run.handle
    BY <1>2, <2>1 DEF MacAll, MacInv, PollsHeld
  <2>3. run.handle # None => poll[run.handle] = "running"
    BY DEF MacAll, MacInv, RunHolds
  <2>4. QED
    BY <1>1, <2>2, <2>3 DEF Polling
<1>8. /\ run.handle # None <=> run.mode = "PassiveEdge"
      /\ run.mode = "Off" => run.tap = None
      /\ run.mode = "PassiveEdge" /\ run.tap # None => ~tap[run.tap].suppress
      /\ run.mode = "ActiveForward" => run.tap # None
      /\ run.handle # None => run.stop = run.handle
  BY <1>1 DEF MacAll, MacInv, RunIsMode, RunHolds, ListenersLetPass
<1>9. IF run.tap = None THEN ~run.canSuppress ELSE run.canSuppress = tap[run.tap].suppress
  BY DEF MacAll, MacInv, RunSuppresses
<1>10. run.canSuppress => run.mode = "ActiveForward" /\ run.tap # None
  BY <1>1, <1>8, <1>9 DEF Mode
<1>11. QED
  BY <1>3, <1>4, <1>6, <1>7, <1>8, <1>9, <1>10 DEF ModeIsReal

\* set_mode and stop, in any overlap: once they have returned and the threads
\* rest, the adapter's mode is the one last asked for (or Off after a failure)
\* and exactly the threads of that mode watch local input.
THEOREM ThreadsFollowMode == Spec => []ModeIsReal
<1>1. Init => ModesInv
  <2> SUFFICES ASSUME Init PROVE ModesInv
    OBVIOUS
  <2>1. os \in OS
    BY DEF Init, OS
  <2>2. QED
    BY <2>1, ModesStart DEF Init, ModesInv
<1>2. ModesInv /\ [Next]_allVars => ModesInv'
  <2> SUFFICES ASSUME ModesInv, [Next]_allVars PROVE ModesInv'
    OBVIOUS
  <2>1. CASE ModesNext
    BY <2>1, ModesSteps
  <2>2. CASE UNCHANGED modeVars
    BY <2>2, ModesUntouched
  <2>3. QED
    BY <2>1, <2>2 DEF Next, allVars
<1>3. ModesInv => ModeIsReal
  <2> SUFFICES ASSUME ModesInv, AtRest, ~excused PROVE ModeIsReal
    BY DEF ModeIsReal
  <2>1. CASE os = "linux"
    BY <2>1, LinIsReal DEF ModesInv, LinAll
  <2>2. CASE os = "windows"
    BY <2>2, WinIsReal DEF ModesInv, WinAll
  <2>3. CASE os = "macos"
    BY <2>3, MacIsReal DEF ModesInv, MacAll
  <2>4. QED
    BY <2>1, <2>2, <2>3 DEF ModesInv, OS
<1>4. QED
  BY <1>1, <1>2, <1>3, PTL DEF Spec

------------------------------------------------------------------------------
(***************************************************************************)
(* The path of an event.                                                   *)
(***************************************************************************)
Platform == {"macos", "windows", "linux"}
KeyEvent == [kind : {"key"}, key : Keys, down : BOOLEAN, mods : SUBSET Ctrls]
RawEvent == [kind : {"raw"}, dx : Int]
PointEvent == [kind : {"point"}, x : Nat]
Event == KeyEvent \cup RawEvent \cup PointEvent
LogEntry == Keys \X BOOLEAN \X Int

PathTyped ==
    /\ source \in Platform /\ target \in Platform
    /\ phys \subseteq Keys /\ held \subseteq Keys /\ seen \subseteq Keys /\ missed \subseteq Keys
    /\ mods \subseteq Ctrls /\ ctrls \subseteq Ctrls
    /\ frame \in {"PassThrough", "Suppress"}
    /\ queue \in Seq(Event) /\ batch \in Seq(Event)
    /\ got \in Seq(LogEntry) /\ sent \in Seq(LogEntry)
    /\ made \in Int /\ moved \in Int /\ skipped \in Int /\ lastPoint \in Int
    /\ localX \in Nat /\ mixed \in BOOLEAN

\* What still waits, oldest first.
Waiting == batch \o queue

\* Only windows swaps its queue out, overflows it or puts motion in it; macos
\* has none at all, and the reader of linux looks the modifiers up late.
QueuesAre ==
    /\ source # "windows" => batch = <<>> /\ full = {}
    /\ source = "macos" => queue = <<>>
    /\ source = "linux" => \A i \in DOMAIN queue : queue[i] \in KeyEvent /\ queue[i].mods = {}

\* A Ctrl key not missed is known to every copy of the modifiers, and the
\* chord is noticed.
MacMirrors ==
    source = "macos" =>
        /\ tapped => \A k \in Ctrls \ missed : /\ k \in mods <=> k \in phys
                                               /\ k \in seen <=> k \in phys
                                               /\ k \in ctrls <=> k \in phys
        /\ ~tapped => mods = {}
        /\ ChordKnown => reclaim

WinMirrors ==
    source = "windows" =>
        /\ tapped => \A k \in Ctrls : (k \in mods <=> k \in seen) /\ (k \in mods => k \in phys)
        /\ ~tapped => mods = {}
        /\ ChordKnown => reclaim

\* The last entry of k in the buffer.
NewestOf(q, k, i) == q[i].key = k /\ \A j \in DOMAIN q : j > i => q[j].key # k

\* What the reader believes lags by what its buffer holds; once a round has
\* ended under the chord, nothing is grabbed until a Ctrl key changes.
LinMirrors ==
    source = "linux" =>
        /\ tapped => \A k \in Ctrls :
              /\ k \in seen => k \in phys
              /\ \A i \in DOMAIN queue : NewestOf(queue, k, i) => (queue[i].down <=> k \in seen)
              /\ (\A i \in DOMAIN queue : queue[i].key # k) => (k \in mods <=> k \in seen)
        /\ ~tapped => mods = {} /\ queue = <<>> /\ ~settled
        /\ Ctrls \subseteq mods => reclaim
        /\ settled => /\ Ctrls \subseteq seen /\ Ctrls \subseteq mods
                      /\ ~grabbed /\ frame = "PassThrough"
                      /\ \A i \in DOMAIN queue : queue[i].key \notin Ctrls

MirrorsAre == MacMirrors /\ WinMirrors /\ LinMirrors

\* A release of k waits behind place i.
Releases(e, k) == e.kind = "key" /\ e.key = k /\ ~e.down
Presses(e, k) == e.kind = "key" /\ e.down /\ (k = e.key \/ k \in e.mods)
FreedAfter(w, k, i) == \E j \in DOMAIN w : j > i /\ Releases(w[j], k)

FreedIn(w, ks, on) ==
    \A k \in ks : /\ k \in on => FreedAfter(w, k, 0)
                  /\ \A i \in DOMAIN w : Presses(w[i], k) => FreedAfter(w, k, i)

\* Of the keys that are up, those the target holds or is about to, with the
\* modifiers a reader would still add.
UpKeys == Keys \ (phys \cup missed)
Believed == held \cup (IF source = "linux" THEN mods ELSE {})

\* What the target holds, or is about to, of keys that are up is to be released.
UpIsFreed == "transition" \notin full => FreedIn(Waiting, UpKeys, Believed)

\* How many transitions have been handed over after the j-th of w, ...
Counts(w, f, a, b) ==
    /\ f \in [0..Len(w) -> 0..b] /\ f[0] = a /\ f[Len(w)] = b
    /\ \A j \in DOMAIN w : f[j] = f[j - 1] + (IF w[j].kind = "key" THEN 1 ELSE 0)

\* ... each of which is the one the user made next, ...
InTurn(w, s, f) ==
    \A j \in DOMAIN w : w[j].kind = "key" => s[f[j]][1] = w[j].key /\ s[f[j]][2] = w[j].down

Order(w, s, f, a) == Counts(w, f, a, Len(s)) /\ InTurn(w, s, f)

\* ... and where the pointer is by then: an event leads from p to Onto, where
\* c is how far ahead of it the local cursor runs.
Onto(p, e, c) == IF e.kind = "key" THEN p ELSE IF e.kind = "raw" THEN p + e.dx ELSE e.x - c

Travels(w, g, a, b, c) ==
    /\ g \in [0..Len(w) -> Int] /\ g[0] = a /\ g[Len(w)] = b
    /\ \A j \in DOMAIN w : g[j] = Onto(g[j - 1], w[j], c)

InPlace(w, s, f, g) == \A j \in DOMAIN w : w[j].kind = "key" => s[f[j]][3] = g[j]

Places(w, s, f, g, a, b, c) == Travels(w, g, a, b, c) /\ InPlace(w, s, f, g)

Loosely(w, s, a) == \E f : Order(w, s, f, a)
Exactly(w, s, a, x, y, c) == \E f, g : Order(w, s, f, a) /\ Places(w, s, f, g, x, y, c)

Begins(g, s) == Len(g) <= Len(s) /\ \A i \in DOMAIN g : g[i][1] = s[i][1] /\ g[i][2] = s[i][2]
BeginsExactly(g, s) == \A i \in DOMAIN g : g[i] = s[i]

Place == moved + skipped
Base == localX - made

\* What has been handed over is what the user made first, and what waits the
\* rest; short of any overflow and of a mixture, at the same points.
QueueIsComplete ==
    source = "windows" =>
        /\ "transition" \notin full => Begins(got, sent) /\ Loosely(Waiting, sent, Len(got))
        /\ full = {} /\ ~mixed =>
              BeginsExactly(got, sent) /\ Exactly(Waiting, sent, Len(got), Place, made, Base)

KindsIn(w, ks) == \A j \in DOMAIN w : w[j].kind \in ks \cup {"key"}

\* Short of any overflow: motion that waits or has been handed over is of the
\* kinds on record, a mouse that reports deltas again after a tablet has made
\* a mixture, and the last point handed over is where the pointer is.
MotionIsKnown ==
    source = "windows" /\ full = {} =>
        /\ KindsIn(Waiting, motions)
        /\ lastPoint # NoPoint => "point" \in motions
        /\ {"point", "raw"} \subseteq motions => mixed
        /\ tapped /\ ~Hooked /\ "point" \in motions => mixed
        /\ ~mixed /\ lastPoint # NoPoint => Place = lastPoint - Base

PathInv ==
    PathTyped /\ QueuesAre /\ MirrorsAre /\ passed /\ UpIsFreed /\ QueueIsComplete /\ MotionIsKnown

(***************************************************************************)
(* What enqueueing and handing over do to the events that wait.            *)
(***************************************************************************)
Appended(w, v, e) ==
    /\ Len(v) = Len(w) + 1 /\ v[Len(v)] = e
    /\ \A j \in DOMAIN w : v[j] = w[j]

Replaced(w, v, e) ==
    /\ Len(w) > 0 /\ Len(v) = Len(w) /\ v[Len(v)] = e
    /\ \A j \in DOMAIN w : j # Len(w) => v[j] = w[j]

Dropped(w, v, p) ==
    /\ p \in DOMAIN w /\ Len(v) = Len(w) - 1
    /\ \A j \in DOMAIN v : v[j] = IF j < p THEN w[j] ELSE w[j + 1]

Popped(w, v, e) ==
    /\ Len(w) > 0 /\ w[1] = e /\ Len(v) = Len(w) - 1
    /\ \A j \in DOMAIN v : v[j] = w[j + 1]

LEMMA JoinIs ==
    ASSUME NEW S, NEW b \in Seq(S), NEW q \in Seq(S)
    PROVE  /\ b \o q \in Seq(S) /\ Len(b \o q) = Len(b) + Len(q) /\ Len(b) \in Nat /\ Len(q) \in Nat
           /\ DOMAIN (b \o q) = 1..(Len(b) + Len(q)) /\ DOMAIN b = 1..Len(b) /\ DOMAIN q = 1..Len(q)
           /\ \A j \in 1..(Len(b) + Len(q)) : (b \o q)[j] = IF j <= Len(b) THEN b[j] ELSE q[j - Len(b)]
  OBVIOUS

LEMMA JoinAppend ==
    ASSUME NEW S, NEW b \in Seq(S), NEW q \in Seq(S), NEW e \in S
    PROVE  Append(q, e) \in Seq(S) /\ Appended(b \o q, b \o Append(q, e), e)
<1>. DEFINE r == Append(q, e)
<1>1. r \in Seq(S) /\ Len(r) = Len(q) + 1 /\ r[Len(q) + 1] = e /\ \A j \in 1..Len(q) : r[j] = q[j]
  OBVIOUS
<1>. HIDE DEF r
<1>. DEFINE w == b \o q
            v == b \o r
<1>2. /\ Len(b) \in Nat /\ Len(q) \in Nat /\ Len(w) = Len(b) + Len(q) /\ DOMAIN w = 1..(Len(b) + Len(q))
      /\ \A j \in 1..(Len(b) + Len(q)) : w[j] = IF j <= Len(b) THEN b[j] ELSE q[j - Len(b)]
  BY JoinIs
<1>3. /\ Len(v) = Len(b) + Len(r)
      /\ \A j \in 1..(Len(b) + Len(r)) : v[j] = IF j <= Len(b) THEN b[j] ELSE r[j - Len(b)]
  BY <1>1, JoinIs
<1>. HIDE DEF w, v
<1>4. Appended(w, v, e)
  <2>1. Len(v) = Len(w) + 1
    BY <1>1, <1>2, <1>3
  <2>2. v[Len(v)] = e
    <3>1. Len(v) \in 1..(Len(b) + Len(r)) /\ ~(Len(v) <= Len(b)) /\ Len(v) - Len(b) = Len(q) + 1
      BY <1>1, <1>2, <1>3
    <3>. QED
      BY <3>1, <1>1, <1>3
  <2>3. ASSUME NEW j \in DOMAIN w PROVE v[j] = w[j]
    <3>1. v[j] = (IF j <= Len(b) THEN b[j] ELSE r[j - Len(b)]) /\ j \in 1..(Len(b) + Len(q))
      BY <1>1, <1>2, <1>3
    <3>2. ~(j <= Len(b)) => j - Len(b) \in 1..Len(q)
      BY <3>1, <1>2
    <3>. QED
      BY <3>1, <3>2, <1>1, <1>2
  <2>. QED
    BY <2>1, <2>2, <2>3 DEF Appended
<1>. QED
  BY <1>1, <1>4 DEF r, w, v

LEMMA JoinReplace ==
    ASSUME NEW S, NEW b \in Seq(S), NEW q \in Seq(S), q # <<>>, NEW e \in S
    PROVE  /\ [q EXCEPT ![Len(q)] = e] \in Seq(S)
           /\ Replaced(b \o q, b \o [q EXCEPT ![Len(q)] = e], e)
<1>. DEFINE r == [q EXCEPT ![Len(q)] = e]
<1>1. /\ r \in Seq(S) /\ Len(r) = Len(q) /\ Len(q) > 0 /\ r[Len(q)] = e
      /\ \A j \in 1..Len(q) : j # Len(q) => r[j] = q[j]
  OBVIOUS
<1>. HIDE DEF r
<1>. DEFINE w == b \o q
            v == b \o r
<1>2. /\ Len(b) \in Nat /\ Len(q) \in Nat /\ Len(w) = Len(b) + Len(q) /\ DOMAIN w = 1..(Len(b) + Len(q))
      /\ \A j \in 1..(Len(b) + Len(q)) : w[j] = IF j <= Len(b) THEN b[j] ELSE q[j - Len(b)]
  BY JoinIs
<1>3. /\ Len(v) = Len(b) + Len(r)
      /\ \A j \in 1..(Len(b) + Len(r)) : v[j] = IF j <= Len(b) THEN b[j] ELSE r[j - Len(b)]
  BY <1>1, JoinIs
<1>. HIDE DEF w, v
<1>4. Replaced(w, v, e)
  <2>1. Len(v) = Len(w) /\ Len(w) > 0
    BY <1>1, <1>2, <1>3
  <2>2. v[Len(v)] = e
    <3>1. Len(v) \in 1..(Len(b) + Len(r)) /\ ~(Len(v) <= Len(b)) /\ Len(v) - Len(b) = Len(q)
      BY <1>1, <1>2, <1>3
    <3>. QED
      BY <3>1, <1>1, <1>3
  <2>3. ASSUME NEW j \in DOMAIN w, j # Len(w) PROVE v[j] = w[j]
    <3>1. v[j] = (IF j <= Len(b) THEN b[j] ELSE r[j - Len(b)]) /\ j \in 1..(Len(b) + Len(q))
      BY <1>1, <1>2, <1>3
    <3>2. ~(j <= Len(b)) => j - Len(b) \in 1..Len(q) /\ j - Len(b) # Len(q)
      BY <3>1, <2>3, <1>2
    <3>. QED
      BY <3>1, <3>2, <1>1, <1>2
  <2>. QED
    BY <2>1, <2>2, <2>3 DEF Replaced
<1>. QED
  BY <1>1, <1>4 DEF r, w, v

LEMMA JoinDrop ==
    ASSUME NEW S, NEW b \in Seq(S), NEW q \in Seq(S), NEW p \in DOMAIN q
    PROVE  /\ RemoveAt(q, p) \in Seq(S) /\ Len(RemoveAt(q, p)) = Len(q) - 1
           /\ Dropped(b \o q, b \o RemoveAt(q, p), Len(b) + p)
           /\ (b \o q)[Len(b) + p] = q[p]
<1>. DEFINE r == RemoveAt(q, p)
            l == SubSeq(q, 1, p - 1)
            m == SubSeq(q, p + 1, Len(q))
<1>1. l \in Seq(S) /\ Len(l) = p - 1 /\ \A j \in 1..(p - 1) : l[j] = q[j]
  OBVIOUS
<1>2. m \in Seq(S) /\ Len(m) = Len(q) - p /\ \A j \in 1..(Len(q) - p) : m[j] = q[p + j]
  OBVIOUS
<1>3. r = l \o m
  BY DEF RemoveAt
<1>4. p \in 1..Len(q) /\ Len(q) \in Nat
  OBVIOUS
<1>. HIDE DEF l, m
<1>5. /\ r \in Seq(S) /\ Len(r) = Len(l) + Len(m)
      /\ \A j \in 1..(Len(l) + Len(m)) : r[j] = IF j <= Len(l) THEN l[j] ELSE m[j - Len(l)]
  <2>1. l \in Seq(S) /\ m \in Seq(S)
    BY <1>1, <1>2
  <2>2. /\ l \o m \in Seq(S) /\ Len(l \o m) = Len(l) + Len(m)
        /\ \A j \in 1..(Len(l) + Len(m)) : (l \o m)[j] = IF j <= Len(l) THEN l[j] ELSE m[j - Len(l)]
    BY <2>1, JoinIs
  <2>. QED
    BY <2>2, <1>3
<1>. HIDE DEF r
<1>6. Len(r) = Len(q) - 1
  BY <1>1, <1>2, <1>4, <1>5
<1>7. \A j \in 1..(Len(q) - 1) : r[j] = IF j < p THEN q[j] ELSE q[j + 1]
  <2> SUFFICES ASSUME NEW j \in 1..(Len(q) - 1) PROVE r[j] = IF j < p THEN q[j] ELSE q[j + 1]
    OBVIOUS
  <2>1. r[j] = IF j <= p - 1 THEN l[j] ELSE m[j - (p - 1)]
    <3>1. Len(l) + Len(m) = Len(q) - 1
      BY <1>1, <1>2, <1>4
    <3>. QED
      BY <3>1, <1>1, <1>5
  <2>2. j <= p - 1 => l[j] = q[j]
    BY <1>1, <1>4
  <2>3. ~(j <= p - 1) => j - (p - 1) \in 1..(Len(q) - p) /\ p + (j - (p - 1)) = j + 1
    BY <1>4
  <2>4. ~(j <= p - 1) => m[j - (p - 1)] = q[j + 1]
    BY <2>3, <1>2
  <2>. QED
    BY <2>1, <2>2, <2>4, <1>4
<1>. DEFINE w == b \o q
            v == b \o r
<1>8. /\ Len(b) \in Nat /\ Len(w) = Len(b) + Len(q) /\ DOMAIN w = 1..(Len(b) + Len(q))
      /\ \A j \in 1..(Len(b) + Len(q)) : w[j] = IF j <= Len(b) THEN b[j] ELSE q[j - Len(b)]
  BY JoinIs
<1>9. /\ Len(v) = Len(b) + (Len(q) - 1) /\ DOMAIN v = 1..(Len(b) + (Len(q) - 1))
      /\ \A j \in 1..(Len(b) + (Len(q) - 1)) : v[j] = IF j <= Len(b) THEN b[j] ELSE r[j - Len(b)]
  <2>1. /\ v \in Seq(S) /\ Len(v) = Len(b) + Len(r)
        /\ \A j \in 1..(Len(b) + Len(r)) : v[j] = IF j <= Len(b) THEN b[j] ELSE r[j - Len(b)]
    <3>1. r \in Seq(S) /\ b \in Seq(S)
      BY <1>5
    <3>. QED
      BY <3>1, JoinIs
  <2>2. DOMAIN v = 1..Len(v)
    BY <2>1
  <2>. QED
    BY <2>1, <2>2, <1>6
<1>. HIDE DEF w, v
<1>10. ASSUME NEW j \in DOMAIN v PROVE v[j] = IF j < Len(b) + p THEN w[j] ELSE w[j + 1]
  <2>1. CASE j <= Len(b)
    BY <2>1, <1>4, <1>8, <1>9
  <2>2. CASE ~(j <= Len(b))
    <3>1. v[j] = r[j - Len(b)] /\ j - Len(b) \in 1..(Len(q) - 1)
      BY <2>2, <1>4, <1>8, <1>9
    <3>2. v[j] = IF j - Len(b) < p THEN q[j - Len(b)] ELSE q[(j - Len(b)) + 1]
      BY <3>1, <1>7
    <3>3. w[j] = q[j - Len(b)] /\ w[j + 1] = q[(j + 1) - Len(b)] /\ (j + 1) - Len(b) = (j - Len(b)) + 1
      BY <2>2, <1>4, <1>8, <1>9
    <3>4. j - Len(b) < p <=> j < Len(b) + p
      BY <1>4, <1>8, <1>9
    <3>. QED
      BY <3>1, <3>2, <3>3, <3>4
  <2>. QED
    BY <2>1, <2>2
<1>11. Dropped(w, v, Len(b) + p)
  BY <1>4, <1>8, <1>9, <1>10 DEF Dropped
<1>12. w[Len(b) + p] = q[p]
  BY <1>4, <1>8
<1>. QED
  BY <1>5, <1>6, <1>11, <1>12 DEF r, w, v

LEMMA JoinPop ==
    ASSUME NEW S, NEW b \in Seq(S), NEW q \in Seq(S), b # <<>>
    PROVE  Tail(b) \in Seq(S) /\ Popped(b \o q, Tail(b) \o q, Head(b)) /\ Head(b) \in S
<1>. DEFINE r == Tail(b)
<1>1. r \in Seq(S) /\ Len(r) = Len(b) - 1 /\ Len(b) > 0 /\ \A j \in 1..(Len(b) - 1) : r[j] = b[j + 1]
  OBVIOUS
<1>2. Head(b) = b[1] /\ Head(b) \in S
  OBVIOUS
<1>. HIDE DEF r
<1>. DEFINE w == b \o q
            v == r \o q
<1>3. /\ Len(b) \in Nat /\ Len(q) \in Nat /\ Len(w) = Len(b) + Len(q) /\ DOMAIN w = 1..(Len(b) + Len(q))
      /\ \A j \in 1..(Len(b) + Len(q)) : w[j] = IF j <= Len(b) THEN b[j] ELSE q[j - Len(b)]
  BY JoinIs
<1>4. /\ Len(v) = (Len(b) - 1) + Len(q) /\ DOMAIN v = 1..((Len(b) - 1) + Len(q))
      /\ \A j \in 1..((Len(b) - 1) + Len(q)) : v[j] = IF j <= Len(b) - 1 THEN r[j] ELSE q[j - (Len(b) - 1)]
  <2>1. /\ v \in Seq(S) /\ Len(v) = Len(r) + Len(q)
        /\ \A j \in 1..(Len(r) + Len(q)) : v[j] = IF j <= Len(r) THEN r[j] ELSE q[j - Len(r)]
    BY <1>1, JoinIs
  <2>2. DOMAIN v = 1..Len(v)
    BY <2>1
  <2>. QED
    BY <2>1, <2>2, <1>1
<1>. HIDE DEF w, v
<1>5. ASSUME NEW j \in DOMAIN v PROVE v[j] = w[j + 1]
  <2>1. w[j + 1] = IF j + 1 <= Len(b) THEN b[j + 1] ELSE q[(j + 1) - Len(b)]
    BY <1>3, <1>4
  <2>2. (j + 1) - Len(b) = j - (Len(b) - 1) /\ (j + 1 <= Len(b) <=> j <= Len(b) - 1)
    BY <1>3, <1>4
  <2>3. v[j] = IF j <= Len(b) - 1 THEN r[j] ELSE q[j - (Len(b) - 1)]
    BY <1>4
  <2>4. j <= Len(b) - 1 => r[j] = b[j + 1]
    <3>1. j <= Len(b) - 1 => j \in 1..(Len(b) - 1)
      BY <1>3, <1>4
    <3>. QED
      BY <1>1, <3>1
  <2>. QED
    BY <2>1, <2>2, <2>3, <2>4
<1>6. Popped(w, v, b[1])
  BY <1>1, <1>3, <1>4, <1>5 DEF Popped
<1>. QED
  BY <1>1, <1>2, <1>6 DEF r, w, v

(***************************************************************************)
(* Releases that wait, when the queue changes.                             *)
(***************************************************************************)
LEMMA FreedStays ==
    ASSUME NEW w, NEW ks, NEW on, NEW ks2 \in SUBSET ks, NEW on2 \in SUBSET on, FreedIn(w, ks, on)
    PROVE  FreedIn(w, ks2, on2)
  BY DEF FreedIn

LEMMA FreedDropped ==
    ASSUME NEW w \in Seq(Event), NEW v \in Seq(Event), NEW p, Dropped(w, v, p), w[p].kind # "key",
           NEW ks, NEW on, FreedIn(w, ks, on)
    PROVE  FreedIn(v, ks, on)
<1>. DEFINE n == Len(w)
<1>1. n \in Nat /\ DOMAIN w = 1..n /\ DOMAIN v = 1..(n - 1) /\ p \in 1..n
      /\ \A j \in 1..(n - 1) : v[j] = IF j < p THEN w[j] ELSE w[j + 1]
  BY DEF Dropped
<1>. HIDE DEF n
<1>2. ASSUME NEW k, NEW i \in 0..n, NEW l \in 0..n, FreedAfter(w, k, i), l = IF i < p THEN i ELSE i - 1
      PROVE  FreedAfter(v, k, l)
  <2>1. PICK j \in 1..n : j > i /\ Releases(w[j], k)
    BY <1>1, <1>2 DEF FreedAfter
  <2>2. j # p
    BY <2>1 DEF Releases
  <2>3. PICK m \in 1..(n - 1) : m = IF j < p THEN j ELSE j - 1
    BY <1>1, <2>2
  <2>4. v[m] = w[j] /\ m > l
    BY <1>1, <1>2, <2>1, <2>2, <2>3
  <2>. QED
    BY <1>1, <2>1, <2>4 DEF FreedAfter
<1>3. ASSUME NEW k \in ks, k \in on PROVE FreedAfter(v, k, 0)
  BY <1>1, <1>2, <1>3 DEF FreedIn
<1>4. ASSUME NEW k \in ks, NEW l \in DOMAIN v, Presses(v[l], k) PROVE FreedAfter(v, k, l)
  <2>1. PICK i \in 1..n : i = IF l < p THEN l ELSE l + 1
    BY <1>1
  <2>2. v[l] = w[i] /\ l = (IF i < p THEN i ELSE i - 1) /\ i \in 0..n /\ l \in 0..n
    BY <1>1, <2>1
  <2>3. FreedAfter(w, k, i)
    BY <1>1, <1>4, <2>2 DEF FreedIn
  <2>. QED
    BY <1>2, <2>2, <2>3
<1>. QED
  BY <1>3, <1>4 DEF FreedIn

LEMMA FreedAppended ==
    ASSUME NEW w \in Seq(Event), NEW v \in Seq(Event), NEW e, Appended(w, v, e),
           NEW ks, NEW on, NEW ks2, NEW on2, FreedIn(w, ks, on),
           \A k \in ks2 : Releases(e, k) \/ (k \in ks /\ (k \in on2 => k \in on) /\ ~Presses(e, k))
    PROVE  FreedIn(v, ks2, on2)
<1>. DEFINE n == Len(w)
<1>1. n \in Nat /\ DOMAIN w = 1..n /\ DOMAIN v = 1..(n + 1) /\ v[n + 1] = e /\ \A j \in 1..n : v[j] = w[j]
  BY DEF Appended
<1>. HIDE DEF n
<1>2. ASSUME NEW k \in ks2, Releases(e, k) PROVE \A i \in 0..n : FreedAfter(v, k, i)
  BY <1>1, <1>2 DEF FreedAfter
<1>3. ASSUME NEW k, NEW i \in 0..n, FreedAfter(w, k, i) PROVE FreedAfter(v, k, i)
  BY <1>1, <1>3 DEF FreedAfter
<1>4. ASSUME NEW k \in ks2, k \in on2 PROVE FreedAfter(v, k, 0)
  BY <1>1, <1>2, <1>3, <1>4 DEF FreedIn
<1>5. ASSUME NEW k \in ks2, NEW i \in DOMAIN v, Presses(v[i], k) PROVE FreedAfter(v, k, i)
  <2>1. CASE Releases(e, k)
    <3>1. i # n + 1
      BY <2>1, <1>1, <1>5 DEF Presses, Releases
    <3>. QED
      BY <2>1, <3>1, <1>1, <1>2
  <2>2. CASE ~Releases(e, k)
    <3>1. k \in ks /\ ~Presses(e, k)
      BY <2>2
    <3>2. i \in 1..n /\ Presses(w[i], k)
      BY <3>1, <1>1, <1>5
    <3>3. FreedAfter(w, k, i)
      BY <3>1, <3>2, <1>1 DEF FreedIn
    <3>. QED
      BY <3>2, <3>3, <1>1, <1>3
  <2>. QED
    BY <2>1, <2>2
<1>. QED
  BY <1>4, <1>5 DEF FreedIn

LEMMA FreedReplaced ==
    ASSUME NEW w \in Seq(Event), NEW v \in Seq(Event), NEW e, Replaced(w, v, e),
           w[Len(w)].kind # "key", e.kind # "key", NEW ks, NEW on, FreedIn(w, ks, on)
    PROVE  FreedIn(v, ks, on)
<1>. DEFINE n == Len(w)
<1>1. n \in Nat /\ DOMAIN w = 1..n /\ DOMAIN v = 1..n /\ v[n] = e /\ \A j \in 1..n : j # n => v[j] = w[j]
  BY DEF Replaced
<1>2. w[n].kind # "key"
  OBVIOUS
<1>. HIDE DEF n
<1>3. \A k : \A j \in 1..n : /\ Releases(v[j], k) <=> Releases(w[j], k)
                             /\ Presses(v[j], k) <=> Presses(w[j], k)
  BY <1>1, <1>2 DEF Releases, Presses
<1>. QED
  BY <1>1, <1>3 DEF FreedIn, FreedAfter

LEMMA FreedPopped ==
    ASSUME NEW w \in Seq(Event), NEW v \in Seq(Event), NEW e, Popped(w, v, e),
           NEW ks, NEW on, NEW on2, FreedIn(w, ks, on),
           \A k \in ks : k \in on2 => Presses(e, k) \/ (k \in on /\ ~Releases(e, k))
    PROVE  FreedIn(v, ks, on2)
<1>. DEFINE n == Len(w)
<1>1. n \in Nat /\ n > 0 /\ w[1] = e /\ DOMAIN w = 1..n /\ DOMAIN v = 1..(n - 1) /\ \A j \in 1..(n - 1) : v[j] = w[j + 1]
  BY DEF Popped
<1>. HIDE DEF n
<1>2. ASSUME NEW k, NEW i \in 1..n, FreedAfter(w, k, i) PROVE FreedAfter(v, k, i - 1)
  <2>1. PICK j \in 1..n : j > i /\ Releases(w[j], k)
    BY <1>1, <1>2 DEF FreedAfter
  <2>2. j - 1 \in 1..(n - 1) /\ j - 1 > i - 1 /\ (j - 1) + 1 = j
    BY <2>1, <1>1
  <2>3. v[j - 1] = w[j]
    BY <2>2, <1>1
  <2>. QED
    BY <2>1, <2>2, <2>3, <1>1 DEF FreedAfter
<1>3. ASSUME NEW k \in ks, k \in on2 PROVE FreedAfter(v, k, 0)
  <2>1. CASE Presses(e, k)
    <3>1. FreedAfter(w, k, 1) /\ 1 \in 1..n
      BY <2>1, <1>1 DEF FreedIn
    <3>2. FreedAfter(v, k, 1 - 1)
      BY <3>1, <1>2
    <3>. QED
      BY <3>2
  <2>2. CASE k \in on /\ ~Releases(e, k)
    <3>1. PICK j \in 1..n : j > 0 /\ Releases(w[j], k)
      BY <2>2, <1>1 DEF FreedIn, FreedAfter
    <3>2. FreedAfter(w, k, 1) /\ 1 \in 1..n
      BY <2>2, <3>1, <1>1 DEF FreedAfter
    <3>3. FreedAfter(v, k, 1 - 1)
      BY <3>2, <1>2
    <3>. QED
      BY <3>3
  <2>. QED
    BY <1>3, <2>1, <2>2
<1>4. ASSUME NEW k \in ks, NEW i \in DOMAIN v, Presses(v[i], k) PROVE FreedAfter(v, k, i)
  <2>1. i + 1 \in 1..n /\ w[i + 1] = v[i] /\ (i + 1) - 1 = i
    BY <1>1
  <2>2. FreedAfter(w, k, i + 1)
    BY <2>1, <1>1, <1>4 DEF FreedIn
  <2>. QED
    BY <1>2, <2>1, <2>2
<1>. QED
  BY <1>3, <1>4 DEF FreedIn

(***************************************************************************)
(* What waits continues what has been handed over, when the queue changes. *)
(***************************************************************************)
Counted(e) == IF e.kind = "key" THEN 1 ELSE 0

LEMMA OntoIs ==
    ASSUME NEW p \in Int, NEW e \in Event, NEW c \in Int
    PROVE  /\ Onto(p, e, c) \in Int
           /\ e.kind = "key" => Onto(p, e, c) = p
           /\ e.kind = "raw" => e.dx \in Int /\ Onto(p, e, c) = p + e.dx
           /\ e.kind = "point" => e.x \in Nat /\ Onto(p, e, c) = e.x - c
<1>1. CASE e \in KeyEvent
  BY <1>1 DEF Onto, KeyEvent
<1>2. CASE e \in RawEvent
  BY <1>2 DEF Onto, RawEvent
<1>3. CASE e \in PointEvent
  BY <1>3 DEF Onto, PointEvent
<1>. QED
  BY <1>1, <1>2, <1>3 DEF Event

LEMMA ContinuesDropped ==
    ASSUME NEW w \in Seq(Event), NEW v \in Seq(Event), NEW p, Dropped(w, v, p), w[p].kind # "key",
           NEW s, Len(s) \in Nat, NEW a, Loosely(w, s, a)
    PROVE  Loosely(v, s, a)
<1>. DEFINE n == Len(w)
<1>1. n \in Nat /\ DOMAIN w = 1..n /\ DOMAIN v = 1..(n - 1) /\ Len(v) = n - 1 /\ p \in 1..n
      /\ \A j \in 1..(n - 1) : v[j] = IF j < p THEN w[j] ELSE w[j + 1]
  BY DEF Dropped
<1>2. PICK f : Order(w, s, f, a)
  BY DEF Loosely
<1>3. /\ f \in [0..n -> 0..Len(s)] /\ f[0] = a /\ f[n] = Len(s)
      /\ \A j \in 1..n : f[j] = f[j - 1] + (IF w[j].kind = "key" THEN 1 ELSE 0)
      /\ \A j \in 1..n : w[j].kind = "key" => s[f[j]][1] = w[j].key /\ s[f[j]][2] = w[j].down
  BY <1>1, <1>2 DEF Order, Counts, InTurn
<1>. HIDE DEF n
<1>. DEFINE h == [j \in 0..(n - 1) |-> IF j < p THEN f[j] ELSE f[j + 1]]
<1>4. f[p] = f[p - 1]
  BY <1>1, <1>3
<1>5. /\ h \in [0..(n - 1) -> 0..Len(s)] /\ h[0] = a /\ h[n - 1] = Len(s)
      /\ \A j \in 0..(n - 1) : h[j] = IF j < p THEN f[j] ELSE f[j + 1]
  <2>1. \A j \in 0..(n - 1) : j \in 0..n /\ j + 1 \in 0..n /\ f[j] \in 0..Len(s) /\ f[j + 1] \in 0..Len(s)
    BY <1>1, <1>3
  <2>2. h \in [0..(n - 1) -> 0..Len(s)] /\ \A j \in 0..(n - 1) : h[j] = IF j < p THEN f[j] ELSE f[j + 1]
    BY <2>1
  <2>3. 0 < p /\ 0 \in 0..(n - 1) /\ n - 1 \in 0..(n - 1) /\ (n - 1) + 1 = n
    BY <1>1
  <2>. HIDE DEF h
  <2>4. h[0] = a
    BY <2>2, <2>3, <1>3
  <2>5. h[n - 1] = Len(s)
    <3>1. h[n - 1] = IF n - 1 < p THEN f[n - 1] ELSE f[(n - 1) + 1]
      BY <2>2, <2>3
    <3>2. n - 1 < p => p = n
      BY <1>1
    <3>. QED
      BY <3>1, <3>2, <2>3, <1>3, <1>4
  <2>. QED
    BY <2>2, <2>4, <2>5
<1>. HIDE DEF h
<1>6. ASSUME NEW j \in 1..(n - 1) PROVE h[j] = h[j - 1] + (IF v[j].kind = "key" THEN 1 ELSE 0)
  <2>1. CASE j < p
    <3>0. j \in 0..(n - 1) /\ j - 1 \in 0..(n - 1) /\ j - 1 < p
      BY <2>1, <1>1
    <3>1. h[j] = f[j] /\ h[j - 1] = f[j - 1] /\ v[j] = w[j] /\ j \in 1..n
      BY <2>1, <3>0, <1>1, <1>5
    <3>. QED
      BY <3>1, <1>3
  <2>2. CASE j = p
    <3>0. j \in 0..(n - 1) /\ j - 1 \in 0..(n - 1) /\ j - 1 < p /\ ~(j < p)
      BY <2>2, <1>1
    <3>1. h[j] = f[p + 1] /\ h[j - 1] = f[p] /\ v[j] = w[p + 1] /\ p + 1 \in 1..n /\ (p + 1) - 1 = p
      BY <2>2, <3>0, <1>1, <1>4, <1>5
    <3>. QED
      BY <3>1, <1>3
  <2>3. CASE j > p
    <3>0. j \in 0..(n - 1) /\ j - 1 \in 0..(n - 1) /\ ~(j < p) /\ ~(j - 1 < p) /\ (j - 1) + 1 = j
      BY <2>3, <1>1
    <3>1. h[j] = f[j + 1] /\ h[j - 1] = f[(j - 1) + 1]
      BY <3>0, <1>5
    <3>2. v[j] = w[j + 1] /\ j + 1 \in 1..n /\ (j + 1) - 1 = j
      BY <3>0, <1>1
    <3>. QED
      BY <3>0, <3>1, <3>2, <1>3
  <2>. QED
    BY <2>1, <2>2, <2>3, <1>1
<1>7. ASSUME NEW j \in 1..(n - 1), v[j].kind = "key" PROVE s[h[j]][1] = v[j].key /\ s[h[j]][2] = v[j].down
  <2>1. PICK i \in 1..n : i = IF j < p THEN j ELSE j + 1
    BY <1>1
  <2>2. v[j] = w[i] /\ h[j] = f[i]
    BY <2>1, <1>1, <1>5
  <2>. QED
    BY <2>2, <1>3, <1>7
<1>8. Order(v, s, h, a)
  BY <1>1, <1>5, <1>6, <1>7 DEF Order, Counts, InTurn
<1>. QED
  BY <1>8 DEF Loosely

LEMMA ContinuesWithKey ==
    ASSUME NEW w \in Seq(Event), NEW v \in Seq(Event), NEW e \in KeyEvent, Appended(w, v, e),
           NEW s \in Seq(LogEntry), NEW a, NEW x, NEW y \in Int, NEW c \in Int, NEW f,
           Order(w, s, f, a)
    PROVE  \E h : /\ Order(v, Append(s, <<e.key, e.down, y>>), h, a)
                  /\ \A g : Places(w, s, f, g, x, y, c) =>
                        \E k : Places(v, Append(s, <<e.key, e.down, y>>), h, k, x, y, c)
<1>. DEFINE n == Len(w)
            z == <<e.key, e.down, y>>
            t == Append(s, z)
<1>1. n \in Nat /\ DOMAIN w = 1..n /\ DOMAIN v = 1..(n + 1) /\ Len(v) = n + 1
      /\ v[n + 1] = e /\ \A j \in 1..n : v[j] = w[j]
  BY DEF Appended
<1>2. Len(s) \in Nat /\ Len(t) = Len(s) + 1 /\ t[Len(s) + 1] = z /\ \A i \in 1..Len(s) : t[i] = s[i]
  BY DEF KeyEvent, LogEntry
<1>3. e.kind = "key" /\ z[1] = e.key /\ z[2] = e.down /\ z[3] = y
  BY DEF KeyEvent
<1>5. /\ f \in [0..n -> 0..Len(s)] /\ f[0] = a /\ f[n] = Len(s)
      /\ \A j \in 1..n : f[j] = f[j - 1] + (IF w[j].kind = "key" THEN 1 ELSE 0)
      /\ \A j \in 1..n : w[j].kind = "key" => s[f[j]][1] = w[j].key /\ s[f[j]][2] = w[j].down
  BY <1>1 DEF Order, Counts, InTurn
<1>. HIDE DEF n, z, t
<1>6. \A j \in 1..n : w[j].kind = "key" => f[j] \in 1..Len(s) /\ t[f[j]] = s[f[j]]
  <2> SUFFICES ASSUME NEW j \in 1..n, w[j].kind = "key" PROVE f[j] \in 1..Len(s)
    BY <1>2
  <2>a. j \in 0..n /\ j - 1 \in 0..n
    BY <1>1
  <2>1. f[j] = f[j - 1] + 1 /\ f[j - 1] \in 0..Len(s) /\ f[j] \in 0..Len(s)
    BY <2>a, <1>5
  <2>. QED
    BY <2>1, <1>2
<1>. DEFINE h == [j \in 0..(n + 1) |-> IF j <= n THEN f[j] ELSE Len(s) + 1]
<1>7. h[n + 1] = Len(s) + 1 /\ (\A j \in 0..n : h[j] = f[j]) /\ h \in [0..(n + 1) -> 0..Len(t)]
  BY <1>1, <1>2, <1>5
<1>. HIDE DEF h
<1>8. Counts(v, h, a, Len(t))
  <2>1. ASSUME NEW j \in 1..(n + 1) PROVE h[j] = h[j - 1] + (IF v[j].kind = "key" THEN 1 ELSE 0)
    <3>1. CASE j <= n
      <4>1. j \in 1..n /\ h[j] = f[j] /\ h[j - 1] = f[j - 1] /\ v[j] = w[j]
        BY <3>1, <1>1, <1>7
      <4>. QED
        BY <4>1, <1>5
    <3>2. CASE j = n + 1
      <4>0. j - 1 = n /\ n \in 0..n
        BY <3>2, <1>1
      <4>1. h[j] = Len(s) + 1 /\ h[j - 1] = f[n] /\ v[j] = e
        BY <3>2, <4>0, <1>1, <1>7
      <4>. QED
        BY <4>1, <1>3, <1>5
    <3>. QED
      BY <3>1, <3>2, <1>1
  <2>2. h[0] = a
    BY <1>1, <1>5, <1>7
  <2>. QED
    BY <2>1, <2>2, <1>1, <1>2, <1>7 DEF Counts
<1>9. InTurn(v, t, h)
  <2>1. ASSUME NEW j \in 1..(n + 1), v[j].kind = "key" PROVE t[h[j]][1] = v[j].key /\ t[h[j]][2] = v[j].down
    <3>1. CASE j <= n
      <4>1. j \in 1..n /\ h[j] = f[j] /\ v[j] = w[j] /\ w[j].kind = "key"
        BY <3>1, <2>1, <1>1, <1>7
      <4>2. t[f[j]] = s[f[j]]
        BY <4>1, <1>6
      <4>. QED
        BY <4>1, <4>2, <1>5
    <3>2. CASE j = n + 1
      BY <3>2, <1>1, <1>2, <1>3, <1>7
    <3>. QED
      BY <3>1, <3>2, <1>1
  <2>. QED
    BY <2>1, <1>1 DEF InTurn
<1>10. ASSUME NEW g, Places(w, s, f, g, x, y, c) PROVE \E k : Places(v, t, h, k, x, y, c)
  <2>2. /\ g \in [0..n -> Int] /\ g[0] = x /\ g[n] = y
        /\ \A j \in 1..n : g[j] = Onto(g[j - 1], w[j], c)
        /\ \A j \in 1..n : w[j].kind = "key" => s[f[j]][3] = g[j]
    BY <1>1, <1>10 DEF Places, Travels, InPlace, n
  <2>. DEFINE k == [j \in 0..(n + 1) |-> IF j <= n THEN g[j] ELSE y]
  <2>3. k[n + 1] = y /\ (\A j \in 0..n : k[j] = g[j]) /\ k \in [0..(n + 1) -> Int]
    BY <1>1, <2>2
  <2>. HIDE DEF k
  <2>4. Travels(v, k, x, y, c)
    <3>1. ASSUME NEW j \in 1..(n + 1)
          PROVE  k[j] = Onto(k[j - 1], v[j], c)
      <4>1. CASE j <= n
        <5>0. j \in 1..n /\ j \in 0..n /\ j - 1 \in 0..n
          BY <4>1, <1>1
        <5>1. j \in 1..n /\ k[j] = g[j] /\ k[j - 1] = g[j - 1] /\ v[j] = w[j]
          BY <5>0, <1>1, <2>3
        <5>. QED
          BY <5>1, <2>2
      <4>2. CASE j = n + 1
        <5>0. j - 1 = n /\ n \in 0..n
          BY <4>2, <1>1
        <5>1. k[j] = y /\ k[j - 1] = g[n] /\ v[j] = e
          BY <4>2, <5>0, <1>1, <2>3
        <5>. QED
          BY <5>1, <1>3, <2>2 DEF Onto
      <4>. QED
        BY <4>1, <4>2, <1>1
    <3>2. k[0] = x
      <4>1. 0 \in 0..n
        BY <1>1
      <4>2. k[0] = g[0]
        BY <4>1, <2>3
      <4>. QED
        BY <4>2, <2>2
    <3>. QED
      BY <3>1, <3>2, <1>1, <2>3 DEF Travels
  <2>5. InPlace(v, t, h, k)
    <3>1. ASSUME NEW j \in 1..(n + 1), v[j].kind = "key" PROVE t[h[j]][3] = k[j]
      <4>1. CASE j <= n
        <5>0. j \in 1..n /\ j \in 0..n
          BY <4>1, <1>1
        <5>1. j \in 1..n /\ h[j] = f[j] /\ v[j] = w[j] /\ w[j].kind = "key" /\ k[j] = g[j]
          BY <5>0, <3>1, <1>1, <1>7, <2>3
        <5>2. t[f[j]] = s[f[j]]
          BY <5>1, <1>6
        <5>. QED
          BY <5>1, <5>2, <2>2
      <4>2. CASE j = n + 1
        BY <4>2, <1>2, <1>3, <1>7, <2>3
      <4>. QED
        BY <4>1, <4>2, <1>1
    <3>. QED
      BY <3>1, <1>1 DEF InPlace
  <2>. QED
    BY <2>4, <2>5 DEF Places
<1>11. Order(v, t, h, a)
  BY <1>8, <1>9 DEF Order
<1>. QED
  BY <1>10, <1>11 DEF t, z

LEMMA ContinuesWithMotion ==
    ASSUME NEW w \in Seq(Event), NEW v \in Seq(Event), NEW e \in RawEvent \cup PointEvent, Appended(w, v, e),
           NEW s \in Seq(LogEntry), NEW a, NEW x, NEW y \in Int, NEW c \in Int, NEW f,
           Order(w, s, f, a)
    PROVE  \E h : /\ Order(v, s, h, a)
                  /\ \A g : Places(w, s, f, g, x, y, c) => \E k : Places(v, s, h, k, x, Onto(y, e, c), c)
<1>. DEFINE n == Len(w)
<1>1. n \in Nat /\ DOMAIN w = 1..n /\ DOMAIN v = 1..(n + 1) /\ Len(v) = n + 1
      /\ v[n + 1] = e /\ \A j \in 1..n : v[j] = w[j]
  BY DEF Appended
<1>2. Len(s) \in Nat
  OBVIOUS
<1>3. e.kind # "key" /\ e \in Event
  BY DEF RawEvent, PointEvent, Event
<1>5. /\ f \in [0..n -> 0..Len(s)] /\ f[0] = a /\ f[n] = Len(s)
      /\ \A j \in 1..n : f[j] = f[j - 1] + (IF w[j].kind = "key" THEN 1 ELSE 0)
      /\ \A j \in 1..n : w[j].kind = "key" => s[f[j]][1] = w[j].key /\ s[f[j]][2] = w[j].down
  BY <1>1 DEF Order, Counts, InTurn
<1>. HIDE DEF n
<1>. DEFINE h == [j \in 0..(n + 1) |-> IF j <= n THEN f[j] ELSE Len(s)]
<1>7. h[n + 1] = Len(s) /\ (\A j \in 0..n : h[j] = f[j]) /\ h \in [0..(n + 1) -> 0..Len(s)]
  BY <1>1, <1>2, <1>5
<1>. HIDE DEF h
<1>8. Counts(v, h, a, Len(s))
  <2>1. ASSUME NEW j \in 1..(n + 1) PROVE h[j] = h[j - 1] + (IF v[j].kind = "key" THEN 1 ELSE 0)
    <3>1. CASE j <= n
      <4>0. j \in 1..n /\ j \in 0..n /\ j - 1 \in 0..n
        BY <3>1, <1>1
      <4>1. h[j] = f[j] /\ h[j - 1] = f[j - 1] /\ v[j] = w[j]
        BY <4>0, <1>1, <1>7
      <4>. QED
        BY <4>0, <4>1, <1>5
    <3>2. CASE j = n + 1
      <4>0. j - 1 = n /\ n \in 0..n
        BY <3>2, <1>1
      <4>1. h[j] = Len(s) /\ h[j - 1] = f[n] /\ v[j] = e
        BY <3>2, <4>0, <1>1, <1>7
      <4>. QED
        BY <4>1, <1>2, <1>3, <1>5
    <3>. QED
      BY <3>1, <3>2, <1>1
  <2>2. h[0] = a
    BY <1>1, <1>5, <1>7
  <2>. QED
    BY <2>1, <2>2, <1>1, <1>7 DEF Counts
<1>9. InTurn(v, s, h)
  <2>1. ASSUME NEW j \in 1..(n + 1), v[j].kind = "key" PROVE s[h[j]][1] = v[j].key /\ s[h[j]][2] = v[j].down
    <3>1. j # n + 1
      BY <2>1, <1>1, <1>3
    <3>2. j \in 1..n /\ h[j] = f[j] /\ v[j] = w[j] /\ w[j].kind = "key"
      BY <3>1, <2>1, <1>1, <1>7
    <3>. QED
      BY <3>2, <1>5
  <2>. QED
    BY <2>1, <1>1 DEF InTurn
<1>10. ASSUME NEW g, Places(w, s, f, g, x, y, c) PROVE \E k : Places(v, s, h, k, x, Onto(y, e, c), c)
  <2>. DEFINE y2 == Onto(y, e, c)
  <2>2. /\ g \in [0..n -> Int] /\ g[0] = x /\ g[n] = y
        /\ \A j \in 1..n : g[j] = Onto(g[j - 1], w[j], c)
        /\ \A j \in 1..n : w[j].kind = "key" => s[f[j]][3] = g[j]
    BY <1>1, <1>10 DEF Places, Travels, InPlace, n
  <2>3. y2 \in Int /\ y2 = Onto(y, e, c)
    BY <1>3, OntoIs
  <2>. HIDE DEF y2
  <2>. DEFINE k == [j \in 0..(n + 1) |-> IF j <= n THEN g[j] ELSE y2]
  <2>4. k[n + 1] = y2 /\ (\A j \in 0..n : k[j] = g[j]) /\ k \in [0..(n + 1) -> Int]
    BY <1>1, <2>2, <2>3
  <2>. HIDE DEF k
  <2>5. Travels(v, k, x, y2, c)
    <3>1. ASSUME NEW j \in 1..(n + 1)
          PROVE  k[j] = Onto(k[j - 1], v[j], c)
      <4>1. CASE j <= n
        <5>0. j \in 1..n /\ j \in 0..n /\ j - 1 \in 0..n
          BY <4>1, <1>1
        <5>1. j \in 1..n /\ k[j] = g[j] /\ k[j - 1] = g[j - 1] /\ v[j] = w[j]
          BY <5>0, <1>1, <2>4
        <5>. QED
          BY <5>1, <2>2
      <4>2. CASE j = n + 1
        <5>0. j - 1 = n /\ n \in 0..n
          BY <4>2, <1>1
        <5>1. k[j] = y2 /\ k[j - 1] = g[n] /\ v[j] = e
          BY <4>2, <5>0, <1>1, <2>4
        <5>. QED
          BY <5>1, <1>3, <2>2, <2>3
      <4>. QED
        BY <4>1, <4>2, <1>1
    <3>2. k[0] = x
      BY <1>1, <2>2, <2>4
    <3>. QED
      BY <3>1, <3>2, <1>1, <2>4 DEF Travels
  <2>6. InPlace(v, s, h, k)
    <3>1. ASSUME NEW j \in 1..(n + 1), v[j].kind = "key" PROVE s[h[j]][3] = k[j]
      <4>1. j # n + 1
        BY <3>1, <1>1, <1>3
      <4>2. j \in 1..n /\ h[j] = f[j] /\ v[j] = w[j] /\ w[j].kind = "key" /\ k[j] = g[j]
        BY <4>1, <3>1, <1>1, <1>7, <2>4
      <4>. QED
        BY <4>2, <2>2
    <3>. QED
      BY <3>1, <1>1 DEF InPlace
  <2>. QED
    BY <2>5, <2>6 DEF Places, y2
<1>11. Order(v, s, h, a)
  BY <1>8, <1>9 DEF Order
<1>. QED
  BY <1>10, <1>11

\* Wherever o leads to y, e leads to z.
Leads(o, e, y, z, c) == \A p \in Int : Onto(p, o, c) = y => Onto(p, e, c) = z

LEMMA ContinuesReplaced ==
    ASSUME NEW w \in Seq(Event), NEW v \in Seq(Event), NEW e \in RawEvent \cup PointEvent, Replaced(w, v, e),
           NEW o, o = w[Len(w)], o.kind # "key",
           NEW s \in Seq(LogEntry), NEW a, NEW f, Order(w, s, f, a)
    PROVE  /\ Order(v, s, f, a)
           /\ \A g, x, y, c : \A z \in Int : Places(w, s, f, g, x, y, c) /\ Leads(o, e, y, z, c) =>
                 \E k : Places(v, s, f, k, x, z, c)
<1>. DEFINE n == Len(w)
<1>1. n \in Nat /\ n > 0 /\ DOMAIN w = 1..n /\ DOMAIN v = 1..n /\ Len(v) = n
      /\ v[n] = e /\ \A j \in 1..n : j # n => v[j] = w[j]
  BY DEF Replaced
<1>2. Len(s) \in Nat /\ w[n].kind # "key" /\ w[n] = o
  OBVIOUS
<1>3. e.kind # "key"
  BY DEF RawEvent, PointEvent
<1>5. /\ f \in [0..n -> 0..Len(s)] /\ f[0] = a /\ f[n] = Len(s)
      /\ \A j \in 1..n : f[j] = f[j - 1] + (IF w[j].kind = "key" THEN 1 ELSE 0)
      /\ \A j \in 1..n : w[j].kind = "key" => s[f[j]][1] = w[j].key /\ s[f[j]][2] = w[j].down
  BY <1>1 DEF Order, Counts, InTurn
<1>. HIDE DEF n
<1>6. \A j \in 1..n : v[j].kind = "key" <=> w[j].kind = "key"
  BY <1>1, <1>2, <1>3
<1>7. \A j \in 1..n : w[j].kind = "key" => v[j] = w[j]
  BY <1>1, <1>2
<1>8. Counts(v, f, a, Len(s)) /\ InTurn(v, s, f)
  <2>1. Counts(v, f, a, Len(s))
    BY <1>1, <1>5, <1>6 DEF Counts
  <2>2. InTurn(v, s, f)
    BY <1>1, <1>5, <1>6, <1>7 DEF InTurn
  <2>. QED
    BY <2>1, <2>2
<1>9. ASSUME NEW g, NEW x, NEW y, NEW c, NEW z \in Int, Places(w, s, f, g, x, y, c), Leads(o, e, y, z, c)
      PROVE  \E k : Places(v, s, f, k, x, z, c)
  <2>2. /\ g \in [0..n -> Int] /\ g[0] = x /\ g[n] = y
        /\ \A j \in 1..n : g[j] = Onto(g[j - 1], w[j], c)
        /\ \A j \in 1..n : w[j].kind = "key" => s[f[j]][3] = g[j]
    BY <1>1, <1>9 DEF Places, Travels, InPlace, n
  <2>. DEFINE k == [j \in 0..n |-> IF j < n THEN g[j] ELSE z]
  <2>4. k[n] = z /\ (\A j \in 0..n : j # n => k[j] = g[j]) /\ k \in [0..n -> Int]
    BY <1>1, <2>2
  <2>. HIDE DEF k
  <2>5. ASSUME NEW j \in 1..n PROVE k[j] = Onto(k[j - 1], v[j], c)
    <3>0. j \in 0..n /\ j - 1 \in 0..n /\ j - 1 # n
      BY <1>1
    <3>1. CASE j # n
      <4>1. k[j] = g[j] /\ k[j - 1] = g[j - 1] /\ v[j] = w[j]
        BY <3>0, <3>1, <1>1, <2>4
      <4>. QED
        BY <4>1, <2>2
    <3>2. CASE j = n
      <4>1. y = Onto(g[n - 1], o, c) /\ g[n - 1] \in Int
        BY <3>0, <3>2, <1>1, <1>2, <2>2
      <4>2. z = Onto(g[n - 1], e, c)
        BY <4>1, <1>9 DEF Leads
      <4>3. k[j] = z /\ k[j - 1] = g[n - 1] /\ v[j] = e
        BY <3>0, <3>2, <1>1, <2>4
      <4>. QED
        BY <4>2, <4>3
    <3>. QED
      BY <3>1, <3>2
  <2>7. Travels(v, k, x, z, c)
    <3>1. k[0] = x
      BY <1>1, <2>2, <2>4
    <3>. QED
      BY <3>1, <1>1, <2>4, <2>5 DEF Travels
  <2>8. InPlace(v, s, f, k)
    <3>1. \A j \in 1..n : w[j].kind = "key" => j # n
      BY <1>2
    <3>2. ASSUME NEW j \in 1..n, v[j].kind = "key" PROVE s[f[j]][3] = k[j]
      <4>1. w[j].kind = "key" /\ j # n
        BY <3>1, <3>2, <1>6
      <4>2. k[j] = g[j]
        BY <4>1, <2>4, <1>1
      <4>. QED
        BY <4>1, <4>2, <2>2
    <3>. QED
      BY <3>2, <1>1 DEF InPlace
  <2>. QED
    BY <2>7, <2>8 DEF Places
<1>10. Order(v, s, f, a)
  BY <1>8 DEF Order
<1>. QED
  BY <1>9, <1>10

LEMMA ContinuesPopped ==
    ASSUME NEW w \in Seq(Event), NEW v \in Seq(Event), NEW e, Popped(w, v, e),
           NEW s \in Seq(LogEntry), NEW a \in Nat, NEW f, Order(w, s, f, a)
    PROVE  /\ e.kind = "key" => a + 1 \in 1..Len(s) /\ s[a + 1][1] = e.key /\ s[a + 1][2] = e.down
           /\ \E h : /\ Order(v, s, h, a + Counted(e))
                     /\ \A g, x, y : \A c \in Int : Places(w, s, f, g, x, y, c) =>
                           /\ \E k : Places(v, s, h, k, Onto(x, e, c), y, c)
                           /\ e.kind = "key" => s[a + 1][3] = x
<1>. DEFINE n == Len(w)
            b == a + Counted(e)
<1>. USE DEF Counted
<1>0. w[1] = e
  BY DEF Popped
<1>1. n \in Nat /\ n > 0 /\ DOMAIN w = 1..n /\ DOMAIN v = 1..(n - 1) /\ Len(v) = n - 1
      /\ \A j \in 1..(n - 1) : v[j] = w[j + 1]
  <2>1. n \in Nat /\ DOMAIN w = 1..n /\ n > 0 /\ Len(v) = n - 1
    BY DEF Popped
  <2>2. DOMAIN v = 1..(n - 1)
    BY <2>1
  <2>. QED
    BY <2>1, <2>2 DEF Popped
<1>2. Len(s) \in Nat
  OBVIOUS
<1>4. /\ f \in [0..n -> 0..Len(s)] /\ f[0] = a /\ f[n] = Len(s)
      /\ \A j \in 1..n : f[j] = f[j - 1] + (IF w[j].kind = "key" THEN 1 ELSE 0)
      /\ \A j \in 1..n : w[j].kind = "key" => s[f[j]][1] = w[j].key /\ s[f[j]][2] = w[j].down
  BY <1>1 DEF Order, Counts, InTurn
<1>. HIDE DEF n
<1>5. f[1] = b /\ f[1] \in 0..Len(s) /\ 1 \in 1..n
  <2>1. 1 \in 1..n /\ 1 \in 0..n /\ 1 - 1 = 0
    BY <1>1
  <2>2. f[1] = f[0] + (IF e.kind = "key" THEN 1 ELSE 0)
    BY <2>1, <1>0, <1>4
  <2>. QED
    BY <2>1, <2>2, <1>4
<1>6. e.kind = "key" => a + 1 \in 1..Len(s) /\ s[a + 1][1] = e.key /\ s[a + 1][2] = e.down
  BY <1>0, <1>2, <1>4, <1>5
<1>. HIDE DEF b
<1>. DEFINE h == [j \in 0..(n - 1) |-> f[j + 1]]
<1>7. /\ h \in [0..(n - 1) -> 0..Len(s)] /\ h[0] = b /\ h[n - 1] = Len(s)
      /\ \A j \in 0..(n - 1) : h[j] = f[j + 1]
  BY <1>1, <1>4, <1>5
<1>. HIDE DEF h
<1>8. ASSUME NEW j \in 1..(n - 1)
      PROVE  /\ h[j] = h[j - 1] + (IF v[j].kind = "key" THEN 1 ELSE 0)
             /\ v[j].kind = "key" => s[h[j]][1] = v[j].key /\ s[h[j]][2] = v[j].down
  <2>1. j + 1 \in 1..n /\ (j + 1) - 1 = j /\ j - 1 \in 0..(n - 1) /\ (j - 1) + 1 = j /\ j \in 0..(n - 1)
    BY <1>1
  <2>2. h[j] = f[j + 1] /\ h[j - 1] = f[j] /\ v[j] = w[j + 1]
    BY <2>1, <1>1, <1>7
  <2>3. f[j + 1] = f[j] + (IF w[j + 1].kind = "key" THEN 1 ELSE 0)
    BY <2>1, <1>4
  <2>. QED
    BY <2>1, <2>2, <2>3, <1>4
<1>9. Counts(v, h, b, Len(s)) /\ InTurn(v, s, h)
  BY <1>1, <1>7, <1>8 DEF Counts, InTurn
<1>10. ASSUME NEW g, NEW x, NEW y, NEW c, c \in Int, Places(w, s, f, g, x, y, c)
       PROVE  /\ \E k : Places(v, s, h, k, Onto(x, e, c), y, c)
              /\ e.kind = "key" => s[a + 1][3] = x
  <2>. DEFINE x2 == Onto(x, e, c)
  <2>2. /\ g \in [0..n -> Int] /\ g[0] = x /\ g[n] = y
        /\ \A j \in 1..n : g[j] = Onto(g[j - 1], w[j], c)
        /\ \A j \in 1..n : w[j].kind = "key" => s[f[j]][3] = g[j]
    BY <1>1, <1>10 DEF Places, Travels, InPlace, n
  <2>3. g[1] = x2 /\ (e.kind = "key" => g[1] = x)
    <3>1. 1 \in 1..n /\ 1 - 1 = 0
      BY <1>1
    <3>2. g[1] = Onto(g[0], e, c)
      BY <3>1, <1>0, <2>2
    <3>. QED
      BY <3>2, <2>2 DEF Onto
  <2>. HIDE DEF x2
  <2>a. x2 \in Int
    BY <2>2, <2>3, <1>1, <1>5
  <2>4. e.kind = "key" => s[a + 1][3] = x
    BY <1>0, <1>5, <2>2, <2>3 DEF b
  <2>. DEFINE k == [j \in 0..(n - 1) |-> g[j + 1]]
  <2>5. k \in [0..(n - 1) -> Int] /\ k[0] = x2 /\ k[n - 1] = y /\ \A j \in 0..(n - 1) : k[j] = g[j + 1]
    BY <1>1, <2>2, <2>3
  <2>. HIDE DEF k
  <2>6. ASSUME NEW j \in 1..(n - 1)
        PROVE  /\ k[j] = Onto(k[j - 1], v[j], c)
               /\ v[j].kind = "key" => s[h[j]][3] = k[j]
    <3>1. j + 1 \in 1..n /\ (j + 1) - 1 = j /\ j - 1 \in 0..(n - 1) /\ (j - 1) + 1 = j /\ j \in 0..(n - 1)
      BY <1>1
    <3>2. h[j] = f[j + 1] /\ k[j] = g[j + 1] /\ k[j - 1] = g[j] /\ v[j] = w[j + 1]
      BY <3>1, <1>1, <1>7, <2>5
    <3>3. g[j + 1] = Onto(g[j], w[j + 1], c)
      BY <3>1, <2>2
    <3>. QED
      BY <3>1, <3>2, <3>3, <2>2
  <2>7. Travels(v, k, x2, y, c) /\ InPlace(v, s, h, k)
    BY <1>1, <2>5, <2>6 DEF Travels, InPlace
  <2>. QED
    BY <2>4, <2>7 DEF Places, x2
<1>11. Order(v, s, h, b)
  BY <1>9 DEF Order
<1>. DEFINE Carries(i) == \A g, x, y : \A c \in Int : Places(w, s, f, g, x, y, c) =>
                              /\ \E k : Places(v, s, i, k, Onto(x, e, c), y, c)
                              /\ e.kind = "key" => s[a + 1][3] = x
<1>12. Carries(h)
  BY <1>10
<1>. HIDE DEF Carries
<1>13. \E i : Order(v, s, i, b) /\ Carries(i)
  BY <1>11, <1>12
<1>. QED
  BY <1>6, <1>13 DEF b, Carries

(***************************************************************************)
(* enqueue: extended, appended, or appended after some motion was dropped. *)
(***************************************************************************)
Merged(w, v, e) ==
    \E r \in RawEvent \cup PointEvent :
        /\ Replaced(w, v, r) /\ w[Len(w)].kind # "key"
        /\ e \in RawEvent => r \in RawEvent /\ w[Len(w)] \in RawEvent /\ r.dx = w[Len(w)].dx + e.dx
        /\ e \in PointEvent => r = e

Squeezed(w, v, e) ==
    \E u \in Seq(Event), p \in Nat : Dropped(w, u, p) /\ w[p].kind # "key" /\ Appended(u, v, e)

LEMMA EventKinds ==
    /\ \A e \in Event : /\ e.kind \in {"key", "raw", "point"}
                        /\ e.kind = "key" <=> e \in KeyEvent
                        /\ e.kind = "raw" <=> e \in RawEvent
                        /\ e.kind = "point" <=> e \in PointEvent
    /\ \A r \in RawEvent : r.dx \in Int
  BY DEF Event, KeyEvent, RawEvent, PointEvent

LEMMA SmallestExists ==
    ASSUME NEW S, S \subseteq Nat, S # {}
    PROVE  \E x \in S : \A y \in S : x <= y
<1>. DEFINE R == OpToRel(<, Nat)
<1>1. \A x, y \in Nat : x < y => <<x, y>> \in R
  BY DEF OpToRel
<1>2. IsWellFoundedOn(R, Nat)
  BY NatLessThanWellFounded
<1>. HIDE DEF R
<1>3. PICK x \in S : \A y \in S : ~(<<y, x>> \in R)
  BY <1>2, WFMin
<1>4. ASSUME NEW y \in S PROVE x <= y
  <2>1. x \in Nat /\ y \in Nat
    OBVIOUS
  <2>2. ~(y < x)
    BY <1>1, <1>3, <2>1
  <2>. QED
    BY <2>1, <2>2
<1>. QED
  BY <1>4

LEMMA EnqueueIs ==
    ASSUME NEW b \in Seq(Event), NEW q \in Seq(Event), NEW e \in Event
    PROVE  /\ Enqueue(q, e) \in Seq(Event)
           /\ \/ Overflow(q, e) = {} /\ Appended(b \o q, b \o Enqueue(q, e), e)
              \/ e \notin KeyEvent /\ Merged(b \o q, b \o Enqueue(q, e), e)
              \/ Overflow(q, e) = {"motion"} /\ Squeezed(b \o q, b \o Enqueue(q, e), e)
              \/ Overflow(q, e) = {"transition"}
<1>. DEFINE w == b \o q
            v == b \o Enqueue(q, e)
            l == q[Len(q)]
<1>0. Len(q) \in Nat /\ DOMAIN q = 1..Len(q) /\ (\A i \in 1..Len(q) : q[i] \in Event) /\ Last(q) = l
  BY DEF Last
<1>1. q # <<>> => Len(q) > 0 /\ l \in Event /\ Len(q) \in DOMAIN q /\ w[Len(w)] = l
  <2> SUFFICES ASSUME q # <<>> PROVE Len(q) > 0 /\ l \in Event /\ Len(q) \in DOMAIN q /\ w[Len(w)] = l
    OBVIOUS
  <2>1. Len(q) > 0
    OBVIOUS
  <2>2. /\ Len(b) \in Nat /\ Len(w) = Len(b) + Len(q)
        /\ \A j \in 1..(Len(b) + Len(q)) : w[j] = IF j <= Len(b) THEN b[j] ELSE q[j - Len(b)]
    BY JoinIs
  <2>3. Len(b) + Len(q) \in 1..(Len(b) + Len(q)) /\ ~(Len(b) + Len(q) <= Len(b)) /\ (Len(b) + Len(q)) - Len(b) = Len(q)
    BY <1>0, <2>1, <2>2
  <2>4. w[Len(b) + Len(q)] = q[(Len(b) + Len(q)) - Len(b)]
    BY <2>2, <2>3
  <2>. QED
    BY <1>0, <2>1, <2>2, <2>3, <2>4
<1>2. CASE q # <<>> /\ e.kind = "raw" /\ l.kind = "raw"
  <2>1. e \in RawEvent /\ l \in RawEvent /\ e.dx \in Int /\ l.dx \in Int /\ e \notin PointEvent
    BY <1>1, <1>2, EventKinds
  <2>. DEFINE r == [l EXCEPT !.dx = @ + e.dx]
  <2>2. r \in RawEvent /\ r.dx = l.dx + e.dx /\ r \in Event
    BY <2>1 DEF RawEvent, Event
  <2>3. Enqueue(q, e) = [q EXCEPT ![Len(q)] = r]
    BY <1>0, <1>2 DEF Enqueue
  <2>. HIDE DEF r
  <2>4. Enqueue(q, e) \in Seq(Event) /\ Replaced(w, v, r)
    BY <1>2, <2>2, <2>3, JoinReplace
  <2>5. Merged(w, v, e)
    BY <1>1, <1>2, <2>1, <2>2, <2>4 DEF Merged
  <2>. QED
    BY <1>2, <2>4, <2>5 DEF KeyEvent
<1>3. CASE q # <<>> /\ e.kind = "point" /\ l.kind = "point"
  <2>1. e \in PointEvent /\ e \notin RawEvent
    BY <1>3, EventKinds
  <2>2. Enqueue(q, e) = [q EXCEPT ![Len(q)] = e]
    BY <1>0, <1>3 DEF Enqueue
  <2>3. Enqueue(q, e) \in Seq(Event) /\ Replaced(w, v, e)
    BY <1>3, <2>2, JoinReplace
  <2>4. Merged(w, v, e)
    BY <1>1, <1>3, <2>1, <2>3 DEF Merged
  <2>. QED
    BY <1>3, <2>3, <2>4 DEF KeyEvent
<1>4. CASE ~(q # <<>> /\ e.kind = "raw" /\ l.kind = "raw") /\ ~(q # <<>> /\ e.kind = "point" /\ l.kind = "point")
  <2>1. Enqueue(q, e) = Append(IF Len(q) >= MaxCaptureQueue THEN DropOne(q) ELSE q, e)
    BY <1>0, <1>4 DEF Enqueue
  <2>2. CASE ~(Len(q) >= MaxCaptureQueue)
    <3>1. Enqueue(q, e) = Append(q, e) /\ Overflow(q, e) = {}
      BY <1>0, <2>1, <2>2, InputBounds DEF Overflow
    <3>. QED
      BY <3>1, JoinAppend
  <2>3. CASE Len(q) >= MaxCaptureQueue
    <3>1. q # <<>> /\ Len(q) > 0
      BY <1>0, <2>3, InputBounds
    <3>2. Overflow(q, e) = IF \E i \in DOMAIN q : IsMotion(q[i]) THEN {"motion"} ELSE {"transition"}
      <4>1. ~(Len(q) < MaxCaptureQueue) /\ ~(e.kind # "key" /\ Last(q).kind = e.kind)
        BY <1>0, <1>1, <1>4, <2>3, <3>1, InputBounds, EventKinds
      <4>. QED
        BY <4>1 DEF Overflow
    <3>3. CASE \E i \in DOMAIN q : IsMotion(q[i])
      <4>. DEFINE First(i) == IsMotion(q[i]) /\ \A j \in 1..(i - 1) : ~IsMotion(q[j])
                  p == CHOOSE i \in DOMAIN q : First(i)
      <4>1. \E i \in DOMAIN q : First(i)
        <5>. DEFINE T == {i \in DOMAIN q : IsMotion(q[i])}
        <5>1. T \subseteq Nat /\ T # {}
          BY <1>0, <3>3
        <5>2. PICK m \in T : \A j \in T : m <= j
          BY <5>1, SmallestExists
        <5>3. \A j \in 1..(m - 1) : ~IsMotion(q[j])
          BY <1>0, <5>2
        <5>. QED
          BY <5>2, <5>3
      <4>2. p \in DOMAIN q /\ IsMotion(q[p])
        BY <4>1
      <4>3. DropOne(q) = RemoveAt(q, p)
        BY <3>3 DEF DropOne
      <4>. HIDE DEF p
      <4>. DEFINE u == RemoveAt(q, p)
      <4>4. /\ u \in Seq(Event) /\ Dropped(w, b \o u, Len(b) + p) /\ w[Len(b) + p] = q[p] /\ Len(b) + p \in Nat
            /\ b \o u \in Seq(Event)
        <5>0. PICK i \in DOMAIN q : i = p
          BY <4>2
        <5>1. u \in Seq(Event) /\ Dropped(w, b \o u, Len(b) + p) /\ w[Len(b) + p] = q[p]
          <6>1. RemoveAt(q, i) \in Seq(Event) /\ Dropped(b \o q, b \o RemoveAt(q, i), Len(b) + i)
            BY JoinDrop
          <6>2. /\ Len(b) \in Nat
                /\ \A j \in 1..(Len(b) + Len(q)) : w[j] = IF j <= Len(b) THEN b[j] ELSE q[j - Len(b)]
            BY JoinIs
          <6>3. Len(b) + i \in 1..(Len(b) + Len(q)) /\ ~(Len(b) + i <= Len(b)) /\ (Len(b) + i) - Len(b) = i
            BY <1>0, <6>2
          <6>. HIDE DEF w
          <6>4. w[Len(b) + i] = q[i]
            BY <6>2, <6>3
          <6>. QED
            BY <6>1, <6>4, <5>0 DEF w
        <5>2. b \o u \in Seq(Event) /\ Len(b) \in Nat
          BY <5>1
        <5>. QED
          BY <1>0, <4>2, <5>1, <5>2
      <4>5. Enqueue(q, e) = Append(u, e)
        BY <2>1, <2>3, <4>3
      <4>6. Append(u, e) \in Seq(Event) /\ Appended(b \o u, b \o Append(u, e), e)
        BY <4>4, JoinAppend
      <4>7. w[Len(b) + p].kind # "key"
        BY <4>2, <4>4 DEF IsMotion
      <4>. HIDE DEF u
      <4>8. Squeezed(w, v, e)
        BY <4>4, <4>5, <4>6, <4>7 DEF Squeezed
      <4>. QED
        BY <3>2, <3>3, <4>5, <4>6, <4>8
    <3>4. CASE ~\E i \in DOMAIN q : IsMotion(q[i])
      <4>1. Enqueue(q, e) = Append(Tail(q), e)
        BY <2>1, <2>3, <3>4 DEF DropOne
      <4>2. Enqueue(q, e) \in Seq(Event)
        BY <3>1, <4>1
      <4>. QED
        BY <3>2, <3>4, <4>2
    <3>. QED
      BY <3>3, <3>4
  <2>. QED
    BY <2>2, <2>3
<1>. QED
  BY <1>2, <1>3, <1>4

LEMMA EnqueueMotionFreed ==
    ASSUME NEW b \in Seq(Event), NEW q \in Seq(Event), NEW e \in RawEvent \cup PointEvent,
           Overflow(q, e) # {"transition"}, NEW ks, NEW on, FreedIn(b \o q, ks, on)
    PROVE  FreedIn(b \o Enqueue(q, e), ks, on)
<1>. DEFINE w == b \o q
            v == b \o Enqueue(q, e)
<1>1. e \in Event /\ e.kind # "key" /\ \A k : ~Presses(e, k)
  BY DEF Event, RawEvent, PointEvent, Presses
<1>2. Enqueue(q, e) \in Seq(Event)
  BY <1>1, EnqueueIs
<1>3. w \in Seq(Event) /\ v \in Seq(Event)
  BY <1>2
<1>4. Appended(w, v, e) \/ Merged(w, v, e) \/ Squeezed(w, v, e)
  BY <1>1, EnqueueIs
<1>. HIDE DEF w, v
<1>. SUFFICES FreedIn(v, ks, on)
  BY DEF v
<1>5. FreedIn(w, ks, on)
  BY DEF w
<1>. DEFINE Harmless == \A k \in ks : Releases(e, k) \/ (k \in ks /\ (k \in on => k \in on) /\ ~Presses(e, k))
<1>a. Harmless
  BY <1>1
<1>6. CASE Appended(w, v, e)
  BY <1>3, <1>5, <1>6, <1>a, FreedAppended
<1>7. CASE Merged(w, v, e)
  <2>1. PICK r \in RawEvent \cup PointEvent : Replaced(w, v, r) /\ w[Len(w)].kind # "key"
    BY <1>7 DEF Merged
  <2>2. r.kind # "key"
    BY DEF RawEvent, PointEvent
  <2>. QED
    BY <1>3, <1>5, <2>1, <2>2, FreedReplaced
<1>8. CASE Squeezed(w, v, e)
  <2>1. PICK u \in Seq(Event), p \in Nat : Dropped(w, u, p) /\ w[p].kind # "key" /\ Appended(u, v, e)
    BY <1>8 DEF Squeezed
  <2>2. FreedIn(u, ks, on)
    BY <1>3, <1>5, <2>1, FreedDropped
  <2>. QED
    BY <1>3, <1>a, <2>1, <2>2, FreedAppended
<1>. QED
  BY <1>4, <1>6, <1>7, <1>8

LEMMA EnqueueKeyFreed ==
    ASSUME NEW b \in Seq(Event), NEW q \in Seq(Event), NEW e \in KeyEvent,
           Overflow(q, e) # {"transition"}, NEW ks, NEW on, FreedIn(b \o q, ks, on), NEW ks2, NEW on2,
           \A k \in ks2 : Releases(e, k) \/ (k \in ks /\ (k \in on2 => k \in on) /\ ~Presses(e, k))
    PROVE  FreedIn(b \o Enqueue(q, e), ks2, on2)
<1>. DEFINE w == b \o q
            v == b \o Enqueue(q, e)
<1>1. e \in Event
  BY DEF Event
<1>2. Enqueue(q, e) \in Seq(Event)
  BY <1>1, EnqueueIs
<1>3. w \in Seq(Event) /\ v \in Seq(Event)
  BY <1>2
<1>4. Appended(w, v, e) \/ Squeezed(w, v, e)
  BY <1>1, EnqueueIs
<1>. HIDE DEF w, v
<1>. SUFFICES FreedIn(v, ks2, on2)
  BY DEF v
<1>5. FreedIn(w, ks, on)
  BY DEF w
<1>. DEFINE Fits == \A k \in ks2 : Releases(e, k) \/ (k \in ks /\ (k \in on2 => k \in on) /\ ~Presses(e, k))
<1>a. Fits
  OBVIOUS
<1>6. CASE Appended(w, v, e)
  BY <1>3, <1>5, <1>6, <1>a, FreedAppended
<1>7. CASE Squeezed(w, v, e)
  <2>1. PICK u \in Seq(Event), p \in Nat : Dropped(w, u, p) /\ w[p].kind # "key" /\ Appended(u, v, e)
    BY <1>7 DEF Squeezed
  <2>2. FreedIn(u, ks, on)
    BY <1>3, <1>5, <2>1, FreedDropped
  <2>. QED
    BY <1>3, <1>a, <2>1, <2>2, FreedAppended
<1>. QED
  BY <1>4, <1>6, <1>7

LEMMA EnqueueKeyContinues ==
    ASSUME NEW b \in Seq(Event), NEW q \in Seq(Event), NEW e \in KeyEvent,
           Overflow(q, e) # {"transition"}, NEW s \in Seq(LogEntry), NEW a, NEW x, NEW y \in Int, NEW c \in Int
    PROVE  /\ Loosely(b \o q, s, a) =>
                 Loosely(b \o Enqueue(q, e), Append(s, <<e.key, e.down, y>>), a)
           /\ Overflow(q, e) = {} /\ Exactly(b \o q, s, a, x, y, c) =>
                 Exactly(b \o Enqueue(q, e), Append(s, <<e.key, e.down, y>>), a, x, y, c)
<1>. DEFINE w == b \o q
            v == b \o Enqueue(q, e)
            t == Append(s, <<e.key, e.down, y>>)
<1>1. e \in Event
  BY DEF Event
<1>2. Enqueue(q, e) \in Seq(Event)
  BY <1>1, EnqueueIs
<1>3. w \in Seq(Event) /\ v \in Seq(Event)
  BY <1>2
<1>4. \/ Overflow(q, e) = {} /\ Appended(w, v, e)
      \/ Overflow(q, e) # {} /\ Squeezed(w, v, e)
  <2>1. {"motion"} # {}
    OBVIOUS
  <2>. QED
    BY <1>1, <2>1, EnqueueIs
<1>. HIDE DEF w, v, t
<1>5. ASSUME NEW u \in Seq(Event), NEW f, Appended(u, v, e), Order(u, s, f, a)
      PROVE  \E h : Order(v, t, h, a) /\ \A g : Places(u, s, f, g, x, y, c) => \E k : Places(v, t, h, k, x, y, c)
  BY <1>3, <1>5, ContinuesWithKey DEF t
<1>6. CASE Overflow(q, e) = {} /\ Appended(w, v, e)
  <2>1. Loosely(w, s, a) => Loosely(v, t, a)
    BY <1>3, <1>5, <1>6 DEF Loosely
  <2>2. Exactly(w, s, a, x, y, c) => Exactly(v, t, a, x, y, c)
    BY <1>3, <1>5, <1>6 DEF Exactly
  <2>. QED
    BY <2>1, <2>2 DEF w, v, t
<1>7. CASE Overflow(q, e) # {} /\ Squeezed(w, v, e)
  <2>1. PICK u \in Seq(Event), p \in Nat : Dropped(w, u, p) /\ w[p].kind # "key" /\ Appended(u, v, e)
    BY <1>7 DEF Squeezed
  <2>2. Len(s) \in Nat
    OBVIOUS
  <2>3. Loosely(w, s, a) => Loosely(u, s, a)
    BY <1>3, <2>1, <2>2, ContinuesDropped
  <2>4. Loosely(u, s, a) => Loosely(v, t, a)
    BY <1>5, <2>1 DEF Loosely
  <2>. QED
    BY <1>7, <2>3, <2>4 DEF w, v, t
<1>. QED
  BY <1>4, <1>6, <1>7

\* A merged event leads where the one that waited and the new one do.
LEMMA MergedOnto ==
    ASSUME NEW e \in RawEvent \cup PointEvent, NEW r \in RawEvent \cup PointEvent, NEW o,
           e \in RawEvent => r \in RawEvent /\ o \in RawEvent /\ r.dx = o.dx + e.dx,
           e \in PointEvent => r = e, NEW y \in Int, NEW c \in Int, NEW i \in Int, Onto(i, o, c) = y
    PROVE  Onto(i, r, c) = Onto(y, e, c)
<1>1. CASE e \in RawEvent
  <2>1. /\ r \in RawEvent /\ o \in RawEvent /\ r.dx = o.dx + e.dx
        /\ o.dx \in Int /\ e.dx \in Int /\ o.kind = "raw" /\ r.kind = "raw" /\ e.kind = "raw"
    BY <1>1 DEF RawEvent
  <2>2. PICK l \in Int, d \in Int : l = o.dx /\ d = e.dx
    BY <2>1
  <2>3. y = i + l /\ Onto(i, r, c) = i + (l + d) /\ Onto(y, e, c) = y + d
    BY <2>1, <2>2 DEF Onto
  <2>. QED
    BY <2>3
<1>2. CASE e \in PointEvent
  BY <1>2 DEF Onto, PointEvent
<1>. QED
  BY <1>1, <1>2

LEMMA EnqueueMotionContinues ==
    ASSUME NEW b \in Seq(Event), NEW q \in Seq(Event), NEW e \in RawEvent \cup PointEvent,
           Overflow(q, e) # {"transition"}, NEW s \in Seq(LogEntry), NEW a, NEW x, NEW y \in Int, NEW c \in Int
    PROVE  /\ Loosely(b \o q, s, a) => Loosely(b \o Enqueue(q, e), s, a)
           /\ Overflow(q, e) = {} /\ Exactly(b \o q, s, a, x, y, c) =>
                 Exactly(b \o Enqueue(q, e), s, a, x, Onto(y, e, c), c)
<1>. DEFINE w == b \o q
            v == b \o Enqueue(q, e)
<1>1. e \in Event
  BY DEF Event
<1>2. Enqueue(q, e) \in Seq(Event)
  BY <1>1, EnqueueIs
<1>3. w \in Seq(Event) /\ v \in Seq(Event)
  BY <1>2
<1>4. Appended(w, v, e) \/ Merged(w, v, e) \/ (Overflow(q, e) # {} /\ Squeezed(w, v, e))
  <2>1. {"motion"} # {}
    OBVIOUS
  <2>. QED
    BY <1>1, <2>1, EnqueueIs
<1>. HIDE DEF w, v
<1>5. ASSUME NEW u \in Seq(Event), NEW f, Appended(u, v, e), Order(u, s, f, a)
      PROVE  \E h : /\ Order(v, s, h, a)
                    /\ \A g : Places(u, s, f, g, x, y, c) => \E k : Places(v, s, h, k, x, Onto(y, e, c), c)
  BY <1>3, <1>5, ContinuesWithMotion
<1>6. CASE Appended(w, v, e)
  <2>1. Loosely(w, s, a) => Loosely(v, s, a)
    BY <1>3, <1>5, <1>6 DEF Loosely
  <2>2. Exactly(w, s, a, x, y, c) => Exactly(v, s, a, x, Onto(y, e, c), c)
    BY <1>3, <1>5, <1>6 DEF Exactly
  <2>. QED
    BY <2>1, <2>2 DEF w, v
<1>7. CASE Merged(w, v, e)
  <2>1. PICK r \in RawEvent \cup PointEvent :
               /\ Replaced(w, v, r) /\ w[Len(w)].kind # "key"
               /\ e \in RawEvent => r \in RawEvent /\ w[Len(w)] \in RawEvent /\ r.dx = w[Len(w)].dx + e.dx
               /\ e \in PointEvent => r = e
    BY <1>7 DEF Merged
  <2>2. PICK o : o = w[Len(w)]
    OBVIOUS
  <2>3. PICK z \in Int : z = Onto(y, e, c)
    BY <1>1, OntoIs
  <2>4. Leads(o, r, y, z, c)
    BY <2>1, <2>2, <2>3, MergedOnto DEF Leads
  <2>5. ASSUME NEW f, Order(w, s, f, a)
        PROVE  Order(v, s, f, a) /\ \A g : Places(w, s, f, g, x, y, c) => \E k : Places(v, s, f, k, x, z, c)
    <3>1. o.kind # "key" /\ Replaced(w, v, r)
      BY <2>1, <2>2
    <3>2. /\ Order(v, s, f, a)
          /\ \A g : Places(w, s, f, g, x, y, c) /\ Leads(o, r, y, z, c) => \E k : Places(v, s, f, k, x, z, c)
      BY <1>3, <2>2, <2>5, <3>1, ContinuesReplaced
    <3>. QED
      BY <2>4, <3>2
  <2>6. Loosely(w, s, a) => Loosely(v, s, a)
    BY <2>5 DEF Loosely
  <2>7. Exactly(w, s, a, x, y, c) => Exactly(v, s, a, x, z, c)
    BY <2>5 DEF Exactly
  <2>. QED
    BY <2>3, <2>6, <2>7 DEF w, v
<1>8. CASE Overflow(q, e) # {} /\ Squeezed(w, v, e)
  <2>1. PICK u \in Seq(Event), p \in Nat : Dropped(w, u, p) /\ w[p].kind # "key" /\ Appended(u, v, e)
    BY <1>8 DEF Squeezed
  <2>2. Len(s) \in Nat
    OBVIOUS
  <2>3. Loosely(w, s, a) => Loosely(u, s, a)
    BY <1>3, <2>1, <2>2, ContinuesDropped
  <2>4. Loosely(u, s, a) => Loosely(v, s, a)
    BY <1>5, <2>1 DEF Loosely
  <2>. QED
    BY <1>8, <2>3, <2>4 DEF w, v
<1>. QED
  BY <1>4, <1>6, <1>7, <1>8

\* Which kinds wait after an enqueue that did not overflow.
LEMMA EnqueueKinds ==
    ASSUME NEW b \in Seq(Event), NEW q \in Seq(Event), NEW e \in Event, Overflow(q, e) = {},
           NEW ks, NEW ks2, KindsIn(b \o q, ks), ks \subseteq ks2, e.kind \in ks2 \cup {"key"}
    PROVE  KindsIn(b \o Enqueue(q, e), ks2)
<1>. DEFINE w == b \o q
            v == b \o Enqueue(q, e)
<1>1. Enqueue(q, e) \in Seq(Event)
  BY EnqueueIs
<1>2. w \in Seq(Event) /\ v \in Seq(Event)
  BY <1>1
<1>3. Appended(w, v, e) \/ (e \notin KeyEvent /\ Merged(w, v, e))
  BY EnqueueIs
<1>. HIDE DEF w, v
<1>4. DOMAIN w = 1..Len(w) /\ DOMAIN v = 1..Len(v) /\ Len(w) \in Nat
  BY <1>2
<1>5. \A j \in 1..Len(w) : w[j].kind \in ks2 \cup {"key"}
  BY <1>4 DEF KindsIn, w
<1>6. CASE Appended(w, v, e)
  <2>1. Len(v) = Len(w) + 1 /\ v[Len(v)] = e /\ \A j \in 1..Len(w) : v[j] = w[j]
    BY <1>4, <1>6 DEF Appended
  <2>2. \A j \in 1..Len(v) : j = Len(v) \/ j \in 1..Len(w)
    BY <1>4, <2>1
  <2>. QED
    BY <1>4, <1>5, <2>1, <2>2 DEF KindsIn, v
<1>7. CASE e \notin KeyEvent /\ Merged(w, v, e)
  <2>1. PICK r \in RawEvent \cup PointEvent : Replaced(w, v, r)
               /\ (e \in RawEvent => r \in RawEvent) /\ (e \in PointEvent => r = e)
    BY <1>7 DEF Merged
  <2>2. r.kind = e.kind
    BY <1>7, <2>1 DEF Event, RawEvent, PointEvent
  <2>3. Len(v) = Len(w) /\ v[Len(v)] = r /\ \A j \in 1..Len(w) : j # Len(w) => v[j] = w[j]
    BY <1>4, <2>1 DEF Replaced
  <2>. QED
    BY <1>4, <1>5, <2>2, <2>3 DEF KindsIn, v
<1>. QED
  BY <1>3, <1>6, <1>7

LEMMA PoppedKinds ==
    ASSUME NEW w \in Seq(Event), NEW v \in Seq(Event), NEW e, Popped(w, v, e), NEW ks, KindsIn(w, ks)
    PROVE  KindsIn(v, ks) /\ e.kind \in ks \cup {"key"}
<1>1. /\ Len(w) \in Nat /\ Len(w) > 0 /\ DOMAIN w = 1..Len(w) /\ DOMAIN v = 1..(Len(w) - 1) /\ w[1] = e
      /\ \A j \in 1..(Len(w) - 1) : v[j] = w[j + 1]
  BY DEF Popped
<1>2. 1 \in 1..Len(w) /\ \A j \in 1..(Len(w) - 1) : j + 1 \in 1..Len(w)
  BY <1>1
<1>. QED
  BY <1>1, <1>2 DEF KindsIn

\* Only a point asks where the local cursor is.
LEMMA BaseIsMoot ==
    ASSUME NEW w \in Seq(Event), NEW s, NEW a, NEW x, NEW y, NEW c, Exactly(w, s, a, x, y, c),
           NEW ks, KindsIn(w, ks), "point" \notin ks, NEW c2
    PROVE  Exactly(w, s, a, x, y, c2)
<1>1. PICK f, g : Order(w, s, f, a) /\ Places(w, s, f, g, x, y, c)
  BY DEF Exactly
<1>2. \A j \in DOMAIN w : w[j].kind \in {"key", "raw"}
  BY EventKinds DEF KindsIn
<1>3. \A j \in DOMAIN w : Onto(g[j - 1], w[j], c) = Onto(g[j - 1], w[j], c2)
  BY <1>2 DEF Onto
<1>4. Places(w, s, f, g, x, y, c2)
  BY <1>1, <1>3 DEF Places, Travels
<1>. QED
  BY <1>1, <1>4 DEF Exactly

LEMMA PoppedLoosely ==
    ASSUME NEW w \in Seq(Event), NEW v \in Seq(Event), NEW e, Popped(w, v, e),
           NEW s \in Seq(LogEntry), NEW a \in Nat, Loosely(w, s, a)
    PROVE  /\ Loosely(v, s, a + Counted(e))
           /\ e.kind = "key" => a + 1 \in 1..Len(s) /\ s[a + 1][1] = e.key /\ s[a + 1][2] = e.down
<1>1. PICK f : Order(w, s, f, a)
  BY DEF Loosely
<1>2. /\ e.kind = "key" => a + 1 \in 1..Len(s) /\ s[a + 1][1] = e.key /\ s[a + 1][2] = e.down
      /\ \E h : Order(v, s, h, a + Counted(e))
  BY <1>1, ContinuesPopped
<1>. QED
  BY <1>2 DEF Loosely

LEMMA PoppedExactly ==
    ASSUME NEW w \in Seq(Event), NEW v \in Seq(Event), NEW e, Popped(w, v, e),
           NEW s \in Seq(LogEntry), NEW a \in Nat
    PROVE  \A x, y : \A c \in Int :
               Exactly(w, s, a, x, y, c) =>
                   /\ Exactly(v, s, a + Counted(e), Onto(x, e, c), y, c)
                   /\ e.kind = "key" => /\ a + 1 \in 1..Len(s)
                                        /\ s[a + 1][1] = e.key /\ s[a + 1][2] = e.down /\ s[a + 1][3] = x
<1>. TAKE x, y
<1>. TAKE c \in Int
<1>. HAVE Exactly(w, s, a, x, y, c)
<1>1. PICK f, g : Order(w, s, f, a) /\ Places(w, s, f, g, x, y, c)
  BY DEF Exactly
<1>2. /\ e.kind = "key" => a + 1 \in 1..Len(s) /\ s[a + 1][1] = e.key /\ s[a + 1][2] = e.down
      /\ \E h : /\ Order(v, s, h, a + Counted(e))
                /\ \E k : Places(v, s, h, k, Onto(x, e, c), y, c)
                /\ e.kind = "key" => s[a + 1][3] = x
  BY <1>1, ContinuesPopped
<1>. QED
  BY <1>2 DEF Exactly

(***************************************************************************)
(* The actions: types and queues.                                          *)
(***************************************************************************)
LEMMA KeySets ==
    /\ Ctrls = {"leftCtrl", "rightCtrl"} /\ Modifiers = Ctrls
    /\ Ctrls \subseteq Keys /\ Buttons \cap Ctrls = {} /\ Buttons \subseteq Keys
    /\ \A h, k, d : After(h, k, d) = IF d THEN h \cup {k} ELSE h \ {k}
  BY DEF Ctrls, Modifiers, Keys, Buttons, After

LEMMA KeyIs ==
    ASSUME NEW k \in Keys, NEW d \in BOOLEAN, NEW m \in SUBSET Ctrls
    PROVE  /\ Key(k, d, m) \in KeyEvent
           /\ Key(k, d, m).kind = "key" /\ Key(k, d, m).key = k
           /\ Key(k, d, m).down = d /\ Key(k, d, m).mods = m
  BY DEF Key, KeyEvent

\* The target holds what it held and what a key presses, but not what it releases.
LEMMA InjectIs ==
    ASSUME target \in Platform, NEW e \in KeyEvent, NEW h, h \subseteq Keys
    PROVE  /\ InjectKey(h, e) \subseteq Keys
           /\ \A k \in InjectKey(h, e) : Presses(e, k) \/ (k \in h /\ ~Releases(e, k))
<1>1. e.kind = "key" /\ e.key \in Keys /\ e.down \in BOOLEAN /\ e.mods \subseteq Keys
  BY KeySets DEF KeyEvent
<1>2. InjectKey(h, e) \in {MacKeyPress(h, e), WinKey(h, e), LinuxKey(h, e), MacButton(h, e),
                           WinButton(h, e), LinuxButton(h, e)}
  BY DEF InjectKey, InjectButton, Platform
<1>. QED
  BY <1>1, <1>2 DEF MacKeyPress, WinKey, LinuxKey, MacButton, WinButton, LinuxButton, After, Presses, Releases

LEMMA DeliverKey ==
    ASSUME PathTyped, NEW e \in KeyEvent, Deliver(e)
    PROVE  /\ held' = InjectKey(held, e) /\ held' \subseteq Keys /\ moved' = moved
           /\ got' = (IF source = "windows" THEN Append(got, <<e.key, e.down, Place>>) ELSE got)
           /\ got' \in Seq(LogEntry)
<1>1. e.kind = "key" /\ e.key \in Keys /\ e.down \in BOOLEAN
  BY DEF KeyEvent
<1>2. /\ held' = InjectKey(held, e) /\ moved' = moved
      /\ got' = (IF source = "windows" THEN Append(got, <<e.key, e.down, Place>>) ELSE got)
  BY <1>1 DEF Deliver, Logged, Place
<1>3. held' \subseteq Keys
  BY <1>2, InjectIs DEF PathTyped
<1>4. <<e.key, e.down, Place>> \in LogEntry /\ got \in Seq(LogEntry)
  BY <1>1 DEF PathTyped, LogEntry, Place
<1>5. got' \in Seq(LogEntry)
  BY <1>2, <1>4
<1>. QED
  BY <1>2, <1>3, <1>5

LEMMA MacEventIs ==
    ASSUME PathTyped, NEW k \in Keys, NEW down \in BOOLEAN
    PROVE  /\ MacEvent(k, down) \in KeyEvent /\ MacEvent(k, down).key = k
           /\ k \in Ctrls => /\ MacEvent(k, down).down = (k \notin mods)
                             /\ MacEvent(k, down).mods = MacMods(k)
                             /\ MacMods(k) = IF k \in mods THEN mods \ {k} ELSE mods \cup {k}
           /\ k \notin Ctrls => /\ MacEvent(k, down).down = down /\ MacEvent(k, down).mods = {}
                                /\ MacMods(k) = mods
           /\ MacMods(k) \subseteq Ctrls
<1>1. mods \subseteq Ctrls
  BY DEF PathTyped
<1>2. CASE k \in Ctrls
  <2>1. MacToggle(mods, k) = (IF k \in mods THEN mods \ {k} ELSE mods \cup {k})
    BY DEF MacToggle
  <2>2. MacToggle(mods, k) \in SUBSET Ctrls /\ (k \in MacToggle(mods, k) <=> k \notin mods)
    BY <1>1, <1>2, <2>1
  <2>3. /\ MacEvent(k, down) = Key(k, k \in MacToggle(mods, k), MacToggle(mods, k))
        /\ MacMods(k) = MacToggle(mods, k)
    BY <1>2, KeySets DEF MacEvent, MacMods
  <2>4. PICK m \in SUBSET Ctrls : m = MacToggle(mods, k)
    BY <2>2
  <2>5. PICK d \in BOOLEAN : d = (k \notin mods)
    OBVIOUS
  <2>6. MacEvent(k, down) = Key(k, d, m) /\ MacMods(k) = m
    BY <2>2, <2>3, <2>4, <2>5
  <2>7. /\ Key(k, d, m) \in KeyEvent /\ Key(k, d, m).key = k
        /\ Key(k, d, m).down = d /\ Key(k, d, m).mods = m
    BY KeyIs
  <2>. QED
    BY <1>2, <2>1, <2>4, <2>5, <2>6, <2>7
<1>3. CASE k \notin Ctrls
  <2>1. MacEvent(k, down) = Key(k, down, {}) /\ MacMods(k) = mods
    BY <1>3, KeySets DEF MacEvent, MacMods
  <2>. QED
    BY <1>1, <1>3, <2>1, KeyIs
<1>. QED
  BY <1>2, <1>3

LEMMA WinEventIs ==
    ASSUME PathTyped, NEW k \in Keys, NEW down \in BOOLEAN
    PROVE  /\ WinEvent(k, down) \in KeyEvent
           /\ WinEvent(k, down).key = k /\ WinEvent(k, down).down = down
           /\ WinMods(k, down) = (IF k \in Ctrls THEN After(mods, k, down) ELSE mods)
           /\ WinMods(k, down) \subseteq Ctrls /\ WinEvent(k, down).mods \subseteq WinMods(k, down)
           /\ k \in Ctrls => WinEvent(k, down).mods = WinMods(k, down)
<1>1. WinMods(k, down) = (IF k \in Ctrls THEN After(mods, k, down) ELSE mods)
  BY KeySets DEF WinMods
<1>2. WinMods(k, down) \in SUBSET Ctrls
  BY <1>1, KeySets DEF PathTyped
<1>3. CASE k \in Buttons
  <2>1. WinEvent(k, down) = Key(k, down, {}) /\ k \notin Ctrls
    BY <1>3, KeySets DEF WinEvent, WinMouseEvent
  <2>. QED
    BY <1>1, <1>2, <2>1, KeyIs
<1>4. CASE k \notin Buttons
  <2>1. WinEvent(k, down) = Key(k, down, WinMods(k, down))
    BY <1>4 DEF WinEvent, WinKeyEvent
  <2>. QED
    BY <1>1, <1>2, <2>1, KeyIs
<1>. QED
  BY <1>3, <1>4

LEMMA MotionIs ==
    ASSUME NEW x \in Int
    PROVE  /\ x \in Nat => [kind |-> "point", x |-> x] \in PointEvent
           /\ [kind |-> "raw", dx |-> x] \in RawEvent /\ [kind |-> "raw", dx |-> x].dx = x
  BY DEF PointEvent, RawEvent

\* What a press does to every platform alike.
LEMMA PressIs ==
    ASSUME PathTyped, QueuesAre, NEW k \in Keys, Press(k), NEW down, down = (k \notin phys)
    PROVE  /\ down \in BOOLEAN /\ phys' = After(phys, k, down) /\ phys' \subseteq Keys
           /\ seen' = (IF tapped THEN After(seen, k, down) ELSE seen) /\ seen' \subseteq Keys
           /\ settled' = (settled /\ ChordKnown /\ Ctrls \subseteq seen')
           /\ UNCHANGED <<source, target, tapped, batch, grabbed, frame, rawActive, rawAbsolute,
                          lastPoint, localX, motions, mixed, made, skipped>>
           /\ \/ /\ ~tapped /\ missed' = missed \cup {k} /\ sent' = sent
                 /\ UNCHANGED <<mods, ctrls, reclaim, queue, held, got, moved, passed, full>>
              \/ tapped /\ source = "macos" /\ MacPress(k, down) /\ sent' = sent
              \/ tapped /\ source = "windows" /\ WinPress(k, down) /\ sent' = Append(sent, <<k, down, made>>)
              \/ tapped /\ source = "linux" /\ LinuxPress(k, down) /\ sent' = sent
<1>1. /\ phys' = After(phys, k, down)
      /\ seen' = (IF tapped THEN After(seen, k, down) ELSE seen)
      /\ settled' = (settled /\ ChordKnown /\ Ctrls \subseteq seen')
      /\ sent' = (IF tapped THEN Logged(sent, <<k, down, made>>) ELSE sent)
      /\ \/ /\ ~tapped /\ missed' = missed \cup {k}
            /\ UNCHANGED <<mods, ctrls, reclaim, queue, held, got, moved, passed, full>>
         \/ tapped /\ source = "macos" /\ MacPress(k, down)
         \/ tapped /\ source = "windows" /\ WinPress(k, down)
         \/ tapped /\ source = "linux" /\ LinuxPress(k, down)
      /\ UNCHANGED <<source, target, tapped, batch, grabbed, frame, rawActive, rawAbsolute,
                     lastPoint, localX, motions, mixed, made, skipped>>
  BY DEF Press, motionVars
<1>2. phys' \subseteq Keys /\ seen' \subseteq Keys
  BY <1>1, KeySets DEF PathTyped
<1>. QED
  BY <1>1, <1>2 DEF Logged

LEMMA PressTyped ==
    ASSUME PathTyped, QueuesAre, NEW k \in Keys, Press(k)
    PROVE  PathTyped' /\ QueuesAre'
<1>. DEFINE down == k \notin phys
<1>1. PICK d \in BOOLEAN : d = down
  OBVIOUS
<1>. HIDE DEF down
<1>2. /\ phys' \subseteq Keys /\ seen' \subseteq Keys
      /\ UNCHANGED <<source, target, tapped, batch, grabbed, frame, rawActive, rawAbsolute, lastPoint,
                     localX, mixed, made, skipped>>
  BY <1>1, PressIs DEF down
<1>3. CASE ~tapped /\ missed' = missed \cup {k} /\ sent' = sent
           /\ UNCHANGED <<mods, ctrls, reclaim, queue, held, got, moved, passed, full>>
  BY <1>2, <1>3 DEF PathTyped, QueuesAre
<1>4. CASE source = "macos" /\ MacPress(k, d) /\ sent' = sent
  <2>. DEFINE e == MacEvent(k, d)
  <2>1. e \in KeyEvent /\ e.key = k /\ MacMods(k) \subseteq Ctrls
    BY MacEventIs
  <2>2. /\ mods' = MacMods(k) /\ Deliver(e) /\ UNCHANGED <<queue, full>>
        /\ ctrls' = (IF e.key \in Ctrls THEN After(ctrls, e.key, e.down) ELSE ctrls)
        /\ missed' \subseteq missed
    BY <1>4 DEF MacPress, MacObserve
  <2>. HIDE DEF e
  <2>3. held' \subseteq Keys /\ moved' = moved /\ got' \in Seq(LogEntry)
    BY <2>1, <2>2, DeliverKey
  <2>4. ctrls' \subseteq Ctrls
    BY <2>2, KeySets DEF PathTyped
  <2>5. PathTyped'
    BY <1>2, <1>4, <2>1, <2>2, <2>3, <2>4 DEF PathTyped
  <2>6. QueuesAre'
    BY <1>2, <1>4, <2>2 DEF QueuesAre
  <2>. QED
    BY <2>5, <2>6
<1>5. CASE source = "windows" /\ WinPress(k, d) /\ sent' = Append(sent, <<k, d, made>>)
  <2>. DEFINE e == WinEvent(k, d)
  <2>1. e \in KeyEvent /\ WinMods(k, d) \subseteq Ctrls
    BY WinEventIs
  <2>2. /\ mods' = WinMods(k, d) /\ queue' = Enqueue(queue, e) /\ missed' = missed \ {k}
        /\ UNCHANGED <<ctrls, held, got, moved>>
    BY <1>5 DEF WinPress
  <2>. HIDE DEF e
  <2>3. queue' \in Seq(Event)
    <3>1. e \in Event /\ queue \in Seq(Event)
      BY <2>1 DEF Event, PathTyped
    <3>. QED
      BY <2>2, <3>1, EnqueueIs
  <2>4. sent' \in Seq(LogEntry)
    <3>1. <<k, d, made>> \in LogEntry /\ sent \in Seq(LogEntry)
      BY DEF PathTyped, LogEntry
    <3>. QED
      BY <1>5, <3>1
  <2>5. PathTyped'
    BY <1>2, <2>1, <2>2, <2>3, <2>4 DEF PathTyped
  <2>6. QueuesAre'
    BY <1>2, <1>5 DEF QueuesAre
  <2>. QED
    BY <2>5, <2>6
<1>6. CASE source = "linux" /\ LinuxPress(k, d) /\ sent' = sent
  <2>. DEFINE e == Key(k, d, {})
  <2>1. e \in KeyEvent /\ e.mods = {} /\ e \in Event
    BY KeyIs DEF Event
  <2>2. /\ queue' = Append(queue, e) /\ missed' = missed \ {k}
        /\ UNCHANGED <<mods, ctrls, reclaim, held, got, moved, full>>
    BY <1>6 DEF LinuxPress
  <2>. HIDE DEF e
  <2>3. /\ queue' \in Seq(Event) /\ DOMAIN queue' = 1..(Len(queue) + 1) /\ DOMAIN queue = 1..Len(queue)
        /\ Len(queue) \in Nat
        /\ queue'[Len(queue) + 1] = e /\ \A i \in 1..Len(queue) : queue'[i] = queue[i]
    BY <2>1, <2>2 DEF PathTyped
  <2>4. PathTyped'
    BY <1>2, <1>6, <2>2, <2>3 DEF PathTyped
  <2>5. \A i \in DOMAIN queue' : queue'[i] \in KeyEvent /\ queue'[i].mods = {}
    <3>1. \A i \in 1..Len(queue) : queue[i] \in KeyEvent /\ queue[i].mods = {}
      BY <1>6, <2>3 DEF QueuesAre
    <3>2. ASSUME NEW i \in DOMAIN queue' PROVE queue'[i] \in KeyEvent /\ queue'[i].mods = {}
      <4>1. i \in 1..Len(queue) \/ i = Len(queue) + 1
        BY <2>3
      <4>. QED
        BY <4>1, <3>1, <2>1, <2>3
    <3>. QED
      BY <3>2
  <2>6. QueuesAre'
    BY <1>2, <1>6, <2>2, <2>5 DEF QueuesAre
  <2>. QED
    BY <2>4, <2>6
<1>. QED
  BY <1>1, <1>3, <1>4, <1>5, <1>6, PressIs DEF down

LEMMA DeliverMotion ==
    ASSUME NEW e \in RawEvent, Deliver(e)
    PROVE  moved' = moved + e.dx /\ held' = held /\ got' = got
  BY DEF Deliver, RawEvent

LEMMA HookIs ==
    ASSUME PathTyped
    PROVE  /\ Point \in PointEvent /\ Point.kind = "point" /\ Point.x = localX + 1
           /\ AfterHook \in Seq(Event)
           /\ AfterHook = (IF Hooked THEN Enqueue(queue, Point) ELSE queue)
           /\ HookOverflow = (IF Hooked THEN Overflow(queue, Point) ELSE {})
<1>1. PICK x \in Int : x = localX + 1 /\ x \in Nat
  BY DEF PathTyped
<1>2. Point = [kind |-> "point", x |-> x]
  BY <1>1 DEF Point
<1>3. Point \in PointEvent /\ Point.kind = "point" /\ Point.x = localX + 1
  BY <1>1, <1>2, MotionIs
<1>4. AfterHook = (IF Hooked THEN Enqueue(queue, Point) ELSE queue)
      /\ HookOverflow = (IF Hooked THEN Overflow(queue, Point) ELSE {})
  BY DEF AfterHook, HookOverflow
<1>5. AfterHook \in Seq(Event)
  <2>1. queue \in Seq(Event) /\ Point \in Event
    BY <1>3 DEF PathTyped, Event
  <2>. QED
    BY <1>4, <2>1, EnqueueIs
<1>. QED
  BY <1>3, <1>4, <1>5

WinMoveDoes(raw) ==
    /\ raw \in RawEvent /\ raw.kind = "raw" /\ raw.dx = 1 /\ tapped /\ source = "windows"
    /\ queue' = (IF rawActive THEN Enqueue(AfterHook, raw) ELSE AfterHook)
    /\ full' = full \cup HookOverflow \cup (IF rawActive THEN Overflow(AfterHook, raw) ELSE {})
    /\ motions' = motions \cup ((IF rawActive THEN {"raw"} ELSE {}) \cup (IF Hooked THEN {"point"} ELSE {}))
    /\ mixed' = (mixed \/ {"point", "raw"} \subseteq motions')
    /\ rawAbsolute' = FALSE /\ localX' = localX + 1 /\ made' = made + 1
    /\ UNCHANGED <<source, target, phys, tapped, mods, ctrls, reclaim, batch, grabbed, frame, rawActive,
                   lastPoint, held, sent, got, moved, skipped, seen, settled, passed, missed>>

LEMMA WinMoveIs ==
    ASSUME PathTyped, WinMove
    PROVE  \E raw : WinMoveDoes(raw)
<1>. DEFINE raw == [kind |-> "raw", dx |-> 1]
<1>1. raw \in RawEvent /\ raw.kind = "raw" /\ raw.dx = 1
  BY DEF RawEvent
<1>2. /\ queue' = (IF rawActive THEN Enqueue(AfterHook, raw) ELSE AfterHook)
      /\ full' = full \cup HookOverflow \cup (IF rawActive THEN Overflow(AfterHook, raw) ELSE {})
  BY DEF WinMove
<1>. HIDE DEF raw
<1>3. WinMoveDoes(raw)
  BY <1>1, <1>2 DEF WinMove, QueuesMotion, WinMoveDoes
<1>. QED
  BY <1>3

LEMMA WinMoveTyped ==
    ASSUME PathTyped, QueuesAre, WinMove
    PROVE  PathTyped' /\ QueuesAre'
<1>1. PICK raw : WinMoveDoes(raw)
  BY WinMoveIs
<1>2. queue' \in Seq(Event)
  <2>1. raw \in Event
    BY <1>1 DEF WinMoveDoes, Event
  <2>2. AfterHook \in Seq(Event) /\ queue' = (IF rawActive THEN Enqueue(AfterHook, raw) ELSE AfterHook)
    BY <1>1, HookIs DEF WinMoveDoes
  <2>. QED
    BY <2>1, <2>2, EnqueueIs
<1>3. localX' \in Nat /\ mixed' \in BOOLEAN /\ made' \in Int
  BY <1>1 DEF WinMoveDoes, PathTyped
<1>4. PathTyped'
  BY <1>1, <1>2, <1>3 DEF WinMoveDoes, PathTyped
<1>5. QueuesAre'
  BY <1>1 DEF WinMoveDoes, QueuesAre
<1>. QED
  BY <1>4, <1>5

LEMMA WinTabletTyped ==
    ASSUME PathTyped, QueuesAre, WinTablet
    PROVE  PathTyped' /\ QueuesAre'
<1>1. queue' \in Seq(Event)
  BY HookIs DEF WinTablet
<1>2. localX' \in Nat /\ mixed' \in BOOLEAN /\ made' \in Int
  BY DEF WinTablet, QueuesMotion, PathTyped
<1>3. PathTyped'
  BY <1>1, <1>2 DEF WinTablet, PathTyped
<1>4. QueuesAre'
  BY DEF WinTablet, QueuesAre
<1>. QED
  BY <1>3, <1>4

\* The kinds of event: a key leaves the pointer; motion takes it where Onto says.
WinProcessDoes(e) ==
    /\ source = "windows" /\ batch # <<>> /\ batch' = Tail(batch) /\ e \in Event
    /\ UNCHANGED <<source, target, phys, tapped, mods, ctrls, reclaim, queue, grabbed, frame, rawActive,
                   rawAbsolute, localX, motions, mixed, sent, made, seen, settled, passed, missed, full>>
    /\ \/ e \in KeyEvent /\ e.kind = "key" /\ Deliver(e) /\ UNCHANGED <<lastPoint, skipped>>
       \/ /\ e \in RawEvent /\ e.kind = "raw" /\ moved' = moved + e.dx
          /\ UNCHANGED <<held, got, lastPoint, skipped>>
       \/ /\ e \in PointEvent /\ e.kind = "point" /\ moved' \in Int /\ skipped' \in Int /\ lastPoint' = e.x
          /\ (lastPoint # NoPoint => Place = lastPoint - Base) => Place' = e.x - Base
          /\ UNCHANGED <<held, got>>

LEMMA WinProcessIs ==
    ASSUME PathTyped, WinProcess, NEW e, e = Head(batch)
    PROVE  WinProcessDoes(e)
<1>1. /\ source = "windows" /\ batch # <<>> /\ batch' = Tail(batch)
      /\ UNCHANGED <<source, target, phys, tapped, mods, ctrls, reclaim, queue, grabbed, frame, rawActive,
                     rawAbsolute, localX, motions, mixed, sent, made, seen, settled, passed, missed, full>>
      /\ IF e.kind = "point"
         THEN /\ Deliver([kind |-> "raw", dx |-> IF lastPoint = NoPoint THEN 0 ELSE e.x - lastPoint])
              /\ lastPoint' = e.x
              /\ skipped' = IF lastPoint = NoPoint THEN Reached(e.x) - moved ELSE skipped
         ELSE Deliver(e) /\ UNCHANGED <<lastPoint, skipped>>
  BY DEF WinProcess
<1>2. e \in Event
  <2>1. batch \in Seq(Event) /\ batch # <<>>
    BY <1>1 DEF PathTyped
  <2>. QED
    BY <2>1
<1>3. CASE e \in PointEvent
  <2>1. e.kind = "point" /\ e.x \in Int
    BY <1>3 DEF PointEvent
  <2>2. PICK x \in Int, l \in Int, b \in Int, m \in Int, z \in Int :
               x = e.x /\ l = lastPoint /\ b = Base /\ m = moved /\ z = skipped
    BY <2>1 DEF PathTyped, Base
  <2>3. PICK d \in Int : d = IF l = NoPoint THEN 0 ELSE x - l
    <3>1. (IF l = NoPoint THEN 0 ELSE x - l) \in Int
      OBVIOUS
    <3>. QED
      BY <3>1
  <2>4. Deliver([kind |-> "raw", dx |-> d]) /\ lastPoint' = x
    BY <1>1, <2>1, <2>2, <2>3
  <2>5. moved' = m + d /\ UNCHANGED <<held, got>>
    BY <2>2, <2>4, MotionIs, DeliverMotion
  <2>6. skipped' = (IF l = NoPoint THEN (x - b) - m ELSE z)
    BY <1>1, <2>1, <2>2 DEF Reached, Base
  <2>7. Place' = moved' + skipped' /\ Place = m + z
    BY <2>2 DEF Place
  <2>8. (l # NoPoint => m + z = l - b) => moved' + skipped' = x - b
    BY <2>3, <2>5, <2>6
  <2>9. moved' \in Int /\ skipped' \in Int
    BY <2>5, <2>6
  <2>10. (lastPoint # NoPoint => Place = lastPoint - Base) => Place' = e.x - Base
    BY <2>2, <2>7, <2>8
  <2>. QED
    BY <1>1, <1>2, <1>3, <2>1, <2>2, <2>4, <2>5, <2>9, <2>10 DEF WinProcessDoes
<1>4. CASE e \in RawEvent
  <2>1. e.kind = "raw"
    BY <1>4 DEF RawEvent
  <2>2. Deliver(e) /\ UNCHANGED <<lastPoint, skipped>>
    BY <1>1, <2>1
  <2>3. moved' = moved + e.dx /\ UNCHANGED <<held, got>>
    BY <1>4, <2>2, DeliverMotion
  <2>. QED
    BY <1>1, <1>2, <1>4, <2>1, <2>2, <2>3 DEF WinProcessDoes
<1>5. CASE e \in KeyEvent
  <2>1. e.kind = "key"
    BY <1>5 DEF KeyEvent
  <2>. QED
    BY <1>1, <1>2, <1>5, <2>1 DEF WinProcessDoes
<1>. QED
  BY <1>2, <1>3, <1>4, <1>5 DEF Event

LEMMA WinProcessTyped ==
    ASSUME PathTyped, QueuesAre, WinProcess
    PROVE  PathTyped' /\ QueuesAre'
<1>1. PICK e : e = Head(batch)
  OBVIOUS
<1>2. WinProcessDoes(e)
  BY <1>1, WinProcessIs
<1>3. held' \subseteq Keys /\ got' \in Seq(LogEntry) /\ moved' \in Int /\ skipped' \in Int /\ lastPoint' \in Int
  <2>1. CASE e \in KeyEvent /\ Deliver(e) /\ UNCHANGED <<lastPoint, skipped>>
    BY <2>1, DeliverKey DEF PathTyped
  <2>2. CASE e \in RawEvent /\ moved' = moved + e.dx /\ UNCHANGED <<held, got, lastPoint, skipped>>
    BY <2>2 DEF PathTyped, RawEvent
  <2>3. CASE e \in PointEvent /\ moved' \in Int /\ skipped' \in Int /\ lastPoint' = e.x /\ UNCHANGED <<held, got>>
    BY <2>3 DEF PathTyped, PointEvent
  <2>. QED
    BY <1>2, <2>1, <2>2, <2>3 DEF WinProcessDoes
<1>4. batch' \in Seq(Event)
  BY <1>2 DEF PathTyped, WinProcessDoes
<1>5. PathTyped'
  BY <1>2, <1>3, <1>4 DEF PathTyped, WinProcessDoes
<1>6. QueuesAre'
  BY <1>2 DEF QueuesAre, WinProcessDoes
<1>. QED
  BY <1>5, <1>6

LEMMA LinuxReadIs ==
    ASSUME PathTyped, QueuesAre, LinuxRead, NEW h, h = Head(queue)
    PROVE  /\ source = "linux" /\ tapped /\ queue # <<>> /\ queue' = Tail(queue)
           /\ h \in KeyEvent /\ h.mods = {}
           /\ mods' = (IF h.key \in Ctrls THEN After(mods, h.key, h.down) ELSE mods)
           /\ mods' \subseteq Ctrls
           /\ reclaim' = ((reclaim \/ Ctrls \subseteq mods') /\ mods' \cap Ctrls # {})
           /\ frame' = (IF reclaim \/ Ctrls \subseteq mods' THEN frame ELSE "Suppress")
           /\ \E e \in KeyEvent : e.key = h.key /\ e.down = h.down /\ e.mods \subseteq mods' /\ Deliver(e)
           /\ UNCHANGED <<source, target, phys, tapped, ctrls, batch, grabbed, rawActive, rawAbsolute, lastPoint,
                          localX, mixed, skipped, sent, made, seen, settled, passed, missed, full>>
<1>1. /\ source = "linux" /\ tapped /\ queue # <<>> /\ queue' = Tail(queue)
      /\ mods' = LinuxObserve(h)[1] /\ reclaim' = LinuxObserve(h)[2]
      /\ frame' = (IF LinuxObserve(h)[3] THEN frame ELSE "Suppress")
      /\ Deliver(IF h.key \in Buttons THEN h ELSE [h EXCEPT !.mods = LinuxObserve(h)[1]])
      /\ UNCHANGED <<source, target, phys, tapped, ctrls, batch, grabbed, rawActive, rawAbsolute, lastPoint,
                     localX, mixed, skipped, sent, made, seen, settled, passed, missed, full>>
  BY DEF LinuxRead, motionVars
<1>2. 1 \in DOMAIN queue /\ h = queue[1]
  BY <1>1 DEF PathTyped
<1>3. h \in KeyEvent /\ h.mods = {}
  BY <1>1, <1>2 DEF QueuesAre
<1>. DEFINE m == IF h.key \in Ctrls THEN After(mods, h.key, h.down) ELSE mods
<1>4. /\ LinuxObserve(h)[1] = m
      /\ LinuxObserve(h)[2] = ((reclaim \/ Ctrls \subseteq m) /\ m \cap Ctrls # {})
      /\ LinuxObserve(h)[3] = (reclaim \/ Ctrls \subseteq m)
  <2>1. LinuxObserve(h) = <<m, (reclaim \/ Ctrls \subseteq m) /\ m \cap Ctrls # {}, reclaim \/ reclaim \/ Ctrls \subseteq m>>
    BY KeySets DEF LinuxObserve, Chord
  <2>. HIDE DEF m
  <2>. QED
    BY <2>1
<1>5. m \subseteq Ctrls
  BY KeySets DEF PathTyped
<1>. DEFINE e == IF h.key \in Buttons THEN h ELSE [h EXCEPT !.mods = m]
<1>6. e \in KeyEvent /\ e.key = h.key /\ e.down = h.down /\ e.mods \subseteq m
  BY <1>3, <1>5 DEF KeyEvent
<1>7. Deliver(e)
  BY <1>1, <1>4
<1>. HIDE DEF e
<1>8. mods' = m /\ mods' \subseteq Ctrls
  BY <1>1, <1>4, <1>5
<1>9. /\ reclaim' = ((reclaim \/ Ctrls \subseteq mods') /\ mods' \cap Ctrls # {})
      /\ frame' = (IF reclaim \/ Ctrls \subseteq mods' THEN frame ELSE "Suppress")
  BY <1>1, <1>4, <1>8
<1>. QED
  BY <1>1, <1>3, <1>6, <1>7, <1>8, <1>9

LEMMA LinuxReadTyped ==
    ASSUME PathTyped, QueuesAre, LinuxRead
    PROVE  PathTyped' /\ QueuesAre'
<1>. DEFINE h == Head(queue)
<1>1. /\ source = "linux" /\ queue # <<>> /\ queue' = Tail(queue) /\ mods' \subseteq Ctrls
      /\ frame' \in {frame, "Suppress"}
      /\ \E e \in KeyEvent : Deliver(e)
      /\ UNCHANGED <<source, target, phys, tapped, ctrls, batch, lastPoint, localX, mixed, skipped, sent, made,
                     seen, missed, full>>
  BY LinuxReadIs
<1>2. held' \subseteq Keys /\ got' \in Seq(LogEntry) /\ moved' = moved
  BY <1>1, DeliverKey
<1>3. queue' \in Seq(Event)
  BY <1>1 DEF PathTyped
<1>4. PathTyped'
  BY <1>1, <1>2, <1>3 DEF PathTyped
<1>5. ASSUME NEW i \in DOMAIN queue' PROVE queue'[i] \in KeyEvent /\ queue'[i].mods = {}
  <2>1. Len(queue) \in Nat /\ DOMAIN queue = 1..Len(queue)
    BY DEF PathTyped
  <2>2. Len(queue') = Len(queue) - 1 /\ \A j \in 1..(Len(queue) - 1) : queue'[j] = queue[j + 1]
    <3>1. queue \in Seq(Event) /\ queue # <<>> /\ queue' = Tail(queue)
      BY <1>1 DEF PathTyped
    <3>. QED
      BY <3>1
  <2>3. i \in 1..(Len(queue) - 1) /\ i + 1 \in 1..Len(queue)
    BY <1>3, <2>1, <2>2
  <2>. QED
    BY <1>1, <2>1, <2>2, <2>3 DEF QueuesAre
<1>6. QueuesAre'
  BY <1>1, <1>5 DEF QueuesAre
<1>. QED
  BY <1>4, <1>6

LEMMA OthersTyped ==
    ASSUME PathTyped, QueuesAre,
           WinTake \/ MacTapDisabled \/ LinuxRound \/ Start \/ Stop
    PROVE  PathTyped' /\ QueuesAre'
<1>2. CASE WinTake
  <2>1. <<>> \in Seq(Event)
    OBVIOUS
  <2>. QED
    BY <1>2, <2>1 DEF WinTake, motionVars, PathTyped, QueuesAre
<1>3. CASE MacTapDisabled
  <2>1. PICK k \in Keys : /\ phys' = After(phys, k, k \notin phys)
                          /\ missed' = missed \cup {k} /\ seen' = seen \ {k}
    BY <1>3 DEF MacTapDisabled
  <2>2. phys' \subseteq Keys /\ missed' \subseteq Keys /\ seen' \subseteq Keys
    BY <2>1, KeySets DEF PathTyped
  <2>. QED
    BY <1>3, <2>2 DEF MacTapDisabled, motionVars, PathTyped, QueuesAre
<1>4. CASE LinuxRound
  BY <1>4 DEF LinuxRound, motionVars, PathTyped, QueuesAre
<1>5. CASE Start
  <2>1. missed' \subseteq Keys
    BY <1>5 DEF Start, PathTyped
  <2>2. localX' \in Nat
    BY <1>5 DEF Start, PathTyped, Corners
  <2>. QED
    BY <1>5, <2>1, <2>2 DEF Start, PathTyped, QueuesAre, NoPoint
<1>6. CASE Stop
  <2>1. /\ mods' = {} /\ ctrls' = {} /\ frame' = "PassThrough"
        /\ IF source = "linux"
           THEN queue' = <<>> /\ missed' = missed \cup {queue[i].key : i \in DOMAIN queue}
           ELSE UNCHANGED <<queue, missed>>
        /\ UNCHANGED <<source, target, phys, batch, lastPoint, localX, mixed, skipped, held, sent, made, got, moved,
                       seen, full>>
    BY <1>6 DEF Stop
  <2>2. missed' \subseteq Keys
    BY <2>1 DEF PathTyped, QueuesAre, KeyEvent
  <2>3. queue' \in Seq(Event)
    <3>1. <<>> \in Seq(Event) /\ queue \in Seq(Event)
      BY DEF PathTyped
    <3>2. queue' = <<>> \/ queue' = queue
      BY <2>1
    <3>. QED
      BY <3>1, <3>2
  <2>4. PathTyped'
    BY <2>1, <2>2, <2>3 DEF PathTyped
  <2>5. QueuesAre'
    BY <2>1 DEF QueuesAre
  <2>. QED
    BY <2>4, <2>5
<1>. QED
  BY <1>2, <1>3, <1>4, <1>5, <1>6

(***************************************************************************)
(* The copies of the modifiers, and the chord: macos.                      *)
(***************************************************************************)
\* What a key does while macos captures: the mirrors hold, the event passes,
\* and the target holds no key that is up.
LEMMA MacPressMirrors ==
    ASSUME PathTyped, MacMirrors, source = "macos", NEW k \in Keys, Press(k), QueuesAre, tapped, passed,
           held \subseteq phys \cup missed
    PROVE  MacMirrors' /\ passed' /\ held' \subseteq phys' \cup missed'
<1>. DEFINE down == k \notin phys
            e == MacEvent(k, down)
            act == reclaim \/ Ctrls \subseteq e.mods \cup ctrls'
<1>1. PICK d \in BOOLEAN : d = down
  OBVIOUS
<1>2. /\ phys' = After(phys, k, d) /\ seen' = After(seen, k, d) /\ UNCHANGED <<source, target, tapped>>
      /\ MacPress(k, d)
  BY <1>1, PressIs
<1>3. /\ mods' = MacMods(k) /\ Deliver(e)
      /\ ctrls' = (IF e.key \in Ctrls THEN After(ctrls, e.key, e.down) ELSE ctrls)
      /\ reclaim' = (act /\ ctrls' # {})
      /\ passed' = (passed /\ (ChordKnown => reclaim \/ act))
      /\ missed' = (IF k \in Ctrls THEN missed ELSE missed \ {k})
  BY <1>1, <1>2, KeySets DEF MacPress, MacObserve, Passes, Chord
<1>4. /\ e \in KeyEvent /\ e.key = k /\ MacMods(k) \subseteq Ctrls
      /\ k \in Ctrls => /\ e.down = (k \notin mods) /\ e.mods = MacMods(k)
                        /\ MacMods(k) = IF k \in mods THEN mods \ {k} ELSE mods \cup {k}
      /\ k \notin Ctrls => e.down = d /\ e.mods = {} /\ MacMods(k) = mods
  BY <1>1, MacEventIs
<1>. HIDE DEF e, act
<1>5. /\ phys' = (IF d THEN phys \cup {k} ELSE phys \ {k})
      /\ seen' = (IF d THEN seen \cup {k} ELSE seen \ {k})
      /\ ctrls' = (IF k \in Ctrls THEN IF e.down THEN ctrls \cup {k} ELSE ctrls \ {k} ELSE ctrls)
      /\ d = (k \notin phys)
  BY <1>1, <1>2, <1>3, <1>4, KeySets
<1>6. \A c \in Ctrls \ missed : /\ c \in mods <=> c \in phys
                                /\ c \in seen <=> c \in phys
                                /\ c \in ctrls <=> c \in phys
  BY DEF MacMirrors
<1>7. ASSUME NEW c \in Ctrls \ missed'
      PROVE  /\ c \in mods' <=> c \in phys'
             /\ c \in seen' <=> c \in phys'
             /\ c \in ctrls' <=> c \in phys'
  <2>1. CASE k \in Ctrls
    <3>1. c \in Ctrls \ missed
      BY <1>3, <2>1
    <3>2. /\ mods' = (IF k \in mods THEN mods \ {k} ELSE mods \cup {k}) /\ e.down = (k \notin mods)
      BY <1>3, <1>4, <2>1
    <3>3. CASE c = k
      BY <1>5, <1>6, <2>1, <3>1, <3>2, <3>3
    <3>4. CASE c # k
      BY <1>5, <1>6, <2>1, <3>1, <3>2, <3>4
    <3>. QED
      BY <3>3, <3>4
  <2>2. CASE k \notin Ctrls
    <3>1. c \in Ctrls \ missed /\ c # k
      BY <1>3, <2>2
    <3>2. mods' = mods /\ ctrls' = ctrls
      BY <1>3, <1>4, <1>5, <2>2
    <3>. QED
      BY <1>5, <1>6, <3>1, <3>2
  <2>. QED
    BY <2>1, <2>2
<1>8. ASSUME ChordKnown' PROVE reclaim'
  <2>1. Ctrls \subseteq seen' /\ missed' \cap Ctrls = {}
    BY <1>2, <1>8 DEF ChordKnown
  <2>2. Ctrls \subseteq ctrls'
    BY <1>7, <2>1
  <2>. QED
    BY <1>3, <2>2, KeySets DEF act
<1>9. MacMirrors'
  BY <1>2, <1>7, <1>8 DEF MacMirrors
<1>10. passed'
  BY <1>3 DEF MacMirrors
<1>11. held' = InjectKey(held, e)
  BY <1>3, <1>4, DeliverKey
<1>12. ASSUME NEW c \in held' PROVE c \in phys' \cup missed'
  <2>1. Presses(e, c) \/ (c \in held /\ ~Releases(e, c))
    <3>1. target \in Platform /\ held \subseteq Keys
      BY DEF PathTyped
    <3>. QED
      BY <1>4, <1>11, <1>12, <3>1, InjectIs
  <2>2. e.kind = "key"
    BY <1>4 DEF KeyEvent
  <2>3. CASE k \notin Ctrls
    BY <1>3, <1>4, <1>5, <2>1, <2>2, <2>3 DEF Presses, Releases
  <2>4. CASE k \in Ctrls
    <3>1. missed' = missed /\ mods' = e.mods /\ e.down = (k \notin mods)
      BY <1>3, <1>4, <2>4
    <3>2. CASE c = k
      <4>1. e.down
        BY <1>4, <2>1, <2>2, <3>2, <3>1 DEF Presses, Releases
      <4>. QED
        BY <1>5, <1>6, <2>4, <3>1, <3>2, <4>1
    <3>3. CASE c # k /\ c \in e.mods
      <4>1. c \in Ctrls
        BY <1>3, <1>4, <3>1, <3>3
      <4>. QED
        BY <1>7, <3>1, <3>3, <4>1
    <3>4. CASE c # k /\ c \notin e.mods
      BY <1>4, <1>5, <2>1, <3>1, <3>4 DEF Presses
    <3>. QED
      BY <3>2, <3>3, <3>4
  <2>. QED
    BY <2>3, <2>4
<1>. QED
  BY <1>9, <1>10, <1>12

LEMMA MacMirrorsKept ==
    ASSUME PathTyped, QueuesAre, MacMirrors, source = "macos", passed, held \subseteq phys \cup missed, PathNext
    PROVE  MacMirrors' /\ passed' /\ held' \subseteq phys' \cup missed'
<1>1. ASSUME NEW k \in Keys, Press(k) PROVE MacMirrors' /\ passed' /\ held' \subseteq phys' \cup missed'
  <2>1. CASE tapped
    BY <1>1, <2>1, MacPressMirrors
  <2>2. CASE ~tapped
    <3>0. PICK d \in BOOLEAN : d = (k \notin phys)
      OBVIOUS
    <3>1. /\ phys' \subseteq phys \cup {k} /\ missed' = missed \cup {k} /\ phys \subseteq phys' \cup {k}
          /\ UNCHANGED <<source, tapped, mods, ctrls, reclaim, held, passed>>
      <4>1. /\ phys' = After(phys, k, d) /\ missed' = missed \cup {k}
            /\ UNCHANGED <<source, tapped, mods, ctrls, reclaim, held, passed>>
        BY <1>1, <2>2, <3>0, PressIs
      <4>. QED
        BY <4>1, KeySets
    <3>2. MacMirrors'
      BY <2>2, <3>1 DEF MacMirrors, ChordKnown
    <3>3. held' \subseteq phys' \cup missed'
      BY <3>1
    <3>. QED
      BY <3>1, <3>2, <3>3
  <2>. QED
    BY <2>1, <2>2
<1>2. CASE MacTapDisabled
  <2>1. PICK k \in Keys : /\ phys' = After(phys, k, k \notin phys)
                          /\ missed' = missed \cup {k} /\ seen' = seen \ {k}
    BY <1>2 DEF MacTapDisabled
  <2>2. UNCHANGED <<source, tapped, mods, ctrls, reclaim, held, passed>>
    BY <1>2 DEF MacTapDisabled
  <2>3. \A c : c # k => (c \in phys' <=> c \in phys)
    BY <2>1, KeySets
  <2>4. MacMirrors'
    <3>1. ASSUME tapped, NEW c \in Ctrls \ missed'
          PROVE  /\ c \in mods' <=> c \in phys'
                 /\ c \in seen' <=> c \in phys'
                 /\ c \in ctrls' <=> c \in phys'
      BY <2>1, <2>2, <2>3, <3>1 DEF MacMirrors
    <3>2. ChordKnown' => ChordKnown
      BY <2>1, <2>2 DEF ChordKnown
    <3>. QED
      BY <2>2, <3>1, <3>2 DEF MacMirrors
  <2>5. held' \subseteq phys' \cup missed'
    BY <2>1, <2>2, <2>3
  <2>. QED
    BY <2>2, <2>4, <2>5
<1>3. CASE Start
  <2>1. /\ mods' = {} /\ ctrls' = {} /\ seen' = {} /\ missed' = missed \cup (phys \cap Ctrls)
        /\ UNCHANGED <<source, phys, held, passed>> /\ tapped'
    BY <1>3, KeySets DEF Start
  <2>2. ~ChordKnown'
    BY <2>1, KeySets DEF ChordKnown
  <2>3. MacMirrors'
    BY <2>1, <2>2 DEF MacMirrors
  <2>. QED
    BY <2>1, <2>3
<1>4. CASE Stop
  <2>1. mods' = {} /\ ~tapped' /\ missed' = missed /\ UNCHANGED <<source, phys, held, passed>>
    BY <1>4 DEF Stop
  <2>. QED
    BY <2>1 DEF MacMirrors, ChordKnown
<1>5. ~WinMove /\ ~WinTablet /\ ~WinTake /\ ~WinProcess /\ ~LinuxRead /\ ~LinuxRound
  BY DEF WinMove, WinTablet, WinTake, WinProcess, LinuxRead, LinuxRound
<1>. QED
  BY <1>1, <1>2, <1>3, <1>4, <1>5 DEF PathNext

(***************************************************************************)
(* The same for windows, and what its queue makes of the history.          *)
(***************************************************************************)
LEMMA JoinsWithNothing ==
    ASSUME NEW S, NEW q \in Seq(S)
    PROVE  <<>> \o q = q /\ q \o <<>> = q
  OBVIOUS

\* What a key's transition e does to the Windows path while the tap runs.
WinPressDoes(k, d, e) ==
    /\ e \in KeyEvent /\ e.key = k /\ e.down = d /\ e.mods \subseteq mods'
    /\ mods' = (IF k \in Ctrls THEN IF d THEN mods \cup {k} ELSE mods \ {k} ELSE mods)
    /\ phys' = (IF d THEN phys \cup {k} ELSE phys \ {k})
    /\ seen' = (IF d THEN seen \cup {k} ELSE seen \ {k})
    /\ reclaim' = (reclaim \/ (d /\ Ctrls \subseteq e.mods)) /\ (k \in Ctrls => e.mods = mods')
    /\ passed' = (passed /\ (ChordKnown => reclaim'))
    /\ queue' = Enqueue(queue, e) /\ full' = full \cup Overflow(queue, e)
    /\ missed' = missed \ {k} /\ sent' = Append(sent, <<k, d, made>>)
    /\ UNCHANGED <<source, target, tapped, batch, rawActive, rawAbsolute, lastPoint, localX, motions, mixed,
                   held, got, moved, skipped, made>>

LEMMA WinPressIs ==
    ASSUME PathTyped, QueuesAre, source = "windows", NEW k \in Keys, Press(k), tapped,
           NEW d \in BOOLEAN, d = (k \notin phys), NEW e, e = WinEvent(k, d)
    PROVE  WinPressDoes(k, d, e)
<1>1. /\ phys' = After(phys, k, d) /\ seen' = After(seen, k, d) /\ WinPress(k, d)
      /\ sent' = Append(sent, <<k, d, made>>)
      /\ UNCHANGED <<source, target, tapped, batch, rawActive, rawAbsolute, lastPoint, localX, motions, mixed,
                     skipped, made>>
  BY PressIs
<1>2. /\ mods' = WinMods(k, d) /\ reclaim' = (reclaim \/ (d /\ Ctrls \subseteq e.mods))
      /\ queue' = Enqueue(queue, e) /\ full' = full \cup Overflow(queue, e)
      /\ passed' = (passed /\ (ChordKnown => reclaim'))
      /\ missed' = missed \ {k} /\ UNCHANGED <<ctrls, held, got, moved>>
  BY <1>1 DEF WinPress, Chord, Passes
<1>3. /\ e \in KeyEvent /\ e.key = k /\ e.down = d
      /\ WinMods(k, d) = (IF k \in Ctrls THEN After(mods, k, d) ELSE mods)
      /\ e.mods \subseteq WinMods(k, d) /\ (k \in Ctrls => e.mods = WinMods(k, d))
  BY WinEventIs
<1>. QED
  BY <1>1, <1>2, <1>3, KeySets DEF WinPressDoes, After

LEMMA WinPressMirrors ==
    ASSUME PathTyped, QueuesAre, WinMirrors, source = "windows", NEW k \in Keys, Press(k), tapped, passed
    PROVE  WinMirrors' /\ passed'
<1>0. PICK d \in BOOLEAN : d = (k \notin phys)
  OBVIOUS
<1>1. PICK e : e = WinEvent(k, d)
  OBVIOUS
<1>2. /\ mods' = (IF k \in Ctrls THEN IF d THEN mods \cup {k} ELSE mods \ {k} ELSE mods)
      /\ phys' = (IF d THEN phys \cup {k} ELSE phys \ {k})
      /\ seen' = (IF d THEN seen \cup {k} ELSE seen \ {k})
      /\ reclaim' = (reclaim \/ (d /\ Ctrls \subseteq e.mods)) /\ (k \in Ctrls => e.mods = mods')
      /\ passed' = (passed /\ (ChordKnown => reclaim'))
      /\ UNCHANGED <<source, tapped>>
  <2>1. WinPressDoes(k, d, e)
    BY <1>0, <1>1, WinPressIs
  <2>. QED
    BY <2>1 DEF WinPressDoes
<1>3. \A c \in Ctrls : (c \in mods <=> c \in seen) /\ (c \in mods => c \in phys)
  BY DEF WinMirrors
<1>4. \A c \in Ctrls : (c \in mods' <=> c \in seen') /\ (c \in mods' => c \in phys')
  BY <1>2, <1>3
<1>5. ASSUME ChordKnown' PROVE reclaim'
  <2>1. Ctrls \subseteq seen'
    BY <1>5 DEF ChordKnown
  <2>2. CASE k \in Ctrls
    BY <1>2, <1>4, <2>1, <2>2
  <2>3. CASE k \notin Ctrls
    <3>1. Ctrls \subseteq seen
      BY <1>2, <2>1, <2>3
    <3>2. ChordKnown
      BY <3>1 DEF ChordKnown
    <3>. QED
      BY <1>2, <3>2 DEF WinMirrors
  <2>. QED
    BY <2>2, <2>3
<1>6. WinMirrors'
  BY <1>2, <1>4, <1>5 DEF WinMirrors
<1>7. passed'
  BY <1>2 DEF WinMirrors
<1>. QED
  BY <1>6, <1>7

LEMMA WinMirrorsKept ==
    ASSUME PathTyped, QueuesAre, WinMirrors, source = "windows", passed, PathNext
    PROVE  WinMirrors' /\ passed'
<1>1. ASSUME NEW k \in Keys, Press(k) PROVE WinMirrors' /\ passed'
  <2>1. CASE tapped
    BY <1>1, <2>1, WinPressMirrors
  <2>2. CASE ~tapped
    <3>1. UNCHANGED <<source, tapped, mods, reclaim, passed>>
      BY <1>1, <2>2, PressIs
    <3>. QED
      BY <2>2, <3>1 DEF WinMirrors, ChordKnown
  <2>. QED
    BY <2>1, <2>2
<1>2. CASE WinMove
  <2>1. UNCHANGED <<source, tapped, mods, reclaim, phys, seen, missed, passed>>
    BY <1>2 DEF WinMove
  <2>. QED
    BY <2>1 DEF WinMirrors, ChordKnown
<1>3. CASE WinTablet
  BY <1>3 DEF WinTablet, WinMirrors, ChordKnown
<1>4. CASE WinTake
  BY <1>4 DEF WinTake, WinMirrors, ChordKnown
<1>5. CASE WinProcess
  <2>1. UNCHANGED <<source, tapped, mods, reclaim, phys, seen, missed, passed>>
    BY <1>5 DEF WinProcess
  <2>. QED
    BY <2>1 DEF WinMirrors, ChordKnown
<1>6. CASE Start
  <2>1. mods' = {} /\ seen' = {} /\ UNCHANGED <<source, phys, passed>>
    BY <1>6 DEF Start
  <2>. QED
    BY <2>1, KeySets DEF WinMirrors, ChordKnown
<1>7. CASE Stop
  <2>1. mods' = {} /\ ~tapped' /\ UNCHANGED <<source, passed>>
    BY <1>7 DEF Stop
  <2>. QED
    BY <2>1 DEF WinMirrors, ChordKnown
<1>8. ~MacTapDisabled /\ ~LinuxRead /\ ~LinuxRound
  BY DEF MacTapDisabled, LinuxRead, LinuxRound
<1>. QED
  BY <1>1, <1>2, <1>3, <1>4, <1>5, <1>6, <1>7, <1>8 DEF PathNext

LEMMA HookFreed ==
    ASSUME PathTyped, HookOverflow # {"transition"}, NEW ks, NEW on, FreedIn(batch \o queue, ks, on)
    PROVE  FreedIn(batch \o AfterHook, ks, on)
<1>1. batch \in Seq(Event) /\ queue \in Seq(Event)
  BY DEF PathTyped
<1>2. CASE Hooked
  <2>1. Overflow(queue, Point) # {"transition"} /\ AfterHook = Enqueue(queue, Point) /\ Point \in PointEvent
    BY <1>2, HookIs
  <2>. QED
    BY <1>1, <2>1, EnqueueMotionFreed
<1>3. CASE ~Hooked
  BY <1>3, HookIs
<1>. QED
  BY <1>2, <1>3

LEMMA WinFreedKept ==
    ASSUME PathTyped, QueuesAre, WinMirrors, WinMirrors', UpIsFreed, source = "windows", PathNext
    PROVE  UpIsFreed'
<1>. SUFFICES ASSUME "transition" \notin full' PROVE FreedIn(batch' \o queue', UpKeys', held')
  <2>1. source' = "windows"
    BY DEF PathNext, Press, WinMove, WinTablet, WinTake, WinProcess, MacTapDisabled, LinuxRead,
           LinuxRound, Start, Stop
  <2>. QED
    BY <2>1 DEF UpIsFreed, Waiting, Believed
<1>0. batch \in Seq(Event) /\ queue \in Seq(Event) /\ Believed = held
  BY DEF PathTyped, Believed
<1>1. "transition" \notin full => FreedIn(batch \o queue, UpKeys, held)
  BY <1>0 DEF UpIsFreed, Waiting
<1>2. ASSUME NEW k \in Keys, Press(k), tapped PROVE FreedIn(batch' \o queue', UpKeys', held')
  <2>1. PICK d \in BOOLEAN : d = (k \notin phys)
    OBVIOUS
  <2>. DEFINE e == WinEvent(k, d)
  <2>2. /\ e \in KeyEvent /\ e.key = k /\ e.down = d /\ e.mods \subseteq mods'
        /\ mods' = (IF k \in Ctrls THEN IF d THEN mods \cup {k} ELSE mods \ {k} ELSE mods)
        /\ phys' = (IF d THEN phys \cup {k} ELSE phys \ {k})
        /\ queue' = Enqueue(queue, e) /\ full' = full \cup Overflow(queue, e)
        /\ missed' = missed \ {k}
        /\ UNCHANGED <<source, target, tapped, batch, held, got, moved, made>>
    <3>1. WinPressDoes(k, d, e)
      BY <1>2, <2>1, WinPressIs
    <3>. QED
      BY <3>1 DEF WinPressDoes
  <2>. HIDE DEF e
  <2>3. Overflow(queue, e) # {"transition"} /\ FreedIn(batch \o queue, UpKeys, held)
    BY <1>1, <2>2
  <2>4. ASSUME NEW c \in UpKeys' PROVE Releases(e, c) \/ (c \in UpKeys /\ ~Presses(e, c))
    <3>1. c \in Keys /\ c \notin phys' /\ c \notin missed'
      BY DEF UpKeys
    <3>2. e.kind = "key"
      BY <2>2 DEF KeyEvent
    <3>3. CASE c = k
      BY <2>2, <3>1, <3>2, <3>3 DEF Releases
    <3>4. CASE c # k
      <4>1. c \notin phys /\ c \notin missed
        BY <2>2, <3>1, <3>4
      <4>2. c \notin mods'
        <5>1. mods' \subseteq Ctrls /\ mods' \subseteq mods \cup {k} /\ mods \subseteq Ctrls
          BY <2>2 DEF PathTyped
        <5>. QED
          BY <1>2, <3>4, <4>1, <5>1 DEF WinMirrors
      <4>. QED
        BY <2>2, <3>1, <3>4, <4>1, <4>2 DEF Presses, UpKeys
    <3>. QED
      BY <3>3, <3>4
  <2>5. FreedIn(batch \o Enqueue(queue, e), UpKeys', held')
    BY <1>0, <2>2, <2>3, <2>4, EnqueueKeyFreed
  <2>. QED
    BY <2>2, <2>5
<1>3. ASSUME NEW k \in Keys, Press(k), ~tapped PROVE FreedIn(batch' \o queue', UpKeys', held')
  <2>0. PICK d \in BOOLEAN : d = (k \notin phys)
    OBVIOUS
  <2>1. /\ phys' = After(phys, k, d) /\ missed' = missed \cup {k}
        /\ UNCHANGED <<queue, batch, held, full>>
    BY <1>3, <2>0, PressIs
  <2>2. UpKeys' \in SUBSET UpKeys
    BY <2>1, KeySets DEF UpKeys
  <2>. QED
    BY <1>1, <2>1, <2>2, FreedStays
<1>4. CASE WinMove
  <2>1. PICK raw : WinMoveDoes(raw)
    BY <1>4, WinMoveIs
  <2>2. /\ queue' = (IF rawActive THEN Enqueue(AfterHook, raw) ELSE AfterHook)
        /\ full' = full \cup HookOverflow \cup (IF rawActive THEN Overflow(AfterHook, raw) ELSE {})
        /\ raw \in RawEvent /\ UNCHANGED <<phys, batch, held, missed>>
    BY <2>1 DEF WinMoveDoes
  <2>3. FreedIn(batch \o AfterHook, UpKeys, held) /\ AfterHook \in Seq(Event)
    BY <1>0, <1>1, <2>2, HookFreed, HookIs
  <2>4. FreedIn(batch \o queue', UpKeys, held)
    <3>1. CASE ~rawActive
      BY <2>2, <2>3, <3>1
    <3>2. CASE rawActive
      <4>1. queue' = Enqueue(AfterHook, raw) /\ Overflow(AfterHook, raw) # {"transition"}
        BY <2>2, <3>2
      <4>. QED
        BY <1>0, <2>2, <2>3, <4>1, EnqueueMotionFreed
    <3>. QED
      BY <3>1, <3>2
  <2>5. UpKeys' = UpKeys
    BY <2>2 DEF UpKeys
  <2>. QED
    BY <2>2, <2>4, <2>5
<1>5. CASE WinTablet
  <2>1. queue' = AfterHook /\ full' = full \cup HookOverflow /\ UNCHANGED <<phys, batch, held, missed>>
    BY <1>5 DEF WinTablet
  <2>2. FreedIn(batch \o AfterHook, UpKeys, held)
    BY <1>0, <1>1, <2>1, HookFreed
  <2>3. UpKeys' = UpKeys
    BY <2>1 DEF UpKeys
  <2>. QED
    BY <2>1, <2>2, <2>3
<1>9. CASE Start \/ Stop
  <2>1. UNCHANGED <<queue, batch, held, full, phys, missed>>
    BY <1>9 DEF Start, Stop
  <2>2. UpKeys' = UpKeys
    BY <2>1 DEF UpKeys
  <2>. QED
    BY <1>1, <2>1, <2>2
<1>6. CASE WinTake
  <2>1. batch = <<>> /\ batch' = queue /\ queue' = <<>> /\ UNCHANGED <<held, full, phys, missed>>
    BY <1>6 DEF WinTake
  <2>2. UpKeys' = UpKeys
    BY <2>1 DEF UpKeys
  <2>3. batch' \o queue' = batch \o queue
    BY <1>0, <2>1, JoinsWithNothing
  <2>. QED
    BY <1>1, <2>1, <2>2, <2>3
<1>7. CASE WinProcess
  <2>. DEFINE e == Head(batch)
              w == batch \o queue
              v == Tail(batch) \o queue
  <2>1. /\ batch # <<>> /\ batch' = Tail(batch) /\ e \in Event
        /\ UNCHANGED <<queue, phys, missed, full>>
        /\ \/ e \in KeyEvent /\ e.kind = "key" /\ Deliver(e)
           \/ e.kind # "key" /\ held' = held
    <3>1. WinProcessDoes(e)
      BY <1>7, WinProcessIs
    <3>. QED
      BY <3>1 DEF WinProcessDoes
  <2>2. Tail(batch) \in Seq(Event) /\ Popped(w, v, e) /\ w \in Seq(Event) /\ v \in Seq(Event)
    BY <1>0, <2>1, JoinPop, JoinIs
  <2>. HIDE DEF e
  <2>3. ASSUME NEW c \in held' PROVE Presses(e, c) \/ (c \in held /\ ~Releases(e, c))
    <3>1. CASE e \in KeyEvent /\ Deliver(e)
      <4>1. held' = InjectKey(held, e)
        BY <3>1, DeliverKey
      <4>. QED
        BY <2>3, <3>1, <4>1, InjectIs DEF PathTyped
    <3>2. CASE e.kind # "key" /\ held' = held
      BY <2>3, <3>2 DEF Releases
    <3>. QED
      BY <2>1, <3>1, <3>2
  <2>4. UpKeys' = UpKeys
    BY <2>1 DEF UpKeys
  <2>. HIDE DEF w, v
  <2>5. FreedIn(w, UpKeys, held)
    BY <1>1, <2>1 DEF w
  <2>6. FreedIn(v, UpKeys, held')
    BY <2>2, <2>3, <2>5, FreedPopped
  <2>. QED
    BY <2>1, <2>4, <2>6 DEF v
<1>8. ~MacTapDisabled /\ ~LinuxRead /\ ~LinuxRound
  BY DEF MacTapDisabled, LinuxRead, LinuxRound
<1>. QED
  BY <1>2, <1>3, <1>4, <1>5, <1>6, <1>7, <1>8, <1>9 DEF PathNext

LEMMA WinCompletePress ==
    ASSUME PathTyped, QueuesAre, QueueIsComplete, source = "windows", NEW k \in Keys, Press(k)
    PROVE  QueueIsComplete'
<1>0. PICK d \in BOOLEAN : d = (k \notin phys)
  OBVIOUS
<1>1. /\ batch \in Seq(Event) /\ queue \in Seq(Event) /\ sent \in Seq(LogEntry) /\ made \in Int
      /\ got \in Seq(LogEntry) /\ Base \in Int
  BY DEF PathTyped, Base
<1>2. CASE ~tapped
  <2>1. UNCHANGED <<source, sent, queue, batch, got, moved, skipped, localX, mixed, made, full>>
    BY <1>0, <1>2, PressIs
  <2>2. Waiting' = Waiting /\ Place' = Place /\ Base' = Base
    BY <2>1 DEF Waiting, Place, Base
  <2>. QED
    BY <2>1, <2>2 DEF QueueIsComplete
<1>3. CASE tapped
  <2>1. PICK e : e = WinEvent(k, d)
    OBVIOUS
  <2>. DEFINE t == Append(sent, <<e.key, e.down, made>>)
  <2>2. /\ e \in KeyEvent /\ e.key = k /\ e.down = d
        /\ queue' = Enqueue(queue, e) /\ full' = full \cup Overflow(queue, e)
        /\ sent' = t /\ UNCHANGED <<source, batch, got, moved, skipped, localX, mixed, made>>
    <3>1. WinPressDoes(k, d, e)
      BY <1>0, <1>3, <2>1, WinPressIs
    <3>. QED
      BY <3>1 DEF WinPressDoes
  <2>3. <<e.key, e.down, made>> \in LogEntry
    BY <1>1, <2>2 DEF LogEntry, KeyEvent
  <2>4. /\ Len(got) \in Nat /\ DOMAIN got = 1..Len(got) /\ Len(sent) \in Nat
        /\ Len(t) = Len(sent) + 1 /\ \A i \in 1..Len(sent) : t[i] = sent[i]
    BY <1>1, <2>3
  <2>5. Waiting = batch \o queue /\ Waiting' = batch \o Enqueue(queue, e) /\ Place' = Place /\ Base' = Base
    BY <2>2 DEF Waiting, Place, Base
  <2>. HIDE DEF t
  <2>6. /\ Begins(got, sent) => Begins(got, t)
        /\ Begins(got, sent) /\ BeginsExactly(got, sent) => BeginsExactly(got, t)
    BY <2>4 DEF Begins, BeginsExactly
  <2>7. Overflow(queue, e) # {"transition"} => (Loosely(Waiting, sent, Len(got)) => Loosely(Waiting', t, Len(got)))
    BY <1>1, <2>2, <2>5, EnqueueKeyContinues DEF t
  <2>8. Overflow(queue, e) = {} =>
            (Exactly(Waiting, sent, Len(got), Place, made, Base) =>
                 Exactly(Waiting', t, Len(got), Place, made, Base))
    BY <1>1, <2>2, <2>5, EnqueueKeyContinues DEF t
  <2>9. "transition" \notin full' => Begins(got', sent') /\ Loosely(Waiting', sent', Len(got'))
    BY <2>2, <2>6, <2>7 DEF QueueIsComplete
  <2>10. full' = {} /\ ~mixed' =>
             BeginsExactly(got', sent') /\ Exactly(Waiting', sent', Len(got'), Place', made', Base')
    BY <2>2, <2>5, <2>6, <2>8 DEF QueueIsComplete
  <2>. QED
    BY <2>9, <2>10 DEF QueueIsComplete
<1>. QED
  BY <1>2, <1>3

\* The hook's point leads to where the move does.
LEMMA HookContinues ==
    ASSUME PathTyped, HookOverflow # {"transition"}, NEW a, NEW x
    PROVE  /\ Loosely(batch \o queue, sent, a) => Loosely(batch \o AfterHook, sent, a)
           /\ HookOverflow = {} /\ Hooked /\ Exactly(batch \o queue, sent, a, x, made, Base) =>
                 Exactly(batch \o AfterHook, sent, a, x, made + 1, Base)
<1>1. /\ batch \in Seq(Event) /\ queue \in Seq(Event) /\ sent \in Seq(LogEntry) /\ made \in Int /\ Base \in Int
      /\ localX \in Nat
  BY DEF PathTyped, Base
<1>2. CASE Hooked
  <2>1. /\ Overflow(queue, Point) = HookOverflow /\ AfterHook = Enqueue(queue, Point)
        /\ Point \in PointEvent /\ Point.kind = "point" /\ Point.x = localX + 1
    BY <1>2, HookIs
  <2>2. Onto(made, Point, Base) = made + 1
    BY <1>1, <2>1 DEF Onto, Base
  <2>3. /\ Loosely(batch \o queue, sent, a) => Loosely(batch \o AfterHook, sent, a)
        /\ HookOverflow = {} /\ Exactly(batch \o queue, sent, a, x, made, Base) =>
              Exactly(batch \o AfterHook, sent, a, x, Onto(made, Point, Base), Base)
    BY <1>1, <2>1, EnqueueMotionContinues
  <2>. QED
    BY <2>2, <2>3
<1>3. CASE ~Hooked
  BY <1>3, HookIs
<1>. QED
  BY <1>2, <1>3

LEMMA WinCompleteMove ==
    ASSUME PathTyped, QueuesAre, QueueIsComplete, MotionIsKnown, source = "windows", WinMove
    PROVE  QueueIsComplete'
<1>1. /\ batch \in Seq(Event) /\ queue \in Seq(Event) /\ sent \in Seq(LogEntry) /\ made \in Int /\ Base \in Int
      /\ localX \in Nat /\ AfterHook \in Seq(Event)
  BY HookIs DEF PathTyped, Base
<1>2. PICK raw : WinMoveDoes(raw)
  BY WinMoveIs
<1>3. /\ raw \in RawEvent /\ raw.kind = "raw" /\ raw.dx = 1 /\ made' = made + 1 /\ localX' = localX + 1
      /\ queue' = (IF rawActive THEN Enqueue(AfterHook, raw) ELSE AfterHook)
      /\ full' = full \cup HookOverflow \cup (IF rawActive THEN Overflow(AfterHook, raw) ELSE {})
      /\ motions' = motions \cup ((IF rawActive THEN {"raw"} ELSE {}) \cup (IF Hooked THEN {"point"} ELSE {}))
      /\ mixed' = (mixed \/ {"point", "raw"} \subseteq motions')
      /\ UNCHANGED <<source, batch, sent, got, moved, skipped>>
  BY <1>2 DEF WinMoveDoes
<1>. DEFINE a == Len(got)
            w == batch \o queue
            u == batch \o AfterHook
            v == batch \o queue'
<1>4. Waiting = w /\ Waiting' = v /\ Place' = Place
  BY <1>3 DEF Waiting, Place
<1>5. Base' = Base
  BY <1>1, <1>3 DEF Base
<1>6. "transition" \notin full' => (Loosely(w, sent, a) => Loosely(v, sent, a))
  <2>. SUFFICES ASSUME "transition" \notin full', Loosely(w, sent, a) PROVE Loosely(v, sent, a)
    OBVIOUS
  <2>1. Loosely(u, sent, a)
    BY <1>3, HookContinues
  <2>2. CASE rawActive
    <3>1. queue' = Enqueue(AfterHook, raw) /\ Overflow(AfterHook, raw) # {"transition"}
      BY <1>3, <2>2
    <3>. QED
      BY <1>1, <1>3, <2>1, <3>1, EnqueueMotionContinues
  <2>3. CASE ~rawActive
    BY <1>3, <2>1, <2>3
  <2>. QED
    BY <2>2, <2>3
<1>7. ASSUME full' = {}, ~mixed', Exactly(w, sent, a, Place, made, Base)
      PROVE  Exactly(v, sent, a, Place, made + 1, Base)
  <2>1. CASE rawActive
    <3>1. ~Hooked
      BY <1>3, <1>7, <2>1
    <3>2. queue' = Enqueue(queue, raw) /\ Overflow(queue, raw) = {}
      BY <1>3, <1>7, <2>1, <3>1, HookIs
    <3>3. Onto(made, raw, Base) = made + 1
      BY <1>1, <1>3 DEF Onto
    <3>4. Overflow(queue, raw) # {"transition"} /\ raw \in RawEvent \cup PointEvent
      BY <1>3, <3>2
    <3>5. Exactly(batch \o Enqueue(queue, raw), sent, a, Place, Onto(made, raw, Base), Base)
      BY <1>1, <1>7, <3>2, <3>4, EnqueueMotionContinues
    <3>. QED
      BY <3>2, <3>3, <3>5
  <2>2. CASE ~rawActive
    <3>1. Hooked /\ HookOverflow = {} /\ HookOverflow # {"transition"}
      BY <1>3, <1>7, <2>2 DEF Hooked
    <3>2. queue' = AfterHook
      BY <1>3, <2>2
    <3>3. Exactly(u, sent, a, Place, made + 1, Base)
      BY <1>7, <3>1, HookContinues
    <3>. QED
      BY <3>2, <3>3
  <2>. QED
    BY <2>1, <2>2
<1>. HIDE DEF w, u, v
<1>8. full \subseteq full' /\ a = Len(got') /\ (~mixed' => ~mixed)
  BY <1>3
<1>9. "transition" \notin full' => Begins(got', sent') /\ Loosely(Waiting', sent', Len(got'))
  BY <1>3, <1>4, <1>6, <1>8 DEF QueueIsComplete
<1>10. full' = {} /\ ~mixed' =>
           BeginsExactly(got', sent') /\ Exactly(Waiting', sent', Len(got'), Place', made', Base')
  BY <1>3, <1>4, <1>5, <1>7, <1>8 DEF QueueIsComplete
<1>. QED
  BY <1>9, <1>10 DEF QueueIsComplete

\* The first packet of a tablet moves only the local cursor: no point waits.
LEMMA WinCompleteTablet ==
    ASSUME PathTyped, QueuesAre, QueueIsComplete, MotionIsKnown, source = "windows", WinTablet
    PROVE  QueueIsComplete'
<1>1. /\ batch \in Seq(Event) /\ queue \in Seq(Event) /\ sent \in Seq(LogEntry) /\ made \in Int /\ Base \in Int
      /\ localX \in Nat /\ AfterHook \in Seq(Event)
  BY HookIs DEF PathTyped, Base
<1>2. /\ tapped /\ queue' = AfterHook /\ full' = full \cup HookOverflow
      /\ mixed' = (mixed \/ {"point", "raw"} \subseteq motions') /\ localX' = localX + 1
      /\ made' = (IF Hooked THEN made + 1 ELSE made)
      /\ UNCHANGED <<source, batch, sent, got, moved, skipped>>
  BY DEF WinTablet, QueuesMotion
<1>. DEFINE a == Len(got)
            w == batch \o queue
            v == batch \o AfterHook
<1>3. Waiting = w /\ Waiting' = v /\ Place' = Place
  BY <1>2 DEF Waiting, Place
<1>4. "transition" \notin full' => (Loosely(w, sent, a) => Loosely(v, sent, a))
  BY <1>2, HookContinues
<1>5. ASSUME full' = {}, ~mixed', Exactly(w, sent, a, Place, made, Base)
      PROVE  Exactly(v, sent, a, Place, made', Base')
  <2>1. CASE Hooked
    <3>1. Base' = Base /\ made' = made + 1
      BY <1>1, <1>2, <2>1 DEF Base
    <3>2. HookOverflow = {} /\ HookOverflow # {"transition"}
      BY <1>2, <1>5
    <3>. QED
      BY <1>5, <2>1, <3>1, <3>2, HookContinues
  <2>2. CASE ~Hooked
    <3>1. KindsIn(Waiting, motions) /\ "point" \notin motions
      BY <1>2, <1>5, <2>2 DEF MotionIsKnown
    <3>2. v = w /\ made' = made
      BY <1>2, <2>2, HookIs
    <3>3. w \in Seq(Event)
      BY <1>1
    <3>. HIDE DEF w, v
    <3>4. Exactly(w, sent, a, Place, made, Base')
      BY <1>3, <1>5, <3>1, <3>3, BaseIsMoot
    <3>. QED
      BY <3>2, <3>4
  <2>. QED
    BY <2>1, <2>2
<1>. HIDE DEF w, v
<1>8. full \subseteq full' /\ a = Len(got') /\ (~mixed' => ~mixed)
  BY <1>2
<1>9. "transition" \notin full' => Begins(got', sent') /\ Loosely(Waiting', sent', Len(got'))
  BY <1>2, <1>3, <1>4, <1>8 DEF QueueIsComplete
<1>10. full' = {} /\ ~mixed' =>
           BeginsExactly(got', sent') /\ Exactly(Waiting', sent', Len(got'), Place', made', Base')
  BY <1>2, <1>3, <1>5, <1>8 DEF QueueIsComplete
<1>. QED
  BY <1>9, <1>10 DEF QueueIsComplete

LEMMA WinCompleteProcess ==
    ASSUME PathTyped, QueuesAre, QueueIsComplete, MotionIsKnown, source = "windows", WinProcess
    PROVE  QueueIsComplete'
<1>1. /\ batch \in Seq(Event) /\ queue \in Seq(Event) /\ sent \in Seq(LogEntry) /\ made \in Int
      /\ got \in Seq(LogEntry) /\ Place \in Int /\ Base \in Int
  BY DEF PathTyped, Place, Base
<1>2. PICK e : e = Head(batch)
  OBVIOUS
<1>. DEFINE a == Len(got)
            w == batch \o queue
            v == Tail(batch) \o queue
<1>3. WinProcessDoes(e) /\ batch # <<>> /\ batch' = Tail(batch) /\ e \in Event
      /\ UNCHANGED <<source, queue, sent, made, localX, mixed, full>>
  <2>1. WinProcessDoes(e)
    BY <1>2, WinProcessIs
  <2>. QED
    BY <2>1 DEF WinProcessDoes
<1>4. Waiting = w /\ Waiting' = v /\ Base' = Base
  BY <1>3 DEF Waiting, Base
<1>5. a \in Nat /\ DOMAIN got = 1..a /\ Len(sent) \in Nat
  BY <1>1
<1>6. batch # <<>>
  BY <1>3
<1>7. w \in Seq(Event) /\ v \in Seq(Event) /\ Popped(w, v, e)
  BY <1>1, <1>2, <1>6, JoinPop, JoinIs
<1>. HIDE DEF w, v
<1>8. PICK n \in Nat : n = a
  BY <1>5
<1>9. Loosely(w, sent, a) =>
          /\ Loosely(v, sent, a + Counted(e))
          /\ e.kind = "key" => a + 1 \in 1..Len(sent) /\ sent[a + 1][1] = e.key /\ sent[a + 1][2] = e.down
  BY <1>1, <1>7, <1>8, PoppedLoosely
<1>10. Exactly(w, sent, a, Place, made, Base) =>
          /\ Exactly(v, sent, a + Counted(e), Onto(Place, e, Base), made, Base)
          /\ e.kind = "key" => /\ a + 1 \in 1..Len(sent)
                               /\ sent[a + 1][1] = e.key /\ sent[a + 1][2] = e.down /\ sent[a + 1][3] = Place
  <2>1. PICK x, y, c \in Int : x = Place /\ y = made /\ c = Base
    BY <1>1
  <2>2. Exactly(w, sent, n, x, y, c) =>
          /\ Exactly(v, sent, n + Counted(e), Onto(x, e, c), y, c)
          /\ e.kind = "key" => /\ n + 1 \in 1..Len(sent)
                               /\ sent[n + 1][1] = e.key /\ sent[n + 1][2] = e.down /\ sent[n + 1][3] = x
    BY <1>1, <1>7, PoppedExactly
  <2>. QED
    BY <1>8, <2>1, <2>2
<1>11. CASE e \in KeyEvent /\ e.kind = "key" /\ Deliver(e) /\ UNCHANGED skipped
  <2>. DEFINE z == <<e.key, e.down, Place>>
              t == Append(got, z)
  <2>1. got' = t /\ Place' = Place
    BY <1>11, DeliverKey DEF Place
  <2>2. z \in LogEntry /\ z[1] = e.key /\ z[2] = e.down /\ z[3] = Place
    BY <1>1, <1>11 DEF LogEntry, KeyEvent
  <2>3. Counted(e) = 1 /\ Onto(Place, e, Base) = Place
    BY <1>11 DEF Counted, Onto
  <2>. HIDE DEF z
  <2>4. Len(t) = a + 1 /\ DOMAIN t = 1..(a + 1) /\ t[a + 1] = z /\ \A i \in 1..a : t[i] = got[i]
    BY <1>1, <1>5, <2>2
  <2>. HIDE DEF t
  <2>5. Begins(got, sent) /\ Loosely(w, sent, a) => Begins(t, sent)
    BY <1>5, <1>9, <1>11, <2>2, <2>4 DEF Begins
  <2>6. BeginsExactly(got, sent) /\ Exactly(w, sent, a, Place, made, Base) => BeginsExactly(t, sent)
    <3>. SUFFICES ASSUME BeginsExactly(got, sent), Exactly(w, sent, a, Place, made, Base), NEW i \in DOMAIN t
                  PROVE  t[i] = sent[i]
      BY DEF BeginsExactly
    <3>1. i \in 1..a \/ i = a + 1
      BY <1>5, <2>4
    <3>2. sent[a + 1] \in LogEntry /\ sent[a + 1][1] = z[1] /\ sent[a + 1][2] = z[2] /\ sent[a + 1][3] = z[3]
      BY <1>1, <1>10, <1>11, <2>2
    <3>3. sent[a + 1] = z
      BY <2>2, <3>2 DEF LogEntry
    <3>. QED
      BY <1>5, <2>4, <3>1, <3>3 DEF BeginsExactly
  <2>7. "transition" \notin full' => Begins(got', sent') /\ Loosely(Waiting', sent', Len(got'))
    BY <1>3, <1>4, <1>9, <2>1, <2>3, <2>4, <2>5 DEF QueueIsComplete
  <2>8. full' = {} /\ ~mixed' =>
            BeginsExactly(got', sent') /\ Exactly(Waiting', sent', Len(got'), Place', made', Base')
    BY <1>3, <1>4, <1>10, <2>1, <2>3, <2>4, <2>6 DEF QueueIsComplete
  <2>. QED
    BY <2>7, <2>8 DEF QueueIsComplete
<1>12. CASE e.kind # "key" /\ UNCHANGED <<held, got>> /\ (full = {} /\ ~mixed => Place' = Onto(Place, e, Base))
  <2>1. Counted(e) = 0 /\ a + 0 = a /\ Len(got') = a
    BY <1>5, <1>12 DEF Counted
  <2>2. "transition" \notin full' => Begins(got', sent') /\ Loosely(Waiting', sent', Len(got'))
    BY <1>3, <1>4, <1>9, <1>12, <2>1 DEF QueueIsComplete
  <2>3. full' = {} /\ ~mixed' =>
            BeginsExactly(got', sent') /\ Exactly(Waiting', sent', Len(got'), Place', made', Base')
    BY <1>3, <1>4, <1>10, <1>12, <2>1 DEF QueueIsComplete
  <2>. QED
    BY <2>2, <2>3 DEF QueueIsComplete
<1>13. CASE /\ e \in RawEvent /\ e.kind = "raw" /\ moved' = moved + e.dx
            /\ UNCHANGED <<held, got, lastPoint, skipped>>
  <2>1. Place' = Place + e.dx
    <3>1. PICK m \in Int, z \in Int, d \in Int : m = moved /\ z = skipped /\ d = e.dx
      BY <1>13, EventKinds DEF PathTyped
    <3>2. Place' = (m + d) + z /\ Place = m + z
      BY <1>13, <3>1 DEF Place
    <3>. QED
      BY <3>1, <3>2
  <2>2. Onto(Place, e, Base) = Place + e.dx
    BY <1>13 DEF Onto
  <2>. QED
    BY <1>12, <1>13, <2>1, <2>2
<1>14. CASE /\ e.kind = "point" /\ UNCHANGED <<held, got>>
            /\ (lastPoint # NoPoint => Place = lastPoint - Base) => Place' = e.x - Base
  <2>1. full = {} /\ ~mixed => Place' = e.x - Base
    BY <1>14 DEF MotionIsKnown
  <2>2. Onto(Place, e, Base) = e.x - Base
    BY <1>14 DEF Onto
  <2>. QED
    BY <1>12, <1>14, <2>1, <2>2
<1>. QED
  BY <1>3, <1>11, <1>13, <1>14 DEF WinProcessDoes

LEMMA WinCompleteKept ==
    ASSUME PathTyped, QueuesAre, QueueIsComplete, MotionIsKnown, source = "windows", PathNext
    PROVE  QueueIsComplete'
<1>1. CASE Start
  <2>1. /\ queue = <<>> /\ batch = <<>>
        /\ UNCHANGED <<source, sent, queue, batch, got, moved, skipped, made, mixed, full>>
    BY <1>1 DEF Start
  <2>2. Waiting' = Waiting /\ Place' = Place /\ Waiting = <<>>
    BY <2>1 DEF Waiting, Place
  <2>3. Exactly(Waiting, sent, Len(got), Place, made, Base) =>
            Exactly(Waiting, sent, Len(got), Place, made, Base')
    <3>1. Waiting \in Seq(Event) /\ KindsIn(Waiting, {}) /\ "point" \notin {}
      BY <2>2 DEF KindsIn
    <3>. QED
      BY <3>1, BaseIsMoot
  <2>. QED
    BY <2>1, <2>2, <2>3 DEF QueueIsComplete
<1>2. CASE WinTake
  <2>1. /\ batch = <<>> /\ batch' = queue /\ queue' = <<>>
        /\ UNCHANGED <<source, sent, got, moved, skipped, localX, mixed, made, full>>
    BY <1>2 DEF WinTake, motionVars
  <2>2. Waiting' = Waiting /\ Place' = Place /\ Base' = Base
    BY <2>1, JoinsWithNothing DEF Waiting, Place, Base, PathTyped
  <2>. QED
    BY <2>1, <2>2 DEF QueueIsComplete
<1>3. CASE Stop
  <2>1. UNCHANGED <<source, sent, queue, batch, got, moved, skipped, localX, mixed, made, full>>
    BY <1>3 DEF Stop
  <2>2. Waiting' = Waiting /\ Place' = Place /\ Base' = Base
    BY <2>1 DEF Waiting, Place, Base
  <2>. QED
    BY <2>1, <2>2 DEF QueueIsComplete
<1>4. ~MacTapDisabled /\ ~LinuxRead /\ ~LinuxRound
  BY DEF MacTapDisabled, LinuxRead, LinuxRound
<1>. QED
  BY <1>1, <1>2, <1>3, <1>4, WinCompletePress, WinCompleteMove, WinCompleteTablet, WinCompleteProcess DEF PathNext

\* Motion stays known: what a mouse or a tablet queues is put on record.
LEMMA HookKinds ==
    ASSUME PathTyped, HookOverflow = {}, KindsIn(batch \o queue, motions), NEW ks, motions \subseteq ks,
           Hooked => "point" \in ks
    PROVE  KindsIn(batch \o AfterHook, ks)
<1>1. batch \in Seq(Event) /\ queue \in Seq(Event)
  BY DEF PathTyped
<1>2. CASE Hooked
  <2>1. /\ Overflow(queue, Point) = {} /\ AfterHook = Enqueue(queue, Point)
        /\ Point \in Event /\ Point.kind \in ks \cup {"key"}
    BY <1>2, HookIs DEF Event
  <2>. QED
    BY <1>1, <2>1, EnqueueKinds
<1>3. CASE ~Hooked
  BY <1>3, HookIs DEF KindsIn
<1>. QED
  BY <1>2, <1>3

LEMMA WinKnownPress ==
    ASSUME PathTyped, QueuesAre, MotionIsKnown, source = "windows", NEW k \in Keys, Press(k)
    PROVE  MotionIsKnown'
<1>0. PICK d \in BOOLEAN : d = (k \notin phys)
  OBVIOUS
<1>1. /\ UNCHANGED <<source, tapped, batch, rawActive, rawAbsolute, lastPoint, localX, motions, mixed, moved,
                     skipped, made>>
      /\ \/ UNCHANGED <<queue, full>>
         \/ \E e \in KeyEvent : queue' = Enqueue(queue, e) /\ full' = full \cup Overflow(queue, e)
  <2>1. CASE ~tapped
    BY <1>0, <2>1, PressIs
  <2>2. CASE tapped
    <3>1. PICK e : e = WinEvent(k, d)
      OBVIOUS
    <3>2. WinPressDoes(k, d, e)
      BY <1>0, <2>2, <3>1, WinPressIs
    <3>. QED
      BY <3>2 DEF WinPressDoes
  <2>. QED
    BY <2>1, <2>2
<1>2. Place' = Place /\ Base' = Base /\ (Hooked' <=> Hooked)
  BY <1>1 DEF Place, Base, Hooked
<1>3. full' = {} => full = {}
  BY <1>1
<1>4. full' = {} => KindsIn(Waiting', motions')
  <2>. SUFFICES ASSUME full' = {} PROVE KindsIn(Waiting', motions')
    OBVIOUS
  <2>1. KindsIn(batch \o queue, motions)
    BY <1>3 DEF MotionIsKnown, Waiting
  <2>2. CASE UNCHANGED <<queue, full>>
    BY <1>1, <2>1, <2>2 DEF Waiting
  <2>3. CASE \E e \in KeyEvent : queue' = Enqueue(queue, e) /\ full' = full \cup Overflow(queue, e)
    <3>1. PICK e \in KeyEvent : queue' = Enqueue(queue, e) /\ full' = full \cup Overflow(queue, e)
      BY <2>3
    <3>2. e \in Event /\ e.kind = "key" /\ Overflow(queue, e) = {}
      BY <3>1 DEF Event, KeyEvent
    <3>3. batch \in Seq(Event) /\ queue \in Seq(Event) /\ motions \subseteq motions
      BY DEF PathTyped
    <3>4. KindsIn(batch \o Enqueue(queue, e), motions)
      BY <2>1, <3>2, <3>3, EnqueueKinds
    <3>. QED
      BY <1>1, <3>1, <3>4 DEF Waiting
  <2>. QED
    BY <1>1, <2>2, <2>3
<1>. QED
  BY <1>1, <1>2, <1>3, <1>4 DEF MotionIsKnown

LEMMA WinKnownMove ==
    ASSUME PathTyped, QueuesAre, MotionIsKnown, source = "windows", WinMove
    PROVE  MotionIsKnown'
<1>1. PICK raw : WinMoveDoes(raw)
  BY WinMoveIs
<1>2. /\ raw \in RawEvent /\ raw.kind = "raw" /\ made' = made + 1 /\ localX' = localX + 1 /\ rawAbsolute' = FALSE
      /\ queue' = (IF rawActive THEN Enqueue(AfterHook, raw) ELSE AfterHook)
      /\ full' = full \cup HookOverflow \cup (IF rawActive THEN Overflow(AfterHook, raw) ELSE {})
      /\ motions' = motions \cup ((IF rawActive THEN {"raw"} ELSE {}) \cup (IF Hooked THEN {"point"} ELSE {}))
      /\ mixed' = (mixed \/ {"point", "raw"} \subseteq motions')
      /\ UNCHANGED <<source, tapped, batch, rawActive, lastPoint, moved, skipped>>
  BY <1>1 DEF WinMoveDoes
<1>. SUFFICES ASSUME full' = {} PROVE MotionIsKnown'
  BY DEF MotionIsKnown
<1>3. /\ full = {} /\ HookOverflow = {} /\ (rawActive => Overflow(AfterHook, raw) = {})
  BY <1>2
<1>4. /\ KindsIn(batch \o queue, motions)
      /\ lastPoint # NoPoint => "point" \in motions
      /\ tapped /\ ~Hooked /\ "point" \in motions => mixed
      /\ ~mixed /\ lastPoint # NoPoint => Place = lastPoint - Base
  BY <1>3 DEF MotionIsKnown, Waiting
<1>5. Place' = Place /\ Base' = Base
  <2>1. localX \in Int /\ made \in Int
    BY DEF PathTyped
  <2>. QED
    BY <1>2, <2>1 DEF Place, Base
<1>6. motions \subseteq motions' /\ (Hooked => "point" \in motions') /\ (rawActive => "raw" \in motions')
  BY <1>2
<1>7. KindsIn(Waiting', motions')
  <2>1. KindsIn(batch \o AfterHook, motions')
    BY <1>3, <1>4, <1>6, HookKinds
  <2>2. CASE rawActive
    <3>1. queue' = Enqueue(AfterHook, raw) /\ Overflow(AfterHook, raw) = {}
      BY <1>2, <1>3, <2>2
    <3>2. raw \in Event /\ raw.kind \in motions' \cup {"key"}
      BY <1>2, <1>6, <2>2 DEF Event
    <3>3. batch \in Seq(Event) /\ AfterHook \in Seq(Event) /\ motions' \subseteq motions'
      BY HookIs DEF PathTyped
    <3>4. KindsIn(batch \o Enqueue(AfterHook, raw), motions')
      BY <2>1, <3>1, <3>2, <3>3, EnqueueKinds
    <3>. QED
      BY <1>2, <3>1, <3>4 DEF Waiting
  <2>3. CASE ~rawActive
    BY <1>2, <2>1, <2>3 DEF Waiting
  <2>. QED
    BY <2>2, <2>3
<1>8. ~Hooked' /\ "point" \in motions' => mixed'
  <2>. SUFFICES ASSUME ~Hooked', "point" \in motions' PROVE mixed'
    OBVIOUS
  <2>1. rawActive
    BY <1>2 DEF Hooked
  <2>2. "raw" \in motions'
    BY <1>6, <2>1
  <2>. QED
    BY <1>2, <2>2
<1>9. ~mixed' => ~mixed
  BY <1>2
<1>. QED
  BY <1>2, <1>4, <1>5, <1>6, <1>7, <1>8, <1>9 DEF MotionIsKnown

LEMMA WinKnownTablet ==
    ASSUME PathTyped, QueuesAre, MotionIsKnown, source = "windows", WinTablet
    PROVE  MotionIsKnown'
<1>1. /\ tapped /\ rawActive /\ queue' = AfterHook /\ full' = full \cup HookOverflow
      /\ motions' = motions \cup (IF Hooked THEN {"point"} ELSE {})
      /\ mixed' = (mixed \/ {"point", "raw"} \subseteq motions') /\ localX' = localX + 1 /\ rawAbsolute' = TRUE
      /\ made' = (IF Hooked THEN made + 1 ELSE made)
      /\ UNCHANGED <<source, tapped, batch, rawActive, lastPoint, moved, skipped>>
  BY DEF WinTablet, QueuesMotion
<1>. SUFFICES ASSUME full' = {} PROVE MotionIsKnown'
  BY DEF MotionIsKnown
<1>2. full = {} /\ HookOverflow = {}
  BY <1>1
<1>3. /\ KindsIn(batch \o queue, motions)
      /\ lastPoint # NoPoint => "point" \in motions
      /\ tapped /\ ~Hooked /\ "point" \in motions => mixed
      /\ ~mixed /\ lastPoint # NoPoint => Place = lastPoint - Base
  BY <1>2 DEF MotionIsKnown, Waiting
<1>4. Place' = Place /\ (Hooked => Base' = Base) /\ Hooked'
  <2>1. localX \in Int /\ made \in Int
    BY DEF PathTyped
  <2>. QED
    BY <1>1, <2>1 DEF Place, Base, Hooked
<1>5. KindsIn(Waiting', motions')
  <2>1. motions \subseteq motions' /\ (Hooked => "point" \in motions')
    BY <1>1
  <2>2. KindsIn(batch \o AfterHook, motions')
    BY <1>2, <1>3, <2>1, HookKinds
  <2>. QED
    BY <1>1, <2>2 DEF Waiting
<1>6. ~mixed' /\ lastPoint' # NoPoint => Place' = lastPoint' - Base'
  <2>. SUFFICES ASSUME ~mixed', lastPoint # NoPoint PROVE Place' = lastPoint' - Base'
    BY <1>1
  <2>1. ~mixed /\ "point" \in motions
    BY <1>1, <1>3
  <2>2. Hooked
    BY <1>1, <1>3, <2>1
  <2>. QED
    BY <1>1, <1>3, <1>4, <2>1, <2>2
<1>. QED
  BY <1>1, <1>3, <1>4, <1>5, <1>6 DEF MotionIsKnown

LEMMA WinKnownProcess ==
    ASSUME PathTyped, QueuesAre, MotionIsKnown, source = "windows", WinProcess
    PROVE  MotionIsKnown'
<1>1. PICK e : e = Head(batch)
  OBVIOUS
<1>2. WinProcessDoes(e)
  BY <1>1, WinProcessIs
<1>3. /\ batch # <<>> /\ batch' = Tail(batch) /\ e \in Event
      /\ UNCHANGED <<source, tapped, queue, rawActive, rawAbsolute, localX, motions, mixed, made, full>>
  BY <1>2 DEF WinProcessDoes
<1>. SUFFICES ASSUME full' = {} PROVE MotionIsKnown'
  BY DEF MotionIsKnown
<1>4. /\ KindsIn(Waiting, motions)
      /\ lastPoint # NoPoint => "point" \in motions
      /\ {"point", "raw"} \subseteq motions => mixed
      /\ tapped /\ ~Hooked /\ "point" \in motions => mixed
      /\ ~mixed /\ lastPoint # NoPoint => Place = lastPoint - Base
  BY <1>3 DEF MotionIsKnown
<1>5. Base' = Base /\ (Hooked' <=> Hooked)
  BY <1>3 DEF Base, Hooked
<1>6. KindsIn(Waiting', motions') /\ e.kind \in motions \cup {"key"}
  <2>1. batch \in Seq(Event) /\ queue \in Seq(Event)
    BY DEF PathTyped
  <2>2. Popped(Waiting, Waiting', e) /\ Waiting \in Seq(Event) /\ Waiting' \in Seq(Event)
    <3>1. /\ Tail(batch) \in Seq(Event) /\ Popped(batch \o queue, Tail(batch) \o queue, e)
      BY <1>1, <1>3, <2>1, JoinPop
    <3>2. batch \o queue \in Seq(Event) /\ Tail(batch) \o queue \in Seq(Event)
      BY <2>1, <3>1, JoinIs
    <3>. QED
      BY <1>3, <3>1, <3>2 DEF Waiting
  <2>. QED
    BY <1>3, <1>4, <2>2, PoppedKinds
<1>7. CASE e.kind = "key" /\ Deliver(e) /\ UNCHANGED <<lastPoint, skipped>>
  <2>1. Place' = Place
    BY <1>7 DEF Deliver, Place
  <2>. QED
    BY <1>3, <1>4, <1>5, <1>6, <1>7, <2>1 DEF MotionIsKnown
<1>8. CASE e.kind = "raw" /\ UNCHANGED lastPoint
  <2>1. lastPoint # NoPoint => mixed
    BY <1>4, <1>6, <1>8
  <2>. QED
    BY <1>3, <1>4, <1>5, <1>6, <1>8, <2>1 DEF MotionIsKnown
<1>9. CASE /\ e.kind = "point" /\ lastPoint' = e.x
           /\ (lastPoint # NoPoint => Place = lastPoint - Base) => Place' = e.x - Base
  <2>1. "point" \in motions
    BY <1>6, <1>9
  <2>2. ~mixed => Place' = e.x - Base
    BY <1>4, <1>9
  <2>. QED
    BY <1>3, <1>4, <1>5, <1>6, <1>9, <2>1, <2>2 DEF MotionIsKnown
<1>. QED
  BY <1>2, <1>7, <1>8, <1>9 DEF WinProcessDoes

LEMMA WinKnownKept ==
    ASSUME PathTyped, QueuesAre, MotionIsKnown, source = "windows", PathNext
    PROVE  MotionIsKnown'
<1>1. CASE Start
  <2>1. /\ queue' = <<>> /\ batch' = <<>> /\ lastPoint' = NoPoint /\ motions' = {}
    BY <1>1 DEF Start
  <2>2. KindsIn(Waiting', motions')
    BY <2>1 DEF Waiting, KindsIn
  <2>. QED
    BY <2>1, <2>2 DEF MotionIsKnown
<1>2. CASE WinTake
  <2>1. /\ batch = <<>> /\ batch' = queue /\ queue' = <<>>
        /\ UNCHANGED <<source, tapped, rawActive, rawAbsolute, lastPoint, motions, moved, skipped, localX, mixed,
                       made, full>>
    BY <1>2 DEF WinTake, motionVars
  <2>2. Waiting' = Waiting /\ Place' = Place /\ Base' = Base /\ (Hooked' <=> Hooked)
    BY <2>1, JoinsWithNothing DEF Waiting, Place, Base, Hooked, PathTyped
  <2>. QED
    BY <2>1, <2>2 DEF MotionIsKnown
<1>3. CASE Stop
  <2>1. /\ ~tapped'
        /\ UNCHANGED <<source, queue, batch, lastPoint, motions, moved, skipped, localX, mixed, made, full>>
    BY <1>3 DEF Stop
  <2>2. Waiting' = Waiting /\ Place' = Place /\ Base' = Base
    BY <2>1 DEF Waiting, Place, Base
  <2>. QED
    BY <2>1, <2>2 DEF MotionIsKnown
<1>4. ~MacTapDisabled /\ ~LinuxRead /\ ~LinuxRound
  BY DEF MacTapDisabled, LinuxRead, LinuxRound
<1>. QED
  BY <1>1, <1>2, <1>3, <1>4, WinKnownPress, WinKnownMove, WinKnownTablet, WinKnownProcess DEF PathNext

(***************************************************************************)
(* The same for linux.                                                     *)
(***************************************************************************)
LEMMA LinuxPressIs ==
    ASSUME PathTyped, QueuesAre, source = "linux", NEW k \in Keys, Press(k), tapped,
           NEW d \in BOOLEAN, d = (k \notin phys)
    PROVE  /\ phys' = (IF d THEN phys \cup {k} ELSE phys \ {k})
           /\ seen' = (IF d THEN seen \cup {k} ELSE seen \ {k})
           /\ settled' = (settled /\ ChordKnown /\ Ctrls \subseteq seen')
           /\ passed' = (passed /\ (ChordKnown => (settled => ~grabbed)))
           /\ missed' = missed \ {k} /\ queue' = Append(queue, Key(k, d, {}))
           /\ Key(k, d, {}) \in KeyEvent /\ Key(k, d, {}) \in Event
           /\ Key(k, d, {}).key = k /\ Key(k, d, {}).down = d /\ Key(k, d, {}).mods = {}
           /\ UNCHANGED <<source, tapped, batch, grabbed, frame, mods, reclaim, held, full>>
<1>1. /\ phys' = After(phys, k, d) /\ seen' = After(seen, k, d) /\ LinuxPress(k, d)
      /\ settled' = (settled /\ ChordKnown /\ Ctrls \subseteq seen')
      /\ UNCHANGED <<source, tapped, batch, grabbed, frame>>
  BY PressIs
<1>2. /\ queue' = Append(queue, Key(k, d, {})) /\ missed' = missed \ {k}
      /\ passed' = (passed /\ (ChordKnown => (settled => ~grabbed)))
      /\ UNCHANGED <<mods, reclaim, held, full>>
  BY <1>1 DEF LinuxPress, Passes
<1>3. /\ Key(k, d, {}) \in KeyEvent
      /\ Key(k, d, {}).key = k /\ Key(k, d, {}).down = d /\ Key(k, d, {}).mods = {}
  <2>1. \A x \in BOOLEAN : /\ Key(k, x, {}) \in KeyEvent /\ Key(k, x, {}).key = k
                            /\ Key(k, x, {}).down = x /\ Key(k, x, {}).mods = {}
    BY DEF Key, KeyEvent
  <2>. QED
    BY <2>1
<1>4. Key(k, d, {}) \in Event
  BY <1>3 DEF Event
<1>. QED
  BY <1>1, <1>2, <1>3, <1>4, KeySets

LEMMA LinuxPressMirrors ==
    ASSUME PathTyped, QueuesAre, LinMirrors, source = "linux", NEW k \in Keys, Press(k), tapped, passed
    PROVE  LinMirrors' /\ passed'
<1>0. PICK d \in BOOLEAN : d = (k \notin phys)
  OBVIOUS
<1>1. PICK e : e = Key(k, d, {})
  OBVIOUS
<1>2. /\ phys' = (IF d THEN phys \cup {k} ELSE phys \ {k})
      /\ seen' = (IF d THEN seen \cup {k} ELSE seen \ {k})
      /\ settled' = (settled /\ ChordKnown /\ Ctrls \subseteq seen')
      /\ passed' = (passed /\ (ChordKnown => (settled => ~grabbed)))
      /\ queue' = Append(queue, e) /\ e \in Event /\ e.key = k /\ e.down = d
      /\ UNCHANGED <<source, tapped, batch, grabbed, frame, mods, reclaim>>
  BY <1>0, <1>1, LinuxPressIs
<1>3. /\ Len(queue) \in Nat /\ DOMAIN queue = 1..Len(queue)
      /\ Len(queue') = Len(queue) + 1 /\ DOMAIN queue' = 1..(Len(queue) + 1)
      /\ queue'[Len(queue) + 1] = e /\ \A i \in 1..Len(queue) : queue'[i] = queue[i]
  BY <1>2 DEF PathTyped
<1>4. ASSUME NEW c \in Ctrls
      PROVE  /\ c \in seen => c \in phys
             /\ \A i \in DOMAIN queue : NewestOf(queue, c, i) => (queue[i].down <=> c \in seen)
             /\ (\A i \in DOMAIN queue : queue[i].key # c) => (c \in mods <=> c \in seen)
  BY DEF LinMirrors
<1>5. ASSUME NEW c \in Ctrls
      PROVE  /\ c \in seen' => c \in phys'
             /\ \A i \in DOMAIN queue' : NewestOf(queue', c, i) => (queue'[i].down <=> c \in seen')
             /\ (\A i \in DOMAIN queue' : queue'[i].key # c) => (c \in mods' <=> c \in seen')
  <2>1. c \in seen' => c \in phys'
    BY <1>2, <1>4
  <2>2. ASSUME NEW i \in DOMAIN queue', NewestOf(queue', c, i) PROVE queue'[i].down <=> c \in seen'
    <3>1. queue'[i].key = c /\ \A j \in 1..(Len(queue) + 1) : j > i => queue'[j].key # c
      BY <1>3, <2>2 DEF NewestOf
    <3>2. CASE i = Len(queue) + 1
      BY <1>2, <1>3, <3>1, <3>2
    <3>3. CASE i \in 1..Len(queue)
      <4>1. c # k
        BY <1>2, <1>3, <3>1, <3>3
      <4>2. NewestOf(queue, c, i)
        BY <1>3, <3>1, <3>3 DEF NewestOf
      <4>. QED
        BY <1>2, <1>3, <1>4, <3>3, <4>1, <4>2
    <3>. QED
      BY <1>3, <3>2, <3>3
  <2>3. ASSUME \A i \in DOMAIN queue' : queue'[i].key # c PROVE c \in mods' <=> c \in seen'
    <3>1. c # k /\ \A i \in DOMAIN queue : queue[i].key # c
      BY <1>2, <1>3, <2>3
    <3>. QED
      BY <1>2, <1>4, <3>1
  <2>. QED
    BY <2>1, <2>2, <2>3
<1>6. ASSUME settled'
      PROVE  /\ Ctrls \subseteq seen' /\ Ctrls \subseteq mods' /\ ~grabbed' /\ frame' = "PassThrough"
             /\ \A i \in DOMAIN queue' : queue'[i].key \notin Ctrls
  <2>1. settled /\ Ctrls \subseteq seen'
    BY <1>2, <1>6
  <2>2. /\ Ctrls \subseteq seen /\ Ctrls \subseteq mods /\ ~grabbed /\ frame = "PassThrough"
        /\ \A i \in DOMAIN queue : queue[i].key \notin Ctrls
    BY <2>1 DEF LinMirrors
  <2>3. k \notin Ctrls
    BY <1>0, <1>2, <1>4, <2>1, <2>2
  <2>4. ASSUME NEW i \in DOMAIN queue' PROVE queue'[i].key \notin Ctrls
    <3>1. i \in 1..Len(queue) \/ i = Len(queue) + 1
      BY <1>3
    <3>. QED
      BY <1>2, <1>3, <2>2, <2>3, <3>1
  <2>. QED
    BY <1>2, <2>1, <2>2, <2>4
<1>7. Ctrls \subseteq mods' => reclaim'
  BY <1>2 DEF LinMirrors
<1>8. LinMirrors'
  BY <1>2, <1>5, <1>6, <1>7 DEF LinMirrors
<1>9. passed'
  BY <1>2 DEF LinMirrors
<1>. QED
  BY <1>8, <1>9

LEMMA LinuxReadMirrors ==
    ASSUME PathTyped, QueuesAre, LinMirrors, source = "linux", LinuxRead
    PROVE  LinMirrors'
<1>1. PICK h : h = Head(queue)
  OBVIOUS
<1>2. /\ tapped /\ queue # <<>> /\ queue' = Tail(queue) /\ h \in KeyEvent
      /\ mods' = (IF h.key \in Ctrls THEN After(mods, h.key, h.down) ELSE mods)
      /\ mods' \subseteq Ctrls
      /\ reclaim' = ((reclaim \/ Ctrls \subseteq mods') /\ mods' \cap Ctrls # {})
      /\ frame' = (IF reclaim \/ Ctrls \subseteq mods' THEN frame ELSE "Suppress")
      /\ UNCHANGED <<source, phys, tapped, grabbed, seen, settled>>
  BY <1>1, LinuxReadIs
<1>3. /\ Len(queue) \in Nat /\ DOMAIN queue = 1..Len(queue) /\ 1 \in DOMAIN queue /\ queue[1] = h
      /\ DOMAIN queue' = 1..(Len(queue) - 1) /\ \A j \in 1..(Len(queue) - 1) : queue'[j] = queue[j + 1]
  <2>1. queue \in Seq(Event) /\ queue # <<>> /\ queue' = Tail(queue) /\ h = Head(queue)
    BY <1>1, <1>2 DEF PathTyped
  <2>. QED
    BY <2>1
<1>4. mods' = (IF h.key \in Ctrls THEN IF h.down THEN mods \cup {h.key} ELSE mods \ {h.key} ELSE mods)
  BY <1>2, KeySets
<1>5. ASSUME NEW c \in Ctrls
      PROVE  /\ c \in seen => c \in phys
             /\ \A i \in DOMAIN queue : NewestOf(queue, c, i) => (queue[i].down <=> c \in seen)
             /\ (\A i \in DOMAIN queue : queue[i].key # c) => (c \in mods <=> c \in seen)
  BY <1>2 DEF LinMirrors
<1>6. ASSUME NEW c \in Ctrls
      PROVE  /\ c \in seen' => c \in phys'
             /\ \A i \in DOMAIN queue' : NewestOf(queue', c, i) => (queue'[i].down <=> c \in seen')
             /\ (\A i \in DOMAIN queue' : queue'[i].key # c) => (c \in mods' <=> c \in seen')
  <2>1. c \in seen' => c \in phys'
    BY <1>2, <1>5
  <2>2. ASSUME NEW i \in DOMAIN queue', NewestOf(queue', c, i) PROVE queue'[i].down <=> c \in seen'
    <3>1. i \in 1..(Len(queue) - 1) /\ queue'[i] = queue[i + 1] /\ i + 1 \in DOMAIN queue
      BY <1>3
    <3>2. ASSUME NEW j \in DOMAIN queue, j > i + 1 PROVE queue[j].key # c
      <4>1. PICK l \in 1..(Len(queue) - 1) : l = j - 1
        BY <1>3, <3>1, <3>2
      <4>2. l > i /\ queue'[l] = queue[j]
        BY <1>3, <3>1, <3>2, <4>1
      <4>. QED
        BY <1>3, <2>2, <4>1, <4>2 DEF NewestOf
    <3>3. NewestOf(queue, c, i + 1)
      BY <2>2, <3>1, <3>2 DEF NewestOf
    <3>. QED
      BY <1>2, <1>5, <3>1, <3>3
  <2>3. ASSUME \A i \in DOMAIN queue' : queue'[i].key # c PROVE c \in mods' <=> c \in seen'
    <3>1. ASSUME NEW j \in DOMAIN queue, j # 1 PROVE queue[j].key # c
      <4>1. PICK l \in 1..(Len(queue) - 1) : l = j - 1
        BY <1>3, <3>1
      <4>2. queue'[l] = queue[j]
        BY <1>3, <3>1, <4>1
      <4>. QED
        BY <1>3, <2>3, <4>1, <4>2
    <3>2. CASE h.key = c
      <4>1. NewestOf(queue, c, 1)
        BY <1>3, <3>1, <3>2 DEF NewestOf
      <4>. QED
        BY <1>2, <1>3, <1>4, <1>5, <3>2, <4>1
    <3>3. CASE h.key # c
      <4>1. \A j \in DOMAIN queue : queue[j].key # c
        BY <1>3, <3>1, <3>3
      <4>. QED
        BY <1>2, <1>4, <1>5, <3>3, <4>1
    <3>. QED
      BY <3>2, <3>3
  <2>. QED
    BY <2>1, <2>2, <2>3
<1>7. ASSUME settled
      PROVE  /\ Ctrls \subseteq seen /\ Ctrls \subseteq mods' /\ ~grabbed /\ frame' = "PassThrough"
             /\ \A i \in DOMAIN queue' : queue'[i].key \notin Ctrls
  <2>1. /\ Ctrls \subseteq seen /\ Ctrls \subseteq mods /\ ~grabbed /\ frame = "PassThrough"
        /\ \A i \in DOMAIN queue : queue[i].key \notin Ctrls
    BY <1>7 DEF LinMirrors
  <2>2. h.key \notin Ctrls
    BY <1>3, <2>1
  <2>3. mods' = mods
    BY <1>2, <2>2
  <2>4. \A i \in DOMAIN queue' : queue'[i].key \notin Ctrls
    BY <1>3, <2>1
  <2>. QED
    BY <1>2, <2>1, <2>3, <2>4
<1>8. Ctrls \subseteq mods' => reclaim'
  BY <1>2, KeySets
<1>. QED
  BY <1>2, <1>6, <1>7, <1>8 DEF LinMirrors

LEMMA LinMirrorsKept ==
    ASSUME PathTyped, QueuesAre, LinMirrors, source = "linux", passed, PathNext
    PROVE  LinMirrors' /\ passed'
<1>1. ASSUME NEW k \in Keys, Press(k) PROVE LinMirrors' /\ passed'
  <2>1. CASE tapped
    BY <1>1, <2>1, LinuxPressMirrors
  <2>2. CASE ~tapped
    <3>1. UNCHANGED <<source, tapped, mods, reclaim, passed, queue>>
      BY <1>1, <2>2, PressIs
    <3>2. ~settled'
      BY <1>1, <2>2 DEF LinMirrors, Press
    <3>. QED
      BY <2>2, <3>1, <3>2 DEF LinMirrors
  <2>. QED
    BY <2>1, <2>2
<1>2. CASE LinuxRead
  <2>1. passed' = passed
    BY <1>2, LinuxReadIs
  <2>. QED
    BY <1>2, <2>1, LinuxReadMirrors
<1>3. CASE LinuxRound
  <2>1. /\ queue = <<>> /\ tapped /\ grabbed' = (frame = "Suppress") /\ frame' = "PassThrough"
        /\ settled' = (settled \/ (ChordKnown /\ frame = "PassThrough"))
        /\ UNCHANGED <<source, phys, tapped, mods, reclaim, queue, seen, passed>>
    BY <1>3 DEF LinuxRound
  <2>2. \A c \in Ctrls : c \in mods <=> c \in seen
    BY <2>1 DEF LinMirrors
  <2>3. ASSUME settled' PROVE Ctrls \subseteq seen /\ frame = "PassThrough"
    BY <2>1, <2>3 DEF LinMirrors, ChordKnown
  <2>4. ASSUME NEW c \in Ctrls
        PROVE  /\ c \in seen' => c \in phys'
               /\ DOMAIN queue' = {} /\ (c \in mods' <=> c \in seen')
    BY <2>1, <2>2 DEF LinMirrors
  <2>5. ASSUME settled'
        PROVE  /\ Ctrls \subseteq seen' /\ Ctrls \subseteq mods' /\ ~grabbed' /\ frame' = "PassThrough"
               /\ DOMAIN queue' = {}
    <3>1. Ctrls \subseteq seen /\ frame = "PassThrough"
      BY <2>3, <2>5
    <3>2. Ctrls \subseteq seen' /\ Ctrls \subseteq mods' /\ ~grabbed' /\ frame' = "PassThrough"
      BY <2>1, <2>2, <3>1
    <3>3. queue' = <<>>
      BY <2>1
    <3>. QED
      BY <3>2, <3>3
  <2>6. Ctrls \subseteq mods' => reclaim'
    BY <2>1 DEF LinMirrors
  <2>. QED
    BY <2>1, <2>4, <2>5, <2>6 DEF LinMirrors
<1>4. CASE Start
  <2>1. /\ tapped' /\ mods' = {} /\ seen' = {} /\ queue = <<>> /\ ~tapped
        /\ UNCHANGED <<source, phys, queue, settled, passed>>
    BY <1>4 DEF Start
  <2>. QED
    BY <2>1, KeySets DEF LinMirrors
<1>5. CASE Stop
  <2>1. ~tapped' /\ mods' = {} /\ settled' = FALSE /\ queue' = <<>> /\ UNCHANGED <<source, passed>>
    BY <1>5 DEF Stop
  <2>. QED
    BY <2>1, KeySets DEF LinMirrors
<1>6. ~WinMove /\ ~WinTablet /\ ~WinTake /\ ~WinProcess /\ ~MacTapDisabled
  BY DEF WinMove, WinTablet, WinTake, WinProcess, MacTapDisabled
<1>. QED
  BY <1>1, <1>2, <1>3, <1>4, <1>5, <1>6 DEF PathNext

LEMMA LinFreedKept ==
    ASSUME PathTyped, QueuesAre, UpIsFreed, source = "linux", PathNext
    PROVE  UpIsFreed'
<1>0. /\ batch = <<>> /\ queue \in Seq(Event) /\ full = {} /\ Believed = held \cup mods
      /\ Waiting = queue
  BY JoinsWithNothing DEF PathTyped, QueuesAre, Believed, Waiting
<1>1. FreedIn(queue, UpKeys, held \cup mods)
  BY <1>0 DEF UpIsFreed
<1>. SUFFICES ASSUME NEW q \in Seq(Event), batch' \o queue' = q PROVE FreedIn(q, UpKeys', held' \cup mods')
  <2>1. source' = "linux"
    BY DEF PathNext, Press, WinMove, WinTablet, WinTake, WinProcess, MacTapDisabled, LinuxRead,
           LinuxRound, Start, Stop
  <2>2. PathTyped'
    BY PressTyped, LinuxReadTyped, WinMoveTyped, WinTabletTyped, WinProcessTyped, OthersTyped DEF PathNext
  <2>3. batch' \o queue' \in Seq(Event)
    BY <2>2, JoinIs DEF PathTyped
  <2>. QED
    BY <2>1, <2>3 DEF UpIsFreed, Waiting, Believed
<1>2. ASSUME NEW k \in Keys, Press(k), tapped PROVE FreedIn(q, UpKeys', held' \cup mods')
  <2>1. PICK d \in BOOLEAN : d = (k \notin phys)
    OBVIOUS
  <2>2. PICK e : e = Key(k, d, {})
    OBVIOUS
  <2>3. /\ phys' = (IF d THEN phys \cup {k} ELSE phys \ {k})
        /\ missed' = missed \ {k} /\ queue' = Append(queue, e)
        /\ e \in KeyEvent /\ e \in Event /\ e.key = k /\ e.down = d /\ e.mods = {}
        /\ UNCHANGED <<batch, mods, held>>
    BY <1>2, <2>1, <2>2, LinuxPressIs
  <2>4. ASSUME NEW c \in UpKeys' PROVE Releases(e, c) \/ (c \in UpKeys /\ ~Presses(e, c))
    <3>1. e.kind = "key" /\ c \in Keys /\ c \notin phys' /\ c \notin missed'
      BY <2>3 DEF KeyEvent, UpKeys
    <3>2. CASE c = k
      BY <2>3, <3>1, <3>2 DEF Releases
    <3>3. CASE c # k
      BY <2>3, <3>1, <3>3 DEF Presses, UpKeys
    <3>. QED
      BY <3>2, <3>3
  <2>5. q = Append(queue, e)
    <3>1. Append(queue, e) \in Seq(Event)
      BY <1>0, <2>3
    <3>. QED
      BY <1>0, <2>3, <3>1, JoinsWithNothing
  <2>6. Appended(queue, q, e)
    BY <1>0, <2>3, <2>5 DEF Appended
  <2>. QED
    BY <1>0, <1>1, <2>3, <2>4, <2>6, FreedAppended
<1>3. ASSUME UNCHANGED <<queue, batch, held>>, mods' \subseteq mods, UpKeys' \subseteq UpKeys
      PROVE  FreedIn(q, UpKeys', held' \cup mods')
  <2>1. q = queue
    BY <1>0, <1>3
  <2>2. UpKeys' \in SUBSET UpKeys /\ held' \cup mods' \in SUBSET (held \cup mods)
    BY <1>3
  <2>. QED
    BY <1>1, <2>1, <2>2, FreedStays
<1>4. ASSUME NEW k \in Keys, Press(k), ~tapped PROVE FreedIn(q, UpKeys', held' \cup mods')
  <2>0. PICK d \in BOOLEAN : d = (k \notin phys)
    OBVIOUS
  <2>1. /\ phys' = After(phys, k, d) /\ missed' = missed \cup {k}
        /\ UNCHANGED <<queue, batch, held, mods>>
    BY <1>4, <2>0, PressIs
  <2>2. UpKeys' \subseteq UpKeys
    BY <2>1, KeySets DEF UpKeys
  <2>. QED
    BY <1>3, <2>1, <2>2
<1>5. CASE LinuxRead
  <2>1. PICK h : h = Head(queue)
    OBVIOUS
  <2>2. /\ queue # <<>> /\ queue' = Tail(queue) /\ h \in KeyEvent /\ h.mods = {}
        /\ mods' = (IF h.key \in Ctrls THEN After(mods, h.key, h.down) ELSE mods)
        /\ \E e \in KeyEvent : e.key = h.key /\ e.down = h.down /\ e.mods \subseteq mods' /\ Deliver(e)
        /\ UNCHANGED <<phys, missed, batch>>
    BY <1>5, <2>1, LinuxReadIs
  <2>3. PICK e \in KeyEvent : e.key = h.key /\ e.down = h.down /\ e.mods \subseteq mods' /\ Deliver(e)
    BY <2>2
  <2>4. h.kind = "key" /\ e.kind = "key"
    BY <2>2, <2>3 DEF KeyEvent
  <2>5. ASSUME NEW c \in mods' PROVE Presses(h, c) \/ (c \in mods /\ ~Releases(h, c))
    <3>1. mods' = (IF h.key \in Ctrls THEN IF h.down THEN mods \cup {h.key} ELSE mods \ {h.key} ELSE mods)
          /\ mods \subseteq Ctrls
      BY <2>2, KeySets DEF PathTyped
    <3>. QED
      BY <2>4, <2>5, <3>1 DEF Presses, Releases
  <2>6. ASSUME NEW c \in held' PROVE Presses(h, c) \/ (c \in held \cup mods /\ ~Releases(h, c))
    <3>1. held' = InjectKey(held, e)
      BY <2>3, DeliverKey
    <3>2. Presses(e, c) \/ (c \in held /\ ~Releases(e, c))
      BY <2>3, <2>6, <3>1, InjectIs DEF PathTyped
    <3>3. CASE Presses(e, c)
      <4>1. c = e.key \/ c \in mods'
        BY <2>3, <3>3 DEF Presses
      <4>2. e.down
        BY <3>3 DEF Presses
      <4>. QED
        BY <2>3, <2>4, <2>5, <4>1, <4>2 DEF Presses
    <3>4. CASE c \in held /\ ~Releases(e, c)
      BY <2>3, <2>4, <3>4 DEF Releases
    <3>. QED
      BY <3>2, <3>3, <3>4
  <2>7. Popped(queue, q, h)
    <3>1. Tail(queue) \in Seq(Event)
      BY <1>0, <2>2
    <3>2. q = Tail(queue)
      BY <1>0, <2>2, <3>1, JoinsWithNothing
    <3>. QED
      BY <1>0, <2>1, <2>2, <3>2 DEF Popped
  <2>8. UpKeys' = UpKeys
    BY <2>2 DEF UpKeys
  <2>9. \A c \in UpKeys : c \in held' \cup mods' => Presses(h, c) \/ (c \in held \cup mods /\ ~Releases(h, c))
    BY <2>5, <2>6
  <2>10. FreedIn(q, UpKeys, held' \cup mods')
    BY <1>0, <1>1, <2>7, <2>9, FreedPopped
  <2>. QED
    BY <2>8, <2>10
<1>6. CASE LinuxRound
  <2>1. UNCHANGED <<phys, missed, queue, batch, held, mods>>
    BY <1>6 DEF LinuxRound
  <2>. QED
    BY <1>3, <2>1 DEF UpKeys
<1>7. CASE Start
  <2>1. mods' = {} /\ missed' = missed /\ UNCHANGED <<phys, queue, batch, held>>
    BY <1>7 DEF Start
  <2>. QED
    BY <1>3, <2>1 DEF UpKeys
<1>8. CASE Stop
  <2>1. /\ mods' = {} /\ queue' = <<>> /\ missed' = missed \cup {queue[i].key : i \in DOMAIN queue}
        /\ UNCHANGED <<phys, held, batch>>
    BY <1>8 DEF Stop
  <2>2. DOMAIN q = {}
    BY <1>0, <2>1
  <2>3. ASSUME NEW c \in UpKeys' PROVE c \notin held
    <3>1. c \in UpKeys /\ \A i \in DOMAIN queue : queue[i].key # c
      BY <2>1 DEF UpKeys
    <3>2. ~FreedAfter(queue, c, 0)
      BY <3>1 DEF FreedAfter, Releases
    <3>. QED
      BY <1>1, <3>1, <3>2 DEF FreedIn
  <2>. QED
    BY <2>1, <2>2, <2>3 DEF FreedIn
<1>9. ~WinMove /\ ~WinTablet /\ ~WinTake /\ ~WinProcess /\ ~MacTapDisabled
  BY DEF WinMove, WinTablet, WinTake, WinProcess, MacTapDisabled
<1>. QED
  BY <1>2, <1>4, <1>5, <1>6, <1>7, <1>8, <1>9 DEF PathNext

(***************************************************************************)
(* The path of an event, altogether.                                       *)
(***************************************************************************)
LEMMA PathBegins ==
    ASSUME PathInit, source \in Platform, target \in Platform
    PROVE  PathInv
<1>1. /\ phys = {} /\ ~tapped /\ mods = {} /\ ctrls = {} /\ reclaim = FALSE /\ queue = <<>> /\ batch = <<>>
      /\ frame = "PassThrough" /\ lastPoint = NoPoint /\ held = {} /\ sent = <<>> /\ made = 0
      /\ got = <<>> /\ moved = 0 /\ skipped = 0 /\ localX = 0 /\ motions = {} /\ mixed = FALSE /\ seen = {}
      /\ settled = FALSE /\ passed /\ missed = {} /\ full = {}
  BY DEF PathInit
<1>2. PathTyped
  <2>1. <<>> \in Seq(Event) /\ <<>> \in Seq(LogEntry)
    OBVIOUS
  <2>2. NoPoint \in Int
    BY DEF NoPoint
  <2>3. mixed \in BOOLEAN
    BY <1>1
  <2>. QED
    BY <1>1, <2>1, <2>2, <2>3 DEF PathTyped
<1>3. QueuesAre
  BY <1>1 DEF QueuesAre
<1>4. MirrorsAre
  <2>1. Ctrls # {} /\ ~ChordKnown
    BY <1>1, KeySets DEF ChordKnown
  <2>. QED
    BY <1>1, <2>1, KeySets DEF MirrorsAre, MacMirrors, WinMirrors, LinMirrors
<1>5. Waiting = <<>> /\ Len(Waiting) = 0 /\ DOMAIN Waiting = {}
  BY <1>1 DEF Waiting
<1>6. UpIsFreed
  BY <1>1, <1>5 DEF UpIsFreed, FreedIn, Believed
<1>7. QueueIsComplete
  <2>. DEFINE f == [i \in 0..0 |-> 0]
  <2>1. Len(sent) = 0 /\ Len(got) = 0 /\ DOMAIN got = {}
    BY <1>1
  <2>2. Order(Waiting, sent, f, 0) /\ Places(Waiting, sent, f, f, 0, 0, 0)
    BY <1>5, <2>1 DEF Order, Counts, InTurn, Places, Travels, InPlace
  <2>. HIDE DEF f
  <2>3. Loosely(Waiting, sent, 0) /\ Exactly(Waiting, sent, 0, 0, 0, 0)
    BY <2>2 DEF Loosely, Exactly
  <2>4. Place = 0 /\ Base = 0
    BY <1>1 DEF Place, Base
  <2>. QED
    BY <1>1, <2>1, <2>3, <2>4 DEF QueueIsComplete, Begins, BeginsExactly
<1>8. MotionIsKnown
  BY <1>1, <1>5 DEF MotionIsKnown, KindsIn
<1>. QED
  BY <1>1, <1>2, <1>3, <1>4, <1>6, <1>7, <1>8 DEF PathInv

LEMMA PathStays ==
    ASSUME PathInv, PathNext
    PROVE  PathInv'
<1>1. PathTyped /\ QueuesAre /\ MirrorsAre /\ passed /\ UpIsFreed /\ QueueIsComplete /\ MotionIsKnown
  BY DEF PathInv
<1>2. PathTyped' /\ QueuesAre'
  BY <1>1, PressTyped, WinMoveTyped, WinTabletTyped, WinProcessTyped, LinuxReadTyped, OthersTyped DEF PathNext
<1>3. source' = source /\ source \in Platform
  BY <1>1 DEF PathNext, Press, WinMove, WinTablet, WinTake, WinProcess, MacTapDisabled, LinuxRead,
              LinuxRound, Start, Stop, PathTyped
<1>4. CASE source = "macos"
  <2>1. Waiting = <<>> /\ full = {} /\ Believed = held
    BY <1>1, <1>4 DEF Waiting, QueuesAre, Believed
  <2>2. held \subseteq phys \cup missed
    <3>1. \A k : ~FreedAfter(Waiting, k, 0)
      BY <2>1 DEF FreedAfter
    <3>2. \A k \in UpKeys : k \notin held
      BY <1>1, <2>1, <3>1 DEF UpIsFreed, FreedIn
    <3>. QED
      BY <1>1, <3>2 DEF UpKeys, PathTyped
  <2>3. MacMirrors' /\ passed' /\ held' \subseteq phys' \cup missed'
    BY <1>1, <1>4, <2>2, MacMirrorsKept DEF MirrorsAre
  <2>4. MirrorsAre'
    BY <1>3, <1>4, <2>3 DEF MirrorsAre, WinMirrors, LinMirrors
  <2>5. UpIsFreed'
    <3>1. DOMAIN Waiting' = {} /\ Believed' = held'
      BY <1>2, <1>3, <1>4 DEF Waiting, QueuesAre, Believed
    <3>2. \A k \in UpKeys' : k \notin held'
      BY <2>3 DEF UpKeys
    <3>. QED
      BY <3>1, <3>2 DEF UpIsFreed, FreedIn
  <2>. QED
    BY <1>2, <1>3, <1>4, <2>3, <2>4, <2>5 DEF PathInv, QueueIsComplete, MotionIsKnown
<1>5. CASE source = "windows"
  <2>1. WinMirrors' /\ passed'
    BY <1>1, <1>5, WinMirrorsKept DEF MirrorsAre
  <2>2. MirrorsAre'
    BY <1>3, <1>5, <2>1 DEF MirrorsAre, MacMirrors, LinMirrors
  <2>3. UpIsFreed'
    BY <1>1, <1>5, <2>1, WinFreedKept DEF MirrorsAre
  <2>4. QueueIsComplete'
    BY <1>1, <1>5, WinCompleteKept
  <2>5. MotionIsKnown'
    BY <1>1, <1>5, WinKnownKept
  <2>. QED
    BY <1>2, <2>1, <2>2, <2>3, <2>4, <2>5 DEF PathInv
<1>6. CASE source = "linux"
  <2>1. LinMirrors' /\ passed'
    BY <1>1, <1>6, LinMirrorsKept DEF MirrorsAre
  <2>2. MirrorsAre'
    BY <1>3, <1>6, <2>1 DEF MirrorsAre, MacMirrors, WinMirrors
  <2>3. UpIsFreed'
    BY <1>1, <1>6, LinFreedKept
  <2>. QED
    BY <1>2, <1>3, <1>6, <2>1, <2>2, <2>3 DEF PathInv, QueueIsComplete, MotionIsKnown
<1>. QED
  BY <1>3, <1>4, <1>5, <1>6 DEF Platform

LEMMA PathHolds ==
    ASSUME PathInv, UNCHANGED pathVars
    PROVE  PathInv'
<1>1. UNCHANGED <<source, target, phys, tapped, mods, ctrls, reclaim, queue, batch, grabbed, frame, rawActive,
                  rawAbsolute, lastPoint, localX, motions, mixed, held, sent, made, got, moved, skipped, seen,
                  settled, passed, missed, full>>
  BY DEF pathVars
<1>2. PathTyped' /\ QueuesAre' /\ MirrorsAre'
  BY <1>1 DEF PathInv, PathTyped, QueuesAre, MirrorsAre, MacMirrors, WinMirrors, LinMirrors, ChordKnown, NewestOf
<1>3. Waiting' = Waiting /\ UpKeys' = UpKeys /\ Believed' = Believed
  BY <1>1 DEF Waiting, UpKeys, Believed
<1>4. Place' = Place /\ Base' = Base /\ (Hooked' <=> Hooked)
  BY <1>1 DEF Place, Base, Hooked
<1>5. UpIsFreed' /\ QueueIsComplete' /\ passed'
  BY <1>1, <1>3, <1>4 DEF PathInv, UpIsFreed, QueueIsComplete
<1>6. MotionIsKnown'
  BY <1>1, <1>3, <1>4 DEF PathInv, MotionIsKnown
<1>. QED
  BY <1>2, <1>5, <1>6 DEF PathInv

LEMMA PathIsFaithful ==
    ASSUME PathInv
    PROVE  CaptureIsFaithful /\ ClicksLandInPlace
<1>1. PathTyped /\ passed /\ UpIsFreed /\ QueueIsComplete
  BY DEF PathInv
<1>2. NoStuckKey
  <2>. SUFFICES ASSUME queue = <<>>, batch = <<>>, "transition" \notin full, NEW k \in held
                PROVE  k \in phys \cup missed
    BY DEF NoStuckKey
  <2>1. DOMAIN Waiting = {}
    BY DEF Waiting
  <2>2. ~FreedAfter(Waiting, k, 0) /\ k \in Believed
    BY <2>1 DEF FreedAfter, Believed
  <2>. QED
    BY <1>1, <2>2 DEF UpIsFreed, FreedIn, UpKeys, PathTyped
<1>3. ClicksLandInPlace
  <2>. SUFFICES ASSUME source = "windows" PROVE ClicksLandInPlace
    BY DEF ClicksLandInPlace
  <2>. DEFINE drained == queue = <<>> /\ batch = <<>>
  <2>1. /\ got \in Seq(LogEntry) /\ sent \in Seq(LogEntry)
        /\ Len(got) \in Nat /\ Len(sent) \in Nat /\ DOMAIN got = 1..Len(got) /\ DOMAIN sent = 1..Len(sent)
    BY <1>1 DEF PathTyped
  <2>2. drained => Len(Waiting) = 0
    BY DEF Waiting
  <2>3. ASSUME "transition" \notin full
        PROVE  IsPrefix(Transitions(got), Transitions(sent)) /\ (drained => Len(got) = Len(sent))
    <3>1. Begins(got, sent) /\ Loosely(Waiting, sent, Len(got))
      BY <1>1, <2>3 DEF QueueIsComplete
    <3>2. IsPrefix(Transitions(got), Transitions(sent))
      <4>. DEFINE g == Transitions(got)
                  s == Transitions(sent)
                  T == Keys \X BOOLEAN
      <4>1. /\ g \in Seq(T) /\ s \in Seq(T) /\ Len(g) = Len(got) /\ Len(s) = Len(sent)
            /\ \A i \in 1..Len(got) : g[i] = <<got[i][1], got[i][2]>>
            /\ \A i \in 1..Len(sent) : s[i] = <<sent[i][1], sent[i][2]>>
        BY <2>1 DEF Transitions, LogEntry
      <4>. HIDE DEF g, s, T
      <4>2. Len(g) <= Len(s) /\ \A i \in 1..Len(g) : g[i] = s[i]
        <5>1. Len(got) <= Len(sent) /\ \A i \in 1..Len(got) : got[i][1] = sent[i][1] /\ got[i][2] = sent[i][2]
          BY <2>1, <3>1 DEF Begins
        <5>2. \A i \in 1..Len(got) : i \in 1..Len(sent)
          BY <2>1, <5>1
        <5>. QED
          BY <4>1, <5>1, <5>2
      <4>3. SubSeq(g, 1, Len(g)) = SubSeq(s, 1, Len(g))
        BY <4>1, <4>2
      <4>. QED
        BY <4>2, <4>3 DEF IsPrefix, g, s
    <3>3. drained => Len(got) = Len(sent)
      BY <2>2, <3>1 DEF Loosely, Order, Counts
    <3>. QED
      BY <3>2, <3>3
  <2>4. ASSUME full = {}, ~mixed PROVE IsPrefix(got, sent) /\ (drained => moved + skipped = made)
    <3>1. /\ Begins(got, sent) /\ BeginsExactly(got, sent)
          /\ Exactly(Waiting, sent, Len(got), moved + skipped, made, Base)
      BY <1>1, <2>4 DEF QueueIsComplete, Place
    <3>2. SubSeq(got, 1, Len(got)) = SubSeq(sent, 1, Len(got)) /\ Len(got) <= Len(sent)
      BY <2>1, <3>1 DEF Begins, BeginsExactly
    <3>3. drained => moved + skipped = made
      BY <2>2, <3>1 DEF Exactly, Places, Travels
    <3>. QED
      BY <3>2, <3>3 DEF IsPrefix
  <2>. QED
    BY <2>3, <2>4 DEF ClicksLandInPlace
<1>. QED
  BY <1>1, <1>2, <1>3 DEF CaptureIsFaithful, ChordReachesDesktop

\* Until events are what is exercised, the path rests.
EventsInv == IF part = "events" THEN PathInv ELSE PathInit

LEMMA RestIsFaithful ==
    ASSUME PathInit
    PROVE  CaptureIsFaithful /\ ClicksLandInPlace
<1>1. /\ passed /\ held = {} /\ got = <<>> /\ sent = <<>> /\ moved = 0 /\ skipped = 0 /\ made = 0
  BY DEF PathInit
<1>2. Transitions(got) = Transitions(sent)
  BY <1>1
<1>3. IsPrefix(got, sent) /\ IsPrefix(Transitions(got), Transitions(sent))
  <2>1. Len(got) = 0 /\ Len(sent) = 0 /\ got = sent
    BY <1>1
  <2>2. Transitions(got) = <<>>
    BY <1>1 DEF Transitions
  <2>. QED
    BY <1>2, <2>1, <2>2 DEF IsPrefix
<1>. QED
  BY <1>1, <1>3 DEF CaptureIsFaithful, ChordReachesDesktop, NoStuckKey, ClicksLandInPlace

LEMMA EventsBegin == Init => EventsInv
<1>. SUFFICES ASSUME Init PROVE EventsInv
  OBVIOUS
<1>1. CASE part = "events"
  <2>1. \E p \in Paths : source = p[1] /\ target = p[2]
    BY <1>1 DEF Init
  <2>2. source \in Platform /\ target \in Platform
    BY <2>1, PathsArePlatforms DEF OS, Platform
  <2>. QED
    BY <1>1, <2>2, PathBegins DEF Init, EventsInv
<1>2. CASE part # "events"
  BY <1>2 DEF Init, EventsInv
<1>. QED
  BY <1>1, <1>2

LEMMA EventsStay == EventsInv /\ [Next]_allVars => EventsInv'
<1>. SUFFICES ASSUME EventsInv, [Next]_allVars PROVE EventsInv'
  OBVIOUS
<1>1. part' = part
  BY DEF Next, allVars
<1>2. CASE part = "events"
  <2>1. PathNext \/ UNCHANGED pathVars
    BY <1>2 DEF Next, allVars, Items
  <2>. QED
    BY <1>1, <1>2, <2>1, PathStays, PathHolds DEF EventsInv
<1>3. CASE part # "events"
  <2>1. UNCHANGED pathVars
    BY <1>3 DEF Next, allVars
  <2>. QED
    BY <1>1, <1>3, <2>1 DEF EventsInv, PathInit, pathVars
<1>. QED
  BY <1>2, <1>3

(***************************************************************************)
(* On every pair of platforms, for a user who presses and moves any number *)
(* of times: the emergency chord lets every event through to the local     *)
(* desktop, on linux from the end of the round that notices it, and no key *)
(* stays down on the target that is up on the source's keyboard, unless it *)
(* changed while nothing watched it or the queue overflowed with           *)
(* transitions (the event tap, the hooks, the evdev reader and the         *)
(* injectors).                                                             *)
(***************************************************************************)
THEOREM EventsAreFaithful == Spec => []CaptureIsFaithful
<1>1. EventsInv => CaptureIsFaithful
  BY PathIsFaithful, RestIsFaithful DEF EventsInv
<1>. QED
  BY <1>1, EventsBegin, EventsStay, PTL DEF Spec

(***************************************************************************)
(* For a capture queue of any length, whatever mixture of clicks, keys,    *)
(* mice and tablets fills it: the transitions that leave the queue of      *)
(* Windows are those made, in order, short of an overflow with transitions *)
(* alone; short of any overflow each finds the pointer where the user had  *)
(* it, by deltas as well as by points, short of a capture that has queued  *)
(* motion of both kinds (enqueue_queued_capture_event and its worker).     *)
(***************************************************************************)
THEOREM ClicksStayInPlace == Spec => []ClicksLandInPlace
<1>1. EventsInv => ClicksLandInPlace
  BY PathIsFaithful, RestIsFaithful DEF EventsInv
<1>. QED
  BY <1>1, EventsBegin, EventsStay, PTL DEF Spec
=============================================================================
