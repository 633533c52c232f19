---------------------------- MODULE CaptureModes ----------------------------
(***************************************************************************)
(* The source side of the platform adapters: how set_mode and stop bring   *)
(* up and take down the threads that watch local input.                    *)
(*                                                                         *)
(*   macos    an event-tap thread and a cursor-poll thread per generation; *)
(*            a superseded tap thread is told to stop and never joined     *)
(*   windows  one lock for the whole call; hooks or a poll thread, joined  *)
(*   linux    one evdev reader for both modes; the lock is taken twice     *)
(*                                                                         *)
(* Callers are the mode task of a session, the shutdown of the one before, *)
(* and the daemon's final stop: nothing orders them but the adapter.  The  *)
(* k-th accepted call is generation k and names the threads it starts.     *)
(***************************************************************************)
EXTENDS Integers, FiniteSets

CONSTANTS Caller, MaxCalls, MaxFaults

ASSUME CallBounds == MaxCalls \in Nat /\ MaxFaults \in Nat

None == 0
Gen == 1..MaxCalls
Mode == {"Off", "PassiveEdge", "ActiveForward"}

VARIABLES
    os,
    run,       \* CaptureRun, behind the adapter's mutex
    tap,       \* tap thread (macos), hook thread (windows), reader (linux)
    poll,      \* cursor-poll threads
    pollStop,  \* polls whose stop flag is set
    call,      \* where each caller is inside set_mode or stop
    faults,    \* failures the OS may still inject
    wanted,    \* the mode of the last call that decided it under the lock
    excused    \* a known race has happened (see LostStop, CrossedStop)

modeVars == <<os, run, tap, poll, pollStop, call, faults, wanted, excused>>

CaptureRun0 ==
    [mode |-> "Off", pending |-> "none", canSuppress |-> FALSE, generation |-> 0,
     tap |-> None, stop |-> None, handle |-> None]

IdleCall == [pc |-> "idle", mode |-> "Off", gen |-> None, tap |-> None, stop |-> None, handle |-> None]

ModesInit ==
    /\ run = CaptureRun0
    /\ tap = [g \in Gen |-> [pc |-> "none", suppress |-> FALSE, listen |-> FALSE]]
    /\ poll = [g \in Gen |-> "none"]
    /\ pollStop = {}
    /\ call = [c \in Caller |-> IdleCall]
    /\ faults = MaxFaults
    /\ wanted = "Off"
    /\ excused = FALSE

Idle(c) == call[c].pc = "idle"
Goto(c, pc) == call' = [call EXCEPT ![c].pc = pc]
Return(c) == call' = [call EXCEPT ![c] = IdleCall]
Fault == faults > 0 /\ faults' = faults - 1
TapMoves(g, pc) == tap' = [tap EXCEPT ![g].pc = pc]
Fresh == run.generation < MaxCalls

(***************************************************************************)
(* Threads.                                                                *)
(***************************************************************************)
\* The loop reads its stop flag once per sleep.
PollExit(g) ==
    /\ poll[g] = "running"
    /\ g \in pollStop
    /\ poll' = [poll EXCEPT ![g] = "done"]
    /\ UNCHANGED <<os, run, tap, pollStop, call, faults, wanted, excused>>

(***************************************************************************)
(* macOS.                                                                  *)
(***************************************************************************)
\* Bump the generation and take every handle under one lock.
MacClaimed(m) ==
    [run EXCEPT !.generation = @ + 1, !.mode = "Off", !.canSuppress = FALSE,
                !.pending = IF m = "Off" THEN "none" ELSE m,
                !.tap = None, !.stop = None, !.handle = None]

MacDetaching(c, m) ==
    call' = [call EXCEPT ![c] = [pc |-> "detach", mode |-> m, gen |-> run.generation + 1,
                                 tap |-> run.tap, stop |-> run.stop, handle |-> run.handle]]

MacAlreadyThere(m) == (run.mode = m /\ run.pending = "none") \/ run.pending = m

MacSetMode(c, m) ==
    /\ os = "macos" /\ Idle(c) /\ Fresh
    /\ wanted' = m
    /\ \/ MacAlreadyThere(m) /\ UNCHANGED <<run, call>>
       \/ ~MacAlreadyThere(m) /\ run' = MacClaimed(m) /\ MacDetaching(c, m)
    /\ UNCHANGED <<os, tap, poll, pollStop, faults, excused>>

\* stop has no short cut: it always takes a generation.
MacStop(c) ==
    /\ os = "macos" /\ Idle(c) /\ Fresh
    /\ run' = MacClaimed("Off") /\ MacDetaching(c, "Off")
    /\ wanted' = "Off"
    /\ UNCHANGED <<os, tap, poll, pollStop, faults, excused>>

\* stop_detached: CFRunLoop::stop does nothing to a loop that its thread has
\* published but not entered yet, so that tap outlives the stop.
LostStop(c) == call[c].tap # None /\ tap[call[c].tap].pc = "claimed"

MacDetach(c) ==
    /\ os = "macos" /\ call[c].pc = "detach"
    /\ tap' = [g \in Gen |-> IF g = call[c].tap /\ tap[g].pc = "running"
                             THEN [tap[g] EXCEPT !.pc = "stopping"] ELSE tap[g]]
    /\ excused' = (excused \/ LostStop(c))
    /\ pollStop' = pollStop \cup ({call[c].stop} \ {None})
    /\ Goto(c, "join")
    /\ UNCHANGED <<os, run, poll, faults, wanted>>

MacJoin(c) ==
    /\ os = "macos" /\ call[c].pc = "join"
    /\ call[c].handle # None => poll[call[c].handle] = "done"
    /\ CASE call[c].mode = "Off" -> Return(c)
         [] call[c].mode = "PassiveEdge" -> Goto(c, "poll")
         [] call[c].mode = "ActiveForward" -> Goto(c, "tap")
    /\ UNCHANGED <<os, run, tap, poll, pollStop, faults, wanted, excused>>

Current(c) == run.generation = call[c].gen

\* start_passive_poll publishes the stop flag, spawns, then claims.  A stale
\* call still goes on to start_tap, which finds out for itself.
MacPollPublish(c) ==
    /\ os = "macos" /\ call[c].pc = "poll"
    /\ IF Current(c) THEN run' = [run EXCEPT !.stop = call[c].gen] /\ Goto(c, "spawn")
                     ELSE UNCHANGED run /\ Goto(c, "tap")
    /\ UNCHANGED <<os, tap, poll, pollStop, faults, wanted, excused>>

MacPollSpawn(c) ==
    /\ os = "macos" /\ call[c].pc = "spawn"
    /\ poll' = [poll EXCEPT ![call[c].gen] = "running"]
    /\ Goto(c, "claim")
    /\ UNCHANGED <<os, run, tap, pollStop, faults, wanted, excused>>

ClearPendingStart(c) ==
    IF Current(c) THEN [run EXCEPT !.pending = "none", !.mode = "Off", !.canSuppress = FALSE] ELSE run

MacPollSpawnFails(c) ==
    /\ os = "macos" /\ call[c].pc = "spawn" /\ Fault
    /\ run' = IF Current(c) THEN [ClearPendingStart(c) EXCEPT !.stop = None, !.handle = None] ELSE run
    /\ Return(c)
    /\ UNCHANGED <<os, tap, poll, pollStop, wanted, excused>>

MacPollClaim(c) ==
    /\ os = "macos" /\ call[c].pc = "claim"
    /\ IF Current(c)
       THEN /\ run' = [run EXCEPT !.stop = call[c].gen, !.handle = call[c].gen, !.canSuppress = FALSE,
                                  !.mode = "PassiveEdge", !.pending = "none"]
            /\ UNCHANGED pollStop /\ Goto(c, "tap")
       ELSE /\ UNCHANGED run
            /\ pollStop' = pollStop \cup {call[c].gen} /\ Goto(c, "abandon")
    /\ UNCHANGED <<os, tap, poll, faults, wanted, excused>>

MacPollAbandon(c) ==
    /\ os = "macos" /\ call[c].pc = "abandon" /\ poll[call[c].gen] = "done"
    /\ Goto(c, "tap")
    /\ UNCHANGED <<os, run, tap, poll, pollStop, faults, wanted, excused>>

Required(c) == call[c].mode = "ActiveForward"

MacTapSpawn(c) ==
    /\ os = "macos" /\ call[c].pc = "tap"
    /\ tap' = [tap EXCEPT ![call[c].gen] = [pc |-> "spawned", suppress |-> FALSE, listen |-> ~Required(c)]]
    /\ Goto(c, "wait")
    /\ UNCHANGED <<os, run, poll, pollStop, faults, wanted, excused>>

MacTapSpawnFails(c) ==
    /\ os = "macos" /\ call[c].pc = "tap" /\ Fault
    /\ run' = IF Required(c) THEN ClearPendingStart(c) ELSE run
    /\ Return(c)
    /\ UNCHANGED <<os, tap, poll, pollStop, wanted, excused>>

\* A default tap, or a listen-only one when Accessibility is missing, or none.
MacTapCreate(g) ==
    /\ os = "macos" /\ tap[g].pc = "spawned"
    /\ \/ tap' = [tap EXCEPT ![g].pc = "created", ![g].suppress = ~tap[g].listen] /\ UNCHANGED faults
       \/ ~tap[g].listen /\ Fault /\ TapMoves(g, "created")
       \/ Fault /\ TapMoves(g, "failed")
    /\ UNCHANGED <<os, run, poll, pollStop, call, wanted, excused>>

MacTapEnable(g) ==
    /\ os = "macos" /\ tap[g].pc = "created"
    /\ TapMoves(g, IF run.generation = g THEN "enabled" ELSE "done")
    /\ UNCHANGED <<os, run, poll, pollStop, call, faults, wanted, excused>>

\* The generation not checked again.
MacTapClaimBlindly(g) ==
    /\ os = "macos" /\ tap[g].pc = "enabled"
    /\ run' = [run EXCEPT !.tap = g, !.canSuppress = tap[g].suppress, !.pending = "none",
                          !.mode = IF tap[g].listen THEN "PassiveEdge" ELSE "ActiveForward"]
    /\ TapMoves(g, "claimed")
    /\ UNCHANGED <<os, poll, pollStop, call, faults, wanted, excused>>

MacTapClaim(g) ==
    /\ os = "macos" /\ tap[g].pc = "enabled"
    /\ IF run.generation = g
       THEN /\ run' = [run EXCEPT !.tap = g, !.canSuppress = tap[g].suppress, !.pending = "none",
                                  !.mode = IF tap[g].listen THEN "PassiveEdge" ELSE "ActiveForward"]
            /\ TapMoves(g, "claimed")
       ELSE UNCHANGED run /\ TapMoves(g, "done")
    /\ UNCHANGED <<os, poll, pollStop, call, faults, wanted, excused>>

MacTapRun(g) ==
    /\ os = "macos" /\ tap[g].pc = "claimed"
    /\ TapMoves(g, "running")
    /\ UNCHANGED <<os, run, poll, pollStop, call, faults, wanted, excused>>

\* The epilogue clears only what this generation still owns.
MacTapEnd(g) ==
    /\ os = "macos" /\ tap[g].pc = "stopping"
    /\ run' = IF run.generation = g THEN [run EXCEPT !.tap = None, !.canSuppress = FALSE] ELSE run
    /\ TapMoves(g, "done")
    /\ UNCHANGED <<os, poll, pollStop, call, faults, wanted, excused>>

\* start_tap returns once the thread has reported.
MacTapReport(c) ==
    /\ os = "macos" /\ call[c].pc = "wait"
    /\ tap[call[c].gen].pc \in {"failed", "claimed", "running", "stopping", "done"}
    /\ run' = IF tap[call[c].gen].pc = "failed" /\ Required(c) THEN ClearPendingStart(c) ELSE run
    /\ Return(c)
    /\ UNCHANGED <<os, tap, poll, pollStop, faults, wanted, excused>>

MacNext ==
    \/ \E c \in Caller, m \in Mode : MacSetMode(c, m)
    \/ \E c \in Caller :
          \/ MacStop(c) \/ MacDetach(c) \/ MacJoin(c)
          \/ MacPollPublish(c) \/ MacPollSpawn(c) \/ MacPollSpawnFails(c)
          \/ MacPollClaim(c) \/ MacPollAbandon(c)
          \/ MacTapSpawn(c) \/ MacTapSpawnFails(c) \/ MacTapReport(c)
    \/ \E g \in Gen :
          \/ MacTapCreate(g) \/ MacTapEnable(g) \/ MacTapClaim(g) \/ MacTapRun(g) \/ MacTapEnd(g)

(***************************************************************************)
(* Windows.  The mutex is held from the first line to the last, so a call  *)
(* that is not idle holds it.                                              *)
(***************************************************************************)
Unlocked == \A c \in Caller : Idle(c)

\* teardown: raise the poll's flag, post WM_QUIT, then join both.
WinTeardown(c, m) ==
    /\ pollStop' = pollStop \cup ({run.stop} \ {None})
    /\ tap' = [g \in Gen |-> IF g = run.tap THEN [tap[g] EXCEPT !.pc = "stopping"] ELSE tap[g]]
    /\ call' = [call EXCEPT ![c] = [IdleCall EXCEPT !.pc = "join", !.mode = m, !.gen = run.generation + 1,
                                                    !.tap = run.tap, !.handle = run.handle]]
    /\ run' = [run EXCEPT !.generation = @ + 1, !.tap = None, !.stop = None, !.handle = None]
    /\ UNCHANGED <<os, poll, faults, excused>>

WinSetMode(c, m) ==
    /\ os = "windows" /\ Unlocked /\ Fresh
    /\ wanted' = m
    /\ \/ run.mode # m /\ WinTeardown(c, m)
       \/ run.mode = m /\ UNCHANGED <<os, run, tap, poll, pollStop, call, faults, excused>>

WinStop(c) ==
    /\ os = "windows" /\ Unlocked /\ Fresh
    /\ wanted' = "Off" /\ WinTeardown(c, "Off")

\* Joined: the old mode is gone, the new one starts.  An ActiveForward start
\* waits for the hook thread's report.
WinRestart(c) ==
    /\ os = "windows" /\ call[c].pc = "join"
    /\ call[c].handle # None => poll[call[c].handle] = "done"
    /\ call[c].tap # None => tap[call[c].tap].pc = "done"
    /\ LET g == call[c].gen
           off == [run EXCEPT !.mode = "Off", !.canSuppress = FALSE]
       IN  CASE call[c].mode = "Off" ->
                    run' = off /\ Return(c) /\ UNCHANGED <<tap, poll, faults>>
             [] call[c].mode = "PassiveEdge" ->
                    /\ Return(c) /\ UNCHANGED tap
                    /\ \/ /\ run' = [off EXCEPT !.mode = "PassiveEdge", !.stop = g, !.handle = g]
                          /\ poll' = [poll EXCEPT ![g] = "running"] /\ UNCHANGED faults
                       \/ Fault /\ run' = off /\ UNCHANGED poll
             [] call[c].mode = "ActiveForward" ->
                    /\ run' = off /\ UNCHANGED poll
                    /\ \/ TapMoves(g, "spawned") /\ Goto(c, "wait") /\ UNCHANGED faults
                       \/ Fault /\ Return(c) /\ UNCHANGED tap
    /\ UNCHANGED <<os, pollStop, wanted, excused>>

\* run_capture_thread: worker, keyboard hook, mouse hook; each failure undoes
\* the ones before it.  Raw input only refines motion and may be missing.
WinInstall(g) ==
    /\ os = "windows" /\ tap[g].pc = "spawned"
    /\ \/ tap' = [tap EXCEPT ![g].pc = "running", ![g].suppress = TRUE] /\ UNCHANGED faults
       \/ Fault /\ TapMoves(g, "failed")
    /\ UNCHANGED <<os, run, poll, pollStop, call, wanted, excused>>

WinStarted(c) ==
    /\ os = "windows" /\ call[c].pc = "wait"
    /\ tap[call[c].gen].pc \in {"running", "failed"}
    /\ run' = IF tap[call[c].gen].pc = "running"
              THEN [run EXCEPT !.tap = call[c].gen, !.canSuppress = TRUE, !.mode = "ActiveForward"]
              ELSE run
    /\ Return(c)
    /\ UNCHANGED <<os, tap, poll, pollStop, faults, wanted, excused>>

\* WM_QUIT ends the message loop; raw input, hooks and worker go in turn.
WinHooksGo(g) ==
    /\ os = "windows" /\ tap[g].pc = "stopping"
    /\ tap' = [tap EXCEPT ![g].pc = "done", ![g].suppress = FALSE]
    /\ UNCHANGED <<os, run, poll, pollStop, call, faults, wanted, excused>>

WinNext ==
    \/ \E c \in Caller, m \in Mode : WinSetMode(c, m)
    \/ \E c \in Caller : WinStop(c) \/ WinRestart(c) \/ WinStarted(c)
    \/ \E g \in Gen : WinInstall(g) \/ WinHooksGo(g)

(***************************************************************************)
(* Linux.                                                                  *)
(***************************************************************************)
\* ensure_running: one lock; a reader that is there is kept.
LinSetMode(c, m) ==
    /\ os = "linux" /\ Idle(c) /\ Fresh /\ m # "Off"
    /\ \/ /\ run.tap # None
          /\ UNCHANGED <<run, tap, faults>>
          /\ call' = [call EXCEPT ![c] = [IdleCall EXCEPT !.pc = "record", !.mode = m]]
       \/ /\ run.tap = None
          /\ run' = [run EXCEPT !.generation = @ + 1, !.tap = run.generation + 1]
          /\ TapMoves(run.generation + 1, "running") /\ UNCHANGED faults
          /\ call' = [call EXCEPT ![c] = [IdleCall EXCEPT !.pc = "record", !.mode = m]]
       \/ run.tap = None /\ Fault /\ UNCHANGED <<run, tap, call>>   \* NoCaptureDevices, or no thread
    /\ UNCHANGED <<os, poll, pollStop, wanted, excused>>

\* The second lock records the mode whatever happened in between.
LinRecord(c) ==
    /\ os = "linux" /\ call[c].pc = "record"
    /\ run' = [run EXCEPT !.mode = call[c].mode,
                          !.canSuppress = call[c].mode = "ActiveForward" /\ run.tap # None]
    /\ wanted' = call[c].mode
    /\ Return(c)
    /\ UNCHANGED <<os, tap, poll, pollStop, faults, excused>>

\* A stop between a set_mode's two locks: the mode is recorded over no reader.
CrossedStop == \E c \in Caller : call[c].pc = "record"

LinStop(c) ==
    /\ os = "linux" /\ Idle(c) /\ Fresh
    /\ wanted' = "Off"
    /\ excused' = (excused \/ CrossedStop)
    /\ run' = [run EXCEPT !.generation = @ + 1, !.tap = None, !.canSuppress = FALSE, !.mode = "Off"]
    /\ tap' = [g \in Gen |-> IF g = run.tap THEN [tap[g] EXCEPT !.pc = "stopping"] ELSE tap[g]]
    /\ call' = [call EXCEPT ![c] = [IdleCall EXCEPT !.pc = "join", !.tap = run.tap]]
    /\ UNCHANGED <<os, poll, pollStop, faults>>

LinReaderEnds(g) ==
    /\ os = "linux" /\ tap[g].pc = "stopping"
    /\ TapMoves(g, "done")
    /\ UNCHANGED <<os, run, poll, pollStop, call, faults, wanted, excused>>

LinJoin(c) ==
    /\ os = "linux" /\ call[c].pc = "join"
    /\ call[c].tap # None => tap[call[c].tap].pc = "done"
    /\ Return(c)
    /\ UNCHANGED <<os, run, tap, poll, pollStop, faults, wanted, excused>>

LinNext ==
    \/ \E c \in Caller, m \in Mode : LinSetMode(c, m)
    \/ \E c \in Caller : LinRecord(c) \/ LinStop(c) \/ LinJoin(c)
    \/ \E g \in Gen : LinReaderEnds(g)

ModesNext == MacNext \/ WinNext \/ LinNext \/ \E g \in Gen : PollExit(g)

(***************************************************************************)
(* Properties.                                                             *)
(***************************************************************************)
Live == {g \in Gen : tap[g].pc = "running"}
Polling == {g \in Gen : poll[g] = "running"}

AtRest ==
    /\ \A c \in Caller : Idle(c)
    /\ \A g \in Gen : tap[g].pc \in {"none", "running", "done", "failed"}
    /\ Polling \cap pollStop = {}

(***************************************************************************)
(* However calls of set_mode and stop overlap and whatever start fails,    *)
(* once they have returned and the threads are at rest, the mode the       *)
(* adapter reports is the one last asked for (or Off after a failure), and *)
(* exactly that mode's threads run: none of an older generation is left    *)
(* watching input, and can_suppress is true only over a thread that can.   *)
(***************************************************************************)
ModeIsReal ==
    (AtRest /\ ~excused) =>
        /\ run.mode = wanted \/ (faults < MaxFaults /\ run.mode = "Off")
        /\ run.pending = "none"
        /\ run.canSuppress => run.mode = "ActiveForward" /\ Live # {}
        /\ run.mode = "Off" => Live = {} /\ Polling = {}
        /\ os = "linux" /\ run.mode # "Off" => Live = {run.tap} /\ Polling = {}
        /\ os # "linux" /\ run.mode = "PassiveEdge" =>
              /\ Polling = {run.handle} /\ run.stop = run.handle
              /\ Live \subseteq {run.tap}
              /\ \A g \in Live : ~tap[g].suppress
        /\ os # "linux" /\ run.mode = "ActiveForward" =>
              /\ Polling = {} /\ Live = {run.tap}
              /\ run.canSuppress = tap[run.tap].suppress
=============================================================================
