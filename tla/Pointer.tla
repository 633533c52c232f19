------------------------------ MODULE Pointer ------------------------------
(***************************************************************************)
(* The pointer of one machine as the platform adapters see and move it:    *)
(* display ids and coordinates on the way in (injection) and on the way    *)
(* out (capture), the parking of the Windows cursor while a peer is        *)
(* driven, and the software cursor drawn over it while a peer drives us.   *)
(*                                                                         *)
(* Injection is called from several runtime tasks at once: the core lock   *)
(* is released before an action is carried out.                            *)
(***************************************************************************)
EXTENDS Integers, Sequences, SequencesExt, FiniteSetsExt, TLC

CONSTANTS
    Arrangement,    \* monitor arrangements: sequences of monitors in OS order
    Request,        \* <<display id, x, y>> a peer may ask for
    Task,           \* runtime tasks that call the injector
    MaxCursorOps    \* calls, motions and faults

\* Monitors are not empty and do not overlap (mirrored outputs are left out).
ASSUME ArrangementsAreSane ==
    \A ms \in Arrangement :
        /\ ms # <<>>
        /\ \E i \in DOMAIN ms : ms[i].primary
        /\ \A i, j \in DOMAIN ms :
              i # j => \/ ms[i].left + ms[i].width <= ms[j].left
                       \/ ms[j].left + ms[j].width <= ms[i].left
                       \/ ms[i].top + ms[i].height <= ms[j].top
                       \/ ms[j].top + ms[j].height <= ms[i].top

VARIABLES
    host,               \* platform
    monitors,           \* current arrangement
    cached,             \* windows: the displays the running capture enumerated
    cursor,             \* where the OS cursor is
    saved, asserted,    \* saved_cursor (<<>> when visible), cursor_show_asserted
    window, mailbox,    \* overlay: "none" or what it shows; the pending command
    task,               \* where each task is inside an injector call
    mapper,             \* linux CursorMapper
    ops,                \* calls, motions and faults left
    aim, report,        \* last absolute move and the report made since, if nothing intervened
    parked,             \* the cursor sits where it was parked; so did the saved position
    expect,             \* what the last call to finish wants the overlay to show
    crossed             \* known races that have happened

cursorVars == <<host, monitors, cached, cursor, saved, asserted, window, mailbox, task, mapper, ops,
                aim, report, parked, expect, crossed>>

Nothing == <<>>

(***************************************************************************)
(* Display geometry.                                                       *)
(***************************************************************************)
\* i32::clamp
Clamped(v, lo, hi) == Max({lo, Min({v, hi})})

\* Clamped to the extent, one past the last pixel.
LocalToGlobalInclusive(d, x, y) == <<d.left + Clamped(x, 0, d.width), d.top + Clamped(y, 0, d.height)>>

LocalToGlobal(d, x, y) == <<d.left + Clamped(x, 0, d.width - 1), d.top + Clamped(y, 0, d.height - 1)>>

ContainsGlobal(d, p) ==
    /\ p[1] >= d.left /\ p[1] < d.left + d.width
    /\ p[2] >= d.top /\ p[2] < d.top + d.height

GlobalToLocal(d, p) == <<p[1] - d.left, p[2] - d.top>>

Bounds(id, m) == [id |-> id, left |-> m.left, top |-> m.top, width |-> m.width, height |-> m.height]

LexLess(a, b) == \E i \in DOMAIN a : a[i] < b[i] /\ \A j \in 1..(i - 1) : a[j] = b[j]

WinSortKey(m) == <<IF m.primary THEN 0 ELSE 1, m.top, m.left, m.left + m.width, m.top + m.height>>

\* Primary first; ids are positions.  An empty monitor takes no id.
WinDisplays(ms) ==
    LET ordered == SortSeq(ms, LAMBDA m, n : LexLess(WinSortKey(m), WinSortKey(n)))
        real == SelectSeq(ordered, LAMBDA m : m.width > 0 /\ m.height > 0)
    IN  [i \in DOMAIN real |-> Bounds(i - 1, real[i])]

\* Topmost, leftmost first, whichever is primary.
LinuxDisplays(ms) ==
    LET real == SelectSeq(ms, LAMBDA m : m.width > 0 /\ m.height > 0)
        ordered == SortSeq(real, LAMBDA m, n : LexLess(<<m.top, m.left, m.native>>, <<n.top, n.left, n.native>>))
    IN  [i \in DOMAIN ordered |-> Bounds(i - 1, ordered[i])]

\* CGGetActiveDisplayList: its own ids.
MacDisplays(ms) == [i \in DOMAIN ms |-> Bounds(ms[i].native, ms[i])]

Displays(ms) ==
    CASE host = "macos" -> MacDisplays(ms)
      [] host = "windows" -> WinDisplays(ms)
      [] host = "linux" -> LinuxDisplays(ms)

MainDisplay(ms) == LET i == CHOOSE i \in DOMAIN ms : ms[i].primary IN Bounds(ms[i].native, ms[i])

\* The display containing the point, or else the first, or else the raw point.
PointToEvent(ds, p) ==
    LET hit == SelectSeq(ds, LAMBDA d : ContainsGlobal(d, p))
        d == IF hit # <<>> THEN Head(hit) ELSE Head(ds)
    IN  IF ds = <<>> THEN [id |-> 0, at |-> p] ELSE [id |-> d.id, at |-> GlobalToLocal(d, p)]

\* Union of the displays, which windows asks of the OS.
DesktopBounds(ds) ==
    LET left == Min({ds[i].left : i \in DOMAIN ds})
        top == Min({ds[i].top : i \in DOMAIN ds})
    IN  [left |-> left, top |-> top,
         width |-> Max({ds[i].left + ds[i].width : i \in DOMAIN ds}) - left,
         height |-> Max({ds[i].top + ds[i].height : i \in DOMAIN ds}) - top]

AbsMax == 65535

\* Both platforms inject a position as a fraction of the desktop ...
NormalizeAxis(pixel, origin, extent) ==
    Clamped(((pixel - origin) * AbsMax) \div Max({extent - 1, 1}), 0, AbsMax)

ScaleAxis(value, length) ==
    IF length - 1 <= 0 THEN 0 ELSE (Clamped(value, 0, length - 1) * AbsMax) \div (length - 1)

\* ... which the OS turns back into a pixel.
Denormalize(n, origin, extent) == origin + (n * extent) \div (AbsMax + 1)

WinTarget(p) ==
    LET d == DesktopBounds(monitors)
    IN  <<Denormalize(NormalizeAxis(p[1], d.left, d.width), d.left, d.width),
          Denormalize(NormalizeAxis(p[2], d.top, d.height), d.top, d.height)>>

LinuxTarget(p) ==
    LET d == DesktopBounds(LinuxDisplays(monitors))
    IN  <<Denormalize(ScaleAxis(p[1] - d.left, d.width), d.left, d.width),
          Denormalize(ScaleAxis(p[2] - d.top, d.height), d.top, d.height)>>

ParkPosition == LET d == DesktopBounds(monitors) IN <<d.left + d.width - 1, d.top + d.height - 1>>

\* The OS keeps the cursor on a monitor.
OnScreen(p) ==
    IF \E i \in DOMAIN monitors : ContainsGlobal(monitors[i], p) THEN p
    ELSE LET i == CHOOSE i \in DOMAIN monitors : monitors[i].primary
         IN  LocalToGlobal(monitors[i], p[1] - monitors[i].left, p[2] - monitors[i].top)

(***************************************************************************)
(* State.                                                                  *)
(***************************************************************************)
Resting == [pc |-> "idle", visible |-> TRUE, live |-> Nothing, parked |-> FALSE]
Mapper0 == [at |-> Nothing, integrating |-> FALSE]

PointerInit ==
    /\ monitors \in Arrangement
    /\ cached = WinDisplays(monitors)
    /\ cursor = OnScreen(<<100, 100>>)
    /\ saved = Nothing /\ asserted = FALSE
    /\ window = "none" /\ mailbox = Nothing
    /\ task = [t \in Task |-> Resting]
    /\ mapper = Mapper0
    /\ ops = MaxCursorOps
    /\ aim = Nothing /\ report = Nothing
    /\ parked = [now |-> FALSE, saved |-> FALSE] /\ expect = "hidden" /\ crossed = {}

Spend == ops > 0 /\ ops' = ops - 1
At(t, pc) == task[t].pc = pc
Finish(t) == task' = [task EXCEPT ![t] = Resting]

\* Any movement of the cursor makes the last move and report history.
CursorGoes(p) == cursor' = p /\ aim' = Nothing /\ report' = Nothing
LeavesCorner == parked' = [parked EXCEPT !.now = FALSE]

(***************************************************************************)
(* The overlay: a mailbox of one command, which a newer command replaces.  *)
(***************************************************************************)
\* spawn_overlay may fail; the next show_at tries again.
PostShow(p) ==
    \/ window # "none" /\ mailbox' = <<"show", p>> /\ UNCHANGED window
    \/ window = "none" /\ window' = "hidden" /\ mailbox' = <<"show", p>>
    \/ window = "none" /\ UNCHANGED <<window, mailbox>>

PostHide == mailbox' = IF window = "none" THEN mailbox ELSE <<"hide">>

OverlayApply ==
    /\ window # "none" /\ mailbox # Nothing
    /\ window' = IF mailbox[1] = "hide" THEN "hidden" ELSE "shown"
    /\ mailbox' = Nothing
    /\ UNCHANGED <<host, monitors, cached, cursor, saved, asserted, task, mapper, ops, aim, report, parked,
                   expect, crossed>>

(***************************************************************************)
(* Injection of motion.                                                    *)
(***************************************************************************)
Lookup(r) == SelectSeq(Displays(monitors), LAMBDA d : d.id = r[1])

\* An id the source cannot know resolves to the main display.
MacMoveCursor(r) ==
    /\ host = "macos" /\ Spend
    /\ LET d == IF Lookup(r) # <<>> THEN Head(Lookup(r)) ELSE MainDisplay(monitors)
       IN  /\ cursor' = LocalToGlobal(d, r[2], r[3])
           /\ aim' = <<d, r[2], r[3]>> /\ report' = Nothing
    /\ UNCHANGED <<host, monitors, cached, saved, asserted, window, mailbox, task, mapper, parked, expect, crossed>>

LinuxMoveCursor(r) ==
    /\ host = "linux" /\ Spend
    /\ Lookup(r) # <<>>                             \* else UnknownDisplay
    /\ LET d == Head(Lookup(r))
       IN  /\ cursor' = LinuxTarget(LocalToGlobal(d, r[2], r[3]))
           /\ aim' = <<d, r[2], r[3]>> /\ report' = Nothing
    /\ UNCHANGED <<host, monitors, cached, saved, asserted, window, mailbox, task, mapper, parked, expect, crossed>>

\* windows moves, then reads the position back to draw the overlay there.
WinMoveCursor(t, r) ==
    /\ host = "windows" /\ At(t, "idle") /\ Spend
    /\ asserted' = TRUE
    /\ IF Lookup(r) # <<>>
       THEN LET d == Head(Lookup(r))
            IN  /\ cursor' = WinTarget(LocalToGlobal(d, r[2], r[3]))
                /\ aim' = <<d, r[2], r[3]>> /\ report' = Nothing
                /\ task' = [task EXCEPT ![t].pc = "show"]
                /\ LeavesCorner
       ELSE UNCHANGED <<cursor, aim, report, task, parked>>
    /\ UNCHANGED <<host, monitors, cached, saved, window, mailbox, mapper, expect, crossed>>

WinMoveShow(t) ==
    /\ At(t, "show")
    /\ PostShow(cursor)
    /\ expect' = IF window' = "none" THEN expect ELSE "shown"
    /\ Finish(t)
    /\ UNCHANGED <<host, monitors, cached, cursor, saved, asserted, mapper, ops, aim, report, parked, crossed>>

Nudge == 7

WinMoveRelative(t) ==
    /\ host = "windows" /\ At(t, "idle") /\ Spend
    /\ asserted' = TRUE
    /\ CursorGoes(OnScreen(<<cursor[1] + Nudge, cursor[2]>>)) /\ LeavesCorner
    /\ task' = [task EXCEPT ![t].pc = "show"]
    /\ UNCHANGED <<host, monitors, cached, saved, window, mailbox, mapper, expect, crossed>>

\* The user's own mouse, or a relative move injected on macos or linux.
CursorMoves ==
    /\ Spend
    /\ CursorGoes(OnScreen(<<cursor[1] + Nudge, cursor[2]>>)) /\ LeavesCorner
    /\ UNCHANGED <<host, monitors, cached, saved, asserted, window, mailbox, task, mapper, expect, crossed>>

(***************************************************************************)
(* set_cursor_visible on Windows.                                          *)
(***************************************************************************)
\* A move already past its SetCursor will still draw the overlay.
LateShow == \E u \in Task : At(u, "show")

VisibleBegin(t, visible) ==
    /\ host = "windows" /\ At(t, "idle") /\ Spend
    /\ PostHide
    /\ asserted' = (asserted \/ visible)
    /\ task' = [task EXCEPT ![t] = [pc |-> IF visible THEN "lock" ELSE "live", visible |-> visible,
                                    live |-> Nothing, parked |-> FALSE]]
    /\ expect' = "hidden"
    /\ crossed' = crossed \cup (IF LateShow THEN {"overlay"} ELSE {})
    /\ UNCHANGED <<host, monitors, cached, cursor, saved, window, mapper, aim, report, parked>>

\* The position is read before the lock is taken.
VisibleLive(t) ==
    /\ At(t, "live")
    /\ \/ /\ task' = [task EXCEPT ![t] = [pc |-> "lock", visible |-> @.visible, live |-> <<cursor>>, parked |-> parked.now]]
          /\ UNCHANGED ops
       \/ Spend /\ Finish(t)                        \* GetCursorPos failed
    /\ UNCHANGED <<host, monitors, cached, cursor, saved, asserted, window, mailbox, mapper, aim, report,
                   parked, expect, crossed>>

\* The position of a cursor that is already parked, saved over the first.
NextCursorStateResaving(current, visible, live) ==
    CASE ~visible -> <<live, <<ParkPosition>>>>
      [] visible /\ current # Nothing -> <<Nothing, current>>
      [] visible /\ current = Nothing -> <<Nothing, Nothing>>

\* <<what to remember, where to put the cursor>>
NextCursorState(current, visible, live) ==
    CASE ~visible /\ current = Nothing -> <<live, <<ParkPosition>>>>
      [] ~visible /\ current # Nothing -> <<current, Nothing>>
      [] visible /\ current # Nothing -> <<Nothing, current>>
      [] visible /\ current = Nothing -> <<Nothing, Nothing>>

\* Decision, OS move and commit under the lock; a failed move commits nothing.
VisibleCommit(t) ==
    /\ At(t, "lock")
    /\ LET visible == task[t].visible
           next == NextCursorState(saved, visible, task[t].live)
       IN  \/ /\ saved' = next[1]
              /\ IF next[2] = Nothing THEN UNCHANGED <<cursor, aim, report>> ELSE CursorGoes(next[2][1])
              /\ asserted' = (asserted /\ visible)
              /\ parked' = CASE next[2] = Nothing -> parked
                             [] visible -> [now |-> parked.saved, saved |-> FALSE]
                             [] OTHER -> [now |-> TRUE, saved |-> task[t].parked]
              \* A hide that read the parked position, then found it restored.
              /\ crossed' = crossed \cup
                    (IF ~visible /\ saved = Nothing /\ task[t].parked THEN {"park"} ELSE {})
              /\ UNCHANGED ops
           \/ /\ next[2] # Nothing /\ Spend
              /\ UNCHANGED <<saved, cursor, aim, report, asserted, parked, crossed>>
    /\ Finish(t)
    /\ UNCHANGED <<host, monitors, cached, window, mailbox, mapper, expect>>

(***************************************************************************)
(* Capture: what the source side reports of the cursor.                    *)
(***************************************************************************)
\* A poll thread (macos), or the hooks and the poll thread of windows, which
\* keep the displays they enumerated at start.
Poll ==
    /\ host \in {"macos", "windows"}
    /\ report' = PointToEvent(IF host = "windows" THEN cached ELSE MacDisplays(monitors), cursor)
    /\ UNCHANGED <<host, monitors, cached, cursor, saved, asserted, window, mailbox, task, mapper, ops, aim,
                   parked, expect, crossed>>

\* The mapper asks the X server, or adds to the last point while the previous
\* event was suppressed; the decision on this event sets which it is next.
EventFromDelta(suppress) ==
    /\ host = "linux" /\ Spend
    /\ IF mapper.integrating
       THEN /\ mapper' = [at |-> IF mapper.at = Nothing THEN Nothing
                                 ELSE <<<<mapper.at[1][1] + Nudge, mapper.at[1][2]>>>>,
                          integrating |-> suppress]
            /\ UNCHANGED report                     \* a position the desktop never shows
       ELSE /\ mapper' = [at |-> <<cursor>>, integrating |-> suppress]
            /\ report' = PointToEvent(LinuxDisplays(monitors), cursor)
    /\ UNCHANGED <<host, monitors, cached, cursor, saved, asserted, window, mailbox, task, aim, parked,
                   expect, crossed>>

CaptureStart ==
    /\ cached' = WinDisplays(monitors) /\ mapper' = Mapper0 /\ report' = Nothing
    /\ UNCHANGED <<host, monitors, cursor, saved, asserted, window, mailbox, task, ops, aim, parked,
                   expect, crossed>>

\* The user plugs or unplugs a monitor.
Rearrange ==
    /\ Spend
    /\ monitors' \in Arrangement \ {monitors}
    /\ cursor' = IF \E i \in DOMAIN monitors' : ContainsGlobal(monitors'[i], cursor) THEN cursor ELSE <<0, 0>>
    /\ aim' = Nothing /\ report' = Nothing
    /\ parked' = [parked EXCEPT !.now = @ /\ cursor' = cursor]
    /\ UNCHANGED <<host, cached, saved, asserted, window, mailbox, task, mapper, expect, crossed>>

PointerNext ==
    \/ \E r \in Request : MacMoveCursor(r) \/ LinuxMoveCursor(r) \/ \E t \in Task : WinMoveCursor(t, r)
    \/ \E t \in Task :
          \/ WinMoveShow(t) \/ WinMoveRelative(t)
          \/ \E visible \in BOOLEAN : VisibleBegin(t, visible)
          \/ VisibleLive(t) \/ VisibleCommit(t)
    \/ CursorMoves \/ OverlayApply
    \/ Poll \/ (\E suppress \in BOOLEAN : EventFromDelta(suppress)) \/ CaptureStart \/ Rearrange

(***************************************************************************)
(* Properties.                                                             *)
(***************************************************************************)
\* The point of the display nearest to what was asked for.
Nearest(v, extent) == CHOOSE n \in {0, v, extent - 1} :
                          /\ n \in 0..(extent - 1)
                          /\ \A m \in {0, v, extent - 1} : m \in 0..(extent - 1) =>
                                (n - v) * (n - v) <= (m - v) * (m - v)

(***************************************************************************)
(* A pointer put at a point of a display is reported back by capture as    *)
(* that display and the nearest point it has, at most one pixel nearer to  *)
(* the desktop's origin: across the ordering of displays each platform     *)
(* uses, negative coordinates, the 16-bit fraction in between and monitors *)
(* that come and go.  Except on Windows while the capture still has the    *)
(* displays of an earlier arrangement.                                     *)
(***************************************************************************)
PointerLandsWhereSent ==
    (aim # Nothing /\ report # Nothing /\ (host = "windows" => cached = WinDisplays(monitors))) =>
        LET d == aim[1]
        IN  /\ report.id = d.id
            /\ Nearest(aim[2], d.width) - report.at[1] \in {0, 1}
            /\ Nearest(aim[3], d.height) - report.at[2] \in {0, 1}

(***************************************************************************)
(* Hiding and showing the Windows cursor, by several tasks at once and     *)
(* with any OS call failing: whenever the adapter holds the cursor to be   *)
(* visible it is not left in the corner it was parked in, and once the     *)
(* overlay has caught up it is drawn only if the last thing asked for was  *)
(* a move.  Except for the two known races: a hide that reads the position *)
(* before a show restores it, and a move still on its way to the overlay   *)
(* when the cursor is hidden or shown.                                     *)
(***************************************************************************)
CursorComesHome ==
    /\ ("park" \notin crossed /\ saved = Nothing) => ~parked.now
    /\ ("overlay" \notin crossed /\ mailbox = Nothing /\ \A t \in Task : ~At(t, "show")) =>
          window \in {"none", expect}
=============================================================================
