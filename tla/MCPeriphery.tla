---------------------------- MODULE MCPeriphery ----------------------------
(***************************************************************************)
(* Two callers of set_mode, two injecting tasks, and monitors of real      *)
(* size: alone, with one to the left and above (negative coordinates, and  *)
(* first in the order linux uses), with a larger one to the right.  Two    *)
(* replicas of the cluster state, with an actor id left for a restart.     *)
(***************************************************************************)
EXTENDS Periphery

MCMonitor(native, left, top, width, height, primary) ==
    [native |-> native, left |-> left, top |-> top, width |-> width, height |-> height, primary |-> primary]

MCMain == MCMonitor(11, 0, 0, 1920, 1080, TRUE)

MCArrangement ==
    {<<MCMain>>,
     <<MCMain, MCMonitor(5, -1280, -200, 1280, 1024, FALSE)>>,
     <<MCMain, MCMonitor(7, 1920, 0, 3840, 2160, FALSE)>>}

\* Ids by position and native ids; outside, on an edge, next to one.
MCRequest == {<<0, -5, 1>>, <<0, 1, 5000>>, <<1, 1920, 0>>, <<11, 1920, 1>>, <<5, 1, 1>>}

\* Two settings of the preferences, one field apart.
MCPref(dwell) ==
    [edge_dwell_ms |-> dwell, lock_on_drag |-> "on", cursor_accel |-> "on",
     cmd_ctrl_swap |-> "off", hotkeys |-> "none"]

MCPrefs == {MCPref("140"), MCPref("200")}

MCInfo(name, system) == [name |-> name, os |-> system]

\* A device, and two changes of it in different fields.
MCInfos == {MCInfo("left", "macos"), MCInfo("desk", "macos"), MCInfo("left", "linux")}

MCPaths == {<<"macos", "windows">>, <<"windows", "linux">>, <<"linux", "macos">>}
=============================================================================
