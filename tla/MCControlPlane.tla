--------------------------- MODULE MCControlPlane ---------------------------
(* Slices of the control plane: each bound record opens one part of it.    *)
EXTENDS ControlPlane

MCPeer == {"A", "B"}
MCHostIfaces == {{"lan4", "lan6"}, {"lan6", "apipa", "linklocal6"}, {"lan4", "virtual4", "awdl6"}}

Closed == [net |-> 0, roaming |-> {}, clients |-> 0, ops |-> {}, commands |-> 0, arriving |-> {},
           sessions |-> 0, prompts |-> 0, cli |-> 0, crashes |-> 0, io |-> 0,
           queue |-> 2, slots |-> 2, visible |-> MCPeer, trusted |-> MCPeer]

\* Clients coming and going while a task publishes.
Wire == {
    [Closed EXCEPT !.clients = 2, !.commands = 1, !.ops = {"get", "disconnect"},
                   !.arriving = {"refresh"}],
    [Closed EXCEPT !.clients = 2, !.slots = 1, !.queue = 1, !.ops = {"refresh", "disconnect"}]}
\* Pairing, trust and reset against a store that may fail, and restarts.
Store == {
    [Closed EXCEPT !.commands = 2, !.prompts = 1, !.io = 1, !.trusted = {},
                   !.arriving = {"approve", "deny", "reset"}],
    [Closed EXCEPT !.commands = 2, !.prompts = 1, !.cli = 1, !.trusted = {"B"},
                   !.arriving = {"approve", "trust"}],
    [Closed EXCEPT !.commands = 2, !.crashes = 1, !.io = 1, !.arriving = {"trust", "update", "reset"}]}
\* Sessions, connect requests and files.
Sessions == {
    [Closed EXCEPT !.commands = 2, !.sessions = 3, !.visible = {"A"},
                   !.arriving = {"sendFiles", "connect", "disconnect"}]}
\* A machine coming, moving and going, and the snapshots that follow.
Net == {[Closed EXCEPT !.net = 4, !.roaming = {"A"}, !.visible = {"B"}]}

ClientSymmetry == Permutations(Client)

MCBounds == Wire \cup Store \cup Sessions \cup Net
=============================================================================
