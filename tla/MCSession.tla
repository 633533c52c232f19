----------------------------- MODULE MCSession -----------------------------
(* Session on one source and one target.  A 4-pixel screen with a margin of *)
(* one keeps every branch of the edge logic reachable: x = 3 is the edge,   *)
(* x = 2 inside the margin, x = 1 the escape zone.                          *)
EXTENDS Session

MCMoves == {<<3, 1>>, <<1, 1>>, <<2, -2>>, <<1, -1>>}
MCPushes == {<<3, 1>>, <<1, 1>>, <<2, -1>>}
MCThereAndBack == {<<3, 1>>, <<2, -1>>}
MCKeys == {[kind |-> "Key", usage |-> k, down |-> b] : k \in Key, b \in BOOLEAN}
MCTyping == MCKeys \union {[kind |-> "Scroll"]}
MCPeerMessages == {PingMsg, GoodbyeMsg}
MCNone == {}
=============================================================================
