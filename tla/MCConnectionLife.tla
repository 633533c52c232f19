-------------------------- MODULE MCConnectionLife --------------------------
(***************************************************************************)
(* Connections: a dial past a dead address and a stranger, ends that do    *)
(* not accept a Hello, frames both ways, motion with and without           *)
(* datagrams, and two sessions with a bulk dial.  The runtime has its      *)
(* three network tasks; each fails for its own reason, so they are told    *)
(* apart and no symmetry is used.                                          *)
(***************************************************************************)
EXTENDS ConnectionLife

MCNetTask == {"sender", "control", "motion"}

MCQuiet ==
    [candidates |-> <<"peer">>, refuses |-> {}, datagrams |-> TRUE,
     frames |-> 0, samples |-> 0, bulks |-> 0, faults |-> 0]

MCLinkScene ==
    {[MCQuiet EXCEPT !.candidates = <<"dead", "other", "peer">>],
     [MCQuiet EXCEPT !.candidates = <<"peer", "peer">>, !.bulks = 2],
     [MCQuiet EXCEPT !.frames = 2, !.faults = 1]}
    \cup {[MCQuiet EXCEPT !.refuses = r, !.faults = 1] : r \in {{}, {"initiator"}, {"acceptor"}}}
    \cup {[MCQuiet EXCEPT !.datagrams = d, !.samples = 3] : d \in BOOLEAN}
=============================================================================
