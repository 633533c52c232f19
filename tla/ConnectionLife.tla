--------------------------- MODULE ConnectionLife ---------------------------
(***************************************************************************)
(* The life of a connection: how it is made and what it carries            *)
(* (Transport), and how its death ends the session of the runtime that     *)
(* holds it (RuntimeLife).  A behaviour follows one of the two, the other  *)
(* being over or not begun; they share no state.                           *)
(***************************************************************************)
EXTENDS Transport, RuntimeLife

VARIABLE part

allVars == <<part, linkVars, vars>>

\* No session runs: everything of RuntimeLife has ended.
NoRuntime ==
    /\ dead = TRUE /\ reason = "none" /\ cancelled = TRUE
    /\ net = [t \in NetTask |-> "ended"]
    /\ waiter = "returned" /\ registered = FALSE /\ woken = FALSE /\ updates = 0
    /\ session = "over" /\ moder = "ended" /\ capture = FALSE

StillScene == CHOOSE s \in LinkScene : TRUE

LifeInit ==
    \/ part = "transport" /\ scene \in LinkScene /\ LinkInit /\ NoRuntime
    \/ part = "runtime" /\ scene = StillScene /\ LinkInit /\ Init

LifeNext ==
    \/ part = "transport" /\ LinkNext /\ UNCHANGED <<part, vars>>
    \/ part = "runtime" /\ Next /\ UNCHANGED <<part, linkVars>>

LifeSpec == LifeInit /\ [][LifeNext]_allVars /\ Fairness
=============================================================================
