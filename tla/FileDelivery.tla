---------------------------- MODULE FileDelivery ----------------------------
(***************************************************************************)
(* What file transfer promises to the user, without messages, windows or   *)
(* connections: bytes that reached the quarantine directory stay there, so *)
(* a later attempt continues where an earlier one stopped, and an attempt  *)
(* ends as a success only when every file it offered is held in full.      *)
(* FileTransfer implements this specification.                             *)
(***************************************************************************)
EXTENDS Naturals

CONSTANTS
    Attempt,    \* transfers the user starts
    Name,       \* file names in the quarantine directory
    Limit       \* no file is longer than this

VARIABLES
    held,       \* held[n]: length of the prefix of n on the receiver's disk
    wanted,     \* wanted[t]: the files attempt t offers, <<name, length>>
    outcome     \* outcome[t]: "new", "running", "ok" or "failed"

Offer == Name \X (0 .. Limit)

Init ==
    /\ held = [n \in Name |-> 0]
    /\ wanted = [t \in Attempt |-> {}]
    /\ outcome = [t \in Attempt |-> "new"]

Begin(t) ==
    /\ outcome[t] = "new"
    /\ \E w \in SUBSET Offer : wanted' = [wanted EXCEPT ![t] = w]
    /\ outcome' = [outcome EXCEPT ![t] = "running"]
    /\ UNCHANGED held

Extend(n) ==
    /\ \E k \in held[n] + 1 .. Limit : held' = [held EXCEPT ![n] = k]
    /\ UNCHANGED <<wanted, outcome>>

Succeed(t) ==
    /\ outcome[t] = "running"
    /\ \A w \in wanted[t] : held[w[1]] >= w[2]
    /\ outcome' = [outcome EXCEPT ![t] = "ok"]
    /\ UNCHANGED <<held, wanted>>

Fail(t) ==
    /\ outcome[t] \in {"new", "running"}
    /\ outcome' = [outcome EXCEPT ![t] = "failed"]
    /\ UNCHANGED <<held, wanted>>

Next ==
    \/ \E n \in Name : Extend(n)
    \/ \E t \in Attempt : Begin(t) \/ Succeed(t) \/ Fail(t)

Spec == Init /\ [][Next]_<<held, wanted, outcome>>
=============================================================================
