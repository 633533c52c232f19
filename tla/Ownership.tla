----------------------------- MODULE Ownership -----------------------------
(***************************************************************************)
(* The ownership token of mouser-core/src/ownership.rs as functions on one *)
(* device's view of it.  The module has no state: the cluster of views     *)
(* (OwnershipCluster) and the engine core (EngineCore) are built on it.    *)
(*                                                                         *)
(* A claim is what an OwnershipTransfer says: who owns, at which epoch,    *)
(* and whether the sender minted it for itself (a reclaim) or, as the      *)
(* owner, for another device (a grant).                                    *)
(***************************************************************************)
EXTENDS Naturals

CONSTANTS
    Device,     \* device ids; the code orders the 32-byte ids, here numbers
    EpochMax    \* the largest owner_epoch (u64::MAX in the code)

ASSUME OwnershipAssumption ==
    /\ Device \subseteq Nat
    /\ EpochMax \in Nat \ {0}

Epoch == 0 .. EpochMax
FocusKind == {"Active", "Standby", "InputBlocked", "Disconnected"}

View == [me: Device, owner: Device, epoch: Epoch, focus: FocusKind,
         reclaim_origin: BOOLEAN]

Claim == [owner: Device, epoch: Epoch, reclaim: BOOLEAN]

\* saturating_add(1) on the epoch.
NextEpoch(e) == IF e < EpochMax THEN e + 1 ELSE e

FocusOf(me, owner) == IF owner = me THEN "Active" ELSE "Standby"

\* The boot view: every device owns its own input at epoch 0.
NewOwnership(me) ==
    [me |-> me, owner |-> me, epoch |-> 0, focus |-> "Active",
     reclaim_origin |-> FALSE]

IsOwner(v) == v.owner = v.me

\* A handoff; the callers take it only when IsOwner(v).
GrantTo(v, target) ==
    [v EXCEPT !.owner = target,
              !.epoch = NextEpoch(v.epoch),
              !.focus = FocusOf(v.me, target),
              !.reclaim_origin = FALSE]

\* Mutant: the reclaim keeps the epoch it takes input back from.
ReclaimSameEpoch(v) ==
    [v EXCEPT !.owner = v.me, !.focus = "Active", !.reclaim_origin = TRUE]

\* A self-minted epoch, taken without asking anyone.
Reclaim(v) ==
    [v EXCEPT !.owner = v.me,
              !.epoch = NextEpoch(v.epoch),
              !.focus = "Active",
              !.reclaim_origin = TRUE]

\* Mutants of the acceptance rule: no staleness check, and no tiebreak.
AcceptsAny(v, c) == c.owner # v.owner \/ c.epoch # v.epoch
AcceptsNoTiebreak(v, c) == c.epoch > v.epoch

\* The acceptance rule of observe: a newer epoch, or, between two reclaims of
\* the same epoch, the lower device id.
Accepts(v, c) ==
    \/ c.epoch > v.epoch
    \/ /\ c.epoch = v.epoch
       /\ c.owner # v.owner
       /\ v.reclaim_origin
       /\ c.reclaim
       /\ c.owner < v.owner

Adopt(v, c) ==
    [v EXCEPT !.owner = c.owner,
              !.epoch = c.epoch,
              !.focus = FocusOf(v.me, c.owner),
              !.reclaim_origin = c.reclaim]

Observe(v, c) == IF Accepts(v, c) THEN Adopt(v, c) ELSE v

MarkInputBlocked(v) == [v EXCEPT !.focus = "InputBlocked"]
=============================================================================
