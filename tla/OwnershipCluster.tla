-------------------------- MODULE OwnershipCluster --------------------------
(***************************************************************************)
(* Any number of devices that use the operations of ownership.rs against   *)
(* each other.  Every claim ever announced stays deliverable, to any       *)
(* device, any number of times and in any order: loss is a claim never     *)
(* delivered, duplication and reordering come for free.                    *)
(***************************************************************************)
EXTENDS Ownership

VARIABLES
    view,     \* view[d]: the Ownership value of device d
    announced \* every claim announced so far

clusterVars == <<view, announced>>

ClusterInit ==
    /\ view = [d \in Device |-> NewOwnership(d)]
    /\ announced = {}

ClaimOf(v) == [owner |-> v.owner, epoch |-> v.epoch,
               reclaim |-> v.reclaim_origin]

\* grant_to: only the owner of its own view mints, and its callers grant to a
\* peer; the epoch bound keeps the saturating add away from u64::MAX.
Grant(d, target) ==
    /\ IsOwner(view[d])
    /\ view[d].epoch < EpochMax
    /\ view' = [view EXCEPT ![d] = GrantTo(view[d], target)]
    /\ announced' = announced \union {ClaimOf(GrantTo(view[d], target))}

\* reclaim: no guard in the code.
ReclaimBy(d) ==
    /\ view[d].epoch < EpochMax
    /\ view' = [view EXCEPT ![d] = Reclaim(view[d])]
    /\ announced' = announced \union {ClaimOf(Reclaim(view[d]))}

\* observe, whatever the claim and however late it comes.
Hear(d, c) ==
    /\ view' = [view EXCEPT ![d] = Observe(view[d], c)]
    /\ UNCHANGED announced

ClusterNext ==
    \E d \in Device :
        \/ \E t \in Device \ {d} : Grant(d, t)
        \/ ReclaimBy(d)
        \/ \E c \in announced : Hear(d, c)

ClusterSpec == ClusterInit /\ [][ClusterNext]_clusterVars
-----------------------------------------------------------------------------
\* Every view and every announced claim is well formed, and a view belongs to
\* its device.
ViewsTyped ==
    /\ view \in [Device -> View]
    /\ announced \subseteq Claim
    /\ \A d \in Device : view[d].me = d

\* What a device believes beyond its boot state was announced by somebody:
\* neither late nor duplicated claims can make observe invent an owner.
Provenance ==
    \A d \in Device : view[d].epoch > 0 => ClaimOf(view[d]) \in announced

\* Everyone has heard everything that would still change its mind.
Settled == \A d \in Device, c \in announced : ~Accepts(view[d], c)

OnlyReclaims(e) == \A c \in announced : c.epoch = e => c.reclaim

\* The simultaneous-reclaim tiebreak of observe does its job: when the claims
\* of an epoch are all reclaims and have all been heard, the devices that are
\* at that epoch name the same owner, whatever the order of delivery.
ReclaimRaceConverges ==
    Settled =>
        \A d, e \in Device :
            /\ view[d].epoch = view[e].epoch
            /\ view[d].epoch > 0
            /\ OnlyReclaims(view[d].epoch)
            => view[d].owner = view[e].owner

\* No claim, however late, duplicated or reordered, moves a device back to an
\* older epoch.
EpochNeverRegresses ==
    [][\A d \in Device : view'[d].epoch >= view[d].epoch]_clusterVars

\* A granted owner is never displaced at the same epoch: only a newer epoch
\* changes what a device holds by a grant.
GrantStands ==
    [][\A d \in Device :
          /\ ~view[d].reclaim_origin
          /\ view'[d].epoch = view[d].epoch
          => view'[d].owner = view[d].owner]_clusterVars

\* Together: what a device believes was announced, and a race of reclaims ends
\* with one owner.
OwnersAreGenuine == ViewsTyped /\ Provenance /\ ReclaimRaceConverges
=============================================================================
