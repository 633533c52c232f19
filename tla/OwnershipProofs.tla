-------------------------- MODULE OwnershipProofs --------------------------
(***************************************************************************)
(* Proofs about OwnershipCluster for every set of device ids and every     *)
(* largest epoch.                                                          *)
(***************************************************************************)
EXTENDS OwnershipCluster, TLAPS

USE DEF Epoch, FocusKind

\* The view a grant, a reclaim or an adopted claim leaves behind is a view of
\* the same device, and an epoch later or equal.
LEMMA GrantToView ==
    ASSUME NEW v \in View, NEW t \in Device
    PROVE  /\ GrantTo(v, t) \in View
           /\ GrantTo(v, t).me = v.me
           /\ ClaimOf(GrantTo(v, t)) \in Claim
           /\ v.epoch < EpochMax => GrantTo(v, t).epoch = v.epoch + 1
<1>1. NextEpoch(v.epoch) \in Epoch /\ (v.epoch < EpochMax => NextEpoch(v.epoch) = v.epoch + 1)
  BY OwnershipAssumption DEF View, NextEpoch
<1>2. FocusOf(v.me, t) \in FocusKind
  BY DEF FocusOf
<1>. HIDE DEF Epoch, FocusKind
<1>. QED
  BY <1>1, <1>2 DEF View, Claim, ClaimOf, GrantTo

LEMMA ReclaimView ==
    ASSUME NEW v \in View
    PROVE  /\ Reclaim(v) \in View
           /\ Reclaim(v).me = v.me
           /\ ClaimOf(Reclaim(v)) \in Claim
           /\ v.epoch < EpochMax => Reclaim(v).epoch = v.epoch + 1
<1>1. NextEpoch(v.epoch) \in Epoch /\ (v.epoch < EpochMax => NextEpoch(v.epoch) = v.epoch + 1)
  BY OwnershipAssumption DEF View, NextEpoch
<1>2. "Active" \in FocusKind
  OBVIOUS
<1>. HIDE DEF Epoch, FocusKind
<1>. QED
  BY <1>1, <1>2 DEF View, Claim, ClaimOf, Reclaim

LEMMA ObserveView ==
    ASSUME NEW v \in View, NEW c \in Claim
    PROVE  /\ Observe(v, c) \in View
           /\ Observe(v, c).me = v.me
           /\ Observe(v, c).epoch >= v.epoch
           /\ Observe(v, c) = v \/ ClaimOf(Observe(v, c)) = c
<1>1. Adopt(v, c) \in View /\ Adopt(v, c).me = v.me /\ ClaimOf(Adopt(v, c)) = c
  BY DEF View, Claim, ClaimOf, Adopt, FocusOf
<1>2. Accepts(v, c) => Adopt(v, c).epoch >= v.epoch
  BY OwnershipAssumption DEF View, Claim, Accepts, Adopt
<1>3. v.epoch >= v.epoch
  BY OwnershipAssumption DEF View
<1>. QED
  BY <1>1, <1>2, <1>3 DEF Observe

\* Every reachable state is well typed.
THEOREM TypeCorrect == ClusterSpec => []ViewsTyped
<1>1. ClusterInit => ViewsTyped
  BY OwnershipAssumption DEF ClusterInit, ViewsTyped, NewOwnership, View, Claim
<1>2. ViewsTyped /\ [ClusterNext]_clusterVars => ViewsTyped'
  <2>. SUFFICES ASSUME ViewsTyped, [ClusterNext]_clusterVars
                PROVE  ViewsTyped'
    OBVIOUS
  <2>1. ASSUME NEW d \in Device, NEW t \in Device \ {d}, Grant(d, t)
        PROVE  ViewsTyped'
    <3>1. view[d] \in View
      BY DEF ViewsTyped
    <3>. QED
      BY <2>1, <3>1, GrantToView DEF ViewsTyped, Grant
  <2>2. ASSUME NEW d \in Device, ReclaimBy(d)
        PROVE  ViewsTyped'
    <3>1. view[d] \in View
      BY DEF ViewsTyped
    <3>. QED
      BY <2>2, <3>1, ReclaimView DEF ViewsTyped, ReclaimBy
  <2>3. ASSUME NEW d \in Device, NEW c \in announced, Hear(d, c)
        PROVE  ViewsTyped'
    <3>1. view[d] \in View /\ c \in Claim
      BY DEF ViewsTyped
    <3>. QED
      BY <2>3, <3>1, ObserveView DEF ViewsTyped, Hear
  <2>4. CASE UNCHANGED clusterVars
    BY <2>4 DEF ViewsTyped, clusterVars
  <2>. QED
    BY <2>1, <2>2, <2>3, <2>4 DEF ClusterNext
<1>. QED
  BY <1>1, <1>2, PTL DEF ClusterSpec

\* A view is either the boot view's epoch or backed by an announced claim.
THEOREM ProvenanceHolds == ClusterSpec => []Provenance
<1>1. ClusterInit => Provenance
  BY DEF ClusterInit, Provenance, NewOwnership
<1>2. ViewsTyped /\ Provenance /\ [ClusterNext]_clusterVars => Provenance'
  <2>. SUFFICES ASSUME ViewsTyped, Provenance, [ClusterNext]_clusterVars
                PROVE  Provenance'
    OBVIOUS
  <2>1. ASSUME NEW d \in Device, NEW t \in Device \ {d}, Grant(d, t)
        PROVE  Provenance'
    BY <2>1 DEF Grant, Provenance, ViewsTyped, ClaimOf
  <2>2. ASSUME NEW d \in Device, ReclaimBy(d)
        PROVE  Provenance'
    BY <2>2 DEF ReclaimBy, Provenance, ViewsTyped, ClaimOf
  <2>3. ASSUME NEW d \in Device, NEW c \in announced, Hear(d, c)
        PROVE  Provenance'
    <3>1. view[d] \in View /\ c \in Claim
      BY DEF ViewsTyped
    <3>2. view'[d] = view[d] \/ ClaimOf(view'[d]) = c
      BY <2>3, <3>1, ObserveView DEF Hear, ViewsTyped
    <3>3. \A e \in Device : e # d => view'[e] = view[e]
      BY <2>3 DEF Hear, ViewsTyped
    <3>. QED
      BY <2>3, <3>2, <3>3 DEF Provenance, Hear, ClaimOf
  <2>4. CASE UNCHANGED clusterVars
    BY <2>4 DEF Provenance, clusterVars, ClaimOf
  <2>. QED
    BY <2>1, <2>2, <2>3, <2>4 DEF ClusterNext
<1>. QED
  BY <1>1, <1>2, TypeCorrect, PTL DEF ClusterSpec

\* The tiebreak leaves one owner per epoch of reclaims: two settled devices at
\* that epoch each hold an announced reclaim, and neither would accept the
\* other's, so neither owner id is the lower one.
THEOREM ReclaimRaceTheorem == ClusterSpec => []ReclaimRaceConverges
<1>1. ViewsTyped /\ Provenance => ReclaimRaceConverges
  <2>. SUFFICES ASSUME ViewsTyped, Provenance, Settled,
                       NEW d \in Device, NEW e \in Device,
                       view[d].epoch = view[e].epoch,
                       view[d].epoch > 0,
                       OnlyReclaims(view[d].epoch)
                PROVE  view[d].owner = view[e].owner
    BY DEF ReclaimRaceConverges
  <2>1. /\ view[d] \in View /\ view[e] \in View
        /\ view[d].owner \in Nat /\ view[e].owner \in Nat
    BY OwnershipAssumption DEF ViewsTyped, View
  <2>2. ClaimOf(view[d]) \in announced /\ ClaimOf(view[e]) \in announced
    BY DEF Provenance
  <2>3. view[d].reclaim_origin /\ view[e].reclaim_origin
    BY <2>2 DEF OnlyReclaims, ClaimOf
  <2>4. ~Accepts(view[d], ClaimOf(view[e])) /\ ~Accepts(view[e], ClaimOf(view[d]))
    BY <2>2 DEF Settled
  <2>5. ~(view[e].owner < view[d].owner) /\ ~(view[d].owner < view[e].owner)
    BY <2>1, <2>3, <2>4 DEF Accepts, ClaimOf
  <2>. QED
    BY <2>1, <2>5
<1>. QED
  BY <1>1, TypeCorrect, ProvenanceHolds, PTL

\* Epochs only grow, whatever is delivered.
THEOREM EpochMonotonic == ClusterSpec => EpochNeverRegresses
<1>1. ViewsTyped /\ [ClusterNext]_clusterVars
      => [\A d \in Device : view'[d].epoch >= view[d].epoch]_clusterVars
  <2>. SUFFICES ASSUME ViewsTyped, ClusterNext, NEW x \in Device
                PROVE  view'[x].epoch >= view[x].epoch
    OBVIOUS
  <2>0. view[x] \in View /\ view[x].epoch \in Nat
    BY OwnershipAssumption DEF ViewsTyped, View
  <2>1. ASSUME NEW d \in Device, NEW t \in Device \ {d}, Grant(d, t)
        PROVE  view'[x].epoch >= view[x].epoch
    <3>1. GrantTo(view[x], t).epoch = view[x].epoch + 1 \/ x # d
      BY <2>0, <2>1, GrantToView DEF Grant
    <3>2. view'[x] = IF x = d THEN GrantTo(view[x], t) ELSE view[x]
      BY <2>1 DEF Grant, ViewsTyped
    <3>. QED
      BY <2>0, <3>1, <3>2
  <2>2. ASSUME NEW d \in Device, ReclaimBy(d)
        PROVE  view'[x].epoch >= view[x].epoch
    BY <2>0, <2>2, ReclaimView DEF ReclaimBy, ViewsTyped
  <2>3. ASSUME NEW d \in Device, NEW c \in announced, Hear(d, c)
        PROVE  view'[x].epoch >= view[x].epoch
    <3>1. c \in Claim
      BY DEF ViewsTyped
    <3>. QED
      BY <2>0, <2>3, <3>1, ObserveView DEF Hear, ViewsTyped
  <2>. QED
    BY <2>1, <2>2, <2>3 DEF ClusterNext
<1>. QED
  BY <1>1, TypeCorrect, PTL DEF ClusterSpec, EpochNeverRegresses

\* A grant is displaced only by a newer epoch.
THEOREM GrantStandsTheorem == ClusterSpec => GrantStands
<1>1. ViewsTyped /\ [ClusterNext]_clusterVars
      => [\A d \in Device :
            /\ ~view[d].reclaim_origin
            /\ view'[d].epoch = view[d].epoch
            => view'[d].owner = view[d].owner]_clusterVars
  <2>. SUFFICES ASSUME ViewsTyped, ClusterNext, NEW x \in Device,
                       ~view[x].reclaim_origin,
                       view'[x].epoch = view[x].epoch
                PROVE  view'[x].owner = view[x].owner
    OBVIOUS
  <2>0. view[x] \in View /\ view[x].epoch \in Nat
    BY OwnershipAssumption DEF ViewsTyped, View
  <2>1. ASSUME NEW d \in Device, NEW t \in Device \ {d}, Grant(d, t)
        PROVE  view'[x].owner = view[x].owner
    <3>1. GrantTo(view[x], t).epoch = view[x].epoch + 1 \/ x # d
      BY <2>0, <2>1, GrantToView DEF Grant
    <3>2. view'[x] = IF x = d THEN GrantTo(view[x], t) ELSE view[x]
      BY <2>1 DEF Grant, ViewsTyped
    <3>. QED
      BY <2>0, <3>1, <3>2
  <2>2. ASSUME NEW d \in Device, ReclaimBy(d)
        PROVE  view'[x].owner = view[x].owner
    BY <2>0, <2>2, ReclaimView DEF ReclaimBy, ViewsTyped
  <2>3. ASSUME NEW d \in Device, NEW c \in announced, Hear(d, c)
        PROVE  view'[x].owner = view[x].owner
    <3>1. c \in Claim /\ c.epoch \in Nat
      BY OwnershipAssumption DEF ViewsTyped, Claim
    <3>2. view'[x] = view[x] \/ view'[x] = Observe(view[x], c)
      BY <2>3 DEF Hear, ViewsTyped
    <3>3. Accepts(view[x], c) => Adopt(view[x], c).epoch > view[x].epoch
      BY <2>0, <3>1 DEF Accepts, Adopt, View
    <3>. QED
      BY <2>0, <3>2, <3>3 DEF Observe
  <2>. QED
    BY <2>1, <2>2, <2>3 DEF ClusterNext
<1>. QED
  BY <1>1, TypeCorrect, PTL DEF ClusterSpec, GrantStands

\* Both parts of what a device believes, for any cluster.
THEOREM Genuine == ClusterSpec => []OwnersAreGenuine
<1>1. ViewsTyped /\ Provenance /\ ReclaimRaceConverges => OwnersAreGenuine
  BY DEF OwnersAreGenuine
<1>. QED
  BY <1>1, TypeCorrect, ProvenanceHolds, ReclaimRaceTheorem, PTL
=============================================================================
