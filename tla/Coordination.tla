---------------------------- MODULE Coordination ----------------------------
(***************************************************************************)
(* The two protocols of mouser-core by which devices agree on one of them: *)
(* who owns the input (OwnershipCluster) and who coordinates (Election).   *)
(* A behaviour follows one of the two while the other has only begun; they *)
(* share no state.                                                         *)
(***************************************************************************)
EXTENDS OwnershipCluster, Election

VARIABLE part

CoordinationInit ==
    /\ part \in {"ownership", "election"}
    /\ ClusterInit
    /\ Init

CoordinationNext ==
    /\ UNCHANGED part
    /\ \/ part = "ownership" /\ ClusterNext /\ UNCHANGED vars
       \/ part = "election" /\ Next /\ UNCHANGED clusterVars

CoordinationSpec ==
    CoordinationInit /\ [][CoordinationNext]_<<part, clusterVars, vars>>
=============================================================================
