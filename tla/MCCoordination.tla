--------------------------- MODULE MCCoordination ---------------------------
(* Coordination on three devices.  Both protocols order the ids, so the     *)
(* devices are not symmetric.                                               *)
EXTENDS Coordination
=============================================================================
