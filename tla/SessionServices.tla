-------------------------- MODULE SessionServices --------------------------
(***************************************************************************)
(* What runs beside each other in a session: the source's runtime, which   *)
(* applies the actions of the core (Runtime), and clipboard sharing        *)
(* (Clipboard).  They meet only in the control lane that the runtime hands *)
(* to the clipboard service and share no state, so a behaviour follows one *)
(* of the two while the other has only begun.                              *)
(***************************************************************************)
EXTENDS Runtime, Clipboard

VARIABLE service

\* The other service has begun, on some platform.
ServicesInit ==
    \/ /\ service = "runtime"
       /\ Init
       /\ ClipboardInit
       /\ os = (CHOOSE o \in OsPairs : TRUE) /\ ~bulkEnabled
    \/ /\ service = "clipboard"
       /\ ClipboardInit
       /\ Init
       /\ platform = CHOOSE p \in Platforms : TRUE

ServicesNext ==
    /\ UNCHANGED service
    /\ \/ service = "runtime" /\ Next /\ UNCHANGED clipboardVars
       \/ service = "clipboard" /\ ClipboardNext /\ UNCHANGED vars

ServicesSpec ==
    ServicesInit /\ [][ServicesNext]_<<service, clipboardVars, vars>>
=============================================================================
