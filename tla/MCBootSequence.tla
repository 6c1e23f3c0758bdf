--------------------------- MODULE MCBootSequence ---------------------------
(* Model-checking instances of the boot sequence; the .cfg files give the   *)
(* number of rails, the services and the faults.                            *)
EXTENDS BootSequence
=============================================================================
