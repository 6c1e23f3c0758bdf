-------------------------- MODULE MCChassisManager --------------------------
(* Model-checking instances of the chassis manager; the .cfg files give the *)
(* addresses of the scan, the requests and the replies of the boards.       *)
EXTENDS ChassisManager
=============================================================================
