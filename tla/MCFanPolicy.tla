---------------------------- MODULE MCFanPolicy -----------------------------
(* Model-checking instances of the fan control; the .cfg files give the     *)
(* requests and the faults.                                                 *)
EXTENDS FanPolicy
=============================================================================
