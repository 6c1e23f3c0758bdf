---------------------------- MODULE MCThermalPath ---------------------------
(* Model-checking instance of the thermal path; the .cfg gives the bounds.  *)
EXTENDS ThermalPath
=============================================================================
