------------------------- MODULE MCSensorPopulation -------------------------
(* Model-checking instances of the sensor population; the .cfg files give   *)
(* the board's records and the bounds.                                      *)
EXTENDS SensorPopulation

\* Every FRU reports a sensor with a full record and one without a record.
MCMandatory == <<1, 9>>
=============================================================================
