---------------------------- MODULE MCAlarmWatch ----------------------------
(* Model-checking instances of the alarm watcher; the .cfg files give the   *)
(* number of sensors and the faults.                                        *)
EXTENDS AlarmWatch
=============================================================================
