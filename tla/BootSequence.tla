---------------------------- MODULE BootSequence ----------------------------
(***************************************************************************)
(* The boot sequence of the MANAGER application: the main thread waits for *)
(* the front-panel switch and the fan controller, enables the power        *)
(* supply, waits until every rail is in range and releases the system      *)
(* reset.  The log thread, started before it, reads the same rails into    *)
(* the same ADC_element objects every 20th round (write_heartbeat); the    *)
(* two threads share these objects without a lock.                         *)
(*                                                                         *)
(* A reading is abstracted to "in range" (TRUE) or not.  update_readings   *)
(* is split at its accesses to the shared objects; everything else a       *)
(* thread does between two waits is one step.                              *)
(***************************************************************************)
EXTENDS Integers

CONSTANTS
    NumRails,   \* the ADCs of the constructor, 6 in the code
    Services,   \* the systemd units that watch_services asks for
    Faults      \* subset of {"adc", "dbus"}: reads and calls that may fail

Rails == 1..NumRails
Threads == {"main", "log"}

ASSUME RailAssumption == NumRails \in Nat \ {0}
ASSUME ServiceAssumption == "fan" \in Services
ASSUME FaultAssumption == Faults \subseteq {"adc", "dbus"}

VARIABLES
    alive,       \* the process is running; nothing restarts it
    sw, svc,     \* environment: the switch, the active services
    rail,        \* environment: is a rail in range?
    stage,       \* where the main thread is
    seen,        \* the *_service_status fields: services seen active
    step, at, local,     \* the update_readings call of a thread
    raw, current, safe,  \* raw_reading, V_current, safe of the ADC_elements
    ps, sr,      \* ps_enable and sysreset: pin, status and dbusflag
    okRails,     \* history: rails in range at some time in main's present pass
    mixed        \* history: did a pass of log overlap main's present pass?

env == <<sw, svc, rail>>
adc == <<raw, current, safe>>
call == <<step, at, local>>
hist == <<okRails, mixed>>
vars == <<alive, env, stage, seen, call, adc, ps, sr, hist>>

Pin == [pin : BOOLEAN, status : BOOLEAN, dbusflag : BOOLEAN]
Low == [pin |-> FALSE, status |-> FALSE, dbusflag |-> FALSE]
Driven == [pin |-> TRUE, status |-> TRUE, dbusflag |-> TRUE]

\* The constructor leaves the fields of the ADC_elements unset;
\* update_readings writes each of them before it reads it.
Init ==
    /\ alive = TRUE
    /\ sw \in BOOLEAN
    /\ svc \in SUBSET Services
    /\ rail \in [Rails -> BOOLEAN]
    /\ stage = "switch"
    /\ seen = {}
    /\ step = [t \in Threads |-> "idle"]
    /\ at = [t \in Threads |-> 1]
    /\ local = [t \in Threads |-> FALSE]
    /\ raw = [i \in Rails |-> FALSE]
    /\ current = [i \in Rails |-> FALSE]
    /\ safe = [i \in Rails |-> FALSE]
    /\ ps = Low
    /\ sr = Low
    /\ okRails = {}
    /\ mixed = FALSE
-----------------------------------------------------------------------------
(***************************************************************************)
(* The main thread, one action per function of its loops.                  *)
(***************************************************************************)
Goto(from, to) == alive /\ stage = from /\ stage' = to

\* wait_for_switch: the switch is on; a GPIO error counts as off.
wait_for_switch ==
    /\ sw
    /\ Goto("switch", "fan")
    /\ UNCHANGED <<alive, env, seen, call, adc, ps, sr, hist>>

\* watch_services; isServiceActive answers false when D-Bus keeps failing.
watch_services ==
    IF "dbus" \in Faults THEN seen' \in SUBSET svc ELSE seen' = svc

\* Mutant: the status is asked for, and not waited for.
get_fan_controller_statusOnce ==
    /\ watch_services
    /\ Goto("fan", "ps")
    /\ UNCHANGED <<alive, env, call, adc, ps, sr, hist>>

\* get_fan_controller_status
get_fan_controller_status ==
    /\ watch_services
    /\ Goto("fan", IF "fan" \in seen' THEN "ps" ELSE "fan")
    /\ UNCHANGED <<alive, env, call, adc, ps, sr, hist>>

\* A GPIO operation that throws changes nothing: the function returns false and
\* the main thread calls it again.
set_ps ==
    /\ Goto("ps", "volt")
    /\ ps' = Driven
    /\ UNCHANGED <<alive, env, seen, call, adc, sr, hist>>

\* The reset is released (pin) by driving its line low.
set_sr ==
    /\ Goto("reset", "up")
    /\ sr' = Driven
    /\ UNCHANGED <<alive, env, seen, call, adc, ps, hist>>
-----------------------------------------------------------------------------
(***************************************************************************)
(* update_readings, called by the main thread in stage "volt" and by the   *)
(* log thread for a heartbeat.                                             *)
(***************************************************************************)
StartPass(t) ==
    /\ alive
    /\ step[t] = "idle"
    /\ t = "main" => stage = "volt"
    /\ step' = [step EXCEPT ![t] = "read"]
    /\ at' = [at EXCEPT ![t] = 1]
    /\ okRails' = IF t = "main" THEN {i \in Rails : rail[i]} ELSE okRails
    /\ mixed' = IF t = "main" THEN step["log"] # "idle" ELSE mixed \/ step["main"] # "idle"
    /\ UNCHANGED <<alive, env, stage, seen, local, adc, ps, sr>>

\* readFile and std::stoi
ReadFile(t) ==
    /\ alive
    /\ step[t] = "read"
    /\ local' = [local EXCEPT ![t] = rail[at[t]]]
    /\ step' = [step EXCEPT ![t] = "store"]
    /\ UNCHANGED <<alive, env, stage, seen, at, adc, ps, sr, hist>>

\* std::stoi throws on a file that cannot be read; no thread catches it.
ReadFails(t) ==
    /\ alive
    /\ "adc" \in Faults
    /\ step[t] = "read"
    /\ alive' = FALSE
    /\ UNCHANGED <<env, stage, seen, call, adc, ps, sr, hist>>

StoreRaw(t) ==
    /\ alive
    /\ step[t] = "store"
    /\ raw' = [raw EXCEPT ![at[t]] = local[t]]
    /\ step' = [step EXCEPT ![t] = "scale"]
    /\ UNCHANGED <<alive, env, stage, seen, at, local, current, safe, ps, sr, hist>>

Scale(t) ==
    /\ alive
    /\ step[t] = "scale"
    /\ current' = [current EXCEPT ![at[t]] = raw[at[t]]]
    /\ step' = [step EXCEPT ![t] = "judge"]
    /\ UNCHANGED <<alive, env, stage, seen, at, local, raw, safe, ps, sr, hist>>

\* Mutants of Judge: an end-of-loop test that is off by one; a rail out of range
\* that neither ends the pass nor clears safe; a good reading that does not set
\* safe again.
JudgePastEnd(t) ==
    /\ alive
    /\ step[t] = "judge"
    /\ safe' = [safe EXCEPT ![at[t]] = current[at[t]]]
    /\ step' = [step EXCEPT ![t] = IF current[at[t]] THEN "read" ELSE "idle"]
    /\ at' = [at EXCEPT ![t] = IF current[at[t]] THEN @ + 1 ELSE @]
    /\ UNCHANGED <<alive, env, stage, seen, local, raw, current, ps, sr, hist>>

JudgeKeepsSafe(t) ==
    /\ alive
    /\ step[t] = "judge"
    /\ safe' = [safe EXCEPT ![at[t]] = @ \/ current[at[t]]]
    /\ step' = [step EXCEPT ![t] = IF at[t] < NumRails THEN "read" ELSE "recheck"]
    /\ at' = [at EXCEPT ![t] = IF @ < NumRails THEN @ + 1 ELSE 1]
    /\ UNCHANGED <<alive, env, stage, seen, local, raw, current, ps, sr, hist>>

JudgeNeverSafe(t) ==
    /\ alive
    /\ step[t] = "judge"
    /\ safe' = [safe EXCEPT ![at[t]] = @ /\ current[at[t]]]
    /\ step' = [step EXCEPT ![t] = IF at[t] < NumRails THEN "read" ELSE "recheck"]
    /\ at' = [at EXCEPT ![t] = IF @ < NumRails THEN @ + 1 ELSE 1]
    /\ UNCHANGED <<alive, env, stage, seen, local, raw, current, ps, sr, hist>>

\* Compare with the limits; the first rail out of range ends the pass.
Judge(t) ==
    /\ alive
    /\ step[t] = "judge"
    /\ safe' = [safe EXCEPT ![at[t]] = current[at[t]]]
    /\ \/ /\ ~current[at[t]]
          /\ step' = [step EXCEPT ![t] = "idle"]
          /\ UNCHANGED at
       \/ /\ current[at[t]] /\ at[t] < NumRails
          /\ step' = [step EXCEPT ![t] = "read"]
          /\ at' = [at EXCEPT ![t] = @ + 1]
       \/ /\ current[at[t]] /\ at[t] = NumRails
          /\ step' = [step EXCEPT ![t] = "recheck"]
          /\ at' = [at EXCEPT ![t] = 1]
    /\ UNCHANGED <<alive, env, stage, seen, local, raw, current, ps, sr, hist>>

\* The second loop: every rail must still be marked safe.
Recheck(t) ==
    /\ alive
    /\ step[t] = "recheck"
    /\ IF safe[at[t]] /\ at[t] < NumRails
       THEN /\ at' = [at EXCEPT ![t] = @ + 1]
            /\ UNCHANGED <<step, stage>>
       ELSE /\ step' = [step EXCEPT ![t] = "idle"]
            /\ stage' = IF t = "main" /\ safe[at[t]] THEN "reset" ELSE stage
            /\ UNCHANGED at
    /\ UNCHANGED <<alive, env, seen, local, adc, ps, sr, hist>>
-----------------------------------------------------------------------------
(***************************************************************************)
(* The environment.                                                        *)
(***************************************************************************)
SwitchMoves ==
    /\ sw' = ~sw
    /\ UNCHANGED <<alive, svc, rail, stage, seen, call, adc, ps, sr, hist>>

ServiceMoves(s) ==
    /\ svc' = IF s \in svc THEN svc \ {s} ELSE svc \cup {s}
    /\ UNCHANGED <<alive, sw, rail, stage, seen, call, adc, ps, sr, hist>>

RailMoves(i) ==
    /\ rail' = [rail EXCEPT ![i] = ~@]
    /\ okRails' = IF rail'[i] THEN okRails \cup {i} ELSE okRails
    /\ UNCHANGED <<alive, sw, svc, stage, seen, call, adc, ps, sr, mixed>>
-----------------------------------------------------------------------------
update_readings(t) ==
    StartPass(t) \/ ReadFile(t) \/ StoreRaw(t) \/ Scale(t) \/ Judge(t) \/ Recheck(t)

Main ==
    \/ wait_for_switch
    \/ get_fan_controller_status
    \/ set_ps
    \/ update_readings("main")
    \/ set_sr

Next ==
    \/ Main
    \/ update_readings("log")
    \/ \E t \in Threads : ReadFails(t)
    \/ SwitchMoves
    \/ \E s \in Services : ServiceMoves(s)
    \/ \E i \in Rails : RailMoves(i)

Spec == Init /\ [][Next]_vars

\* The kernel schedules both threads, a sleep of 500 ms ends, and neither a GPIO
\* operation nor the D-Bus question for the fan controller fails for ever.
FairSpec ==
    /\ Spec
    /\ WF_vars(Main)
    /\ WF_vars(update_readings("log"))
    /\ SF_vars(get_fan_controller_status /\ "fan" \in seen')
-----------------------------------------------------------------------------
(***************************************************************************)
(* Properties.                                                             *)
(***************************************************************************)
TypeOK ==
    /\ alive \in BOOLEAN
    /\ sw \in BOOLEAN
    /\ svc \subseteq Services
    /\ rail \in [Rails -> BOOLEAN]
    /\ stage \in {"switch", "fan", "ps", "volt", "reset", "up"}
    /\ seen \subseteq Services
    /\ step \in [Threads -> {"idle", "read", "store", "scale", "judge", "recheck"}]
    /\ at \in [Threads -> Rails]
    /\ local \in [Threads -> BOOLEAN]
    /\ raw \in [Rails -> BOOLEAN]
    /\ current \in [Rails -> BOOLEAN]
    /\ safe \in [Rails -> BOOLEAN]
    /\ ps \in Pin
    /\ sr \in Pin
    /\ okRails \subseteq Rails
    /\ mixed \in BOOLEAN

\* The reset is released only when every rail was in range at some time during
\* the pass of update_readings that let the boot go on, if no heartbeat read the
\* rails during that pass: rails that move between the readings of one pass, and
\* heartbeats during earlier passes, do not open the gate.
VoltageGate == stage \in {"reset", "up"} /\ ~mixed => okRails = Rails

\* "Once voltages are nominal and services are active, the system reset is
\* released", stated of every pass, the ones a heartbeat runs into included.
ReleasedOnGoodRails == stage \in {"reset", "up"} => okRails = Rails

\* The reset is released with the power supply enabled, and neither before the
\* fan controller was seen active.
PowerSequence == (ps.pin => "fan" \in seen) /\ (sr.pin => ps.pin)

\* When the switch stays on, the services stay active, the rails stay in range
\* and the rails can be read, the boot completes, whatever the heartbeats do to
\* the shared readings and whatever D-Bus calls failed before.
Ready == sw /\ svc = Services /\ \A i \in Rails : rail[i]
BootCompletes == []alive /\ <>[]Ready => <>(stage = "up")
=============================================================================
