----------------------------- MODULE AlarmWatch -----------------------------
(***************************************************************************)
(* The MANAGER application after the boot: the watcher thread scans the    *)
(* alarms that the sensor services publish on D-Bus and, at the first one  *)
(* it finds, takes the power supply away and drives the alarm pin; the     *)
(* gpio thread publishes the state of the two pins that MANAGER drives;    *)
(* the heartbeat of the log thread may end the process.  The threads share *)
(* the gpio_info objects and the service states without a lock.            *)
(***************************************************************************)
EXTENDS Integers

CONSTANTS
    NumTemps, NumVolts,  \* sensors with alarms, in the mapper's order
    Faults               \* subset of {"gpio", "adc", "dbus"}: calls that may fail

Kinds == {"temp", "volt"}
Num(k) == IF k = "temp" THEN NumTemps ELSE NumVolts
Services == {"gpio", "ipmi"}

ASSUME SensorAssumption == NumTemps \in Nat /\ NumVolts \in Nat
ASSUME FaultAssumption == Faults \subseteq {"gpio", "adc", "dbus"}

VARIABLES
    faults,           \* the calls that may fail in this behaviour: none, or Faults
    alive,            \* the process is running; nothing restarts it
    alarm, svc,       \* environment: the published alarms, the active services
    seen,             \* gpio_service_status and ipmi_service_status
    wpc, at, found,   \* the watcher: place, sensor, temp_alarm and voltage_alarm
    gpc, value,       \* the gpio thread: place, ps_value and sr_value
    high,             \* the GPIO lines that MANAGER drives high
    ps, sr,           \* ps_enable and sysreset: status and dbusflag
    published,        \* Value of psenable and sysreset on D-Bus
    everAlarm         \* history: some alarm was up since the watcher started

env == <<faults, alarm, svc, everAlarm>>
watcher == <<wpc, at, found>>
publisher == <<gpc, value, published>>
vars == <<alive, env, seen, watcher, publisher, high, ps, sr>>

\* The power supply is enabled.
Powered == "psenable" \in high

Alarms == [Kinds -> SUBSET (1..(NumTemps + NumVolts))]

\* main has driven both pins and starts the two threads; the fan controller
\* was active, of the other services nothing is known.  The GPIO monitor
\* publishes 0 for the two output pins when it starts.
Init ==
    /\ faults \in {{}, Faults}
    /\ alive = TRUE
    /\ alarm \in {a \in Alarms : \A k \in Kinds : a[k] \subseteq 1..Num(k)}
    /\ everAlarm = (\E k \in Kinds : alarm[k] # {})
    /\ svc \in SUBSET Services
    /\ seen \in SUBSET Services
    /\ wpc = "ipmi"
    /\ at = 1
    /\ found = [k \in Kinds |-> FALSE]
    /\ gpc = "top"
    /\ value = [ps |-> FALSE, sr |-> FALSE]
    /\ high = {"psenable"}
    /\ ps = [status |-> TRUE, dbusflag |-> TRUE]
    /\ sr = [status |-> TRUE, dbusflag |-> TRUE]
    /\ published = [ps |-> FALSE, sr |-> FALSE]
-----------------------------------------------------------------------------
(***************************************************************************)
(* The watcher thread: watch_alarms.                                       *)
(***************************************************************************)
\* isServiceActive answers false when D-Bus keeps failing.
watch_services ==
    IF "dbus" \in faults THEN seen' \in SUBSET svc ELSE seen' = svc

\* Nothing is watched until the IPMI host service is active.
WaitForIpmi ==
    /\ alive
    /\ wpc = "ipmi"
    /\ IF "ipmi" \in seen
       THEN wpc' = "services" /\ UNCHANGED seen
       ELSE watch_services /\ UNCHANGED wpc
    /\ UNCHANGED <<alive, env, at, found, publisher, high, ps, sr>>

\* The head of the loop: watch_services, then the scan of the temperatures.
StartScan ==
    /\ alive
    /\ wpc = "services"
    /\ watch_services
    /\ wpc' = "temp"
    /\ at' = 1
    /\ found' = [found EXCEPT !["temp"] = FALSE]
    /\ UNCHANGED <<alive, env, publisher, high, ps, sr>>

\* The scan of the temperatures is over; the voltages are scanned with their
\* own flag; then alarms is computed.
NextScan(k) ==
    IF k = "temp"
    THEN /\ wpc' = "volt"
         /\ at' = 1
         /\ found' = [found EXCEPT !["volt"] = FALSE]
    ELSE /\ wpc' = IF \E j \in Kinds : found[j] THEN "unset" ELSE "services"
         /\ UNCHANGED <<at, found>>

\* Mutant: the scan does not stop at an alarm.
ReadAlarmGoesOn(k) ==
    /\ alive
    /\ wpc = k
    /\ at <= Num(k)
    /\ found' = [found EXCEPT ![k] = at \in alarm[k]]
    /\ at' = at + 1
    /\ UNCHANGED <<alive, env, seen, wpc, publisher, high, ps, sr>>

\* One sensor: its alarm decides.  The scan stops at the first alarm, once its
\* reading was fetched too; if that fails the scan goes on to the next sensor,
\* which overwrites the flag.
ReadAlarm(k) ==
    /\ alive
    /\ wpc = k
    /\ at <= Num(k)
    /\ found' = [found EXCEPT ![k] = at \in alarm[k]]
    /\ \/ /\ at \in alarm[k]
          /\ at' = Num(k) + 1
       \/ /\ at \in alarm[k] => "dbus" \in faults
          /\ at' = at + 1
    /\ UNCHANGED <<alive, env, seen, wpc, publisher, high, ps, sr>>

\* Mutants of SkipSensor: no test for the end of the list; a read that fails
\* counts as an alarm.
SkipSensorUnbounded(k) ==
    /\ alive
    /\ "dbus" \in faults
    /\ wpc = k
    /\ at' = at + 1
    /\ UNCHANGED <<alive, env, seen, wpc, found, publisher, high, ps, sr>>

SkipSensorAlarms(k) ==
    /\ alive
    /\ "dbus" \in faults
    /\ wpc = k
    /\ at <= Num(k)
    /\ at' = at + 1
    /\ found' = [found EXCEPT ![k] = TRUE]
    /\ UNCHANGED <<alive, env, seen, wpc, publisher, high, ps, sr>>

\* Reading an alarm fails: the sensor is left out.
SkipSensor(k) ==
    /\ alive
    /\ "dbus" \in faults
    /\ wpc = k
    /\ at <= Num(k)
    /\ at' = at + 1
    /\ UNCHANGED <<alive, env, seen, wpc, found, publisher, high, ps, sr>>

EndScan(k) ==
    /\ alive
    /\ wpc = k
    /\ \/ at = Num(k) + 1
       \/ "dbus" \in faults /\ at = 1
    /\ NextScan(k)
    /\ UNCHANGED <<alive, env, seen, publisher, high, ps, sr>>

\* unset_ps, called once.  The flag is cleared, so nothing is published.
unset_ps ==
    /\ alive
    /\ wpc = "unset"
    /\ \/ /\ high' = high \ {"psenable"}
          /\ ps' = [status |-> FALSE, dbusflag |-> FALSE]
       \/ /\ "gpio" \in faults
          /\ UNCHANGED <<high, ps>>
    /\ wpc' = "alarm"
    /\ UNCHANGED <<alive, env, seen, at, found, publisher, sr>>

\* set_alarm_gpio drives the line of switch_gpio, not that of alarm_gpio.
set_alarm_gpio ==
    /\ alive
    /\ wpc = "alarm"
    /\ \/ high' = high \cup {"switch"}
       \/ "gpio" \in faults /\ UNCHANGED high
    /\ wpc' = "done"
    /\ UNCHANGED <<alive, env, seen, at, found, publisher, ps, sr>>
-----------------------------------------------------------------------------
(***************************************************************************)
(* The gpio thread: watch_gpios.                                           *)
(***************************************************************************)
TakeValues ==
    /\ alive
    /\ gpc = "top"
    /\ "gpio" \in seen
    /\ value' = [ps |-> ps.status, sr |-> sr.status]
    /\ gpc' = "ps"
    /\ UNCHANGED <<alive, env, seen, watcher, published, high, ps, sr>>

\* setProperty fails when the GPIO monitor is not there; the flag stays.
Publish(pin, flag, clear, next) ==
    \/ /\ flag
       /\ "gpio" \in svc
       /\ published' = [published EXCEPT ![pin] = value[pin]]
       /\ gpc' = clear
    \/ /\ flag => "gpio" \notin svc \/ "dbus" \in faults
       /\ gpc' = next
       /\ UNCHANGED published

PublishPs ==
    /\ alive
    /\ gpc = "ps"
    /\ Publish("ps", ps.dbusflag, "psclear", "sr")
    /\ UNCHANGED <<alive, env, seen, watcher, value, high, ps, sr>>

ClearPs ==
    /\ alive
    /\ gpc = "psclear"
    /\ ps' = [ps EXCEPT !.dbusflag = FALSE]
    /\ gpc' = "sr"
    /\ UNCHANGED <<alive, env, seen, watcher, value, published, high, sr>>

\* Mutant: the value goes to the other pin's object.
PublishSrElsewhere ==
    /\ alive
    /\ gpc = "sr"
    /\ Publish("ps", sr.dbusflag, "srclear", "top")
    /\ UNCHANGED <<alive, env, seen, watcher, value, high, ps, sr>>

PublishSr ==
    /\ alive
    /\ gpc = "sr"
    /\ Publish("sr", sr.dbusflag, "srclear", "top")
    /\ UNCHANGED <<alive, env, seen, watcher, value, high, ps, sr>>

ClearSr ==
    /\ alive
    /\ gpc = "srclear"
    /\ sr' = [sr EXCEPT !.dbusflag = FALSE]
    /\ gpc' = "top"
    /\ UNCHANGED <<alive, env, seen, watcher, value, published, high, ps>>
-----------------------------------------------------------------------------
(***************************************************************************)
(* The heartbeat of the log thread, and the environment.                   *)
(***************************************************************************)
\* std::stoi throws in update_readings: the process ends.
HeartbeatDies ==
    /\ alive
    /\ "adc" \in faults
    /\ alive' = FALSE
    /\ UNCHANGED <<env, seen, watcher, publisher, high, ps, sr>>

AlarmMoves(k, i) ==
    /\ alarm' = [alarm EXCEPT ![k] = IF i \in @ THEN @ \ {i} ELSE @ \cup {i}]
    /\ everAlarm' = (everAlarm \/ \E j \in Kinds : alarm'[j] # {})
    /\ UNCHANGED <<faults, alive, svc, seen, watcher, publisher, high, ps, sr>>

\* A service stops or starts; the GPIO monitor starts with 0 for both pins.
ServiceMoves(s) ==
    /\ svc' = IF s \in svc THEN svc \ {s} ELSE svc \cup {s}
    /\ published' = IF s = "gpio" /\ s \notin svc
                    THEN [ps |-> FALSE, sr |-> FALSE] ELSE published
    /\ UNCHANGED <<faults, alive, alarm, everAlarm, seen, watcher, gpc, value, high, ps, sr>>
-----------------------------------------------------------------------------
Watcher ==
    \/ WaitForIpmi \/ StartScan
    \/ \E k \in Kinds : ReadAlarm(k) \/ SkipSensor(k) \/ EndScan(k)
    \/ unset_ps \/ set_alarm_gpio

Publisher == TakeValues \/ PublishPs \/ ClearPs \/ PublishSr \/ ClearSr

Next ==
    \/ Watcher
    \/ Publisher
    \/ HeartbeatDies
    \/ \E k \in Kinds : \E i \in 1..Num(k) : AlarmMoves(k, i)
    \/ \E s \in Services : ServiceMoves(s)

Spec == Init /\ [][Next]_vars

\* The kernel schedules both threads and their sleeps end.
FairSpec == Spec /\ WF_vars(Watcher) /\ WF_vars(Publisher)
-----------------------------------------------------------------------------
(***************************************************************************)
(* Properties.                                                             *)
(***************************************************************************)
TypeOK ==
    /\ faults \in {{}, Faults}
    /\ alive \in BOOLEAN
    /\ alarm \in Alarms
    /\ everAlarm \in BOOLEAN
    /\ svc \subseteq Services
    /\ seen \subseteq Services
    /\ wpc \in {"ipmi", "services", "temp", "volt", "unset", "alarm", "done"}
    /\ at \in 1..(NumTemps + NumVolts + 1)
    /\ found \in [Kinds -> BOOLEAN]
    /\ gpc \in {"top", "ps", "psclear", "sr", "srclear"}
    /\ value \in [ps : BOOLEAN, sr : BOOLEAN]
    /\ published \in [ps : BOOLEAN, sr : BOOLEAN]
    /\ high \subseteq {"psenable", "switch", "alarm"}
    /\ ps \in [status : BOOLEAN, dbusflag : BOOLEAN]
    /\ sr \in [status : BOOLEAN, dbusflag : BOOLEAN]

\* The power supply is taken away for a real alarm only, whatever reads of the
\* scan fail and whichever alarms come and go while it runs.
PowerCutForAlarm == ~Powered => everAlarm

\* Where no call fails, an alarm that stays up takes the power away, if the IPMI
\* host service, which the watcher waits for, stays active.
Lasting == \E k \in Kinds : \E i \in 1..Num(k) : <>[](i \in alarm[k])
AlarmCutsPower == faults = {} /\ Lasting /\ <>[]("ipmi" \in svc) => <>(~Powered)

\* Where no call fails, the released reset is on D-Bus at some time, if the
\* services stay active in the end and the watcher, which alone notices the GPIO
\* monitor, is not ended by an alarm before it has; and it is there for good if
\* the GPIO monitor was never away.  A monitor that starts anew afterwards shows
\* 0: the flag is cleared and the value is not published again.
Noticed == [](~everAlarm) \/ <>[]("gpio" \in seen)
ReleaseIsPublished ==
    faults = {} /\ <>[](svc = Services) /\ Noticed =>
        /\ <>(published.sr)
        /\ []("gpio" \in svc) => <>[](published.sr)
=============================================================================
