----------------------------- MODULE ThermalPath ----------------------------
(***************************************************************************)
(* The way from a temperature to the fans and from a rail to the health    *)
(* sensor: the temperature service, the ADC service, the fan controller    *)
(* and the mandatory sensors service, each a process that systemd restarts *)
(* (Restart=always) until its start limit is reached, and the one-shot     *)
(* tools that write the thresholds they all read, thresholds.json.         *)
(*                                                                         *)
(* The services meet on D-Bus.  The temperature service answers calls at   *)
(* one point of its loop only, bus.process_discard in send_reading; there  *)
(* tat is "serve".  A process that ends takes its objects with it.         *)
(*                                                                         *)
(* A tool truncates thresholds.json and then writes it.  A file that is    *)
(* truncated, or is not JSON, is Torn: readJson returns null for it, and   *)
(* the conversion of null to double ends the services.                     *)
(*                                                                         *)
(* A start beyond the limit is refused and the service stays failed        *)
(* ("limit").  The fan controller and the mandatory sensors service        *)
(* Require= the temperature service: systemd restarts them with it, and a  *)
(* refused start of it is the end of them too.                             *)
(***************************************************************************)
EXTENDS Integers, FiniteSets

CONSTANTS
    NumSensors,  \* hwmon directories of the temperature service, in its order
    Temps,       \* temperatures, in degrees
    Limits,      \* values of TempLimits.max
    Default,     \* the limit in thresholds_default.json
    Torn,        \* contents of a file that readJson cannot parse
    BoardLimit,  \* CriticalHigh of a board's sensor that ipmid publishes
    BoardTemp,   \* and its value
    Setpoint,    \* setpoint of pid.json, which has linear true
    MaxMoves,    \* bound: changes of temperatures, files, rail and board
    MaxTools     \* bound: commands of the operator, one at a time

Sensors == 1..NumSensors

\* The D-Bus paths below sensors/temperature, in the mapper's order: a board's
\* sensor, if there is one, comes first.
Board == 0
Paths == 0..NumSensors
First(set) == CHOOSE p \in set : \A q \in set : p <= q

Services == {"temp", "adc", "fan"}   \* those that end and are started again

Files == Limits \cup {Torn}

\* Duty cycles: the least the controller writes (75), what the power function
\* gives below the limit, the most (255).
Pwms == {"least", "some", "full"}

ASSUME ThermalAssumption ==
    /\ NumSensors \in Nat \ {0} /\ MaxMoves \in Nat /\ MaxTools \in Nat
    /\ Temps \subseteq Nat /\ Temps # {} /\ Limits \subseteq Nat /\ Default \in Limits
    /\ Torn \notin Nat
    /\ BoardLimit \in Nat /\ BoardTemp \in Nat /\ Setpoint \in Nat

VARIABLES
    actual, readable, rail, board, moves,  \* the hardware, and ipmid's sensor
    file, flash,                           \* thresholds.json and /dev/mtd3
    tool, j, tools,                        \* the command that runs
    tat, k, lim, cur,                      \* temperature service: where, sensor, limit, readings
    value, high, alarm,                    \* and what it has on D-Bus
    adc, valarm,                           \* ADC service and its alarm
    fat, list, tempMax, todo, tempHigh, pwm,  \* fan controller, and the fans' Target
    mat, health,                           \* mandatory sensors, VSO_FRU_HEALTH
    started,                               \* services that were started before
    hot                                    \* history: hot on D-Bus all through the pass

hardware == <<actual, readable, rail, board, moves>>
store == <<file, flash>>
command == <<tool, j, tools>>
tman == <<tat, k, lim, cur, value, high, alarm>>
adcman == <<adc, valarm>>
fan == <<fat, list, tempMax, todo, tempHigh, pwm>>
fru == <<mat, health>>
vars == <<hardware, store, command, tman, adcman, fan, fru, started, hot>>

\* An earlier command may have left the file torn.
Init ==
    /\ actual = [s \in Sensors |-> CHOOSE t \in Temps : \A u \in Temps : t <= u]
    /\ readable = [s \in Sensors |-> TRUE]
    /\ rail = "good" /\ board = FALSE /\ moves = 0
    /\ file \in {Default, Torn} /\ flash = Default
    /\ tool = "none" /\ j = Torn /\ tools = 0
    /\ tat = "down" /\ k = 1 /\ lim = 0
    /\ cur = [s \in Sensors |-> 0]
    /\ value = [s \in Sensors |-> 0]
    /\ high = [s \in Sensors |-> 0]
    /\ alarm = [s \in Sensors |-> FALSE]
    /\ adc = "down" /\ valarm = FALSE
    /\ fat = "down" /\ list = {} /\ tempMax = 0 /\ todo = {} /\ tempHigh = 0
    /\ pwm = "least"
    /\ mat = "up" /\ health = 1
    /\ started = {}
    /\ hot = {}
-----------------------------------------------------------------------------
(***************************************************************************)
(* The hardware: temperatures and the rail change, reading a hwmon file    *)
(* fails for a while, ipmid publishes a board's sensor or ends.            *)
(***************************************************************************)
HardwareMoves ==
    /\ moves < MaxMoves
    /\ moves' = moves + 1
    /\ \/ \E s \in Sensors, t \in Temps :
            actual' = [actual EXCEPT ![s] = t] /\ UNCHANGED <<readable, rail, board>>
       \/ \E s \in Sensors :
            readable' = [readable EXCEPT ![s] = ~@] /\ UNCHANGED <<actual, rail, board>>
       \/ rail' \in {"good", "bad"} /\ UNCHANGED <<actual, readable, board>>
       \/ board' = ~board /\ UNCHANGED <<actual, readable, rail>>
    /\ UNCHANGED <<store, command, tman, adcman, fan, fru, started>>
-----------------------------------------------------------------------------
(***************************************************************************)
(* systemd admits two starts of a service within 30 s and refuses more.    *)
(* When starts happen, and whether a service has also died for reasons not *)
(* shown here (such as a lost connection to the bus), is left open: any    *)
(* start but the first may be the one that is refused.                     *)
(***************************************************************************)
Admitted(x) == started' = started \cup {x}
Refused(x) == x \in started /\ UNCHANGED started
-----------------------------------------------------------------------------
(***************************************************************************)
(* The temperature service (class Temp_Sensor).                            *)
(***************************************************************************)
\* The files up to the sensor's can be opened.
Read(s) == \A q \in 1..s : readable[q]

\* Mutant of update_reading: it stops one sensor early.
update_readingShort(old) ==
    [s \in Sensors |-> IF Read(s) /\ s < NumSensors THEN actual[s] ELSE old[s]]

\* update_reading gives up at the first file it cannot open: the sensors behind
\* it keep their last reading.
update_reading(old) == [s \in Sensors |-> IF Read(s) THEN actual[s] ELSE old[s]]

\* The process ends; its D-Bus objects go.
TempDown ==
    /\ tat' = "down"
    /\ k' = 1 /\ lim' = 0
    /\ cur' = [s \in Sensors |-> 0]
    /\ value' = [s \in Sensors |-> 0]
    /\ high' = [s \in Sensors |-> 0]
    /\ alarm' = [s \in Sensors |-> FALSE]

\* The fan controller ends; "limit": for good.  The fans keep their level.
FanDown(how) ==
    /\ fat' = how
    /\ list' = {} /\ tempMax' = 0 /\ todo' = {} /\ tempHigh' = 0
    /\ UNCHANGED pwm

\* A start of the service.  The constructor takes readings, then expose_reading
\* publishes value 0 and no alarm; a reading that was never taken is an
\* uninitialised int.  A file that is Torn ends the process here.
Temp_Sensor ==
    /\ tat = "down"
    /\ \/ /\ Admitted("temp")
          /\ FanDown(IF fat = "limit" THEN "limit" ELSE "down")
          /\ \/ file = Torn /\ UNCHANGED <<tat, cur, high>>
             \/ /\ file # Torn
                /\ tat' = "ready"
                /\ \E junk \in Temps : cur' = update_reading([s \in Sensors |-> junk])
                /\ high' = [s \in Sensors |-> file]
          /\ UNCHANGED mat
       \/ /\ Refused("temp")
          /\ tat' = "limit" /\ FanDown("limit") /\ mat' = "limit"
          /\ UNCHANGED <<cur, high>>
    /\ UNCHANGED <<k, lim, value, alarm>>
    /\ UNCHANGED <<hardware, store, command, adcman, health>>

\* Mutant of Announce: the limits are those read when the process started.
AnnounceOnce(s) ==
    /\ tat' = "serve"
    /\ k' = s
    /\ lim' = high[s]
    /\ UNCHANGED high

\* send_reading up to process_discard: the limits of the file are published.
Announce(s) ==
    /\ tat' = "serve"
    /\ k' = s
    /\ lim' = file
    /\ high' = [high EXCEPT ![s] = file]

\* Mutant of firstRound: what readJson returned is used unchecked.
firstRoundUnchecked ==
    /\ tat = "ready"
    /\ cur' = update_reading(cur) /\ Announce(1) /\ UNCHANGED <<value, alarm>>
    /\ UNCHANGED <<hardware, store, command, adcman, fan, fru, started>>

\* The first round of main's loop.
firstRound ==
    /\ tat = "ready"
    /\ IF file = Torn THEN TempDown
       ELSE cur' = update_reading(cur) /\ Announce(1) /\ UNCHANGED <<value, alarm>>
    /\ UNCHANGED <<hardware, store, command, adcman, fan, fru, started>>

\* send_reading from the wait on, and up to the next sensor's process_discard;
\* after the last sensor the next round begins.
send_reading ==
    /\ tat = "serve"
    /\ IF file = Torn THEN TempDown
       ELSE /\ value' = [value EXCEPT ![k] = cur[k]]
            /\ alarm' = [alarm EXCEPT ![k] = cur[k] > lim]
            /\ IF k < NumSensors
               THEN Announce(k + 1) /\ UNCHANGED cur
               ELSE Announce(1) /\ cur' = update_reading(cur)
    /\ UNCHANGED <<hardware, store, command, adcman, fan, fru, started>>
-----------------------------------------------------------------------------
(***************************************************************************)
(* The ADC service (class ADC_sensor), one rail, and the health service.   *)
(***************************************************************************)
\* A start of the service; a Torn file ends the constructor.
ADC_sensor ==
    /\ adc = "down"
    /\ \/ Admitted("adc") /\ adc' = IF file = Torn THEN "down" ELSE "up"
       \/ Refused("adc") /\ adc' = "limit"
    /\ valarm' = FALSE
    /\ UNCHANGED <<hardware, store, command, tman, fan, fru>>

\* A round: readings, limits, and after the wait the alarms.
send_all_readings ==
    /\ adc = "up"
    /\ IF file = Torn THEN adc' = "down" /\ valarm' = FALSE
       ELSE valarm' = (rail = "bad") /\ UNCHANGED adc
    /\ UNCHANGED <<hardware, store, command, tman, fan, fru, started>>

\* std::stoi throws in update_readings: the service ends.
adcLost ==
    /\ adc = "up"
    /\ moves < MaxMoves
    /\ moves' = moves + 1
    /\ adc' = "down" /\ valarm' = FALSE
    /\ UNCHANGED <<actual, readable, rail, board, store, command, tman, fan, fru, started>>

TempAlarm == tat = "serve" /\ \E s \in Sensors : alarm[s]
VoltageAlarm == adc = "up" /\ valarm

\* What alarm_check may say of the voltages.  A failing call ends the scan with
\* what it has seen so far, none if there is no path.  The sensors of a board are
\* scanned with the ADC's: they may fail first, or have alarms of their own.
alarm_check == IF board THEN BOOLEAN ELSE {VoltageAlarm}

\* Mutant of get_all_alarms_status: the temperatures are asked last.
get_all_alarms_statusTemp(voltages) == IF TempAlarm THEN 2 ELSE 1

\* The answers of alarm_check for temperatures, tachometers and voltages are
\* assigned to one variable in turn, so only the last one counts.
get_all_alarms_status(voltages) == IF voltages THEN 2 ELSE 1

update_interface ==
    /\ mat = "up"
    /\ \E voltages \in alarm_check : health' = get_all_alarms_status(voltages)
    /\ UNCHANGED <<hardware, store, command, tman, adcman, fan, mat, started>>

\* The service, which may have died on its own besides, is refused a start.
mandatoryLost ==
    /\ mat = "up"
    /\ moves < MaxMoves
    /\ moves' = moves + 1
    /\ mat' = "limit"
    /\ UNCHANGED <<actual, readable, rail, board, store, command, tman, adcman, fan>>
    /\ UNCHANGED <<health, started>>
-----------------------------------------------------------------------------
(***************************************************************************)
(* The fan controller (class fan_loop), in its configured linear mode.     *)
(***************************************************************************)
\* The paths the mapper knows.
Published ==
    (IF tat = "serve" THEN Sensors ELSE {}) \cup (IF board THEN {Board} ELSE {})

\* A start of the controller.  Without a path the constructor throws.  The list
\* is made once.
initialize_temps ==
    /\ fat = "down"
    /\ \/ /\ tat # "ready"
          /\ Admitted("fan")
          /\ fat' = IF Published = {} THEN "down" ELSE "limits"
          /\ list' = Published
       \/ /\ Refused("fan")
          /\ fat' = "limit"
          /\ UNCHANGED list
    /\ UNCHANGED <<tempMax, todo, tempHigh, pwm>>
    /\ UNCHANGED <<hardware, store, command, tman, adcman, fru>>

\* The limit of the first path, once.
get_temp_thresholds ==
    /\ fat = "limits"
    /\ tat # "ready"
    /\ IF Published = {} THEN FanDown("down")
       ELSE /\ tempMax' = IF First(Published) = Board THEN BoardLimit
                          ELSE high[First(Published)]
            /\ fat' = "read"
            /\ todo' = list
            /\ UNCHANGED <<list, tempHigh, pwm>>
    /\ UNCHANGED <<hardware, store, command, tman, adcman, fru, started>>

Max2(a, b) == IF a > b THEN a ELSE b

\* What a call for a path's value brings: -20 if it fails.
Reading(p) ==
    IF p \notin Published THEN -20
    ELSE IF p = Board THEN BoardTemp
    ELSE value[p]

\* Mutant of Higher: the last reading counts.
HigherLast(p) == Max2(0, Reading(p))

\* control_loop's temp_high over the readings so far.
Higher(p) == Max2(tempHigh, Reading(p))

\* One call of read_temperatures per path.
read_temperatures ==
    /\ fat = "read"
    /\ todo # {}
    /\ LET p == First(todo) IN
         /\ p = Board \/ tat # "ready"
         /\ tempHigh' = Higher(p)
         /\ todo' = todo \ {p}
    /\ fat' = IF Cardinality(todo) = 1 THEN "control" ELSE "read"
    /\ UNCHANGED <<list, tempMax, pwm>>
    /\ UNCHANGED <<hardware, store, command, tman, adcman, fru, started>>

\* Mutant of Level: a temperature beyond the limit is taken for a bad reading.
LevelCapped ==
    IF tempHigh < Setpoint \/ tempHigh > tempMax THEN "least"
    ELSE IF tempHigh = tempMax THEN "full"
    ELSE "some"

\* The power function reaches 255 at tempMax, unless it divides 0 by 0.
Level ==
    IF tempHigh < Setpoint THEN "least"
    ELSE IF tempHigh > tempMax \/ (tempHigh = tempMax /\ tempMax # Setpoint) THEN "full"
    ELSE "some"

\* The fans get their level.
control_loop ==
    /\ fat = "control"
    /\ pwm' = Level
    /\ fat' = "read"
    /\ todo' = list
    /\ tempHigh' = 0
    /\ UNCHANGED <<list, tempMax>>
    /\ UNCHANGED <<hardware, store, command, tman, adcman, fru, started>>

\* A call to the fans fails: get_fan_pwms finds none, or setProperty throws.  Or
\* the fan sensor service, which is required too, is restarted.
fansLost ==
    /\ fat \in {"limits", "read", "control"}
    /\ moves < MaxMoves
    /\ moves' = moves + 1
    /\ FanDown("down")
    /\ UNCHANGED <<actual, readable, rail, board, store, command, tman, adcman, fru, started>>
-----------------------------------------------------------------------------
(***************************************************************************)
(* The tools.  A tool may be interrupted at any point.                     *)
(***************************************************************************)
\* set_threshold reads the file; if it is Torn the tool ends with an exception.
set_threshold ==
    /\ tool = "none" /\ tools < MaxTools
    /\ file # Torn
    /\ tools' = tools + 1
    /\ tool' = "set"
    /\ j' = file
    /\ UNCHANGED <<hardware, store, tman, adcman, fan, fru, started>>

\* For a temperature sensor and "high", the property of the named sensor is set,
\* and with it the limit of all in the file to be.  For another type, a name that
\* is not found or "low" the file will have the limit it had.  The search for a
\* temperature without a path ends the tool with an exception.
setProperty ==
    /\ tool = "set"
    /\ \/ /\ tat = "serve"
          /\ \E s \in Sensors, v \in Limits :
               high' = [high EXCEPT ![s] = v] /\ j' = v
          /\ tool' = "open"
       \/ /\ tool' = "open"
          /\ UNCHANGED <<j, high>>
       \/ /\ tat # "ready" /\ Published = {}
          /\ tool' = "none" /\ j' = Torn
          /\ UNCHANGED high
    /\ UNCHANGED <<tools, tat, k, lim, cur, value, alarm>>
    /\ UNCHANGED <<hardware, store, adcman, fan, fru, started>>

\* std::ofstream truncates the file.
openOutput ==
    /\ tool = "open"
    /\ file' = Torn
    /\ tool' = "write"
    /\ UNCHANGED <<flash, j, tools, hardware, tman, adcman, fan, fru, started>>

dumpJson ==
    /\ tool = "write"
    /\ file' = j
    /\ tool' = "none" /\ j' = Torn
    /\ UNCHANGED <<flash, tools, hardware, tman, adcman, fan, fru, started>>

\* run_save_vars: whatever the file holds goes to the flash.
run_save_vars ==
    /\ tool = "none" /\ tools < MaxTools
    /\ tools' = tools + 1
    /\ flash' = file
    /\ UNCHANGED <<file, tool, j, hardware, tman, adcman, fan, fru, started>>

\* run_read_vars truncates the file; run_set_defaults writes the flash first.
run_read_vars ==
    /\ tool = "none" /\ tools < MaxTools
    /\ tools' = tools + 1
    /\ flash' \in {flash, Default}
    /\ file' = Torn
    /\ tool' = "copy"
    /\ UNCHANGED <<j, hardware, tman, adcman, fan, fru, started>>

\* How many lines are copied depends on lines_to_read, which is uninitialised:
\* too few lines leave a file that is not JSON.
copyLines ==
    /\ tool = "copy"
    /\ file' \in {flash, Torn}
    /\ tool' = "none"
    /\ UNCHANGED <<flash, j, tools, hardware, tman, adcman, fan, fru, started>>

toolKilled ==
    /\ tool # "none"
    /\ tool' = "none" /\ j' = Torn
    /\ UNCHANGED <<tools, store, hardware, tman, adcman, fan, fru, started>>
-----------------------------------------------------------------------------
TempService == Temp_Sensor \/ firstRound \/ send_reading
AdcService == ADC_sensor \/ send_all_readings
FanController == initialize_temps \/ get_temp_thresholds \/ read_temperatures \/ control_loop
Tools ==
    \/ set_threshold \/ setProperty \/ openOutput \/ dumpJson
    \/ run_save_vars \/ run_read_vars \/ copyLines \/ toolKilled

\* The sensors of the list above the limit on D-Bus since the pass began.
HotNow == {s \in list \ {Board} : tat = "serve" /\ value[s] > tempMax}
Watch == hot' = IF todo' = list' THEN HotNow' ELSE hot \cap HotNow'

Next ==
    /\ \/ TempService \/ AdcService \/ update_interface \/ FanController
       \/ HardwareMoves \/ adcLost \/ mandatoryLost \/ fansLost \/ Tools
    /\ Watch

Spec == Init /\ [][Next]_vars

\* The four services loop forever; systemd tries to restart one that ended, within
\* the start limit or not.  Nothing is assumed of the tools and the hardware.
FairSpec ==
    /\ Spec
    /\ WF_vars(TempService /\ Watch)
    /\ WF_vars(AdcService /\ Watch)
    /\ WF_vars(update_interface /\ Watch)
    /\ WF_vars(FanController /\ Watch)
-----------------------------------------------------------------------------
(***************************************************************************)
(* Properties.                                                             *)
(***************************************************************************)
TypeOK ==
    /\ actual \in [Sensors -> Temps] /\ readable \in [Sensors -> BOOLEAN]
    /\ rail \in {"good", "bad"} /\ board \in BOOLEAN /\ moves \in 0..MaxMoves
    /\ file \in Files /\ flash \in Files
    /\ tool \in {"none", "set", "open", "write", "copy"} /\ j \in Files
    /\ tools \in 0..MaxTools
    /\ tat \in {"down", "ready", "serve", "limit"} /\ k \in Sensors /\ lim \in Limits \cup {0}
    /\ cur \in [Sensors -> Temps \cup {0}] /\ value \in [Sensors -> Temps \cup {0}]
    /\ high \in [Sensors -> Limits \cup {0}] /\ alarm \in [Sensors -> BOOLEAN]
    /\ adc \in {"down", "up", "limit"} /\ valarm \in BOOLEAN
    /\ fat \in {"down", "limits", "read", "control", "limit"}
    /\ list \subseteq Paths /\ todo \subseteq list
    /\ tempMax \in Limits \cup {0, BoardLimit} /\ tempHigh \in Temps \cup {0, BoardTemp}
    /\ pwm \in Pwms
    /\ mat \in {"up", "limit"} /\ health \in {1, 2}
    /\ started \subseteq Services
    /\ hot \subseteq Sensors

\* A sensor that was above the controller's limit on D-Bus all through a pass of
\* read_temperatures decides the pass, although every path is a call of its
\* own, other calls fail (-20) and the service sends readings in between.
HotDecidesPass == fat = "control" => \A s \in hot : tempHigh > tempMax

\* A sensor that stays above the limit of the file is alarmed, whatever restarts
\* and threshold changes came before, provided the files of its predecessors in
\* update_reading can be read as well and the service was not refused a start: a
\* service that met a torn file too often stays failed when the file is repaired.
HotIsAlarmed ==
    \A s \in Sensors :
        <>[](Read(s) /\ file # Torn /\ actual[s] > file /\ tat # "limit") =>
            <>[](tat = "serve" /\ alarm[s])

\* The limit in the file is published for every sensor in the end, although the
\* tool sets the property of one sensor only, and sets it before the file, unless
\* the service was refused a start.
LimitReachesAll ==
    \A l \in Limits :
        <>[](file = l /\ tat # "limit") =>
            <>[](tat = "serve" /\ \A s \in Sensors : high[s] = l)

\* A sensor in the list of a living controller that stays above the controller's
\* limit, and is not below the setpoint, brings the fans to full speed, and they
\* stay there, although a reading may fail or be 0 for a while.  A refused start
\* of the temperature service ends the controller too: a living controller never
\* goes on with readings that cannot come back.
HotFansFull ==
    \A s \in Sensors :
        <>[](/\ Read(s) /\ file # Torn /\ s \in list
             /\ actual[s] > tempMax /\ actual[s] >= Setpoint) => <>[](pwm = "full")

\* A rail that stays out of its limits shows in the health sensor, if no board has
\* voltage sensors and the services were not refused a start; and a chassis in
\* which nothing is, or is any longer, alarmed is healthy again.
HealthFollowsRail ==
    /\ <>[](rail = "bad" /\ file # Torn /\ ~board /\ adc # "limit" /\ mat = "up") =>
         <>[](health = 2)
    /\ <>[](rail = "good" /\ ~TempAlarm /\ ~board /\ mat = "up") => <>[](health = 1)
=============================================================================
