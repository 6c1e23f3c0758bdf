------------------------- MODULE ThermalPath_proofs -------------------------
(***************************************************************************)
(* Proofs about ThermalPath, for any number of sensors, any temperatures,  *)
(* limits and faults: the types, and HotDecidesPass.                       *)
(***************************************************************************)
EXTENDS ThermalPath, FiniteSetTheorems, WellFoundedInduction, TLAPS

-----------------------------------------------------------------------------
(***************************************************************************)
(* Least elements and the controller's arithmetic.                         *)
(***************************************************************************)
\* Temperatures and limits are numbers, and the sensors are paths.
LEMMA Numbers ==
    /\ \A t \in Temps \cup {0, BoardTemp} : t \in Nat
    /\ \A t \in Limits \cup {0, BoardLimit} : t \in Nat
    /\ \A s \in Sensors : s \in Paths /\ s # Board
    /\ \A p \in Paths : p = Board \/ p \in Sensors
    /\ Board \in Paths
<1>1. \A t \in Temps \cup {0, BoardTemp} : t \in Nat
  BY ThermalAssumption
<1>2. \A t \in Limits \cup {0, BoardLimit} : t \in Nat
  BY ThermalAssumption
<1>3. NumSensors \in Nat
  BY ThermalAssumption
<1>. QED
  BY <1>1, <1>2, <1>3 DEF Sensors, Paths, Board

LEMMA LeastOf ==
    ASSUME NEW T, T \subseteq Nat, T # {}
    PROVE  \E x \in T : \A y \in T : x <= y
<1>1. PICK x \in T : \A y \in T : ~(<<y, x>> \in OpToRel(<, Nat))
  BY NatLessThanWellFounded, WFMin
<1>2. \A y \in T : ~(y < x)
  BY <1>1 DEF OpToRel
<1>. QED
  BY <1>2

\* The mapper's first path is one of its paths.
LEMMA FirstIn ==
    ASSUME NEW T, T \subseteq Paths, T # {}
    PROVE  First(T) \in T
<1>1. T \subseteq Nat
  BY ThermalAssumption DEF Paths
<1>2. \E x \in T : \A y \in T : x <= y
  BY <1>1, LeastOf
<1>. QED
  BY <1>2 DEF First

\* read_temperatures is done when it removes the only path.
LEMMA LastPath ==
    ASSUME NEW T, T \subseteq Paths, NEW p \in T
    PROVE  Cardinality(T) = 1 <=> T \ {p} = {}
<1>1. IsFiniteSet(Paths)
  BY FS_Interval, ThermalAssumption DEF Paths
<1>2. IsFiniteSet(T)
  BY <1>1, FS_Subset
<1>3. Cardinality(T) \in Nat /\ Cardinality(T \ {p}) = Cardinality(T) - 1
      /\ IsFiniteSet(T \ {p})
  BY <1>2, FS_RemoveElement, FS_CardinalityType
<1>4. Cardinality(T \ {p}) = 0 <=> T \ {p} = {}
  BY <1>3, FS_EmptySet
<1>. QED
  BY <1>3, <1>4

-----------------------------------------------------------------------------
(***************************************************************************)
(* Types, one part for each group of variables that a step leaves alone as *)
(* a whole.                                                                *)
(***************************************************************************)
TypeHardware ==
    /\ actual \in [Sensors -> Temps] /\ readable \in [Sensors -> BOOLEAN]
    /\ rail \in {"good", "bad"} /\ board \in BOOLEAN /\ moves \in 0..MaxMoves
TypeStore == file \in Files /\ flash \in Files
TypeCommand ==
    /\ tool \in {"none", "set", "open", "write", "copy"} /\ j \in Files
    /\ tools \in 0..MaxTools
TypeTemp ==
    /\ tat \in {"down", "ready", "serve", "limit"} /\ k \in Sensors /\ lim \in Limits \cup {0}
    /\ cur \in [Sensors -> Temps \cup {0}] /\ value \in [Sensors -> Temps \cup {0}]
    /\ high \in [Sensors -> Limits \cup {0}] /\ alarm \in [Sensors -> BOOLEAN]
TypeAdc == adc \in {"down", "up", "limit"} /\ valarm \in BOOLEAN
TypeFan ==
    /\ fat \in {"down", "limits", "read", "control", "limit"}
    /\ list \subseteq Paths /\ todo \subseteq list
    /\ tempMax \in Limits \cup {0, BoardLimit} /\ tempHigh \in Temps \cup {0, BoardTemp}
    /\ pwm \in Pwms
TypeHealth == mat \in {"up", "limit"} /\ health \in {1, 2} /\ started \subseteq Services

\* The state without the history variable.
Types ==
    /\ TypeHardware /\ TypeStore /\ TypeCommand /\ TypeTemp /\ TypeAdc /\ TypeFan
    /\ TypeHealth

LEMMA TypeParts == TypeOK <=> Types /\ hot \subseteq Sensors
  BY DEF TypeOK, Types, TypeHardware, TypeStore, TypeCommand, TypeTemp, TypeAdc, TypeFan,
         TypeHealth

\* A step that leaves a group alone keeps its types.
LEMMA Kept ==
    /\ TypeHardware /\ UNCHANGED hardware => TypeHardware'
    /\ TypeStore /\ UNCHANGED store => TypeStore'
    /\ TypeCommand /\ UNCHANGED command => TypeCommand'
    /\ TypeTemp /\ UNCHANGED tman => TypeTemp'
    /\ TypeAdc /\ UNCHANGED adcman => TypeAdc'
    /\ TypeFan /\ UNCHANGED fan => TypeFan'
    /\ TypeHealth /\ UNCHANGED <<fru, started>> => TypeHealth'
<1>1. TypeHardware /\ UNCHANGED hardware => TypeHardware'
  BY DEF TypeHardware, hardware
<1>2. TypeStore /\ UNCHANGED store => TypeStore'
  BY DEF TypeStore, store
<1>3. TypeCommand /\ UNCHANGED command => TypeCommand'
  BY DEF TypeCommand, command
<1>4. TypeTemp /\ UNCHANGED tman => TypeTemp'
  BY DEF TypeTemp, tman
<1>5. TypeAdc /\ UNCHANGED adcman => TypeAdc'
  BY DEF TypeAdc, adcman
<1>6. TypeFan /\ UNCHANGED fan => TypeFan'
  BY DEF TypeFan, fan
<1>7. TypeHealth /\ UNCHANGED <<fru, started>> => TypeHealth'
  BY DEF TypeHealth, fru
<1>. QED
  BY <1>1, <1>2, <1>3, <1>4, <1>5, <1>6, <1>7

\* Readings are temperatures, or what was there.
LEMMA ReadingType ==
    ASSUME TypeHardware, NEW old \in [Sensors -> Temps \cup {0}]
    PROVE  update_reading(old) \in [Sensors -> Temps \cup {0}]
  BY DEF TypeHardware, update_reading

\* A comparison is a Boolean.
LEMMA AlarmType ==
    ASSUME NEW f \in [Sensors -> BOOLEAN], NEW s \in Sensors,
           NEW x \in Int, NEW y \in Int
    PROVE  [f EXCEPT ![s] = x > y] \in [Sensors -> BOOLEAN]
<1>1. (x > y) = TRUE \/ (x > y) = FALSE
  OBVIOUS
<1>2. PICK b \in BOOLEAN : b = (x > y)
  BY <1>1, Zenon
<1>3. [f EXCEPT ![s] = b] \in [Sensors -> BOOLEAN]
  OBVIOUS
<1>. QED
  BY <1>2, <1>3, Zenon

\* What Announce needs of the file.
LEMMA AnnounceType ==
    ASSUME TypeTemp, TypeStore, file # Torn, NEW s \in Sensors, Announce(s)
    PROVE  /\ tat' \in {"down", "ready", "serve", "limit"} /\ k' \in Sensors
           /\ lim' \in Limits \cup {0} /\ high' \in [Sensors -> Limits \cup {0}]
  BY DEF TypeTemp, TypeStore, Files, Announce

\* A process that ended has its initial values.
LEMMA TempDownType == TempDown => TypeTemp'
  BY ThermalAssumption DEF TempDown, TypeTemp, Sensors

LEMMA FanDownType ==
    ASSUME TypeFan, NEW how \in {"down", "limit"}, FanDown(how)
    PROVE  TypeFan'
  BY DEF FanDown, TypeFan

\* A start, admitted or refused, keeps the types of what it notes.
LEMMA StartType ==
    ASSUME TypeHealth, NEW x \in Services, Admitted(x) \/ Refused(x)
    PROVE  started' \subseteq Services
  BY DEF TypeHealth, Admitted, Refused

-----------------------------------------------------------------------------
\* The controller's values.
LEMMA PublishedPaths == Published \subseteq Paths
  BY Numbers DEF Published

LEMMA HigherType ==
    ASSUME TypeTemp, TypeFan, NEW p \in Paths
    PROVE  Higher(p) \in Temps \cup {0, BoardTemp}
<1>1. tempHigh \in Nat /\ Reading(p) \in Temps \cup {0, BoardTemp, -20}
  BY Numbers DEF TypeTemp, TypeFan, Reading
<1>. QED
  BY <1>1, Numbers DEF Higher, Max2, TypeFan

LEMMA LevelType == Level \in Pwms
  BY DEF Level, Pwms

\* Where the controller is tells which paths it still has to ask.
Stages ==
    /\ fat \in {"down", "limit"} => list = {} /\ todo = {}
    /\ fat = "limits" => list # {} /\ todo = {}
    /\ fat = "read" => list # {} /\ todo # {}
    /\ fat = "control" => list # {} /\ todo = {}

\* Every step keeps the types; todo is within the list because it is empty
\* when the list is made.
LEMMA TypeStep ==
    ASSUME Types, Stages, Next
    PROVE  Types'
<1>. USE DEF Types
<1>1. CASE HardwareMoves
  <2>1. moves' \in 0..MaxMoves
    BY <1>1, ThermalAssumption DEF HardwareMoves, TypeHardware
  <2>2. actual' \in [Sensors -> Temps]
    BY <1>1 DEF HardwareMoves, TypeHardware
  <2>3. readable' \in [Sensors -> BOOLEAN]
    BY <1>1 DEF HardwareMoves, TypeHardware
  <2>4. rail' \in {"good", "bad"}
    BY <1>1 DEF HardwareMoves, TypeHardware
  <2>5. board' \in BOOLEAN
    BY <1>1 DEF HardwareMoves, TypeHardware
  <2>. QED
    BY <1>1, <2>1, <2>2, <2>3, <2>4, <2>5, Kept DEF HardwareMoves, TypeHardware
<1>2. CASE Temp_Sensor
  <2>1. TypeHealth'
    <3>1. started' \subseteq Services
      BY <1>2, StartType DEF Temp_Sensor, Services
    <3>. QED
      BY <1>2, <3>1 DEF Temp_Sensor, TypeHealth
  <2>2. TypeFan'
    BY <1>2, FanDownType DEF Temp_Sensor
  <2>3. TypeTemp'
    <3>1. CASE UNCHANGED <<cur, high>> /\ tat' \in {tat, "limit"}
      BY <1>2, <3>1 DEF Temp_Sensor, TypeTemp
    <3>2. CASE /\ file # Torn /\ tat' = "ready" /\ high' = [s \in Sensors |-> file]
               /\ \E junk \in Temps : cur' = update_reading([s \in Sensors |-> junk])
      <4>1. PICK t \in Temps : cur' = update_reading([s \in Sensors |-> t])
        BY <3>2
      <4>2. cur' \in [Sensors -> Temps \cup {0}]
        BY <4>1, ReadingType
      <4>. QED
        BY <1>2, <3>2, <4>2 DEF Temp_Sensor, TypeTemp, TypeStore, Files
    <3>. QED
      BY <1>2, <3>1, <3>2 DEF Temp_Sensor
  <2>. QED
    BY <1>2, <2>1, <2>2, <2>3, Kept DEF Temp_Sensor
<1>3. CASE firstRound
  <2>1. 1 \in Sensors
    BY ThermalAssumption DEF Sensors
  <2>2. CASE file = Torn
    BY <1>3, <2>2, TempDownType, Kept DEF firstRound
  <2>3. CASE file # Torn
    <3>1. cur' = update_reading(cur) /\ Announce(1) /\ UNCHANGED <<value, alarm>>
      BY <1>3, <2>3 DEF firstRound
    <3>2. cur' \in [Sensors -> Temps \cup {0}]
      BY <3>1, ReadingType DEF TypeTemp
    <3>3. TypeTemp'
      BY <2>1, <2>3, <3>1, <3>2, AnnounceType DEF TypeTemp
    <3>. QED
      BY <1>3, <3>3, Kept DEF firstRound
  <2>. QED
    BY <2>2, <2>3
<1>4. CASE send_reading
  <2>1. 1 \in Sensors
    BY ThermalAssumption DEF Sensors
  <2>2. CASE file = Torn
    BY <1>4, <2>2, TempDownType, Kept DEF send_reading
  <2>3. CASE file # Torn
    <3>1. k \in Sensors /\ (k < NumSensors => k + 1 \in Sensors)
      BY ThermalAssumption DEF TypeTemp, Sensors
    <3>2. /\ value' = [value EXCEPT ![k] = cur[k]]
          /\ alarm' = [alarm EXCEPT ![k] = cur[k] > lim]
      BY <1>4, <2>3 DEF send_reading
    <3>3. /\ (\E s \in Sensors : Announce(s))
          /\ cur' = cur \/ cur' = update_reading(cur)
      BY <1>4, <2>1, <2>3, <3>1 DEF send_reading
    <3>4. value' \in [Sensors -> Temps \cup {0}]
      BY <3>1, <3>2 DEF TypeTemp
    <3>5. alarm' \in [Sensors -> BOOLEAN]
      <4>1. cur[k] \in Int /\ lim \in Int
        BY <3>1, Numbers DEF TypeTemp
      <4>. QED
        BY <3>1, <3>2, <4>1, AlarmType DEF TypeTemp
    <3>6. cur' \in [Sensors -> Temps \cup {0}]
      BY <3>3, ReadingType DEF TypeTemp
    <3>7. TypeTemp'
      BY <2>3, <3>3, <3>4, <3>5, <3>6, AnnounceType DEF TypeTemp
    <3>. QED
      BY <1>4, <3>7, Kept DEF send_reading
  <2>. QED
    BY <2>2, <2>3
<1>5. CASE AdcService
  <2>1. TypeAdc'
    <3>1. adc' \in {"down", "up", "limit"}
      BY <1>5 DEF AdcService, ADC_sensor, send_all_readings, TypeAdc
    <3>2. valarm' \in BOOLEAN
      BY <1>5 DEF AdcService, ADC_sensor, send_all_readings, TypeAdc
    <3>. QED
      BY <3>1, <3>2 DEF TypeAdc
  <2>2. TypeHealth'
    <3>1. UNCHANGED fru
      BY <1>5 DEF AdcService, ADC_sensor, send_all_readings
    <3>2. started' \subseteq Services
      <4>1. CASE ADC_sensor
        BY <4>1, StartType DEF ADC_sensor, Services
      <4>2. CASE send_all_readings
        BY <4>2 DEF send_all_readings, TypeHealth
      <4>. QED
        BY <1>5, <4>1, <4>2 DEF AdcService
    <3>. QED
      BY <3>1, <3>2 DEF TypeHealth, fru
  <2>. QED
    BY <1>5, <2>1, <2>2, Kept DEF AdcService, ADC_sensor, send_all_readings
<1>6. CASE update_interface
  <2>1. PICK v \in alarm_check : health' = get_all_alarms_status(v)
    BY <1>6 DEF update_interface
  <2>2. health' \in {1, 2}
    BY <2>1 DEF get_all_alarms_status
  <2>. QED
    BY <1>6, <2>2, Kept DEF update_interface, TypeHealth
<1>7. CASE initialize_temps
  <2>1. TypeFan'
    <3>1. /\ todo' = {} /\ list' \in {Published, list} /\ fat' \in {"limits", "down", "limit"}
          /\ UNCHANGED <<tempMax, tempHigh, pwm>>
      BY <1>7 DEF initialize_temps, Stages
    <3>. QED
      BY <1>7, <3>1, PublishedPaths DEF TypeFan
  <2>2. TypeHealth'
    <3>1. UNCHANGED fru
      BY <1>7 DEF initialize_temps
    <3>2. started' \subseteq Services
      BY <1>7, StartType DEF initialize_temps, Services
    <3>. QED
      BY <3>1, <3>2 DEF TypeHealth, fru
  <2>. QED
    BY <1>7, <2>1, <2>2, Kept DEF initialize_temps
<1>8. CASE get_temp_thresholds
  <2>1. CASE Published = {}
    BY <1>8, <2>1, FanDownType, Kept DEF get_temp_thresholds
  <2>2. CASE Published # {}
    <3>1. First(Published) \in Published
      BY <2>2, PublishedPaths, FirstIn
    <3>2. First(Published) = Board \/ First(Published) \in Sensors
      BY <3>1 DEF Published
    <3>3. tempMax' \in Limits \cup {0, BoardLimit}
      BY <1>8, <2>2, <3>2 DEF get_temp_thresholds, TypeTemp
    <3>4. TypeFan'
      BY <1>8, <2>2, <3>3 DEF get_temp_thresholds, TypeFan
    <3>. QED
      BY <1>8, <3>4, Kept DEF get_temp_thresholds
  <2>. QED
    BY <2>1, <2>2
<1>9. CASE read_temperatures
  <2>1. First(todo) \in todo /\ First(todo) \in Paths
    BY <1>9, FirstIn DEF read_temperatures, TypeFan
  <2>2. tempHigh' \in Temps \cup {0, BoardTemp}
    BY <1>9, <2>1, HigherType DEF read_temperatures
  <2>3. TypeFan'
    BY <1>9, <2>2 DEF read_temperatures, TypeFan
  <2>. QED
    BY <1>9, <2>3, Kept DEF read_temperatures
<1>10. CASE control_loop
  BY <1>10, LevelType, Kept DEF control_loop, TypeFan
<1>11. CASE adcLost
  <2>1. TypeHardware'
    BY <1>11, ThermalAssumption DEF adcLost, TypeHardware
  <2>2. TypeAdc'
    BY <1>11 DEF adcLost, TypeAdc
  <2>. QED
    BY <1>11, <2>1, <2>2, Kept DEF adcLost
<1>12. CASE fansLost
  <2>1. TypeHardware'
    BY <1>12, ThermalAssumption DEF fansLost, TypeHardware
  <2>. QED
    BY <1>12, <2>1, FanDownType, Kept DEF fansLost
<1>13. CASE setProperty
  <2>1. high' \in [Sensors -> Limits \cup {0}]
    BY <1>13 DEF setProperty, TypeTemp
  <2>2. TypeTemp'
    BY <1>13, <2>1 DEF setProperty, TypeTemp
  <2>3. TypeCommand'
    BY <1>13 DEF setProperty, TypeCommand, Files
  <2>. QED
    BY <1>13, <2>2, <2>3, Kept DEF setProperty
<1>14. CASE mandatoryLost
  <2>1. TypeHardware'
    BY <1>14, ThermalAssumption DEF mandatoryLost, TypeHardware
  <2>2. TypeHealth'
    BY <1>14 DEF mandatoryLost, TypeHealth
  <2>. QED
    BY <1>14, <2>1, <2>2, Kept DEF mandatoryLost
<1>15. CASE set_threshold \/ openOutput \/ dumpJson \/ run_save_vars \/ run_read_vars
            \/ copyLines \/ toolKilled
  <2>1. TypeStore'
    BY <1>15, ThermalAssumption
    DEF set_threshold, openOutput, dumpJson, run_save_vars, run_read_vars, copyLines,
        toolKilled, TypeStore, TypeCommand, Files, store
  <2>2. TypeCommand'
    BY <1>15, ThermalAssumption
    DEF set_threshold, openOutput, dumpJson, run_save_vars, run_read_vars, copyLines,
        toolKilled, TypeStore, TypeCommand, Files
  <2>. QED
    BY <1>15, <2>1, <2>2, Kept
    DEF set_threshold, openOutput, dumpJson, run_save_vars, run_read_vars, copyLines,
        toolKilled
<1>. QED
  BY <1>1, <1>2, <1>3, <1>4, <1>5, <1>6, <1>7, <1>8, <1>9, <1>10, <1>11, <1>12, <1>13, <1>14,
     <1>15
  DEF Next, TempService, FanController, Tools

-----------------------------------------------------------------------------
(***************************************************************************)
(* A pass of the fan controller.                                           *)
(***************************************************************************)
\* A sensor that was hot all through the pass is hot now, and has either still
\* to be asked or is in tempHigh.
Counted ==
    /\ hot \subseteq HotNow
    /\ fat \in {"read", "control"} => \A s \in hot : s \in todo \/ tempHigh > tempMax

\* The inductive invariant.
IInv == Types /\ Stages /\ Counted

LEMMA HotSensors ==
    ASSUME TypeFan
    PROVE  HotNow \subseteq Sensors
  BY Numbers DEF TypeFan, HotNow

LEMMA InitInv == Init => IInv
<1>. SUFFICES ASSUME Init
              PROVE  IInv
  OBVIOUS
<1>1. \E t \in Temps : \A u \in Temps : t <= u
  BY ThermalAssumption, LeastOf
<1>2. (CHOOSE t \in Temps : \A u \in Temps : t <= u) \in Temps
  BY <1>1
<1>3. TypeHardware
  <2>1. moves \in 0..MaxMoves
    BY ThermalAssumption DEF Init
  <2>2. actual \in [Sensors -> Temps]
    BY <1>2, Zenon DEF Init
  <2>3. readable \in [Sensors -> BOOLEAN] /\ board \in BOOLEAN
    BY DEF Init
  <2>. QED
    BY <2>1, <2>2, <2>3 DEF Init, TypeHardware
<1>4. TypeStore /\ TypeCommand /\ TypeAdc /\ TypeHealth
  <2>1. tools \in 0..MaxTools
    BY ThermalAssumption DEF Init
  <2>2. Default \in Files /\ Torn \in Files
    BY ThermalAssumption DEF Files
  <2>. QED
    BY <2>1, <2>2 DEF Init, TypeStore, TypeCommand, TypeAdc, TypeHealth, Services
<1>5. TypeTemp
  BY ThermalAssumption DEF Init, TypeTemp, Sensors
<1>6. TypeFan /\ Stages /\ Counted
  BY DEF Init, TypeFan, Stages, Counted, Pwms
<1>. QED
  BY <1>3, <1>4, <1>5, <1>6 DEF IInv, Types

\* What Watch makes of hot, whatever else happens.
LEMMA WatchHot ==
    ASSUME Watch
    PROVE  hot' \subseteq HotNow' /\ (todo' # list' => hot' \subseteq hot)
  BY DEF Watch

\* A step that leaves the controller alone.
LEMMA OtherStep ==
    ASSUME Stages, Counted, Watch, UNCHANGED fan
    PROVE  Stages' /\ Counted'
<1>1. Stages'
  BY DEF Stages, fan
<1>2. hot' \subseteq HotNow' /\ (todo # list => hot' \subseteq hot)
  BY WatchHot DEF fan
<1>3. HotNow' \subseteq list
  BY DEF HotNow, fan
<1>. QED
  BY <1>1, <1>2, <1>3 DEF Counted, fan

\* A controller that ended.
LEMMA DownStep ==
    ASSUME NEW how \in {"down", "limit"}, FanDown(how), Watch
    PROVE  Stages' /\ Counted'
<1>1. hot' \subseteq HotNow'
  BY WatchHot
<1>. QED
  BY <1>1 DEF FanDown, Stages, Counted

LEMMA PassStep ==
    ASSUME IInv, Next
    PROVE  Stages' /\ Counted'
<1>. USE DEF IInv
<1>0. Watch
  BY DEF Next
<1>1. CASE UNCHANGED fan
  BY <1>0, <1>1, OtherStep
<1>2. CASE initialize_temps
  <2>1. /\ (fat' \in {"down", "limit"} /\ list' = {}) \/ (fat' = "limits" /\ list' # {})
        /\ todo' = {}
    BY <1>2 DEF initialize_temps, Stages
  <2>. QED
    BY <1>0, <2>1, WatchHot DEF Stages, Counted
<1>3. CASE get_temp_thresholds
  <2>1. CASE Published = {}
    BY <1>0, <1>3, <2>1, DownStep DEF get_temp_thresholds
  <2>2. CASE Published # {}
    <3>1. fat' = "read" /\ list' = list /\ todo' = list /\ list # {}
      BY <1>3, <2>2 DEF get_temp_thresholds, Stages
    <3>2. hot' \subseteq HotNow' /\ HotNow' \subseteq list
      BY <1>0, <3>1, WatchHot DEF HotNow
    <3>. QED
      BY <3>1, <3>2 DEF Stages, Counted
  <2>. QED
    BY <2>1, <2>2
<1>4. CASE read_temperatures
  <2>1. PICK p : p = First(todo)
    OBVIOUS
  <2>2. p \in todo /\ p \in list /\ p \in Paths /\ todo \subseteq Paths
    BY <1>4, <2>1, FirstIn DEF read_temperatures, Types, TypeFan
  <2>3. /\ fat = "read" /\ todo' = todo \ {p} /\ tempHigh' = Higher(p)
        /\ list' = list /\ tempMax' = tempMax
        /\ fat' = IF Cardinality(todo) = 1 THEN "control" ELSE "read"
    BY <1>4, <2>1 DEF read_temperatures
  <2>4. Stages'
    BY <2>2, <2>3, LastPath DEF Stages
  <2>5. hot' \subseteq HotNow' /\ hot' \subseteq hot
    BY <1>0, <2>2, <2>3, WatchHot
  <2>6. ASSUME NEW s \in hot'
        PROVE  s \in todo' \/ tempHigh' > tempMax'
    <3>1. s \in Sensors /\ s # Board /\ tat = "serve" /\ value[s] > tempMax
      BY <2>5, HotSensors DEF Counted, HotNow, Types
    <3>2. tempHigh \in Nat /\ tempMax \in Nat /\ value[s] \in Nat
      BY <3>1, Numbers DEF Types, TypeFan, TypeTemp
    <3>3. Reading(p) \in Nat \cup {-20}
      BY <2>2, Numbers DEF Types, TypeTemp, Reading
    <3>4. CASE s = p
      <4>1. Reading(p) = value[s]
        BY <3>1, <3>4 DEF Reading, Published
      <4>. QED
        BY <2>3, <3>1, <3>2, <4>1 DEF Higher, Max2
    <3>5. CASE s # p
      <4>1. s \in todo \/ tempHigh > tempMax
        BY <2>3, <2>5 DEF Counted
      <4>. QED
        BY <2>3, <3>2, <3>3, <3>5, <4>1 DEF Higher, Max2
    <3>. QED
      BY <3>4, <3>5
  <2>. QED
    BY <2>4, <2>5, <2>6 DEF Counted
<1>5. CASE control_loop
  <2>1. fat' = "read" /\ list' = list /\ todo' = list /\ list # {}
    BY <1>5 DEF control_loop, Stages
  <2>2. hot' \subseteq HotNow' /\ HotNow' \subseteq list
    BY <1>0, <2>1, WatchHot DEF HotNow
  <2>. QED
    BY <2>1, <2>2 DEF Stages, Counted
<1>6. CASE fansLost
  BY <1>0, <1>6, DownStep DEF fansLost
<1>7. CASE Temp_Sensor
  BY <1>0, <1>7, DownStep DEF Temp_Sensor
<1>8. \/ UNCHANGED fan \/ initialize_temps \/ get_temp_thresholds \/ read_temperatures
      \/ control_loop \/ fansLost \/ Temp_Sensor
  BY DEF Next, TempService, firstRound, send_reading, AdcService, ADC_sensor,
         send_all_readings, update_interface, FanController, HardwareMoves, adcLost, Tools,
         mandatoryLost,
         set_threshold, setProperty, openOutput, dumpJson, run_save_vars, run_read_vars,
         copyLines, toolKilled
<1>. QED
  BY <1>1, <1>2, <1>3, <1>4, <1>5, <1>6, <1>7, <1>8

LEMMA StutterInv ==
    ASSUME IInv, UNCHANGED vars
    PROVE  IInv'
<1>1. Types'
  BY Kept DEF IInv, Types, vars
<1>2. Stages' /\ Counted'
  BY DEF IInv, Stages, Counted, HotNow, vars, fan, tman
<1>. QED
  BY <1>1, <1>2 DEF IInv

\* The invariant holds always.
THEOREM ThermalInvariant == Spec => []IInv
<1>1. IInv /\ [Next]_vars => IInv'
  <2>1. IInv /\ Next => IInv'
    BY TypeStep, PassStep DEF IInv
  <2>. QED
    BY <2>1, StutterInv
<1>. QED
  BY InitInv, <1>1, PTL DEF Spec

\* Type correctness.
THEOREM ThermalTypeOK == Spec => []TypeOK
<1>1. IInv => TypeOK
  BY TypeParts, HotSensors DEF IInv, Types, Counted
<1>. QED
  BY <1>1, ThermalInvariant, PTL

\* However many sensors there are, and however the calls of a pass interleave
\* with send_reading, restarts and failing calls, a sensor that was hot on D-Bus
\* all through the pass decides what control_loop sees.
THEOREM ThermalHotDecidesPass == Spec => []HotDecidesPass
<1>1. IInv => HotDecidesPass
  BY DEF IInv, Stages, Counted, HotDecidesPass
<1>. QED
  BY <1>1, ThermalInvariant, PTL
=============================================================================
