------------------------- MODULE AlarmWatch_proofs --------------------------
(***************************************************************************)
(* Proofs about AlarmWatch, for any number of sensors and any faults.      *)
(***************************************************************************)
EXTENDS AlarmWatch, TLAPS

\* Every step by name.
LEMMA NextCases ==
    ASSUME Next
    PROVE  \/ WaitForIpmi \/ StartScan \/ unset_ps \/ set_alarm_gpio
           \/ \E k \in Kinds : ReadAlarm(k) \/ SkipSensor(k) \/ EndScan(k)
           \/ Publisher \/ HeartbeatDies
           \/ \E k \in Kinds : \E i \in 1..Num(k) : AlarmMoves(k, i)
           \/ \E s \in Services : ServiceMoves(s)
  BY DEF Next, Watcher

\* The sensors of one kind are numbered within those of all kinds.
LEMMA NumBound ==
    ASSUME NEW k \in Kinds
    PROVE  Num(k) \in Nat /\ Num(k) <= NumTemps + NumVolts /\ NumTemps + NumVolts \in Nat
  BY SensorAssumption DEF Kinds, Num

-----------------------------------------------------------------------------
(***************************************************************************)
(* Types.                                                                  *)
(***************************************************************************)
\* The watcher's and the publisher's places.
Wpcs == {"ipmi", "services", "temp", "volt", "unset", "alarm", "done"}
Gpcs == {"top", "ps", "psclear", "sr", "srclear"}

\* The published values and the fields of gpio_info that the threads share.
Values == [ps : BOOLEAN, sr : BOOLEAN]
Infos == [status : BOOLEAN, dbusflag : BOOLEAN]

\* What the two threads make of them.
LEMMA ValuesTaken ==
    ASSUME NEW p \in Infos, NEW q \in Infos
    PROVE  [ps |-> p.status, sr |-> q.status] \in Values
  BY DEF Infos, Values
LEMMA ValuePublished ==
    ASSUME NEW p \in Values, NEW v \in Values, NEW pin \in {"ps", "sr"}
    PROVE  [p EXCEPT ![pin] = v[pin]] \in Values
  BY DEF Values
LEMMA FlagCleared ==
    ASSUME NEW p \in Infos
    PROVE  [p EXCEPT !.dbusflag = FALSE] \in Infos
  BY DEF Infos
LEMMA FixedRecords ==
    /\ \A b \in BOOLEAN : [status |-> b, dbusflag |-> b] \in Infos
    /\ [ps |-> FALSE, sr |-> FALSE] \in Values
  BY DEF Infos, Values

\* A flag of one kind of sensors set to a Boolean.
LEMMA FlagSet ==
    ASSUME NEW f \in [Kinds -> BOOLEAN], NEW k \in Kinds, NEW b \in BOOLEAN
    PROVE  [f EXCEPT ![k] = b] \in [Kinds -> BOOLEAN]
  OBVIOUS

\* The types in two parts: what the watcher and the environment write, and what
\* the two threads share and publish.
TypeWatch ==
    /\ faults \in {{}, Faults}
    /\ alarm \in Alarms
    /\ svc \subseteq Services
    /\ seen \subseteq Services
    /\ wpc \in Wpcs
    /\ at \in 1..(NumTemps + NumVolts + 1)
TypeFlags ==
    /\ alive \in BOOLEAN
    /\ everAlarm \in BOOLEAN
    /\ found \in [Kinds -> BOOLEAN]
TypePins ==
    /\ gpc \in Gpcs
    /\ value \in Values
    /\ published \in Values
    /\ high \subseteq {"psenable", "switch", "alarm"}
    /\ ps \in Infos
    /\ sr \in Infos

\* The parts are the type invariant.
LEMMA TypeParts == TypeOK <=> TypeWatch /\ TypeFlags /\ TypePins
  BY DEF TypeOK, TypeWatch, TypeFlags, TypePins, Wpcs, Gpcs, Values, Infos

\* The initial state has the types.
LEMMA InitType == Init => TypeOK
<1>. SUFFICES ASSUME Init PROVE TypeOK
  OBVIOUS
<1>1. TypeWatch
  BY SensorAssumption DEF Init, TypeWatch, Wpcs, Alarms
<1>2. alive \in BOOLEAN /\ everAlarm \in BOOLEAN
  BY Zenon DEF Init
<1>3. found \in [Kinds -> BOOLEAN]
  BY Zenon DEF Init
<1>4. TypePins
  BY FixedRecords DEF Init, TypePins, Gpcs
<1>. QED
  BY <1>1, <1>2, <1>3, <1>4, TypeParts DEF TypeFlags

\* A step of the watcher's scan keeps the types.
LEMMA ScanType ==
    ASSUME TypeWatch, TypeFlags, NEW k \in Kinds, ReadAlarm(k) \/ SkipSensor(k) \/ EndScan(k)
    PROVE  TypeWatch' /\ TypeFlags'
<1>1. at' \in 1..(NumTemps + NumVolts + 1)
  <2>1. CASE ReadAlarm(k)
    BY <2>1, NumBound DEF ReadAlarm, TypeWatch
  <2>2. CASE SkipSensor(k)
    BY <2>2, NumBound DEF SkipSensor, TypeWatch
  <2>3. CASE EndScan(k)
    BY <2>3, NumBound DEF EndScan, NextScan, TypeWatch
  <2>. QED
    BY <2>1, <2>2, <2>3
<1>2. wpc' \in Wpcs
  BY DEF ReadAlarm, SkipSensor, EndScan, NextScan, TypeWatch, Wpcs
<1>3. UNCHANGED <<faults, alarm, svc, seen, alive, everAlarm>>
  BY DEF ReadAlarm, SkipSensor, EndScan, env
<1>4. found' \in [Kinds -> BOOLEAN]
  <2>1. CASE ReadAlarm(k)
    <3>1. found' = [found EXCEPT ![k] = at \in alarm[k]]
      BY <2>1 DEF ReadAlarm
    <3>2. CASE at \in alarm[k]
      <4>1. (at \in alarm[k]) = TRUE
        BY <3>2, Zenon
      <4>2. found' = [found EXCEPT ![k] = TRUE]
        BY <3>1, <4>1, Zenon
      <4>. QED
        BY <4>2, FlagSet DEF TypeFlags
    <3>3. CASE at \notin alarm[k]
      <4>1. (at \in alarm[k]) = FALSE
        BY <3>3
      <4>2. found' = [found EXCEPT ![k] = FALSE]
        BY <3>1, <4>1, Zenon
      <4>. QED
        BY <4>2, FlagSet DEF TypeFlags
    <3>. QED
      BY <3>2, <3>3
  <2>2. CASE SkipSensor(k)
    BY <2>2 DEF SkipSensor, TypeFlags
  <2>3. CASE EndScan(k)
    BY <2>3 DEF EndScan, NextScan, TypeFlags
  <2>. QED
    BY <2>1, <2>2, <2>3
<1>. QED
  BY <1>1, <1>2, <1>3, <1>4 DEF TypeWatch, TypeFlags

\* A step of the gpio thread keeps the types.
LEMMA PublisherType ==
    ASSUME TypeWatch, TypeFlags, TypePins, Publisher
    PROVE  TypeWatch' /\ TypeFlags' /\ TypePins'
<1>1. UNCHANGED <<alive, env, seen, watcher, high>>
  BY DEF Publisher, TakeValues, PublishPs, ClearPs, PublishSr, ClearSr
<1>2. TypePins'
  <2>1. CASE TakeValues
    <3>1. value' \in Values
      BY <2>1, ValuesTaken DEF TakeValues, TypePins
    <3>. QED
      BY <2>1, <3>1 DEF TakeValues, TypePins, Gpcs
  <2>2. ASSUME NEW pin \in {"ps", "sr"}, NEW flag, NEW clear \in Gpcs, NEW next \in Gpcs,
               Publish(pin, flag, clear, next)
        PROVE  gpc' \in Gpcs /\ published' \in Values
    BY <2>2, ValuePublished DEF Publish, TypePins
  <2>3. CASE PublishPs \/ PublishSr
    <3>1. gpc' \in Gpcs /\ published' \in Values
      BY <2>2, <2>3 DEF PublishPs, PublishSr, Gpcs
    <3>. QED
      BY <2>3, <3>1 DEF PublishPs, PublishSr, TypePins
  <2>4. CASE ClearPs
    BY <2>4, FlagCleared DEF ClearPs, TypePins, Gpcs
  <2>5. CASE ClearSr
    BY <2>5, FlagCleared DEF ClearSr, TypePins, Gpcs
  <2>. QED
    BY <2>1, <2>3, <2>4, <2>5 DEF Publisher
<1>. QED
  BY <1>1, <1>2 DEF TypeWatch, TypeFlags, env, watcher

\* Every step keeps the types.
LEMMA NextType == TypeOK /\ [Next]_vars => TypeOK'
<1>. SUFFICES ASSUME TypeWatch, TypeFlags, TypePins, [Next]_vars
              PROVE  TypeWatch' /\ TypeFlags' /\ TypePins'
  BY DEF TypeOK, TypeWatch, TypeFlags, TypePins, Wpcs, Gpcs, Values, Infos
<1>1. CASE UNCHANGED vars
  BY <1>1 DEF vars, env, watcher, publisher, TypeWatch, TypeFlags, TypePins
<1>2. CASE WaitForIpmi \/ StartScan
  <2>1. seen' \subseteq Services /\ wpc' \in Wpcs /\ at' \in 1..(NumTemps + NumVolts + 1)
    BY <1>2, SensorAssumption
    DEF WaitForIpmi, StartScan, watch_services, TypeWatch, Wpcs
  <2>2. found' \in [Kinds -> BOOLEAN]
    BY <1>2 DEF WaitForIpmi, StartScan, TypeFlags, Kinds
  <2>3. UNCHANGED <<alive, env, publisher, high, ps, sr>>
    BY <1>2 DEF WaitForIpmi, StartScan
  <2>. QED
    BY <2>1, <2>2, <2>3 DEF TypeWatch, TypeFlags, TypePins, env, publisher
<1>3. CASE unset_ps
  <2>1. high' \subseteq {"psenable", "switch", "alarm"}
    BY <1>3 DEF unset_ps, TypePins
  <2>2. ps' \in Infos
    BY <1>3, FixedRecords DEF unset_ps, TypePins
  <2>3. wpc' \in Wpcs /\ UNCHANGED <<alive, env, seen, at, found, publisher, sr>>
    BY <1>3 DEF unset_ps, Wpcs
  <2>. QED
    BY <2>1, <2>2, <2>3 DEF TypeWatch, TypeFlags, TypePins, env, publisher
<1>4. CASE set_alarm_gpio
  BY <1>4 DEF set_alarm_gpio, TypeWatch, TypeFlags, TypePins, Wpcs, env, publisher
<1>5. ASSUME NEW k \in Kinds, ReadAlarm(k) \/ SkipSensor(k) \/ EndScan(k)
      PROVE  TypeWatch' /\ TypeFlags' /\ TypePins'
  <2>1. UNCHANGED <<publisher, high, ps, sr>>
    BY <1>5 DEF ReadAlarm, SkipSensor, EndScan
  <2>. QED
    BY <1>5, <2>1, ScanType DEF TypePins, publisher
<1>6. CASE Publisher
  BY <1>6, PublisherType
<1>7. CASE HeartbeatDies
  BY <1>7 DEF HeartbeatDies, TypeWatch, TypeFlags, TypePins, env, watcher, publisher
<1>8. ASSUME NEW k \in Kinds, NEW i \in 1..Num(k), AlarmMoves(k, i)
      PROVE  TypeWatch' /\ TypeFlags' /\ TypePins'
  <2>1. i \in 1..(NumTemps + NumVolts)
    BY NumBound
  <2>2. alarm' \in Alarms
    BY <1>8, <2>1 DEF AlarmMoves, TypeWatch, Alarms
  <2>3. everAlarm' \in BOOLEAN
    BY <1>8, Zenon DEF AlarmMoves
  <2>4. UNCHANGED <<faults, alive, svc, seen, watcher, publisher, high, ps, sr>>
    BY <1>8 DEF AlarmMoves
  <2>. QED
    BY <2>2, <2>3, <2>4 DEF TypeWatch, TypeFlags, TypePins, watcher, publisher
<1>9. ASSUME NEW s \in Services, ServiceMoves(s)
      PROVE  TypeWatch' /\ TypeFlags' /\ TypePins'
  <2>1. svc' \subseteq Services /\ published' \in Values
    BY <1>9, FixedRecords DEF ServiceMoves, TypeWatch, TypePins
  <2>. QED
    BY <1>9, <2>1 DEF ServiceMoves, TypeWatch, TypeFlags, TypePins, watcher
<1>. QED
  BY <1>1, <1>2, <1>3, <1>4, <1>5, <1>6, <1>7, <1>8, <1>9, NextCases

\* Whatever calls fail and however many sensors there are, the scan stays within
\* the list of its sensors and the shared records keep their form.
THEOREM AlarmTypeOK == Spec => []TypeOK
  BY InitType, NextType, PTL DEF Spec

-----------------------------------------------------------------------------
(***************************************************************************)
(* The power is taken away for an alarm only.                              *)
(***************************************************************************)
\* An alarm that is up, one that a scan found and one that the watcher acts on
\* are alarms that were up.
Grounded ==
    /\ \A k \in Kinds : alarm[k] # {} => everAlarm
    /\ \A k \in Kinds : found[k] => everAlarm
    /\ wpc = "unset" => everAlarm

\* Every step keeps the two facts.
LEMMA NextGrounded ==
    ASSUME TypeOK, Grounded, PowerCutForAlarm, [Next]_vars
    PROVE  Grounded' /\ PowerCutForAlarm'
<1>. USE DEF Grounded, PowerCutForAlarm, Powered
<1>0. found \in [Kinds -> BOOLEAN] /\ alarm \in [Kinds -> SUBSET (1..(NumTemps + NumVolts))]
  BY DEF TypeOK, Alarms
<1>1. CASE UNCHANGED vars
  BY <1>1 DEF vars, env, watcher
<1>2. CASE WaitForIpmi
  BY <1>2 DEF WaitForIpmi, env
<1>3. CASE StartScan
  BY <1>0, <1>3 DEF StartScan, env
<1>4. CASE unset_ps
  BY <1>4 DEF unset_ps, env
<1>5. CASE set_alarm_gpio
  BY <1>5 DEF set_alarm_gpio, env
<1>6. ASSUME NEW k \in Kinds, ReadAlarm(k)
      PROVE  Grounded' /\ PowerCutForAlarm'
  <2>1. at \in alarm[k] => everAlarm
    OBVIOUS
  <2>2. found' = [found EXCEPT ![k] = at \in alarm[k]]
    BY <1>6 DEF ReadAlarm
  <2>3. \A j \in Kinds : found'[j] => everAlarm
    BY <1>0, <2>1, <2>2
  <2>4. UNCHANGED <<alarm, everAlarm, wpc, high>>
    BY <1>6 DEF ReadAlarm, env
  <2>. QED
    BY <2>3, <2>4
<1>7. ASSUME NEW k \in Kinds, SkipSensor(k)
      PROVE  Grounded' /\ PowerCutForAlarm'
  BY <1>7 DEF SkipSensor, env
<1>8. ASSUME NEW k \in Kinds, EndScan(k)
      PROVE  Grounded' /\ PowerCutForAlarm'
  <2>1. \A j \in Kinds : found'[j] => found[j]
    BY <1>0, <1>8 DEF EndScan, NextScan
  <2>2. wpc' = "unset" => \E j \in Kinds : found[j]
    BY <1>8 DEF EndScan, NextScan
  <2>3. UNCHANGED <<alarm, everAlarm, high>>
    BY <1>8 DEF EndScan, env
  <2>. QED
    BY <2>1, <2>2, <2>3
<1>9. CASE Publisher
  <2>1. UNCHANGED <<env, watcher, high>>
    BY <1>9 DEF Publisher, TakeValues, PublishPs, ClearPs, PublishSr, ClearSr
  <2>. QED
    BY <2>1 DEF env, watcher
<1>10. CASE HeartbeatDies
  BY <1>10 DEF HeartbeatDies, env, watcher
<1>11. ASSUME NEW k \in Kinds, NEW i \in 1..Num(k), AlarmMoves(k, i)
       PROVE  Grounded' /\ PowerCutForAlarm'
  BY <1>11 DEF AlarmMoves, watcher
<1>12. ASSUME NEW s \in Services, ServiceMoves(s)
       PROVE  Grounded' /\ PowerCutForAlarm'
  BY <1>12 DEF ServiceMoves, watcher
<1>. QED
  BY <1>1, <1>2, <1>3, <1>4, <1>5, <1>6, <1>7, <1>8, <1>9, <1>10, <1>11, <1>12, NextCases

\* watch_alarms calls unset_ps only for an alarm that was up, whichever reads of
\* the scan fail, whichever alarms come and go while it runs and for any number
\* of sensors.
THEOREM AlarmPowerCutForAlarm == Spec => []PowerCutForAlarm
<1>1. Init => Grounded /\ PowerCutForAlarm
  BY DEF Init, Grounded, PowerCutForAlarm, Powered, Kinds
<1>2. TypeOK /\ Grounded /\ PowerCutForAlarm /\ [Next]_vars
        => Grounded' /\ PowerCutForAlarm'
  BY NextGrounded
<1>. QED
  BY <1>1, <1>2, AlarmTypeOK, PTL DEF Spec
=============================================================================
