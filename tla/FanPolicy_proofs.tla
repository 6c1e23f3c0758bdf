-------------------------- MODULE FanPolicy_proofs --------------------------
(***************************************************************************)
(* Proofs about FanPolicy, for every set of requests, every bound on the   *)
(* number of commands and every set of faults.                             *)
(***************************************************************************)
EXTENDS FanPolicy, TLAPS

\* One step of the handlers, of the timer and of systemd, by name.
LEMMA NextCases ==
    ASSUME Next
    PROVE  \/ \E short \in BOOLEAN, tray \in Trays, timeout \in Timeouts :
                Refuse(short, tray, timeout)
           \/ \E tray \in Trays, enable \in Enables, timeout \in Timeouts, o \in Outcomes :
                setFanPolicy(tray, enable, timeout, o)
           \/ \E level \in Levels, local \in Locals, o \in Outcomes :
                setFanLevel(level, local, o)
           \/ \E m \in due, o \in Outcomes : RestartHandler(m, o)
           \/ Expire \/ IpmidRestarts \/ JobDone \/ control_loop \/ LoopDies \/ AutoRestart
           \/ RequiredRestarts \/ WindowEnds
  BY DEF Next, Ipmid, Handler

-----------------------------------------------------------------------------
(***************************************************************************)
(* Types, and at most the last policy's timer.                             *)
(***************************************************************************)
\* A start attempt counts, within the limit, or is refused.
LEMMA AttemptTypes ==
    ASSUME TypeOK, StartAttempt
    PROVE  starts' \in 0..StartBurst /\ service' \in {"active", "refused"}
  BY DEF TypeOK, StartAttempt, StartBurst

\* The initial state has the types and no timer.
LEMMA InitTimer == Init => TypeOK /\ TimerOfLastPolicy
<1>. SUFFICES ASSUME Init PROVE TypeOK /\ TimerOfLastPolicy
  OBVIOUS
<1>1. cmds \in 0..MaxCmds /\ policy \in 0..MaxCmds /\ timer \in 0..MaxCmds /\ timer = 0
  BY BoundAssumption DEF Init
<1>2. /\ due \subseteq Cmds /\ job = "none" /\ service = "active" /\ pwm = Loop
      /\ starts \in 0..StartBurst
  BY DEF Init, StartBurst
<1>3. givenUp \in BOOLEAN
  BY Zenon DEF Init
<1>. QED
  BY <1>1, <1>2, <1>3 DEF TypeOK, TimerOfLastPolicy

\* Every step keeps the types and leaves a timer to the last policy only.
LEMMA NextTimer ==
    ASSUME TypeOK, TimerOfLastPolicy, [Next]_vars
    PROVE  TypeOK' /\ TimerOfLastPolicy'
<1>1. CASE UNCHANGED vars
  BY <1>1 DEF vars, TypeOK, TimerOfLastPolicy
<1>2. ASSUME NEW short \in BOOLEAN, NEW tray \in Trays, NEW timeout \in Timeouts,
             Refuse(short, tray, timeout)
      PROVE  TypeOK' /\ TimerOfLastPolicy'
  BY <1>2, BoundAssumption DEF Refuse, Command, TypeOK, TimerOfLastPolicy
<1>3. ASSUME NEW tray \in Trays, NEW enable \in Enables, NEW timeout \in Timeouts,
             NEW o \in Outcomes, setFanPolicy(tray, enable, timeout, o)
      PROVE  TypeOK' /\ TimerOfLastPolicy'
  <2>1. cmds' \in 0..MaxCmds /\ cmds' # 0
    BY <1>3, BoundAssumption DEF setFanPolicy, Command, TypeOK
  <2>2. timer' \in {0, cmds'} /\ policy' = cmds'
    BY <1>3 DEF setFanPolicy
  <2>3. job' \in {"none", "start", "stop"}
    BY <1>3 DEF setFanPolicy, Unit, TypeOK
  <2>4. UNCHANGED <<due, service, starts, pwm>>
    BY <1>3 DEF setFanPolicy
  <2>5. givenUp' \in BOOLEAN
    BY <1>3 DEF setFanPolicy
  <2>. QED
    BY <2>1, <2>2, <2>3, <2>4, <2>5, BoundAssumption DEF TypeOK, TimerOfLastPolicy
<1>4. ASSUME NEW level \in Levels, NEW local \in Locals, NEW o \in Outcomes,
             setFanLevel(level, local, o)
      PROVE  TypeOK' /\ TimerOfLastPolicy'
  <2>1. cmds' \in 0..MaxCmds
    BY <1>4, BoundAssumption DEF setFanLevel, Command, TypeOK
  <2>2. job' \in {"none", "start", "stop"}
    BY <1>4 DEF setFanLevel, Unit, TypeOK
  <2>3. pwm' \in Levels \cup {Loop}
    BY <1>4 DEF setFanLevel, TypeOK
  <2>4. UNCHANGED <<policy, timer, due, service, starts>>
    BY <1>4 DEF setFanLevel
  <2>5. givenUp' \in BOOLEAN
    BY <1>4 DEF setFanLevel, TypeOK
  <2>. QED
    BY <2>1, <2>2, <2>3, <2>4, <2>5 DEF TypeOK, TimerOfLastPolicy
<1>5. ASSUME NEW m \in due, NEW o \in Outcomes, RestartHandler(m, o)
      PROVE  TypeOK' /\ TimerOfLastPolicy'
  BY <1>5 DEF RestartHandler, Unit, TypeOK, TimerOfLastPolicy
<1>6. CASE Expire
  BY <1>6, BoundAssumption DEF Expire, TypeOK, TimerOfLastPolicy, Cmds
<1>7. CASE IpmidRestarts
  BY <1>7, BoundAssumption DEF IpmidRestarts, TypeOK, TimerOfLastPolicy
<1>8. CASE JobDone
  <2>1. service' \in {"active", "inactive", "refused"} /\ starts' \in 0..StartBurst
    BY <1>8, AttemptTypes DEF JobDone, TypeOK
  <2>2. job' = "none" /\ UNCHANGED <<cmds, policy, timer, due, pwm, givenUp>>
    BY <1>8 DEF JobDone
  <2>. QED
    BY <2>1, <2>2 DEF TypeOK, TimerOfLastPolicy
<1>9. CASE control_loop \/ LoopDies
  BY <1>9 DEF control_loop, LoopDies, TypeOK, TimerOfLastPolicy
<1>10. CASE AutoRestart \/ RequiredRestarts
  <2>1. service' \in {"active", "refused"} /\ starts' \in 0..StartBurst
    BY <1>10, AttemptTypes DEF AutoRestart, RequiredRestarts
  <2>2. job' \in {"none", job} /\ UNCHANGED <<cmds, policy, timer, due, pwm, givenUp>>
    BY <1>10 DEF AutoRestart, RequiredRestarts
  <2>. QED
    BY <2>1, <2>2 DEF TypeOK, TimerOfLastPolicy
<1>11. CASE WindowEnds
  BY <1>11 DEF WindowEnds, StartBurst, TypeOK, TimerOfLastPolicy
<1>. QED
  BY <1>1, <1>2, <1>3, <1>4, <1>5, <1>6, <1>7, <1>8, <1>9, <1>10, <1>11, NextCases

\* The timer, the queue of handlers, systemd's job and the pwm stay what the
\* code makes them.
THEOREM FanTypeOK == Spec => []TypeOK
<1>1. TypeOK /\ TimerOfLastPolicy /\ [Next]_vars => TypeOK' /\ TimerOfLastPolicy'
  BY NextTimer
<1>. QED
  BY InitTimer, <1>1, PTL DEF Spec

\* setFanPolicy cancels the running timer before it starts one: a timer that
\* runs is always that of the last accepted policy.
THEOREM FanTimerOfLastPolicy == Spec => []TimerOfLastPolicy
<1>1. TypeOK /\ TimerOfLastPolicy /\ [Next]_vars => TypeOK' /\ TimerOfLastPolicy'
  BY NextTimer
<1>. QED
  BY InitTimer, <1>1, PTL DEF Spec
-----------------------------------------------------------------------------
(***************************************************************************)
(* A stop is temporary.                                                    *)
(***************************************************************************)
\* Every step leaves a stopped controller that is not given up with a restart
\* to come.
LEMMA NextTemporary ==
    ASSUME TypeOK, StopIsTemporary, [Next]_vars
    PROVE  StopIsTemporary'
<1>1. CASE UNCHANGED vars
  BY <1>1 DEF vars, StopIsTemporary
<1>2. ASSUME NEW short \in BOOLEAN, NEW tray \in Trays, NEW timeout \in Timeouts,
             Refuse(short, tray, timeout)
      PROVE  StopIsTemporary'
  BY <1>2 DEF Refuse, StopIsTemporary
<1>3. ASSUME NEW tray \in Trays, NEW enable \in Enables, NEW timeout \in Timeouts,
             NEW o \in Outcomes, setFanPolicy(tray, enable, timeout, o)
      PROVE  StopIsTemporary'
  <2>1. cmds' # 0
    BY <1>3, BoundAssumption DEF setFanPolicy, Command, TypeOK
  <2>2. CASE enable = 0
    <3>1. ~givenUp' => timer' = cmds'
      BY <1>3, <2>2 DEF setFanPolicy
    <3>. QED
      BY <2>1, <3>1 DEF StopIsTemporary
  <2>3. CASE enable # 0
    <3>1. ~givenUp' => job' = "start"
      BY <1>3, <2>3 DEF setFanPolicy, Unit
    <3>. QED
      BY <3>1 DEF StopIsTemporary
  <2>. QED
    BY <2>2, <2>3
<1>4. ASSUME NEW level \in Levels, NEW local \in Locals, NEW o \in Outcomes,
             setFanLevel(level, local, o)
      PROVE  StopIsTemporary'
  <2>1. CASE o = "refused"
    BY <1>4, <2>1 DEF setFanLevel, Unit, StopIsTemporary
  <2>2. CASE o # "refused"
    <3>1. ~givenUp' => job' = "start"
      BY <1>4, <2>2 DEF setFanLevel, Unit
    <3>. QED
      BY <3>1 DEF StopIsTemporary
  <2>. QED
    BY <2>1, <2>2
<1>5. ASSUME NEW m \in due, NEW o \in Outcomes, RestartHandler(m, o)
      PROVE  StopIsTemporary'
  <2>1. ~givenUp' => job' = "start"
    BY <1>5 DEF RestartHandler, Unit
  <2>. QED
    BY <2>1 DEF StopIsTemporary
<1>6. CASE Expire
  BY <1>6 DEF Expire, StopIsTemporary
<1>7. CASE IpmidRestarts
  BY <1>7 DEF IpmidRestarts, StopIsTemporary
<1>8. CASE JobDone
  <2>1. CASE job = "start"
    BY <1>8, <2>1, AttemptTypes DEF JobDone, StopIsTemporary
  <2>2. CASE job = "stop"
    BY <1>8, <2>2 DEF JobDone, StopIsTemporary
  <2>. QED
    BY <1>8, <2>1, <2>2 DEF JobDone
<1>9. CASE control_loop \/ LoopDies \/ WindowEnds
  BY <1>9 DEF control_loop, LoopDies, WindowEnds, StopIsTemporary
<1>10. CASE AutoRestart \/ RequiredRestarts
  <2>1. service' \in {"active", "refused"} /\ job' = "none"
    BY <1>10, AttemptTypes DEF AutoRestart, RequiredRestarts
  <2>. QED
    BY <2>1 DEF StopIsTemporary
<1>. QED
  BY <1>1, <1>2, <1>3, <1>4, <1>5, <1>6, <1>7, <1>8, <1>9, <1>10, NextCases

\* Whatever commands come in whatever order, whenever timers expire and whichever
\* calls fail: a controller that is stopped, or about to be, has a start to come
\* unless a request or a failure gave it up or systemd refused the start.
THEOREM FanStopIsTemporary == Spec => []StopIsTemporary
<1>1. Init => StopIsTemporary
  BY DEF Init, StopIsTemporary
<1>2. TypeOK /\ StopIsTemporary /\ [Next]_vars => StopIsTemporary'
  BY NextTemporary
<1>. QED
  BY <1>1, <1>2, FanTypeOK, PTL DEF Spec
=============================================================================
