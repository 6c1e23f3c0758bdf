----------------------------- MODULE FanPolicy ------------------------------
(***************************************************************************)
(* Fan control of the chassis manager: the commands Set Fan Policy and     *)
(* Set Fan Level, the timer that starts the fan controller again, the fan  *)
(* controller's loop and systemd, which runs it.                           *)
(*                                                                         *)
(* ipmid handles commands and timers on one thread: a handler runs to its  *)
(* end.  A timer that has expired queues its handler; cancel no longer     *)
(* reaches a queued handler.  StopUnit and StartUnit only enqueue a job;   *)
(* systemd executes it later.                                              *)
(***************************************************************************)
EXTENDS Integers

CONSTANTS
    Trays,      \* tray_site_num values of requests
    Enables,    \* fan_enable_state values
    Timeouts,   \* fan_policy_timeout values, in units of 5 s
    Levels,     \* fan_level values
    Locals,     \* local_control_enable_state values
    Faults,     \* subset of {"call", "reply", "loop", "ipmid", "required"}: what may fail
    MaxCmds,    \* bound: commands in a behaviour
    Loop        \* a pwm computed by the fan controller

MaxTimeout == 240   \* MAX_TIMEOUT_SECONDS: 240 units of 5 s, 20 minutes
StartBurst == 2     \* DefaultStartLimitBurst: starts of a service within 30 s

ASSUME ByteAssumption ==
    /\ Trays \subseteq 0..255 /\ Enables \subseteq 0..255 /\ Timeouts \subseteq 0..255
    /\ Levels \subseteq 0..255 /\ Locals \subseteq 0..255
ASSUME BoundAssumption == MaxCmds \in Nat
ASSUME FaultAssumption == Faults \subseteq {"call", "reply", "loop", "ipmid", "required"}

VARIABLES
    cmds,      \* commands handled so far; a command's number is its rank
    policy,    \* the number of the last accepted Set Fan Policy, 0: none
    timer,     \* the running fanRestartTimer: its command's number, 0: none
    due,       \* expired timers whose handler waits in the event loop
    job,       \* systemd's job for LCR_fan_controller.service
    service,   \* its state; "refused": systemd will not start it by itself
    starts,    \* its starts within the current interval of 30 s
    pwm,       \* Target of pwm1
    givenUp    \* history: the controller was left, or lost, without a restart

vars == <<cmds, policy, timer, due, job, service, starts, pwm, givenUp>>

Cmds == 1..MaxCmds

Init ==
    /\ cmds = 0
    /\ policy = 0
    /\ timer = 0
    /\ due = {}
    /\ job = "none"
    /\ service = "active"
    /\ starts = 1
    /\ pwm = Loop
    /\ givenUp = FALSE
-----------------------------------------------------------------------------
(***************************************************************************)
(* callMethodAndRead of StartUnit or StopUnit in mode "replace".  It is    *)
(* done; or it throws and nothing happened; or it throws because the reply *)
(* is late, although systemd has the job.                                  *)
(***************************************************************************)
Outcomes ==
    {"done"} \cup (IF "call" \in Faults THEN {"refused"} ELSE {})
             \cup (IF "reply" \in Faults THEN {"late"} ELSE {})

Unit(method, outcome) == job' = IF outcome = "refused" THEN job ELSE method

Command == cmds < MaxCmds /\ cmds' = cmds + 1

Acceptable(tray, timeout) == tray = 0 /\ timeout <= MaxTimeout

\* Mutants of Refuse and setFanPolicy: the timer is cancelled before the request
\* is checked; only a request to stop cancels it.
RefuseCancels(short, tray, timeout) ==
    /\ Command
    /\ short \/ ~Acceptable(tray, timeout)
    /\ timer' = 0
    /\ UNCHANGED <<policy, due, job, service, starts, pwm, givenUp>>
setFanPolicyKeepsTimer(tray, enable, timeout, outcome) ==
    /\ Command
    /\ Acceptable(tray, timeout)
    /\ policy' = cmds'
    /\ IF enable = 0
       THEN Unit("stop", outcome) /\ timer' = cmds'
       ELSE Unit("start", outcome) /\ UNCHANGED timer
    /\ givenUp' = (enable = 0 /\ (timeout = 0 \/ outcome # "done"))
    /\ UNCHANGED <<due, service, starts, pwm>>

\* setFanPolicy and setFanLevel check their requests before they act: a request
\* that is too short, names another tray or a timeout above the maximum.
Refuse(short, tray, timeout) ==
    /\ Command
    /\ short \/ ~Acceptable(tray, timeout)
    /\ UNCHANGED <<policy, timer, due, job, service, starts, pwm, givenUp>>

\* setFanPolicy: the running timer is cancelled first.  The controller is
\* stopped, and started again after the timeout, unless the timeout is 0; it
\* is started when the request enables it.
setFanPolicy(tray, enable, timeout, outcome) ==
    /\ Command
    /\ Acceptable(tray, timeout)
    /\ policy' = cmds'
    /\ \/ /\ enable = 0 /\ timeout = 0
          /\ timer' = 0
          /\ givenUp' = TRUE
          /\ UNCHANGED job
       \/ /\ enable = 0 /\ timeout # 0
          /\ Unit("stop", outcome)
          /\ timer' = IF outcome = "done" THEN cmds' ELSE 0
          /\ givenUp' = (outcome # "done")
       \/ /\ enable # 0
          /\ Unit("start", outcome)
          /\ timer' = 0
          /\ givenUp' = (outcome = "refused")
    /\ UNCHANGED <<due, service, starts, pwm>>

\* Mutant of setFanLevel: the level is taken for a percentage.
setFanLevelPercent(level, local, outcome) ==
    /\ Command
    /\ Unit(IF local = 0 THEN "stop" ELSE "start", outcome)
    /\ pwm' = IF local = 0 THEN (level * 255) \div 100 ELSE pwm
    /\ givenUp' = IF outcome = "refused" THEN givenUp ELSE local = 0
    /\ UNCHANGED <<policy, timer, due, service, starts>>

\* setFanLevel: local control off stops the controller and sets the level; the
\* timer of an earlier Set Fan Policy is left alone.  A failing setProperty is
\* swallowed like a failing StopUnit.
setFanLevel(level, local, outcome) ==
    /\ Command
    /\ IF local = 0
       THEN /\ Unit("stop", outcome)
            /\ \/ outcome = "done" /\ pwm' = level
               \/ /\ outcome = "done" => "call" \in Faults
                  /\ UNCHANGED pwm
       ELSE /\ Unit("start", outcome)
            /\ UNCHANGED pwm
    /\ givenUp' = IF outcome = "refused" THEN givenUp ELSE local = 0
    /\ UNCHANGED <<policy, timer, due, service, starts>>

\* The timer expires and its handler is queued.
Expire ==
    /\ timer # 0
    /\ due' = due \cup {timer}
    /\ timer' = 0
    /\ UNCHANGED <<cmds, policy, job, service, starts, pwm, givenUp>>

\* Mutant of RestartHandler: the handler only logs.
RestartHandlerIdle(n, outcome) ==
    /\ n \in due /\ outcome \in Outcomes
    /\ due' = due \ {n}
    /\ givenUp' = (outcome = "refused")
    /\ UNCHANGED <<cmds, policy, timer, job, service, starts, pwm>>

\* The handler of fanRestartTimer with no error code.
RestartHandler(n, outcome) ==
    /\ n \in due
    /\ due' = due \ {n}
    /\ Unit("start", outcome)
    /\ givenUp' = (outcome = "refused")
    /\ UNCHANGED <<cmds, policy, timer, service, starts, pwm>>

\* ipmid ends and is started anew: timers and queued handlers are gone.  Its own
\* start limit may leave it stopped; then no command comes, as none needs to.
IpmidRestarts ==
    /\ "ipmid" \in Faults
    /\ timer' = 0
    /\ due' = {}
    /\ givenUp' = (givenUp \/ timer # 0 \/ due # {})
    /\ UNCHANGED <<cmds, policy, job, service, starts, pwm>>
-----------------------------------------------------------------------------
(***************************************************************************)
(* systemd, which restarts a controller that fails (Restart=always) within *)
(* the start limit, and the controller's loop, which writes the pwm.       *)
(*                                                                         *)
(* Every start of a service that is not active counts, a requested one     *)
(* too.  The start beyond the limit is refused and the service stays       *)
(* failed until somebody asks for a start in a later interval.  The unit   *)
(* Requires= the temperature and the fan sensor services: a refused start  *)
(* of one of them refuses the controller's.                                *)
(***************************************************************************)
StartAttempt ==
    \/ /\ starts < StartBurst
       /\ starts' = starts + 1
       /\ service' = "active"
    \/ /\ starts = StartBurst \/ "required" \in Faults
       /\ service' = "refused"
       /\ UNCHANGED starts

\* systemd executes the job.  A start of an active service does nothing; one of
\* a service that waits for its automatic restart waits with it.
JobDone ==
    /\ job' = "none"
    /\ \/ job = "start" /\ service = "active" /\ UNCHANGED <<service, starts>>
       \/ job = "start" /\ service \in {"inactive", "refused"} /\ StartAttempt
       \/ /\ job = "stop"
          /\ service' = IF service = "refused" THEN "refused" ELSE "inactive"
          /\ UNCHANGED starts
    /\ UNCHANGED <<cmds, policy, timer, due, pwm, givenUp>>

control_loop ==
    /\ service = "active"
    /\ pwm' = Loop
    /\ UNCHANGED <<cmds, policy, timer, due, job, service, starts, givenUp>>

\* setProperty throws in control_loop: nothing catches it.
LoopDies ==
    /\ "loop" \in Faults
    /\ service = "active"
    /\ service' = "failed"
    /\ UNCHANGED <<cmds, policy, timer, due, job, starts, pwm, givenUp>>

\* One second later; a waiting start job is done with it, a stop job prevents it.
AutoRestart ==
    /\ service = "failed"
    /\ job # "stop"
    /\ job' = "none"
    /\ StartAttempt
    /\ UNCHANGED <<cmds, policy, timer, due, pwm, givenUp>>

\* A required service died: its automatic restart restarts the controller too.
RequiredRestarts ==
    /\ "required" \in Faults
    /\ service \in {"active", "failed"}
    /\ job = "none"
    /\ StartAttempt
    /\ UNCHANGED <<cmds, policy, timer, due, job, pwm, givenUp>>

\* The interval of 30 s has passed.
WindowEnds ==
    /\ starts # 0
    /\ starts' = 0
    /\ UNCHANGED <<cmds, policy, timer, due, job, service, pwm, givenUp>>
-----------------------------------------------------------------------------
Ipmid ==
    \/ \E short \in BOOLEAN, tray \in Trays, timeout \in Timeouts :
         Refuse(short, tray, timeout)
    \/ \E tray \in Trays, enable \in Enables, timeout \in Timeouts, o \in Outcomes :
         setFanPolicy(tray, enable, timeout, o)
    \/ \E level \in Levels, local \in Locals, o \in Outcomes :
         setFanLevel(level, local, o)

Handler == \E n \in due, o \in Outcomes : RestartHandler(n, o)

Next ==
    \/ Ipmid \/ Expire \/ Handler \/ IpmidRestarts
    \/ JobDone \/ control_loop \/ LoopDies \/ AutoRestart
    \/ RequiredRestarts \/ WindowEnds

Spec == Init /\ [][Next]_vars

\* Time passes, the event loop runs what is queued and systemd does its jobs: a
\* start attempt is made, within the limit or not.  Nothing is assumed of the
\* commands, nor of the interval's end.
FairSpec ==
    /\ Spec
    /\ WF_vars(Expire) /\ WF_vars(Handler) /\ WF_vars(JobDone) /\ WF_vars(AutoRestart)
-----------------------------------------------------------------------------
(***************************************************************************)
(* Properties.                                                             *)
(***************************************************************************)
TypeOK ==
    /\ cmds \in 0..MaxCmds
    /\ policy \in 0..MaxCmds
    /\ timer \in 0..MaxCmds
    /\ due \subseteq Cmds
    /\ job \in {"none", "start", "stop"}
    /\ service \in {"active", "inactive", "failed", "refused"}
    /\ starts \in 0..StartBurst
    /\ pwm \in Levels \cup {Loop}
    /\ givenUp \in BOOLEAN

\* At any time a stopped controller, or one about to be stopped, is going to be
\* started: a timer runs, its handler is queued or systemd has the job.  The
\* only exceptions: it was left stopped by timeout 0 or manual control, a call
\* to systemd threw, ipmid died with the timer, or systemd refused the start.  A
\* refused command, in particular, leaves the timer running.
StopIsTemporary ==
    ~givenUp /\ (service = "inactive" \/ job = "stop")
        => timer # 0 \/ due # {} \/ job = "start"

\* The running timer is that of the last accepted policy: the timer of an
\* earlier policy never outlives a later one, whatever failed in between.
TimerOfLastPolicy == timer # 0 => timer = policy

\* "timeout exceeds maximum of 1200 seconds (20 minutes)": a controller stopped
\* and not given up gets its start attempt, whatever else happens: it becomes
\* active again, or systemd refuses the start.  (A refused start ends the wait:
\* StartUnit has succeeded, nobody looks at the job and no timer is left.)
LoopResumes ==
    service = "inactive" /\ ~givenUp
        ~> service \in {"active", "refused"} \/ givenUp
=============================================================================
