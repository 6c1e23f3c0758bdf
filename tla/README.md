# NGC Chassis Manager: a TLA+ model

The chassis manager is OpenBMC on a Zynq board that looks after a VITA 46.11
chassis: it powers the chassis up, watches its rails and temperatures, drives
the fans, and talks over two I2C buses (IPMB-A, IPMB-B) to the boards. This
directory holds TLA+ modules for the parts written in this repository, TLC
configurations, and proofs checked by TLAPS.

    tlc -config Ipmb.cfg MCIpmbBridge          # a run
    tlapm IpmbBridge_proofs.tla                # a proof

`PROJECT.json` lists the runs, the source lines behind each definition, the
mutants, the hazards, the findings and the theorems.

## 1. The system

| Part | State | Operations | Talks to |
|---|---|---|---|
| **ipmid with vita4611** (`devtool-mods/vita4611`) | device list `i2cdeviceMap`, device map `deviceMap`, chassis address table, link enables, restart timer of the fans, sensors of every board | I2C scan, handlers of the VITA 46.11 commands, passthrough to boards, poll every 60 s | the bridge (blocking D-Bus call), systemd (StartUnit, StopUnit), D-Bus properties |
| **ipmbbridged** (`devtool-mods/ipmb_directory-mods`) | per channel: 64 outstanding requests, requester's slave address; one sequence counter; command filter | `sendRequest` (encode, write, retry, match the response), requests from boards, broadcast, slave address update | ipmid and other D-Bus clients; the I2C slave devices |
| **MANAGER** (`lcr-MANAGER-app`) | status of six services, the rails' readings, four GPIO records | boot sequence; alarm watcher; GPIO publisher; heartbeat and logs | GPIO lines, ADC files, D-Bus services |
| **Fan controller** (`lcr-fanloop-app`) | temperatures, pwm, PID state | read the temperatures, compute and write pwm | D-Bus; started and stopped by systemd |
| **Sensor services** (`lcr-temperature-app`, `lcr-ADC-app`, `lcr-mandatory-sensors-app`) | readings, thresholds, alarms | read, compare, publish | D-Bus |
| **GPIO monitor and tools** (`lcr-gpiomonitor-app`, `lcr-gpio-app`, `lcr-interface-app`, `lcr-memory-app`) | pin values, threshold files, their copy in flash | publish pins; one-shot commands | D-Bus, files |

What is hard in it:

* **Coroutines and callbacks.** ipmbbridged is one thread with a coroutine per
  call, which interleave at every write and timer; ipmid is one thread with
  timers whose handlers may be queued when they are cancelled.
* **Threads without locks.** MANAGER runs four threads (main, log, watcher,
  gpio) over shared records.
* **Unreliable parties.** Boards are silent or late, writes fail, D-Bus calls
  fail or are answered late, services come and go, GPIO requests and file reads
  throw, processes die. systemd restarts ipmid, ipmbbridged, the fan controller
  and the sensor services, but at most until their start limit is reached
  (two starts within 30 s, `service-restart-policy.conf:28-31`; no unit here
  overrides it); it does not restart MANAGER.
* **Order.** Fans before power, power before reset, power off on alarm.

Correctness, part by part: a call through the bridge returns once, with the
answer to *its* request, and leaves nothing behind; the chassis leaves reset
only with good rails, in order; an alarm takes the power away and nothing else
does; fans that were stopped for a while run again; the manager's tables agree,
its answers are true and it comes back when it dies, all of this as far as
systemd's start limit lets a service come back.

## 2. Plan

1. `IpmbBridge`, `IpmbRpc`, `IpmbBridge_proofs`: the bridge's requests, its
   abstract specification, proofs. *Done.*
2. `FanPolicy`, `FanPolicy_proofs`: fan commands, timer and systemd. *Done.*
3. `BootSequence`, `AlarmWatch` and their proofs: MANAGER. *Done.*
4. `ChassisManager` and its proofs: tables and commands. *Done.*
5. `SensorPopulation` and its proofs: SDR records over a reservation, sections
   and their 8-bit counters, refresh on a change of the population, partial
   failure, the D-Bus interface a refresh drops. *Done.*
6. `IpmbIncoming` and its proofs: requests of boards, command filter, broadcast,
   slave address update. *Done; checksums and frame layout are left out.*
7. `ThermalPath` and its proofs: temperature and ADC services, thresholds and
   the tools that write them, the fan controller's level, the health sensor.
   *Done.*
8. Composition of ChassisManager with IpmbBridge: one blocked caller, timeouts
   that look like success, the address that sticks to a channel. *Left:
   ChassisManager has the outcomes of a bridge call as alternatives, which
   IpmbRpc bounds from the other side.*

## 3. Modules and the code

Each component module holds its state, one action per handler or step, its
properties and the mutants of its definitions (operators whose comment says
"Mutant"). `MC*` modules extend a component for TLC; constants are in the
`.cfg` files. `*_proofs` modules hold the theorems.

### IpmbBridge (`ipmbbridged.cpp`)

An action is the run of a coroutine between two suspension points.
`ipmbHandleRequest` runs to the first write: it sets the channel's address
unless the caller names 0x40, draws a sequence number (`seqNumGet`), enters the
request, and either starts to write or fails at once. `WriteDone`,
`WriteFailed`, `TimerDone` and `TimerError` are the continuations of
`requestAdd`; `ResponseReceived` is `processI2cEvent` for a response, with
`responseMatch`. `UnknownChannel` is the same handler when `getChannel` returns
null, which ends the process; `Restart` is systemd's. A response frame carries
two fields that are not on the wire, the call and the transmission it answers:
they exist so that `AnswersOwnCall` can be said. (netFn, LUN, cmd) is one model
value; the payload is reduced to whether it fits. Loss is a frame that is never
received; duplication comes from retries, each of which may be answered.

The branch for a missing timer (`ipmbHandleRequest`, line 942) is left out: the
constructor of `IpmbRequest` always makes one.

### IpmbRpc

What a client may rely on: a call takes a number that is free on its channel,
or is refused; while it is pending, the number is its own; it finishes once,
with an answer that came in on that channel under that number, and gives the
number back. Retries, writes, timers, addresses and frames are hidden. `Spoil`
(a refused call that keeps its number) and `Die` (the service dies, every
pending call fails) are part of it because they are part of the code. The
refinement mapping (`Phase`, `Lease`, `Answers`) is at the end of IpmbBridge.

### BootSequence, AlarmWatch (`MANAGER.cpp`, `main.cpp`)

`main`'s five loops are the stages of `BootSequence`; `update_readings` is split
at every access to an `ADC_element`, because the log thread runs it too. A
reading is "in range" or not. The history variable `okRails` holds the rails
that were in range at some time in main's present pass; `mixed` says whether a
heartbeat read the rails during that pass.

`AlarmWatch` starts where the boot ends. The watcher's scan is split at every
D-Bus call; the gpio thread at the places where it takes a value, publishes it
and clears the flag. A read that fails skips a sensor, and one that fails after
the alarm was read lets the next sensor overwrite the flag, as in the code.
Alarms and services change at any time. `faults` is chosen at the start and
says whether calls may fail in this behaviour: the liveness properties speak of
the behaviours without failing calls, the invariants of all. The order of
watch_services' six assignments and the log lines are left out.

The heartbeat reads files every fourth minute; in `AlarmWatch` only its way to
end the process matters.

### FanPolicy (`vita4611cm.cpp`, `fan_manipulation.cpp`)

`setFanPolicy` and `setFanLevel` run to their end; `Expire` moves a timer's
handler to the event loop's queue, where `cancel` does not reach it;
`RestartHandler` runs it. StopUnit and StartUnit enqueue a job (`JobDone`
carries it out), are refused, or are carried out with the reply too late.
`MaxTimeout` is the code's constant, in units of five seconds. The value 0xFF,
which the code mentions as "indefinitely", is above the maximum and refused.
The history variable `givenUp` records the events after which nobody owes the
controller a restart: timeout 0, manual control, a call to systemd that threw
where the restart depended on it, or the end of ipmid with a timer in it. A
start that systemd accepted, or a stop with its timer, clears it.

Starts are counted (`starts`; `WindowEnds` is the end of the interval of 30 s).
A start attempt (`StartAttempt`) of a job, of an automatic restart
(`AutoRestart`) or of a restart together with a required service
(`RequiredRestarts`) is refused beyond the limit, and the controller is then
"refused" until somebody asks for a start in a later interval. StartUnit has
answered by then, so ipmid does not learn of it.

### ChassisManager (`vita4611cm.cpp`, `vita4611.cpp`)

A handler is one step, because ipmid has one thread and its calls to the bridge
block. A bridge call brings data, an empty answer with completion code 0 (any
status of the bridge), or nothing. What the code does with an empty answer is
undefined behaviour or an exception in most places: it ends the process (`Die`)
in the constructor and in the poll. `good` says whether the boards answer every
request with data at present; it changes at any time (`BoardsChange`). A process
that ended is "down"; `Restart` starts it again, in the same interval of 30 s or
in a later one, and beyond the start limit it is "gone". The scan visits one
address per step. Kept of a device: address, whether it has sensors, whether its
sensors are dynamic; the last has no initial value in the code and is chosen
freely. Payloads and the bytes that the policy commands store are left out.

### SensorPopulation (`vita4611cm.cpp`, class `VITA4611Device`)

One board. The manager blocks in every request, the board does not, so an action
is what happens from one request to the next: `enumerateFRUSensors`,
`reserveSDRRepo`, `getSDRHeader`, `getSDRVals` (one section), `storeSdr` (the
handlers of full and compact records), `exposeFruSensors` and the poll
(`pollDeviceSensors`, `checkSDRInfo`, `pollIdle`). A record's contents are the
number of the change that wrote it, or `Torn` if the sections that were put
together belong to different versions or one is missing. Every request brings
data, an empty answer or none until `BusRecovers`; what the code does with an
empty answer (an index beyond its end, an exception that nobody catches) ends
ipmid, which systemd may restart. A change of the population alters, adds or
removes a record. `recordTotal` is read in the constructor only, so a record that
is added later is never asked for and one that is removed is still asked for;
`Known` is what the properties can speak of. `recordTotal`, `dyn` and the retry counter have
no initial value in the code and are chosen freely. The history variable
`lossy` says that the last reading of the records missed one or a part.

### IpmbIncoming (`ipmbbridged.cpp`)

The other half of the daemon. `WaitCompletes` moves an armed wait's handler to
the event loop's queue, which closing the descriptor does not reach;
`processI2cEvent` reads one frame, drops it, refuses it by the filter, or calls
ipmid; `Ipmid` is the end of that call, with the filter's new entry;
`ipmbSendI2cFrame` writes the answer with its retries; `sendBroadcast` and
`writeBroadcast` are the broadcast. `ipmbChannelUpdateSlaveAddress` closes the
descriptor, deletes the device, creates another and opens it, and may fail after
each of these. The kernel's device survives a restart of the daemon. The filter's
key is (netFn, cmd); the defining body of a group command is not in it.

### ThermalPath (temperature, ADC, fan controller, health, tools)

Four processes that meet on D-Bus and in `thresholds.json`. The temperature
service answers D-Bus at one point of its loop (`tat = "serve"`); a process that
ends takes its objects with it. `set_threshold`, `openOutput` and `dumpJson` are
the steps of the threshold tool, `run_save_vars`, `run_read_vars` and
`copyLines` those of the flash tool, and `toolKilled` stops either anywhere. A
file that is truncated or not JSON is `Torn`; the services that read it end.
`initialize_temps`, `get_temp_thresholds`, `read_temperatures` (one path) and
`control_loop` are the fan controller; its duty cycle is "least", "some" or
"full", and the power function between them is left out. The history variable
`hot` holds the sensors that were above the controller's limit on D-Bus all
through the present pass.

`Temp_Sensor`, `ADC_sensor` and `initialize_temps` are start attempts. One that
meets a torn file, or no path, ends at once, and any but a service's first may be
refused, which leaves the service failed for good ("limit"), whatever becomes of
the file. The starts are not counted: times and other reasons to die are left
open, which allows more refusals than the limit does and never fewer. The fan
controller and the mandatory sensors service require the temperature service: a
start of it restarts the controller, a refused one is the end of both.
`alarm_check` scans every voltage path; where a board has some, a failing call may
end the scan before the ADC's, so its answer is free then.

## 4. Runs

| Run | Shows |
|---|---|
| `bridge` | `LiveOwnsSlot`, `SlotsAccounted`, `ResponseFits`, `BusyOnlyWhenFull` (a call is refused only if its own channel has no free number), `TypeOK` with two channels and one counter, oversize requests and a channel that does not exist; `EveryCallReturns` with failing writes and restarts; the bridge implements `IpmbRpc` (`RpcSpec`) |
| `bridge_reuse` | `AnswersOwnCall` across the wrap of the numbers |
| `boot` | `VoltageGate`, `PowerSequence`, `BootCompletes`, `TypeOK` with heartbeats at any time and failing reads |
| `alarm` | `PowerCutForAlarm`, `TypeOK` with every fault; `AlarmCutsPower` and `ReleaseIsPublished` (the value of the reset line gets to D-Bus and stays there) where no call fails |
| `fan` | `TimerOfLastPolicy`, `StopIsTemporary`, `LoopResumes`, `TypeOK` with every request and fault; a start attempt beyond the start limit is refused |
| `manager` | `TablesAgree`, `ManagerComesBack`, `TypeOK` with every answer and request; once the boards answer, the manager serves unless systemd has given it up |
| `population` | `SectionsTile`, `OneRecordPerSensor`, `CachedMeansCurrent`, `CompactStays`, `ChangeIsRead`, `TypeOK` with a record altered, added or removed during a reading |
| `thermal` | `HotDecidesPass`, `HotIsAlarmed`, `LimitReachesAll`, `HotFansFull`, `HealthFollowsRail`, `TypeOK` with services that end or are refused a start, and tools that are interrupted |
| `incoming` | `NeverDeaf`, `FailedUpdateRepeats`, `WrongRefusalHasCause`, `RequestsEnd`, `TypeOK` with updates that fail half way and a restart |

Runs in which the code and its own words disagree (details and quotations in
`PROJECT.json`, "findings"):

| Run | The code |
|---|---|
| `boot_heartbeat_race` | may release the reset on another thread's reading |
| `manager_timeout` | reports a timeout of the bridge as success |
| `population_published` | takes a published sensor off D-Bus for good when it reads a full record again |

Other places where the code and its words part, met while modelling and kept in
the models as the code has them, without a run of their own:

* `ipmbbridged.cpp:739`: a request that does not fit a frame keeps its entry
  among the outstanding requests (`SlotsAccounted` says that nothing else does).
* `ipmbbridged.cpp:901`: the channel is used before line 916 tests it, so a
  channel that does not exist ends the daemon instead of "invalid_param".
* `main.cpp:26`: the boot waits for the fan controller only; `MANAGER.cpp:298`
  says "services are active".
* `MANAGER.cpp:748`: the power is cut in one attempt whose result is ignored;
  line 750 then logs that the alarm is set.
* `MANAGER.cpp:392`: `set_alarm_gpio` drives the switch's line.
* `vita4611cm.cpp:2141`: a policy with timeout 0 cancels the restart of an
  earlier one and leaves the controller stopped.
* `vita4611cm.cpp:1701` and `:1915`: an unknown FRU id inserts a null device
  into a map that `vita4611cm.hpp:498` describes as the devices on the bus.
* `vita4611cm.cpp:2538`: with both links off the manager refuses its own
  commands, the one that would enable them included.
* `vita4611cm.cpp:2158`: the branch for 0xFF cannot be reached.
* `MANAGER.cpp:496`: `unset_ps` clears the flag that would publish the supply's
  new state; `main.cpp:40` says "Publish value of sysreset and ps enable when it
  is active".
* `vita4611cm.cpp:2141`: `cancel` does not reach the handler of a timer that has
  expired and is queued; it still starts the controller under the new policy.
* `vita4611cm.cpp:2077`: the fan level is written while the StopUnit job is
  queued; the controller's last loop may write its own over it.
* `ipmbbridged.cpp:494`: the filter's key leaves out the defining body, so one
  group's refused command is refused for every group.
* `ipmbbridged.cpp:627`: an update of the slave address always deletes the device
  0x1010; a second update, one after a restart of the daemon, and one on a board
  whose device tree (`system-user.dtsi:136`) has made the device at another
  address leave the old device in place.
* `mandatorySensors.cpp:52`: the answers for temperatures, tachometers and
  voltages are assigned to one variable in turn; the health sensor shows the
  voltages only.
* `memory.cpp:11`: `lines_to_read` is not initialised; what is read back from the
  flash may not be JSON. Each start of the temperature and ADC services then ends
  at once, and after two starts within 30 s (`service-restart-policy.conf:28-31`)
  systemd leaves them failed even if the file is repaired; with the temperature
  service go the fan controller and the mandatory sensors service.
* `vita4611cm.cpp:712`: the number of records is read in the constructor only. A
  change of the population that adds a record does not get it read, although
  `vita4611cm.cpp:1139` says "retrieve all SDRs again".
* `mandatorySensors.cpp:15`: a call that fails ends the scan for alarms; the paths
  behind it are not asked, and their alarms do not show.
* `fan_manipulation.cpp:196`: a sensor above its limit and below the setpoint
  gets the least level.
* `vita4611cm.cpp:2174`: the restart at the end of the timeout is a StartUnit whose
  job is not looked at; if the start limit refuses it the fans stay uncontrolled.
* `tmp_manipulation.cpp:107`: one hwmon file that cannot be opened leaves the
  sensors behind it with their last readings.
* `lcr_interface.cpp:294`: the tool sets one sensor's limit on D-Bus; the file
  has one limit for all, which all sensors have a round later. The fan
  controller reads the limit and the list of sensors once, when it starts.

### Bounds

* **Bridge.** 64 numbers become 2 on each of two channels (`bridge`) or 3 on one
  (`bridge_reuse`), six tries 2, two write attempts 2 or 1: tables fill, the
  search for a number starts at either, counters wrap and the last try happens
  within 3 or 4 calls, two at a time; oversize requests, which keep their
  numbers, fill one channel's table while the other has room (ipmid makes one
  call at a time; the second stands for another D-Bus client).
  `MaxLag` bounds how many further calls are made while an answer is late. With
  3 numbers the bound in `bridge_reuse` is 2 and tight: with 3, a late answer
  meets its number's next owner and `AnswersOwnCall` fails. With the code's 64
  numbers the same happens after as many calls as there are free numbers, so
  the property says how long an answer may be late, not that it never matters.
  `bridge_reuse` takes payloads that fit, since the others leave their entries
  behind. What the small instances leave open the proofs settle for every size;
  `BridgeAnswersOwnCall` gives the bound on lateness in general.
* **Boot.** 2 rails of 6: a rail before and one after the one that is out of
  range, in each thread. Two services: the one that is waited for and one that
  is not.
* **Alarms.** Two temperature sensors and one voltage: an alarm before and
  after another sensor, and in the second scan.
* **Fans.** 7 commands; timeouts 0, ten units, the maximum and one above it; the
  start limit is the code's, 2 starts in an interval that ends at any time.
* **Manager.** Four addresses of the scan with the manager's own among them,
  below and above others; all keys a scan can give and one that it cannot; the
  link bytes "off", "on" and "leave alone".
* **Population.** A full and a compact record, a sensor without a record, two
  FRUs whose mandatory sensors overlap, one change of the population, which
  alters, adds or removes a record. Sections
  of 22 bytes, headers of 5 and counters modulo 256 become 2, 1 and 8; lengths 2
  and 3 give a last section of no bytes and one that is not full. The theorem
  has the code's numbers among its instances.
* **Thermal path.** Two sensors, so that one fails before and one after another;
  limits of 10 and 60 with a setpoint of 30, so that a temperature of 20 is above a
  limit and below the setpoint, and one of 70 above everything; two moves of the
  hardware and one command of the operator, at any time.
* **Incoming.** One channel, since channels share the filter only; two frames (one
  that makes the filter's entry and one that meets it), two updates, one
  restart, one retry of a write.

Deadlock is checked except in the bridge's runs, where callers may stop
calling, and in `thermal`, where every service may be failed for good.

### Fairness

No run assumes that systemd restarts a service without limit. Where fairness
covers systemd, it is a start *attempt* that is made, and the model refuses it when
the limit of `service-restart-policy.conf` is, or may be, reached; the properties
say what holds unless it was refused.

* Bridge: writes complete (well or not) and timers expire. No fairness for
  callers, responses, timer errors or restarts of the daemon.
* Boot: both threads are scheduled, sleeps end, and neither a GPIO operation nor
  the D-Bus question for the fan controller fails for ever. The switch, rails
  and services are free; `BootCompletes` assumes that they are good for good
  from some time on, and that no read ends the process.
* Alarms: both threads are scheduled. `AlarmCutsPower` assumes an alarm that
  stays up, an IPMI service that stays up and no failing calls.
* Fans: timers expire, the event loop runs what is queued, systemd does its
  jobs and attempts its restarts. No fairness for commands, for the controller's
  loop or for the end of the interval of 30 s.
* Manager: the scan goes on, the poll's timer fires, systemd attempts to restart
  ipmid. No fairness for requests or for the boards. `ManagerComesBack` assumes
  that the boards answer from some time on and that systemd has not given ipmid
  up: without the first, empty answers keep it from serving for ever; without the
  second, two starts within 30 s are the end of it.
* Population: the bridge answers (well or not) and the poll's timer fires.
  Nothing is assumed of restarts; `ChangeIsRead` is about an ipmid that lives
  and a bus that is good from then on.
* Thermal path: the four services loop, and a start of one that ended is
  attempted. No fairness for tools or hardware; every property says which file and
  which sensors must be readable, and which services must not have been refused.
* Incoming: the event loop runs completed waits and writes, and a D-Bus call that
  is not answered fails by its timeout. No fairness for boards and updates.

## 5. Proofs

All theorems hold for every value of the constants under the named assumptions
of the modules (sizes are positive naturals, special values are distinct).

**IpmbBridge_proofs.** `BridgeInvariant`: Spec => []IInv, where IInv is TypeOK,
CallsInOrder, LiveOwnsSlot, SlotsAccounted and ResponseFits. LiveOwnsSlot alone
is not inductive. When a call ends, its entry is cleared; that this frees
nobody else's needs both that the entry is its own and that every entry lies
under its request's own number (SlotsAccounted); a new call's number is free
because seqNumGet found it so; that the caller's request record is fresh needs
CallsInOrder. ResponseFits needs SlotsAccounted, since responseMatch reaches a
request through the table, possibly one that has returned long ago.
BusyOnlyWhenFull, which is about the caller's own channel, rests on a lemma
about seqNumGet: if every residue
counter+1..counter+N is taken, so is every number (N successive numbers modulo N
are all of them). BridgeImplementsRpc shows that each action maps to one of
Accept, Refuse, Spoil, Finish, Die, Fail or to a stutter, using IInv.

`BridgeAnswersOwnCall` says how late an answer may be. Its hypothesis
AnswersInTime asks that payloads fit and that no call ends the daemon, and that
(MaxLag - 1) * MaxClients < NumSeq: with the code's 64 numbers and ipmid as the
only client, an answer may be late by 63 further calls. Each part is needed. An
oversize payload leaves its entry in the table, where a late frame of an earlier
call with that number finds it, and the numbers to go round become fewer; a
daemon that starts again counts from 0 while frames for the old one wait in the
kernel; and the bound is met exactly in `bridge_reuse`, where one call more
breaks the property. The hypothesis holds in that run. The argument is ReuseInv:
every entry is a call in progress (TableLive), so at most MaxClients numbers are
taken and one call moves the counter by at most MaxClients; hence the counter is
at most (issued - q) * MaxClients past the number of call q (Spread), a number
whose answer may still come is not drawn again (Unshared), and a frame on the bus
and one stored in a request belong to the call they are taken for (FramesTrue,
MatchedOwn).

`BridgeRetriesEnd` is the part of `EveryCallReturns` that is not about fairness:
StepsLeft counts the transmissions a call has left, each with its writes and a
wait, 18 with the code's constants; every step of a call decreases it and nothing
else, a late response or another call's clean-up included, increases it.

**BootSequence_proofs.** `BootPowerSequence` for every interleaving with the
heartbeat, from the invariant Ordered (each stage implies what earlier stages
did). `BootVoltageGate` needs Gated: as long as no heartbeat has run into main's
pass, the log thread is idle, the rails main has passed are in okRails, and what
main holds in its local variable, in raw and in current for the present rail is
backed by okRails. A heartbeat's steps keep it because its first step in a pass
of main marks the pass mixed and later ones never find main in an unmixed pass.
Without `~mixed` the statement is false (`boot_heartbeat_race`).

**FanPolicy_proofs.** `FanTimerOfLastPolicy` and `FanStopIsTemporary` for all
requests and faults; both are inductive together with TypeOK. The second holds
across `setFanPolicy`, which cancels the timer first, because each of its three
branches either arms a new timer, has a start accepted, or gives the controller
up; and across `RestartHandler` because the start replaces a stop that is still
queued. A refused start leaves the controller "refused", which is no longer a
temporary stop: what the theorem excludes is a controller that is stopped and
forgotten before any start was attempted.

**AlarmWatch_proofs.** `AlarmPowerCutForAlarm` for any number of sensors, from
Grounded: an alarm that is up, a flag of the scan and the watcher's place before
unset_ps each imply that there was an alarm. The flag alone would not do: it is
overwritten by the next sensor and kept over failing reads.

**ChassisManager_proofs.** `ManagerTablesAgree` for any set of addresses, from
Scanned: no address is both found and still to be scanned, the next key is the
number of boards found plus one, and every key in use is below it. That a new
board's entry meets no old one needs the last two, hence the facts about
cardinality.

**SensorPopulation_proofs.** `PopulationSectionsTile` for every length, section,
header and counter width for which a section's start fits the counter, as with
the code's 22, 5 and 256: Tiled says that while sections are asked for, those
asked for are whole and the two counters are their sum. `PopulationOneRecord`
for every list of mandatory sensors: getSensorRecord finds the first element
with a number (a least natural, by well-foundedness), so a record is never
stored in a later one.

`PopulationCachedMeansCurrent` needs more than what a reading has stored. Control
says that no indicator the manager has seen is newer than the board's, that the
loop is at a record the manager knows of, and that the constructor caches none;
Data says that while a reading for the board's present indicator goes on without
loss, the records before the loop's are held and the sections read of the loop's
are of its present version. A change of the board raises its indicator, so Data
then claims nothing about the reading under way, and checkSDRInfo will cache an
older indicator than the board's. `PopulationCompactStays` needs Unpublished:
nothing is on D-Bus before the constructor is over, so exposeFruSensors, which
decides for every sensor anew, takes nothing away. `PopulationReadingEnds` gives
the variant RequestsLeft: the header, at most Byte sections and the storing of
every record left, whatever lengths the board reports and whatever fails.

**IpmbIncoming_proofs.** `IncomingNeverDeaf` and `IncomingFailedUpdateRepeats`
are inductive with the types; `IncomingWrongRefusal` needs Refusals, that the
filter holds only keys which ipmid refused since the start and that a C1 on its
way out has such a key. `IncomingQueueExact` is about the kernel's queues: a
frame that waits is in its own channel's queue, once and in the order of arrival,
and a queue holds nothing else. That a new frame goes behind all others needs
UnsentLast, that frames are numbered as they are sent. With it, `IncomingInOrder`
(no frame overtakes another of its channel, queued handlers of an earlier
descriptor notwithstanding) and `IncomingFramesEnd`, whose variant FrameLeft
counts the reading, ipmid's answer and the NumRetries + 2 writes: every step
that touches a frame decreases it, restarts and address updates included.

**ThermalPath_proofs.** `ThermalHotDecidesPass` for any number of sensors, from
Counted (a sensor that was hot all through the pass is hot now, and has still to
be asked or is in tempHigh) and Stages (which paths are left at each place of
the controller; without it a pass could end with paths not asked). Starts of the
temperature service, which end the controller's pass, keep both, since a
controller that is down has an empty list.

The assumptions are the named ones of the modules: sizes are naturals, bounds
positive, special values distinct from ordinary ones.

Every invariant and action property of a passing run is proved. Only
model-checked are the properties under fairness, which is out of the prover's
reach: `EveryCallReturns`, `BootCompletes`, `AlarmCutsPower`,
`ReleaseIsPublished`, `LoopResumes`, `ManagerComesBack`, `ChangeIsRead`,
`HotIsAlarmed`, `LimitReachesAll`, `HotFansFull`, `HealthFollowsRail` and
`RequestsEnd`. For `EveryCallReturns`, `ChangeIsRead` and `RequestsEnd` the
variants above are proved, so that what TLC adds on its small instance is that
fairness makes the steps happen. The formulas of the theorems that no run checks
(QueueExact, OrderStep, FrameStep, RetryStep, ReadingStep) are defined in the
proof modules.

## 6. Not modelled

* The worker queue of the chassis manager (`submit`, `processLoop`,
  `sendShutdown`) has a stub for a handler and no caller in this tree.
* `convert_sensor_reading` and the PID mode of the fan controller (the
  configuration has `linear` true) are floating-point arithmetic.
* Checksums and the layout of frames: what the models keep is whether a frame is
  valid, fits, and which fields are compared.
* The lower alarms of the temperature service mirror the upper ones.
* Log files, the GPIO monitor apart from its start, and the one-shot GPIO tool
  are I/O without a protocol.
* `devtool-mods/host-mods/vita4611` is an earlier copy of the chassis manager.
* The vendored and generated code is not this program's own logic, and it is most
  of the tree by far: poky, meta-openembedded, meta-phosphor, the ipmitool fork,
  bmcweb, entity-manager, dbus-sensors, phosphor-fan, phosphor-ipmi-net, the
  generated `elog-errors.hpp` and the `ps7_init` files of the FPGA tools. What
  the modelled code needs of them (D-Bus calls, systemd's jobs and restarts,
  ipmid's event loop) is in the models. The mapped lines are therefore a small
  share of the repository and a large one of the programs in `devtool-mods` and
  `meta-lcr/recipes-app` that were written for it.
