--------------------------- MODULE ChassisManager ---------------------------
(***************************************************************************)
(* The chassis manager inside ipmid: the scan of the I2C bus that fills    *)
(* the device list, the device map and the chassis address table, the      *)
(* commands that look devices up, Set IPMB State, the passthrough to the   *)
(* boards and the poll of their sensors.                                   *)
(*                                                                         *)
(* ipmid runs all of this on one thread and every call to the IPMB bridge  *)
(* blocks it, so a handler is one step.  A dereferenced null pointer, an   *)
(* access to an empty vector and an exception outside a handler end the    *)
(* process; systemd starts it again, within the start limit.               *)
(*                                                                         *)
(* Of a device only what the control flow depends on is kept; the FRU      *)
(* policy and the other bytes that commands store and return are left out. *)
(***************************************************************************)
EXTENDS Integers, FiniteSets

CONSTANTS
    Scan,       \* the I2C addresses of the scan, 0x03..0x77 in the code
    ChmAddr,    \* CHMC_I2C_ADDRESS, 0x20
    Ids,        \* keys of deviceMap: those of the scan and those of requests
    LinkBytes,  \* the bytes of Set IPMB State
    Replies,    \* what a call to the bridge may bring while boards misbehave
    Null,       \* a null pointer in deviceMap
    Absent,     \* no entry
    Dead        \* the outcome of a constructor that ends the process

\* A response with data; a status of the bridge, such as timeout or busy, with
\* completion code 0 and no data; an error of D-Bus or a completion code.
AllReplies == {"data", "empty", "none"}

StartBurst == 2   \* DefaultStartLimitBurst: starts of a service within 30 s

ASSUME ScanAssumption ==
    /\ IsFiniteSet(Scan) /\ Scan \subseteq 3..119 /\ ChmAddr \in Scan
    /\ 0..Cardinality(Scan) \subseteq Ids
    /\ LinkBytes \subseteq 0..255
ASSUME ReplyAssumption == Replies \subseteq AllReplies /\ "data" \in Replies

Device == [addr : Scan, sensors : BOOLEAN, dyn : BOOLEAN]

ASSUME ValueAssumption ==
    Null \notin Device /\ Absent \notin Device \cup {Null} /\ Dead \notin Device

VARIABLES
    proc,      \* ipmid: "enum", "poll" (its first poll), "run"; ended ("down");
               \* failed for good ("gone")
    starts,    \* its starts within the current interval of 30 s
    good,      \* every request to a board is answered with data
    left,      \* addresses the scan has still to visit
    n,         \* the next key of the scan
    i2c,       \* i2cdeviceMap
    dev,       \* deviceMap
    cat,       \* chassis_add_table_entries_count
    aEn, bEn,  \* m_ipmb_a_enable, m_ipmb_b_enable
    last       \* the last request: its target, its result, did a board answer

vars == <<proc, starts, good, left, n, i2c, dev, cat, aEn, bEn, last>>
world == <<starts, good>>
tables == <<left, n, i2c, cat>>
links == <<aEn, bEn>>

Keys == {k \in Ids : dev[k] \in Device}

NoRequest == [to |-> "none", result |-> "none", answered |-> FALSE]

Init ==
    /\ proc = "enum"
    /\ starts = 1
    /\ good \in BOOLEAN
    /\ left = Scan
    /\ n = 1
    /\ i2c = {}
    /\ dev = [k \in Ids |-> Absent]
    /\ cat = 0
    /\ aEn = TRUE
    /\ bEn = TRUE
    /\ last = NoRequest
-----------------------------------------------------------------------------
\* The boards, or the bus, start or stop misbehaving.
BoardsChange ==
    /\ good' = ~good
    /\ UNCHANGED <<proc, starts, tables, dev, links, last>>

BridgeReplies == IF good THEN {"data"} ELSE Replies

(***************************************************************************)
(* The constructor of a device.  dynamic_sensors and device_record_total   *)
(* have no initial value: any value can be found there.                    *)
(***************************************************************************)
\* enumerateFRUSensors, called by discoverFRUs: mandatory sensor numbers, SDR
\* info, SDR repository info, reservation.  A first byte that is not the VSO
\* identifier ends it early.
enumerateFRUSensors(a, d) ==
    \/ /\ d \in Device
       /\ d.addr = a /\ ~d.sensors
    \/ \E mandatory, info, repo, reserve \in BridgeReplies :
        IF "empty" \in {mandatory, info, repo} \/ reserve # "data"
        THEN d = Dead
        ELSE /\ d \in Device
             /\ d.addr = a
             /\ mandatory = "data" => d.sensors

\* VITA4611Device: queryDeviceId, queryVsoCapabilities, discoverFRUs.
VITA4611Device(a, d) ==
    \E id, vso \in BridgeReplies :
        \/ /\ id = "none" \/ vso = "none"
           /\ d \in Device
           /\ d.addr = a /\ ~d.sensors
        \/ id # "none" /\ vso = "empty" /\ d = Dead
        \/ id # "none" /\ vso = "data" /\ enumerateFRUSensors(a, d)

Die == proc' = "down" /\ UNCHANGED <<world, tables, dev, links, last>>

\* A device is entered in the list, in the map and in the address table.
Enter(a, k, d) ==
    /\ i2c' = i2c \cup {a}
    /\ dev' = [dev EXCEPT ![k] = d]
    /\ cat' = cat + 1

\* Mutants of enumerateI2CDevices: the key is not advanced; an address that
\* answers is visited again.
enumerateI2CDevicesSameKey(a) ==
    /\ proc = "enum"
    /\ a \in left /\ \A b \in left : a <= b
    /\ left' = left \ {a}
    /\ \E d \in Device : VITA4611Device(a, d) /\ Enter(a, IF a = ChmAddr THEN 0 ELSE n, d)
    /\ UNCHANGED <<proc, world, n, links, last>>
enumerateI2CDevicesAgain(a) ==
    /\ proc = "enum"
    /\ a \in left /\ \A b \in left : a <= b
    /\ \E d \in Device : VITA4611Device(a, d) /\ Enter(a, IF a = ChmAddr THEN 0 ELSE 1, d)
    /\ n' = n + 1
    /\ UNCHANGED <<proc, world, left, links, last>>

\* One address of enumerateI2CDevices: nobody there; or a device, under key 0
\* if it is the manager itself, else under the next key.
enumerateI2CDevices(a) ==
    /\ proc = "enum"
    /\ a \in left /\ \A b \in left : a <= b
    /\ \/ /\ left' = left \ {a}
          /\ UNCHANGED <<proc, world, n, i2c, dev, cat, links, last>>
       \/ /\ left' = left \ {a}
          /\ \E d \in Device :
               VITA4611Device(a, d) /\ Enter(a, IF a = ChmAddr THEN 0 ELSE n, d)
          /\ n' = IF a = ChmAddr THEN n ELSE n + 1
          /\ UNCHANGED <<proc, world, links, last>>
       \/ VITA4611Device(a, Dead) /\ Die
-----------------------------------------------------------------------------
(***************************************************************************)
(* Sensors: exposeFruSensors at the end of the manager's constructor, and  *)
(* the poll of sensors and SDRs once before ipmid serves requests and then *)
(* every 60 seconds.                                                       *)
(***************************************************************************)
\* getSensorReading reads the first byte of a response that may be empty.
ReadingDies == "empty" \in BridgeReplies /\ \E k \in Keys : dev[k].sensors

\* Mutant of exposeFruSensors: it waits for the manager's own entry.
exposeFruSensorsSelf ==
    /\ proc = "enum" /\ left = {}
    /\ proc' = IF 0 \in Keys THEN "poll" ELSE proc
    /\ UNCHANGED <<world, tables, dev, links, last>>

exposeFruSensors ==
    /\ proc = "enum" /\ left = {}
    /\ \/ proc' = "poll"
       \/ proc' = "down" /\ ReadingDies
    /\ UNCHANGED <<world, tables, dev, links, last>>

\* checkSDRInfo of a device with dynamic sensors: an empty response, or a
\* reservation that fails once the population has changed, ends the process.
CheckDies == BridgeReplies # {"data"} /\ \E k \in Keys : dev[k].dyn

\* pollDeviceSensors and pollSDRs visit every entry of deviceMap.
Poll ==
    /\ proc \in {"poll", "run"}
    /\ \/ /\ Null \notin {dev[k] : k \in Ids}
          /\ proc' = "run"
          /\ \E grown \in SUBSET {k \in Keys : dev[k].dyn} :
               dev' = [k \in Ids |-> IF k \in grown
                                     THEN [dev[k] EXCEPT !.sensors = TRUE] ELSE dev[k]]
       \/ /\ Null \in {dev[k] : k \in Ids} \/ ReadingDies \/ CheckDies
          /\ proc' = "down"
          /\ UNCHANGED dev
    /\ UNCHANGED <<world, tables, links, last>>
-----------------------------------------------------------------------------
(***************************************************************************)
(* execute_passthrough_cmd.  The check of the links comes first; a request *)
(* to 0x40 is for handleChMCommand, any other goes to a board.             *)
(***************************************************************************)
Answer(to, result, answered) ==
    last' = [to |-> to, result |-> result, answered |-> answered]

\* Both links are off.
noChannel(to) ==
    /\ proc = "run"
    /\ ~aEn /\ ~bEn
    /\ Answer(to, "illegal", FALSE)
    /\ UNCHANGED <<proc, world, tables, dev, links>>

Request == proc = "run" /\ (aEn \/ bEn)

\* A request handleChMCommand does not know, that is too short, or that its
\* handler refuses; one that only returns what the manager knows, or stores an
\* identifier.
handleChMCommand(result) ==
    /\ Request
    /\ Answer("chm", result, FALSE)
    /\ UNCHANGED <<proc, world, tables, dev, links>>

\* A null device is inserted under an unknown id; cold and warm reset (0, 1)
\* are sent to a known one, and the answer of the board is ignored.
fruControl(id, byte) ==
    /\ Request
    /\ dev' = IF dev[id] = Absent THEN [dev EXCEPT ![id] = Null] ELSE dev
    /\ Answer("chm", IF byte <= 3 THEN "success" ELSE "illegal", FALSE)
    /\ UNCHANGED <<proc, world, tables, links>>

\* 0xFF leaves a link alone; else the lowest bit switches it.
Switched(byte, en) == IF byte = 255 THEN en ELSE byte % 2 = 1
setIpmbState(a, b) ==
    /\ Request
    /\ aEn' = Switched(a, aEn)
    /\ bEn' = Switched(b, bEn)
    /\ Answer("chm", "success", FALSE)
    /\ UNCHANGED <<proc, world, tables, dev>>

\* setFruStatePolicyBits, getFruStatePolicyBits and getDeviceLocatorRecordId: an
\* empty map is refused; a device that is not there is used all the same.
useDevice(id) ==
    /\ Request
    /\ \/ /\ \A k \in Ids : dev[k] = Absent
          /\ Answer("chm", "illegal", FALSE)
          /\ UNCHANGED <<proc, world, tables, dev, links>>
       \/ /\ id \in Keys
          /\ Answer("chm", "success", FALSE)
          /\ UNCHANGED <<proc, world, tables, dev, links>>
       \/ /\ id \notin Keys /\ \E k \in Ids : dev[k] # Absent
          /\ Die

\* setFruActivation with a directive other than 0 and 1 looks the device up,
\* with a null device for an unknown id, and refuses; else it is useDevice.
setFruActivation(id, directive) ==
    \/ directive <= 1 /\ useDevice(id)
    \/ /\ directive > 1
       /\ Request
       /\ \E k \in Ids : dev[k] # Absent
       /\ dev' = IF dev[id] = Absent THEN [dev EXCEPT ![id] = Null] ELSE dev
       /\ Answer("chm", "illegal", FALSE)
       /\ UNCHANGED <<proc, world, tables, links>>

\* findDeviceByHwAddress, findDeviceByAddress and findDeviceByPhysAddress; the
\* three keys of a device are one number shifted.
Known(a) == \E k \in Keys : dev[k].addr = a

\* getAddTable: a device that is not found is used all the same; a subsidiary
\* FRU's entry is asked for on the bus.  A physical address with a site type
\* (unset) is not looked up: the pointer used has no value, so whatever lies
\* there is returned or ends the process.
getAddTable(a, unset) ==
    /\ Request
    /\ \/ /\ cat = 0
          /\ Answer("chm", "illegal", FALSE)
          /\ UNCHANGED <<proc, world, tables, dev, links>>
       \/ /\ cat # 0 /\ (Known(a) \/ unset)
          /\ Answer("chm", "success", FALSE)
          /\ UNCHANGED <<proc, world, tables, dev, links>>
       \/ cat # 0 /\ (~Known(a) \/ unset) /\ Die
       \/ cat # 0 /\ Known(a) /\ "empty" \in BridgeReplies /\ Die

getFruAddressInfo(a) ==
    /\ Request
    /\ \/ /\ Known(a)
          /\ Answer("chm", "success", FALSE)
          /\ UNCHANGED <<proc, world, tables, dev, links>>
       \/ ~Known(a) /\ Die

\* verify_ipmi_address_is_valid ignores the lowest bit of the address, which
\* findDeviceByAddress compares.
passthrough(a, odd) ==
    /\ Request
    /\ \/ a \notin i2c /\ Answer("board", "illegal", FALSE)
       \/ a \in i2c /\ (odd \/ ~Known(a)) /\ Answer("board", "failed", FALSE)
       \/ /\ a \in i2c /\ ~odd /\ Known(a)
          /\ \E r \in BridgeReplies :
               Answer("board", IF r = "none" THEN "failed" ELSE "success", r = "data")
    /\ UNCHANGED <<proc, world, tables, dev, links>>

\* systemd starts ipmid again, in the same interval of 30 s or in a later one;
\* the start beyond the limit is refused and ipmid stays failed.
Restart ==
    /\ proc = "down"
    /\ \E m \in {0, starts} :
         IF m < StartBurst
         THEN proc' = "enum" /\ starts' = m + 1
         ELSE proc' = "gone" /\ UNCHANGED starts
    /\ UNCHANGED good
    /\ left' = Scan
    /\ n' = 1
    /\ i2c' = {}
    /\ dev' = [k \in Ids |-> Absent]
    /\ cat' = 0
    /\ aEn' = TRUE
    /\ bEn' = TRUE
    /\ last' = NoRequest
-----------------------------------------------------------------------------
Start == (\E a \in Scan : enumerateI2CDevices(a)) \/ exposeFruSensors

Command ==
    \/ \E to \in {"chm", "board"} : noChannel(to)
    \/ \E result \in {"success", "illegal"} : handleChMCommand(result)
    \/ \E id \in Ids, byte \in {0, 4} : fruControl(id, byte)
    \/ \E a, b \in LinkBytes : setIpmbState(a, b)
    \/ \E id \in Ids : useDevice(id)
    \/ \E id \in Ids, directive \in {0, 2} : setFruActivation(id, directive)
    \/ \E a \in Scan, unset \in BOOLEAN : getAddTable(a, unset)
    \/ \E a \in Scan : getFruAddressInfo(a)
    \/ \E a \in Scan \ {ChmAddr}, odd \in BOOLEAN : passthrough(a, odd)

Next == Start \/ Poll \/ Command \/ Restart \/ BoardsChange

Spec == Init /\ [][Next]_vars

\* The scan goes on, the timer of the poll fires and systemd tries to restart
\* ipmid, within the limit or not.  Nothing is assumed of requests and boards.
FairSpec == Spec /\ WF_vars(Start) /\ WF_vars(Poll) /\ WF_vars(Restart)
-----------------------------------------------------------------------------
(***************************************************************************)
(* Properties.                                                             *)
(***************************************************************************)
TypeOK ==
    /\ proc \in {"enum", "poll", "run", "down", "gone"}
    /\ starts \in 1..StartBurst
    /\ good \in BOOLEAN
    /\ left \subseteq Scan
    /\ n \in 1..(Cardinality(Scan) + 1)
    /\ i2c \subseteq Scan
    /\ dev \in [Ids -> Device \cup {Null, Absent}]
    /\ cat \in 0..Cardinality(Scan)
    /\ aEn \in BOOLEAN
    /\ bEn \in BOOLEAN
    /\ last \in [to : {"none", "chm", "board"}, answered : BOOLEAN,
                 result : {"none", "success", "illegal", "failed"}]

\* The device list, the device map and the chassis address table describe the
\* same devices, each under one key and key 0 for the manager itself, whatever
\* the scan found and whatever entries later commands put into the map.
TablesAgree ==
    /\ cat = Cardinality(i2c)
    /\ i2c = {dev[k].addr : k \in Keys}
    /\ \A j, k \in Keys : dev[j].addr = dev[k].addr => j = k
    /\ \A k \in Keys : k = 0 <=> dev[k].addr = ChmAddr

\* Once the boards answer, ipmid serves requests again and again: no request,
\* nothing an earlier request put into the map and nothing found while the boards
\* misbehaved keeps it from coming back, unless systemd refuses to start it.
ManagerComesBack == <>[](good /\ proc # "gone") => []<>(proc = "run")

\* "If the response fails (or timesout ) nullopt is returned": a request passed
\* through is answered with success only if the board answered.
SuccessMeansAnswered == last.to = "board" /\ last.result = "success" => last.answered
=============================================================================
