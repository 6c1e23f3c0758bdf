-------------------------- MODULE SensorPopulation --------------------------
(***************************************************************************)
(* The sensors of one board in the chassis manager (class VITA4611Device): *)
(* the constructor lists the mandatory sensors and reads the board's SDRs, *)
(* exposeFruSensors puts sensors on D-Bus, and every poll asks a board     *)
(* with a dynamic sensor population for its change indicator and reads the *)
(* SDRs again when the indicator is not the cached one.                    *)
(*                                                                         *)
(* ipmid blocks in every request to the board, but the board goes on: it   *)
(* may change its population between any two requests.  Hence one action   *)
(* per request.  A request brings data, a status of the bridge with no     *)
(* data ("empty"), or an error or completion code ("none").  Indexing an   *)
(* empty response and an exception that nobody catches end the process.    *)
(*                                                                         *)
(* Record i of the board describes sensor i.  The contents of a record are *)
(* abstracted to the number of the change that wrote it.                   *)
(***************************************************************************)
EXTENDS Integers, Sequences, FiniteSets

CONSTANTS
    Full, Compact,  \* records of type 1 and 2; other records are ignored
    NumRecords,     \* bound: records of the board, now or later
    Others,         \* sensors that have no record
    Mandatory,      \* sequence: Get Mandatory Sensor Numbers of every FRU
    Exposed,        \* sensors in degrees C, Volts, Amps or Watts
    NumFrus,        \* MaxFRUDeviceID of the board's VSO capabilities
    Dynamic,        \* the board has a dynamic sensor population
    Lengths,        \* lengths of records
    Section,        \* bytes asked for at once, 0x16 in the code
    Header,         \* length of a record's header, 5 in the code
    Byte,           \* 2^8: total and sectiontotal are uint8_t
    Retries,        \* what the uninitialised retryCount may hold
    MaxChanges,     \* bound: changes of the population
    Torn,           \* contents that mix versions of a record or miss a part
    None            \* no indicator cached, no SDR read

Records == 1..NumRecords
Nums == Records \cup Others
Changes == 0..MaxChanges
Versions == Changes \cup {Torn, None}

ASSUME RecordAssumption ==
    /\ NumRecords \in Nat /\ Full \cup Compact \subseteq Records /\ Full \cap Compact = {}
    /\ Mandatory \in Seq(Nums) /\ Exposed \subseteq Nums
    /\ NumFrus \in Nat /\ MaxChanges \in Nat /\ Retries \subseteq Int
    /\ Dynamic \in BOOLEAN
    /\ None \notin Changes \cup {Torn} /\ Torn \notin Changes
\* Every section of a record starts below 2^8: with the code's numbers, 5 + 22 * 11
\* is the last start in a record of 255 bytes.
ASSUME LengthAssumption ==
    /\ Byte \in Nat \ {0} /\ Section \in Nat \ {0} /\ Header \in 0..(Byte - 1)
    /\ Lengths \subseteq 0..(Byte - 1)
    /\ \A l \in Lengths : \A m \in 0..l : Section * m <= l => Header + Section * m < Byte

\* An element of fruinfo.sensors: its number, the version of the SDR it was
\* filled from, and whether it has a D-Bus interface.
Sensor == [num : Nums, ver : Versions, iface : BOOLEAN]

VARIABLES
    ind, ver, count,  \* the board: change indicator, its records, how many
    bus,              \* "bad" while requests may fail, then "good"
    at,               \* where the manager is
    fru,              \* discoverFRUs: the FRU being enumerated
    sensors,          \* fruinfo.sensors
    recordTotal,      \* device_record_total
    dyn,              \* dynamic_sensors = 1
    cache,            \* sensorPopulationChangeIndicatorCache
    seen,             \* the indicator checkSDRInfo compares; None in the constructor
    i, retryCount,    \* getAllSDRs
    length, total, sectiontotal, parts,  \* getSDRVals: what it asked for and got
    lossy             \* history: the last getAllSDRs missed a record or a part

board == <<ind, ver, count, bus>>
reader == <<length, total, sectiontotal, parts>>
loop == <<i, retryCount>>
device == <<fru, sensors, recordTotal, dyn, cache, seen>>
vars == <<board, at, device, loop, reader, lossy>>

\* What a request may bring.
Replies == IF bus = "good" THEN {"data"} ELSE {"data", "empty", "none"}

\* The device before its constructor; the fields without an initialiser,
\* recordTotal and dyn, hold whatever the memory held.
Init ==
    /\ ind = 0
    /\ ver = [r \in Records |-> 0]
    /\ count \in 0..NumRecords
    /\ bus = "bad"
    /\ at = "enumerate"
    /\ fru = 0
    /\ sensors = <<>>
    /\ recordTotal \in 0..NumRecords
    /\ dyn \in BOOLEAN
    /\ cache = None
    /\ seen = None
    /\ i = 1
    /\ retryCount = 0
    /\ length = 0 /\ total = 0 /\ sectiontotal = Header /\ parts = <<>>
    /\ lossy = TRUE

\* The locals of getSDRVals are gone.
ReaderEnds == length' = 0 /\ total' = 0 /\ sectiontotal' = Header /\ parts' = <<>>

\* The process ends, and its state with it.
Die ==
    /\ at' = "dead"
    /\ fru' = 0
    /\ sensors' = <<>>
    /\ recordTotal' = 0
    /\ dyn' = FALSE
    /\ cache' = None
    /\ seen' = None
    /\ i' = 1
    /\ retryCount' = 0
    /\ ReaderEnds
    /\ lossy' = TRUE
    /\ UNCHANGED board
-----------------------------------------------------------------------------
(***************************************************************************)
(* The board.                                                              *)
(***************************************************************************)
\* A record changes, or is new at the end; the last one is removed.
PopulationChanges(r) ==
    /\ ind < MaxChanges
    /\ ind' = ind + 1
    /\ \/ /\ r \in 1..(count + 1)
          /\ ver' = [ver EXCEPT ![r] = ind + 1]
          /\ count' = IF r > count THEN r ELSE count
       \/ /\ r = count
          /\ count' = count - 1
          /\ UNCHANGED ver
    /\ UNCHANGED <<bus, at, device, loop, reader, lossy>>

\* The bus stays good from now on.
BusRecovers ==
    /\ bus = "bad"
    /\ bus' = "good"
    /\ UNCHANGED <<ind, ver, count, at, device, loop, reader, lossy>>
-----------------------------------------------------------------------------
(***************************************************************************)
(* The constructor: enumerateFRUSensors for every FRU.                     *)
(***************************************************************************)
\* A FRU's part of the constructor is over.
NextFru ==
    /\ fru' = fru + 1
    /\ at' = IF fru + 1 < NumFrus THEN "enumerate" ELSE "expose"

\* Three requests, then what they brought is used; a FRU that answers with
\* another group's identifier is left, with nothing read.
enumerateFRUSensors ==
    /\ at = "enumerate"
    /\ \E mand, info, repo \in Replies :
         \/ "empty" \in {mand, info, repo} /\ Die
         \/ /\ "empty" \notin {mand, info, repo}
            /\ sensors' = IF mand = "none" THEN sensors
                          ELSE sensors \o [k \in 1..Len(Mandatory) |->
                                 [num |-> Mandatory[k], ver |-> None, iface |-> FALSE]]
            /\ recordTotal' = IF repo = "data" THEN count ELSE recordTotal
            /\ dyn' = IF info = "data" THEN Dynamic ELSE dyn
            /\ at' = "reserve"
            /\ UNCHANGED <<board, fru, cache, seen, loop, reader, lossy>>

otherGroup ==
    /\ at = "enumerate"
    /\ NextFru
    /\ UNCHANGED <<board, sensors, recordTotal, dyn, cache, seen, loop, reader, lossy>>
-----------------------------------------------------------------------------
(***************************************************************************)
(* getAllSDRs.                                                             *)
(***************************************************************************)
\* Mutant of Return: the indicator is cached as it is after the reading.
ReturnLatest ==
    /\ IF seen = None
       THEN NextFru /\ UNCHANGED <<cache, seen>>
       ELSE cache' = ind /\ seen' = None /\ at' = "poll" /\ UNCHANGED fru
    /\ i' = 1
    /\ retryCount' = 0

\* Where getAllSDRs returns to; checkSDRInfo then caches the indicator.
Return ==
    /\ IF seen = None
       THEN NextFru /\ UNCHANGED <<cache, seen>>
       ELSE cache' = seen /\ seen' = None /\ at' = "poll" /\ UNCHANGED fru
    /\ i' = 1
    /\ retryCount' = 0

\* Mutant of Continue: the loop goes on past the last record.
ContinuePast(retries) ==
    IF i <= recordTotal
    THEN /\ i' = i + 1
         /\ retryCount' = retries
         /\ at' = "header"
         /\ UNCHANGED <<fru, cache, seen>>
    ELSE Return

\* The loop goes on to the next record, or is over.
Continue(retries) ==
    IF i < recordTotal
    THEN /\ i' = i + 1
         /\ retryCount' = retries
         /\ at' = "header"
         /\ UNCHANGED <<fru, cache, seen>>
    ELSE Return

reserveSDRRepo ==
    /\ at = "reserve"
    /\ \/ Replies # {"data"} /\ Die
       \/ /\ lossy' = FALSE
          /\ IF recordTotal > 0
             THEN at' = "header" /\ retryCount' \in Retries /\ UNCHANGED <<i, fru, cache, seen>>
             ELSE Return
          /\ UNCHANGED <<board, sensors, recordTotal, dyn, reader>>

\* The outer catch: the record is given up, and at the third failure the rest.
Failed ==
    /\ lossy' = TRUE
    /\ IF retryCount >= 3 THEN Return ELSE Continue(retryCount + 1)
    /\ ReaderEnds

\* The board has no record i, the request fails, or the header has not 7 bytes.
getSDRHeader ==
    /\ at = "header"
    /\ \/ /\ i > count \/ "none" \in Replies
          /\ Failed
       \/ /\ "empty" \in Replies
          /\ lossy' = TRUE
          /\ Continue(retryCount)
          /\ UNCHANGED reader
       \/ /\ i <= count
          /\ at' = "vals"
          /\ length' \in Lengths
          /\ total' = 0
          /\ sectiontotal' = Header
          /\ parts' = <<>>
          /\ UNCHANGED <<fru, cache, seen, loop, lossy>>
    /\ UNCHANGED <<board, sensors, recordTotal, dyn>>

\* Mutant of AskedFor: the last section is not cut to what is left.
AskedForWhole == Section

\* The last section is what is left of the record, perhaps nothing.
AskedFor == IF total + Section > length THEN length - total ELSE Section

\* One turn of the loop of getSDRVals: the section's version, None if the
\* response was empty.
getSDRVals ==
    /\ at = "vals"
    /\ \/ /\ "none" \in Replies
          /\ Failed
       \/ /\ \E v \in {ver[i]} \cup (IF "empty" \in Replies THEN {None} ELSE {}) :
               parts' = Append(parts, [off |-> sectiontotal, len |-> AskedFor, ver |-> v])
          /\ total' = (total + AskedFor) % Byte
          /\ sectiontotal' = (sectiontotal + AskedFor) % Byte
          /\ at' = IF AskedFor = Section THEN "vals" ELSE "store"
          /\ UNCHANGED <<fru, cache, seen, loop, length, lossy>>
    /\ UNCHANGED <<board, sensors, recordTotal, dyn>>

\* What was read of the record: which sections brought bytes, and the version
\* they agree on.
Body == {k \in DOMAIN parts : parts[k].len > 0}
Brought == {k \in Body : parts[k].ver # None}
Contents ==
    IF \E v \in Changes : \A k \in Body : parts[k].ver = v
    THEN CHOOSE v \in Changes : \A k \in Body : parts[k].ver = v
    ELSE Torn

\* isSensorDiscovered and getSensorRecord: the first element with the number.
Discovered(num) == \E k \in DOMAIN sensors : sensors[k].num = num
Index(num) ==
    CHOOSE k \in DOMAIN sensors :
        sensors[k].num = num /\ \A j \in 1..(k - 1) : sensors[j].num # num

\* Mutant of handleSdr: a record is appended although its sensor is known.
handleSdrAppends(num, v) ==
    sensors' = Append(sensors, [num |-> num, ver |-> v, iface |-> FALSE])

\* Mutant of handleSdr: a compact record replaces the element as a full one does.
handleSdrReplaces(num, v) ==
    sensors' = IF Discovered(num)
               THEN [sensors EXCEPT ![Index(num)] =
                        [num |-> num, ver |-> v, iface |-> FALSE]]
               ELSE Append(sensors, [num |-> num, ver |-> v, iface |-> FALSE])

\* handleFullSdr moves a new element over the old one, whose interface goes;
\* handleCompactSdr writes into the old one.
handleSdr(num, v) ==
    sensors' = IF Discovered(num)
               THEN [sensors EXCEPT ![Index(num)] =
                        [num |-> num, ver |-> v, iface |-> i \in Compact /\ @.iface]]
               ELSE Append(sensors, [num |-> num, ver |-> v, iface |-> FALSE])

\* The record is read: other types are ignored; a record that misses a section
\* is used all the same, with bytes from past its end, unless that throws.
storeSdr ==
    /\ at = "store"
    /\ \/ /\ i \notin Full \cup Compact
          /\ UNCHANGED <<sensors, lossy>>
          /\ Continue(retryCount)
       \/ /\ i \in Full \cup Compact
          /\ Brought = Body /\ Body # {}
          /\ handleSdr(i, Contents)
          /\ UNCHANGED lossy
          /\ Continue(retryCount)
       \/ /\ i \in Full \cup Compact
          /\ Brought # Body /\ Brought # {}
          /\ \/ \E num \in (IF 1 \in Brought THEN {i} ELSE Nums) : handleSdr(num, Torn)
             \/ UNCHANGED sensors
          /\ lossy' = TRUE
          /\ Continue(retryCount)
    /\ ReaderEnds
    /\ UNCHANGED <<board, recordTotal, dyn>>

\* Bytes that are not there may lie outside the process.
storeSdrDies ==
    /\ at = "store"
    /\ i \in Full \cup Compact
    /\ Brought # Body \/ Body = {}
    /\ Die
-----------------------------------------------------------------------------
(***************************************************************************)
(* Exposing and polling.  getSensorReading indexes the response.           *)
(***************************************************************************)
ReadingDies == "empty" \in Replies /\ sensors # <<>> /\ Die

\* A sensor that was filled from an SDR with one of the known units gets an
\* interface; what a torn record has for a unit is anyone's guess.
exposeFruSensors ==
    /\ at = "expose"
    /\ \/ ReadingDies
       \/ /\ \E some \in SUBSET {k \in DOMAIN sensors : sensors[k].ver = Torn} :
               sensors' = [k \in DOMAIN sensors |->
                   [sensors[k] EXCEPT !.iface =
                       \/ sensors[k].ver \in Changes /\ sensors[k].num \in Exposed
                       \/ k \in some]]
          /\ at' = "poll"
          /\ UNCHANGED <<board, fru, recordTotal, dyn, cache, seen, loop, reader, lossy>>

\* pollDeviceSensors, then pollSDRs, which asks only a dynamic population.
pollDeviceSensors ==
    /\ at = "poll"
    /\ ReadingDies

\* Mutant of checkSDRInfo: the records are read only when there is a cached
\* indicator that differs.
checkSDRInfoCachedOnly ==
    /\ at = "poll"
    /\ dyn
    /\ IF cache # None /\ ind # cache THEN at' = "reserve" /\ seen' = ind
       ELSE UNCHANGED <<at, seen>>
    /\ UNCHANGED <<board, fru, sensors, recordTotal, dyn, cache, loop, reader, lossy>>

\* An empty response ends the process: begin() + 2 lies behind end().
checkSDRInfo ==
    /\ at = "poll"
    /\ dyn
    /\ \/ "empty" \in Replies /\ Die
       \/ /\ ind # cache
          /\ at' = "reserve"
          /\ seen' = ind
          /\ UNCHANGED <<board, fru, sensors, recordTotal, dyn, cache, loop, reader, lossy>>

\* Nothing has changed, no answer came, or the population is not dynamic.
pollIdle ==
    /\ at = "poll"
    /\ ~dyn \/ ind = cache \/ "none" \in Replies
    /\ UNCHANGED vars

\* systemd starts ipmid again, unless it gives it up after too many starts; the
\* device is constructed anew.
Restart ==
    /\ at = "dead"
    /\ at' = "enumerate"
    /\ recordTotal' \in 0..NumRecords
    /\ dyn' \in BOOLEAN
    /\ UNCHANGED <<board, fru, sensors, cache, seen, loop, reader, lossy>>
-----------------------------------------------------------------------------
Load == reserveSDRRepo \/ getSDRHeader \/ getSDRVals \/ storeSdr \/ storeSdrDies

Manager ==
    \/ enumerateFRUSensors \/ otherGroup
    \/ Load
    \/ exposeFruSensors
    \/ pollDeviceSensors \/ checkSDRInfo \/ pollIdle

Next ==
    \/ Manager \/ Restart
    \/ \E r \in Records : PopulationChanges(r)
    \/ BusRecovers

Spec == Init /\ [][Next]_vars

\* The bridge answers every request and the poll timer fires.  Nothing is assumed
\* of the board, the bus and systemd.
FairSpec == Spec /\ WF_vars(Manager)
-----------------------------------------------------------------------------
(***************************************************************************)
(* Properties.                                                             *)
(***************************************************************************)
Part == [off : 0..(Byte - 1), len : 0..Section, ver : Changes \cup {None}]

TypeOK ==
    /\ ind \in Changes
    /\ ver \in [Records -> Changes]
    /\ count \in 0..NumRecords
    /\ bus \in {"bad", "good"}
    /\ at \in {"enumerate", "reserve", "header", "vals", "store", "expose", "poll", "dead"}
    /\ fru \in Nat
    /\ sensors \in Seq(Sensor)
    /\ recordTotal \in 0..NumRecords
    /\ dyn \in BOOLEAN
    /\ cache \in Changes \cup {None}
    /\ seen \in Changes \cup {None}
    /\ i = 1 \/ i \in Records
    /\ retryCount \in Int
    /\ length \in 0..(Byte - 1)
    /\ total \in 0..(Byte - 1)
    /\ sectiontotal \in 0..(Byte - 1)
    /\ parts \in Seq(Part)
    /\ lossy \in BOOLEAN

\* getSDRVals asks for every byte of a record once and in order, and for no byte
\* of its header, whatever the record's length: its 8-bit counters do not wrap
\* before the last section.
SectionsTile ==
    /\ \A k \in DOMAIN parts :
         /\ parts[k].off = Header + Section * (k - 1)
         /\ k < Len(parts) => parts[k].len = Section
    /\ at = "store" => Section * (Len(parts) - 1) + parts[Len(parts)].len = length

\* A sensor that is in the list twice (a FRU's mandatory sensor that an earlier
\* FRU's SDRs had discovered) has its SDR in the first place only, which is
\* where isSensorDiscovered and getSensorRecord look.
OneRecordPerSensor ==
    \A j, k \in DOMAIN sensors :
        j < k /\ sensors[j].num = sensors[k].num => sensors[k].ver = None

\* When the cached indicator is the board's and the last reading of the SDRs
\* missed nothing, every record the manager knows of is the board's present
\* one, although the board may change between any two requests of a reading.
\* It knows of the records that the board had when the constructor counted them
\* (recordTotal) and still has; of a record that is added later it never learns.
Holds(r) == Discovered(r) /\ sensors[Index(r)].ver = ver[r]
Known == {r \in Full \cup Compact : r <= recordTotal /\ r <= count}
Current == \A r \in Known : Holds(r)
CachedMeansCurrent == at = "poll" /\ cache = ind /\ ~lossy => Current

\* A compact sensor that is on D-Bus stays there until ipmid ends, unless a
\* response of the board was lost.
Published(num) == \E k \in DOMAIN sensors : sensors[k].num = num /\ sensors[k].iface
CompactStays ==
    [][\A num \in Compact : Published(num) /\ ~lossy' /\ at' # "dead" =>
            at = "dead" \/ Published(num)']_vars

\* Once the bus is good, a change of a record the constructor counted is read: an
\* indicator that is not the cached one leads to a poll with the board's indicator
\* cached and its present records held, even if records were removed or the board
\* changed in the middle of a reading.  The property leaves out records that the
\* constructor did not count: checkSDRInfo has it that it will "retrieve all SDRs
\* again", but a record that was added is not among those it asks for.
ChangeIsRead ==
    bus = "good" /\ at = "poll" /\ dyn /\ cache # ind ~>
        at = "poll" /\ cache = ind /\ Current

\* A sensor on D-Bus stays there until ipmid ends, whatever is read again.
PublishedStays ==
    [][\A num \in Nums : Published(num) /\ at # "dead" /\ at' # "dead" =>
            Published(num)']_vars
=============================================================================
