----------------------- MODULE ChassisManager_proofs ------------------------
(***************************************************************************)
(* Proofs about ChassisManager, for any addresses on the bus and any       *)
(* replies of the boards: the types, and that the three tables the scan    *)
(* fills describe the same devices whatever commands follow.               *)
(***************************************************************************)
EXTENDS ChassisManager, FiniteSetTheorems, TLAPS

-----------------------------------------------------------------------------
(***************************************************************************)
(* Types.                                                                  *)
(***************************************************************************)
Entries == Device \cup {Null, Absent}
Requests == [to : {"none", "chm", "board"}, answered : BOOLEAN,
             result : {"none", "success", "illegal", "failed"}]

\* The types in parts: the tables, the links and boards, the process and the last
\* request.
TypeTables ==
    /\ left \subseteq Scan /\ i2c \subseteq Scan
    /\ n \in 1..(Cardinality(Scan) + 1) /\ cat \in 0..Cardinality(Scan)
    /\ dev \in [Ids -> Entries]
TypeLinks == aEn \in BOOLEAN /\ bEn \in BOOLEAN /\ good \in BOOLEAN
TypeProc ==
    /\ proc \in {"enum", "poll", "run", "down", "gone"}
    /\ starts \in 1..StartBurst
    /\ last \in Requests

\* The parts are the type invariant.
LEMMA TypeParts ==
    /\ TypeOK => TypeTables /\ TypeLinks /\ TypeProc
    /\ TypeTables' /\ TypeLinks' /\ TypeProc' => TypeOK'
  BY DEF TypeOK, TypeTables, TypeLinks, TypeProc, Entries, Requests

\* The scan, the links and the requests leave the tables in a form that the next
\* address of the scan keeps: an address is visited once, the keys given so far
\* are below n and n counts the boards found.
Scanned ==
    /\ i2c \cap left = {}
    /\ n = Cardinality(i2c \ {ChmAddr}) + 1
    /\ \A k \in Keys : k \in Nat /\ k < n
    /\ TablesAgree

IInv == TypeOK /\ Scanned

\* Set sizes.
LEMMA Sizes ==
    /\ IsFiniteSet(Scan) /\ Cardinality(Scan) \in Nat
    /\ \A S \in SUBSET Scan : /\ IsFiniteSet(S) /\ Cardinality(S) \in Nat
                              /\ Cardinality(S) <= Cardinality(Scan)
    /\ Cardinality({}) = 0
  BY ScanAssumption, FS_Subset, FS_CardinalityType, FS_EmptySet

LEMMA SizeAdded ==
    ASSUME NEW S \in SUBSET Scan, NEW a \in Scan, a \notin S
    PROVE  Cardinality(S \cup {a}) = Cardinality(S) + 1
  BY Sizes, FS_AddElement

\* No device is a null pointer or an absent entry.
LEMMA NoDevice == Null \notin Device /\ Absent \notin Device
  BY ValueAssumption

\* Empty tables.
LEMMA EmptyTables ==
    ASSUME left' = Scan, n' = 1, i2c' = {}, dev' = [k \in Ids |-> Absent], cat' = 0
    PROVE  TypeTables' /\ Scanned'
<1>1. Keys' = {}
  BY NoDevice DEF Keys
<1>2. (i2c \ {ChmAddr})' = {}
  OBVIOUS
<1>3. TypeTables'
  BY Sizes DEF TypeTables, Entries
<1>4. TablesAgree'
  BY <1>1, Sizes DEF TablesAgree
<1>. QED
  BY <1>1, <1>2, <1>3, <1>4, Sizes DEF Scanned

\* The same with the tables as they are.
LEMMA InitIInv == Init => IInv
<1>. SUFFICES ASSUME Init PROVE IInv
  OBVIOUS
<1>1. Keys = {}
  BY NoDevice DEF Init, Keys
<1>2. i2c \ {ChmAddr} = {} /\ i2c = {}
  BY DEF Init
<1>3. TypeTables
  BY Sizes DEF Init, TypeTables, Entries
<1>4. TablesAgree
  BY <1>1, <1>2, Sizes DEF Init, TablesAgree
<1>5. Scanned
  BY <1>1, <1>2, <1>4, Sizes DEF Init, Scanned
<1>6. TypeLinks
  BY Zenon DEF Init, TypeLinks
<1>7. TypeProc
  BY DEF Init, TypeProc, NoRequest, Requests, StartBurst
<1>. QED
  BY <1>3, <1>5, <1>6, <1>7
  DEF IInv, TypeOK, TypeTables, TypeLinks, TypeProc, Entries, Requests

\* A step after which the map has the same devices.
LEMMA SameDevices ==
    ASSUME TypeTables, Scanned, UNCHANGED tables, dev' \in [Ids -> Entries],
           \A k \in Ids : /\ dev'[k] \in Device <=> dev[k] \in Device
                          /\ dev[k] \in Device => dev'[k].addr = dev[k].addr
    PROVE  TypeTables' /\ Scanned'
<1>1. UNCHANGED <<left, n, i2c, cat>>
  BY DEF tables
<1>2. Keys' = Keys
  BY DEF Keys
<1>3. \A k \in Keys : dev'[k].addr = dev[k].addr
  BY DEF Keys
<1>4. {dev'[k].addr : k \in Keys} = {dev[k].addr : k \in Keys}
  BY <1>3
<1>5. TablesAgree'
  BY <1>1, <1>2, <1>3, <1>4 DEF Scanned, TablesAgree
<1>6. Scanned'
  BY <1>1, <1>2, <1>5 DEF Scanned
<1>7. TypeTables'
  BY <1>1 DEF TypeTables
<1>. QED
  BY <1>6, <1>7

\* A step that leaves the tables alone.
LEMMA TablesKept ==
    ASSUME TypeTables, Scanned, UNCHANGED <<tables, dev>>
    PROVE  TypeTables' /\ Scanned'
  BY SameDevices DEF TypeTables

\* Null is inserted under a key that has no entry.
LEMMA NullInserted ==
    ASSUME TypeTables, Scanned, UNCHANGED tables, NEW id \in Ids,
           dev' = IF dev[id] = Absent THEN [dev EXCEPT ![id] = Null] ELSE dev
    PROVE  TypeTables' /\ Scanned'
<1>1. dev' \in [Ids -> Entries]
  BY DEF TypeTables, Entries
<1>2. \A k \in Ids : dev'[k] = dev[k] \/ (dev[k] = Absent /\ dev'[k] = Null)
  BY DEF TypeTables
<1>. QED
  BY <1>1, <1>2, SameDevices, NoDevice

\* The constructor makes a device of the address it is given.
LEMMA DeviceAddr ==
    ASSUME NEW a, NEW d \in Device, VITA4611Device(a, d)
    PROVE  d.addr = a
  BY ValueAssumption DEF VITA4611Device, enumerateFRUSensors

\* The scan finds a device.
LEMMA EnterStep ==
    ASSUME TypeTables, Scanned, NEW a \in left, NEW d \in Device, d.addr = a, NEW k,
           k = IF a = ChmAddr THEN 0 ELSE n,
           Enter(a, k, d), left' = left \ {a}, n' = IF a = ChmAddr THEN n ELSE n + 1
    PROVE  TypeTables' /\ Scanned'
<1>1. a \in Scan /\ a \notin i2c /\ i2c \subseteq Scan /\ i2c' = i2c \cup {a}
  BY DEF TypeTables, Scanned, Enter
<1>2. cat' = Cardinality(i2c') /\ cat' \in 0..Cardinality(Scan)
  <2>1. cat = Cardinality(i2c) /\ cat' = cat + 1
    BY DEF Scanned, TablesAgree, Enter
  <2>2. Cardinality(i2c') = Cardinality(i2c) + 1
    BY <1>1, SizeAdded
  <2>3. Cardinality(i2c') \in Nat /\ Cardinality(i2c') <= Cardinality(Scan)
    BY <1>1, Sizes
  <2>. QED
    BY <2>1, <2>2, <2>3, Sizes
<1>3. n' = Cardinality(i2c' \ {ChmAddr}) + 1 /\ n' \in 1..(Cardinality(Scan) + 1)
  <2>1. n = Cardinality(i2c \ {ChmAddr}) + 1
    BY DEF Scanned
  <2>2. n' = Cardinality(i2c' \ {ChmAddr}) + 1
    <3>1. CASE a = ChmAddr
      <4>1. i2c' \ {ChmAddr} = i2c \ {ChmAddr}
        BY <1>1, <3>1
      <4>. QED
        BY <2>1, <3>1, <4>1
    <3>2. CASE a # ChmAddr
      <4>1. i2c' \ {ChmAddr} = (i2c \ {ChmAddr}) \cup {a}
        BY <1>1, <3>2
      <4>2. Cardinality((i2c \ {ChmAddr}) \cup {a}) = Cardinality(i2c \ {ChmAddr}) + 1
        BY <1>1, SizeAdded
      <4>. QED
        BY <2>1, <3>2, <4>1, <4>2
    <3>. QED
      BY <3>1, <3>2
  <2>3. /\ Cardinality(i2c' \ {ChmAddr}) \in Nat
        /\ Cardinality(i2c' \ {ChmAddr}) <= Cardinality(Scan)
    BY <1>1, Sizes
  <2>. QED
    BY <2>2, <2>3, Sizes
<1>4. n \in Nat \ {0} /\ k \in 0..Cardinality(Scan) /\ k \in Ids /\ k < n' /\ n <= n'
  <2>1. n \in Nat \ {0} /\ Cardinality(Scan) \in Nat
    BY Sizes DEF TypeTables
  <2>2. CASE a = ChmAddr
    BY <2>1, <2>2, ScanAssumption
  <2>3. CASE a # ChmAddr
    BY <1>3, <2>1, <2>3, ScanAssumption
  <2>. QED
    BY <2>2, <2>3
<1>5. k \notin Keys
  <2>1. CASE a = ChmAddr
    <3>1. 0 \in Keys => dev[0].addr = ChmAddr /\ dev[0].addr \in i2c
      BY DEF Scanned, TablesAgree
    <3>. QED
      BY <1>1, <2>1, <3>1
  <2>2. CASE a # ChmAddr
    BY <1>4, <2>2 DEF Scanned
  <2>. QED
    BY <2>1, <2>2
<1>6. dev' = [dev EXCEPT ![k] = d] /\ dev' \in [Ids -> Entries]
  BY <1>4 DEF Enter, TypeTables, Entries
<1>7. Keys' = Keys \cup {k} /\ dev'[k] = d /\ \A j \in Keys : dev'[j] = dev[j]
  BY <1>4, <1>5, <1>6 DEF Keys, TypeTables
<1>8. i2c = {dev[j].addr : j \in Keys}
  BY DEF Scanned, TablesAgree
<1>9. TablesAgree'
  <2>1. i2c' = {dev'[j].addr : j \in Keys'}
    BY <1>1, <1>7, <1>8
  <2>2. \A x, y \in Keys' : dev'[x].addr = dev'[y].addr => x = y
    BY <1>1, <1>7, <1>8 DEF Scanned, TablesAgree
  <2>3. \A x \in Keys' : x = 0 <=> dev'[x].addr = ChmAddr
    BY <1>4, <1>7 DEF Scanned, TablesAgree
  <2>. QED
    BY <1>2, <2>1, <2>2, <2>3 DEF TablesAgree
<1>10. \A j \in Keys' : j \in Nat /\ j < n'
  <2>. SUFFICES ASSUME NEW j \in Keys' PROVE j \in Nat /\ j < n'
    OBVIOUS
  <2>1. n' \in Nat /\ k \in Nat
    BY <1>3, <1>4, Sizes
  <2>2. CASE j = k
    BY <1>4, <2>1, <2>2
  <2>3. CASE j \in Keys
    <3>1. j \in Nat /\ j < n
      BY <2>3 DEF Scanned
    <3>. QED
      BY <1>4, <2>1, <3>1
  <2>. QED
    BY <1>7, <2>2, <2>3
<1>11. i2c' \cap left' = {} /\ left' \subseteq Scan
  BY <1>1 DEF Scanned, TypeTables
<1>12. TypeTables'
  BY <1>1, <1>2, <1>3, <1>6, <1>11 DEF TypeTables
<1>. QED
  BY <1>3, <1>9, <1>10, <1>11, <1>12 DEF Scanned

-----------------------------------------------------------------------------
(***************************************************************************)
(* The steps.                                                              *)
(***************************************************************************)
\* The answer to a request.
LEMMA AnswerType ==
    ASSUME NEW to \in {"chm", "board"}, NEW result \in {"success", "illegal", "failed"},
           NEW b \in BOOLEAN, Answer(to, result, b)
    PROVE  last' \in Requests
  BY DEF Answer, Requests

\* The end of the process.
LEMMA DieStep ==
    ASSUME IInv, Die
    PROVE  IInv'
<1>1. TypeTables /\ TypeLinks /\ TypeProc /\ Scanned
  BY TypeParts DEF IInv
<1>2. TypeTables' /\ Scanned'
  BY <1>1, TablesKept DEF Die
<1>3. TypeLinks' /\ TypeProc'
  BY <1>1 DEF Die, TypeLinks, TypeProc, links, world
<1>. QED
  BY <1>2, <1>3, TypeParts DEF IInv

\* The scan and the poll.
LEMMA StartStep ==
    ASSUME IInv, Start
    PROVE  IInv'
<1>1. TypeTables /\ TypeLinks /\ TypeProc /\ Scanned
  BY TypeParts DEF IInv
<1>2. ASSUME NEW a \in Scan, enumerateI2CDevices(a)
      PROVE  IInv'
  <2>1. CASE VITA4611Device(a, Dead) /\ Die
    BY <2>1, DieStep
  <2>2. CASE left' = left \ {a} /\ UNCHANGED <<proc, world, n, i2c, dev, cat, links, last>>
    <3>1. Keys' = Keys
      BY <2>2 DEF Keys
    <3>2. TablesAgree'
      BY <1>1, <2>2, <3>1 DEF Scanned, TablesAgree
    <3>3. Scanned'
      BY <1>1, <2>2, <3>1, <3>2 DEF Scanned
    <3>4. TypeTables' /\ TypeLinks' /\ TypeProc'
      BY <1>1, <2>2 DEF TypeTables, TypeLinks, TypeProc, links, world
    <3>. QED
      BY <3>3, <3>4, TypeParts DEF IInv
  <2>3. CASE /\ left' = left \ {a}
             /\ \E d \in Device :
                  VITA4611Device(a, d) /\ Enter(a, IF a = ChmAddr THEN 0 ELSE n, d)
             /\ n' = IF a = ChmAddr THEN n ELSE n + 1
             /\ UNCHANGED <<proc, world, links, last>>
    <3>1. a \in left
      BY <1>2 DEF enumerateI2CDevices
    <3>2. PICK d \in Device : /\ VITA4611Device(a, d)
                             /\ Enter(a, IF a = ChmAddr THEN 0 ELSE n, d)
      BY <2>3
    <3>3. d.addr = a
      BY <3>2, DeviceAddr
    <3>4. TypeTables' /\ Scanned'
      BY <1>1, <2>3, <3>1, <3>2, <3>3, EnterStep
    <3>5. TypeLinks' /\ TypeProc'
      BY <1>1, <2>3 DEF TypeLinks, TypeProc, links, world
    <3>. QED
      BY <3>4, <3>5, TypeParts DEF IInv
  <2>. QED
    BY <1>2, <2>1, <2>2, <2>3, Zenon DEF enumerateI2CDevices
<1>3. CASE exposeFruSensors
  <2>1. TypeTables' /\ Scanned'
    BY <1>1, <1>3, TablesKept DEF exposeFruSensors
  <2>2. TypeLinks' /\ TypeProc'
    BY <1>1, <1>3 DEF exposeFruSensors, TypeLinks, TypeProc, links, world
  <2>. QED
    BY <2>1, <2>2, TypeParts DEF IInv
<1>. QED
  BY <1>2, <1>3 DEF Start

LEMMA PollStep ==
    ASSUME IInv, Poll
    PROVE  IInv'
<1>1. TypeTables /\ TypeLinks /\ TypeProc /\ Scanned
  BY TypeParts DEF IInv
<1>2. TypeLinks' /\ TypeProc'
  BY <1>1 DEF Poll, TypeLinks, TypeProc, links, world
<1>3. CASE UNCHANGED dev
  BY <1>1, <1>2, <1>3, TablesKept, TypeParts DEF Poll, IInv
<1>4. ASSUME NEW grown \in SUBSET {k \in Keys : dev[k].dyn},
             dev' = [k \in Ids |-> IF k \in grown
                                  THEN [dev[k] EXCEPT !.sensors = TRUE] ELSE dev[k]]
      PROVE  IInv'
  <2>1. ASSUME NEW e \in Device
        PROVE  /\ [e EXCEPT !.sensors = TRUE] \in Device
               /\ [e EXCEPT !.sensors = TRUE].addr = e.addr
    BY DEF Device
  <2>2. ASSUME NEW k \in Ids
        PROVE  /\ dev'[k] \in Entries
               /\ dev'[k] \in Device <=> dev[k] \in Device
               /\ dev[k] \in Device => dev'[k].addr = dev[k].addr
    <3>1. CASE k \in grown
      <4>1. dev[k] \in Device
        BY <3>1 DEF Keys
      <4>2. dev'[k] = [dev[k] EXCEPT !.sensors = TRUE]
        BY <1>4, <3>1, Zenon
      <4>. QED
        BY <2>1, <4>1, <4>2 DEF Entries
    <3>2. CASE k \notin grown
      <4>1. dev'[k] = dev[k]
        BY <1>4, <3>2, Zenon
      <4>. QED
        BY <1>1, <4>1 DEF TypeTables
    <3>. QED
      BY <3>1, <3>2
  <2>3. dev' \in [Ids -> Entries]
    <3>1. dev' = [k \in Ids |-> dev'[k]]
      BY <1>4, Zenon
    <3>. QED
      BY <2>2, <3>1
  <2>4. TypeTables' /\ Scanned'
    BY <1>1, <2>2, <2>3, SameDevices DEF Poll
  <2>. QED
    BY <1>2, <2>4, TypeParts DEF IInv
<1>. QED
  BY <1>3, <1>4, Zenon DEF Poll

\* The requests.
LEMMA CommandStep ==
    ASSUME IInv, Command
    PROVE  IInv'
<1>1. TypeTables /\ TypeLinks /\ TypeProc /\ Scanned
  BY TypeParts DEF IInv
<1>2. ASSUME NEW to \in {"chm", "board"}, NEW result \in {"success", "illegal", "failed"},
             NEW b \in BOOLEAN, Answer(to, result, b), UNCHANGED <<proc, world, tables, dev, links>>
      PROVE  IInv'
  <2>1. TypeTables' /\ Scanned'
    BY <1>1, <1>2, TablesKept
  <2>2. TypeLinks' /\ TypeProc'
    BY <1>1, <1>2, AnswerType DEF TypeLinks, TypeProc, links, world
  <2>. QED
    BY <2>1, <2>2, TypeParts DEF IInv
<1>3. ASSUME NEW id \in Ids, NEW result \in {"success", "illegal", "failed"},
             dev' = IF dev[id] = Absent THEN [dev EXCEPT ![id] = Null] ELSE dev,
             Answer("chm", result, FALSE), UNCHANGED <<proc, world, tables, links>>
      PROVE  IInv'
  <2>1. TypeTables' /\ Scanned'
    BY <1>1, <1>3, NullInserted
  <2>2. last' \in Requests
    BY <1>3, AnswerType
  <2>3. TypeLinks' /\ TypeProc'
    BY <1>1, <1>3, <2>2 DEF TypeLinks, TypeProc, links, world
  <2>. QED
    BY <2>1, <2>3, TypeParts DEF IInv
<1>4. ASSUME NEW to \in {"chm", "board"}, noChannel(to)
      PROVE  IInv'
  BY <1>2, <1>4 DEF noChannel
<1>5. ASSUME NEW result \in {"success", "illegal"}, handleChMCommand(result)
      PROVE  IInv'
  BY <1>2, <1>5 DEF handleChMCommand
<1>6. ASSUME NEW id \in Ids, NEW byte \in {0, 4}, fruControl(id, byte)
      PROVE  IInv'
  BY <1>3, <1>6 DEF fruControl
<1>7. ASSUME NEW a \in LinkBytes, NEW b \in LinkBytes, setIpmbState(a, b)
      PROVE  IInv'
  <2>0. starts' = starts /\ good' = good
    BY <1>7 DEF setIpmbState, world
  <2>1. ASSUME NEW byte, NEW en \in BOOLEAN PROVE Switched(byte, en) \in BOOLEAN
    BY Zenon DEF Switched
  <2>2. TypeLinks'
    BY <1>1, <1>7, <2>1, <2>0, Zenon DEF setIpmbState, TypeLinks
  <2>3. last' \in Requests
    BY <1>7, AnswerType DEF setIpmbState
  <2>4. TypeProc'
    BY <1>1, <1>7, <2>0, <2>3 DEF setIpmbState, TypeProc
  <2>5. TypeTables' /\ Scanned'
    BY <1>1, <1>7, TablesKept DEF setIpmbState
  <2>. QED
    BY <2>2, <2>4, <2>5, TypeParts DEF IInv
<1>8. ASSUME NEW id \in Ids, useDevice(id)
      PROVE  IInv'
  BY <1>2, <1>8, DieStep DEF useDevice
<1>9. ASSUME NEW id \in Ids, NEW directive \in {0, 2}, setFruActivation(id, directive)
      PROVE  IInv'
  BY <1>3, <1>8, <1>9 DEF setFruActivation
<1>10. ASSUME NEW a \in Scan, NEW unset \in BOOLEAN, getAddTable(a, unset)
       PROVE  IInv'
  BY <1>2, <1>10, DieStep DEF getAddTable
<1>11. ASSUME NEW a \in Scan, getFruAddressInfo(a)
       PROVE  IInv'
  BY <1>2, <1>11, DieStep DEF getFruAddressInfo
<1>12. ASSUME NEW a \in Scan \ {ChmAddr}, NEW odd \in BOOLEAN, passthrough(a, odd)
       PROVE  IInv'
  <2>1. UNCHANGED <<proc, world, tables, dev, links>>
    BY <1>12 DEF passthrough
  <2>2. \/ Answer("board", "illegal", FALSE) \/ Answer("board", "failed", FALSE)
        \/ Answer("board", "failed", TRUE)
        \/ Answer("board", "success", FALSE) \/ Answer("board", "success", TRUE)
    <3>1. ASSUME NEW r \in BridgeReplies,
                 Answer("board", IF r = "none" THEN "failed" ELSE "success", r = "data")
          PROVE  \/ Answer("board", "failed", FALSE) \/ Answer("board", "failed", TRUE)
                 \/ Answer("board", "success", FALSE) \/ Answer("board", "success", TRUE)
      <4>1. (r = "data") = TRUE \/ (r = "data") = FALSE
        BY Zenon
      <4>. QED
        BY <3>1, <4>1, Zenon
    <3>. QED
      BY <1>12, <3>1, Zenon DEF passthrough
  <2>. QED
    BY <1>2, <2>1, <2>2
<1>. QED
  BY <1>4, <1>5, <1>6, <1>7, <1>8, <1>9, <1>10, <1>11, <1>12 DEF Command

\* Every step keeps the invariant.
LEMMA NextIInv == IInv /\ [Next]_vars => IInv'
<1>. SUFFICES ASSUME IInv, [Next]_vars PROVE IInv'
  OBVIOUS
<1>1. TypeTables /\ TypeLinks /\ TypeProc /\ Scanned
  BY TypeParts DEF IInv
<1>2. CASE UNCHANGED vars
  <2>1. TypeTables' /\ Scanned'
    BY <1>1, <1>2, TablesKept DEF vars, tables
  <2>2. TypeLinks' /\ TypeProc'
    BY <1>1, <1>2 DEF vars, TypeLinks, TypeProc
  <2>. QED
    BY <2>1, <2>2, TypeParts DEF IInv
<1>3. CASE Restart
  <2>1. TypeTables' /\ Scanned'
    BY <1>3, EmptyTables DEF Restart
  <2>2. TypeLinks'
    BY <1>1, <1>3, Zenon DEF Restart, TypeLinks
  <2>3. TypeProc'
    <3>1. proc' \in {"enum", "gone"} /\ starts' \in 1..StartBurst
      BY <1>1, <1>3 DEF Restart, TypeProc, StartBurst
    <3>. QED
      BY <1>3, <3>1 DEF Restart, TypeProc, NoRequest, Requests
  <2>. QED
    BY <2>1, <2>2, <2>3, TypeParts DEF IInv
<1>4. CASE BoardsChange
  <2>1. TypeTables' /\ Scanned'
    BY <1>1, <1>4, TablesKept DEF BoardsChange
  <2>2. TypeLinks'
    BY <1>1, <1>4 DEF BoardsChange, TypeLinks, links
  <2>3. TypeProc'
    BY <1>1, <1>4 DEF BoardsChange, TypeProc
  <2>. QED
    BY <2>1, <2>2, <2>3, TypeParts DEF IInv
<1>. QED
  BY <1>2, <1>3, <1>4, StartStep, PollStep, CommandStep DEF Next

\* The tables, the links and the process keep their types: keys and counts stay
\* within what the addresses of the scan allow, whatever replies come and
\* however often ipmid is restarted.
THEOREM ManagerTypeOK == Spec => []TypeOK
<1>1. IInv => TypeOK
  BY DEF IInv
<1>. QED
  BY <1>1, InitIInv, NextIInv, PTL DEF Spec

\* The device list, the device map and the chassis address table describe the
\* same devices, for any set of addresses and any sequence of requests.
THEOREM ManagerTablesAgree == Spec => []TablesAgree
<1>1. IInv => TablesAgree
  BY DEF IInv, Scanned
<1>. QED
  BY <1>1, InitIInv, NextIInv, PTL DEF Spec
=============================================================================
