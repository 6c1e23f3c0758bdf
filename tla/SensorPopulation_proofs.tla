---------------------- MODULE SensorPopulation_proofs -----------------------
(***************************************************************************)
(* Proofs about SensorPopulation, for any records, lengths, section size,  *)
(* number of FRUs and number of changes: the types, the sections of a      *)
(* record, the place of a sensor's SDR, what a cached indicator means and  *)
(* that compact sensors stay on D-Bus.                                     *)
(***************************************************************************)
EXTENDS SensorPopulation, SequenceTheorems, WellFoundedInduction, TLAPS

\* Every step by name.
LEMMA NextCases ==
    ASSUME Next
    PROVE  \/ enumerateFRUSensors \/ otherGroup
           \/ reserveSDRRepo \/ getSDRHeader \/ getSDRVals \/ storeSdr \/ storeSdrDies
           \/ exposeFruSensors \/ pollDeviceSensors \/ checkSDRInfo \/ pollIdle \/ Restart
           \/ \E r \in Records : PopulationChanges(r)
           \/ BusRecovers
  BY DEF Next, Manager, Load

-----------------------------------------------------------------------------
(***************************************************************************)
(* Types.                                                                  *)
(***************************************************************************)
Places == {"enumerate", "reserve", "header", "vals", "store", "expose", "poll", "dead"}

\* The types in parts, one for each group of variables that steps write together.
TypeBoard ==
    /\ ind \in Changes /\ ver \in [Records -> Changes]
    /\ count \in 0..NumRecords /\ bus \in {"bad", "good"}
TypeLoop ==
    /\ at \in Places /\ fru \in Nat
    /\ cache \in Changes \cup {None} /\ seen \in Changes \cup {None}
    /\ i = 1 \/ i \in Records
    /\ retryCount \in Int
TypeReader ==
    /\ length \in 0..(Byte - 1) /\ total \in 0..(Byte - 1) /\ sectiontotal \in 0..(Byte - 1)
    /\ parts \in Seq(Part)
TypeFlags == dyn \in BOOLEAN /\ lossy \in BOOLEAN
TypeSensors == sensors \in Seq(Sensor) /\ recordTotal \in 0..NumRecords

\* The parts are the type invariant.
LEMMA TypeParts ==
    /\ TypeOK => TypeBoard /\ TypeLoop /\ TypeReader /\ TypeFlags /\ TypeSensors
    /\ TypeBoard' /\ TypeLoop' /\ TypeReader' /\ TypeFlags' /\ TypeSensors' => TypeOK'
  BY DEF TypeOK, TypeBoard, TypeLoop, TypeReader, TypeFlags, TypeSensors, Places

\* The initial state has the types.
LEMMA InitType == Init => TypeOK
<1>. SUFFICES ASSUME Init PROVE TypeOK
  OBVIOUS
<1>1. TypeBoard
  BY RecordAssumption DEF Init, TypeBoard, Changes
<1>2. TypeLoop
  BY DEF Init, TypeLoop, Places
<1>3. TypeReader
  BY LengthAssumption DEF Init, TypeReader
<1>4. lossy \in BOOLEAN /\ dyn \in BOOLEAN
  BY Zenon DEF Init
<1>5. TypeSensors
  BY DEF Init, TypeSensors
<1>. QED
  BY <1>1, <1>2, <1>3, <1>4, <1>5
  DEF TypeOK, TypeBoard, TypeLoop, TypeReader, TypeFlags, TypeSensors, Places

\* The locals of getSDRVals after it has returned.
LEMMA ReaderEndsType == ReaderEnds => TypeReader'
  BY LengthAssumption DEF ReaderEnds, TypeReader

\* The end of the process.
LEMMA DieType ==
    ASSUME TypeBoard, Die
    PROVE  TypeBoard' /\ TypeLoop' /\ TypeReader' /\ TypeFlags' /\ TypeSensors'
<1>1. lossy' \in BOOLEAN /\ dyn' \in BOOLEAN
  BY Zenon DEF Die
<1>2. TypeLoop' /\ TypeSensors'
  BY RecordAssumption DEF Die, TypeLoop, TypeSensors, Places
<1>3. TypeReader'
  BY ReaderEndsType DEF Die
<1>4. TypeBoard'
  BY DEF Die, board, TypeBoard
<1>. QED
  BY <1>1, <1>2, <1>3, <1>4 DEF TypeFlags

\* The next FRU, the return of getAllSDRs and its loop.
LEMMA NextFruType ==
    ASSUME TypeLoop, NextFru
    PROVE  at' \in Places /\ fru' \in Nat
  BY DEF TypeLoop, NextFru, Places

LEMMA ReturnType ==
    ASSUME TypeLoop, Return
    PROVE  TypeLoop'
<1>1. i' = 1 /\ retryCount' = 0
  BY DEF Return
<1>2. CASE seen = None
  BY <1>1, <1>2, NextFruType DEF Return, TypeLoop
<1>3. CASE seen # None
  BY <1>1, <1>3 DEF Return, TypeLoop, Places
<1>. QED
  BY <1>2, <1>3

LEMMA ContinueType ==
    ASSUME TypeLoop, TypeSensors, NEW retries \in Int, Continue(retries)
    PROVE  TypeLoop'
<1>1. CASE i < recordTotal
  <2>1. i + 1 \in Records
    BY <1>1, RecordAssumption DEF TypeLoop, TypeSensors, Records
  <2>. QED
    BY <1>1, <2>1 DEF Continue, TypeLoop, Places
<1>2. CASE ~(i < recordTotal)
  BY <1>2, ReturnType DEF Continue
<1>. QED
  BY <1>1, <1>2

LEMMA FailedType ==
    ASSUME TypeLoop, TypeSensors, Failed
    PROVE  TypeLoop' /\ TypeReader' /\ lossy' \in BOOLEAN
<1>1. retryCount + 1 \in Int
  BY DEF TypeLoop
<1>2. TypeLoop'
  BY <1>1, ReturnType, ContinueType DEF Failed
<1>3. TypeReader'
  BY ReaderEndsType DEF Failed
<1>4. lossy' \in BOOLEAN
  BY Zenon DEF Failed
<1>. QED
  BY <1>2, <1>3, <1>4

-----------------------------------------------------------------------------
(***************************************************************************)
(* The list of sensors.                                                    *)
(***************************************************************************)
\* A set of naturals has a least element.
LEMMA LeastNatural ==
    ASSUME NEW T, T \subseteq Nat, T # {}
    PROVE  \E x \in T : \A y \in T : x <= y
<1>1. PICK x \in T : \A y \in T : ~(<<y, x>> \in OpToRel(<, Nat))
  BY NatLessThanWellFounded, WFMin
<1>2. \A y \in T : ~(y < x)
  BY <1>1 DEF OpToRel
<1>. QED
  BY <1>2

\* getSensorRecord finds the first element with the number.
LEMMA IndexIsFirst ==
    ASSUME TypeSensors, NEW num, Discovered(num)
    PROVE  /\ Index(num) \in 1..Len(sensors)
           /\ sensors[Index(num)].num = num
           /\ \A j \in 1..(Index(num) - 1) : sensors[j].num # num
<1>. DEFINE T == {k \in DOMAIN sensors : sensors[k].num = num}
<1>1. DOMAIN sensors = 1..Len(sensors) /\ Len(sensors) \in Nat
  BY DEF TypeSensors
<1>2. PICK x \in T : \A y \in T : x <= y
  <2>1. T \subseteq Nat /\ T # {}
    BY <1>1 DEF Discovered
  <2>. QED
    BY <2>1, LeastNatural
<1>3. \A j \in 1..(x - 1) : sensors[j].num # num
  BY <1>1, <1>2
<1>4. \E k \in DOMAIN sensors :
         sensors[k].num = num /\ \A j \in 1..(k - 1) : sensors[j].num # num
  BY <1>2, <1>3
<1>. QED
  BY <1>1, <1>4 DEF Index

\* What the steps build is a sensor.
LEMMA SensorBuilt ==
    ASSUME NEW num \in Nums, NEW v \in Versions, NEW b \in BOOLEAN
    PROVE  [num |-> num, ver |-> v, iface |-> b] \in Sensor
  BY DEF Sensor

\* The list after handleFullSdr or handleCompactSdr.
LEMMA HandleSdrResult ==
    ASSUME TypeSensors, NEW num \in Nums, NEW v \in Versions, handleSdr(num, v)
    PROVE  \E b \in BOOLEAN :
             sensors' = IF Discovered(num)
                        THEN [sensors EXCEPT ![Index(num)] =
                                [num |-> num, ver |-> v, iface |-> b]]
                        ELSE Append(sensors, [num |-> num, ver |-> v, iface |-> b])
<1>1. CASE Discovered(num)
  <2>1. PICK b \in BOOLEAN : b = (i \in Compact /\ sensors[Index(num)].iface)
    BY Zenon
  <2>2. sensors' = [sensors EXCEPT ![Index(num)] =
                      [num |-> num, ver |-> v,
                       iface |-> i \in Compact /\ sensors[Index(num)].iface]]
    BY <1>1, Zenon DEF handleSdr
  <2>. QED
    BY <1>1, <2>1, <2>2, Zenon
<1>2. CASE ~Discovered(num)
  <2>1. sensors' = Append(sensors, [num |-> num, ver |-> v, iface |-> FALSE])
    BY <1>2, Zenon DEF handleSdr
  <2>. WITNESS FALSE \in BOOLEAN
  <2>. QED
    BY <1>2, <2>1, Zenon
<1>. QED
  BY <1>1, <1>2

LEMMA HandleSdrType ==
    ASSUME TypeSensors, NEW num \in Nums, NEW v \in Versions, handleSdr(num, v)
    PROVE  sensors' \in Seq(Sensor)
<1>1. PICK b \in BOOLEAN :
             sensors' = IF Discovered(num)
                        THEN [sensors EXCEPT ![Index(num)] =
                                [num |-> num, ver |-> v, iface |-> b]]
                        ELSE Append(sensors, [num |-> num, ver |-> v, iface |-> b])
  BY HandleSdrResult
<1>. DEFINE e == [num |-> num, ver |-> v, iface |-> b]
<1>2. e \in Sensor
  BY SensorBuilt
<1>3. sensors' = IF Discovered(num) THEN [sensors EXCEPT ![Index(num)] = e]
                 ELSE Append(sensors, e)
  BY <1>1
<1>. HIDE DEF e
<1>4. CASE Discovered(num)
  BY <1>2, <1>3, <1>4, IndexIsFirst, ExceptSeq DEF TypeSensors
<1>5. CASE ~Discovered(num)
  BY <1>2, <1>3, <1>5, AppendProperties DEF TypeSensors
<1>. QED
  BY <1>4, <1>5

\* A FRU's mandatory sensors are appended.
LEMMA MandatoryAppended ==
    ASSUME TypeSensors
    PROVE  LET more == [k \in 1..Len(Mandatory) |->
                          [num |-> Mandatory[k], ver |-> None, iface |-> FALSE]]
           IN  /\ more \in Seq(Sensor)
               /\ Len(more) = Len(Mandatory)
               /\ \A k \in 1..Len(more) : more[k].ver = None
<1>. DEFINE more == [k \in 1..Len(Mandatory) |->
                       [num |-> Mandatory[k], ver |-> None, iface |-> FALSE]]
<1>1. Len(Mandatory) \in Nat /\ \A k \in 1..Len(Mandatory) : Mandatory[k] \in Nums
  BY RecordAssumption
<1>2. \A k \in 1..Len(Mandatory) :
         [num |-> Mandatory[k], ver |-> None, iface |-> FALSE] \in Sensor
  BY <1>1, SensorBuilt DEF Versions
<1>3. more \in [1..Len(Mandatory) -> Sensor]
  BY <1>2
<1>4. more \in Seq(Sensor)
  BY <1>1, <1>3, SeqDef
<1>5. Len(more) = Len(Mandatory)
  BY <1>1, <1>3
<1>. QED
  BY <1>4, <1>5

\* exposeFruSensors changes the interfaces only.
LEMMA ExposeType ==
    ASSUME TypeSensors, exposeFruSensors, ~ReadingDies
    PROVE  /\ sensors' \in Seq(Sensor)
           /\ Len(sensors') = Len(sensors)
           /\ \A k \in 1..Len(sensors) : /\ sensors'[k].num = sensors[k].num
                                        /\ sensors'[k].ver = sensors[k].ver
<1>1. PICK some : sensors' = [k \in DOMAIN sensors |->
                   [sensors[k] EXCEPT !.iface =
                       \/ sensors[k].ver \in Changes /\ sensors[k].num \in Exposed
                       \/ k \in some]]
  BY Zenon DEF exposeFruSensors
<1>2. Len(sensors) \in Nat /\ DOMAIN sensors = 1..Len(sensors)
  BY DEF TypeSensors
<1>3. ASSUME NEW e \in Sensor, NEW b \in BOOLEAN
      PROVE  /\ [e EXCEPT !.iface = b] \in Sensor
             /\ [e EXCEPT !.iface = b].num = e.num /\ [e EXCEPT !.iface = b].ver = e.ver
  BY DEF Sensor
<1>4. ASSUME NEW k \in 1..Len(sensors)
      PROVE  /\ sensors'[k] \in Sensor
             /\ sensors'[k].num = sensors[k].num /\ sensors'[k].ver = sensors[k].ver
  <2>1. PICK b \in BOOLEAN : b = (\/ sensors[k].ver \in Changes /\ sensors[k].num \in Exposed
                                 \/ k \in some)
    BY Zenon
  <2>2. sensors'[k] = [sensors[k] EXCEPT !.iface = b]
    BY <1>1, <1>2, <2>1, Zenon
  <2>3. sensors[k] \in Sensor
    BY ElementOfSeq DEF TypeSensors
  <2>. QED
    BY <1>3, <2>2, <2>3
<1>5. DOMAIN sensors' = 1..Len(sensors) /\ sensors' \in [1..Len(sensors) -> Sensor]
  <2>1. DOMAIN sensors' = DOMAIN sensors /\ sensors' = [k \in DOMAIN sensors' |-> sensors'[k]]
    BY <1>1, Zenon
  <2>. QED
    BY <1>2, <1>4, <2>1
<1>6. sensors' \in Seq(Sensor)
  BY <1>2, <1>5, SeqDef
<1>7. Len(sensors') = Len(sensors)
  BY <1>2, <1>5, <1>6
<1>. QED
  BY <1>4, <1>6, <1>7

\* The contents of a record that was read.
LEMMA ContentsType == Contents \in Changes \cup {Torn}
  BY DEF Contents

\* AskedFor is at most a section, and the counters keep their width.
LEMMA AskedForType ==
    ASSUME TypeReader, total <= length
    PROVE  AskedFor \in 0..Section
  BY LengthAssumption DEF TypeReader, AskedFor

-----------------------------------------------------------------------------
(***************************************************************************)
(* The sections of a record.                                               *)
(***************************************************************************)
\* Where the sections start, and that a record's sections end with it: the two
\* parts of SectionsTile.
Starts ==
    \A k \in DOMAIN parts :
        /\ parts[k].off = Header + Section * (k - 1)
        /\ k < Len(parts) => parts[k].len = Section
Ends == at = "store" => Section * (Len(parts) - 1) + parts[Len(parts)].len = length

LEMMA TileParts == (SectionsTile <=> Starts /\ Ends) /\ (Starts' /\ Ends' => SectionsTile')
  BY Zenon DEF SectionsTile, Starts, Ends

\* While sections are asked for, those asked for are whole, lie one after the
\* other and end where the two counters say; else nothing was asked for.  The
\* record is one of the board's.
Whole == \A k \in DOMAIN parts : parts[k].len = Section
Counters ==
    /\ length \in Lengths
    /\ Section * Len(parts) <= length
    /\ total = Section * Len(parts)
    /\ sectiontotal = Header + Section * Len(parts)
Tiled ==
    /\ at = "vals" => Starts /\ Whole /\ Counters
    /\ at = "store" => parts # <<>>
    /\ at \in {"vals", "store"} => i \in Records
    /\ at \notin {"vals", "store"} => parts = <<>>

\* A section that starts within a record starts below 2^8.
LEMMA StartFits ==
    ASSUME NEW m \in Nat, NEW l \in Lengths, Section * m <= l
    PROVE  Header + Section * m < Byte
<1>1. m <= Section * m
  BY LengthAssumption
<1>2. l \in Nat
  BY LengthAssumption
<1>3. m \in 0..l
  <2>1. Section * m \in Nat
    BY LengthAssumption
  <2>. QED
    BY <1>1, <1>2, <2>1
<1>. QED
  BY <1>3, LengthAssumption

\* A number below the width is not changed by it.
LEMMA NoWrap ==
    ASSUME NEW b \in Nat \ {0}, NEW x \in 0..(b - 1)
    PROVE  x % b = x
  OBVIOUS

\* One turn of the loop of getSDRVals that brings a response.
LEMMA SectionStep ==
    ASSUME TypeReader, TypeBoard, TypeLoop, Tiled, at = "vals",
           NEW v \in Changes \cup {None},
           parts' = Append(parts, [off |-> sectiontotal, len |-> AskedFor, ver |-> v]),
           total' = (total + AskedFor) % Byte,
           sectiontotal' = (sectiontotal + AskedFor) % Byte,
           at' = IF AskedFor = Section THEN "vals" ELSE "store",
           UNCHANGED <<length, i>>
    PROVE  TypeReader' /\ Tiled' /\ SectionsTile'
<1>. DEFINE m == Len(parts)
            p == [off |-> sectiontotal, len |-> AskedFor, ver |-> v]
<1>1. /\ m \in Nat /\ length \in Lengths /\ length \in Nat /\ Section \in Nat \ {0}
      /\ Header \in Nat /\ Byte \in Nat \ {0} /\ length < Byte
      /\ total = Section * m /\ total <= length /\ sectiontotal = Header + Section * m
  <2>1. m \in Nat
    BY LenProperties DEF TypeReader
  <2>2. Section \in Nat \ {0} /\ Header \in Nat /\ Byte \in Nat \ {0}
    BY LengthAssumption
  <2>3. /\ length \in Lengths /\ total = Section * m /\ Section * m <= length
        /\ sectiontotal = Header + Section * m
    BY DEF Tiled, Counters
  <2>4. length \in Nat /\ length < Byte
    BY <2>2 DEF TypeReader
  <2>. QED
    BY <2>1, <2>2, <2>3, <2>4
<1>2. AskedFor \in 0..Section
  BY <1>1, AskedForType
<1>3. p \in Part
  BY <1>2 DEF TypeReader, Part
<1>4. /\ parts' \in Seq(Part) /\ Len(parts') = m + 1
      /\ \A k \in 1..m : parts'[k] = parts[k]
      /\ parts'[m + 1] = p
  BY <1>3, AppendProperties DEF TypeReader
<1>5. TypeReader'
  <2>1. total' \in 0..(Byte - 1) /\ sectiontotal' \in 0..(Byte - 1)
    BY <1>1, <1>2 DEF TypeReader
  <2>. QED
    BY <1>4, <2>1 DEF TypeReader
<1>6. \A k \in 1..m : parts'[k].off = Header + Section * (k - 1) /\ parts'[k].len = Section
  BY <1>4 DEF Tiled, Starts, Whole, TypeReader
<1>7. parts'[m + 1].off = Header + Section * ((m + 1) - 1) /\ parts'[m + 1].len = AskedFor
  BY <1>1, <1>4
<1>8. DOMAIN parts' = 1..(m + 1)
  BY <1>4
<1>9. Starts'
  <2>. SUFFICES ASSUME NEW k \in 1..(m + 1)
                PROVE  /\ parts'[k].off = Header + Section * (k - 1)
                       /\ k < m + 1 => parts'[k].len = Section
    BY <1>4, <1>8 DEF Starts
  <2>1. CASE k = m + 1
    BY <1>1, <1>7, <2>1
  <2>2. CASE k # m + 1
    <3>1. k \in 1..m
      <4>1. m \in Nat
        BY <1>1
      <4>. HIDE DEF m
      <4>. QED
        BY <2>2, <4>1
    <3>. QED
      BY <1>6, <3>1
  <2>. QED
    BY <2>1, <2>2
<1>. DEFINE w == Section * (m + 1)
<1>10. w = total + Section /\ w \in Nat
  BY <1>1
<1>11. Section * Len(parts') = w
  BY <1>4
<1>12. CASE AskedFor = Section
  <2>1. w <= length
    BY <1>1, <1>10, <1>12 DEF AskedFor
  <2>2. Header + w < Byte
    BY <1>1, <2>1, m + 1 \in Nat, StartFits
  <2>. HIDE DEF w
  <2>3. total' = w
    <3>1. total + AskedFor = w
      BY <1>10, <1>12
    <3>2. w \in 0..(Byte - 1)
      BY <1>1, <1>10, <2>1
    <3>. QED
      BY <1>1, <3>1, <3>2, NoWrap
  <2>4. sectiontotal' = Header + w
    <3>1. sectiontotal = Header + total
      BY <1>1
    <3>2. sectiontotal + AskedFor = Header + w
      <4>. HIDE DEF m
      <4>. QED
        BY <1>1, <1>10, <1>12, <3>1
    <3>3. Header + w \in 0..(Byte - 1)
      <4>1. Header \in Nat /\ Byte \in Nat /\ w \in Nat
        BY <1>1, <1>10
      <4>. QED
        BY <2>2, <4>1
    <3>. QED
      BY <1>1, <3>2, <3>3, NoWrap
  <2>5. at' = "vals"
    BY <1>12
  <2>6. Whole'
    <3>. SUFFICES ASSUME NEW k \in 1..(m + 1)
                  PROVE  parts'[k].len = Section
      BY <1>8 DEF Whole
    <3>1. CASE k = m + 1
      BY <1>7, <1>12, <3>1, Zenon
    <3>2. CASE k # m + 1
      <4>1. m \in Nat
        BY <1>1
      <4>2. k \in 1..m
        <5>. HIDE DEF m
        <5>. QED
          BY <3>2, <4>1
      <4>. QED
        BY <1>6, <4>2
    <3>. QED
      BY <3>1, <3>2
  <2>7. Counters'
    BY <1>1, <1>11, <2>1, <2>3, <2>4, Zenon DEF Counters
  <2>8. Tiled'
    BY <1>9, <2>5, <2>6, <2>7 DEF Tiled
  <2>9. Ends'
    BY <2>5 DEF Ends
  <2>. QED
    BY <1>5, <1>9, <2>8, <2>9, TileParts
<1>13. CASE AskedFor # Section
  <2>1. AskedFor = length - total
    BY <1>13 DEF AskedFor
  <2>2. at' = "store"
    BY <1>13
  <2>3. parts' # <<>>
    BY <1>4
  <2>4. Tiled'
    BY <2>2, <2>3 DEF Tiled
  <2>5. Section * (Len(parts') - 1) + parts'[Len(parts')].len = length'
    <3>1. Len(parts') - 1 = m /\ parts'[Len(parts')].len = AskedFor
      BY <1>1, <1>4, <1>7
    <3>2. Section * (Len(parts') - 1) = total
      BY <1>1, <3>1
    <3>. QED
      BY <1>1, <2>1, <3>1, <3>2 DEF TypeReader
  <2>6. Ends'
    BY <2>5, Zenon DEF Ends
  <2>. QED
    BY <1>5, <1>9, <2>4, <2>6, TileParts
<1>. QED
  BY <1>12, <1>13

\* Before and after a record is read nothing was asked for.
LEMMA Emptied ==
    ASSUME parts' = <<>>, at' \notin {"vals", "store"}
    PROVE  Tiled' /\ SectionsTile'
<1>1. Starts' /\ Ends'
  BY DEF Starts, Ends
<1>2. Tiled'
  BY DEF Tiled
<1>. QED
  BY <1>1, <1>2, TileParts

LEMMA ReaderEndsEmpty == ReaderEnds => parts' = <<>>
  BY DEF ReaderEnds

LEMMA DieEmpty == Die => Tiled' /\ SectionsTile'
  BY Emptied, ReaderEndsEmpty DEF Die

\* Where the loop of getAllSDRs goes.
LEMMA ReturnPlace == Return => at' \notin {"vals", "store"}
  BY DEF Return, NextFru
LEMMA ContinuePlace ==
    ASSUME NEW retries, Continue(retries)
    PROVE  at' \notin {"vals", "store"}
  BY ReturnPlace DEF Continue
LEMMA FailedPlace == Failed => at' \notin {"vals", "store"} /\ parts' = <<>>
  BY ReturnPlace, ContinuePlace, ReaderEndsEmpty DEF Failed

\* What holds of every state.
IInv == TypeOK /\ Tiled /\ SectionsTile

\* A step that leaves the reader alone, and its place too.
LEMMA ReaderKept ==
    ASSUME Tiled, SectionsTile, UNCHANGED <<reader, at, i>>
    PROVE  Tiled' /\ SectionsTile'
  BY DEF reader, Tiled, SectionsTile, Starts, Whole, Counters

\* A step outside the reader.
LEMMA ReaderIdle ==
    ASSUME Tiled, at \notin {"vals", "store"}, UNCHANGED reader, at' \notin {"vals", "store"}
    PROVE  Tiled' /\ SectionsTile'
  BY Emptied DEF reader, Tiled

-----------------------------------------------------------------------------
(***************************************************************************)
(* The steps.                                                              *)
(***************************************************************************)
\* The constructor.
LEMMA ConstructorStep ==
    ASSUME IInv, enumerateFRUSensors \/ otherGroup
    PROVE  IInv'
<1>0. TypeBoard /\ TypeLoop /\ TypeReader /\ TypeFlags /\ TypeSensors /\ Tiled /\ SectionsTile
  BY TypeParts DEF IInv
<1>1. CASE Die
  BY <1>0, <1>1, DieType, DieEmpty, TypeParts DEF IInv
<1>2. CASE enumerateFRUSensors /\ ~Die
  <2>1. PICK mand, info, repo \in Replies :
          /\ sensors' = IF mand = "none" THEN sensors
                        ELSE sensors \o [k \in 1..Len(Mandatory) |->
                               [num |-> Mandatory[k], ver |-> None, iface |-> FALSE]]
          /\ recordTotal' = IF repo = "data" THEN count ELSE recordTotal
          /\ dyn' = IF info = "data" THEN Dynamic ELSE dyn
          /\ at' = "reserve"
          /\ UNCHANGED <<board, fru, cache, seen, loop, reader, lossy>>
    BY <1>2, Zenon DEF enumerateFRUSensors
  <2>2. sensors' \in Seq(Sensor)
    BY <1>0, <2>1, MandatoryAppended, ConcatProperties DEF TypeSensors
  <2>3. recordTotal' \in 0..NumRecords
    BY <1>0, <2>1 DEF TypeSensors, TypeBoard
  <2>4. dyn' \in BOOLEAN /\ lossy' \in BOOLEAN
    BY <1>0, <2>1, RecordAssumption, Zenon DEF TypeFlags
  <2>5. TypeBoard' /\ TypeLoop' /\ TypeReader'
    BY <1>0, <2>1 DEF TypeBoard, TypeLoop, TypeReader, board, loop, reader, Places
  <2>6. Tiled' /\ SectionsTile'
    BY <1>0, <1>2, <2>1, ReaderIdle DEF enumerateFRUSensors
  <2>. QED
    BY <2>2, <2>3, <2>4, <2>5, <2>6, TypeParts DEF IInv, TypeSensors, TypeFlags
<1>3. CASE otherGroup
  <2>1. TypeLoop'
    BY <1>0, <1>3, NextFruType DEF otherGroup, TypeLoop, loop
  <2>2. UNCHANGED <<board, sensors, recordTotal, dyn, reader, lossy>>
    BY <1>3 DEF otherGroup
  <2>3. TypeBoard' /\ TypeReader' /\ TypeSensors' /\ TypeFlags'
    BY <1>0, <2>2 DEF board, reader, TypeBoard, TypeReader, TypeSensors, TypeFlags
  <2>4. at' \notin {"vals", "store"} /\ at = "enumerate"
    BY <1>3 DEF otherGroup, NextFru
  <2>5. Tiled' /\ SectionsTile'
    BY <1>0, <2>2, <2>4, ReaderIdle
  <2>. QED
    BY <2>1, <2>3, <2>5, TypeParts DEF IInv
<1>. QED
  BY <1>1, <1>2, <1>3

\* getAllSDRs: the reservation, a record's header and a section of it.
LEMMA LoadStep ==
    ASSUME IInv, reserveSDRRepo \/ getSDRHeader \/ getSDRVals
    PROVE  IInv'
<1>0. TypeBoard /\ TypeLoop /\ TypeReader /\ TypeFlags /\ TypeSensors /\ Tiled /\ SectionsTile
  BY TypeParts DEF IInv
<1>1. CASE Die
  BY <1>0, <1>1, DieType, DieEmpty, TypeParts DEF IInv
<1>2. CASE reserveSDRRepo /\ ~Die
  <2>1. /\ at = "reserve" /\ lossy' = FALSE
        /\ UNCHANGED <<board, sensors, recordTotal, dyn, reader>>
        /\ \/ /\ at' = "header" /\ retryCount' \in Retries
              /\ UNCHANGED <<i, fru, cache, seen>>
           \/ Return
    BY <1>2, Zenon DEF reserveSDRRepo
  <2>2. TypeLoop'
    BY <1>0, <2>1, ReturnType, RecordAssumption DEF TypeLoop, Places
  <2>3. at' \notin {"vals", "store"}
    BY <2>1, ReturnPlace
  <2>4. lossy' \in BOOLEAN /\ dyn' \in BOOLEAN
    BY <1>0, <2>1, Zenon DEF TypeFlags
  <2>5. TypeBoard' /\ TypeReader' /\ TypeSensors'
    BY <1>0, <2>1 DEF board, reader, TypeBoard, TypeReader, TypeSensors
  <2>6. Tiled' /\ SectionsTile'
    BY <1>0, <2>1, <2>3, ReaderIdle
  <2>. QED
    BY <2>2, <2>4, <2>5, <2>6, TypeParts DEF IInv, TypeFlags
<1>3. CASE Failed /\ UNCHANGED <<board, sensors, recordTotal, dyn>>
  <2>1. TypeLoop' /\ TypeReader' /\ lossy' \in BOOLEAN
    BY <1>0, <1>3, FailedType
  <2>2. TypeBoard' /\ TypeSensors'
    BY <1>0, <1>3 DEF board, TypeBoard, TypeSensors
  <2>3. dyn' \in BOOLEAN
    BY <1>0, <1>3, Zenon DEF TypeFlags
  <2>4. Tiled' /\ SectionsTile'
    BY <1>3, FailedPlace, Emptied
  <2>. QED
    BY <2>1, <2>2, <2>3, <2>4, TypeParts DEF IInv, TypeFlags
<1>4. CASE getSDRHeader /\ ~Failed
  <2>1. at = "header" /\ UNCHANGED <<board, sensors, recordTotal, dyn>>
    BY <1>4 DEF getSDRHeader
  <2>2. TypeBoard' /\ TypeSensors'
    BY <1>0, <2>1 DEF board, TypeBoard, TypeSensors
  <2>3. CASE lossy' = TRUE /\ Continue(retryCount) /\ UNCHANGED reader
    <3>1. TypeLoop'
      BY <1>0, <2>3, ContinueType DEF TypeLoop
    <3>2. lossy' \in BOOLEAN /\ dyn' \in BOOLEAN
      BY <1>0, <2>1, <2>3, Zenon DEF TypeFlags
    <3>3. TypeReader'
      BY <1>0, <2>3 DEF reader, TypeReader
    <3>4. Tiled' /\ SectionsTile'
      BY <1>0, <2>1, <2>3, ContinuePlace, ReaderIdle
    <3>. QED
      BY <2>2, <3>1, <3>2, <3>3, <3>4, TypeParts DEF IInv, TypeFlags
  <2>4. CASE /\ at' = "vals" /\ length' \in Lengths /\ total' = 0
             /\ sectiontotal' = Header /\ parts' = <<>>
             /\ UNCHANGED <<fru, cache, seen, loop, lossy>> /\ i <= count
    <3>0. i' \in Records
      BY <1>0, <2>4, RecordAssumption DEF TypeLoop, TypeBoard, Records, loop
    <3>1. TypeLoop' /\ TypeReader'
      BY <1>0, <2>4, LengthAssumption DEF TypeLoop, TypeReader, Places, loop
    <3>2. TypeFlags'
      BY <1>0, <2>1, <2>4 DEF TypeFlags
    <3>3. Starts' /\ Whole' /\ Ends'
      BY <2>4 DEF Starts, Whole, Ends
    <3>4. Counters'
      <4>1. Len(parts') = 0 /\ length' \in Nat
        BY <2>4, LengthAssumption
      <4>2. Section * Len(parts') = 0 /\ Header + 0 = Header
        BY <4>1, LengthAssumption
      <4>. QED
        BY <2>4, <4>1, <4>2 DEF Counters
    <3>5. Tiled' /\ SectionsTile'
      BY <2>4, <3>0, <3>3, <3>4, TileParts DEF Tiled
    <3>. QED
      BY <2>2, <3>1, <3>2, <3>5, TypeParts DEF IInv
  <2>. QED
    BY <1>4, <2>3, <2>4, Zenon DEF getSDRHeader
<1>5. CASE getSDRVals /\ ~Failed
  <2>1. PICK v \in {ver[i]} \cup (IF "empty" \in Replies THEN {None} ELSE {}) :
          /\ at = "vals"
          /\ parts' = Append(parts, [off |-> sectiontotal, len |-> AskedFor, ver |-> v])
          /\ total' = (total + AskedFor) % Byte
          /\ sectiontotal' = (sectiontotal + AskedFor) % Byte
          /\ at' = IF AskedFor = Section THEN "vals" ELSE "store"
          /\ UNCHANGED <<fru, cache, seen, loop, length, lossy>>
          /\ UNCHANGED <<board, sensors, recordTotal, dyn>>
    BY <1>5, Zenon DEF getSDRVals
  <2>2. v \in Changes \cup {None}
    BY <1>0, <2>1 DEF TypeBoard, Tiled
  <2>3. UNCHANGED <<length, i>>
    BY <2>1 DEF loop
  <2>4. TypeReader' /\ Tiled' /\ SectionsTile'
    BY <1>0, <2>1, <2>2, <2>3, SectionStep
  <2>5. TypeLoop' /\ TypeBoard' /\ TypeSensors'
    BY <1>0, <2>1 DEF TypeLoop, TypeBoard, TypeSensors, board, loop, Places
  <2>6. TypeFlags'
    BY <1>0, <2>1 DEF TypeFlags
  <2>. QED
    BY <2>4, <2>5, <2>6, TypeParts DEF IInv
<1>. QED
  BY <1>1, <1>2, <1>3, <1>4, <1>5 DEF getSDRHeader, getSDRVals

\* A record that was read is stored.
LEMMA StoreStep ==
    ASSUME IInv, storeSdr \/ storeSdrDies
    PROVE  IInv'
<1>0. TypeBoard /\ TypeLoop /\ TypeReader /\ TypeFlags /\ TypeSensors /\ Tiled /\ SectionsTile
  BY TypeParts DEF IInv
<1>1. CASE Die
  BY <1>0, <1>1, DieType, DieEmpty, TypeParts DEF IInv
<1>2. CASE storeSdr
  <2>1. /\ at = "store" /\ Continue(retryCount) /\ ReaderEnds
        /\ UNCHANGED <<board, recordTotal, dyn>>
        /\ lossy' = lossy \/ lossy' = TRUE
    BY <1>2, Zenon DEF storeSdr
  <2>2. TypeLoop'
    BY <1>0, <2>1, ContinueType DEF TypeLoop
  <2>3. TypeBoard' /\ TypeReader'
    BY <1>0, <2>1, ReaderEndsType DEF board, TypeBoard
  <2>4. lossy' \in BOOLEAN /\ dyn' \in BOOLEAN
    BY <1>0, <2>1, Zenon DEF TypeFlags
  <2>5. sensors' \in Seq(Sensor)
    <3>1. \/ UNCHANGED sensors
          \/ handleSdr(i, Contents)
          \/ \E num \in Nums : handleSdr(num, Torn)
      <4>1. i \in Nums
        BY <1>0, <2>1 DEF Tiled, Nums
      <4>. QED
        BY <1>2, <4>1 DEF storeSdr
    <3>2. i \in Nums /\ Contents \in Versions /\ Torn \in Versions
      BY <1>0, <2>1, ContentsType DEF Tiled, Nums, Versions
    <3>. QED
      BY <1>0, <3>1, <3>2, HandleSdrType DEF TypeSensors
  <2>6. Tiled' /\ SectionsTile'
    BY <2>1, ContinuePlace, ReaderEndsEmpty, Emptied
  <2>. QED
    BY <1>0, <2>1, <2>2, <2>3, <2>4, <2>5, <2>6, TypeParts DEF IInv, TypeFlags, TypeSensors
<1>. QED
  BY <1>1, <1>2 DEF storeSdrDies

\* Exposing, polling and the restart.
LEMMA PollStep ==
    ASSUME IInv,
           exposeFruSensors \/ pollDeviceSensors \/ checkSDRInfo \/ pollIdle \/ Restart
    PROVE  IInv'
<1>0. TypeBoard /\ TypeLoop /\ TypeReader /\ TypeFlags /\ TypeSensors /\ Tiled /\ SectionsTile
  BY TypeParts DEF IInv
<1>1. CASE Die
  BY <1>0, <1>1, DieType, DieEmpty, TypeParts DEF IInv
<1>2. CASE exposeFruSensors /\ ~Die
  <2>1. /\ at = "expose" /\ at' = "poll"
        /\ UNCHANGED <<board, fru, recordTotal, dyn, cache, seen, loop, reader, lossy>>
    BY <1>2, Zenon DEF exposeFruSensors, ReadingDies
  <2>2. sensors' \in Seq(Sensor)
    BY <1>0, <1>2, ExposeType DEF ReadingDies
  <2>3. TypeBoard' /\ TypeLoop' /\ TypeReader' /\ TypeSensors'
    BY <1>0, <2>1, <2>2
    DEF TypeBoard, TypeLoop, TypeReader, TypeSensors, board, loop, reader, Places
  <2>4. TypeFlags'
    BY <1>0, <2>1 DEF TypeFlags
  <2>5. Tiled' /\ SectionsTile'
    BY <1>0, <2>1, ReaderIdle
  <2>. QED
    BY <2>3, <2>4, <2>5, TypeParts DEF IInv
<1>3. CASE pollDeviceSensors
  BY <1>1, <1>3 DEF pollDeviceSensors, ReadingDies
<1>4. CASE checkSDRInfo /\ ~Die
  <2>1. /\ at = "poll" /\ at' = "reserve" /\ seen' = ind
        /\ UNCHANGED <<board, fru, sensors, recordTotal, dyn, cache, loop, reader, lossy>>
    BY <1>4, Zenon DEF checkSDRInfo
  <2>2. TypeBoard' /\ TypeLoop' /\ TypeReader' /\ TypeSensors'
    BY <1>0, <2>1
    DEF TypeBoard, TypeLoop, TypeReader, TypeSensors, board, loop, reader, Places
  <2>3. TypeFlags'
    BY <1>0, <2>1 DEF TypeFlags
  <2>4. Tiled' /\ SectionsTile'
    BY <1>0, <2>1, ReaderIdle
  <2>. QED
    BY <2>2, <2>3, <2>4, TypeParts DEF IInv
<1>5. CASE UNCHANGED vars
  <2>1. TypeBoard' /\ TypeLoop' /\ TypeReader' /\ TypeSensors'
    BY <1>0, <1>5
    DEF vars, device, TypeBoard, TypeLoop, TypeReader, TypeSensors, board, loop, reader
  <2>2. TypeFlags'
    BY <1>0, <1>5 DEF vars, device, TypeFlags
  <2>3. Tiled' /\ SectionsTile'
    BY <1>0, <1>5, ReaderKept DEF vars, loop
  <2>. QED
    BY <2>1, <2>2, <2>3, TypeParts DEF IInv
<1>6. CASE Restart
  <2>1. /\ at = "dead" /\ at' = "enumerate" /\ recordTotal' \in 0..NumRecords
        /\ UNCHANGED <<board, fru, sensors, cache, seen, loop, reader, lossy>>
    BY <1>6 DEF Restart
  <2>2. TypeBoard' /\ TypeLoop' /\ TypeReader' /\ TypeSensors'
    BY <1>0, <2>1
    DEF TypeBoard, TypeLoop, TypeReader, TypeSensors, board, loop, reader, Places
  <2>3. dyn' \in BOOLEAN /\ lossy' \in BOOLEAN
    BY <1>0, <1>6, <2>1, Zenon DEF Restart, TypeFlags
  <2>4. Tiled' /\ SectionsTile'
    BY <1>0, <2>1, ReaderIdle
  <2>. QED
    BY <2>2, <2>3, <2>4, TypeParts DEF IInv, TypeFlags
<1>. QED
  BY <1>1, <1>2, <1>3, <1>4, <1>5, <1>6 DEF pollIdle

\* The board and the bus.
LEMMA BoardStep ==
    ASSUME IInv, BusRecovers \/ (\E r \in Records : PopulationChanges(r))
    PROVE  IInv'
<1>0. TypeBoard /\ TypeLoop /\ TypeReader /\ TypeFlags /\ TypeSensors /\ Tiled /\ SectionsTile
  BY TypeParts DEF IInv
<1>1. UNCHANGED <<at, device, loop, reader, lossy>>
  BY DEF BusRecovers, PopulationChanges
<1>2. TypeBoard'
  <2>1. CASE BusRecovers
    BY <1>0, <2>1 DEF BusRecovers, TypeBoard
  <2>2. ASSUME NEW r \in Records, PopulationChanges(r)
        PROVE  TypeBoard'
    <3>1. ind' \in Changes /\ ind + 1 \in Changes
      BY <1>0, <2>2, RecordAssumption DEF PopulationChanges, TypeBoard, Changes
    <3>2. ver' \in [Records -> Changes]
      BY <1>0, <2>2, <3>1 DEF PopulationChanges, TypeBoard
    <3>3. count' \in 0..NumRecords
      BY <1>0, <2>2, RecordAssumption DEF PopulationChanges, TypeBoard, Records
    <3>. QED
      BY <1>0, <2>2, <3>1, <3>2, <3>3 DEF PopulationChanges, TypeBoard
  <2>. QED
    BY <2>1, <2>2
<1>3. TypeLoop' /\ TypeReader' /\ TypeSensors'
  BY <1>0, <1>1 DEF device, loop, reader, TypeLoop, TypeReader, TypeSensors
<1>4. TypeFlags'
  BY <1>0, <1>1 DEF device, TypeFlags
<1>5. Tiled' /\ SectionsTile'
  BY <1>0, <1>1, ReaderKept DEF loop
<1>. QED
  BY <1>2, <1>3, <1>4, <1>5, TypeParts DEF IInv

\* Every step keeps the invariant.
LEMMA NextIInv == IInv /\ [Next]_vars => IInv'
<1>. SUFFICES ASSUME IInv, [Next]_vars PROVE IInv'
  OBVIOUS
<1>1. CASE UNCHANGED vars
  <2>1. TypeOK'
    BY <1>1 DEF IInv, vars, board, device, loop, reader, TypeOK
  <2>2. Tiled' /\ SectionsTile'
    BY <1>1, ReaderKept DEF IInv, vars, loop
  <2>. QED
    BY <2>1, <2>2 DEF IInv
<1>2. CASE Next
  BY <1>2, NextCases, ConstructorStep, LoadStep, StoreStep, PollStep, BoardStep
<1>. QED
  BY <1>1, <1>2

\* It holds initially.
LEMMA InitIInv == Init => IInv
<1>. SUFFICES ASSUME Init PROVE IInv
  OBVIOUS
<1>1. parts = <<>> /\ at = "enumerate"
  BY DEF Init
<1>2. Starts /\ Ends /\ Tiled
  BY <1>1 DEF Starts, Ends, Tiled
<1>. QED
  BY <1>2, InitType, TileParts DEF IInv

\* The manager's records of a board keep their types whatever the board and the
\* bus do between two requests: the loop stays within the records, the list of
\* sensors holds sensors and the 8-bit counters keep their width.
THEOREM PopulationTypeOK == Spec => []TypeOK
<1>1. IInv => TypeOK
  BY DEF IInv
<1>. QED
  BY <1>1, InitIInv, NextIInv, PTL DEF Spec

\* getSDRVals asks for every byte of a record once and in order, for every length
\* and section size whose sections start below 2^8: with 0x16 bytes a section
\* and a header of 5, for every length a record can have.
THEOREM PopulationSectionsTile == Spec => []SectionsTile
<1>1. IInv => SectionsTile
  BY DEF IInv
<1>. QED
  BY <1>1, InitIInv, NextIInv, PTL DEF Spec

-----------------------------------------------------------------------------
(***************************************************************************)
(* One record per sensor.                                                  *)
(***************************************************************************)
\* A list that keeps numbers and versions.
LEMMA SameRecords ==
    ASSUME OneRecordPerSensor, TypeSensors, sensors' \in Seq(Sensor),
           Len(sensors') = Len(sensors),
           \A k \in 1..Len(sensors) : /\ sensors'[k].num = sensors[k].num
                                    /\ sensors'[k].ver = sensors[k].ver
    PROVE  OneRecordPerSensor'
<1>1. DOMAIN sensors' = 1..Len(sensors) /\ DOMAIN sensors = 1..Len(sensors)
  BY LenProperties DEF TypeSensors
<1>. QED
  BY <1>1 DEF OneRecordPerSensor

\* handleFullSdr and handleCompactSdr fill the first element of a sensor, or a
\* new one.
LEMMA HandleSdrOne ==
    ASSUME OneRecordPerSensor, TypeSensors,
           NEW num \in Nums, NEW v \in Versions, handleSdr(num, v)
    PROVE  OneRecordPerSensor'
<1>1. PICK b \in BOOLEAN :
             sensors' = IF Discovered(num)
                        THEN [sensors EXCEPT ![Index(num)] =
                                [num |-> num, ver |-> v, iface |-> b]]
                        ELSE Append(sensors, [num |-> num, ver |-> v, iface |-> b])
  BY HandleSdrResult
<1>. DEFINE e == [num |-> num, ver |-> v, iface |-> b]
            x == Index(num)
<1>2. e \in Sensor /\ e.num = num
  BY SensorBuilt
<1>3. sensors' = IF Discovered(num) THEN [sensors EXCEPT ![x] = e] ELSE Append(sensors, e)
  BY <1>1
<1>. HIDE DEF e
<1>4. Len(sensors) \in Nat /\ DOMAIN sensors = 1..Len(sensors) /\ sensors \in Seq(Sensor)
  BY LenProperties DEF TypeSensors
<1>. SUFFICES ASSUME NEW j \in DOMAIN sensors', NEW k \in DOMAIN sensors',
                     j < k, sensors'[j].num = sensors'[k].num
              PROVE  sensors'[k].ver = None
  BY DEF OneRecordPerSensor
<1>5. CASE Discovered(num)
  <2>1. /\ x \in 1..Len(sensors) /\ sensors[x].num = num
        /\ \A y \in 1..(x - 1) : sensors[y].num # num
    BY <1>5, IndexIsFirst
  <2>. HIDE DEF x
  <2>2. /\ sensors' \in Seq(Sensor) /\ Len(sensors') = Len(sensors)
        /\ \A y \in 1..Len(sensors) : sensors'[y] = IF y = x THEN e ELSE sensors[y]
    BY <1>2, <1>3, <1>4, <1>5, <2>1, ExceptSeq
  <2>3. j \in 1..Len(sensors) /\ k \in 1..Len(sensors)
    BY <2>2, LenProperties
  <2>4. \A y \in 1..Len(sensors) : sensors'[y].num = sensors[y].num
    BY <1>2, <2>1, <2>2
  <2>5. k # x
    <3>. SUFFICES ASSUME k = x PROVE FALSE
      OBVIOUS
    <3>1. j \in 1..(x - 1)
      BY <1>4, <2>3
    <3>. QED
      BY <2>1, <2>3, <2>4, <3>1
  <2>. QED
    BY <1>4, <2>2, <2>3, <2>4, <2>5 DEF OneRecordPerSensor
<1>6. CASE ~Discovered(num)
  <2>1. /\ sensors' \in Seq(Sensor) /\ Len(sensors') = Len(sensors) + 1
        /\ \A y \in 1..Len(sensors) : sensors'[y] = sensors[y]
        /\ sensors'[Len(sensors) + 1] = e
    BY <1>2, <1>3, <1>4, <1>6, AppendProperties
  <2>2. j \in 1..(Len(sensors) + 1) /\ k \in 1..(Len(sensors) + 1)
    BY <2>1, LenProperties
  <2>3. j \in 1..Len(sensors)
    BY <1>4, <2>2
  <2>4. k # Len(sensors) + 1
    BY <1>2, <1>4, <1>6, <2>1, <2>3 DEF Discovered
  <2>5. k \in 1..Len(sensors)
    BY <1>4, <2>2, <2>4
  <2>. QED
    BY <1>4, <2>1, <2>3, <2>5 DEF OneRecordPerSensor
<1>. QED
  BY <1>5, <1>6

\* The mandatory sensors of a FRU have no record yet.
LEMMA MandatoryOne ==
    ASSUME OneRecordPerSensor, TypeSensors,
           sensors' = sensors \o [k \in 1..Len(Mandatory) |->
                        [num |-> Mandatory[k], ver |-> None, iface |-> FALSE]]
    PROVE  OneRecordPerSensor'
<1>. DEFINE more == [k \in 1..Len(Mandatory) |->
                       [num |-> Mandatory[k], ver |-> None, iface |-> FALSE]]
<1>1. more \in Seq(Sensor) /\ \A k \in 1..Len(more) : more[k].ver = None
  BY MandatoryAppended
<1>2. sensors' = sensors \o more
  OBVIOUS
<1>. HIDE DEF more
<1>3. /\ sensors \in Seq(Sensor) /\ Len(sensors) \in Nat /\ Len(more) \in Nat
      /\ DOMAIN sensors = 1..Len(sensors)
  BY <1>1, LenProperties DEF TypeSensors
<1>4. /\ sensors' \in Seq(Sensor) /\ Len(sensors') = Len(sensors) + Len(more)
      /\ \A y \in 1..(Len(sensors) + Len(more)) :
           sensors'[y] = IF y <= Len(sensors) THEN sensors[y] ELSE more[y - Len(sensors)]
  BY <1>1, <1>2, <1>3, ConcatProperties
<1>. SUFFICES ASSUME NEW j \in DOMAIN sensors', NEW k \in DOMAIN sensors',
                     j < k, sensors'[j].num = sensors'[k].num
              PROVE  sensors'[k].ver = None
  BY DEF OneRecordPerSensor
<1>5. j \in 1..(Len(sensors) + Len(more)) /\ k \in 1..(Len(sensors) + Len(more))
  BY <1>4, LenProperties
<1>6. CASE k <= Len(sensors)
  <2>1. j \in 1..Len(sensors) /\ k \in 1..Len(sensors)
    BY <1>3, <1>5, <1>6
  <2>. QED
    BY <1>3, <1>4, <1>5, <1>6, <2>1 DEF OneRecordPerSensor
<1>7. CASE ~(k <= Len(sensors))
  <2>1. k - Len(sensors) \in 1..Len(more)
    BY <1>3, <1>5, <1>7
  <2>. QED
    BY <1>1, <1>4, <1>5, <1>7, <2>1
<1>. QED
  BY <1>6, <1>7

\* Every step keeps it.
LEMMA NextOneRecord ==
    ASSUME IInv, OneRecordPerSensor, [Next]_vars
    PROVE  OneRecordPerSensor'
<1>0. TypeBoard /\ TypeLoop /\ TypeReader /\ TypeFlags /\ TypeSensors /\ Tiled
  BY TypeParts DEF IInv
<1>1. CASE UNCHANGED sensors
  BY <1>1 DEF OneRecordPerSensor
<1>2. CASE Die
  <2>1. sensors' = <<>>
    BY <1>2 DEF Die
  <2>. QED
    BY <2>1 DEF OneRecordPerSensor
<1>3. CASE enumerateFRUSensors
  <2>1. \/ Die
        \/ UNCHANGED sensors
        \/ sensors' = sensors \o [k \in 1..Len(Mandatory) |->
                        [num |-> Mandatory[k], ver |-> None, iface |-> FALSE]]
    BY <1>3, Zenon DEF enumerateFRUSensors
  <2>. QED
    BY <1>0, <1>1, <1>2, <2>1, MandatoryOne
<1>4. CASE storeSdr
  <2>1. i \in Nums /\ Contents \in Versions /\ Torn \in Versions
    BY <1>0, <1>4, ContentsType DEF storeSdr, Tiled, Nums, Versions
  <2>2. \/ UNCHANGED sensors
        \/ handleSdr(i, Contents)
        \/ \E num \in Nums : handleSdr(num, Torn)
    BY <1>4, <2>1 DEF storeSdr
  <2>. QED
    BY <1>0, <1>1, <2>1, <2>2, HandleSdrOne
<1>5. CASE exposeFruSensors /\ ~Die
  BY <1>0, <1>5, ExposeType, SameRecords DEF ReadingDies
<1>6. CASE UNCHANGED vars \/ otherGroup \/ reserveSDRRepo \/ getSDRHeader \/ getSDRVals
  BY <1>1, <1>2, <1>6 DEF vars, device, otherGroup, reserveSDRRepo, getSDRHeader, getSDRVals
<1>7. CASE \/ storeSdrDies \/ pollDeviceSensors \/ checkSDRInfo \/ pollIdle \/ Restart
           \/ BusRecovers \/ \E r \in Records : PopulationChanges(r)
  BY <1>1, <1>2, <1>7 DEF storeSdrDies, pollDeviceSensors, ReadingDies, checkSDRInfo,
    pollIdle, Restart, BusRecovers, PopulationChanges, device, vars
<1>. QED
  BY <1>2, <1>3, <1>4, <1>5, <1>6, <1>7, NextCases

\* A sensor's SDR is in the first element with its number, where
\* isSensorDiscovered and getSensorRecord look, for any mandatory sensors, any
\* records and any number of FRUs that report them.
THEOREM PopulationOneRecord == Spec => []OneRecordPerSensor
<1>1. Init => OneRecordPerSensor
  BY DEF Init, OneRecordPerSensor
<1>2. IInv /\ OneRecordPerSensor /\ [Next]_vars => OneRecordPerSensor'
  BY NextOneRecord
<1>. QED
  BY <1>1, <1>2, InitIInv, NextIInv, PTL DEF Spec

-----------------------------------------------------------------------------
(***************************************************************************)
(* Where getAllSDRs is, and for whom.                                      *)
(***************************************************************************)
\* Records are being read; the device is being constructed, or waits for it.
Loading == at \in {"header", "vals", "store"}
Constructing ==
    \/ at \in {"enumerate", "expose", "dead"}
    \/ at \in {"reserve", "header", "vals", "store"} /\ seen = None

\* Indicators that were seen are not newer than the board's, the loop is at a
\* record that the manager knows of, and the constructor caches no indicator.
Past == cache \in (0..ind) \cup {None} /\ seen \in (0..ind) \cup {None}
LoopPlace == (Loading => i \in 1..recordTotal) /\ (~Loading => i = 1)
Uncached == Constructing => cache = None
Control == Past /\ LoopPlace /\ Uncached

\* The end of getAllSDRs and its next turn.
LEMMA ReturnControl ==
    ASSUME Control, Loading \/ at = "reserve", Return, UNCHANGED ind
    PROVE  /\ Control'
           /\ at' \in {"enumerate", "expose", "poll"}
           /\ at' = "poll" <=> seen # None
           /\ at' = "poll" => cache' = seen
<1>1. i' = 1
  BY DEF Return
<1>2. CASE seen = None
  <2>1. at' \in {"enumerate", "expose"} /\ UNCHANGED <<cache, seen>>
    BY <1>2 DEF Return, NextFru
  <2>2. cache = None
    BY <1>2 DEF Control, Uncached, Constructing, Loading
  <2>. QED
    BY <1>1, <1>2, <2>1, <2>2 DEF Control, Past, LoopPlace, Loading, Uncached
<1>3. CASE seen # None
  <2>1. at' = "poll" /\ cache' = seen /\ seen' = None
    BY <1>3 DEF Return
  <2>. QED
    BY <1>1, <1>3, <2>1 DEF Control, Past, LoopPlace, Loading, Uncached, Constructing
<1>. QED
  BY <1>2, <1>3

LEMMA ContinueControl ==
    ASSUME TypeSensors, Control, Loading, NEW retries, Continue(retries),
           UNCHANGED <<ind, recordTotal>>
    PROVE  Control'
<1>1. CASE i < recordTotal
  <2>1. i' = i + 1 /\ at' = "header" /\ UNCHANGED <<cache, seen>>
    BY <1>1 DEF Continue
  <2>2. i + 1 \in 1..recordTotal
    BY <1>1 DEF Control, LoopPlace, TypeSensors
  <2>. QED
    BY <2>1, <2>2 DEF Control, Past, LoopPlace, Loading, Uncached, Constructing
<1>2. CASE ~(i < recordTotal)
  BY <1>2, ReturnControl DEF Continue
<1>. QED
  BY <1>1, <1>2

\* The end of the process, and a step that moves neither the loop nor the cache.
LEMMA DieControl == Die => Control'
  BY DEF Die, Control, Past, LoopPlace, Loading, Uncached
LEMMA SamePlaceControl ==
    ASSUME Control, UNCHANGED <<ind, i, recordTotal, cache, seen>>,
           \/ UNCHANGED at
           \/ Loading /\ at' \in {"vals", "store"}
    PROVE  Control'
  BY DEF Control, Past, LoopPlace, Loading, Uncached, Constructing

\* Every step keeps it.
LEMMA NextControl ==
    ASSUME IInv, Control, [Next]_vars
    PROVE  Control'
<1>0. TypeBoard /\ TypeLoop /\ TypeSensors
  BY TypeParts DEF IInv
<1>1. CASE enumerateFRUSensors
  <2>1. CASE Die
    BY <2>1, DieControl
  <2>2. CASE at = "enumerate" /\ at' = "reserve" /\ UNCHANGED <<board, cache, seen, loop>>
    BY <2>2 DEF board, loop, Control, Past, LoopPlace, Loading, Uncached, Constructing
  <2>. QED
    BY <1>1, <2>1, <2>2, Zenon DEF enumerateFRUSensors
<1>2. CASE otherGroup
  <2>1. at = "enumerate" /\ at' \in {"enumerate", "expose"}
        /\ UNCHANGED <<board, cache, seen, loop>>
    BY <1>2 DEF otherGroup, NextFru
  <2>. QED
    BY <2>1 DEF board, loop, Control, Past, LoopPlace, Loading, Uncached, Constructing
<1>3. CASE reserveSDRRepo
  <2>1. CASE Die
    BY <2>1, DieControl
  <2>2. CASE /\ at = "reserve" /\ recordTotal > 0 /\ at' = "header"
             /\ UNCHANGED <<i, cache, seen, board, recordTotal>>
    <3>1. i = 1 /\ 1 \in 1..recordTotal
      BY <1>0, <2>2 DEF Control, LoopPlace, Loading, TypeSensors
    <3>. QED
      BY <2>2, <3>1 DEF board, Control, Past, LoopPlace, Loading, Uncached, Constructing
  <2>3. CASE at = "reserve" /\ Return /\ UNCHANGED board
    BY <2>3, ReturnControl DEF board
  <2>. QED
    BY <1>3, <2>1, <2>2, <2>3, Zenon DEF reserveSDRRepo
<1>4. CASE \E retries : Loading /\ Continue(retries) /\ UNCHANGED <<board, recordTotal>>
  BY <1>0, <1>4, ContinueControl DEF board
<1>5. CASE Loading /\ Failed /\ UNCHANGED <<board, recordTotal>>
  <2>1. Return \/ \E retries : Continue(retries)
    BY <1>5 DEF Failed
  <2>2. CASE Return
    BY <1>5, <2>2, ReturnControl DEF board
  <2>. QED
    BY <1>4, <1>5, <2>1, <2>2
<1>6. CASE getSDRHeader
  <2>1. /\ Loading /\ UNCHANGED <<board, recordTotal>>
        /\ \/ Failed
           \/ \E retries : Continue(retries)
           \/ at' = "vals" /\ UNCHANGED <<cache, seen, loop>>
    BY <1>6, Zenon DEF getSDRHeader, Loading
  <2>2. CASE at' = "vals" /\ UNCHANGED <<cache, seen, loop>>
    BY <2>1, <2>2, SamePlaceControl DEF board, loop
  <2>. QED
    BY <1>4, <1>5, <2>1, <2>2
<1>7. CASE getSDRVals
  <2>1. /\ Loading /\ UNCHANGED <<board, recordTotal>>
        /\ \/ Failed
           \/ at' \in {"vals", "store"} /\ UNCHANGED <<cache, seen, loop>>
    BY <1>7 DEF getSDRVals, Loading
  <2>2. CASE at' \in {"vals", "store"} /\ UNCHANGED <<cache, seen, loop>>
    BY <2>1, <2>2, SamePlaceControl DEF board, loop
  <2>. QED
    BY <1>5, <2>1, <2>2
<1>8. CASE storeSdr
  <2>1. Loading /\ Continue(retryCount) /\ UNCHANGED <<board, recordTotal>>
    BY <1>8, Zenon DEF storeSdr, Loading
  <2>. QED
    BY <1>4, <2>1
<1>9. CASE storeSdrDies \/ pollDeviceSensors
  BY <1>9, DieControl DEF storeSdrDies, pollDeviceSensors, ReadingDies
<1>10. CASE exposeFruSensors
  <2>1. \/ Die
        \/ at = "expose" /\ at' = "poll" /\ UNCHANGED <<board, cache, seen, loop>>
    BY <1>10, Zenon DEF exposeFruSensors, ReadingDies
  <2>2. CASE at = "expose" /\ at' = "poll" /\ UNCHANGED <<board, cache, seen, loop>>
    BY <2>2 DEF board, loop, Control, Past, LoopPlace, Loading, Uncached, Constructing
  <2>. QED
    BY <2>1, <2>2, DieControl
<1>11. CASE checkSDRInfo
  <2>1. \/ Die
        \/ at = "poll" /\ at' = "reserve" /\ seen' = ind /\ UNCHANGED <<board, cache, loop>>
    BY <1>11, Zenon DEF checkSDRInfo
  <2>2. CASE at = "poll" /\ at' = "reserve" /\ seen' = ind /\ UNCHANGED <<board, cache, loop>>
    <3>1. ind \in 0..ind /\ ind # None
      BY <1>0, RecordAssumption DEF TypeBoard, Changes
    <3>. QED
      BY <2>2, <3>1 DEF board, loop, Control, Past, LoopPlace, Loading, Uncached, Constructing
  <2>. QED
    BY <2>1, <2>2, DieControl
<1>12. CASE Restart
  <2>1. at = "dead" /\ at' = "enumerate" /\ UNCHANGED <<board, cache, seen, loop>>
    BY <1>12 DEF Restart
  <2>. QED
    BY <2>1 DEF board, loop, Control, Past, LoopPlace, Loading, Uncached, Constructing
<1>13. ASSUME NEW r \in Records, PopulationChanges(r)
       PROVE  Control'
  <2>1. ind \in Nat /\ ind' = ind + 1 /\ UNCHANGED <<at, device, loop>>
    BY <1>0, <1>13 DEF PopulationChanges, TypeBoard, Changes
  <2>2. 0..ind \subseteq 0..ind'
    BY <2>1
  <2>. QED
    BY <2>1, <2>2 DEF device, loop, Control, Past, LoopPlace, Loading, Uncached, Constructing
<1>14. CASE UNCHANGED vars \/ pollIdle \/ BusRecovers
  <2>1. UNCHANGED <<ind, i, recordTotal, cache, seen, at>>
    BY <1>14 DEF vars, board, device, loop, pollIdle, BusRecovers
  <2>. QED
    BY <2>1, SamePlaceControl
<1>. QED
  BY <1>1, <1>2, <1>3, <1>6, <1>7, <1>8, <1>9, <1>10, <1>11, <1>12, <1>13, <1>14, NextCases

-----------------------------------------------------------------------------
(***************************************************************************)
(* CachedMeansCurrent.                                                     *)
(***************************************************************************)
\* The first element with a number, wherever getSensorRecord would look.
LEMMA FirstUnique ==
    ASSUME NEW s \in Seq(Sensor), NEW num, NEW k \in 1..Len(s), s[k].num = num,
           \A j \in 1..(k - 1) : s[j].num # num
    PROVE  (CHOOSE x \in DOMAIN s : s[x].num = num /\ \A j \in 1..(x - 1) : s[j].num # num) = k
<1>. DEFINE First(x) == s[x].num = num /\ \A j \in 1..(x - 1) : s[j].num # num
<1>1. Len(s) \in Nat /\ DOMAIN s = 1..Len(s)
  BY LenProperties
<1>2. First(k)
  OBVIOUS
<1>3. ASSUME NEW x \in 1..Len(s), First(x) PROVE x = k
  <2>1. ~(x < k)
    <3>1. x < k => x \in 1..(k - 1)
      BY <1>1
    <3>. QED
      BY <1>2, <1>3, <3>1
  <2>2. ~(k < x)
    <3>1. k < x => k \in 1..(x - 1)
      BY <1>1
    <3>. QED
      BY <1>2, <1>3, <3>1
  <2>. QED
    BY <1>1, <2>1, <2>2
<1>. HIDE DEF First
<1>4. (CHOOSE x \in DOMAIN s : First(x)) = k
  <2>1. \E x \in 1..Len(s) : First(x)
    BY <1>2
  <2>2. (CHOOSE x \in 1..Len(s) : First(x)) \in 1..Len(s)
        /\ First(CHOOSE x \in 1..Len(s) : First(x))
    BY <2>1
  <2>. QED
    BY <1>1, <1>3, <2>2
<1>. QED
  BY <1>4, Zenon DEF First

\* The same element in the next state.
LEMMA IndexAfter ==
    ASSUME sensors' \in Seq(Sensor), NEW num, NEW k \in 1..Len(sensors'),
           sensors'[k].num = num, \A j \in 1..(k - 1) : sensors'[j].num # num
    PROVE  Discovered(num)' /\ Index(num)' = k
<1>1. DOMAIN sensors' = 1..Len(sensors')
  BY LenProperties
<1>2. Discovered(num)'
  BY <1>1 DEF Discovered
<1>3. Index(num)' = k
  BY FirstUnique DEF Index
<1>. QED
  BY <1>2, <1>3

\* A list to which elements may be added keeps what it holds of a record whose
\* element it does not touch.
LEMMA HoldsKept ==
    ASSUME TypeSensors, sensors' \in Seq(Sensor), Len(sensors) <= Len(sensors'),
           \A k \in 1..Len(sensors) : sensors'[k].num = sensors[k].num,
           NEW r, Holds(r), sensors'[Index(r)].ver = sensors[Index(r)].ver, ver'[r] = ver[r]
    PROVE  Holds(r)'
<1>. DEFINE x == Index(r)
<1>1. /\ x \in 1..Len(sensors) /\ sensors[x].num = r
      /\ \A j \in 1..(x - 1) : sensors[j].num # r
  BY IndexIsFirst DEF Holds
<1>2. sensors[x].ver = ver[r] /\ sensors'[x].ver = ver'[r]
  BY DEF Holds
<1>. HIDE DEF x
<1>3. Len(sensors) \in Nat /\ Len(sensors') \in Nat
  BY LenProperties DEF TypeSensors
<1>4. x \in 1..Len(sensors')
  BY <1>1, <1>3
<1>5. sensors'[x].num = r /\ \A j \in 1..(x - 1) : sensors'[j].num # r
  <2>1. \A j \in 1..(x - 1) : j \in 1..Len(sensors)
    BY <1>1, <1>3
  <2>. QED
    BY <1>1, <2>1
<1>6. Discovered(r)' /\ Index(r)' = x
  BY <1>4, <1>5, IndexAfter
<1>. QED
  BY <1>2, <1>6 DEF Holds

\* handleFullSdr and handleCompactSdr write the first element with the number, or
\* append one; every other element stays as it is.
LEMMA HandleSdrWrites ==
    ASSUME TypeSensors, NEW num \in Nums, NEW v \in Versions, handleSdr(num, v)
    PROVE  /\ sensors' \in Seq(Sensor)
           /\ Len(sensors) <= Len(sensors')
           /\ \A k \in 1..Len(sensors) :
                /\ sensors'[k].num = sensors[k].num
                /\ sensors[k].num # num => sensors'[k] = sensors[k]
           /\ \E k \in 1..Len(sensors') :
                /\ sensors'[k].num = num /\ sensors'[k].ver = v
                /\ \A j \in 1..(k - 1) : sensors'[j].num # num
<1>1. PICK b \in BOOLEAN :
             sensors' = IF Discovered(num)
                        THEN [sensors EXCEPT ![Index(num)] =
                                [num |-> num, ver |-> v, iface |-> b]]
                        ELSE Append(sensors, [num |-> num, ver |-> v, iface |-> b])
  BY HandleSdrResult
<1>. DEFINE e == [num |-> num, ver |-> v, iface |-> b]
            x == Index(num)
<1>2. e \in Sensor /\ e.num = num /\ e.ver = v
  BY SensorBuilt
<1>3. sensors' = IF Discovered(num) THEN [sensors EXCEPT ![x] = e] ELSE Append(sensors, e)
  BY <1>1
<1>. HIDE DEF e
<1>4. Len(sensors) \in Nat /\ DOMAIN sensors = 1..Len(sensors) /\ sensors \in Seq(Sensor)
  BY LenProperties DEF TypeSensors
<1>5. CASE Discovered(num)
  <2>1. /\ x \in 1..Len(sensors) /\ sensors[x].num = num
        /\ \A y \in 1..(x - 1) : sensors[y].num # num
    BY <1>5, IndexIsFirst
  <2>. HIDE DEF x
  <2>2. /\ sensors' \in Seq(Sensor) /\ Len(sensors') = Len(sensors)
        /\ \A y \in 1..Len(sensors) : sensors'[y] = IF y = x THEN e ELSE sensors[y]
    BY <1>2, <1>3, <1>4, <1>5, <2>1, ExceptSeq
  <2>3. \A y \in 1..Len(sensors) : sensors'[y].num = sensors[y].num
    BY <1>2, <2>1, <2>2
  <2>4. \A y \in 1..Len(sensors) : sensors[y].num # num => sensors'[y] = sensors[y]
    BY <2>1, <2>2
  <2>5. \A y \in 1..(x - 1) : sensors'[y].num # num
    <3>1. \A y \in 1..(x - 1) : y \in 1..Len(sensors)
      BY <1>4, <2>1
    <3>. QED
      BY <2>1, <2>3, <3>1
  <2>6. sensors'[x].num = num /\ sensors'[x].ver = v /\ x \in 1..Len(sensors')
    BY <1>2, <2>1, <2>2
  <2>. QED
    BY <1>4, <2>2, <2>3, <2>4, <2>5, <2>6
<1>6. CASE ~Discovered(num)
  <2>. DEFINE n == Len(sensors) + 1
  <2>1. /\ sensors' \in Seq(Sensor) /\ Len(sensors') = n
        /\ \A y \in 1..Len(sensors) : sensors'[y] = sensors[y]
        /\ sensors'[n] = e
    BY <1>2, <1>3, <1>4, <1>6, AppendProperties
  <2>2. \A y \in 1..(n - 1) : sensors'[y].num # num
    BY <1>4, <1>6, <2>1 DEF Discovered
  <2>3. n \in 1..Len(sensors') /\ Len(sensors) <= Len(sensors')
    BY <1>4, <2>1
  <2>4. sensors'[n].num = num /\ sensors'[n].ver = v
    BY <1>2, <2>1
  <2>. HIDE DEF n
  <2>. QED
    BY <2>1, <2>2, <2>3, <2>4
<1>. QED
  BY <1>5, <1>6

\* The record that was stored is held, and so is every other one that was.
LEMMA HandleSdrHolds ==
    ASSUME TypeSensors, NEW num \in Nums, NEW v \in Versions, handleSdr(num, v),
           UNCHANGED ver
    PROVE  /\ v = ver[num] => Holds(num)'
           /\ \A r : r # num /\ Holds(r) => Holds(r)'
<1>1. /\ sensors' \in Seq(Sensor)
      /\ Len(sensors) <= Len(sensors')
      /\ \A k \in 1..Len(sensors) :
           /\ sensors'[k].num = sensors[k].num
           /\ sensors[k].num # num => sensors'[k] = sensors[k]
  BY HandleSdrWrites
<1>2. PICK k \in 1..Len(sensors') :
           /\ sensors'[k].num = num /\ sensors'[k].ver = v
           /\ \A j \in 1..(k - 1) : sensors'[j].num # num
  BY HandleSdrWrites
<1>3. v = ver[num] => Holds(num)'
  BY <1>1, <1>2, IndexAfter DEF Holds
<1>4. ASSUME NEW r, r # num, Holds(r) PROVE Holds(r)'
  <2>1. Index(r) \in 1..Len(sensors) /\ sensors[Index(r)].num = r
    BY <1>4, IndexIsFirst DEF Holds
  <2>2. sensors'[Index(r)] = sensors[Index(r)]
    BY <1>1, <1>4, <2>1
  <2>. QED
    BY <1>1, <1>4, <2>2, HoldsKept
<1>. QED
  BY <1>3, <1>4

\* While a reading for the board's present indicator goes on without loss, the
\* records before the loop's are held, and the sections read of the loop's are
\* of its present version.
Used == Full \cup Compact
ReadSoFar == Loading /\ seen = ind /\ ~lossy => \A r \in Used \cap 1..(i - 1) : Holds(r)
SectionsNew ==
    at \in {"vals", "store"} /\ seen = ind =>
        \A k \in 1..Len(parts) : parts[k].ver \in {ver[i], None}
Data == ReadSoFar /\ SectionsNew /\ CachedMeansCurrent

\* A reading with a loss claims nothing, and outside a reading and a poll there is
\* nothing to claim.
LEMMA LossVoid ==
    ASSUME lossy' = TRUE, at' \notin {"vals", "store"}
    PROVE  Data'
  BY Zenon DEF Data, ReadSoFar, SectionsNew, CachedMeansCurrent
LEMMA Elsewhere ==
    ASSUME at' \notin {"header", "vals", "store", "poll"}
    PROVE  Data'
  BY DEF Data, ReadSoFar, SectionsNew, CachedMeansCurrent, Loading
LEMMA DieData == Die => Data'
  BY Elsewhere DEF Die

\* An indicator that is not the board's claims nothing either.
LEMMA StaleVoid ==
    ASSUME seen' # ind', cache' # ind'
    PROVE  Data'
  BY DEF Data, ReadSoFar, SectionsNew, CachedMeansCurrent

\* The loop goes on, or getAllSDRs returns, with everything up to the loop's record
\* held.
LEMMA ContinueData ==
    ASSUME TypeSensors, TypeBoard, Control, Loading, NEW retries, Continue(retries),
           UNCHANGED <<board, recordTotal>>,
           seen = ind /\ ~lossy' => \A r \in Used \cap 1..i : Holds(r)'
    PROVE  Data'
<1>0. i \in 1..recordTotal /\ recordTotal \in Nat
  BY DEF Control, LoopPlace, TypeSensors
<1>1. CASE i < recordTotal
  <2>1. i' = i + 1 /\ at' = "header" /\ UNCHANGED <<ind, seen>>
    BY <1>1 DEF Continue, board
  <2>2. 1..(i' - 1) = 1..i
    BY <1>0, <2>1
  <2>3. ReadSoFar'
    BY <2>1, <2>2, Zenon DEF ReadSoFar
  <2>. QED
    BY <2>1, <2>3 DEF Data, SectionsNew, CachedMeansCurrent
<1>2. CASE ~(i < recordTotal)
  <2>1. Return /\ UNCHANGED ind
    BY <1>2 DEF Continue, board
  <2>2. /\ at' \in {"enumerate", "expose", "poll"}
        /\ at' = "poll" => cache' = seen
    BY <2>1, ReturnControl
  <2>3. 1..recordTotal' = 1..i
    BY <1>0, <1>2
  <2>4. Known' \subseteq Used \cap 1..i
    BY <1>0, <2>3, RecordAssumption DEF Known, Used, Records
  <2>5. CachedMeansCurrent'
    BY <2>1, <2>2, <2>4, Zenon DEF CachedMeansCurrent, Current
  <2>. QED
    BY <2>2, <2>5 DEF Data, ReadSoFar, SectionsNew, Loading
<1>. QED
  BY <1>1, <1>2

\* A section that a response brought is of the version the record now has.
LEMMA SectionData ==
    ASSUME TypeReader, Data, at = "vals", at' \in {"vals", "store"}, i \in Records,
           NEW p \in Part, p.ver \in {ver[i], None}, parts' = Append(parts, p),
           UNCHANGED <<board, sensors, i, seen, lossy>>
    PROVE  Data'
<1>1. /\ Len(parts) \in Nat /\ Len(parts') = Len(parts) + 1
      /\ \A k \in 1..Len(parts) : parts'[k] = parts[k]
      /\ parts'[Len(parts) + 1] = p
  BY AppendProperties, LenProperties DEF TypeReader
<1>2. \A k \in 1..Len(parts') : k \in 1..Len(parts) \/ k = Len(parts) + 1
  BY <1>1
<1>3. SectionsNew'
  <2>. SUFFICES ASSUME seen = ind, NEW k \in 1..Len(parts')
                PROVE  parts'[k].ver \in {ver[i], None}
    BY DEF SectionsNew, board
  <2>1. CASE k \in 1..Len(parts)
    BY <1>1, <2>1 DEF Data, SectionsNew
  <2>2. CASE k = Len(parts) + 1
    BY <1>1, <2>2
  <2>. QED
    BY <1>2, <2>1, <2>2
<1>4. ReadSoFar'
  <2>1. Loading
    BY DEF Loading
  <2>. QED
    BY <2>1, Zenon DEF Data, ReadSoFar, board, Holds, Discovered, Index
<1>5. CachedMeansCurrent'
  BY DEF CachedMeansCurrent
<1>. QED
  BY <1>3, <1>4, <1>5 DEF Data

\* The contents of a record all of whose sections came are its present ones.
LEMMA ContentsNew ==
    ASSUME TypeBoard, TypeReader, SectionsNew, at = "store", seen = ind, i \in Records,
           Brought = Body, Body # {}
    PROVE  Contents = ver[i]
<1>1. DOMAIN parts = 1..Len(parts)
  BY LenProperties DEF TypeReader
<1>2. \A k \in Body : parts[k].ver = ver[i]
  BY <1>1 DEF SectionsNew, Body, Brought
<1>3. ver[i] \in Changes
  BY DEF TypeBoard
<1>4. \E v \in Changes : \A k \in Body : parts[k].ver = v
  BY <1>2, <1>3
<1>5. ASSUME NEW v \in Changes, \A k \in Body : parts[k].ver = v PROVE v = ver[i]
  BY <1>2, <1>5
<1>. QED
  BY <1>4, <1>5 DEF Contents

\* What storing the loop's record means for the records up to it.
LEMMA StoreData ==
    ASSUME IInv, Control, Data, storeSdr
    PROVE  Data'
<1>0. TypeBoard /\ TypeReader /\ TypeSensors /\ TypeLoop /\ Tiled
  BY TypeParts DEF IInv
<1>1. /\ at = "store" /\ Loading /\ Continue(retryCount)
      /\ UNCHANGED <<board, recordTotal>>
  BY Zenon DEF storeSdr, Loading
<1>2. at' \notin {"vals", "store"}
  BY <1>1, ContinuePlace
<1>3. CASE lossy' = TRUE
  BY <1>2, <1>3, LossVoid
<1>4. i \in Records /\ i \in Nums /\ i \in Nat /\ UNCHANGED <<ind, ver>>
  BY <1>0, <1>1 DEF Tiled, Nums, Records, board
<1>5. Used \cap 1..i \subseteq (Used \cap 1..(i - 1)) \cup ({i} \cap Used)
  BY <1>4
<1>6. CASE i \notin Used /\ UNCHANGED <<sensors, lossy>>
  <2>1. seen = ind /\ ~lossy => \A r \in Used \cap 1..(i - 1) : Holds(r)
    BY <1>1, Zenon DEF Data, ReadSoFar
  <2>2. \A r : Holds(r) => Holds(r)'
    BY <1>4, <1>6 DEF Holds, Discovered, Index
  <2>3. seen = ind /\ ~lossy' => \A r \in Used \cap 1..i : Holds(r)'
    BY <1>5, <1>6, <2>1, <2>2, Zenon
  <2>. QED
    BY <1>0, <1>1, <2>3, ContinueData
<1>7. CASE Brought = Body /\ Body # {} /\ handleSdr(i, Contents) /\ UNCHANGED lossy
  <2>1. Contents \in Versions
    BY ContentsType DEF Versions
  <2>2. PICK n \in Nums, v \in Versions : n = i /\ v = Contents
    BY <1>4, <2>1
  <2>3. handleSdr(n, v)
    BY <1>7, <2>2, Zenon
  <2>4. /\ v = ver[n] => Holds(n)'
        /\ \A r : r # n /\ Holds(r) => Holds(r)'
    BY <1>0, <1>4, <2>3, HandleSdrHolds
  <2>5. seen = ind => Contents = ver[i]
    BY <1>0, <1>1, <1>4, <1>7, ContentsNew DEF Data
  <2>6. seen = ind /\ ~lossy => \A r \in Used \cap 1..(i - 1) : Holds(r)
    BY <1>1, Zenon DEF Data, ReadSoFar
  <2>7. seen = ind /\ ~lossy' => \A r \in Used \cap 1..i : Holds(r)'
    <3>. SUFFICES ASSUME seen = ind, ~lossy', NEW r \in Used, r \in 1..i
                  PROVE  Holds(r)'
      BY Zenon
    <3>1. CASE r = i
      BY <2>2, <2>4, <2>5, <3>1
    <3>2. CASE r # i
      <4>1. r \in 1..(i - 1)
        BY <1>4, <3>2
      <4>2. ~lossy
        BY <1>7
      <4>3. Holds(r)
        BY <2>6, <4>1, <4>2, Zenon
      <4>. QED
        BY <2>2, <2>4, <3>2, <4>3
    <3>. QED
      BY <3>1, <3>2
  <2>. QED
    BY <1>0, <1>1, <2>7, ContinueData
<1>. QED
  BY <1>3, <1>6, <1>7, Zenon DEF storeSdr, Used

\* Every step keeps it.
LEMMA NextData ==
    ASSUME IInv, Control, Data, [Next]_vars
    PROVE  Data'
<1>0. TypeBoard /\ TypeReader /\ TypeSensors /\ TypeLoop /\ Tiled
  BY TypeParts DEF IInv
<1>1. CASE enumerateFRUSensors \/ otherGroup \/ checkSDRInfo \/ Restart
  <2>1. at' \notin {"header", "vals", "store", "poll"}
    BY <1>1 DEF enumerateFRUSensors, otherGroup, NextFru, checkSDRInfo, Restart, Die
  <2>. QED
    BY <2>1, Elsewhere
<1>2. CASE storeSdrDies \/ pollDeviceSensors
  BY <1>2, DieData DEF storeSdrDies, pollDeviceSensors, ReadingDies
<1>3. CASE reserveSDRRepo
  <2>1. CASE /\ at = "reserve" /\ at' = "header" /\ UNCHANGED i
    <3>1. i' = 1 /\ 1..(i' - 1) = {}
      BY <2>1 DEF Control, LoopPlace, Loading
    <3>. QED
      BY <2>1, <3>1 DEF Data, ReadSoFar, SectionsNew, CachedMeansCurrent
  <2>2. CASE at = "reserve" /\ Return /\ ~(recordTotal > 0) /\ UNCHANGED <<board, recordTotal>>
    <3>1. at' \in {"enumerate", "expose", "poll"}
      BY <2>2, ReturnControl DEF board
    <3>2. Known' = {}
      BY <1>0, <2>2, RecordAssumption DEF TypeSensors, Known, Records
    <3>. QED
      BY <3>1, <3>2 DEF Data, ReadSoFar, SectionsNew, CachedMeansCurrent, Current, Loading
  <2>. QED
    BY <1>3, <2>1, <2>2, DieData, Zenon DEF reserveSDRRepo
<1>4. CASE Failed
  BY <1>4, FailedPlace, LossVoid DEF Failed
<1>5. CASE getSDRHeader
  <2>1. \/ Failed
        \/ lossy' = TRUE /\ Continue(retryCount)
        \/ /\ at = "header" /\ at' = "vals" /\ parts' = <<>>
           /\ UNCHANGED <<cache, seen, loop, lossy, board, sensors, recordTotal>>
    BY <1>5, Zenon DEF getSDRHeader
  <2>2. CASE lossy' = TRUE /\ Continue(retryCount)
    BY <2>2, ContinuePlace, LossVoid
  <2>3. CASE /\ at = "header" /\ at' = "vals" /\ parts' = <<>>
             /\ UNCHANGED <<cache, seen, loop, lossy, board, sensors, recordTotal>>
    <3>1. ReadSoFar'
      BY <2>3, Zenon DEF Data, ReadSoFar, Loading, Holds, Discovered, Index, board, loop
    <3>2. SectionsNew'
      BY <2>3 DEF SectionsNew
    <3>. QED
      BY <2>3, <3>1, <3>2 DEF Data, CachedMeansCurrent
  <2>. QED
    BY <1>4, <2>1, <2>2, <2>3
<1>6. CASE getSDRVals /\ ~Failed
  <2>1. PICK v \in {ver[i]} \cup (IF "empty" \in Replies THEN {None} ELSE {}) :
          /\ at = "vals"
          /\ parts' = Append(parts, [off |-> sectiontotal, len |-> AskedFor, ver |-> v])
          /\ at' \in {"vals", "store"}
          /\ UNCHANGED <<board, sensors, seen, loop, lossy>>
    BY <1>6 DEF getSDRVals
  <2>. DEFINE p == [off |-> sectiontotal, len |-> AskedFor, ver |-> v]
  <2>2. v \in {ver[i], None} /\ i \in Records /\ total <= length
    BY <1>0, <2>1 DEF Tiled, Counters
  <2>3. p \in Part /\ p.ver = v
    BY <1>0, <2>2, AskedForType DEF TypeReader, TypeBoard, Part
  <2>4. parts' = Append(parts, p)
    BY <2>1
  <2>. HIDE DEF p
  <2>. QED
    BY <1>0, <2>1, <2>2, <2>3, <2>4, SectionData DEF loop
<1>7. CASE storeSdr
  BY <1>7, StoreData
<1>8. CASE exposeFruSensors
  <2>1. \/ Die
        \/ at = "expose" /\ at' = "poll" /\ UNCHANGED <<board, cache, seen>>
    BY <1>8, Zenon DEF exposeFruSensors, ReadingDies
  <2>2. CASE at = "expose" /\ at' = "poll" /\ UNCHANGED <<board, cache, seen>>
    <3>1. cache' = None /\ ind' \in Changes
      BY <1>0, <2>2 DEF Control, Uncached, Constructing, board, TypeBoard
    <3>2. cache' # ind'
      BY <3>1, RecordAssumption
    <3>. QED
      BY <2>2, <3>2 DEF Data, ReadSoFar, SectionsNew, CachedMeansCurrent, Loading
  <2>. QED
    BY <2>1, <2>2, DieData
<1>9. ASSUME NEW r \in Records, PopulationChanges(r)
      PROVE  Data'
  <2>1. ind \in Nat /\ ind' = ind + 1 /\ ind' \in Changes /\ UNCHANGED <<cache, seen>>
    BY <1>0, <1>9, RecordAssumption DEF PopulationChanges, TypeBoard, Changes, device
  <2>2. ind' \notin 0..ind /\ ind' # None
    BY <2>1, RecordAssumption
  <2>. QED
    BY <2>1, <2>2, StaleVoid DEF Control, Past
<1>10. CASE UNCHANGED vars \/ pollIdle \/ BusRecovers
  <2>1. UNCHANGED <<ind, ver, count, i, recordTotal, cache, seen, at, sensors, parts, lossy>>
    BY <1>10 DEF vars, board, device, loop, reader, pollIdle, BusRecovers
  <2>0. Known' = Known
    BY <2>1 DEF Known
  <2>2. \A r : Holds(r) => Holds(r)'
    BY <2>1 DEF Holds, Discovered, Index
  <2>3. CachedMeansCurrent'
    BY <2>0, <2>1, <2>2, Zenon DEF Data, CachedMeansCurrent, Current
  <2>4. ReadSoFar'
    BY <2>1, <2>2, Zenon DEF Data, ReadSoFar, Loading
  <2>5. SectionsNew'
    BY <2>1 DEF Data, SectionsNew
  <2>. QED
    BY <2>3, <2>4, <2>5 DEF Data
<1>11. CASE getSDRVals /\ Failed
  BY <1>4, <1>11
<1>. QED
  BY <1>1, <1>2, <1>3, <1>5, <1>6, <1>7, <1>8, <1>9, <1>10, <1>11, NextCases

\* It holds initially.
LEMMA InitControlData == Init => Control /\ Data
<1>. SUFFICES ASSUME Init PROVE Control /\ Data
  OBVIOUS
<1>1. at = "enumerate" /\ i = 1 /\ cache = None /\ seen = None
  BY DEF Init
<1>2. Control
  BY <1>1 DEF Control, Past, LoopPlace, Loading, Uncached
<1>3. Data
  BY <1>1 DEF Data, ReadSoFar, SectionsNew, CachedMeansCurrent, Loading
<1>. QED
  BY <1>2, <1>3

\* A cached indicator that is the board's means that the manager has the board's
\* present records, if the last reading lost nothing: checkSDRInfo caches the
\* indicator from before the reading, so a change during it is read again.
THEOREM PopulationCachedMeansCurrent == Spec => []CachedMeansCurrent
<1>1. IInv /\ Control /\ Data /\ [Next]_vars => Control' /\ Data'
  BY NextControl, NextData
<1>2. Data => CachedMeansCurrent
  BY DEF Data
<1>. QED
  BY <1>1, <1>2, InitIInv, NextIInv, InitControlData, PTL DEF Spec

-----------------------------------------------------------------------------
(***************************************************************************)
(* CompactStays.                                                           *)
(***************************************************************************)
\* Nothing is on D-Bus before the constructor is over, so exposeFruSensors, which
\* decides for every sensor anew, takes nothing away.
Unpublished == Constructing => \A k \in 1..Len(sensors) : sensors[k].iface = FALSE

\* An element that handleFullSdr or handleCompactSdr writes is on D-Bus only if it
\* was, and stays there if the record is compact.
LEMMA HandleSdrInterface ==
    ASSUME TypeSensors, NEW num \in Nums, NEW v \in Versions, handleSdr(num, v)
    PROVE  /\ \A k \in 1..Len(sensors') :
                \/ sensors'[k].iface = FALSE
                \/ k \in 1..Len(sensors) /\ sensors'[k].iface = sensors[k].iface
           /\ i \in Compact => \A k \in 1..Len(sensors) : sensors'[k].iface = sensors[k].iface
<1>1. Len(sensors) \in Nat /\ DOMAIN sensors = 1..Len(sensors) /\ sensors \in Seq(Sensor)
  BY LenProperties DEF TypeSensors
<1>2. CASE Discovered(num)
  <2>. DEFINE x == Index(num)
  <2>1. x \in 1..Len(sensors)
    BY <1>2, IndexIsFirst
  <2>2. PICK b \in BOOLEAN : b = (i \in Compact /\ sensors[x].iface)
    BY Zenon
  <2>. DEFINE e == [num |-> num, ver |-> v, iface |-> b]
  <2>3. sensors' = [sensors EXCEPT ![x] = e]
    BY <1>2, <2>2, Zenon DEF handleSdr
  <2>4. e \in Sensor /\ e.iface = b
    BY SensorBuilt
  <2>5. sensors[x].iface \in BOOLEAN
    <3>1. sensors[x] \in Sensor
      BY <1>1, <2>1, ElementOfSeq
    <3>. QED
      BY <3>1 DEF Sensor
  <2>6. (b = FALSE \/ b = sensors[x].iface) /\ (i \in Compact => b = sensors[x].iface)
    BY <2>2, <2>5, Zenon
  <2>. HIDE DEF x, e
  <2>7. /\ Len(sensors') = Len(sensors)
        /\ \A y \in 1..Len(sensors) : sensors'[y] = IF y = x THEN e ELSE sensors[y]
    BY <1>1, <2>1, <2>3, <2>4, ExceptSeq
  <2>. QED
    BY <2>4, <2>6, <2>7
<1>3. CASE ~Discovered(num)
  <2>. DEFINE e == [num |-> num, ver |-> v, iface |-> FALSE]
  <2>1. sensors' = Append(sensors, e)
    BY <1>3, Zenon DEF handleSdr
  <2>2. e \in Sensor /\ e.iface = FALSE
    BY SensorBuilt
  <2>. HIDE DEF e
  <2>3. /\ Len(sensors') = Len(sensors) + 1
        /\ \A y \in 1..Len(sensors) : sensors'[y] = sensors[y]
        /\ sensors'[Len(sensors) + 1] = e
    BY <1>1, <2>1, <2>2, AppendProperties
  <2>4. \A k \in 1..Len(sensors') : k \in 1..Len(sensors) \/ k = Len(sensors) + 1
    BY <1>1, <2>3
  <2>. QED
    BY <2>2, <2>3, <2>4
<1>. QED
  BY <1>2, <1>3

\* The mandatory sensors of a FRU are not on D-Bus, and the others stay as they are.
LEMMA MandatoryInterface ==
    ASSUME TypeSensors,
           sensors' = sensors \o [k \in 1..Len(Mandatory) |->
                        [num |-> Mandatory[k], ver |-> None, iface |-> FALSE]]
    PROVE  /\ Len(sensors) <= Len(sensors') /\ sensors' \in Seq(Sensor)
           /\ \A k \in 1..Len(sensors) : sensors'[k] = sensors[k]
           /\ \A k \in 1..Len(sensors') :
                k \in 1..Len(sensors) \/ sensors'[k].iface = FALSE
<1>. DEFINE more == [k \in 1..Len(Mandatory) |->
                       [num |-> Mandatory[k], ver |-> None, iface |-> FALSE]]
<1>1. more \in Seq(Sensor) /\ \A k \in 1..Len(more) : more[k].iface = FALSE
  BY MandatoryAppended
<1>2. sensors' = sensors \o more
  OBVIOUS
<1>. HIDE DEF more
<1>3. sensors \in Seq(Sensor) /\ Len(sensors) \in Nat /\ Len(more) \in Nat
  BY <1>1, LenProperties DEF TypeSensors
<1>4. /\ sensors' \in Seq(Sensor) /\ Len(sensors') = Len(sensors) + Len(more)
      /\ \A y \in 1..(Len(sensors) + Len(more)) :
           sensors'[y] = IF y <= Len(sensors) THEN sensors[y] ELSE more[y - Len(sensors)]
  BY <1>1, <1>2, <1>3, ConcatProperties
<1>5. \A y \in 1..Len(sensors') : y \in 1..Len(sensors) \/ y - Len(sensors) \in 1..Len(more)
  BY <1>3, <1>4
<1>. QED
  BY <1>1, <1>3, <1>4, <1>5

\* Only the end of the process leads back to the constructor.
LEMMA EntersConstructor ==
    ASSUME IInv, Control, [Next]_vars, Constructing'
    PROVE  Constructing \/ sensors' = <<>>
<1>0. TypeBoard
  BY TypeParts DEF IInv
<1>1. CASE Die
  BY <1>1 DEF Die
<1>2. CASE Loading \/ at = "reserve"
  <2>1. CASE seen = None
    BY <1>2, <2>1 DEF Constructing, Loading
  <2>2. CASE seen # None
    <3>1. CASE Return
      <4>1. at' = "poll"
        BY <2>2, <3>1 DEF Return
      <4>. QED
        BY <4>1 DEF Constructing
    <3>2. CASE Loading' /\ UNCHANGED seen
      BY <2>2, <3>2 DEF Constructing, Loading
    <3>3. CASE UNCHANGED <<at, seen>>
      BY <3>3 DEF Constructing
    <3>4. \A retries : Continue(retries) => Return \/ (Loading' /\ UNCHANGED seen)
      BY DEF Continue, Loading
    <3>5. CASE reserveSDRRepo
      BY <1>1, <3>1, <3>2, <3>5 DEF reserveSDRRepo, Loading
    <3>6. CASE getSDRHeader \/ getSDRVals
      BY <3>1, <3>2, <3>4, <3>6 DEF getSDRHeader, getSDRVals, Failed, Loading
    <3>7. CASE storeSdr \/ storeSdrDies
      BY <1>1, <3>1, <3>2, <3>4, <3>7 DEF storeSdr, storeSdrDies
    <3>8. CASE UNCHANGED vars \/ BusRecovers \/ \E r \in Records : PopulationChanges(r)
      BY <3>3, <3>8 DEF vars, device, BusRecovers, PopulationChanges
    <3>. QED
      BY <1>2, <3>5, <3>6, <3>7, <3>8, NextCases
         DEF Loading, enumerateFRUSensors, otherGroup, exposeFruSensors, pollDeviceSensors,
             checkSDRInfo, pollIdle, Restart
  <2>. QED
    BY <2>1, <2>2
<1>3. CASE at = "poll"
  <2>1. \/ Die
        \/ at' = "reserve" /\ seen' = ind
        \/ UNCHANGED at
    BY <1>3, NextCases
       DEF enumerateFRUSensors, otherGroup, reserveSDRRepo, getSDRHeader, getSDRVals,
           storeSdr, storeSdrDies, exposeFruSensors, pollDeviceSensors, ReadingDies,
           checkSDRInfo, pollIdle, Restart, PopulationChanges, BusRecovers, vars
  <2>2. ind # None
    BY <1>0, RecordAssumption DEF TypeBoard
  <2>. QED
    BY <1>1, <1>3, <2>1, <2>2 DEF Constructing
<1>4. at \in Places
  BY TypeParts DEF IInv, TypeLoop
<1>. QED
  BY <1>2, <1>3, <1>4 DEF Constructing, Loading, Places

\* What a step does to the interfaces of the sensors.
LEMMA SensorsStep ==
    ASSUME IInv, [Next]_vars
    PROVE  \/ UNCHANGED sensors
           \/ Die
           \/ sensors' = sensors \o [k \in 1..Len(Mandatory) |->
                           [num |-> Mandatory[k], ver |-> None, iface |-> FALSE]]
           \/ exposeFruSensors /\ at = "expose" /\ at' = "poll"
           \/ i \in Used /\ i \in Nums /\ handleSdr(i, Contents)
           \/ lossy' = TRUE /\ \E num \in Nums : handleSdr(num, Torn)
<1>1. Tiled
  BY DEF IInv
<1>2. CASE enumerateFRUSensors
  BY <1>2, Zenon DEF enumerateFRUSensors
<1>3. CASE storeSdr
  <2>1. i \in Nums
    BY <1>1, <1>3 DEF storeSdr, Tiled, Nums
  <2>. QED
    BY <1>3, <2>1 DEF storeSdr, Used
<1>4. CASE exposeFruSensors
  BY <1>4, Zenon DEF exposeFruSensors, ReadingDies
<1>5. CASE UNCHANGED vars \/ otherGroup \/ reserveSDRRepo \/ getSDRHeader \/ getSDRVals
  BY <1>5 DEF vars, device, otherGroup, reserveSDRRepo, getSDRHeader, getSDRVals
<1>6. CASE \/ storeSdrDies \/ pollDeviceSensors \/ checkSDRInfo \/ pollIdle \/ Restart
           \/ BusRecovers \/ \E r \in Records : PopulationChanges(r)
  BY <1>6 DEF storeSdrDies, pollDeviceSensors, ReadingDies, checkSDRInfo,
    pollIdle, Restart, BusRecovers, PopulationChanges, device, vars
<1>. QED
  BY <1>2, <1>3, <1>4, <1>5, <1>6, NextCases

\* Nothing is on D-Bus during construction.
LEMMA NextUnpublished ==
    ASSUME IInv, Control, Unpublished, [Next]_vars
    PROVE  Unpublished'
<1>0. TypeSensors
  BY TypeParts DEF IInv
<1>. SUFFICES ASSUME Constructing'
              PROVE  \A k \in 1..Len(sensors') : sensors'[k].iface = FALSE
  BY DEF Unpublished
<1>1. CASE sensors' = <<>>
  BY <1>1
<1>2. CASE Constructing
  <2>1. \A k \in 1..Len(sensors) : sensors[k].iface = FALSE
    BY <1>2 DEF Unpublished
  <2>2. CASE UNCHANGED sensors
    BY <2>1, <2>2
  <2>3. CASE Die
    BY <1>1, <2>3 DEF Die
  <2>4. CASE sensors' = sensors \o [k \in 1..Len(Mandatory) |->
                           [num |-> Mandatory[k], ver |-> None, iface |-> FALSE]]
    BY <1>0, <2>1, <2>4, MandatoryInterface
  <2>5. at' # "poll"
    BY DEF Constructing
  <2>6. ASSUME NEW num \in Nums, NEW v \in Versions, handleSdr(num, v)
        PROVE  \A k \in 1..Len(sensors') : sensors'[k].iface = FALSE
    BY <1>0, <2>1, <2>6, HandleSdrInterface
  <2>7. Contents \in Versions /\ Torn \in Versions
    BY ContentsType DEF Versions
  <2>. QED
    BY <2>2, <2>3, <2>4, <2>5, <2>6, <2>7, SensorsStep
<1>. QED
  BY <1>1, <1>2, EntersConstructor

\* A step that loses nothing leaves a compact sensor on D-Bus.
LEMMA CompactStep ==
    ASSUME IInv, Unpublished, [Next]_vars, NEW num \in Compact, Published(num),
           ~lossy', at' # "dead"
    PROVE  Published(num)'
<1>0. TypeSensors
  BY TypeParts DEF IInv
<1>1. PICK k \in 1..Len(sensors) : sensors[k].num = num /\ sensors[k].iface
  BY <1>0, LenProperties DEF Published, TypeSensors
<1>2. sensors[k].iface = TRUE /\ sensors[k] \in Sensor
  <2>1. sensors[k] \in Sensor
    BY <1>0, ElementOfSeq DEF TypeSensors
  <2>2. sensors[k].iface \in BOOLEAN
    BY <2>1 DEF Sensor
  <2>. QED
    BY <1>1, <2>1, <2>2, Zenon
<1>3. ASSUME sensors' \in Seq(Sensor), k \in 1..Len(sensors'), sensors'[k].num = num,
             sensors'[k].iface = TRUE
      PROVE  Published(num)'
  <2>1. k \in DOMAIN sensors'
    BY <1>3, LenProperties
  <2>. QED
    BY <1>3, <2>1, Zenon DEF Published
<1>4. CASE UNCHANGED sensors
  BY <1>0, <1>1, <1>2, <1>3, <1>4 DEF TypeSensors
<1>5. CASE sensors' = sensors \o [j \in 1..Len(Mandatory) |->
                         [num |-> Mandatory[j], ver |-> None, iface |-> FALSE]]
  <2>1. /\ Len(sensors) <= Len(sensors') /\ sensors' \in Seq(Sensor)
        /\ sensors'[k] = sensors[k]
    BY <1>0, <1>5, MandatoryInterface
  <2>2. k \in 1..Len(sensors')
    BY <1>0, <2>1, LenProperties DEF TypeSensors
  <2>. QED
    BY <1>1, <1>2, <1>3, <2>1, <2>2
<1>6. at # "expose"
  BY <1>2 DEF Unpublished, Constructing
<1>7. CASE i \in Used /\ i \in Nums /\ handleSdr(i, Contents)
  <2>1. Contents \in Versions
    BY ContentsType DEF Versions
  <2>2. /\ sensors' \in Seq(Sensor)
        /\ Len(sensors) <= Len(sensors')
        /\ sensors'[k].num = sensors[k].num
        /\ sensors[k].num # i => sensors'[k] = sensors[k]
    BY <1>0, <1>7, <2>1, HandleSdrWrites
  <2>3. i \in Compact => sensors'[k].iface = sensors[k].iface
    BY <1>0, <1>7, <2>1, HandleSdrInterface
  <2>4. k \in 1..Len(sensors')
    BY <1>0, <2>2, LenProperties DEF TypeSensors
  <2>5. sensors'[k].iface = sensors[k].iface
    BY <1>1, <2>2, <2>3
  <2>. QED
    BY <1>1, <1>2, <1>3, <2>2, <2>4, <2>5
<1>8. CASE Die
  BY <1>8 DEF Die
<1>9. lossy' # TRUE
  BY Zenon
<1>. QED
  BY <1>4, <1>5, <1>6, <1>7, <1>8, <1>9, SensorsStep

\* A compact sensor that is on D-Bus stays there until ipmid ends, unless a response
\* was lost: handleCompactSdr keeps the interface, handleFullSdr does not reach a
\* compact sensor, and exposeFruSensors runs before anything is on D-Bus.
THEOREM PopulationCompactStays == Spec => CompactStays
<1>1. Init => IInv /\ Control /\ Unpublished
  BY InitIInv, InitControlData DEF Init, Unpublished
<1>2. IInv /\ Control /\ Unpublished /\ [Next]_vars => IInv' /\ Control' /\ Unpublished'
  BY NextIInv, NextControl, NextUnpublished
<1>3. IInv /\ Unpublished /\ [Next]_vars =>
        [\A num \in Compact : Published(num) /\ ~lossy' /\ at' # "dead" =>
            at = "dead" \/ Published(num)']_vars
  BY CompactStep
<1>. QED
  BY <1>1, <1>2, <1>3, PTL DEF Spec, CompactStays

-----------------------------------------------------------------------------
(***************************************************************************)
(* getAllSDRs ends.  What ChangeIsRead needs besides fairness: a measure   *)
(* of the requests a reading may still make, which each of its steps       *)
(* decreases and which the board cannot increase.                          *)
(***************************************************************************)
\* A record takes its header, at most length sections and its storing.
Budget == Byte + 3
RecordsLeft == (recordTotal - i) * Budget
RequestsLeft ==
    CASE at = "reserve" -> recordTotal * Budget + 1
      [] at = "header" -> RecordsLeft + Byte + 2
      [] at = "vals" -> RecordsLeft + 2 + (length - total)
      [] at = "store" -> RecordsLeft + 1
      [] OTHER -> 0

\* A reading is under way.
InReading == at \in {"reserve", "header", "vals", "store"}

\* What a reading has left, at most what all records of the board take.
ReadingBounded ==
    /\ InReading => RequestsLeft \in 1..(NumRecords * Budget + 1)
    /\ ~InReading => RequestsLeft = 0

\* A step of a reading takes one of the requests left, and no step adds one.
ReadingStep ==
    /\ InReading => RequestsLeft' <= RequestsLeft
    /\ Load => RequestsLeft' < RequestsLeft

\* What is left, by place.
LEMMA LeftAt ==
    /\ at = "reserve" => RequestsLeft = recordTotal * Budget + 1
    /\ at = "header" => RequestsLeft = RecordsLeft + Byte + 2
    /\ at = "vals" => RequestsLeft = RecordsLeft + 2 + (length - total)
    /\ at = "store" => RequestsLeft = RecordsLeft + 1
    /\ at \notin {"reserve", "header", "vals", "store"} => RequestsLeft = 0
  BY DEF RequestsLeft
LEMMA LeftAfter ==
    /\ at' = "header" => RequestsLeft' = RecordsLeft' + Byte + 2
    /\ at' = "vals" => RequestsLeft' = RecordsLeft' + 2 + (length' - total')
    /\ at' = "store" => RequestsLeft' = RecordsLeft' + 1
    /\ at' \notin {"reserve", "header", "vals", "store"} => RequestsLeft' = 0
  BY DEF RequestsLeft

\* Products of the records left.
LEMMA Turns ==
    ASSUME NEW m \in Nat, NEW n \in Nat, NEW k \in Nat
    PROVE  /\ (m + 1) * k = m * k + k
           /\ m * k \in Nat
           /\ m <= n => m * k <= n * k
<1>1. (m + 1) * k = m * k + k /\ m * k \in Nat
  OBVIOUS
<1>2. ASSUME m <= n PROVE m * k <= n * k
  <2>1. PICK e \in Nat : n = m + e
    BY <1>2
  <2>2. (m + e) * k = m * k + e * k /\ m * k \in Nat /\ e * k \in Nat
    OBVIOUS
  <2>. QED
    BY <2>1, <2>2
<1>. QED
  BY <1>1, <1>2

\* In the loop the records left are a number, and so are the bytes left.
LEMMA LeftType ==
    ASSUME TypeSensors, TypeReader, Tiled, Control
    PROVE  /\ Byte \in Nat /\ Budget \in Nat /\ Budget = Byte + 3
           /\ recordTotal \in Nat /\ recordTotal <= NumRecords
           /\ recordTotal * Budget \in Nat
           /\ Loading => RecordsLeft \in Nat /\ recordTotal - i \in Nat
                         /\ RecordsLeft + Budget <= recordTotal * Budget
           /\ at = "vals" => length - total \in 0..(Byte - 1)
<1>1. Byte \in Nat /\ Budget \in Nat /\ Budget = Byte + 3
  BY LengthAssumption DEF Budget
<1>2. recordTotal \in Nat /\ recordTotal <= NumRecords
  BY RecordAssumption DEF TypeSensors
<1>. HIDE DEF Budget
<1>3. recordTotal * Budget \in Nat
  BY <1>1, <1>2, Turns
<1>4. ASSUME Loading
      PROVE  RecordsLeft \in Nat /\ recordTotal - i \in Nat
             /\ RecordsLeft + Budget <= recordTotal * Budget
  <2>1. PICK m \in Nat : m = recordTotal - i /\ m + 1 <= recordTotal
    BY <1>2, <1>4 DEF Control, LoopPlace
  <2>2. RecordsLeft = m * Budget
    BY <2>1 DEF RecordsLeft
  <2>3. /\ m * Budget \in Nat /\ (m + 1) * Budget = m * Budget + Budget
        /\ (m + 1) * Budget <= recordTotal * Budget
    BY <1>1, <1>2, <2>1, Turns, m + 1 \in Nat
  <2>. QED
    BY <2>1, <2>2, <2>3
<1>5. ASSUME at = "vals" PROVE length - total \in 0..(Byte - 1)
  <2>1. total <= length
    BY <1>5 DEF Tiled, Counters
  <2>. QED
    BY <2>1, <1>1 DEF TypeReader
<1>. QED
  BY <1>1, <1>2, <1>3, <1>4, <1>5

\* A reading has a request left, and not more than NumRecords whole records have.
LEMMA LeftBounds ==
    ASSUME IInv, Control
    PROVE  /\ InReading => RequestsLeft \in 1..(NumRecords * Budget + 1)
           /\ ~InReading => RequestsLeft = 0
<1>1. /\ Byte \in Nat /\ Budget \in Nat /\ Budget = Byte + 3
      /\ recordTotal \in Nat /\ recordTotal <= NumRecords
      /\ recordTotal * Budget \in Nat
      /\ Loading => RecordsLeft \in Nat /\ RecordsLeft + Budget <= recordTotal * Budget
      /\ at = "vals" => length - total \in 0..(Byte - 1)
  BY LeftType, TypeParts DEF IInv
<1>. HIDE DEF Budget
<1>2. NumRecords \in Nat
  BY RecordAssumption
<1>3. recordTotal * Budget <= NumRecords * Budget /\ NumRecords * Budget \in Nat
  BY <1>1, <1>2, Turns
<1>4. PICK p \in Nat, q \in Nat : p = recordTotal * Budget /\ q = NumRecords * Budget /\ p <= q
  BY <1>1, <1>3
<1>5. CASE at = "reserve"
  BY <1>4, <1>5, LeftAt DEF InReading
<1>6. CASE Loading
  <2>1. RecordsLeft \in Nat /\ RecordsLeft + Byte + 3 <= p
    BY <1>1, <1>4, <1>6
  <2>2. RequestsLeft \in 1..p
    <3>1. CASE at = "header"
      BY <1>1, <2>1, <3>1, LeftAt
    <3>2. CASE at = "vals"
      <4>1. PICK d \in 0..(Byte - 1) : d = length - total
        BY <1>1, <3>2
      <4>2. RequestsLeft = RecordsLeft + 2 + d
        BY <3>2, <4>1, LeftAt
      <4>. QED
        BY <1>1, <2>1, <4>1, <4>2
    <3>3. CASE at = "store"
      BY <1>1, <2>1, <3>3, LeftAt
    <3>. QED
      BY <1>6, <3>1, <3>2, <3>3 DEF Loading
  <2>. QED
    BY <1>4, <1>6, <2>2 DEF InReading, Loading
<1>7. CASE ~InReading
  BY <1>7, LeftAt DEF InReading
<1>. QED
  BY <1>5, <1>6, <1>7 DEF InReading, Loading

\* The loop's next turn, the end of getAllSDRs and the end of the process.
LEMMA ContinueLeft ==
    ASSUME TypeSensors, TypeReader, Tiled, Control, Loading,
           NEW retries, Continue(retries), UNCHANGED <<ind, recordTotal>>
    PROVE  RequestsLeft' \in Nat /\ RequestsLeft' < RecordsLeft + 1
<1>1. /\ Byte \in Nat /\ Budget \in Nat /\ Budget = Byte + 3
      /\ RecordsLeft \in Nat /\ recordTotal - i \in Nat
  BY LeftType
<1>2. CASE i < recordTotal
  <2>1. i' = i + 1 /\ at' = "header"
    BY <1>2 DEF Continue
  <2>2. i \in Nat /\ recordTotal \in Nat
    BY DEF Control, LoopPlace, TypeSensors
  <2>3. PICK m \in Nat : recordTotal' - i' = m /\ recordTotal - i = m + 1
    BY <1>2, <2>1, <2>2
  <2>. HIDE DEF Budget
  <2>4. RecordsLeft' = m * Budget /\ RecordsLeft = (m + 1) * Budget
    BY <2>3 DEF RecordsLeft, Budget
  <2>5. PICK p \in Nat : p = m * Budget /\ RecordsLeft' = p /\ RecordsLeft = p + Budget
    BY <1>1, <2>4, Turns
  <2>6. RequestsLeft' = p + Byte + 2
    BY <2>1, <2>5, LeftAfter
  <2>. QED
    BY <1>1, <2>5, <2>6
<1>3. CASE ~(i < recordTotal)
  <2>1. at' \in {"enumerate", "expose", "poll"}
    BY <1>3, ReturnControl DEF Continue
  <2>2. RequestsLeft' = 0
    BY <2>1, LeftAfter
  <2>. QED
    BY <1>1, <2>2
<1>. QED
  BY <1>2, <1>3

LEMMA DieLeft == Die => RequestsLeft' = 0
  BY LeftAfter DEF Die

\* A step of a reading.
LEMMA LoadDecreases ==
    ASSUME IInv, IInv', Control, Load
    PROVE  RequestsLeft' < RequestsLeft
<1>0. TypeBoard /\ TypeLoop /\ TypeReader /\ TypeSensors /\ Tiled
  BY TypeParts DEF IInv
<1>1. /\ Byte \in Nat /\ Budget \in Nat /\ Budget = Byte + 3
      /\ recordTotal * Budget \in Nat
      /\ Loading => RecordsLeft \in Nat /\ RecordsLeft + Budget <= recordTotal * Budget
      /\ at = "vals" => length - total \in 0..(Byte - 1)
  BY <1>0, LeftType
<1>. HIDE DEF Budget
<1>2. InReading => RequestsLeft >= 1 /\ RequestsLeft \in Int
  <2>1. PICK b : b = NumRecords * Budget + 1
    OBVIOUS
  <2>2. InReading => RequestsLeft \in 1..b
    BY <2>1, LeftBounds
  <2>. QED
    BY <2>2
<1>3. CASE Die
  <2>1. InReading
    BY DEF Load, reserveSDRRepo, getSDRHeader, getSDRVals, storeSdr, storeSdrDies, InReading
  <2>. QED
    BY <1>2, <1>3, <2>1, DieLeft
<1>4. Loading => RecordsLeft + 1 <= RequestsLeft
  <2>1. CASE at = "vals"
    <3>1. PICK d \in 0..(Byte - 1) : d = length - total
      BY <1>1, <2>1
    <3>2. RequestsLeft = RecordsLeft + 2 + d
      BY <2>1, <3>1, LeftAt
    <3>. QED
      BY <1>1, <2>1, <3>1, <3>2 DEF Loading
  <2>2. CASE at # "vals"
    BY <1>1, <2>2, LeftAt DEF Loading
  <2>. QED
    BY <2>1, <2>2
<1>5. ASSUME Loading, NEW retries, Continue(retries), UNCHANGED <<board, recordTotal>>
      PROVE  RequestsLeft' < RequestsLeft
  <2>1. RequestsLeft' \in Nat /\ RequestsLeft' < RecordsLeft + 1
    BY <1>0, <1>5, ContinueLeft DEF board
  <2>2. InReading
    BY <1>5 DEF InReading, Loading
  <2>. QED
    BY <1>1, <1>2, <1>4, <1>5, <2>1, <2>2
<1>6. ASSUME InReading, Return, UNCHANGED board
      PROVE  RequestsLeft' < RequestsLeft
  <2>1. at' \in {"enumerate", "expose", "poll"}
    BY <1>6, ReturnControl DEF board, InReading, Loading
  <2>. QED
    BY <1>2, <1>6, <2>1, LeftAfter
<1>7. CASE reserveSDRRepo
  <2>1. CASE at = "reserve" /\ at' = "header" /\ UNCHANGED <<i, recordTotal>> /\ recordTotal > 0
    <3>1. i = 1 /\ recordTotal \in Nat
      BY <1>0, <2>1 DEF Control, LoopPlace, Loading, TypeSensors
    <3>2. PICK m \in Nat : recordTotal - i = m /\ recordTotal = m + 1
      BY <2>1, <3>1
    <3>3. RecordsLeft' = m * Budget /\ recordTotal * Budget = (m + 1) * Budget
      BY <2>1, <3>2 DEF RecordsLeft, Budget
    <3>4. PICK p \in Nat : RecordsLeft' = p /\ recordTotal * Budget = p + Budget
      BY <1>1, <3>3, Turns
    <3>5. RequestsLeft' = p + Byte + 2 /\ RequestsLeft = p + Budget + 1
      BY <2>1, <3>4, LeftAt, LeftAfter
    <3>. QED
      BY <1>1, <3>4, <3>5
  <2>. QED
    BY <1>3, <1>6, <1>7, <2>1 DEF reserveSDRRepo, InReading
<1>8. CASE getSDRHeader
  <2>1. at = "header" /\ Loading /\ InReading /\ UNCHANGED <<board, recordTotal>>
    BY <1>8 DEF getSDRHeader, Loading, InReading
  <2>2. CASE at' = "vals" /\ length' \in Lengths /\ total' = 0 /\ UNCHANGED loop
    <3>1. RecordsLeft' = RecordsLeft
      BY <2>1, <2>2 DEF RecordsLeft, loop, Budget
    <3>2. length' - total' \in 0..(Byte - 1)
      <4>1. PICK l \in 0..(Byte - 1) : l = length'
        BY <2>2, LengthAssumption
      <4>2. l - 0 = l
        BY <1>1
      <4>. QED
        BY <2>2, <4>1, <4>2
    <3>3. PICK d \in 0..(Byte - 1) : d = length' - total'
      BY <3>2
    <3>4. RequestsLeft' = RecordsLeft + 2 + d /\ RequestsLeft = RecordsLeft + Byte + 2
      BY <2>1, <2>2, <3>1, <3>3, LeftAt, LeftAfter
    <3>. QED
      BY <1>1, <2>1, <3>3, <3>4
  <2>3. \/ \E retries : Continue(retries)
        \/ Return
        \/ at' = "vals" /\ length' \in Lengths /\ total' = 0 /\ UNCHANGED loop
    BY <1>8 DEF getSDRHeader, Failed
  <2>. QED
    BY <1>5, <1>6, <2>1, <2>2, <2>3
<1>9. CASE getSDRVals
  <2>1. at = "vals" /\ Loading /\ InReading /\ UNCHANGED <<board, recordTotal>>
    BY <1>9 DEF getSDRVals, Loading, InReading
  <2>2. CASE Failed
    BY <1>5, <1>6, <2>1, <2>2 DEF Failed
  <2>3. CASE ~Failed
    <3>1. PICK x : parts' = Append(parts, x)
      BY <1>9, <2>3 DEF getSDRVals
    <3>2. UNCHANGED <<loop, length>> /\ at' \in {"vals", "store"}
      BY <1>9, <2>3 DEF getSDRVals
    <3>3. RecordsLeft' = RecordsLeft
      BY <2>1, <3>2 DEF RecordsLeft, loop, Budget
    <3>4. PICK d \in 0..(Byte - 1) : d = length - total /\ RequestsLeft = RecordsLeft + 2 + d
      BY <1>1, <2>1, LeftAt
    <3>5. CASE at' = "store"
      <4>1. RequestsLeft' = RecordsLeft + 1
        BY <3>3, <3>5, LeftAfter
      <4>. QED
        BY <1>1, <2>1, <3>4, <4>1
    <3>6. CASE at' = "vals"
      <4>1. Len(parts') = Len(parts) + 1 /\ Len(parts) \in Nat
        BY <1>0, <3>1, LenProperties DEF TypeReader
      <4>2. total = Section * Len(parts) /\ total' = Section * Len(parts')
            /\ Section * Len(parts') <= length'
        BY <2>1, <3>6 DEF IInv, Tiled, Counters
      <4>3. Section \in Nat \ {0}
        BY LengthAssumption
      <4>4. total' = total + Section /\ total' <= length
        <5>1. Section * (Len(parts) + 1) = Section * Len(parts) + Section
          BY <4>1, <4>3
        <5>. QED
          BY <3>2, <4>1, <4>2, <5>1
      <4>5. total \in Nat /\ length \in Nat
        BY <1>0 DEF TypeReader
      <4>6. RequestsLeft' = RecordsLeft + 2 + (length - total')
        BY <3>2, <3>3, <3>6, LeftAfter
      <4>. QED
        BY <1>1, <2>1, <3>4, <4>3, <4>4, <4>5, <4>6
    <3>. QED
      BY <3>2, <3>5, <3>6
  <2>. QED
    BY <2>2, <2>3
<1>10. CASE storeSdr
  <2>1. Loading /\ Continue(retryCount) /\ UNCHANGED <<board, recordTotal>>
    BY <1>10, Zenon DEF storeSdr, Loading
  <2>. QED
    BY <1>5, <2>1
<1>. QED
  BY <1>3, <1>7, <1>8, <1>9, <1>10 DEF Load, storeSdrDies

\* The other steps.
LEMMA OthersAddNone ==
    ASSUME IInv, IInv', Control, [Next]_vars, InReading
    PROVE  RequestsLeft' <= RequestsLeft
<1>1. PICK b : b = NumRecords * Budget + 1
  OBVIOUS
<1>2. RequestsLeft \in 1..b
  BY <1>1, LeftBounds
<1>3. CASE Load
  <2>1. RequestsLeft' < RequestsLeft
    BY <1>3, LoadDecreases
  <2>2. RequestsLeft' \in Int
    <3>1. /\ recordTotal' \in Int /\ i' \in Int /\ length' \in Int /\ total' \in Int
          /\ Budget \in Int /\ Byte \in Int
      BY LengthAssumption DEF IInv, TypeOK, Records, Budget
    <3>. HIDE DEF Budget
    <3>2. recordTotal' * Budget \in Int /\ (recordTotal' - i') * Budget \in Int
      BY <3>1
    <3>3. RecordsLeft' \in Int
      BY <3>2 DEF RecordsLeft, Budget
    <3>. QED
      BY <3>1, <3>2, <3>3 DEF RequestsLeft, Budget
  <2>. QED
    BY <1>2, <2>1, <2>2
<1>4. CASE UNCHANGED vars \/ BusRecovers \/ \E r \in Records : PopulationChanges(r)
  <2>1. UNCHANGED <<at, recordTotal, i, length, total>>
    BY <1>4 DEF vars, device, loop, reader, BusRecovers, PopulationChanges
  <2>2. RequestsLeft' = RequestsLeft
    BY <2>1 DEF RequestsLeft, RecordsLeft
  <2>. QED
    BY <1>2, <2>2
<1>. QED
  BY <1>3, <1>4, NextCases
     DEF Load, InReading, enumerateFRUSensors, otherGroup, exposeFruSensors,
         pollDeviceSensors, checkSDRInfo, pollIdle, Restart

\* Reading the SDRs ends, for any number of records of any length and whatever the
\* board and the bus do between two requests: the 8-bit counters reach the end of
\* a record, a failure goes on to the next one and the loop stops at the last, so
\* a reading makes at most NumRecords * (Byte + 3) + 1 steps.
THEOREM PopulationReadingEnds == Spec => []ReadingBounded /\ [][ReadingStep]_vars
<1>1. Init => IInv /\ Control
  BY InitIInv, InitControlData
<1>2. IInv /\ Control /\ [Next]_vars => IInv' /\ Control'
  BY NextIInv, NextControl
<1>3. IInv /\ Control => ReadingBounded
  BY LeftBounds DEF ReadingBounded
<1>4. IInv /\ IInv' /\ Control /\ [Next]_vars => [ReadingStep]_vars
  BY LoadDecreases, OthersAddNone DEF ReadingStep
<1>. QED
  BY <1>1, <1>2, <1>3, <1>4, PTL DEF Spec
=============================================================================
