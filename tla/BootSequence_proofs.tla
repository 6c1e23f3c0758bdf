------------------------ MODULE BootSequence_proofs -------------------------
(***************************************************************************)
(* Proofs about BootSequence for every number of rails and every set of    *)
(* services, with heartbeats at any time: the types, the power sequence    *)
(* and the voltage gate of a pass that no heartbeat runs into.             *)
(***************************************************************************)
EXTENDS BootSequence, TLAPS

\* One step of the program and of its environment, by name.
LEMMA NextCases ==
    ASSUME Next
    PROVE  \/ wait_for_switch \/ get_fan_controller_status \/ set_ps \/ set_sr
           \/ \E t \in Threads : \/ StartPass(t) \/ ReadFile(t) \/ ReadFails(t)
                                 \/ StoreRaw(t) \/ Scale(t) \/ Judge(t) \/ Recheck(t)
           \/ SwitchMoves
           \/ \E s \in Services : ServiceMoves(s)
           \/ \E i \in Rails : RailMoves(i)
  BY DEF Next, Main, update_readings, Threads
-----------------------------------------------------------------------------
(***************************************************************************)
(* Types.                                                                  *)
(***************************************************************************)
\* The initial state has the types.
LEMMA InitType == Init => TypeOK
<1>. SUFFICES ASSUME Init PROVE TypeOK
  OBVIOUS
<1>1. mixed \in BOOLEAN /\ alive \in BOOLEAN
  BY Zenon DEF Init
<1>2. at \in [Threads -> Rails] /\ okRails \subseteq Rails
  BY RailAssumption DEF Init, Rails
<1>3. /\ step \in [Threads -> {"idle", "read", "store", "scale", "judge", "recheck"}]
      /\ local \in [Threads -> BOOLEAN]
      /\ raw \in [Rails -> BOOLEAN] /\ current \in [Rails -> BOOLEAN]
      /\ safe \in [Rails -> BOOLEAN]
  BY DEF Init
<1>4. ps \in Pin /\ sr \in Pin
  BY DEF Init, Pin, Low
<1>. QED
  BY <1>1, <1>2, <1>3, <1>4 DEF Init, TypeOK

\* A step of update_readings keeps the types, whichever thread takes it.
LEMMA PassType ==
    ASSUME TypeOK, NEW t \in Threads,
           \/ StartPass(t) \/ ReadFile(t) \/ ReadFails(t)
           \/ StoreRaw(t) \/ Scale(t) \/ Judge(t) \/ Recheck(t)
    PROVE  TypeOK'
<1>. USE RailAssumption DEF TypeOK, Rails
<1>1. CASE StartPass(t)
  <2>1. at' \in [Threads -> Rails]
    BY <1>1 DEF StartPass
  <2>2. okRails' \subseteq Rails
    BY <1>1 DEF StartPass
  <2>3. step' \in [Threads -> {"idle", "read", "store", "scale", "judge", "recheck"}]
    BY <1>1 DEF StartPass
  <2>. QED
    BY <1>1, <2>1, <2>2, <2>3 DEF StartPass, env, adc
<1>2. CASE ReadFile(t)
  BY <1>2 DEF ReadFile, env, adc, hist
<1>3. CASE ReadFails(t)
  BY <1>3 DEF ReadFails, env, adc, call, hist
<1>4. CASE StoreRaw(t)
  BY <1>4 DEF StoreRaw, env, hist
<1>5. CASE Scale(t)
  BY <1>5 DEF Scale, env, hist
<1>6. CASE Judge(t)
  <2>1. at' \in [Threads -> Rails]
    <3>1. at[t] \in 1..NumRails
      OBVIOUS
    <3>2. CASE at' = at
      BY <3>2
    <3>3. CASE at[t] < NumRails /\ at' = [at EXCEPT ![t] = @ + 1]
      <4>1. at[t] + 1 \in 1..NumRails
        BY <3>1, <3>3
      <4>. QED
        BY <3>3, <4>1
    <3>4. CASE at' = [at EXCEPT ![t] = 1]
      BY <3>4
    <3>. QED
      BY <1>6, <3>2, <3>3, <3>4 DEF Judge
  <2>2. step' \in [Threads -> {"idle", "read", "store", "scale", "judge", "recheck"}]
    BY <1>6 DEF Judge
  <2>3. safe' \in [Rails -> BOOLEAN]
    BY <1>6 DEF Judge
  <2>. QED
    BY <1>6, <2>1, <2>2, <2>3 DEF Judge, env, hist
<1>7. CASE Recheck(t)
  <2>1. at' \in [Threads -> Rails]
    BY <1>7 DEF Recheck
  <2>2. step' \in [Threads -> {"idle", "read", "store", "scale", "judge", "recheck"}]
    BY <1>7 DEF Recheck
  <2>3. stage' \in {"switch", "fan", "ps", "volt", "reset", "up"}
    BY <1>7 DEF Recheck
  <2>. QED
    BY <1>7, <2>1, <2>2, <2>3 DEF Recheck, env, adc, hist
<1>. QED
  BY <1>1, <1>2, <1>3, <1>4, <1>5, <1>6, <1>7

\* Every step keeps the types.
LEMMA NextType ==
    ASSUME TypeOK, [Next]_vars
    PROVE  TypeOK'
<1>. USE DEF TypeOK
<1>1. CASE UNCHANGED vars
  BY <1>1 DEF vars, env, adc, call, hist
<1>2. CASE wait_for_switch
  BY <1>2 DEF wait_for_switch, Goto, env, adc, call, hist
<1>3. CASE get_fan_controller_status
  BY <1>3 DEF get_fan_controller_status, watch_services, Goto, env, adc, call, hist
<1>4. CASE set_ps
  BY <1>4 DEF set_ps, Goto, Driven, Pin, env, adc, call, hist
<1>5. CASE set_sr
  BY <1>5 DEF set_sr, Goto, Driven, Pin, env, adc, call, hist
<1>6. CASE SwitchMoves
  BY <1>6 DEF SwitchMoves, adc, call, hist
<1>7. ASSUME NEW s \in Services, ServiceMoves(s)
      PROVE  TypeOK'
  BY <1>7 DEF ServiceMoves, adc, call, hist
<1>8. ASSUME NEW i \in Rails, RailMoves(i)
      PROVE  TypeOK'
  BY <1>8 DEF RailMoves, adc, call, hist
<1>. QED
  BY <1>1, <1>2, <1>3, <1>4, <1>5, <1>6, <1>7, <1>8, NextCases, PassType

\* Whatever the heartbeat does, both threads stay inside the list of rails.
THEOREM BootTypeOK == Spec => []TypeOK
  BY InitType, NextType, PTL DEF Spec
-----------------------------------------------------------------------------
(***************************************************************************)
(* The order of the boot.                                                  *)
(***************************************************************************)
\* What each stage of the main thread has behind it.  Only stage "volt" runs a
\* pass, only stage "fan" asks for the services.
Ordered ==
    /\ step["main"] # "idle" => stage = "volt"
    /\ stage \in {"ps", "volt", "reset", "up"} => "fan" \in seen
    /\ ps.pin <=> stage \in {"volt", "reset", "up"}
    /\ sr.pin => stage = "up"

\* The initial state is at the beginning.
LEMMA InitOrdered == Init => Ordered
  BY DEF Init, Ordered, Threads, Low

\* A step of update_readings moves on from stage "volt" only, and only main's.
LEMMA PassOrdered ==
    ASSUME TypeOK, Ordered, NEW t \in Threads,
           \/ StartPass(t) \/ ReadFile(t) \/ ReadFails(t)
           \/ StoreRaw(t) \/ Scale(t) \/ Judge(t) \/ Recheck(t)
    PROVE  Ordered'
<1>. USE DEF Ordered, TypeOK
<1>1. CASE StartPass(t)
  BY <1>1 DEF StartPass, Threads
<1>2. CASE ReadFile(t) \/ StoreRaw(t) \/ Scale(t) \/ ReadFails(t)
  BY <1>2 DEF ReadFile, StoreRaw, Scale, ReadFails, call, Threads
<1>3. CASE Judge(t)
  BY <1>3 DEF Judge, Threads
<1>4. CASE Recheck(t)
  BY <1>4 DEF Recheck, Threads
<1>. QED
  BY <1>1, <1>2, <1>3, <1>4

\* Every step keeps the order.
LEMMA NextOrdered ==
    ASSUME TypeOK, Ordered, [Next]_vars
    PROVE  Ordered'
<1>. USE DEF Ordered
<1>1. CASE UNCHANGED vars
  BY <1>1 DEF vars, call, hist
<1>2. CASE wait_for_switch
  BY <1>2 DEF wait_for_switch, Goto, call
<1>3. CASE get_fan_controller_status
  BY <1>3 DEF get_fan_controller_status, Goto, call
<1>4. CASE set_ps
  BY <1>4 DEF set_ps, Goto, Driven, call
<1>5. CASE set_sr
  BY <1>5 DEF set_sr, Goto, Driven, call
<1>6. CASE SwitchMoves \/ (\E s \in Services : ServiceMoves(s)) \/ (\E i \in Rails : RailMoves(i))
  BY <1>6 DEF SwitchMoves, ServiceMoves, RailMoves, call
<1>. QED
  BY <1>1, <1>2, <1>3, <1>4, <1>5, <1>6, NextCases, PassOrdered

\* Power comes after the fan controller and the reset after power, whatever
\* reads fail and however the heartbeat disturbs the readings.
THEOREM BootPowerSequence == Spec => []PowerSequence
<1>1. TypeOK /\ Ordered => PowerSequence
  BY DEF Ordered, PowerSequence, TypeOK
<1>2. TypeOK /\ Ordered /\ [Next]_vars => Ordered'
  BY NextOrdered
<1>. QED
  BY InitOrdered, <1>1, <1>2, BootTypeOK, PTL DEF Spec
-----------------------------------------------------------------------------
(***************************************************************************)
(* The voltage gate of a pass that no heartbeat runs into.                 *)
(***************************************************************************)
\* While the log thread is not in a pass of its own and was not during main's
\* present one, the rails behind main's place were in range during the pass, and
\* so was the rail at its place once a good reading of it is under way.
Gated ==
    /\ step["main"] # "idle" => \A i \in Rails : rail[i] => i \in okRails
    /\ ~mixed /\ step["main"] # "idle" => step["log"] = "idle"
    /\ ~mixed /\ step["main"] \in {"read", "store", "scale", "judge"} =>
            \A i \in Rails : i < at["main"] => i \in okRails
    /\ ~mixed /\ step["main"] = "store" /\ local["main"] => at["main"] \in okRails
    /\ ~mixed /\ step["main"] = "scale" /\ raw[at["main"]] => at["main"] \in okRails
    /\ ~mixed /\ step["main"] = "judge" /\ current[at["main"]] => at["main"] \in okRails
    /\ ~mixed /\ step["main"] = "recheck" => okRails = Rails
    /\ VoltageGate

\* The initial state has no pass.
LEMMA InitGated == Init => Gated
  BY DEF Init, Gated, Threads, VoltageGate

\* A step of main's pass keeps Gated: nobody else writes the readings it uses.
LEMMA MainGated ==
    ASSUME TypeOK, Ordered, Gated,
           \/ StartPass("main") \/ ReadFile("main") \/ StoreRaw("main")
           \/ Scale("main") \/ Judge("main") \/ Recheck("main")
    PROVE  Gated'
<1>1. /\ step["main"] \in {"idle", "read", "store", "scale", "judge", "recheck"}
      /\ at["main"] \in Rails
  BY DEF TypeOK, Threads
<1>2. DOMAIN step = Threads /\ DOMAIN at = Threads /\ DOMAIN local = Threads
  BY DEF TypeOK
<1>3. DOMAIN raw = Rails /\ DOMAIN current = Rails
  BY DEF TypeOK
<1>4. CASE StartPass("main")
  <2>1. /\ step' = [step EXCEPT !["main"] = "read"]
        /\ at' = [at EXCEPT !["main"] = 1]
        /\ okRails' = {i \in Rails : rail[i]}
        /\ rail' = rail /\ stage = "volt" /\ stage' = stage
    BY <1>4 DEF StartPass, env
  <2>2. step'["main"] = "read" /\ step'["log"] = step["log"] /\ at'["main"] = 1
    BY <2>1, <1>2 DEF Threads
  <2>3. mixed' = (step["log"] # "idle")
    BY <1>4, Zenon DEF StartPass
  <2>4. ~mixed' => step'["log"] = "idle"
    BY <2>2, <2>3
  <2>5. \A i \in Rails : ~(i < 1)
    BY RailAssumption DEF Rails
  <2>6. \A i \in Rails : rail'[i] => i \in okRails'
    BY <2>1
  <2>7. VoltageGate'
    BY <2>1 DEF VoltageGate
  <2>. QED
    BY <2>2, <2>4, <2>5, <2>6, <2>7 DEF Gated
<1>5. CASE ReadFile("main")
  BY <1>5, <1>1, <1>2 DEF ReadFile, Gated, VoltageGate, env, hist, Threads
<1>6. CASE StoreRaw("main")
  BY <1>6, <1>1, <1>2, <1>3 DEF StoreRaw, Gated, VoltageGate, env, hist, Threads
<1>7. CASE Scale("main")
  BY <1>7, <1>1, <1>2, <1>3 DEF Scale, Gated, VoltageGate, env, hist, Threads
<1>8. CASE Judge("main")
  <2>1. UNCHANGED <<rail, stage, okRails, mixed>>
    BY <1>8 DEF Judge, env, hist
  <2>2. CASE ~current[at["main"]]
    BY <1>8, <2>1, <2>2, <1>2 DEF Judge, Gated, VoltageGate, Threads
  <2>3. CASE current[at["main"]] /\ at["main"] < NumRails
    <3>1. step' = [step EXCEPT !["main"] = "read"] /\ at' = [at EXCEPT !["main"] = @ + 1]
      BY <1>8, <2>3, <1>1, RailAssumption DEF Judge, Rails
    <3>2. ~mixed => \A i \in Rails : i < at["main"] + 1 => i \in okRails
      BY <1>8, <2>3, <1>1, RailAssumption DEF Judge, Gated, Rails
    <3>. QED
      BY <1>8, <2>1, <3>1, <3>2, <1>2 DEF Judge, Gated, VoltageGate, Threads
  <2>4. CASE current[at["main"]] /\ at["main"] = NumRails
    <3>1. step' = [step EXCEPT !["main"] = "recheck"]
      BY <1>8, <2>4, <1>1, RailAssumption DEF Judge, Rails
    <3>2. \A i \in Rails : i < at["main"] \/ i = at["main"]
      BY <2>4, RailAssumption DEF Rails
    <3>3. ~mixed => \A i \in Rails : i \in okRails
      BY <1>8, <2>4, <3>2 DEF Judge, Gated
    <3>4. ~mixed => okRails = Rails
      BY <3>3 DEF TypeOK
    <3>. QED
      BY <1>8, <2>1, <3>1, <3>4, <1>2 DEF Judge, Gated, VoltageGate, Threads
  <2>. QED
    BY <2>2, <2>3, <2>4, <1>1, RailAssumption DEF Rails
<1>9. CASE Recheck("main")
  BY <1>9, <1>2 DEF Recheck, Gated, VoltageGate, env, hist, Threads
<1>. QED
  BY <1>4, <1>5, <1>6, <1>7, <1>8, <1>9

\* A step of a heartbeat keeps Gated: its first step during a pass of main marks
\* the pass mixed, and no later one finds main in an unmixed pass.
LEMMA LogGated ==
    ASSUME TypeOK, Ordered, Gated,
           \/ StartPass("log") \/ ReadFile("log") \/ StoreRaw("log")
           \/ Scale("log") \/ Judge("log") \/ Recheck("log")
    PROVE  Gated'
<1>1. DOMAIN step = Threads /\ DOMAIN at = Threads /\ DOMAIN local = Threads
  BY DEF TypeOK
<1>2. CASE StartPass("log")
  BY <1>2, <1>1 DEF StartPass, Gated, VoltageGate, env, adc, Threads
<1>3. CASE ~StartPass("log")
  <2>1. step["log"] # "idle"
    BY <1>3 DEF ReadFile, StoreRaw, Scale, Judge, Recheck
  <2>2. mixed \/ step["main"] = "idle"
    BY <2>1 DEF Gated
  <2>3. UNCHANGED <<rail, okRails, mixed, stage>>
    BY <1>3 DEF ReadFile, StoreRaw, Scale, Judge, Recheck, env, hist
  <2>4. step'["main"] = step["main"]
    BY <1>1, <1>3 DEF ReadFile, StoreRaw, Scale, Judge, Recheck, Threads
  <2>. QED
    BY <2>2, <2>3, <2>4 DEF Gated, VoltageGate
<1>. QED
  BY <1>2, <1>3

\* Every step keeps Gated.
LEMMA NextGated ==
    ASSUME TypeOK, Ordered, Gated, [Next]_vars
    PROVE  Gated'
<1>1. CASE UNCHANGED vars
  BY <1>1 DEF vars, env, adc, call, hist, Gated, VoltageGate
<1>2. CASE wait_for_switch
  BY <1>2 DEF wait_for_switch, Goto, env, adc, call, hist, Gated, VoltageGate
<1>3. CASE get_fan_controller_status
  BY <1>3 DEF get_fan_controller_status, Goto, env, adc, call, hist, Gated, VoltageGate
<1>4. CASE set_ps
  BY <1>4 DEF set_ps, Goto, env, adc, call, hist, Gated, VoltageGate
<1>5. CASE set_sr
  BY <1>5 DEF set_sr, Goto, env, adc, call, hist, Gated, VoltageGate
<1>6. CASE SwitchMoves
  BY <1>6 DEF SwitchMoves, adc, call, hist, Gated, VoltageGate
<1>7. ASSUME NEW s \in Services, ServiceMoves(s)
      PROVE  Gated'
  BY <1>7 DEF ServiceMoves, adc, call, hist, Gated, VoltageGate
<1>8. ASSUME NEW i \in Rails, RailMoves(i)
      PROVE  Gated'
  <2>1. okRails \subseteq okRails' /\ okRails' \subseteq Rails
    BY <1>8 DEF RailMoves, TypeOK
  <2>2. (\A j \in Rails : rail[j] => j \in okRails) => \A j \in Rails : rail'[j] => j \in okRails'
    BY <1>8 DEF RailMoves, TypeOK
  <2>3. UNCHANGED <<stage, step, at, local, raw, current, mixed>>
    BY <1>8 DEF RailMoves, adc, call
  <2>. QED
    BY <2>1, <2>2, <2>3 DEF Gated, VoltageGate
<1>9. ASSUME NEW t \in Threads, ReadFails(t)
      PROVE  Gated'
  BY <1>9 DEF ReadFails, env, adc, call, hist, Gated, VoltageGate
<1>10. ASSUME NEW t \in Threads,
              \/ StartPass(t) \/ ReadFile(t) \/ StoreRaw(t)
              \/ Scale(t) \/ Judge(t) \/ Recheck(t)
       PROVE  Gated'
  BY <1>10, MainGated, LogGated DEF Threads
<1>. QED
  BY <1>1, <1>2, <1>3, <1>4, <1>5, <1>6, <1>7, <1>8, <1>9, <1>10, NextCases

\* The reset is released only when every rail was in range during the pass that
\* let the boot go on, unless a heartbeat ran into that pass: whatever reads fail,
\* however the rails move while they are read one by one, and whatever heartbeats
\* did to the shared readings before.
THEOREM BootVoltageGate == Spec => []VoltageGate
<1>1. TypeOK /\ Ordered /\ Gated /\ [Next]_vars => Ordered' /\ Gated'
  BY NextOrdered, NextGated
<1>2. Gated => VoltageGate
  BY DEF Gated
<1>. QED
  BY InitOrdered, InitGated, <1>1, <1>2, BootTypeOK, PTL DEF Spec
=============================================================================
