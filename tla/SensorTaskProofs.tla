------------------------- MODULE SensorTaskProofs -------------------------
(***************************************************************************)
(* Theorems about SensorTask for any set of sensors, any table size, any   *)
(* number of failures that make a sensor lost and any bound on the faults. *)
(***************************************************************************)
EXTENDS SensorTask, TLAPS

-----------------------------------------------------------------------------
(* The inductive invariant, by parts.                                       *)

\* The mutex is held by the task inside its critical sections, and by nobody else.
BusOwned ==
    /\ bus = "task" <=> pc \in {"search", "init", "convert", "read"}
    /\ bus = "http" <=> hpc \in {"convert", "read"}

\* The search's slots are slots of known sensors, and handles are rebuilt for those only.
FoundKnown ==
    /\ found \subseteq Known
    /\ pending \subseteq Known
    /\ cyc <= count
    /\ \A i \in Known : ids[i] \in Sensor
    /\ hpc # "idle" => hslot \in Known

\* A known slot is without a handle only while discover_locked is about to give it one.
HandlesRebuilt ==
    \A i \in Known : dev[i] = "null" => \/ pc = "search" /\ i \in found
                                        \/ pc = "init" /\ i \in pending

\* A sensor that is not on the bus holds no conversion.
AbsentHoldNone == \A s \in Sensor \ present : conv[s] = "none"

\* A slot whose last read failed, or that was never read, is armed.
InvalidArmed == \A i \in Slot : ~state[i].valid => i \in armed

-----------------------------------------------------------------------------
(* Types.                                                                   *)

\* slot_for_id() gives a slot of the table or NoSlot, and a slot in use only for its own sensor.
LEMMA SlotForIdType ==
    ASSUME TypeOK, NEW s
    PROVE  /\ SlotForId(s) \in Slot \cup {NoSlot}
           /\ SlotForId(s) # NoSlot => SlotForId(s) \in 0 .. count
           /\ SlotForId(s) = count /\ SlotForId(s) # NoSlot => \A i \in Known : ids[i] # s
<1>1. CASE \E i \in Known : ids[i] = s
  <2>1. PICK i \in Known : SlotForId(s) = i
    BY <1>1 DEF SlotForId
  <2> QED
    BY <2>1, MaxDevicesAssumption DEF TypeOK, Known, Slot, NoSlot
<1>2. CASE ~ \E i \in Known : ids[i] = s
  BY <1>2, MaxDevicesAssumption DEF SlotForId, TypeOK, Known, Slot, NoSlot
<1> QED
  BY <1>1, <1>2

\* What a read makes of a slot's state is a slot's state.
LEMMA RecordReadType ==
    ASSUME NEW st \in SlotState, NEW r \in Sensor \cup {NoId}
    PROVE  RecordRead(st, r) \in SlotState
<1>1. CASE r # NoId
  BY <1>1, FailReadsAssumption DEF RecordRead, SlotState
<1>2. CASE r = NoId
  <2> DEFINE fails == IF st.fails < FailReads THEN st.fails + 1 ELSE FailReads
  <2>1. fails \in 0 .. FailReads
    BY FailReadsAssumption DEF SlotState
  <2>2. PICK lost \in BOOLEAN : lost = (st.lost \/ fails = FailReads)
    OBVIOUS
  <2>3. RecordRead(st, r) = [valid |-> FALSE, from |-> st.from, fails |-> fails, lost |-> lost]
    BY <1>2, <2>2, Zenon DEF RecordRead
  <2>4. st.from \in Sensor \cup {NoId}
    BY DEF SlotState
  <2> HIDE DEF fails
  <2> QED
    BY <2>1, <2>3, <2>4 DEF SlotState
<1> QED
  BY <1>1, <1>2

\* The sensor whose answer a read gives is a sensor.
LEMMA AnswerType ==
    ASSUME TypeOK, NEW i \in Slot
    PROVE  Answer(i) \in Sensor \cup {NoId}
<1>1. Addressed(i) \subseteq Sensor
  BY DEF Addressed, TypeOK, Handle
<1> QED
  BY <1>1 DEF Answer

\* What sensor_task records of a scan.
LEMMA AfterScanType ==
    ASSUME TypeOK, NEW n \in 0 .. MaxDevices, AfterScan(n)
    PROVE  /\ bus' = "free"
           /\ pc' \in {"scan", "cycle"}
           /\ booted' \in BOOLEAN
           /\ scan' \in [found: 0 .. MaxDevices, prev: 0 .. MaxDevices, event: BOOLEAN]
<1>1. bus' = "free" /\ pc' \in {"scan", "cycle"}
  BY DEF AfterScan
<1>2. booted' \in BOOLEAN
  BY Zenon DEF AfterScan
<1>3. PICK e \in BOOLEAN : e = (n > 0 /\ (booted => n # cyc))
  BY Zenon
<1>4. scan' = [found |-> n, prev |-> IF booted THEN cyc ELSE 0, event |-> e]
  BY <1>3, Zenon DEF AfterScan
<1>5. scan.found \in 0 .. MaxDevices /\ (IF booted THEN cyc ELSE 0) \in 0 .. MaxDevices
  BY MaxDevicesAssumption DEF TypeOK
<1> QED
  BY <1>1, <1>2, <1>4, <1>5

\* Every step keeps the types.
LEMMA TypeStep == TypeOK /\ [Next]_vars => TypeOK'
<1> SUFFICES ASSUME TypeOK, [Next]_vars PROVE TypeOK'
  OBVIOUS
<1> USE MaxDevicesAssumption, FailReadsAssumption, MaxFaultsAssumption
<1>1. ASSUME NEW s \in Sensor, Plug(s) PROVE TypeOK'
  BY <1>1 DEF TypeOK, Plug, Interfere
<1>2. ASSUME NEW s \in Sensor, Unplug(s) PROVE TypeOK'
  BY <1>2 DEF TypeOK, Unplug, Interfere, taskVars
<1>3. CASE TakeBusToScan
  BY <1>3 DEF TypeOK, TakeBusToScan
<1>4. ASSUME NEW s \in Sensor, SearchFinds(s) PROVE TypeOK'
  <2>1. SlotForId(s) = count /\ SlotForId(s) # NoSlot => SlotForId(s) \in Slot
    BY SlotForIdType
  <2>2. ids' \in [Slot -> Sensor \cup {NoId}] /\ count' \in 0 .. MaxDevices
    BY <1>4, <2>1 DEF TypeOK, SearchFinds, Slot
  <2>3. found' \subseteq Slot /\ reports' \in 0 .. MaxDevices
    BY <1>4, SlotForIdType DEF TypeOK, SearchFinds
  <2> QED
    BY <1>4, <2>2, <2>3 DEF TypeOK, SearchFinds
<1>4a. ASSUME NEW i \in Slot, SearchRepeats(i) PROVE TypeOK'
  BY <1>4a DEF TypeOK, SearchRepeats, Interfere
<1>5. CASE SearchEnds
  <2>1. faults' \in 0 .. MaxFaults
    BY <1>5 DEF TypeOK, SearchEnds, Interfere
  <2>2. pending' \subseteq Slot
    BY <1>5 DEF TypeOK, SearchEnds
  <2>3. /\ bus' \in {"free", "task", "http"}
        /\ pc' \in {"scan", "search", "init", "cycle", "convert", "read", "record", "rescan"}
        /\ booted' \in BOOLEAN
        /\ scan' \in [found: 0 .. MaxDevices, prev: 0 .. MaxDevices, event: BOOLEAN]
    <3>1. CASE AfterScan(0)
      BY <3>1, AfterScanType
    <3>2. CASE pc' = "init" /\ UNCHANGED <<bus, booted, scan>>
      BY <3>2 DEF TypeOK
    <3> QED
      BY <1>5, <3>1, <3>2 DEF SearchEnds
  <2> QED
    BY <1>5, <2>1, <2>2, <2>3 DEF TypeOK, SearchEnds
<1>6. ASSUME NEW i \in Slot, FreeHandle(i) PROVE TypeOK'
  BY <1>6 DEF TypeOK, FreeHandle, Handle
<1>7. ASSUME NEW i \in Slot, InitHandle(i) PROVE TypeOK'
  BY <1>7 DEF TypeOK, InitHandle, Handle
<1>8. CASE DiscoverReturns
  <2>1. reports \in 0 .. MaxDevices
    BY DEF TypeOK
  <2>2. /\ bus' = "free" /\ pc' \in {"scan", "cycle"} /\ booted' \in BOOLEAN
        /\ scan' \in [found: 0 .. MaxDevices, prev: 0 .. MaxDevices, event: BOOLEAN]
    BY <1>8, <2>1, AfterScanType DEF DiscoverReturns
  <2> QED
    BY <1>8, <2>2 DEF TypeOK, DiscoverReturns
<1>9. CASE TakeBusForCycle
  BY <1>9 DEF TypeOK, TakeBusForCycle
<1>10. CASE BusTimeout
  BY <1>10 DEF TypeOK, BusTimeout, Interfere
<1>11. CASE Convert
  BY <1>11 DEF TypeOK, Convert
<1>12. CASE ReadSlots
  <2>1. result' \in [Slot -> Sensor \cup {NoId}]
    BY <1>12, AnswerType DEF ReadSlots
  <2>2. faults' \in 0 .. MaxFaults
    BY <1>12 DEF TypeOK, ReadSlots, Interfere
  <2> QED
    BY <1>12, <2>1, <2>2 DEF TypeOK, ReadSlots
<1>13. CASE Record
  <2>1. state' \in [Slot -> SlotState]
    BY <1>13, RecordReadType DEF TypeOK, Record
  <2>2. raised' \in [Slot -> {"none", "lost", "back"}]
    BY <1>13 DEF TypeOK, Record, EventFor
  <2>3. posts' \subseteq Slot /\ armed' \subseteq Slot
    <3>1. Cycled \subseteq Slot
      BY DEF TypeOK, Cycled, Slot
    <3> QED
      BY <1>13, <3>1 DEF TypeOK, Record, ResetFailed
  <2> QED
    BY <1>13, <2>1, <2>2, <2>3 DEF TypeOK, Record
<1>14. ASSUME NEW s \in Sensor, HttpLookup(s) PROVE TypeOK'
  BY <1>14 DEF TypeOK, HttpLookup, Known, Slot, taskVars
<1>15. CASE HttpTakeBus
  BY <1>15 DEF TypeOK, HttpTakeBus, taskVars
<1>16. CASE HttpTimeout
  BY <1>16 DEF TypeOK, HttpTimeout, taskVars
<1>17. CASE HttpConvert
  BY <1>17 DEF TypeOK, HttpConvert, taskVars
<1>18. CASE HttpRead
  BY <1>18 DEF TypeOK, HttpRead, taskVars
<1>19. CASE UNCHANGED vars
  BY <1>19 DEF TypeOK, vars, taskVars
<1> QED
  BY <1>1, <1>2, <1>3, <1>4, <1>5, <1>6, <1>7, <1>8, <1>9, <1>10, <1>11, <1>12, <1>13, <1>14,
     <1>15, <1>16, <1>17, <1>18, <1>19, <1>4a
     DEF Next, Environment, SearchStep, HandleStep, CycleStep, HttpStep, HttpBusStep

\* The initial state has the types.
LEMMA TypeInit == Init => TypeOK
<1> SUFFICES ASSUME Init PROVE TypeOK
  OBVIOUS
<1>1. [valid |-> FALSE, from |-> NoId, fails |-> 0, lost |-> FALSE] \in SlotState
  BY FailReadsAssumption DEF SlotState
<1>2. state \in [Slot -> SlotState]
  BY <1>1 DEF Init
<1>3. scan \in [found: 0 .. MaxDevices, prev: 0 .. MaxDevices, event: BOOLEAN]
  BY MaxDevicesAssumption DEF Init
<1>4. 0 \in Slot /\ 0 \in 0 .. MaxDevices /\ 0 \in 0 .. MaxFaults
  BY MaxDevicesAssumption, MaxFaultsAssumption DEF Slot
<1>5. /\ dev \in [Slot -> Handle]
      /\ ids \in [Slot -> Sensor \cup {NoId}]
      /\ result \in [Slot -> Sensor \cup {NoId}]
      /\ raised \in [Slot -> {"none", "lost", "back"}]
      /\ conv \in [Sensor -> {"none", "task", "http"}]
  BY DEF Init, Handle
<1> QED
  BY <1>2, <1>3, <1>4, <1>5 DEF Init, TypeOK

\* Every variable keeps to the values it can have in the code, in every reachable state.
THEOREM TypeCorrect == Spec => []TypeOK
<1>1. Init => TypeOK
  BY TypeInit
<1>2. TypeOK /\ [Next]_vars => TypeOK'
  BY TypeStep
<1> QED
  BY <1>1, <1>2, PTL DEF Spec

-----------------------------------------------------------------------------
(* The mutex, the slots and the handles.                                    *)

SlotsInv == BusOwned /\ FoundKnown /\ HandlesRebuilt /\ OneSlotPerSensor

\* The mutex is taken when free, kept through the critical section and given at its end.
LEMMA BusOwnedStep ==
    ASSUME TypeOK, BusOwned, [Next]_vars
    PROVE  BusOwned'
<1> USE DEF BusOwned
<1>1. CASE Environment
  BY <1>1 DEF Environment, Plug, Unplug, taskVars
<1>2. CASE TakeBusToScan
  BY <1>2 DEF TakeBusToScan
<1>3. CASE SearchStep
  BY <1>3 DEF SearchStep, SearchFinds, SearchRepeats, SearchEnds, AfterScan
<1>4. CASE HandleStep
  BY <1>4 DEF HandleStep, FreeHandle, InitHandle, DiscoverReturns, AfterScan
<1>5. CASE TakeBusForCycle \/ BusTimeout
  BY <1>5 DEF TakeBusForCycle, BusTimeout
<1>6. CASE CycleStep
  BY <1>6 DEF CycleStep, Convert, ReadSlots, Record
<1>7. CASE HttpStep
  BY <1>7 DEF HttpStep, HttpBusStep, HttpLookup, HttpTakeBus, HttpTimeout, HttpConvert, HttpRead, taskVars
<1>8. CASE UNCHANGED vars
  BY <1>8 DEF vars, taskVars
<1> QED
  BY <1>1, <1>2, <1>3, <1>4, <1>5, <1>6, <1>7, <1>8 DEF Next

\* A slot table grows only at its end, and what it holds stays where it is.
LEMMA TableStep ==
    ASSUME TypeOK, [Next]_vars
    PROVE  /\ count' >= count /\ \A i \in Known : ids'[i] = ids[i]
           /\ \/ UNCHANGED <<ids, count>>
              \/ \E s \in Sensor : SearchFinds(s)
<1>1. ASSUME NEW s \in Sensor, SearchFinds(s)
      PROVE  count' >= count /\ \A i \in Known : ids'[i] = ids[i]
  BY <1>1 DEF SearchFinds, TypeOK, Known, Slot
<1>2. CASE UNCHANGED <<ids, count>>
  BY <1>2 DEF TypeOK
<1>3. UNCHANGED <<ids, count>> \/ \E s \in Sensor : SearchFinds(s)
  BY DEF Next, Environment, Plug, Unplug, TakeBusToScan, SearchStep, SearchRepeats, SearchEnds, HandleStep, FreeHandle,
         InitHandle, DiscoverReturns, TakeBusForCycle, BusTimeout, CycleStep, Convert, ReadSlots, Record,
         HttpStep, HttpBusStep, HttpLookup, HttpTakeBus, HttpTimeout, HttpConvert, HttpRead, vars
<1> QED
  BY <1>1, <1>2, <1>3

\* The search adds a sensor it has no slot for, in the first slot that is not in use.
LEMMA SearchFindsSlots ==
    ASSUME TypeOK, SlotsInv, NEW s \in Sensor, SearchFinds(s)
    PROVE  FoundKnown' /\ HandlesRebuilt' /\ OneSlotPerSensor'
<1> DEFINE slot == SlotForId(s)
<1>1. CASE slot = count /\ slot # NoSlot
  <2>1. /\ ids' = [ids EXCEPT ![count] = s] /\ count' = count + 1
        /\ count \in Slot /\ found' = found \cup {count} /\ pc = "search" /\ pc' = "search"
        /\ UNCHANGED <<dev, pending, cyc, hpc, hslot>>
    BY <1>1, SlotForIdType DEF SearchFinds
  <2>2. Known' = Known \cup {count} /\ count \notin Known
    BY <2>1 DEF TypeOK, Known
  <2>3. \A i \in Known : ids[i] # s /\ i \in Slot
    <3>1. \A i \in Known : ids[i] # s
      BY <1>1, SlotForIdType
    <3>2. \A i \in Known : i \in Slot
      BY MaxDevicesAssumption DEF TypeOK, Known, Slot
    <3> QED
      BY <3>1, <3>2
  <2>4. ids'[count] = s /\ \A i \in Known : ids'[i] = ids[i]
    BY <2>1, <2>2, <2>3 DEF TypeOK
  <2>5. FoundKnown'
    <3>1. FoundKnown
      BY DEF SlotsInv
    <3>2. found' \subseteq Known' /\ pending' \subseteq Known'
      BY <3>1, <2>1, <2>2 DEF FoundKnown
    <3>3. cyc' <= count'
      BY <3>1, <2>1 DEF FoundKnown, TypeOK
    <3>4. \A i \in Known' : ids'[i] \in Sensor
      BY <3>1, <2>2, <2>4 DEF FoundKnown
    <3>5. hpc' # "idle" => hslot' \in Known'
      BY <3>1, <2>1, <2>2 DEF FoundKnown
    <3> QED
      BY <3>2, <3>3, <3>4, <3>5 DEF FoundKnown
  <2>6. HandlesRebuilt'
    BY <2>1, <2>2 DEF HandlesRebuilt, SlotsInv
  <2>7. OneSlotPerSensor'
    BY <2>2, <2>3, <2>4 DEF OneSlotPerSensor, SlotsInv
  <2> QED
    BY <2>5, <2>6, <2>7
<1>2. CASE ~(slot = count /\ slot # NoSlot)
  <2>1. UNCHANGED <<ids, count, dev, pending, cyc, hpc, hslot, pc>>
    BY <1>2 DEF SearchFinds
  <2>2. found \subseteq found' /\ found' \subseteq Known
    <3>1. slot # NoSlot => slot \in Known
      BY <1>2, SlotForIdType DEF Known, TypeOK
    <3> QED
      BY <1>2, <3>1 DEF SearchFinds, SlotsInv, FoundKnown
  <2> QED
    BY <2>1, <2>2 DEF SlotsInv, FoundKnown, HandlesRebuilt, OneSlotPerSensor, Known
<1> QED
  BY <1>1, <1>2

\* Every step keeps the slots and handles in order.
LEMMA SlotsStep ==
    ASSUME TypeOK, SlotsInv, [Next]_vars
    PROVE  SlotsInv'
<1>1. BusOwned'
  BY BusOwnedStep DEF SlotsInv
<1>2. ASSUME NEW s \in Sensor, SearchFinds(s) PROVE SlotsInv'
  BY <1>1, <1>2, SearchFindsSlots DEF SlotsInv
<1>3. ASSUME UNCHANGED <<ids, count>> PROVE SlotsInv'
  <2> USE DEF SlotsInv, FoundKnown, HandlesRebuilt, OneSlotPerSensor, Known
  <2>1. CASE Environment
    BY <1>1, <1>3, <2>1 DEF Environment, Plug, Unplug, taskVars
  <2>2. CASE TakeBusToScan
    BY <1>1, <1>3, <2>2 DEF TakeBusToScan
  <2>3. CASE SearchEnds
    BY <1>1, <1>3, <2>3 DEF SearchEnds, AfterScan
  <2>3a. ASSUME NEW i \in Slot, SearchRepeats(i) PROVE SlotsInv'
    BY <1>1, <1>3, <2>3a DEF SearchRepeats
  <2>4. ASSUME NEW i \in Slot, FreeHandle(i) PROVE SlotsInv'
    BY <1>1, <1>3, <2>4 DEF FreeHandle, TypeOK
  <2>5. ASSUME NEW i \in Slot, InitHandle(i) PROVE SlotsInv'
    BY <1>1, <1>3, <2>5 DEF InitHandle, TypeOK
  <2>6. CASE DiscoverReturns
    BY <1>1, <1>3, <2>6 DEF DiscoverReturns, AfterScan
  <2>7. CASE TakeBusForCycle \/ BusTimeout
    <3>1. cyc' = count /\ count \in 0 .. MaxDevices
      BY <2>7 DEF TakeBusForCycle, BusTimeout, TypeOK
    <3>2. cyc' <= count'
      BY <1>3, <3>1, MaxDevicesAssumption
    <3>3. FoundKnown'
      BY <1>3, <2>7, <3>2 DEF TakeBusForCycle, BusTimeout
    <3>4. HandlesRebuilt' /\ OneSlotPerSensor'
      BY <1>3, <2>7 DEF TakeBusForCycle, BusTimeout
    <3> QED
      BY <1>1, <3>3, <3>4
  <2>8. CASE CycleStep
    BY <1>1, <1>3, <2>8 DEF CycleStep, Convert, ReadSlots, Record
  <2>9. ASSUME NEW s \in Sensor, HttpLookup(s) PROVE SlotsInv'
    BY <1>1, <1>3, <2>9 DEF HttpLookup, taskVars
  <2>10. CASE HttpTakeBus \/ HttpTimeout \/ HttpBusStep
    BY <1>1, <1>3, <2>10 DEF HttpBusStep, HttpTakeBus, HttpTimeout, HttpConvert, HttpRead, taskVars
  <2>11. CASE UNCHANGED vars
    BY <1>1, <1>3, <2>11 DEF vars, taskVars
  <2>12. (\E s \in Sensor : SearchFinds(s)) => SlotsInv'
    BY <1>2
  <2> QED
    BY <2>1, <2>2, <2>3, <2>4, <2>5, <2>6, <2>7, <2>8, <2>9, <2>10, <2>11, <2>12, <2>3a
       DEF Next, SearchStep, HandleStep, HttpStep
<1> QED
  BY <1>2, <1>3, TableStep

\* Initially the table is empty and the mutex free.
LEMMA SlotsInit == Init => SlotsInv
<1> SUFFICES ASSUME Init PROVE SlotsInv
  OBVIOUS
<1>1. Known = {}
  BY DEF Init, Known
<1> QED
  BY <1>1 DEF Init, SlotsInv, BusOwned, FoundKnown, HandlesRebuilt, OneSlotPerSensor

\* The invariant the safety theorems below rest on.
THEOREM SlotsInvariant == Spec => [](TypeOK /\ SlotsInv)
<1>1. Init => TypeOK /\ SlotsInv
  BY TypeInit, SlotsInit
<1>2. (TypeOK /\ SlotsInv) /\ [Next]_vars => (TypeOK /\ SlotsInv)'
  BY TypeStep, SlotsStep
<1> QED
  BY <1>1, <1>2, PTL DEF Spec

\* No sensor is ever listed under two slots, whatever the order of plugs and rescans.
THEOREM SensorHasOneSlot == Spec => []OneSlotPerSensor
<1>1. TypeOK /\ SlotsInv => OneSlotPerSensor
  BY DEF SlotsInv
<1> QED
  BY <1>1, SlotsInvariant, PTL

\* Neither a cycle nor a read_sensor() that waited through a rescan ever meets a NULL handle.
THEOREM HandlesUsable == Spec => []HandleUsable
<1>1. TypeOK /\ SlotsInv => HandleUsable
  BY DEF SlotsInv, BusOwned, FoundKnown, HandlesRebuilt, HandleUsable
<1> QED
  BY <1>1, SlotsInvariant, PTL

\* A slot keeps its sensor for ever.
THEOREM SlotsNeverMove == Spec => SlotsStable
<1>1. TypeOK /\ [Next]_vars => [count' >= count /\ \A i \in Known : ids'[i] = ids[i]]_vars
  BY TableStep
<1> QED
  BY <1>1, TypeCorrect, PTL DEF Spec, SlotsStable

-----------------------------------------------------------------------------
(* Conversions.                                                             *)

ConvInv == AbsentHoldNone /\ ConversionNotDisturbed

\* Which sensors a slot's handle addresses changes only with the handle, the table or the bus.
LEMMA AddressedSame ==
    ASSUME TypeOK, hslot \in Slot, UNCHANGED <<dev, ids, present, hslot>>
    PROVE  Addressed(hslot)' = Addressed(hslot)
  BY DEF Addressed

\* Every step leaves the conversion alone that the owner of the mutex is waiting for.
LEMMA ConvStep ==
    ASSUME TypeOK, BusOwned, ConvInv, [Next]_vars
    PROVE  ConvInv'
<1> USE DEF ConvInv, AbsentHoldNone
<1>0. hslot \in Slot /\ conv \in [Sensor -> {"none", "task", "http"}]
  BY DEF TypeOK
<1>1. ASSUME NEW s \in Sensor, Plug(s) PROVE ConvInv'
  <2>1. /\ present' = present \cup {s} /\ s \notin present /\ conv[s] = "none"
        /\ UNCHANGED <<conv, pc, hpc, hslot, dev, ids>>
    BY <1>1 DEF Plug
  <2>2. Addressed(hslot)' \subseteq Addressed(hslot) \cup {s}
    BY <2>1, <1>0 DEF Addressed, TypeOK, Handle
  <2> QED
    BY <2>1, <2>2 DEF ConversionNotDisturbed
<1>2. ASSUME NEW s \in Sensor, Unplug(s) PROVE ConvInv'
  <2>1. /\ present' = present \ {s} /\ conv' = [conv EXCEPT ![s] = "none"]
        /\ UNCHANGED <<pc, hpc, hslot, dev, ids>>
    BY <1>2 DEF Unplug, taskVars
  <2>2. Addressed(hslot)' \subseteq Addressed(hslot) /\ Addressed(hslot) \subseteq Sensor
    BY <2>1, <1>0 DEF Addressed, TypeOK, Handle
  <2>3. \A r \in Sensor : conv'[r] = (IF r = s THEN "none" ELSE conv[r])
    BY <2>1, <1>0
  <2>4. AbsentHoldNone'
    BY <2>1, <2>3
  <2>5. pc' = "read" => \A r \in present' : conv'[r] \in {"task", "none"}
    BY <2>1, <2>3 DEF ConversionNotDisturbed, TypeOK
  <2>6. hpc' = "read" => \A r \in Addressed(hslot)' : conv'[r] \in {"http", "none"}
    BY <2>1, <2>2, <2>3 DEF ConversionNotDisturbed
  <2> QED
    BY <2>4, <2>5, <2>6 DEF ConversionNotDisturbed
<1>3. CASE UNCHANGED <<present, conv, dev, ids, hslot, pc, hpc>>
  BY <1>0, <1>3, AddressedSame DEF ConversionNotDisturbed
<1>4. CASE SearchStep \/ HandleStep
  \* The task has the mutex: HTTP is not reading, and the task is not either.
  BY <1>4 DEF BusOwned, ConversionNotDisturbed, SearchStep, HandleStep, SearchFinds, SearchRepeats, SearchEnds,
              AfterScan, FreeHandle, InitHandle, DiscoverReturns
<1>5. CASE TakeBusToScan \/ TakeBusForCycle \/ BusTimeout \/ ReadSlots \/ Record
  <2>1. UNCHANGED <<present, conv, dev, ids, hslot, hpc>> /\ pc' # "read"
    BY <1>5 DEF TakeBusToScan, TakeBusForCycle, BusTimeout, ReadSlots, Record
  <2> QED
    BY <1>0, <2>1, AddressedSame DEF ConversionNotDisturbed
<1>6. CASE Convert
  <2>1. hpc' # "read"
    BY <1>6 DEF Convert, BusOwned
  <2>2. present' = present /\ conv' = [s \in Sensor |-> IF s \in present THEN "task" ELSE conv[s]]
    BY <1>6 DEF Convert
  <2> QED
    BY <2>1, <2>2 DEF ConversionNotDisturbed, TypeOK
<1>7. CASE HttpConvert
  <2>1. pc' # "read" /\ UNCHANGED <<present, dev, ids, hslot>>
    BY <1>7 DEF HttpConvert, BusOwned, taskVars
  <2>2. Addressed(hslot)' = Addressed(hslot) /\ Addressed(hslot) \subseteq present
    BY <1>0, <2>1, AddressedSame DEF Addressed, TypeOK, Handle
  <2>3. CASE hpc' = "idle" /\ UNCHANGED conv
    BY <2>1, <2>3 DEF ConversionNotDisturbed
  <2>4. CASE conv' = [s \in Sensor |-> IF s \in Addressed(hslot) THEN "http" ELSE conv[s]]
    BY <2>1, <2>2, <2>4 DEF ConversionNotDisturbed, TypeOK
  <2> QED
    BY <1>7, <2>3, <2>4 DEF HttpConvert
<1>8. CASE (\E s \in Sensor : HttpLookup(s)) \/ HttpTakeBus \/ HttpTimeout \/ HttpRead
  BY <1>8 DEF HttpLookup, HttpTakeBus, HttpTimeout, HttpRead, ConversionNotDisturbed, taskVars
<1>9. CASE UNCHANGED vars
  BY <1>3, <1>9 DEF vars, taskVars
<1> QED
  BY <1>1, <1>2, <1>4, <1>5, <1>6, <1>7, <1>8, <1>9 DEF Next, Environment, CycleStep, HttpStep, HttpBusStep

\* A reading comes from the conversion its reader asked for, whoever else wants the bus.
THEOREM ConversionsKept == Spec => []ConversionNotDisturbed
<1>1. Init => ConvInv
  BY DEF Init, ConvInv, AbsentHoldNone, ConversionNotDisturbed
<1>2. (TypeOK /\ SlotsInv) /\ ConvInv /\ [Next]_vars => ConvInv'
  BY ConvStep DEF SlotsInv
<1>3. ConvInv => ConversionNotDisturbed
  BY DEF ConvInv
<1> QED
  BY <1>1, <1>2, <1>3, SlotsInvariant, PTL DEF Spec

-----------------------------------------------------------------------------
(* Lost and found sensors.                                                  *)

\* Slot states, events and the deadband are written by Record alone.
LEMMA RecordsOnly ==
    ASSUME [Next]_vars
    PROVE  Record \/ UNCHANGED <<state, raised, armed, posts>>
  BY DEF Next, Environment, Plug, Unplug, TakeBusToScan, SearchStep, SearchFinds, SearchRepeats, SearchEnds, HandleStep,
         FreeHandle, InitHandle, DiscoverReturns, TakeBusForCycle, BusTimeout, CycleStep, Convert, ReadSlots,
         HttpStep, HttpBusStep, HttpLookup, HttpTakeBus, HttpTimeout, HttpConvert, HttpRead, vars

\* What one read does to a slot keeps its events in step with its state.
LEMMA RecordOne ==
    ASSUME NEW st \in SlotState, NEW r \in Sensor \cup {NoId}, NEW last,
           st.lost <=> st.fails = FailReads, st.lost <=> last = "lost"
    PROVE  LET after == RecordRead(st, r) IN
           /\ after.lost <=> after.fails = FailReads
           /\ after.lost <=> EventFor(st, after, last) = "lost"
           /\ after.valid <=> r # NoId
<1> USE FailReadsAssumption
<1> DEFINE after == RecordRead(st, r)
<1>1. CASE r # NoId
  <2>1. after.lost = FALSE /\ after.fails = 0 /\ after.valid = TRUE
    BY <1>1 DEF RecordRead
  <2> QED
    BY <1>1, <2>1 DEF EventFor, SlotState
<1>2. CASE r = NoId
  <2> DEFINE fails == IF st.fails < FailReads THEN st.fails + 1 ELSE FailReads
  <2>1. after = [valid |-> FALSE, from |-> st.from, fails |-> fails, lost |-> (st.lost \/ fails = FailReads)]
    BY <1>2, Zenon DEF RecordRead
  <2>2. after.fails = fails /\ after.valid = FALSE /\ (after.lost <=> (st.lost \/ fails = FailReads))
    <3>1. PICK lost \in BOOLEAN : lost = (st.lost \/ fails = FailReads)
      OBVIOUS
    <3>2. after = [valid |-> FALSE, from |-> st.from, fails |-> fails, lost |-> lost]
      BY <2>1, <3>1, Zenon
    <3>3. lost <=> (st.lost \/ fails = FailReads)
      BY <3>1
    <3> HIDE DEF after, fails
    <3> QED
      BY <3>2, <3>3
  <2>3. st.lost => fails = FailReads
    OBVIOUS
  <2>4. after.lost <=> after.fails = FailReads
    BY <2>2, <2>3
  <2>5. after.lost <=> EventFor(st, after, last) = "lost"
    BY <2>2, <2>4 DEF EventFor
  <2> QED
    BY <1>2, <2>2, <2>4, <2>5
<1> QED
  BY <1>1, <1>2

LostInv == EventsTellLost /\ InvalidArmed

\* Recording a cycle keeps events and deadbands in step with the slots.
LEMMA LostStep ==
    ASSUME TypeOK, LostInv, [Next]_vars
    PROVE  /\ LostInv'
           /\ \A i \in Slot : ~state[i].valid /\ state'[i].valid => i \in posts'
<1>1. CASE UNCHANGED <<state, raised, armed, posts>>
  BY <1>1 DEF LostInv, EventsTellLost, InvalidArmed
<1>2. CASE Record
  <2> DEFINE good  == {i \in Cycled : result[i] # NoId}
             after == [i \in Slot |-> IF i \in Cycled THEN RecordRead(state[i], result[i]) ELSE state[i]]
  <2>1. state' = after /\ raised' = [i \in Slot |-> EventFor(state[i], after[i], raised[i])]
    BY <1>2 DEF Record
  <2>2. PICK due \in SUBSET good : /\ good \cap armed \subseteq due
                                   /\ posts' = due
                                   /\ armed' = ResetFailed(good) \ due
    BY <1>2 DEF Record
  <2>3. ASSUME NEW i \in Slot
        PROVE  /\ state'[i].lost <=> state'[i].fails = FailReads
               /\ state'[i].lost <=> raised'[i] = "lost"
               /\ ~state'[i].valid => i \in armed'
               /\ ~state[i].valid /\ state'[i].valid => i \in posts'
    <3>1. /\ state[i] \in SlotState /\ result[i] \in Sensor \cup {NoId}
          /\ state[i].lost <=> state[i].fails = FailReads
          /\ state[i].lost <=> raised[i] = "lost"
          /\ ~state[i].valid => i \in armed
      BY DEF TypeOK, LostInv, EventsTellLost, InvalidArmed
    <3>2. CASE i \in Cycled
      <4>1. state'[i] = RecordRead(state[i], result[i])
        BY <2>1, <3>2
      <4>2. raised'[i] = EventFor(state[i], state'[i], raised[i])
        BY <2>1, <4>1
      <4>3. /\ state'[i].lost <=> state'[i].fails = FailReads
            /\ state'[i].lost <=> raised'[i] = "lost"
            /\ state'[i].valid <=> i \in good
        BY <3>1, <3>2, <4>1, <4>2, RecordOne
      <4>4. i \in good \/ i \in armed'
        BY <2>2, <3>2 DEF ResetFailed
      <4>5. i \in good /\ i \in armed => i \in posts'
        BY <2>2
      <4> QED
        BY <3>1, <4>3, <4>4, <4>5
    <3>3. CASE i \notin Cycled
      <4>1. state'[i] = state[i]
        BY <2>1, <3>3
      <4>2. raised'[i] = raised[i]
        BY <2>1, <3>1, <3>3 DEF EventFor
      <4>3. i \in armed => i \in armed'
        BY <2>2, <3>3 DEF ResetFailed
      <4> QED
        BY <3>1, <4>1, <4>2, <4>3
    <3> QED
      BY <3>2, <3>3
  <2> QED
    BY <2>3 DEF LostInv, EventsTellLost, InvalidArmed
<1> QED
  BY <1>1, <1>2, RecordsOnly

\* Initially no slot is lost and every slot is armed.
LEMMA LostInit == Init => LostInv
  BY FailReadsAssumption DEF Init, LostInv, EventsTellLost, InvalidArmed

\* The lost and recovered events are in step with the slot table for ever.
THEOREM EventsInStep == Spec => []EventsTellLost
<1>1. Init => LostInv
  BY LostInit
<1>2. TypeOK /\ LostInv /\ [Next]_vars => LostInv'
  BY LostStep
<1>3. LostInv => EventsTellLost
  BY DEF LostInv
<1> QED
  BY <1>1, <1>2, <1>3, TypeCorrect, PTL DEF Spec

\* The first good reading after a failure is posted, however long the outage was.
THEOREM RecoveriesPosted == Spec => RecoveryPosted
<1>1. Init => LostInv
  BY LostInit
<1>2. TypeOK /\ LostInv /\ [Next]_vars => LostInv'
  BY LostStep
<1>3. TypeOK /\ LostInv /\ [Next]_vars
      => [\A i \in Slot : ~state[i].valid /\ state'[i].valid => i \in posts']_vars
  BY LostStep
<1> QED
  BY <1>1, <1>2, <1>3, TypeCorrect, PTL DEF Spec, RecoveryPosted

-----------------------------------------------------------------------------
(* The mutex.                                                               *)

\* The task and GET /sensor are not on the bus together, and the mutex is free when neither is.
OneOnTheBus ==
    LET tasks == pc \in {"search", "init", "convert", "read"}
        https == hpc \in {"convert", "read"}
    IN ~(tasks /\ https) /\ (bus = "free" <=> ~tasks /\ ~https)

\* The sensor task and GET /sensor are never on the bus together, and every way out of a scan, a
\* cycle and a read_sensor() gives the mutex back: it is free whenever neither is (s_bus_mutex).
THEOREM MutexGivenBack == Spec => []OneOnTheBus
<1>1. TypeOK /\ SlotsInv => OneOnTheBus
  BY DEF TypeOK, SlotsInv, BusOwned, OneOnTheBus
<1> QED
  BY <1>1, SlotsInvariant, PTL

-----------------------------------------------------------------------------
(* Whose readings a slot holds: where ReadingsStayAttached is true.         *)

\* What the cycle read through a handle that addresses by ROM code came from the slot's sensor.
MatchedInv == pc = "record" => \A i \in Cycled : dev[i] = "match" => result[i] \in {ids[i], NoId}

\* Nobody answers to a solo handle but the slot's own sensor: it was not swapped, and none joined it.
OnlyOwnAnswers == \A i \in Known : dev[i] = "solo" => present \subseteq {ids[i]}

\* No slot holds, or is about to get, a reading of another sensor.
AttachInv ==
    /\ ReadingsStayAttached
    /\ pc = "record" => \A i \in Cycled : result[i] \in {ids[i], NoId}
    /\ \A i \in Slot \ Known : ~state[i].valid

\* A slot's answer comes from a sensor its handle addresses.
LEMMA AnswerFrom ==
    ASSUME NEW i, NEW S, Addressed(i) \subseteq S
    PROVE  Answer(i) \in S \cup {NoId}
  BY DEF Answer

\* Between the reads of a cycle and their recording only the outside world and GET /sensor run.
LEMMA WhileRecording ==
    ASSUME TypeOK, SlotsInv, [Next]_vars, pc' = "record"
    PROVE  \/ UNCHANGED <<pc, dev, ids, count, cyc, result, state>>
           \/ ReadSlots /\ UNCHANGED <<dev, ids, count, cyc, state>>
           \/ BusTimeout /\ result' = [i \in Slot |-> NoId] /\ UNCHANGED <<dev, ids, count, state>>
  BY DEF Next, Environment, Plug, Unplug, TakeBusToScan, SearchStep, SearchFinds, SearchRepeats, SearchEnds, AfterScan,
         HandleStep, FreeHandle, InitHandle, DiscoverReturns, TakeBusForCycle, BusTimeout, CycleStep, Convert,
         ReadSlots, Record, HttpStep, HttpBusStep, HttpLookup, HttpTakeBus, HttpTimeout, HttpConvert, HttpRead,
         vars, taskVars

\* The slots of a cycle are slots in use.
LEMMA CycledKnown == TypeOK /\ SlotsInv => Cycled \subseteq Known /\ Known \subseteq Slot
  BY MaxDevicesAssumption DEF TypeOK, SlotsInv, FoundKnown, Cycled, Known, Slot

\* Reading a slot addressed by its code gives its sensor's reading or none.
LEMMA MatchedStep ==
    ASSUME TypeOK, SlotsInv, MatchedInv, [Next]_vars
    PROVE  MatchedInv'
<1> SUFFICES ASSUME pc' = "record", NEW i \in Cycled', dev'[i] = "match"
             PROVE  result'[i] \in {ids'[i], NoId}
  BY DEF MatchedInv
<1>1. CASE UNCHANGED <<pc, dev, ids, count, cyc, result, state>>
  BY <1>1 DEF MatchedInv, Cycled
<1>2. CASE ReadSlots /\ UNCHANGED <<dev, ids, count, cyc, state>>
  <2>1. i \in Slot /\ dev[i] = "match"
    BY <1>2, CycledKnown DEF Cycled
  <2>2. Addressed(i) \subseteq {ids[i]}
    BY <2>1 DEF Addressed
  <2>3. Answer(i) \in {ids[i], NoId}
    BY <2>2, AnswerFrom
  <2>4. result'[i] \in {Answer(i), NoId}
    BY <1>2, <2>1 DEF ReadSlots
  <2> QED
    BY <1>2, <2>3, <2>4
<1>3. CASE BusTimeout /\ result' = [j \in Slot |-> NoId] /\ UNCHANGED <<dev, ids, count, state>>
  <2>1. i \in Slot
    BY <1>3, MaxDevicesAssumption DEF BusTimeout, Cycled, Slot, TypeOK
  <2> QED
    BY <1>3, <2>1
<1> QED
  BY <1>1, <1>2, <1>3, WhileRecording

\* What a read leaves in a slot's state.
LEMMA RecordedFrom ==
    ASSUME NEW st \in SlotState, NEW r
    PROVE  /\ RecordRead(st, r).valid <=> r # NoId
           /\ r # NoId => RecordRead(st, r).from = r
<1>1. CASE r # NoId
  BY <1>1 DEF RecordRead
<1>2. CASE r = NoId
  <2> DEFINE fails == IF st.fails < FailReads THEN st.fails + 1 ELSE FailReads
  <2>1. PICK lost \in BOOLEAN : lost = (st.lost \/ fails = FailReads)
    OBVIOUS
  <2>2. RecordRead(st, r) = [valid |-> FALSE, from |-> st.from, fails |-> fails, lost |-> lost]
    BY <1>2, <2>1, Zenon DEF RecordRead
  <2> HIDE DEF fails
  <2>3. RecordRead(st, r).valid = FALSE
    BY <2>2
  <2> QED
    BY <1>2, <2>3
<1> QED
  BY <1>1, <1>2

\* sensor.c:29, for slots addressed by ROM code: the reading a cycle records for such a slot was
\* measured by the slot's own sensor, whatever was plugged, unplugged, lost and found before.
THEOREM MatchedReadingsAttached ==
    Spec => [][Record => \A i \in Cycled : dev[i] = "match" /\ state'[i].valid => state'[i].from = ids[i]]_vars
<1>1. Init => MatchedInv
  BY DEF Init, MatchedInv
<1>2. (TypeOK /\ SlotsInv) /\ MatchedInv /\ [Next]_vars => MatchedInv'
  BY MatchedStep
<1>3. (TypeOK /\ SlotsInv) /\ MatchedInv /\ [Next]_vars
      => [Record => \A i \in Cycled : dev[i] = "match" /\ state'[i].valid => state'[i].from = ids[i]]_vars
  <2> SUFFICES ASSUME TypeOK, SlotsInv, MatchedInv, Record, NEW i \in Cycled, dev[i] = "match", state'[i].valid
               PROVE  state'[i].from = ids[i]
    OBVIOUS
  <2>1. i \in Slot /\ pc = "record"
    BY CycledKnown DEF Record
  <2>2. state'[i] = RecordRead(state[i], result[i])
    BY <2>1 DEF Record
  <2> QED
    BY <2>1, <2>2, RecordedFrom DEF MatchedInv, TypeOK
<1> QED
  BY <1>1, <1>2, <1>3, SlotsInvariant, PTL DEF Spec

\* Every step keeps readings with their sensors while nobody else answers to a solo handle.
LEMMA AttachStep ==
    ASSUME TypeOK, SlotsInv, AttachInv, OnlyOwnAnswers, [Next]_vars
    PROVE  AttachInv'
<1>t. Cycled \subseteq Known /\ Known \subseteq Slot
  BY CycledKnown
<1>1. ASSUME pc' = "record", NEW i \in Cycled' PROVE result'[i] \in {ids'[i], NoId}
  <2>1. CASE UNCHANGED <<pc, dev, ids, count, cyc, result, state>>
    BY <1>1, <2>1 DEF AttachInv, Cycled
  <2>2. CASE ReadSlots /\ UNCHANGED <<dev, ids, count, cyc, state>>
    <3>1. i \in Known /\ i \in Slot
      BY <1>1, <1>t, <2>2 DEF Cycled
    <3>2. Addressed(i) \subseteq {ids[i]}
      BY <3>1 DEF Addressed, OnlyOwnAnswers, TypeOK, Handle
    <3>3. Answer(i) \in {ids[i], NoId}
      BY <3>2, AnswerFrom
    <3>4. result'[i] \in {Answer(i), NoId}
      BY <2>2, <3>1 DEF ReadSlots
    <3> QED
      BY <2>2, <3>3, <3>4
  <2>3. CASE BusTimeout /\ result' = [j \in Slot |-> NoId] /\ UNCHANGED <<dev, ids, count, state>>
    <3>1. i \in Slot
      BY <1>1, <2>3, MaxDevicesAssumption DEF BusTimeout, Cycled, Slot, TypeOK
    <3> QED
      BY <2>3, <3>1
  <2> QED
    BY <1>1, <2>1, <2>2, <2>3, WhileRecording
<1>2. CASE Record
  <2>1. UNCHANGED <<ids, count>> /\ pc = "record"
    BY <1>2 DEF Record
  <2>2. \A i \in Slot : state'[i] = IF i \in Cycled THEN RecordRead(state[i], result[i]) ELSE state[i]
    BY <1>2 DEF Record
  <2>3. ASSUME NEW i \in Known, state'[i].valid PROVE state'[i].from = ids[i]
    <3>1. CASE i \in Cycled
      BY <1>t, <2>1, <2>2, <2>3, <3>1, RecordedFrom DEF AttachInv, TypeOK
    <3>2. CASE i \notin Cycled
      BY <1>t, <2>2, <2>3, <3>2 DEF AttachInv, ReadingsStayAttached
    <3> QED
      BY <3>1, <3>2
  <2>4. ReadingsStayAttached'
    BY <2>1, <2>3 DEF ReadingsStayAttached, Known
  <2>5. \A i \in Slot \ Known' : ~state'[i].valid
    BY <1>t, <2>1, <2>2 DEF AttachInv, Known
  <2> QED
    BY <1>1, <2>4, <2>5 DEF AttachInv
<1>3. CASE UNCHANGED state
  <2>1. count' >= count /\ \A i \in Known : ids'[i] = ids[i]
    BY TableStep
  <2>2. count \in 0 .. MaxDevices /\ count' \in 0 .. MaxDevices
    BY TypeStep DEF TypeOK
  <2>3. Known \subseteq Known' /\ Known' \subseteq Slot
    <3>1. \A a, b, m \in Nat : a <= b /\ b <= m => 0 .. a - 1 \subseteq 0 .. b - 1 /\ 0 .. b - 1 \subseteq 0 .. m - 1
      OBVIOUS
    <3>2. count \in Nat /\ count' \in Nat /\ MaxDevices \in Nat /\ count <= count' /\ count' <= MaxDevices
      BY <2>1, <2>2, MaxDevicesAssumption
    <3> QED
      BY <3>1, <3>2 DEF Known, Slot
  <2>4. ASSUME NEW i \in Known', state'[i].valid PROVE state'[i].from = ids'[i]
    <3>1. i \in Known
      BY <1>3, <2>3, <2>4 DEF AttachInv
    <3> QED
      BY <1>3, <2>1, <2>4, <3>1 DEF AttachInv, ReadingsStayAttached
  <2>5. \A i \in Slot \ Known' : ~state'[i].valid
    BY <1>3, <2>3 DEF AttachInv
  <2> QED
    BY <1>1, <2>4, <2>5 DEF AttachInv, ReadingsStayAttached
<1> QED
  BY <1>2, <1>3, RecordsOnly

\* sensor.c:29 "so history series stay attached to the same sensor" holds up to the case its run
\* shows: as long as no other sensor answers to a solo handle, every reading a slot holds was
\* measured by the slot's own sensor.
THEOREM AttachedUnlessSwapped == Spec /\ []OnlyOwnAnswers => []ReadingsStayAttached
<1>1. Init => AttachInv
  BY DEF Init, AttachInv, ReadingsStayAttached, Known
<1>2. (TypeOK /\ SlotsInv) /\ AttachInv /\ OnlyOwnAnswers /\ [Next]_vars => AttachInv'
  BY AttachStep
<1>3. AttachInv => ReadingsStayAttached
  BY DEF AttachInv
<1> QED
  BY <1>1, <1>2, <1>3, SlotsInvariant, PTL DEF Spec

=============================================================================
