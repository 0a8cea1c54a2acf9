---------------------------- MODULE SensorTask ----------------------------
(***************************************************************************)
(* The sensor task of firmware/main/sensor.c together with the only other  *)
(* user of the 1-Wire bus, GET /sensor: discovery and rescan of the bus,   *)
(* the slot table, the five-second reading cycle, the lost/recovered       *)
(* bookkeeping and the bus mutex.                                          *)
(*                                                                         *)
(* Abstracted here: temperatures (a reading is represented by the sensor   *)
(* that produced it), time (one cycle follows another; see SensorTiming    *)
(* for the watchdog and the clock), the rows handed to history_add (see    *)
(* Api) and what becomes of a posted reading (see Metrics).                *)
(***************************************************************************)
EXTENDS Integers

CONSTANTS
    Sensor,      \* ROM codes that may be wired to the bus
    NoId,        \* "no sensor": an unused slot, a read that failed
    MaxDevices,  \* MAX_DEVICES, the slots of the table
    FailReads,   \* SENSOR_FAIL_READS, failures in a row that make a sensor lost
    MaxFaults    \* bound: how often the outside world may interfere

ASSUME NoIdAssumption       == NoId \notin Sensor
ASSUME MaxDevicesAssumption == MaxDevices \in Nat \ {0}
ASSUME FailReadsAssumption  == FailReads \in Nat \ {0}
ASSUME MaxFaultsAssumption  == MaxFaults \in Nat

VARIABLES
    present,  \* the sensors that answer on the bus now
    faults,   \* interferences so far
    ids,      \* s_ids: the sensor a slot belongs to
    count,    \* s_count: slots in use, 0 .. count - 1
    dev,      \* s_devices: the driver handle of a slot
    state,    \* s_state: what the last reads of a slot gave
    armed,    \* slots whose hi_deadband state is reset: the next good reading is due
    posts,    \* slots whose reading the last cycle handed to metrics_post
    raised,   \* the last lost/recovered event published for a slot
    scan,     \* what the last scan found, and whether that was an EV_SENSORS event
    bus,      \* owner of s_bus_mutex
    conv,     \* who asked for the conversion a sensor holds the result of
    pc,       \* where the sensor task is
    booted,   \* the first scan that found something is over
    seen,     \* sensors the running search has enumerated or passed
    found,    \* slots of the sensors it found: slots[0 .. reports - 1]
    twice,    \* those of them it reported more than once
    reports,  \* `found` of discover_locked: how many reports these are
    pending,  \* slots whose handle discover_locked has still to rebuild
    cyc,      \* the cycle's own copy of s_count
    result,   \* the sensor whose answer the cycle read for a slot
    hpc,      \* where the HTTP task's read_sensor() is
    hslot     \* the slot it looked up

taskVars == <<pc, booted, seen, found, twice, reports, pending, cyc, result>>
vars == <<present, faults, ids, count, dev, state, armed, posts, raised, scan,
          bus, conv, taskVars, hpc, hslot>>

Slot   == 0 .. MaxDevices - 1
Known  == 0 .. count - 1
Cycled == 0 .. cyc - 1   \* the slots of the running cycle
Handle == {"null", "solo", "match"}
NoSlot == MaxDevices

SlotState == [valid: BOOLEAN, from: Sensor \cup {NoId}, fails: 0 .. FailReads, lost: BOOLEAN]

TypeOK ==
    /\ present \subseteq Sensor
    /\ faults \in 0 .. MaxFaults
    /\ ids \in [Slot -> Sensor \cup {NoId}]
    /\ count \in 0 .. MaxDevices
    /\ dev \in [Slot -> Handle]
    /\ state \in [Slot -> SlotState]
    /\ armed \subseteq Slot
    /\ posts \subseteq Slot
    /\ raised \in [Slot -> {"none", "lost", "back"}]
    /\ scan \in [found: 0 .. MaxDevices, prev: 0 .. MaxDevices, event: BOOLEAN]
    /\ bus \in {"free", "task", "http"}
    /\ conv \in [Sensor -> {"none", "task", "http"}]
    /\ pc \in {"scan", "search", "init", "cycle", "convert", "read", "record", "rescan"}
    /\ booted \in BOOLEAN
    /\ seen \subseteq Sensor
    /\ found \subseteq Slot
    /\ twice \subseteq Slot
    /\ reports \in 0 .. MaxDevices
    /\ pending \subseteq Slot
    /\ cyc \in 0 .. MaxDevices
    /\ result \in [Slot -> Sensor \cup {NoId}]
    /\ hpc \in {"idle", "take", "convert", "read"}
    /\ hslot \in Slot

Init ==
    /\ present \in SUBSET Sensor
    /\ faults = 0
    /\ ids = [i \in Slot |-> NoId]
    /\ count = 0
    /\ dev = [i \in Slot |-> "null"]
    /\ state = [i \in Slot |-> [valid |-> FALSE, from |-> NoId, fails |-> 0, lost |-> FALSE]]
    /\ armed = Slot
    /\ posts = {}
    /\ raised = [i \in Slot |-> "none"]
    /\ scan = [found |-> 0, prev |-> 0, event |-> FALSE]
    /\ bus = "free"
    /\ conv = [s \in Sensor |-> "none"]
    /\ pc = "scan"
    /\ booted = FALSE
    /\ seen = {}
    /\ found = {}
    /\ twice = {}
    /\ reports = 0
    /\ pending = {}
    /\ cyc = 0
    /\ result = [i \in Slot |-> NoId]
    /\ hpc = "idle"
    /\ hslot = 0

-----------------------------------------------------------------------------
(* The world outside: sensors are plugged, unplugged and disturbed.         *)

Interfere ==
    /\ faults < MaxFaults
    /\ faults' = faults + 1

\* A running search may already have passed the place of the new ROM code.
Plug(s) ==
    /\ Interfere
    /\ s \notin present
    /\ present' = present \cup {s}
    /\ \/ UNCHANGED seen
       \/ /\ pc = "search"
          /\ seen' = seen \cup {s}
    /\ UNCHANGED <<ids, count, dev, state, armed, posts, raised, scan, bus, conv,
                   pc, booted, found, twice, reports, pending, cyc, result, hpc, hslot>>

Unplug(s) ==
    /\ Interfere
    /\ s \in present
    /\ present' = present \ {s}
    /\ conv' = [conv EXCEPT ![s] = "none"]
    /\ UNCHANGED <<ids, count, dev, state, armed, posts, raised, scan, bus, taskVars, hpc, hslot>>

-----------------------------------------------------------------------------
(* discover_locked: the search fills the slot table, then every slot found  *)
(* gets a new driver handle. Runs under the bus mutex, but readers of       *)
(* s_ids, s_count and s_devices that do not take it can see each step.      *)

\* Mutant: every sensor found gets a new slot.
SlotForIdNew(s) == IF count < MaxDevices THEN count ELSE NoSlot

\* Mutant: a full table is found full before the known ids are looked through.
SlotForIdFull(s) ==
    IF count = MaxDevices THEN NoSlot
    ELSE IF \E i \in Known : ids[i] = s THEN CHOOSE i \in Known : ids[i] = s
    ELSE count

\* slot_for_id: the slot of a known sensor, else the next free one, else none.
SlotForId(s) ==
    IF \E i \in Known : ids[i] = s THEN CHOOSE i \in Known : ids[i] = s
    ELSE IF count < MaxDevices THEN count
    ELSE NoSlot

\* Mutant: a scan fills the table anew.
TakeBusToScanAfresh ==
    /\ pc \in {"scan", "rescan"}
    /\ bus = "free"
    /\ bus' = "task"
    /\ pc' = "search"
    /\ seen' = {}
    /\ found' = {}
    /\ twice' = {}
    /\ reports' = 0
    /\ count' = 0
    /\ UNCHANGED <<present, faults, ids, dev, state, armed, posts, raised, scan, conv,
                   booted, pending, cyc, result, hpc, hslot>>

\* The mutex is awaited without a timeout, by the first scan and by a rescan.
TakeBusToScan ==
    /\ pc \in {"scan", "rescan"}
    /\ bus = "free"
    /\ bus' = "task"
    /\ pc' = "search"
    /\ seen' = {}
    /\ found' = {}
    /\ twice' = {}
    /\ reports' = 0
    /\ UNCHANGED <<present, faults, ids, count, dev, state, armed, posts, raised, scan, conv,
                   booted, pending, cyc, result, hpc, hslot>>

\* One turn of the search loop: the driver reports a sensor it has not reported before.
SearchFinds(s) ==
    LET slot == SlotForId(s) IN
    /\ pc = "search"
    /\ s \in present \ seen
    /\ reports < MaxDevices
    /\ seen' = seen \cup {s}
    /\ found' = IF slot = NoSlot THEN found ELSE found \cup {slot}
    /\ reports' = IF slot = NoSlot THEN reports ELSE reports + 1
    /\ ids' = IF slot = count /\ slot # NoSlot THEN [ids EXCEPT ![slot] = s] ELSE ids
    /\ count' = IF slot = count /\ slot # NoSlot THEN slot + 1 ELSE count
    /\ UNCHANGED <<present, faults, dev, state, armed, posts, raised, scan, bus, conv,
                   pc, booted, twice, pending, cyc, result, hpc, hslot>>

\* A misread bit makes the search report a sensor that is in its place already (OneWire).
SearchRepeats(i) ==
    /\ pc = "search"
    /\ i \in found /\ ids[i] \in present
    /\ reports < MaxDevices
    /\ Interfere
    /\ twice' = twice \cup {i}
    /\ reports' = reports + 1
    /\ UNCHANGED <<present, ids, count, dev, state, armed, posts, raised, scan, bus, conv,
                   pc, booted, seen, found, pending, cyc, result, hpc, hslot>>

\* discover_locked returned n: what sensor_task does with it once the mutex is given back.
\* A first scan is repeated until it finds something; a rescan that found another number than
\* the slots ever used is an event, also when the scan before it found the same number.
AfterScan(n) ==
    /\ bus' = "free"
    /\ pc' = IF ~booted /\ n = 0 THEN "scan" ELSE "cycle"
    /\ booted' = (booted \/ n > 0)
    /\ scan' = [found |-> n,
                prev  |-> IF booted THEN cyc ELSE 0,
                event |-> (n > 0 /\ (booted => n # cyc))]

\* The driver reports no further sensor: there is none, the table is full, or a disturbed
\* search (CRC of the ROM code, no answer to a search bit) ended early.
SearchEnds ==
    /\ pc = "search"
    /\ \/ /\ present \subseteq seen \/ reports = MaxDevices
          /\ UNCHANGED faults
       \/ Interfere
    /\ \/ /\ found = {}
          /\ AfterScan(0)
          /\ UNCHANGED pending
       \/ /\ found # {}
          /\ pc' = "init"
          /\ pending' = found
          /\ UNCHANGED <<bus, booted, scan>>
    /\ UNCHANGED <<present, ids, count, dev, state, armed, posts, raised, conv,
                   seen, found, twice, reports, cyc, result, hpc, hslot>>

\* ds18b20_free() sets the slot's handle to NULL ...
FreeHandle(i) ==
    /\ pc = "init"
    /\ i \in pending
    /\ dev[i] # "null"
    /\ dev' = [dev EXCEPT ![i] = "null"]
    /\ UNCHANGED <<present, faults, ids, count, state, armed, posts, raised, scan, bus, conv,
                   pc, booted, seen, found, twice, reports, pending, cyc, result, hpc, hslot>>

\* ... and the new one is stored once it is set up: a sensor found alone is addressed with
\* SKIP ROM, one of several with MATCH ROM and its code. A slot reported again is done again.
InitHandle(i) ==
    /\ pc = "init"
    /\ i \in pending
    /\ dev[i] = "null"
    /\ dev' = [dev EXCEPT ![i] = IF reports = 1 THEN "solo" ELSE "match"]
    /\ pending' = IF i \in twice THEN pending ELSE pending \ {i}
    /\ twice' = twice \ {i}
    /\ UNCHANGED <<present, faults, ids, count, state, armed, posts, raised, scan, bus, conv,
                   pc, booted, seen, found, reports, cyc, result, hpc, hslot>>

DiscoverReturns ==
    /\ pc = "init"
    /\ pending = {}
    /\ AfterScan(reports)
    /\ UNCHANGED <<present, faults, ids, count, dev, state, armed, posts, raised, conv,
                   seen, found, twice, reports, pending, cyc, result, hpc, hslot>>

-----------------------------------------------------------------------------
(* One cycle of sensor_task: take the bus, convert all sensors, read each   *)
(* slot, give the bus, record, and rescan when every known sensor is lost.  *)

\* Mutant: the cycle does not take the mutex.
TakeBusForCycleAnyway ==
    /\ pc = "cycle"
    /\ bus' = "task"
    /\ pc' = "convert"
    /\ cyc' = count
    /\ UNCHANGED <<present, faults, ids, count, dev, state, armed, posts, raised, scan, conv,
                   booted, seen, found, twice, reports, pending, result, hpc, hslot>>

TakeBusForCycle ==
    /\ pc = "cycle"
    /\ bus = "free"
    /\ bus' = "task"
    /\ pc' = "convert"
    /\ cyc' = count
    /\ UNCHANGED <<present, faults, ids, count, dev, state, armed, posts, raised, scan, conv,
                   booted, seen, found, twice, reports, pending, result, hpc, hslot>>

\* The bus stays taken for BUS_LOCK_TIMEOUT_MS: every slot of the cycle counts as failed.
BusTimeout ==
    /\ pc = "cycle"
    /\ bus = "http"
    /\ Interfere
    /\ pc' = "record"
    /\ cyc' = count
    /\ result' = [i \in Slot |-> NoId]
    /\ UNCHANGED <<present, ids, count, dev, state, armed, posts, raised, scan, bus, conv,
                   booted, seen, found, twice, reports, pending, hpc, hslot>>

\* ds18b20_convert_all() reaches every sensor that is there; the task then waits.
Convert ==
    /\ pc = "convert"
    /\ conv' = [s \in Sensor |-> IF s \in present THEN "task" ELSE conv[s]]
    /\ pc' = "read"
    /\ UNCHANGED <<present, faults, ids, count, dev, state, armed, posts, raised, scan, bus,
                   booted, seen, found, twice, reports, pending, cyc, result, hpc, hslot>>

\* The sensors that answer a command addressed through slot i's handle.
Addressed(i) ==
    CASE dev[i] = "null"  -> {}
      [] dev[i] = "solo"  -> present
      [] dev[i] = "match" -> present \cap {ids[i]}

\* What ds18b20_read_temp() gives for slot i: scratchpads sent by several sensors at once fail
\* the CRC check, one without a conversion since power-on holds 85.0 and is refused.
Answer(i) ==
    IF \E s \in Addressed(i) : Addressed(i) = {s} /\ conv[s] # "none"
    THEN CHOOSE s \in Addressed(i) : TRUE
    ELSE NoId

\* All slots are read under one hold of the bus; a disturbed read fails its CRC check.
ReadSlots ==
    /\ pc = "read"
    /\ \E disturbed \in SUBSET Cycled :
          /\ IF disturbed = {} THEN UNCHANGED faults ELSE Interfere
          /\ result' = [i \in Slot |-> IF i \in Cycled \ disturbed THEN Answer(i) ELSE NoId]
    /\ bus' = "free"
    /\ pc' = "record"
    /\ UNCHANGED <<present, ids, count, dev, state, armed, posts, raised, scan, conv,
                   booted, seen, found, twice, reports, pending, cyc, hpc, hslot>>

\* Mutant: the failures in a row are not capped.
RecordReadUncapped(st, sensor) ==
    IF sensor # NoId
    THEN [valid |-> TRUE, from |-> sensor, fails |-> 0, lost |-> FALSE]
    ELSE [st EXCEPT !.valid = FALSE, !.fails = st.fails + 1, !.lost = st.lost \/ st.fails + 1 >= FailReads]

\* Mutant: a good read does not end a loss.
RecordReadStaysLost(st, sensor) ==
    IF sensor # NoId
    THEN [valid |-> TRUE, from |-> sensor, fails |-> 0, lost |-> st.lost]
    ELSE LET fails == IF st.fails < FailReads THEN st.fails + 1 ELSE FailReads IN
         [valid |-> FALSE, from |-> st.from, fails |-> fails, lost |-> (st.lost \/ fails = FailReads)]

\* record_read: what becomes of a slot's state. fails_in_row counts on to UINT16_MAX in the
\* code, where nothing tells the values from FailReads on apart.
RecordRead(st, sensor) ==
    IF sensor # NoId
    THEN [valid |-> TRUE, from |-> sensor, fails |-> 0, lost |-> FALSE]
    ELSE LET fails == IF st.fails < FailReads THEN st.fails + 1 ELSE FailReads IN
         [valid |-> FALSE, from |-> st.from, fails |-> fails, lost |-> (st.lost \/ fails = FailReads)]

\* Mutant: the recovery is published whenever the slot was lost before.
EventForEarly(before, after, last) ==
    IF before.lost THEN "back" ELSE IF after.lost THEN "lost" ELSE last

\* record_read: the event its change of state publishes.
EventFor(before, after, last) ==
    IF after.lost /\ ~before.lost THEN "lost"
    ELSE IF before.lost /\ ~after.lost THEN "back"
    ELSE last

\* Mutant: one sensor alone is no reason to rescan.
AllLostOfSeveral(st, n) == n > 1 /\ \A i \in 0 .. n - 1 : st[i].lost

AllLost(st, n) == n > 0 /\ \A i \in 0 .. n - 1 : st[i].lost

\* Mutant: a failed read leaves the deadband of its slot as it is.
ResetFailedNever(good) == armed

\* hi_deadband_reset() of every slot whose read failed.
ResetFailed(good) == armed \cup (Cycled \ good)

\* The loop over the slots is one step: no other task reads what it writes and changes anything.
\* A failure resets the slot's deadband, so the next good reading is posted whatever its value;
\* other good readings are posted when hi_deadband finds them due, here any set of them.
Record ==
    LET good  == {i \in Cycled : result[i] # NoId}
        after == [i \in Slot |-> IF i \in Cycled THEN RecordRead(state[i], result[i]) ELSE state[i]]
    IN
    /\ pc = "record"
    /\ state' = after
    /\ raised' = [i \in Slot |-> EventFor(state[i], after[i], raised[i])]
    /\ \E due \in SUBSET good :
          /\ good \cap armed \subseteq due
          /\ posts' = due
          /\ armed' = ResetFailed(good) \ due
    /\ pc' = IF AllLost(after, cyc) THEN "rescan" ELSE "cycle"
    /\ UNCHANGED <<present, faults, ids, count, dev, scan, bus, conv,
                   booted, seen, found, twice, reports, pending, cyc, result, hpc, hslot>>

-----------------------------------------------------------------------------
(* read_sensor, run by the HTTP server's task for GET /sensor.              *)

\* The lookup does not take the mutex: it may run between any two steps of the sensor task.
\* An id it does not find, or finds without a handle, is answered with -273 at once.
HttpLookup(s) ==
    /\ hpc = "idle"
    /\ \E i \in Known :
          /\ ids[i] = s
          /\ dev[i] # "null"
          /\ hslot' = i
    /\ hpc' = "take"
    /\ UNCHANGED <<present, faults, ids, count, dev, state, armed, posts, raised, scan, bus,
                   conv, taskVars>>

\* Mutant: read_sensor does not take the mutex.
HttpTakeBusAnyway ==
    /\ hpc = "take"
    /\ bus' = "http"
    /\ hpc' = "convert"
    /\ UNCHANGED <<present, faults, ids, count, dev, state, armed, posts, raised, scan,
                   conv, taskVars, hslot>>

HttpTakeBus ==
    /\ hpc = "take"
    /\ bus = "free"
    /\ bus' = "http"
    /\ hpc' = "convert"
    /\ UNCHANGED <<present, faults, ids, count, dev, state, armed, posts, raised, scan,
                   conv, taskVars, hslot>>

\* The bus stays taken for BUS_LOCK_TIMEOUT_MS: -273.
HttpTimeout ==
    /\ hpc = "take"
    /\ bus = "task"
    /\ hpc' = "idle"
    /\ UNCHANGED <<present, faults, ids, count, dev, state, armed, posts, raised, scan, bus,
                   conv, taskVars, hslot>>

\* ds18b20_convert() through the handle the slot has now, when any sensor answers the reset.
HttpConvert ==
    /\ hpc = "convert"
    /\ IF present = {}
       THEN /\ hpc' = "idle"
            /\ bus' = "free"
            /\ UNCHANGED conv
       ELSE /\ hpc' = "read"
            /\ conv' = [s \in Sensor |-> IF s \in Addressed(hslot) THEN "http" ELSE conv[s]]
            /\ UNCHANGED bus
    /\ UNCHANGED <<present, faults, ids, count, dev, state, armed, posts, raised, scan,
                   taskVars, hslot>>

\* The answer, Answer(hslot) or -273, goes to the client.
HttpRead ==
    /\ hpc = "read"
    /\ hpc' = "idle"
    /\ bus' = "free"
    /\ UNCHANGED <<present, faults, ids, count, dev, state, armed, posts, raised, scan,
                   conv, taskVars, hslot>>

-----------------------------------------------------------------------------
Environment == \E s \in Sensor : Plug(s) \/ Unplug(s)

SearchStep == (\E s \in Sensor : SearchFinds(s)) \/ (\E i \in Slot : SearchRepeats(i)) \/ SearchEnds

HandleStep == (\E i \in Slot : FreeHandle(i) \/ InitHandle(i)) \/ DiscoverReturns

CycleStep == Convert \/ ReadSlots \/ Record

HttpBusStep == HttpConvert \/ HttpRead

HttpStep == (\E s \in Sensor : HttpLookup(s)) \/ HttpTakeBus \/ HttpTimeout \/ HttpBusStep

Next ==
    \/ Environment
    \/ TakeBusToScan \/ SearchStep \/ HandleStep
    \/ TakeBusForCycle \/ BusTimeout \/ CycleStep
    \/ HttpStep

Spec == Init /\ [][Next]_vars

\* FreeRTOS runs every ready task, and gives the mutex to the task that waits for it with the
\* highest priority: the sensor task is not passed over for ever. Nobody has to call /sensor.
Fairness ==
    /\ WF_vars(SearchStep)
    /\ WF_vars(HandleStep)
    /\ WF_vars(CycleStep)
    /\ WF_vars(HttpBusStep)
    /\ SF_vars(TakeBusToScan)
    /\ SF_vars(TakeBusForCycle)

FairSpec == Spec /\ Fairness

-----------------------------------------------------------------------------
(* What the rest of the system relies on.                                   *)

\* A sensor has one slot: no rescan lists a known sensor again under another slot, which would
\* split its history series and read it twice a cycle (slot_for_id, discover_locked).
OneSlotPerSensor ==
    \A i, j \in Known : ids[i] = ids[j] => i = j

\* Slots never move: whatever a rescan finds, a slot keeps its sensor (sensor.c, the comment
\* at its head), which read_sensor relies on too: it keeps a slot while it waits for the bus.
SlotsStable ==
    [][count' >= count /\ \A i \in Known : ids'[i] = ids[i]]_vars

\* Whoever has the bus to read a sensor finds a handle: discover_locked's window between
\* ds18b20_free() and the new handle is closed before the mutex is given back, also for a
\* read_sensor() that looked the slot up before the rescan freed its handle.
HandleUsable ==
    /\ hpc \in {"convert", "read"} => dev[hslot] # "null"
    /\ pc \in {"convert", "read"} => \A i \in Known : dev[i] # "null"

\* Between the conversion one task asked for and the last scratchpad it reads, nobody else
\* starts another conversion: a reading is the one its reader asked for.
ConversionNotDisturbed ==
    /\ pc = "read" => \A s \in present : conv[s] \in {"task", "none"}
    /\ hpc = "read" => \A s \in Addressed(hslot) : conv[s] \in {"http", "none"}

\* The published events tell what the slot table holds: a sensor whose last event is "lost"
\* has failed FailReads reads in a row and is marked lost, and no other sensor is (record_read).
EventsTellLost ==
    \A i \in Slot : /\ state[i].lost <=> state[i].fails = FailReads
                    /\ state[i].lost <=> raised[i] = "lost"

\* The first good reading after failed ones is handed to metrics_post, however little it differs
\* from the last one sent (the hi_deadband_reset() of a failed read, several cycles earlier).
RecoveryPosted ==
    [][\A i \in Slot : ~state[i].valid /\ state'[i].valid => i \in posts']_vars

\* The sensors on the bus for which the table has no slot.
Slotless == present \ {ids[i] : i \in Known}

\* The table is full of sensors that went away: one without a slot is on the bus, with at most one
\* that has one. A rescan of such a bus returns 0, or 1 and the slot found is read with SKIP ROM,
\* which the sensor without a slot answers too.
TableOutlived ==
    /\ count = MaxDevices
    /\ Slotless # {}
    /\ \A s, t \in present \ Slotless : s = t

\* When the outside world settles with sensors on the bus, the board does not stay without
\* readings: the rescan it makes when every sensor is lost brings at least one back, unless the
\* table has no room for what is on the bus (a rescan never frees a slot, slot_for_id).
RescanRecovers ==
    <>[](present # {} /\ ~TableOutlived => \E i \in Known : ~state[i].lost)

\* A sensor that is on the bus and addressed by its ROM code does not stay lost.
MatchRecovers ==
    \A i \in Slot : <>[](i \in Known /\ dev[i] = "match" /\ ids[i] \in present => ~state[i].lost)

-----------------------------------------------------------------------------
(* What the repository says of the task and the code does not keep.         *)

\* sensor.c:29 "so history series stay attached to the same sensor": what a slot holds was
\* measured by the slot's own sensor.
ReadingsStayAttached ==
    \A i \in Known : state[i].valid => state[i].from = ids[i]

=============================================================================
