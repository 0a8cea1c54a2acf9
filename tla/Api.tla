-------------------------------- MODULE Api --------------------------------
(***************************************************************************)
(* What the board tells of itself: the history ring, the events ring and   *)
(* the documents of GET /api/status, /admin/status, /api/history and the   *)
(* MQTT state, built by the HTTP server's task and by hi_mqtt while the    *)
(* sensor task goes on writing what they read. Every copy is made under a  *)
(* spinlock, and no lock is held from one copy to the next (api.c,         *)
(* history.c, events.c, sensor_snapshot and record_read of sensor.c).      *)
(*                                                                         *)
(* A reading is represented by the second of its cycle, which a row of the *)
(* history keeps too. Labels, groups, mqtt and system figures are left out.*)
(***************************************************************************)
EXTENDS Integers, Sequences, FiniteSets

CONSTANTS
    Sensor,         \* ids of the sensors that may be found
    NoId,           \* an unused slot, an event about no sensor
    Order,          \* display_order of a sensor (config/devices.h, SENSOR_ORDER_UNKNOWN)
    Highlights,     \* what device_highlights() gives: HIGHLIGHTS_COUNT entries
    MaxDevices,     \* MAX_DEVICES
    FailReads,      \* SENSOR_FAIL_READS
    HistorySize,    \* HISTORY_SAMPLES
    HistoryPeriod,  \* HISTORY_PERIOD_S
    EventsSize,     \* EVENTS_RING_SIZE
    MaxTime,        \* bound: the last second
    MaxFaults       \* bound: failed reads, overruns and changes of the MQTT connection

ASSUME ApiAssumption ==
    /\ NoId \notin Sensor
    /\ Order \in [Sensor -> Nat]
    /\ {MaxDevices, FailReads, HistorySize, HistoryPeriod, EventsSize} \subseteq Nat \ {0}
    /\ {MaxTime, MaxFaults} \subseteq Nat
    /\ DOMAIN Highlights \subseteq Nat \ {0}
    /\ \A h \in DOMAIN Highlights : Highlights[h].kind \in {"none", "sensor", "delta"}

VARIABLES
    now,                                \* events_mono_s()
    faults,
    ids, count, state,                  \* s_ids, s_count, s_state
    pc, slot, cyc, mono, row, sampled,  \* the sensor task: its place, loop index, count, mono,
                                        \* history_row and history_mono_s
    event,                              \* the event it has still to publish: none or one
    hbuf, hhead, hcount, columns,       \* the history ring and all columns ever added
    newest,                             \* s_newest_mono_s
    ebuf, ehead, ecount, published,     \* the events ring and all events ever published
    rpc, total, list, at,               \* who builds a document: its place, n, list and now
    header, series                      \* the history document: what is sent so far

sensorVars  == <<ids, count, state, pc, slot, cyc, mono, row, sampled, event>>
historyVars == <<hbuf, hhead, hcount, columns, newest>>
eventsVars  == <<ebuf, ehead, ecount, published>>
readerVars  == <<rpc, total, list, at, header, series>>
vars == <<now, faults, sensorVars, historyVars, eventsVars, readerVars>>

Slot      == 0 .. MaxDevices - 1
Time      == 0 .. MaxTime
NoReading == -1   \* HISTORY_NO_READING
Row       == [Slot -> Time \cup {NoReading}]
Reader    == {"httpd", "mqtt"}

Event == [type: {"sensors", "lost", "back", "mqtt"}, who: Sensor \cup {NoId},
          count: 0 .. MaxDevices, prev: 0 .. MaxDevices]

History == INSTANCE Ring WITH Value <- Row, Size <- HistorySize,
                              buf <- hbuf, head <- hhead, count <- hcount, log <- columns
Events  == INSTANCE Ring WITH Value <- Event, Size <- EventsSize,
                              buf <- ebuf, head <- ehead, count <- ecount, log <- published

NoRow   == [i \in Slot |-> NoReading]
NoEvent == [type |-> "mqtt", who |-> NoId, count |-> 0, prev |-> 0]

Status == [id: Sensor \cup {NoId}, valid: BOOLEAN, mono: Time, lost: BOOLEAN]
Header == [n: 0 .. HistorySize, newest: Time, taken: Nat]

TypeOK ==
    /\ now \in Time /\ faults \in 0 .. MaxFaults
    /\ ids \in [Slot -> Sensor \cup {NoId}] /\ count \in 0 .. MaxDevices
    /\ state \in [Slot -> [valid: BOOLEAN, mono: Time, fails: 0 .. FailReads, lost: BOOLEAN]]
    /\ pc \in {"scan", "cycle", "record"}
    /\ slot \in 0 .. MaxDevices /\ cyc \in 0 .. MaxDevices
    /\ mono \in Time /\ row \in Row /\ sampled \in Time
    /\ event \in Seq(Event) /\ Len(event) <= 1
    /\ History!TypeOK /\ newest \in Time
    /\ Events!TypeOK
    /\ rpc \in [Reader -> {"idle", "status", "history", "series", "done"}]
    /\ total \in [Reader -> 0 .. MaxDevices]
    /\ list \in [Reader -> Seq(Status)]
    /\ at \in [Reader -> Time]
    /\ header \in Header
    /\ series \in Seq(Seq(Time \cup {NoReading})) /\ Len(series) <= total["httpd"]

Init ==
    /\ now = 0 /\ faults = 0
    /\ ids = [i \in Slot |-> NoId] /\ count = 0
    /\ state = [i \in Slot |-> [valid |-> FALSE, mono |-> 0, fails |-> 0, lost |-> FALSE]]
    /\ pc = "scan" /\ slot = 0 /\ cyc = 0 /\ mono = 0 /\ row = NoRow /\ sampled = 0
    /\ event = <<>>
    /\ hbuf = [k \in 0 .. HistorySize - 1 |-> NoRow]
    /\ hhead = 0 /\ hcount = 0 /\ columns = <<>> /\ newest = 0
    /\ ebuf = [k \in 0 .. EventsSize - 1 |-> NoEvent]
    /\ ehead = 0 /\ ecount = 0 /\ published = <<>>
    /\ rpc = [c \in Reader |-> "idle"] /\ total = [c \in Reader |-> 0]
    /\ list = [c \in Reader |-> <<>>] /\ at = [c \in Reader |-> 0]
    /\ header = [n |-> 0, newest |-> 0, taken |-> 0] /\ series = <<>>

\* Bound: no second ends between the start of a cycle and its end (SensorTiming has the durations).
Tick ==
    /\ now < MaxTime
    /\ pc # "record"
    /\ now' = now + 1
    /\ UNCHANGED <<faults, sensorVars, historyVars, eventsVars, readerVars>>

Interfere ==
    /\ faults < MaxFaults
    /\ faults' = faults + 1

-----------------------------------------------------------------------------
(* The sensor task, as far as the documents show what it does.              *)

\* discover_locked writes the id of a new sensor into the first free slot ...
NameSlot(s) ==
    /\ pc = "scan"
    /\ count < MaxDevices /\ ids[count] = NoId
    /\ \A i \in 0 .. count - 1 : ids[i] # s
    /\ ids' = [ids EXCEPT ![count] = s]
    /\ UNCHANGED <<now, faults, count, state, pc, slot, cyc, mono, row, sampled, event,
                   historyVars, eventsVars, readerVars>>

\* ... and counts the slot when the id is there.
CountSlot ==
    /\ pc = "scan"
    /\ count < MaxDevices /\ ids[count] # NoId
    /\ count' = count + 1
    /\ UNCHANGED <<now, faults, ids, state, pc, slot, cyc, mono, row, sampled, event,
                   historyVars, eventsVars, readerVars>>

\* The scan is over and made `again` reports: the new sensors, any of those known before, and any
\* twice (OneWire). The first one is repeated until it finds one; a later one tells of another
\* number than the slots.
ScanEnds ==
    /\ pc = "scan"
    /\ count < MaxDevices => ids[count] = NoId
    /\ \E again \in count - cyc .. (IF count = 0 THEN 0 ELSE MaxDevices) :
          /\ again > 0 \/ cyc > 0
          /\ event' = IF again > 0 /\ again # cyc
                      THEN <<[type |-> "sensors", who |-> NoId, count |-> again, prev |-> cyc]>>
                      ELSE <<>>
    /\ pc' = "cycle"
    /\ UNCHANGED <<now, faults, ids, count, state, slot, cyc, mono, row, sampled,
                   historyVars, eventsVars, readerVars>>

\* A cycle begins in a later second than the last, or in the same one when an overrun is caught up.
CycleBegins ==
    /\ pc = "cycle" /\ event = <<>>
    /\ now > 0
    /\ IF now > mono THEN UNCHANGED faults ELSE Interfere
    /\ mono' = now
    /\ cyc' = count
    /\ slot' = 0
    /\ row' = NoRow
    /\ pc' = "record"
    /\ UNCHANGED <<now, ids, count, state, sampled, event, historyVars, eventsVars, readerVars>>

\* record_read: the state of a slot changes under the spinlock, its event is published later.
RecordRead(ok) ==
    LET before == state[slot]
        fails  == IF ok THEN 0 ELSE IF before.fails < FailReads THEN before.fails + 1 ELSE FailReads
        lost   == ~ok /\ (before.lost \/ fails = FailReads)
    IN
    /\ pc = "record" /\ event = <<>>
    /\ slot < cyc
    /\ IF ok THEN UNCHANGED faults ELSE Interfere
    /\ state' = [state EXCEPT ![slot] =
                    [valid |-> ok, mono |-> IF ok THEN mono ELSE before.mono, fails |-> fails, lost |-> lost]]
    /\ event' = IF lost = before.lost THEN <<>>
                ELSE <<[type |-> IF lost THEN "lost" ELSE "back", who |-> ids[slot], count |-> 0, prev |-> 0]>>
    /\ row' = IF ok THEN [row EXCEPT ![slot] = mono] ELSE row
    /\ slot' = slot + 1
    /\ UNCHANGED <<now, ids, count, pc, cyc, mono, sampled, historyVars, eventsVars, readerVars>>

\* events_publish of the task's event.
PublishEvent ==
    /\ event # <<>>
    /\ Events!Add(event[1])
    /\ event' = <<>>
    /\ UNCHANGED <<now, faults, ids, count, state, pc, slot, cyc, mono, row, sampled,
                   historyVars, readerVars>>

\* The row of every HISTORY_PERIOD_S goes to history_add; a rescan follows when all are lost.
CycleEnds ==
    /\ pc = "record" /\ event = <<>>
    /\ slot = cyc
    /\ IF sampled = 0 \/ mono - sampled >= HistoryPeriod
       THEN History!Add(row) /\ newest' = now /\ sampled' = mono
       ELSE UNCHANGED <<historyVars, sampled>>
    /\ pc' = IF \A i \in 0 .. cyc - 1 : state[i].lost THEN "scan" ELSE "cycle"
    /\ UNCHANGED <<now, faults, ids, count, state, slot, cyc, mono, row, event, eventsVars, readerVars>>

\* on_connection of metrics.c, in the task of the MQTT client.
OnConnection ==
    /\ Interfere
    /\ Events!Add(NoEvent)
    /\ UNCHANGED <<now, sensorVars, historyVars, readerVars>>

-----------------------------------------------------------------------------
(* Whoever builds a document. httpd serves one request at a time.           *)

\* sensor_snapshot reads the number of slots first. Of the snapshot that GET /api/history takes
\* only the ids are used, which do not change any more: its list is left out. Bound: a history
\* and a status, which share nothing, are not built at the same time.
Begins(c, document) ==
    /\ rpc[c] = "idle" /\ \A r \in Reader : rpc[r] \in {"idle", "done", document}
    /\ document = "history" => c = "httpd"
    /\ rpc' = [rpc EXCEPT ![c] = document]
    /\ total' = [total EXCEPT ![c] = count]
    /\ UNCHANGED <<now, faults, sensorVars, historyVars, eventsVars, list, at, header, series>>

\* Mutant: the list is static, one for all who build a document.
ListedStatic(c, status) == [r \in Reader |-> Append(list[r], status)]

\* The list each reader has on its own stack.
Listed(c, status) == [list EXCEPT ![c] = Append(@, status)]

\* sensor_snapshot copies one slot after the other.
CopySlot(c) ==
    LET i == Len(list[c]) IN
    /\ rpc[c] = "status"
    /\ i < total[c]
    /\ list' = Listed(c, [id |-> ids[i], valid |-> state[i].valid, mono |-> state[i].mono,
                          lost |-> state[i].lost])
    /\ UNCHANGED <<now, faults, sensorVars, historyVars, eventsVars, rpc, total, at, header, series>>

\* api_status_json takes the time when the snapshot is complete, and writes the document.
TimeStatus(c) ==
    /\ rpc[c] = "status"
    /\ Len(list[c]) = total[c]
    /\ at' = [at EXCEPT ![c] = now]
    /\ rpc' = [rpc EXCEPT ![c] = "done"]
    /\ UNCHANGED <<now, faults, sensorVars, historyVars, eventsVars, total, list, header, series>>

\* history_handler copies slot 0 for the number and time of the samples its header tells.
SendHeader ==
    /\ rpc["httpd"] = "history"
    /\ header' = IF total["httpd"] = 0 THEN header
                 ELSE [n |-> History!Copied(HistorySize), newest |-> newest, taken |-> Len(columns)]
    /\ rpc' = [rpc EXCEPT !["httpd"] = "series"]
    /\ UNCHANGED <<now, faults, sensorVars, historyVars, eventsVars, total, list, at, series>>

\* Mutant: a series is copied newest first, as events are.
CopyNewestFirst(i, max) == LET column == History!NewestFirst(max) IN [k \in DOMAIN column |-> column[k][i]]

\* history_copy
Copy(i, max) == LET column == History!OldestFirst(max) IN [k \in DOMAIN column |-> column[k][i]]

\* One slot's series is copied and sent, while the others wait for the client to take it.
SendSeries ==
    /\ rpc["httpd"] = "series"
    /\ Len(series) < total["httpd"]
    /\ series' = Append(series, Copy(Len(series), HistorySize))
    /\ UNCHANGED <<now, faults, sensorVars, historyVars, eventsVars, rpc, total, list, at, header>>

\* The document is complete, or the client is gone and a chunk cannot be sent.
Ends(c) ==
    /\ rpc[c] \in {"done", "series"}
    /\ rpc' = [rpc EXCEPT ![c] = "idle"]
    /\ total' = [total EXCEPT ![c] = 0]
    /\ list' = [list EXCEPT ![c] = <<>>]
    /\ at' = [at EXCEPT ![c] = 0]
    /\ IF c = "httpd" THEN header' = [n |-> 0, newest |-> 0, taken |-> 0] /\ series' = <<>>
       ELSE UNCHANGED <<header, series>>
    /\ UNCHANGED <<now, faults, sensorVars, historyVars, eventsVars>>

-----------------------------------------------------------------------------
(* The highlights of a status document.                                     *)

\* Whether insertion moves an entry behind another one, by display_order.
Before(a, b) == Order[a.id] > Order[b.id]

\* One insertion of sorted_slots: v goes behind the last entry that does not sort after it.
Inserted(out, v, l) ==
    LET places == {j \in 0 .. Len(out) : \A k \in j + 1 .. Len(out) : Before(l[out[k]], l[v])}
        j      == CHOOSE p \in places : \A q \in places : p <= q
    IN  SubSeq(out, 1, j) \o <<v>> \o SubSeq(out, j + 1, Len(out))

\* sorted_slots: the positions of the list l by display_order.
SortedSlots(l) ==
    LET sorted[i \in 0 .. Len(l)] == IF i = 0 THEN <<>> ELSE Inserted(sorted[i - 1], i, l)
    IN  sorted[Len(l)]

\* find_slot: the positions in the list that have the id, one or none.
FindSlot(l, id) == {i \in DOMAIN l : l[i].id = id}

\* Mutant: the free highlights show the sensors as they were found.
ShownUnsorted(l, h) ==
    CASE Highlights[h].kind = "none"   -> IF h <= Len(l) THEN {h} ELSE {}
      [] Highlights[h].kind = "sensor" -> FindSlot(l, Highlights[h].id)
      [] Highlights[h].kind = "delta"  -> FindSlot(l, Highlights[h].id) \cup FindSlot(l, Highlights[h].id_b)

\* add_highlights: the positions highlight h is made of; an entry without a kind shows the h-th
\* sensor found, as all do on a board that is not in config/devices.h.
Shown(l, h) ==
    CASE Highlights[h].kind = "none"   -> IF h <= Len(l) THEN {SortedSlots(l)[h]} ELSE {}
      [] Highlights[h].kind = "sensor" -> FindSlot(l, Highlights[h].id)
      [] Highlights[h].kind = "delta"  -> FindSlot(l, Highlights[h].id) \cup FindSlot(l, Highlights[h].id_b)

-----------------------------------------------------------------------------
Next ==
    \/ Tick
    \/ \E s \in Sensor : NameSlot(s)
    \/ CountSlot
    \/ ScanEnds
    \/ CycleBegins
    \/ \E ok \in BOOLEAN : RecordRead(ok)
    \/ PublishEvent
    \/ CycleEnds
    \/ OnConnection
    \/ \E c \in Reader, document \in {"status", "history"} : Begins(c, document)
    \/ \E c \in Reader : CopySlot(c)
    \/ \E c \in Reader : TimeStatus(c)
    \/ SendHeader
    \/ SendSeries
    \/ \E c \in Reader : Ends(c)

Spec == Init /\ [][Next]_vars

-----------------------------------------------------------------------------
\* Both rings give the newest entries written, in order and none twice, whoever writes and
\* however often they wrapped (history_add and history_copy, events_publish and events_recent).
RingsKeepNewest == History!KeepsNewest /\ Events!KeepsNewest

\* Every series of a history document is the run of its slot's newest samples at some moment
\* since the header, and no series is older than the one before it: a sample added meanwhile
\* moves the later series on by a period, and never mixes into one (history_handler).
SeriesInOrder ==
    rpc["httpd"] = "series" /\ header.n > 0 =>
        \E upto \in [DOMAIN series -> header.taken .. Len(columns)] :
            \A k \in DOMAIN series :
                /\ k > 1 => upto[k - 1] <= upto[k]
                /\ Len(series[k]) = IF upto[k] < HistorySize THEN upto[k] ELSE HistorySize
                /\ Len(series[k]) >= header.n
                /\ \A j \in DOMAIN series[k] :
                      series[k][j] = columns[upto[k] - Len(series[k]) + j][k - 1]
                /\ columns[header.taken][k - 1] <= header.newest

\* A document names every sensor it lists, lists each slot once and in order, and tells no
\* negative age, which would read as "never": the snapshot runs slot by slot beside the sensor
\* task's writes, and two documents are built at a time (sensor_snapshot, api_status_json).
DocumentsSound ==
    \A c \in Reader : rpc[c] = "done" =>
        /\ Len(list[c]) = total[c]
        /\ \A k \in DOMAIN list[c] :
              /\ list[c][k].id \in Sensor /\ list[c][k].id = ids[k - 1]
              /\ list[c][k].mono <= at[c]
              /\ list[c][k].valid => list[c][k].mono > 0

\* On a board without highlights of its own, highlight h is the sensor that h - 1 of those listed
\* come before, by display_order and, among equals, as they were found (sorted_slots, device.h).
HighlightsRanked ==
    \A c \in Reader : rpc[c] = "done" =>
        \A h \in DOMAIN Highlights : Highlights[h].kind = "none" /\ h <= Len(list[c]) =>
            \E p \in Shown(list[c], h) :
                h - 1 = Cardinality({q \in DOMAIN list[c] :
                            \/ Order[list[c][q].id] < Order[list[c][p].id]
                            \/ Order[list[c][q].id] = Order[list[c][p].id] /\ q < p})

=============================================================================
