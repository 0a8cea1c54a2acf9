# heating-controller in TLA+

TLA+ specifications of the sensors-controller board's firmware and of the server that stores its readings, with
TLC models and TLAPS proofs. Every definition is translated from the source; `PROJECT.json` ("map") names the lines
each one stands for. To check a run: `tlc -config <file>.cfg <Module>` (the pairs are under "runs" in `PROJECT.json`);
to check a proof: `tlapm <Module>Proofs.tla`.

## 1. The system

An ESP32 board reads up to 16 DS18B20 sensors on a 1-Wire bus every 5 seconds and publishes the readings over MQTT
(QoS 1) to a Mosquitto broker. An ingest service writes them to PostgreSQL. The board also serves an HTTP API with
the current readings, the last 50 events and 24 hours of history.

| Component | State | Operations | Modelled by |
|---|---|---|---|
| sensor task (`sensor.c`) | slot table `s_ids`, `s_count`, `s_devices`; `s_state` per slot; deadbands; bus mutex; last cycle's time | `discover_locked`, the cycle of `sensor_task`, `record_read`, `all_lost`, `read_sensor`, `sensor_snapshot`, `sensor_alive` | `SensorTask`, its time in `SensorTiming` |
| metrics handover (`metrics.c`) | queue of 32 items, drop counter | `metrics_start`, `metrics_post`, `metrics_task`, `publish_item` | `Metrics`, promise in `Handover` |
| ingest service (`sc_ingest.py`) | MQTT session, database connection, the message at hand | `on_connect`, `on_message`, insert, ack, exit, restart | `Ingest` |
| broker (`hc.conf`) | the persistent session: queue, window of unacked messages, copy on disk | publish, deliver, PUBACK, autosave, crash | `Ingest` (external) |
| database (`schema.sql`) | `temperature_raw` with key `(sensor_id, ts)` and a CHECK | insert, on conflict do nothing | `Ingest`, promise in `ReadingStore` |
| DS18B20 driver (`ds18b20.c`) | handle: solo or ROM code, resolution, CRC or not; the bus's parasitic power | init, set and read resolution, power check, convert, wait, read scratchpad, decode | `Ds18b20`; who is addressed and who holds the bus, in `SensorTask` |
| 1-Wire protocol (`owb.c`) | search state | search, verify, read a code, read and write bits and bytes, CRC | `OneWire` over `Rmt`; the CRC in `Crc8`; what a scan promises in `BusScan` |
| 1-Wire RMT driver (`owb_rmt.c`) | the receiver's ring buffer and idle threshold | reset, slots, receive with a timeout, decode pulses | `Rmt` |
| events (`events.c`) | 50 events, head, count; the clock | publish, recent; `events_mono_s`, `events_unix_time` | the ring in `Ring`, its writers in `Api`; the clock in `SensorTiming` |
| history ring (`history.c`) | 1440 columns, head, count | add, copy | `Ring`, its writer and reader in `Api` |
| HTTP API (`api.c`) | none of its own | `GET /sensor`, `/history`, `/status`; the MQTT state | `GET /sensor` in `SensorTask`, the documents in `Api` |
| boot and health (`main.c`) | none of its own | `app_main`, `healthy` | `metrics_start` beside the sensor task in `Metrics`; the sensor task's part of `healthy` in `SensorTiming` |
| board table (`device.c`) | constants | lookups | `display_order` and the highlights as constants of `Api` |
| home-idf (hi_mqtt, hi_ntp, hi_deadband, hi_health, ...) | not in this repository | | external actions where used |
| migrator, web app, backups, import scripts, legacy cloud functions, tools | | | not modelled, see section 8 |

**Interactions.** The sensor task and the HTTP server's task share the bus under `s_bus_mutex`, but `read_sensor`
looks its slot up *before* taking it. The sensor task hands readings to the metrics task through a FreeRTOS queue
and never waits; the metrics task waits for the wall clock and for the MQTT client's API lock. `metrics_start` runs
in the main task while the sensor task is already sampling. Between the client's outbox and the table, a reading is
always in the hands of exactly one of: outbox, the broker's session, the table - or so it should be.

**What is hard here.** A slot table rebuilt while others look things up in it; a handle whose addressing mode was
decided in an earlier scan; counters over many cycles that publish events; a queue that fills while the clock is not
set; a queue deleted under its user; a watchdog, a
health check and a grid of cycles that all count on how long a scan, a read and a wait for the bus may take; a search
that ignores the status of its bits; answers that arrive after their timeout; errors of the driver that nobody looks
at, with a zeroed buffer as the result; documents sent piece by piece from rings that go on wrapping; acks,
redeliveries and restarts around a commit; a broker that answers before it saves. `PROJECT.json` ("hazards") lists each at its line with the properties that watch it, and says where none
does yet.

## 2. Modules

| Module | What it is |
|---|---|
| `SensorTask` | the sensor task, its bus and `GET /sensor` |
| `MCSensorTask` | symmetry for TLC |
| `SensorTaskProofs` | proofs about `SensorTask` |
| `SensorTiming` | the sensor task in time: watchdog, cycles, `sensor_alive`, timestamps |
| `SensorTimingProofs` | proofs about `SensorTiming` |
| `BusScan` | abstract: what a scan of the bus promises `discover_locked` |
| `OneWire` | search, verification and reading of ROM codes, slot by slot; refines `BusScan` |
| `Rmt` | operators: slots as pulses, pulses as bits, and what a call that listens may return |
| `MCOneWire` | codes and bytes for TLC |
| `OneWireProofs` | proofs about `OneWire` and `Rmt`, the refinement among them |
| `Crc8` | operators: the CRC table, compared with its polynomial |
| `Ds18b20` | handles and scratchpads, one transaction a step |
| `Ds18b20Proofs` | proofs about `Ds18b20` and `Crc8` |
| `Ring` | a ring of the newest N entries of a log |
| `RingProofs` | proofs about `Ring` |
| `Api` | both rings, the snapshot and the documents built from them beside the sensor task |
| `MCApi` | sensors, their order and highlights for TLC |
| `ApiProofs` | proofs about `Api` |
| `Handover` | abstract: what `metrics.h` promises the sensor task |
| `Metrics` | the queue between the sensor task and the MQTT client; refines `Handover` |
| `MetricsProofs` | proofs about `Metrics`, the refinement among them |
| `ReadingStore` | abstract: what the server promises the boards |
| `Ingest` | broker session, ingest service and table; refines `ReadingStore` |
| `MCIngest` | readings and keys for TLC |
| `IngestProofs` | proofs about `Ingest`, the refinement among them |

Each module that is checked also contains, directly before the definition they alter, a few definitions marked
*Mutant*: a plausible bug in that code. They are used by nothing; putting one in place of the definition must make
the named property fail, which shows that the property depends on that code.

### SensorTask

One actor is `sensor_task`, with `pc` for the point it is at; the other is the HTTP server's task in `read_sensor`,
with `hpc`. The rest of the world plugs, unplugs and disturbs sensors.

| Action | Code |
|---|---|
| `TakeBusToScan`, `SearchFinds`, `SearchRepeats`, `SearchEnds`, `FreeHandle`, `InitHandle`, `DiscoverReturns` | `discover_locked` with the `slot_for_id` it calls, and the code of `sensor_task` around it: first scans and rescans, the EV_SENSORS events |
| `TakeBusForCycle`, `BusTimeout`, `Convert`, `ReadSlots`, `Record` | one turn of the cycle: mutex with timeout, `ds18b20_convert_all`, `ds18b20_read_temp` per slot, then `record_read`, the deadband and `all_lost` |
| `HttpLookup`, `HttpTakeBus`, `HttpTimeout`, `HttpConvert`, `HttpRead` | `read_sensor` |
| `Plug`, `Unplug`, and the branches of `SearchEnds`, `BusTimeout`, `ReadSlots` that `Interfere` | the wiring and the bus |

What a step is: everything the code does between two points where the other task can see a difference. The search
loop is a step per sensor because `read_sensor` reads `s_ids` and `s_count` without the mutex; freeing a handle and
storing the new one are two steps for the same reason. The loop over slots in `Record` is one step: nobody else
reads what it writes and then changes anything.

Data is abstracted to what the properties tell apart. A temperature is represented by *the sensor that measured it*:
`state[i].from` says whose reading slot `i` holds. `Addressed(i)` is the set of sensors that answer to slot `i`'s
handle - all that are present when it is a *solo* handle (SKIP ROM), at most its own when it is a *match* handle
(MATCH ROM) - and `Answer(i)` is a reading only when exactly one answers, since several at once fail the CRC check.
`fails` stops at SENSOR_FAIL_READS because the code tests it only with `>=`.

What the search reports follows `BusScan`: sensors that are there, each once and all of them - unless it is disturbed,
then it may end early or report one of them again (`SearchRepeats`). `reports` counts what `discover_locked` counts,
repetitions included, which is what decides about solo handles and EV_SENSORS events; the handle of a sensor reported
twice is freed and built twice.

### OneWire, Rmt and BusScan

One job after the other uses the bus: a scan (`owb_search_first` and `_next`, as `discover_locked` calls them), the
check of a code (`owb_verify_rom`), the reading of the only code (`owb_read_rom`), a byte written and heard back. A
step is a slot or a reset, with the decision the code takes on its result.

| Action | Code |
|---|---|
| `SearchFirst`, `Verify`, `ReadRom`, `Transfer` | the calls |
| `Enter`, `ResetBus`, `ReadId`, `ReadComplement`, `WriteDirection` | `_search` |
| `ReadCode`, `CheckCode` | `owb_read_rom` with `owb_read_bytes`, a byte a step |
| `Judge` | the end of `_search` and what its caller makes of it |
| `ReceiverDies`, `Rewire`, and the disturbed calls | the world |

The sensors are state machines of their own (`on`, `turn`, `place`): they answer bit and complement, listen, and drop
out when the bit written is not theirs. `Rmt` says what goes on the wire as pulses in microseconds and what the
receiver makes of them: entries cut at an idle threshold, of which a late one stays in the ring buffer until the next
call empties it, a bit that is 1 when the line rises before the sample time, bits that enter a byte at its top. A call
that listens (`Listen`) returns clean, with a turned or merged pulse, with nothing, with nothing although the line was
driven, or too late; a call that writes may send nothing at all. Status codes are left out because `_search` and the transfers ignore them, which is the hazard.

`BusScan` is the contract the sensor task counts on, five actions long; `ScanKeepsPromise` says that `OneWire`
implements it, the end of every scan included.

### Ds18b20 and Crc8

The handle (`DS18B20_Info`: resolution, solo, CRC) and the sensor's scratchpad, through the three jobs of `sensor.c`: a
scan sets up each handle found, a cycle converts all, waits once and reads all, `GET /sensor` does it for one.

| Action | Code |
|---|---|
| `InitHandle` | `ds18b20_init`, `ds18b20_init_solo`, `ds18b20_use_crc` |
| `GetPad`, `WritePad`, `VerifyPad`, `RefreshHandle` | `ds18b20_set_resolution` with the read, write and read back it does, and the `ds18b20_read_resolution` after a failure |
| `CheckPower` | `ds18b20_check_for_parasite_power` |
| `Convert`, `Wait`, `ReadTemp` | `ds18b20_convert_all` or `_convert`, `_wait_for_conversion`, `_read_temp` |

The nine bytes of the scratchpad are kept as bytes, because which disturbed answers the CRC, the power-on test and the
decoding let through is what the properties ask; `Crc8` holds the table of `owb.c` and an assumption, evaluated by TLC,
that it is the polynomial x^8 + x^5 + x^4 + 1. Bytes and their bits are related by arithmetic, since the library's
bitwise operators are recursive and out of the prover's reach. A temperature is one of three values: of power-on, of an earlier
conversion, of this one - and the new one is a true 85.0 degrees, which looks like power-on but for a reserved byte.
Time is counted in conversions of 9 bits.

### Ring and Api

`Ring` is an array with a write position and a count, plus `log`, all that was ever written. `Api` has one instance for
the history and one for the events.

| Action | Code |
|---|---|
| `NameSlot`, `CountSlot`, `ScanEnds`, `CycleBegins`, `RecordRead`, `PublishEvent`, `CycleEnds` | the sensor task, as far as a document shows it: a slot gets its id before it is counted, a state changes before its event is published, a row is added every HISTORY_PERIOD_S |
| `OnConnection` | the events of the MQTT client's task |
| `Begins`, `CopySlot`, `TimeStatus` | `sensor_snapshot`, `api_status_json` (HTTP server and hi_mqtt) |
| `SendHeader`, `SendSeries` | `history_handler` with `history_copy`, a series at a time |
| `Ends` | the document is complete or its client gone |

Every copy under a spinlock is a step, and everything else may happen between two of them. A reading is the second
its cycle began in. The highlights (`SortedSlots`, `Shown`) are functions of a finished list.

### SensorTiming

The same task as in `SensorTask`, seen from the clock. What a scan finds and whether all sensors are lost is a free
choice here; how long everything takes is not.

| Action | Code |
|---|---|
| `TakeBusToScan`, `ScanEnds`, `SettleEnds` | the first scans, the stamp after each, the pause of 2 s |
| `CycleBegins`, `TakeBusForCycle`, `ReadEnds`, `Record`, `RescanEnds` | a turn of the cycle: watchdog, `mono`, the mutex with its timeout, the stamp, the rescan that waits for the mutex without one |
| `Pause`, `SleepEnds` | `wait_feeding_wdt` |
| `HttpTakes`, `HttpGives` | `read_sensor` between taking the mutex and giving it back |
| `Tick` | time |

`now` counts units of 1/`Second` s since boot, the timer and the tick counter at once. Steps take no time: `MayStay`
says where the task may be while time passes, and for how long - up to `ScanMax` in a scan, `ReadMax` in a read, to
the end of a sleep - so that a step that can be taken is taken (priority 5, and nothing above it that computes), and
one that waits for a duration waits no longer. A `GET /sensor` comes whenever it likes and keeps the bus up to
`HoldMax`. It does not get the bus while the sensor task waits for it: that is a waiter of the same priority, and the
server's one task has an answer to send first. `Ticks` is the tick counter, which comes round every `2 * HalfRange`
units, and `TicksLeft` the wrapping difference `wait_feeding_wdt` reads as a signed number; moments themselves (`wake`,
`until`) stay on the line of time. `UnixTime` asks the wall clock at one moment and the timer at another, since C
leaves the order of the two calls in `events_unix_time` open and a task may be preempted between them.

### Metrics

Four actors: the main task in `metrics_start` (`start`), the sensor task in `metrics_post` (`poster`), the metrics
task (`task`), and the MQTT client with its API lock (`locked`). Readings are numbered in the order they are posted.
`handle` is `s_queue # NULL` and `alive` says whether the queue object exists, because `metrics_start` deletes it one
step before it clears the handle. Sending to a queue that is gone is undefined: the board panics or goes on, and both
are allowed.

`Handover` is the promise in six actions (`Switch`, `Post`, `Take`, `Drop`, `Send`, `SetClock`): a reading is taken or
not when it is posted, for good; it is refused only by a full queue or when there is none in use; those taken are sent
in order, each once, and not before the wall clock is set. A client that cannot be started takes back what was taken,
before anything was sent. In `Metrics` its `taken` are the readings handed to the client, in the metrics task's hand
and queued, its `mode` is how far `metrics_start` has come, and a reading is `open` while `metrics_post` is between its
check and its send. One more than the queue's length may wait, since the metrics task holds one besides.

### Ingest

`outbox -> session -> inbox -> hand -> rows`, with PUBACKs (`acks`) on their way back. The broker's session survives
the client's reconnects; what was sent and not acked is sent again. `saved` is the session as the broker last wrote
it to disk. `on_message` is three steps (`OnMessage`, `Insert` or `InsertFails`, `AckHand`) because the process can
be killed, the database stopped and the connection broken between them. An insert whose answer is lost may or may not
have committed. `conn` is the process's connection to the database: it ends with the database and comes back only
with a new process, so a message met after an outage makes the service exit although the database is up again.

Messages are in sets and carry the packet id the broker gave them; the smallest id is next. Paho's one thread reads
one packet at a time and runs `on_message` to its end, so a reconnect happens only between two messages - this is
what makes it impossible for a late ack to name another message with the same id, and it is a guard of `Connect`.

The three reasons for a message to be given up are kept apart: `refused` by `parse_reading`, `dropped` by a full
session, or lost with a broker crash.

## 3. Runs

All bounds are CONSTANTS named in the modules; the runs choose them.

| Run | Instance | Shows |
|---|---|---|
| `sensor_safety` | 3 sensors, 2 slots, SENSOR_FAIL_READS 2, 4 faults; symmetric sensors | `TypeOK`, `OneSlotPerSensor`, `SlotsStable`, `HandleUsable`, `ConversionNotDisturbed`, `EventsTellLost`, `RecoveryPosted` |
| `sensor_liveness` | 3 sensors, 2 slots, SENSOR_FAIL_READS 1, 2 faults, fair | `RescanRecovers`, `MatchRecovers` |
| `sensor_attached` | violation | a slot holds another sensor's reading |
| `sensor_timing` | half seconds, 70 s, a counter of 61 s, durations of config.h for seven sensors | `TypeOK`, `WatchdogFed`, `AliveWhileCycling`, `OnTime`, `KeysApart` |
| `onewire` | codes of 3 bytes of 2 bits, 4 sensors, 5 reports, 2 bytes, 1 disturbance in each job | `TypeOK`, `ScanKeepsPromise`, `AnswersAreOwn`, `CodesAreRight` |
| `ds18b20` | 2 sensors of 10 or 12 bits, 4 bits of a byte disturbed, 1 disturbance in each job | `TypeOK`, `HandlesAgree`, `ReadingsMeasured`, `FreshWhenUndisturbed` |
| `ds18b20_wait` | violation | an undisturbed cycle does not wait for the conversion |
| `api` | 2 sensors, 2 slots, rings of 2, 3 s, a sample a second, 1 fault | `TypeOK`, `RingsKeepNewest`, `SeriesInOrder`, `DocumentsSound`, `HighlightsRanked` |
| `metrics` | queue of 2, 5 posts, fair | `TypeOK`, `InOrder`, `OneFate`, `HandoverKept`, `PostNeverWaits`, `QueueDrains` |
| `metrics_disabled` | violation | a send to a deleted queue |
| `ingest_safety` | 2 readings of one key, 1 refused; window 2, no queue; 2 faults, 1 broker crash | `TypeOK`, `AckedIsSettled`, `NothingLost`, `SavedIsSafe`, `StoreSpec` |
| `ingest_liveness` | 2 readings of two keys, 1 refused; window 1, queue 1; 2 faults; fair | `EverySettled` |

Why these bounds are enough to meet the interesting cases. *SensorTask*: with three sensors and two slots a scan
overflows the table, a sensor stays without a slot, and two sensors can be swapped under one handle; two failures
make a run of failures longer than one step; four faults are enough to lose all sensors, bring another one, disturb
the rescan and bring the first one back. In `sensor_liveness` all three may be there from the start, so that two faults
unplug both sensors that have slots, or one of them while the other's read fails: a sensor without a slot is left on
the bus alone, or with one that has one (both parts of `TableOutlived` are needed for the run to pass).
*SensorTiming*: half seconds tell apart the two sides of a full second;
70 s are a first scan, a retry after 30 s and some seven cycles, or thirteen cycles, longer than the alive limit, so
that each deadline can be missed, and reach beyond the 61 s after which the tick counter comes round (2^32 ticks in the
code). The bus timeout is 1 s instead of 5 so that a `GET /sensor` of 1 s meets it; with
the real one that branch never runs, and the watchdog's sum with it (2 * 5 + 4 + 2 + 2 half seconds) is below 10 s
too. Scans take up to 1 s, the conversion and seven scratchpads up to 2 s. *Metrics*: a queue of two has an empty, a middle and a full state, and five
posts fill it, drop one and go on after it drained. *Ingest*: two readings of one key make the row of one block the
other; a window smaller than the number of messages makes the broker wait, and a session smaller than it makes it
drop; two faults combine any two of lost connection, kill, outage and lost PUBACK to a board. *OneWire*: codes of three
bytes have a family, a byte in the middle and one at the end; four sensors make a branch in the first bit, two within
a family, branches within branches and an unbranched end,
and there is room for one report more than sensors, so that a repeated one fits. The assumption on the codes
(`SensorAssumption`) is what the CRC gives: no sensor's code is what one disturbance makes of another's (`Misread`). It
always tells a turned bit and a lost byte (`OneByteTold`); a code cut off or shifted by a byte it tells but for one in 256. One
disturbance in each job is what the code can be asked to stand; a job may leave a late entry for the
next. *Ds18b20*: two sensors make the one waited for differ from another, 10 and 12 bits are a shorter and the longest
conversion; the bits 5 and 6 are the configuration field, 0 and 7 the ends of a byte. *Api*: rings of two are empty, half full,
full and wrapped in three seconds; two slots make a snapshot of two copies and a history of two series, with a sample
between them; one failure loses a sensor, the next read brings it back, and the same fault may be the connection's
event or an overrun instead. That a history and a status are not built at the same time is a bound too: they share
nothing. What holds at these
bounds for all bounds is the subject of section 5.

The runs marked *violation* check a sentence of the repository's documentation or comments that the code does not
keep; "findings" in `PROJECT.json` quotes each.

* **A slot may hold another sensor's readings.** A sensor found alone is addressed with SKIP ROM until the next scan,
  and scans happen only when everything is lost. Swap the one sensor of a board for another within three minutes, and
  the new one's readings go out under the old id.
* **A driver may not wait for its sensor.** When the resolution can neither be set nor read back during a scan,
  `ds18b20_read_resolution()` takes 9 bits from a buffer of zeros and keeps its error to itself; the sensor, once it
  answers again, is waited for an eighth of its conversion and reported one conversion late, cut to half degrees.
* **A failed start of the MQTT client** deletes the queue before clearing its handle, while the sensor task uses it.

Four more disagreements came up in modelling. They are visible in the models and have no run of their own:

* **A lost sensor may never come back** (sensor.c:129 against README.md:33-34 of the repository), when it was the only
  one found by a rescan: the sensors connected later answer SKIP ROM too and collide with it, and since they can be
  read themselves, no rescan happens. `MatchRecovers` says for which handles it does not happen. The same comes of a full table. A slot is never freed (`slot_for_id`, sensor.c:84), so MAX_DEVICES sensors since boot
  are all a board can know. One without a slot answers SKIP ROM beside the one sensor a rescan has found; and when
  nobody that has a slot is left on the bus, every rescan returns 0 and the board has no readings until
  one of them is back or it is restarted. This is `TableOutlived`, which `RescanRecovers` excludes.
* **The count in a rescan's event** (sensor.c:372) is compared with all slots ever used, not with the scan before
  (events.h:8): `AfterScan`.
* **An empty bus may count as dead** (sensor.c:197 against sensor.c:193). `sensor_alive()` takes a stamp of 0 for "no
  cycle yet"; a first scan that ends within a second of boot leaves just that, until the next one 30 s later.
  `AliveWhileCycling` speaks of the time from the first cycle on.
* **"Stored at least once"** (README.md:29) does not survive a crash of the broker's host within the autosave interval
  of 60 s. `NothingLost` speaks of brokers that keep their sessions, `SavedIsSafe` of what a crash leaves.

Also, README.md:33 says three failed reads in a row mark a sensor lost; SENSOR_FAIL_READS is 180 / 5 = 36 since the
reading period changed.

## 4. Fairness

Safety properties assume nothing. The liveness runs assume:

* *SensorTask*: weak fairness for the steps of each task once it owns the bus (FreeRTOS runs ready tasks; no step
  waits for anything but the driver), and **strong** fairness for the sensor task's taking of the mutex: FreeRTOS
  gives a mutex to its highest-priority waiter, and the sensor task (priority 5) waits for it again and again while
  `GET /sensor` calls come and go. No fairness for HTTP requests, plugging or faults; faults are bounded, which is
  how "the bus settles some day" is expressed.
* *SensorTiming* states no liveness: that steps are not late is part of `Tick`.
* *OneWire*: weak fairness of the running job's next step: each call to the driver returns within its timeout of
  100 ms. It is what makes every scan end, as `BusScan` promises. Starting a job is fair nowhere.
* *Ds18b20* and *Api* state safety only.
* *Metrics*: `PostNeverWaits` needs none: it says that in every state the sensor task can take its next step by
  itself. `QueueDrains` assumes weak fairness of the two tasks, of the end of a connection attempt
  (it has a network timeout) and of the clock being set, and strong fairness of `Publish`: esp-mqtt releases its API
  lock and sleeps between attempts, so a task waiting for the lock gets it.
* *Ingest*: weak fairness of each stage: boards retry, the broker delivers, Paho reconnects
  (`reconnect_delay_set`), the one thread runs, systemd restarts the service (`Restart=always`, no start limit) and
  the database is brought back. Kills, outages and lost connections are bounded.

## 5. Proofs

All theorems are about the specifications with *arbitrary* constants, assuming only the named ASSUMEs of the modules
(a positive number of slots, SENSOR_FAIL_READS positive, `parse_reading` at least as strict as the table's CHECK, ...).
Three of them, `TableIsPolynomial`, `TableIsPermutation` and `CrcAssumption`, have no constants in them: they are facts
TLC computes in full.

**SensorTaskProofs.** The inductive invariant has four parts beyond types. `SlotsInv`: slots in use hold sensors,
unused ones `NoId`, no sensor twice. `BusInv`: who is at which point holds the mutex, and only that task. From those
two follow `OneSlotPerSensor` and `SlotsStable`. `HandleUsable` needs a strengthening that is not obvious: *outside*
`discover_locked` every known slot has a handle, and *inside* it each slot without one is among those the running
scan still has to rebuild (found, in the search; `pending`, while handles are rebuilt). This is what closes the window a lookup without the mutex
opens: whatever `read_sensor` saw, by the time it owns the bus the rebuild is over. `ConversionNotDisturbed` rests on
the mutex and on the order convert, read; `EventsTellLost` and `RecoveryPosted` on what `record_read` and the
deadband reset do per slot, the latter from: a slot whose last read failed is in `armed`. `MutexGivenBack` says of
`BusInv` what the code has to get right on every early return: the mutex is free whenever nobody is on the bus. How far
"history series stay attached to the same sensor" (sensor.c:29) goes, although the run `sensor_attached` refutes it, is
said by two theorems. What a cycle records for a slot addressed by ROM code is always its own sensor's
(`MatchedReadingsAttached`). And while no other sensor answers to a solo handle (`OnlyOwnAnswers`), no slot ever
holds another's reading (`AttachedUnlessSwapped`): swapping a sensor found alone is the only way to the finding.

**SensorTimingProofs.** `WatchdogNeverBites` holds for all durations with `WatchdogAssumption`: the longest scan and
the pause after it, a slice of sleep, and the bus timeout with a read, a foreign hold of the bus and a scan, are each
below the watchdog's timeout. Its invariant `Unfed` says point by point how long the task may have been without a
feed. The part that is not obvious is the wait for the mutex without a timeout before a rescan: it is bounded only
because whoever holds the bus took it before the task began to wait (`taken <= since`), so one hold is all there is.
`ReadingKeysApart` assumes `PeriodSuffices` in addition: a cycle with a rescan fits into the period. Then no cycle
is late (`Punctual`), readings are a period apart, and `TimestampsApart` says that rounding three times - the cycle's
second, the time of sending, the wall clock - and asking the two clocks up to a second apart keeps readings apart that
are four seconds apart. `TimestampsSurviveClock` is about a wall clock set anew between two
sends, which the model's one offset leaves out: order and keys stay unless it is set back by as much as lies between
the readings, less four seconds. Without `PeriodSuffices`, cycles
are caught up without a pause and two readings may share a second; 16 sensors with a rescan in every cycle may get
there, seven do not. `CyclesOnTime` is the other thing a sufficient period gives: every cycle begins at the moment it
is due. What has to be shown is that the wrapping difference is the difference of moments (`TicksLeftIs`, from what
`%` does to a number less than half the range away from 0), for which no wait may be as long as half the range
(`TickAssumption`), and that a sleep of one slice never ends beyond the deadline. `CyclingTaskAlive` assumes `AliveSuffices`: the pause
after the first scan takes the first cycle out of the first second (its stamp would be the 0 of "no cycle yet"), and
two periods and a second are within SENSOR_ALIVE_S, since the stamp is the beginning of the last recorded cycle and
that is at most two periods ago (`StampInv`).

**MetricsProofs.** For a queue of any length and any number of posts. `StartInv` ties the queue's handle, its object and
the metrics task to how far `metrics_start` has come; it is what makes the types inductive. `InOrder` - what is handed
over, in hand and queued is in increasing order, so none is there twice - becomes inductive with `OrderInv`: all of
these are below the reading being posted. `FateInv` says of every reading posted that it is ignored, dropped or
accepted, and only one of them, from which `OneFate` follows by counting; `ClockInv` that the metrics task gets past
its wait only with the clock set. `ImplementsHandover` is the refinement: every step of `Metrics` is a step of `Handover`
or leaves its variables alone. What is to be shown is that a reading only ever changes place among queue, hand and
client - the sequence of those taken grows at its end and in no other way - and that a failing start finds nothing
sent yet. `PostAlwaysSends` says what `PostNeverWaits` says, without ENABLED: in every state in which a post is to be
sent, there are values the step can end with. `SendsUnlessStartFails` confines the finding of `metrics_disabled` to
starts that fail.

**RingProofs.** `Remembered` ties the array to the log: entry `i` from the newest lies `i` places behind the write
position, for all `count` of them, whatever the size. That holds across the wrap because the entry overwritten is just
the one that drops out. From it follows what `history_copy` and `events_recent` return (`RingKeepsNewest`).

**ApiProofs.** The theorem about rings is used by instance for both rings (`RingsAlwaysKeepNewest`). A document is
sound because slots below `count` are named and keep their names, `total` never exceeds `count`, and what was copied
is no later than now (`TaskInv`, `ListInv`). `SeriesAlwaysInOrder` rests on two facts: rows are added in the order of
time and never changed (`RowsInv`), and the header tells a number of samples that were there (`HeaderInv`); the
witness for the next series is the length of the log at the moment it is copied. `HighlightsAlwaysRanked` is about an
insertion sort of lists of any length. One insertion keeps `Ranked`: all positions, by `display_order`, equal ones as
in the list (`InsertionRanks`); the strict comparison of `sorted_slots` is what keeps equal ones in their order, since
the position inserted is the greatest so far. That the recursive function exists and is ranked at every length is an
induction without the induction theorem: the least length at which it fails (`Least`) cannot be there (`SortedRanks`).
Then entry `h` has exactly the `h - 1` positions before it, by a bijection (`RankCounted`).

**OneWireProofs.** For codes of any number of bytes and bits, any set of sensors and any number of disturbances. The
first lemmas are about `Rmt`: what was sent as pulses is what `Capture` and `Bits` give back, for a read of any length,
a reset and a byte written, and no noise changes more than one bit (`CallsMade` says it once for all callers). With the
ring buffer emptied before every call, `OwnAnswers` follows. The search needs more. `InStep`: master and sensors are at
the same bit of the code, or the job has been disturbed. `ScanInv`, for an undisturbed scan: the sensors not yet reported
are those *ahead* of the code reported last - those that leave it with a 1 where it has a 0 - and every such fork is
at or before `last_discrepancy`; while a search runs, the sensors still listening are those that agree with the code
assembled so far. Following the old code up to the last discrepancy, 1 there and 0 after it leads to the smallest code
that is ahead, so the one reported is new, and when no zero was chosen at a fork nobody is ahead any more
(`CodeFound`, `SearchReports`, `NoneAhead`). This is an argument about the order of codes bit by bit and needs no
induction over the tree: each step of a search moves the boundary by one bit (`OneBitFurther`). `VerifyInv`
says that a verification follows the code it was given for as long as any sensor listening agrees with it. `ReadInv` says
what `owb_read_rom` will have when it ends, from what it has and what is still to come (`Expected`): after one
disturbance it is in `Misread`, and `SensorAssumption` leaves the sensor's own code or none. `ScanUndisturbed` is the
refinement of `BusScan` without its fairness: every step of `OneWire` is one of `BusScan` or leaves its variables alone.
It excludes one kind of step, in which a *disturbed* scan reports a code put together from several sensors that are
there and that belongs to one that is not: nothing in `_search` but the CRC is against it, and the codes of the run are
chosen so that it does not happen.

Whether a scan ends needs fairness and is TLC's; that it *can only* go on for so long is proved. `JobsEnd` has a number
of steps left (`Budget`) that every step of a job but its last lowers, a repeated code and a dying receiver included, and
that is never above (MAX_DEVICES + 1) * (3 * RomBits + 3). `DeadScanEnds` counts the calls that run into their timeout
once the receiver has died: two for each bit and the reset of the next pass. For codes of 64 bits these are 129 of 100 ms,
12.9 s, more than the watchdog's 10 s (sdkconfig.defaults:27). `ScanMax` in `SensorTiming` is the longest scan whose
calls are answered; one that is not is among the hung reads the watchdog is there to end (sensor.c:38-40).

**Ds18b20Proofs.** For any number of sensors and disturbances and noise on any bits. What a transfer may return is
said once (`TransferCases`), and what may be believed of it once: with one sensor in reach or none, what passes the
CRC is a scratchpad some sensor can have, or zeros (`PassedOrTold`). That rests on two theorems about
`_calc_crc_block` for data of any length: data with its CRC behind it has the CRC 0 (`CheckedPasses`), and one byte
received wrong changes the CRC, whatever became of the byte (`OneByteTold`) - the registers differ from that byte on
and never meet again, since no two bytes give the same in the table (`TableIsPermutation`) and `^` can be undone
(`XorApart`). What is left to look up, that no byte of a scratchpad is 0 and that the idle line is told, TLC evaluates
in full (`CrcAssumption`). That one sensor's bytes, taken apart into bits and wired together with nobody else's, are
its bytes again is proved (`ByteOfBits`, `WiredAlone`). `ReadingsAreMeasured` then needs `HandlesInv`: outside a
handle's setup every handle checks the CRC - `ds18b20_init` reads *before* that, and only the resolution is taken from
what it read. Zeros are why `ReadingsMeasured` does not exclude a reading of 0.0. `ScanInv`, for an undisturbed scan:
the sensor being set up answers alone, since a solo handle exists only when the search found one sensor; after the
write its resolution is the one read back, so the refresh is never reached, and the slots done stay in agreement.
`MeasureInv`, for an undisturbed job: at the wait, every sensor converts for its own time, and after it has its result
if the handle waited by has a resolution no lower. The wait is that of one handle and ends early when no sensor pulls
the line low, so the argument is about the longest conversion, whichever sensor has it; that a finite set has a least
and a greatest number is proved by well-founded induction (`Least`, `MaxIsGreatest`).

Two theorems draw the line around the finding of `ds18b20_wait`, for jobs that were disturbed before. A wait that is not
itself cut short outlasts the conversion of every sensor no slower than the handle it goes by (`WaitsLongEnough`, from
`BusyInv`: no sensor is busy when a job begins, and none for longer than its own resolution takes), so a handle of
too few bits is all that can make it too short. And only a scan makes such a handle: between two scans a handle and a
sensor that agree on 12 bits go on to agree while the sensor stays connected (`AgreementStays`). The proof found two overlapping
CASE arms in the models, `Reading` here and `Slot` in `OneWire`, where TLA+ leaves open which one counts while TLC
takes the first; both are an IF now.

**IngestProofs.** `IngestInvariant` collects what relates the stations of a message: ids are unique and below
`mids`, what is in `inbox`, `hand` and `acks` was sent over the running connection, a message in `acks` or about to
be acked (`step = "ack"`) has its row or was refused. From it follow `AckedIsSettled`, then `NothingLost` (a message
leaves the session only by an ack) and `SavedIsSafe` (the disk copy lags behind the session only by messages that
were acked). `ImplementsStore` proves that every step of `Ingest` is a
step of `ReadingStore` - `Publish` accepts, `Insert` stores, a refusing `OnMessage` refuses - or leaves its variables
alone.

## 6. Only model-checked

* Liveness: `RescanRecovers`, `MatchRecovers`, `QueueDrains`, `EverySettled`. The prover has no rules for fairness.
* `PostNeverWaits`, which is stated with ENABLED; `PostAlwaysSends` is what can be said without it.
* Of `ScanKeepsPromise`, that a scan ends, of which `JobsEnd` is the part without fairness, and the reports of codes a
  disturbed scan has mixed up (section 5).

Every other property of a passing run is the conclusion of a theorem.

## 7. What could follow

The modules were written in the order of importance: `SensorTask`, `Ingest` over `ReadingStore`, `Metrics`,
`SensorTiming`, then the layers below and above them, `OneWire` over `Rmt` and under `BusScan`, `Ds18b20` over `Crc8`,
`Ring` and `Api`; `Handover` came last. What is left is

* a composition of deadband, `Handover` and `ReadingStore`: what "at least every 60 s" means for the table when posts
  are dropped. The deadband is home-idf's and its source is not here;
* wall clocks set more than once in `SensorTiming`, with what the table's key makes of them; `TimestampsSurviveClock` is
  the arithmetic of it;
* how far apart the CRC keeps whole codes, for scans disturbed more than once;
* late cycles: `OnTime`, `KeysApart` and `AliveWhileCycling` are about periods that suffice, and what an overrun leaves
  of them is not stated.

## 8. Not modelled

* home-idf is another repository: Wi-Fi, OTA, sign-in, logging and notifications appear only as far as the code here
  depends on them.
* Labels, names and the JSON the API and the web app format have no state to get wrong.
* Of the 1-Wire driver, what this firmware never calls (`owb_uninitialize`, `owb_use_strong_pullup_gpio`),
  the checks of parameters, and `owb_rmt_initialize`: it configures hardware, and its
  failure is logged and nothing else. The second item of a short entry that `_reset` reads without looking at its size
  (owb_rmt.c:152) is taken as absent; what lies there is up to FreeRTOS.
* The migrator configures home-idf's one-shot `hi_migrator`; backups, installation, import and build scripts run once
  and by hand; the cloud functions belong to a project that was shut down; `owb_gpio.c` is vendored and unused.
* Temperatures as numbers, the topic and payload texts and the regular expression over ids: `Ingest` has sets of
  plausible and insertable readings instead.
* In `SensorTask` several sensors answering at once are taken to fail the CRC check always, which holds but for
  coincidences of the checksum. In `Ds18b20` they are wired together bit by bit, and its properties speak of sensors
  addressed alone.
