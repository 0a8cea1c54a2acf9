---------------------------- MODULE SensorTiming ----------------------------
(***************************************************************************)
(* The sensor task of firmware/main/sensor.c in time: when it feeds the    *)
(* task watchdog, when a cycle begins, what s_last_cycle_mono_s tells      *)
(* sensor_alive(), and which second a reading is stored under.             *)
(*                                                                         *)
(* What SensorTask says of slots and results is left out: whether a scan   *)
(* finds a sensor and whether all are lost is anybody's guess here. Times  *)
(* are in units of 1/Second s since boot. A step of a task takes no time;  *)
(* Tick lets time pass, but not past a moment at which somebody acts.      *)
(***************************************************************************)
EXTENDS Integers

CONSTANTS
    Second,        \* units of time in a second
    WdtTimeout,    \* CONFIG_ESP_TASK_WDT_TIMEOUT_S
    FeedSlice,     \* WDT_FEED_SLICE_MS
    BusTimeout,    \* BUS_LOCK_TIMEOUT_MS
    Period,        \* READ_PERIOD_S
    ScanRetry,     \* TEMP_SENSOR_SCAN_RETRY_S
    Settle,        \* the pause after the first scan
    AliveSeconds,  \* SENSOR_ALIVE_S, in seconds
    ScanMax,       \* the longest discover_locked()
    ReadMax,       \* the longest conversion and reading of all slots
    HoldMax,       \* the longest read_sensor() holds the bus
    HalfRange,     \* half the values of TickType_t
    MaxTime        \* bound: the time modelled

ASSUME SecondAssumption == Second \in Nat \ {0}

ASSUME DurationAssumption ==
    /\ {WdtTimeout, BusTimeout, ScanRetry, Settle, AliveSeconds, ScanMax, ReadMax, HoldMax, MaxTime} \subseteq Nat
    /\ {FeedSlice, Period} \subseteq Nat \ {0}

\* What has to be true of the durations for the watchdog never to bite.
ASSUME WatchdogAssumption ==
    /\ ScanMax + Settle < WdtTimeout
    /\ FeedSlice < WdtTimeout
    /\ BusTimeout + ReadMax + HoldMax + ScanMax < WdtTimeout

\* No wait is as long as half the range of the tick counter.
ASSUME TickAssumption ==
    /\ HalfRange \in Nat
    /\ Period < HalfRange
    /\ ScanRetry < HalfRange

VARIABLES
    now,     \* the time since boot
    pc,      \* where the sensor task is
    since,   \* when it got there
    phase,   \* "scans" until one has found a sensor, then "cycles"
    wake,    \* the moment last_wake_time stands for
    until,   \* the end of its vTaskDelay()
    fed,     \* the last esp_task_wdt_reset()
    mono,    \* the cycle's mono, in seconds
    stamp,   \* s_last_cycle_mono_s
    first,   \* when the first cycle began
    http,    \* read_sensor(): "out", or it "holds" the bus
    taken    \* since when

vars == <<now, pc, since, phase, wake, until, fed, mono, stamp, first, http, taken>>

Time == 0 .. MaxTime

Seconds == 0 .. MaxTime \div Second

\* Moments are in time units, mono and s_last_cycle_mono_s in seconds.
TypeOK ==
    /\ now \in Time
    /\ pc \in {"to_scan", "scan", "settle", "cycle", "take", "read", "record", "to_rescan", "rescan",
               "pause", "sleep"}
    /\ since \in Time
    /\ phase \in {"scans", "cycles"}
    /\ wake \in Nat
    /\ until \in Nat
    /\ fed \in Time
    /\ mono \in Seconds
    /\ stamp \in Seconds
    /\ first \in Time
    /\ http \in {"out", "holds"}
    /\ taken \in Time

\* Mutant: the timer's own unit taken for seconds.
MonoSecondsUndivided == now

\* events_mono_s()
MonoSeconds == now \div Second

\* The task starts somewhere in the first second after boot.
Init ==
    /\ now \in 0 .. Second
    /\ now <= MaxTime
    /\ pc = "to_scan"
    /\ since = now
    /\ phase = "scans"
    /\ wake = now
    /\ until = now
    /\ fed = now
    /\ mono = 0
    /\ stamp = 0
    /\ first = 0
    /\ http = "out"
    /\ taken = now

Goto(label) ==
    /\ pc' = label
    /\ since' = now

-----------------------------------------------------------------------------
(* First scans.                                                             *)

TakeBusToScan ==
    /\ pc = "to_scan" \/ pc = "to_rescan"
    /\ http = "out"
    /\ Goto(IF phase = "cycles" THEN "rescan" ELSE "scan")
    /\ UNCHANGED <<now, phase, wake, until, fed, mono, stamp, first, http, taken>>

\* A scan counts as alive, whatever it found; one that found nothing is repeated later.
ScanEnds ==
    /\ pc = "scan"
    /\ stamp' = MonoSeconds
    /\ \/ /\ phase' = "cycles"
          /\ Goto("settle")
       \/ /\ Goto("pause")
          /\ UNCHANGED phase
    /\ UNCHANGED <<now, wake, until, fed, mono, first, http, taken>>

SettleEnds ==
    /\ pc = "settle"
    /\ now = since + Settle
    /\ Goto("cycle")
    /\ wake' = now
    /\ first' = now
    /\ UNCHANGED <<now, phase, until, fed, mono, stamp, http, taken>>

-----------------------------------------------------------------------------
(* The cycle.                                                               *)

CycleBegins ==
    /\ pc = "cycle"
    /\ Goto("take")
    /\ fed' = now
    /\ mono' = MonoSeconds
    /\ UNCHANGED <<now, phase, wake, until, stamp, first, http, taken>>

TakeBusForCycle ==
    /\ pc = "take"
    /\ \/ /\ http = "out"
          /\ Goto("read")
       \/ /\ now = since + BusTimeout
          /\ Goto("record")
    /\ UNCHANGED <<now, phase, wake, until, fed, mono, stamp, first, http, taken>>

ReadEnds ==
    /\ pc = "read"
    /\ Goto("record")
    /\ UNCHANGED <<now, phase, wake, until, fed, mono, stamp, first, http, taken>>

\* Mutant: a cycle does not tell that the task is alive.
RecordUnstamped ==
    /\ pc = "record"
    /\ Goto("pause") \/ Goto("to_rescan")
    /\ UNCHANGED <<now, phase, wake, until, fed, mono, stamp, first, http, taken>>

\* The results are recorded; when all sensors are lost, a rescan follows.
Record ==
    /\ pc = "record"
    /\ stamp' = mono
    /\ Goto("pause") \/ Goto("to_rescan")
    /\ UNCHANGED <<now, phase, wake, until, fed, mono, first, http, taken>>

RescanEnds ==
    /\ pc = "rescan"
    /\ Goto("pause")
    /\ UNCHANGED <<now, phase, wake, until, fed, mono, stamp, first, http, taken>>

-----------------------------------------------------------------------------
(* wait_feeding_wdt.                                                        *)

\* What xTaskGetTickCount() gives at a moment: the counter comes round.
Ticks(moment) == moment % (2 * HalfRange)

\* The moment `deadline` stands for.
Deadline == wake + (IF phase = "cycles" THEN Period ELSE ScanRetry)

\* (int32_t) (deadline - xTaskGetTickCount()): the unsigned difference, read as a signed number.
TicksLeft ==
    LET difference == (Ticks(Deadline) - Ticks(now)) % (2 * HalfRange)
    IN  IF difference < HalfRange THEN difference ELSE difference - 2 * HalfRange

Awake == IF phase = "cycles" THEN "cycle" ELSE "to_scan"

\* Mutant: the task sleeps until the deadline in one go.
PauseAsleep ==
    /\ pc = "pause"
    /\ fed' = now
    /\ \/ /\ TicksLeft <= 0
          /\ wake' = Deadline
          /\ Goto(Awake)
          /\ UNCHANGED until
       \/ /\ TicksLeft > 0
          /\ until' = now + TicksLeft
          /\ Goto("sleep")
          /\ UNCHANGED wake
    /\ UNCHANGED <<now, phase, mono, stamp, first, http, taken>>

\* Mutant: the counter is compared with the deadline instead of being subtracted from it.
PauseCompares ==
    /\ pc = "pause"
    /\ fed' = now
    /\ \/ /\ Ticks(now) >= Ticks(Deadline)
          /\ wake' = Deadline
          /\ Goto(Awake)
          /\ UNCHANGED until
       \/ /\ Ticks(now) < Ticks(Deadline)
          /\ until' = now + (IF TicksLeft < FeedSlice THEN TicksLeft ELSE FeedSlice)
          /\ Goto("sleep")
          /\ UNCHANGED wake
    /\ UNCHANGED <<now, phase, mono, stamp, first, http, taken>>

\* One turn of its loop: feed, and sleep for a slice or be done.
Pause ==
    /\ pc = "pause"
    /\ fed' = now
    /\ \/ /\ TicksLeft <= 0
          /\ wake' = Deadline
          /\ Goto(Awake)
          /\ UNCHANGED until
       \/ /\ TicksLeft > 0
          /\ until' = now + (IF TicksLeft < FeedSlice THEN TicksLeft ELSE FeedSlice)
          /\ Goto("sleep")
          /\ UNCHANGED wake
    /\ UNCHANGED <<now, phase, mono, stamp, first, http, taken>>

SleepEnds ==
    /\ pc = "sleep"
    /\ now = until
    /\ Goto("pause")
    /\ UNCHANGED <<now, phase, wake, until, fed, mono, stamp, first, http, taken>>

-----------------------------------------------------------------------------
(* read_sensor and time.                                                    *)

WaitsForBus == pc \in {"to_scan", "take", "to_rescan"}

\* The HTTP server's task gets the bus only when the sensor task neither has it nor waits for it:
\* both have the same priority, and it has an answer to send before it can ask again.
HttpTakes ==
    /\ phase = "cycles"
    /\ http = "out"
    /\ ~WaitsForBus
    /\ pc \notin {"read", "rescan"}
    /\ http' = "holds"
    /\ taken' = now
    /\ UNCHANGED <<now, pc, since, phase, wake, until, fed, mono, stamp, first>>

HttpGives ==
    /\ http = "holds"
    /\ http' = "out"
    /\ UNCHANGED <<now, pc, since, phase, wake, until, fed, mono, stamp, first, taken>>

\* Time may pass while every task is where it may still be.
MayStay ==
    \/ pc \in {"scan", "rescan"} /\ now < since + ScanMax
    \/ pc = "settle" /\ now < since + Settle
    \/ pc = "read" /\ now < since + ReadMax
    \/ pc = "take" /\ http = "holds" /\ now < since + BusTimeout
    \/ pc = "to_rescan" /\ http = "holds"
    \/ pc = "sleep" /\ now < until

Tick ==
    /\ now < MaxTime
    /\ MayStay
    /\ http = "holds" => now < taken + HoldMax
    /\ now' = now + 1
    /\ UNCHANGED <<pc, since, phase, wake, until, fed, mono, stamp, first, http, taken>>

-----------------------------------------------------------------------------
TaskStep ==
    \/ TakeBusToScan \/ ScanEnds \/ SettleEnds
    \/ CycleBegins \/ TakeBusForCycle \/ ReadEnds \/ Record \/ RescanEnds
    \/ Pause \/ SleepEnds

\* The modelled time is over.
Over == now = MaxTime /\ UNCHANGED vars

Next == TaskStep \/ HttpTakes \/ HttpGives \/ Tick \/ Over

Spec == Init /\ [][Next]_vars

-----------------------------------------------------------------------------
(* Properties                                                               *)

\* The task is never so long without esp_task_wdt_reset() that the watchdog resets the board:
\* not in a scan and the pause after it, not when a cycle waits for the bus twice, and not in
\* the long wait between two scans of an empty bus (2.0.0 did, docs/IDF5_MIGRATION.md:96).
WatchdogFed == now - fed < WdtTimeout

Alive == stamp > 0 /\ MonoSeconds - stamp < AliveSeconds

\* From the end of the first cycle on, sensor_alive() never takes the task for a dead one, although
\* the stamp is the beginning of a cycle, is written at its end, and waits behind a rescan.
AliveWhileCycling == first > 0 /\ now >= first + Period => Alive

\* Every cycle begins the very moment it is due, a multiple of the period after the first: not
\* sooner or later by what the last one took, by a read_sensor(), a bus timeout or a rescan, by the
\* slices the sleep is cut into, nor where the tick counter comes round (wait_feeding_wdt).
\* SENSOR_FAIL_READS counts cycles for minutes.
OnTime == pc = "cycle" => now = wake /\ (now - first) % Period = 0

\* Mutant: the time a reading is sent, not taken.
UnixTimeOfSending(m, t, u, off) == (t + off) \div Second

\* events_unix_time(): time(NULL) is asked at moment t, with a wall clock off ahead of the time
\* since boot, and events_mono_s() at moment u, in either order, since C leaves that open.
UnixTime(m, t, u, off) == (t + off) \div Second - (u \div Second - m)

\* A cycle with a rescan, each waiting for a read_sensor(), is over within the period: none is late.
PeriodSuffices ==
    /\ 2 * HoldMax + ReadMax + ScanMax <= Period
    /\ 4 * Second <= Period

\* Readings of two cycles never get the same (sensor_id, ts), and their order stays: whenever
\* each of them is sent (any two moments of the next two seconds stand for all roundings), with up
\* to a second between the calls that ask the two clocks, and wherever in a second the wall clock
\* and the boot began, as long as the clock is not set anew in between.
KeysApart ==
    [][pc = "cycle" /\ pc' = "take" /\ mono > 0 =>
        \A off \in 0 .. Second - 1 :
            \A t1, t2 \in mono' * Second .. (mono' + 2) * Second :
                \A u1 \in t1 - Second .. t1 + Second, u2 \in t2 - Second .. t2 + Second :
                    UnixTime(mono, t1, u1, off) < UnixTime(mono', t2, u2, off)]_vars
=============================================================================
