------------------------- MODULE SensorTimingProofs -------------------------
(***************************************************************************)
(* The watchdog never resets the board for a sensor task that does its     *)
(* job, whatever the durations are, as long as WatchdogAssumption holds    *)
(* for them; the timestamps of two readings four seconds apart differ; a   *)
(* cycle begins the moment it is due; and a task that cycles counts as     *)
(* alive.                                                                  *)
(***************************************************************************)
EXTENDS SensorTiming, TLAPS

LEMMA Durations ==
    /\ Second \in Nat /\ Second >= 1
    /\ WdtTimeout \in Nat /\ FeedSlice \in Nat /\ FeedSlice >= 1 /\ BusTimeout \in Nat
    /\ Period \in Nat /\ Period >= 1 /\ ScanRetry \in Nat /\ Settle \in Nat
    /\ ScanMax \in Nat /\ ReadMax \in Nat /\ HoldMax \in Nat /\ MaxTime \in Nat
  BY SecondAssumption, DurationAssumption

-----------------------------------------------------------------------------
(* The tick counter.                                                        *)

LEMMA Division ==
  ASSUME NEW S \in Nat, S >= 1, NEW a \in Nat
  PROVE  a \div S \in Nat /\ S * (a \div S) <= a /\ a < S * (a \div S) + S
  OBVIOUS

LEMMA Cancel ==
  ASSUME NEW S \in Nat, S >= 1, NEW a \in Int, NEW b \in Int, S * a < S * b
  PROVE  a < b
  BY SMTT(20)

\* What is left when rounding down, of negative numbers too.
LEMMA RemainderOf ==
  ASSUME NEW P \in Nat, P >= 1, NEW a \in Int
  PROVE  /\ a \div P \in Int /\ a = P * (a \div P) + (a % P)
         /\ a % P \in Int /\ 0 <= a % P /\ a % P < P
<1>1. a \div P \in Int /\ a % P \in Int
  OBVIOUS
<1>2. a % P = a - P * (a \div P)
  OBVIOUS
<1>3. P * (a \div P) \in Int
  BY <1>1
<1>4. 0 <= a % P /\ a % P < P
  OBVIOUS
<1>5. a = P * (a \div P) + (a % P)
  BY <1>1, <1>2, <1>3
<1> QED
  BY <1>1, <1>4, <1>5

\* There is only one remainder.
LEMMA RemainderIs ==
  ASSUME NEW P \in Nat, P >= 1, NEW k \in Int, NEW r \in Int, 0 <= r, r < P
  PROVE  (P * k + r) % P = r
<1> DEFINE a == P * k + r
           q == a \div P
           x == a % P
<1>1. a \in Int
  OBVIOUS
<1>2. q \in Int /\ a = P * q + x /\ x \in Int /\ 0 <= x /\ x < P
  BY <1>1, RemainderOf
<1> HIDE DEF q, x
<1>3. P * (q + 1) = P * q + P /\ P * (k + 1) = P * k + P
  BY <1>2
<1>4. P * q < P * (k + 1) /\ P * k < P * (q + 1)
  BY <1>2, <1>3
<1>5. q < k + 1 /\ k < q + 1
  BY <1>2, <1>4, Cancel
<1>6. q = k
  BY <1>2, <1>5
<1> QED
  BY <1>1, <1>2, <1>6 DEF x

LEMMA Range ==
  /\ HalfRange \in Nat /\ HalfRange >= 1
  /\ 2 * HalfRange \in Nat /\ 2 * HalfRange >= 1
  BY Durations, TickAssumption

LEMMA TicksLeftType ==
  ASSUME wake \in Nat, now \in Nat
  PROVE  TicksLeft \in Int /\ Deadline \in Nat
<1>1. Deadline \in Nat
  BY Durations DEF Deadline
<1>2. Ticks(Deadline) \in Int /\ Ticks(now) \in Int
  BY <1>1, Range, RemainderOf DEF Ticks
<1>3. (Ticks(Deadline) - Ticks(now)) % (2 * HalfRange) \in Int
  BY <1>2, Range, RemainderOf
<1> QED
  BY <1>1, <1>3, Range DEF TicksLeft

\* A deadline ahead by less than half the range of the counter is as far ahead as the signed
\* difference says, whether the counter comes round in between or not.
LEMMA TicksLeftIs ==
  ASSUME wake \in Nat, now \in Nat, now <= Deadline, Deadline - now < HalfRange
  PROVE  TicksLeft = Deadline - now
<1>1. PICK N \in Nat : N = 2 * HalfRange
  BY Range
<1>2. N >= 1 /\ HalfRange <= N /\ \A m \in Nat : Ticks(m) = m % N
  BY <1>1, Range DEF Ticks
<1> DEFINE a == Deadline \div N
           b == now \div N
           d == Deadline - now
<1>3. d \in Nat /\ d < HalfRange /\ Deadline \in Nat
  BY TicksLeftType
<1>4. /\ a \in Int /\ Deadline = N * a + (Deadline % N) /\ Deadline % N \in Int
      /\ b \in Int /\ now = N * b + (now % N) /\ now % N \in Int
  BY <1>2, <1>3, RemainderOf
<1>5. Ticks(Deadline) = Deadline % N /\ Ticks(now) = now % N
  BY <1>2, <1>3, Zenon
<1>6. Deadline - now = d
  OBVIOUS
<1> HIDE DEF a, b, d
<1>7. N * (b - a) = N * b - N * a /\ b - a \in Int /\ N * b \in Int /\ N * a \in Int
  BY <1>4
<1>8. \A x, y, p, q, v, w, c \in Int :
          x = p + v /\ y = q + w /\ x - y = c => v - w = (q - p) + c
  OBVIOUS
<1>9. Deadline \in Int /\ now \in Int /\ d \in Int /\ 0 <= d /\ d < N
  BY <1>2, <1>3, Range
<1>10. (Deadline % N) - (now % N) = (N * b - N * a) + d
  BY <1>4, <1>6, <1>7, <1>8, <1>9
<1>11. (N * (b - a) + d) % N = d
  BY <1>2, <1>7, <1>9, RemainderIs
<1>12. (Ticks(Deadline) - Ticks(now)) % (2 * HalfRange) = d
  BY <1>1, <1>5, <1>7, <1>10, <1>11, Zenon
<1> QED
  BY <1>3, <1>6, <1>12 DEF TicksLeft

-----------------------------------------------------------------------------
(* The watchdog.                                                            *)

\* The moments are in order, and the clock stands still while the task can go on.
Moments ==
    /\ now \in Nat /\ since \in Nat /\ fed \in Nat /\ taken \in Nat
    /\ wake \in Nat
    /\ until \in Nat
    /\ phase \in {"scans", "cycles"}
    /\ http \in {"out", "holds"}
    /\ fed <= since /\ since <= now /\ taken <= now
    /\ http = "holds" => now <= taken + HoldMax
    /\ WaitsForBus /\ http = "holds" => taken <= since
    /\ pc \in {"cycle", "record", "pause"} => now = since

\* How long the task may have been without a feed, point by point.
Unfed ==
    \/ pc = "to_scan" /\ fed = now /\ phase = "scans" /\ http = "out"
    \/ pc = "scan" /\ fed = since /\ now <= since + ScanMax /\ phase = "scans" /\ http = "out"
    \/ pc = "settle" /\ since <= fed + ScanMax /\ now <= since + Settle /\ phase = "cycles"
    \/ pc = "cycle" /\ now <= fed + ScanMax + Settle /\ phase = "cycles"
    \/ pc = "take" /\ fed = since /\ now <= since + BusTimeout /\ phase = "cycles"
    \/ pc = "read" /\ since <= fed + BusTimeout /\ now <= since + ReadMax /\ phase = "cycles"
    \/ pc = "record" /\ now <= fed + BusTimeout + ReadMax /\ phase = "cycles"
    \/ pc = "to_rescan" /\ since <= fed + BusTimeout + ReadMax /\ now <= since + HoldMax /\ phase = "cycles"
    \/ pc = "rescan" /\ since <= fed + BusTimeout + ReadMax + HoldMax /\ now <= since + ScanMax /\ phase = "cycles"
    \/ pc = "pause" /\ now < fed + WdtTimeout /\ (phase = "cycles" \/ http = "out")
    \/ pc = "sleep" /\ fed = since /\ now <= until /\ until <= since + FeedSlice /\ (phase = "cycles" \/ http = "out")

WatchdogInv == Moments /\ Unfed

\* The time without a feed is bounded at every point of the task: by the longest scan and the
\* pause after it, by a cycle that waits for the bus twice, or by a slice of sleep.
LEMMA WatchdogInvariant == Spec => []WatchdogInv
<1>1. Init => WatchdogInv
  BY Durations DEF Init, WatchdogInv, Moments, Unfed, WaitsForBus
<1>2. WatchdogInv /\ [Next]_vars => WatchdogInv'
  <2> SUFFICES ASSUME WatchdogInv, [Next]_vars
               PROVE  WatchdogInv'
    OBVIOUS
  <2> USE Durations, WatchdogAssumption DEF WatchdogInv, Moments, Unfed, WaitsForBus, Goto
  <2>1. CASE TakeBusToScan
    BY <2>1 DEF TakeBusToScan
  <2>2. CASE ScanEnds
    BY <2>2 DEF ScanEnds
  <2>3. CASE SettleEnds
    BY <2>3 DEF SettleEnds
  <2>4. CASE CycleBegins
    BY <2>4 DEF CycleBegins
  <2>5. CASE TakeBusForCycle
    BY <2>5 DEF TakeBusForCycle
  <2>6. CASE ReadEnds
    BY <2>6 DEF ReadEnds
  <2>7. CASE Record
    BY <2>7 DEF Record
  <2>8. CASE RescanEnds
    BY <2>8 DEF RescanEnds
  <2>9. CASE Pause
    <3>1. TicksLeft \in Int /\ Deadline \in Nat
      BY TicksLeftType
    <3> QED
      BY <2>9, <3>1 DEF Pause, Awake
  <2>10. CASE SleepEnds
    BY <2>10 DEF SleepEnds
  <2>11. CASE HttpTakes
    BY <2>11 DEF HttpTakes
  <2>12. CASE HttpGives
    BY <2>12 DEF HttpGives
  <2>13. CASE Tick
    BY <2>13 DEF Tick, MayStay
  <2>14. CASE UNCHANGED vars
    BY <2>14 DEF vars
  <2> QED
    BY <2>1, <2>2, <2>3, <2>4, <2>5, <2>6, <2>7, <2>8, <2>9, <2>10, <2>11, <2>12, <2>13, <2>14
    DEF Next, TaskStep, Over
<1> QED
  BY <1>1, <1>2, PTL DEF Spec

\* The watchdog is fed in time, wherever the task is.
THEOREM WatchdogNeverBites == Spec => []WatchdogFed
<1>1. WatchdogInv => WatchdogFed
  BY Durations, WatchdogAssumption DEF WatchdogInv, Moments, Unfed, WatchdogFed
<1> QED
  BY <1>1, WatchdogInvariant, PTL

-----------------------------------------------------------------------------
(* Timestamps.                                                              *)

\* Four seconds apart in time are four seconds apart when rounded down.
LEMMA DivisionGap ==
  ASSUME NEW S \in Nat, S >= 1, NEW a \in Nat, NEW b \in Nat, a + 4 * S <= b
  PROVE  a \div S + 4 <= b \div S
<1> DEFINE x == a \div S
           y == b \div S
<1>1. x \in Nat /\ y \in Nat /\ S * x <= a /\ b < S * y + S
  BY Division
<1> HIDE DEF x, y
<1>2. S * (x + 4) = S * x + 4 * S /\ S * (y + 1) = S * y + S
  BY <1>1
<1>3. S * (x + 4) < S * (y + 1)
  BY <1>1, <1>2
<1>4. x + 4 < y + 1
  BY <1>1, <1>3, Cancel
<1> QED
  BY <1>1, <1>4 DEF x, y

\* The second the wall clock adds is the same but for one and a half on either side, whenever a
\* reading is sent, when the two clocks are asked at most a second apart.
LEMMA UnixTimeBounds ==
  ASSUME NEW m \in Nat, NEW t \in Nat, NEW u \in Nat, NEW off \in Nat,
         t <= u + Second, u <= t + Second
  PROVE  /\ UnixTime(m, t, u, off) \in Int
         /\ m + off \div Second <= UnixTime(m, t, u, off) + 1
         /\ UnixTime(m, t, u, off) <= m + off \div Second + 2
<1> DEFINE S == Second
           x == u \div S
           y == off \div S
           z == (t + off) \div S
<1>1. S \in Nat /\ S >= 1
  BY Durations
<1>2. /\ x \in Nat /\ S * x <= u /\ u < S * x + S
      /\ y \in Nat /\ S * y <= off /\ off < S * y + S
      /\ z \in Nat /\ S * z <= t + off /\ t + off < S * z + S
      /\ t <= u + S /\ u <= t + S
  BY <1>1, Division, t + off \in Nat
<1>3. UnixTime(m, t, u, off) = z - (x - m)
  BY DEF UnixTime
<1> HIDE DEF S, x, y, z
<1>4. /\ S * (x + y) = S * x + S * y
      /\ S * (x + y + 3) = S * x + S * y + 3 * S
      /\ S * (z + 2) = S * z + 2 * S
  BY <1>1, <1>2
<1>5. S * (x + y) < S * (z + 2) /\ S * z < S * (x + y + 3)
  BY <1>1, <1>2, <1>4
<1>6. x + y < z + 2
  BY <1>1, <1>2, <1>5, Cancel
<1>7. z < x + y + 3
  BY <1>1, <1>2, <1>5, Cancel
<1>8. m + y <= z - (x - m) + 1 /\ z - (x - m) <= m + y + 2 /\ z - (x - m) \in Int
  BY <1>2, <1>6, <1>7
<1> QED
  BY <1>3, <1>8 DEF y, S

\* Readings four seconds apart keep their order, whenever they are sent.
THEOREM TimestampsApart ==
  ASSUME NEW m1 \in Nat, NEW m2 \in Nat, m1 + 4 <= m2,
         NEW t1 \in Nat, NEW u1 \in Nat, t1 <= u1 + Second, u1 <= t1 + Second,
         NEW t2 \in Nat, NEW u2 \in Nat, t2 <= u2 + Second, u2 <= t2 + Second,
         NEW off \in Nat
  PROVE  UnixTime(m1, t1, u1, off) < UnixTime(m2, t2, u2, off)
<1>1. off \div Second \in Nat
  BY Durations, Division
<1>2. /\ UnixTime(m1, t1, u1, off) \in Int /\ UnixTime(m1, t1, u1, off) <= m1 + off \div Second + 2
      /\ UnixTime(m2, t2, u2, off) \in Int /\ m2 + off \div Second <= UnixTime(m2, t2, u2, off) + 1
  BY UnixTimeBounds
<1> QED
  BY <1>1, <1>2

\* A clock set back by whole seconds shows at most as many seconds less.
LEMMA SetBack ==
  ASSUME NEW back \in Nat, NEW off1 \in Nat, NEW off2 \in Nat, off1 <= off2 + Second * back
  PROVE  off1 \div Second <= off2 \div Second + back
<1> DEFINE S == Second
           x == off1 \div S
           y == off2 \div S
<1>1. S \in Nat /\ S >= 1
  BY Durations
<1>2. /\ x \in Nat /\ S * x <= off1 /\ y \in Nat /\ off2 < S * y + S
      /\ off1 <= off2 + S * back
  BY <1>1, Division
<1> HIDE DEF S, x, y
<1>3. S * (y + 1 + back) = S * y + S + S * back /\ S * back \in Nat
  BY <1>1, <1>2
<1>4. S * x < S * (y + 1 + back)
  BY <1>1, <1>2, <1>3
<1>5. x < y + 1 + back
  BY <1>1, <1>2, <1>4, Cancel
<1> QED
  BY <1>2, <1>5 DEF S, x, y

\* events_unix_time() takes the wall clock of the moment a reading is sent, and it may be set anew
\* between two of them: their order and their keys stay as long as it is not set back by as much as
\* lies between the readings, less the four seconds that roundings and the two clocks take. Set
\* forward, it does no harm.
THEOREM TimestampsSurviveClock ==
  ASSUME NEW back \in Nat, NEW m1 \in Nat, NEW m2 \in Nat, m1 + back + 4 <= m2,
         NEW t1 \in Nat, NEW u1 \in Nat, t1 <= u1 + Second, u1 <= t1 + Second,
         NEW t2 \in Nat, NEW u2 \in Nat, t2 <= u2 + Second, u2 <= t2 + Second,
         NEW off1 \in Nat, NEW off2 \in Nat, off1 <= off2 + Second * back
  PROVE  UnixTime(m1, t1, u1, off1) < UnixTime(m2, t2, u2, off2)
<1>1. off1 \div Second <= off2 \div Second + back
  BY SetBack
<1>2. off1 \div Second \in Nat /\ off2 \div Second \in Nat
  BY Durations, Division
<1>3. /\ UnixTime(m1, t1, u1, off1) \in Int /\ UnixTime(m1, t1, u1, off1) <= m1 + off1 \div Second + 2
      /\ UnixTime(m2, t2, u2, off2) \in Int /\ m2 + off2 \div Second <= UnixTime(m2, t2, u2, off2) + 1
  BY UnixTimeBounds
<1> QED
  BY <1>1, <1>2, <1>3

-----------------------------------------------------------------------------
(* Cycles on time.                                                          *)

\* No cycle is late, and mono is the second its cycle began in.
Punctual ==
    \/ phase = "scans" /\ mono = 0 /\ pc \in {"to_scan", "scan", "pause", "sleep"}
    \/ pc = "settle" /\ mono = 0
    \/ /\ pc = "cycle"
       /\ now = wake
       /\ \/ mono = 0
          \/ Period <= wake /\ mono = (wake - Period) \div Second
    \/ /\ mono = wake \div Second
       /\ wake <= now
       /\ \/ pc = "take" /\ since = wake /\ now <= wake + HoldMax
          \/ pc = "read" /\ since <= wake + HoldMax
          \/ pc = "record" /\ since <= wake + HoldMax + ReadMax
          \/ pc = "to_rescan" /\ since <= wake + HoldMax + ReadMax
          \/ pc = "rescan" /\ since <= wake + 2 * HoldMax + ReadMax
          \/ pc = "pause" /\ phase = "cycles" /\ now <= wake + Period
          \/ pc = "sleep" /\ phase = "cycles" /\ until <= wake + Period

TimelyInv == WatchdogInv /\ Punctual

\* When the period suffices, every cycle begins the moment its period begins.
LEMMA TimelyInvariant ==
  ASSUME PeriodSuffices
  PROVE  Spec => []TimelyInv
<1>1. Init => Punctual
  BY DEF Init, Punctual
<1>2. WatchdogInv /\ Punctual /\ [Next]_vars => Punctual'
  <2> SUFFICES ASSUME WatchdogInv, Punctual, [Next]_vars
               PROVE  Punctual'
    OBVIOUS
  <2> USE Durations, PeriodSuffices DEF PeriodSuffices, WatchdogInv, Moments, Unfed, WaitsForBus, Goto, Punctual
  <2>1. CASE TakeBusToScan
    BY <2>1 DEF TakeBusToScan
  <2>2. CASE ScanEnds
    BY <2>2 DEF ScanEnds
  <2>3. CASE SettleEnds
    BY <2>3 DEF SettleEnds
  <2>4. CASE CycleBegins
    BY <2>4 DEF CycleBegins, MonoSeconds
  <2>5. CASE TakeBusForCycle
    BY <2>5 DEF TakeBusForCycle
  <2>6. CASE ReadEnds
    BY <2>6 DEF ReadEnds
  <2>7. CASE Record
    BY <2>7 DEF Record
  <2>8. CASE RescanEnds
    BY <2>8 DEF RescanEnds
  <2>9. CASE Pause
    <3>1. TicksLeft \in Int /\ Deadline \in Nat
      BY TicksLeftType
    <3>2. CASE phase = "cycles"
      <4>1. Deadline = wake + Period /\ now <= Deadline
        BY <2>9, <3>2 DEF Pause, Deadline
      <4>2. Deadline - now < HalfRange
        BY <2>9, <3>2, <4>1, TickAssumption DEF Pause
      <4>3. TicksLeft = Deadline - now
        BY <4>1, <4>2, TicksLeftIs
      <4> QED
        BY <2>9, <3>2, <4>1, <4>3 DEF Pause, Awake
    <3>3. CASE phase = "scans"
      BY <2>9, <3>1, <3>3 DEF Pause, Awake
    <3> QED
      BY <3>2, <3>3
  <2>10. CASE SleepEnds
    BY <2>10 DEF SleepEnds
  <2>11. CASE HttpTakes
    BY <2>11 DEF HttpTakes
  <2>12. CASE HttpGives
    BY <2>12 DEF HttpGives
  <2>13. CASE Tick
    BY <2>13 DEF Tick, MayStay
  <2>14. CASE UNCHANGED vars
    BY <2>14 DEF vars
  <2> QED
    BY <2>1, <2>2, <2>3, <2>4, <2>5, <2>6, <2>7, <2>8, <2>9, <2>10, <2>11, <2>12, <2>13, <2>14
    DEF Next, TaskStep, Over
<1> QED
  BY <1>1, <1>2, WatchdogInvariant, PTL DEF Spec, TimelyInv

\* Readings of two cycles never share a (sensor_id, ts) key, for any durations that leave the
\* period long enough.
THEOREM ReadingKeysApart ==
  ASSUME PeriodSuffices
  PROVE  Spec => KeysApart
<1> DEFINE Apart ==
        \A off \in 0 .. Second - 1 :
            \A t1, t2 \in mono' * Second .. (mono' + 2) * Second :
                \A u1 \in t1 - Second .. t1 + Second, u2 \in t2 - Second .. t2 + Second :
                    UnixTime(mono, t1, u1, off) < UnixTime(mono', t2, u2, off)
<1>1. TimelyInv /\ [Next]_vars => [pc = "cycle" /\ pc' = "take" /\ mono > 0 => Apart]_vars
  <2> SUFFICES ASSUME TimelyInv, Next, pc = "cycle", pc' = "take", mono > 0
               PROVE  Apart
    BY DEF vars
  <2>1. CycleBegins
    BY DEF Next, TaskStep, Over, vars, TakeBusToScan, ScanEnds, SettleEnds, TakeBusForCycle, ReadEnds, Record,
           RescanEnds, Pause, SleepEnds, HttpTakes, HttpGives, Tick, Goto
  <2>2. mono' = wake \div Second /\ Period <= wake /\ mono = (wake - Period) \div Second /\ wake \in Nat
    BY <2>1, mono > 0 DEF CycleBegins, MonoSeconds, TimelyInv, WatchdogInv, Moments, Punctual
  <2>3. wake - Period \in Nat /\ (wake - Period) + 4 * Second <= wake
    BY <2>2, Durations, PeriodSuffices DEF PeriodSuffices
  <2>4. mono + 4 <= mono' /\ mono \in Nat /\ mono' \in Nat
    BY <2>2, <2>3, Durations, Division, DivisionGap
  <2>5. mono' * Second \in Nat /\ Second <= mono' * Second
    <3>1. PICK k \in Nat : mono' = k + 1
      BY <2>4
    <3>2. mono' * Second = k * Second + Second /\ k * Second \in Nat
      BY <3>1, Durations
    <3> QED
      BY <3>2, Durations
  <2> QED
    <3> TAKE off \in 0 .. Second - 1
    <3> TAKE t1, t2 \in mono' * Second .. (mono' + 2) * Second
    <3> TAKE u1 \in t1 - Second .. t1 + Second, u2 \in t2 - Second .. t2 + Second
    <3>1. \A a \in Nat, b \in Int : \A c \in a .. b : c \in Nat /\ a <= c
      OBVIOUS
    <3>2. mono' * Second \in Nat /\ (mono' + 2) * Second \in Int /\ 0 \in Nat /\ Second - 1 \in Int
      <4>1. \A m \in Nat : (m + 2) * Second \in Int
        BY Durations
      <4>2. (mono' + 2) * Second \in Int
        BY <2>4, <4>1, Zenon
      <4> QED
        BY <2>5, <4>2, Durations
    <3>3. /\ t1 \in Nat /\ mono' * Second <= t1
          /\ t2 \in Nat /\ mono' * Second <= t2
          /\ off \in Nat
      BY <3>1, <3>2, Zenon
    <3>4. Second <= t1 /\ Second <= t2
      BY <2>5, <3>3, Durations
    <3>5. \A t \in Nat : Second <= t => \A u \in t - Second .. t + Second :
            u \in Nat /\ t <= u + Second /\ u <= t + Second
      BY Durations
    <3>6. /\ u1 \in Nat /\ t1 <= u1 + Second /\ u1 <= t1 + Second
          /\ u2 \in Nat /\ t2 <= u2 + Second /\ u2 <= t2 + Second
      BY <3>3, <3>4, <3>5, Zenon
    <3> QED
      BY <2>4, <3>3, <3>6, TimestampsApart, Zenon
<1> QED
  BY <1>1, TimelyInvariant, PTL DEF Spec, KeysApart

-----------------------------------------------------------------------------
(* Types.                                                                   *)

\* Rounding down keeps the order.
LEMMA DivisionOrder ==
  ASSUME NEW S \in Nat, S >= 1, NEW a \in Nat, NEW b \in Nat, a <= b
  PROVE  a \div S <= b \div S
<1> DEFINE x == a \div S
           y == b \div S
<1>1. x \in Nat /\ y \in Nat /\ S * x <= a /\ b < S * y + S
  BY Division
<1> HIDE DEF x, y
<1>2. S * (y + 1) = S * y + S
  BY <1>1
<1>3. S * x < S * (y + 1)
  BY <1>1, <1>2
<1>4. x < y + 1
  BY <1>1, <1>3, Cancel
<1> QED
  BY <1>1, <1>4 DEF x, y

\* Every moment is one of the modelled time, and every second one of its seconds.
THEOREM TimingTypeCorrect == Spec => []TypeOK
<1>1. 0 \in Time /\ 0 \in Seconds /\ Time \subseteq Nat /\ Seconds \subseteq Nat
  BY Durations, Division DEF Time, Seconds
<1>2. now \in Time => MonoSeconds \in Seconds
  BY Durations, Division, DivisionOrder DEF Time, Seconds, MonoSeconds
<1>3. Init => TypeOK
  BY <1>1, Durations DEF Init, TypeOK, Time
<1>4. TypeOK /\ [Next]_vars => TypeOK'
  <2> SUFFICES ASSUME TypeOK, [Next]_vars
               PROVE  TypeOK'
    OBVIOUS
  <2> USE Durations, <1>1, <1>2 DEF TypeOK, Goto
  <2>1. CASE TakeBusToScan
    BY <2>1 DEF TakeBusToScan
  <2>2. CASE ScanEnds
    BY <2>2 DEF ScanEnds
  <2>3. CASE SettleEnds
    BY <2>3 DEF SettleEnds
  <2>4. CASE CycleBegins
    BY <2>4 DEF CycleBegins
  <2>5. CASE TakeBusForCycle
    BY <2>5 DEF TakeBusForCycle
  <2>6. CASE ReadEnds
    BY <2>6 DEF ReadEnds
  <2>7. CASE Record
    BY <2>7 DEF Record
  <2>8. CASE RescanEnds
    BY <2>8 DEF RescanEnds
  <2>9. CASE Pause
    <3>1. TicksLeft \in Int /\ Deadline \in Nat /\ now \in Nat
      BY TicksLeftType
    <3> QED
      BY <2>9, <3>1 DEF Pause, Awake
  <2>10. CASE SleepEnds
    BY <2>10 DEF SleepEnds
  <2>11. CASE HttpTakes
    BY <2>11 DEF HttpTakes
  <2>12. CASE HttpGives
    BY <2>12 DEF HttpGives
  <2>13. CASE Tick
    BY <2>13 DEF Tick, Time
  <2>14. CASE UNCHANGED vars
    BY <2>14 DEF vars
  <2> QED
    BY <2>1, <2>2, <2>3, <2>4, <2>5, <2>6, <2>7, <2>8, <2>9, <2>10, <2>11, <2>12, <2>13, <2>14
    DEF Next, TaskStep, Over
<1> QED
  BY <1>3, <1>4, PTL DEF Spec

-----------------------------------------------------------------------------
(* On time.                                                                 *)

\* What is left when rounding down.
LEMMA Remainder ==
  ASSUME NEW P \in Nat, P >= 1, NEW a \in Nat
  PROVE  a % P = a - P * (a \div P) /\ a % P \in Nat
  OBVIOUS

\* A multiple leaves nothing.
LEMMA Multiple ==
  ASSUME NEW P \in Nat, P >= 1, NEW k \in Nat
  PROVE  (P * k) % P = 0
<1> DEFINE a == P * k
           q == a \div P
           r == a % P
<1>1. a \in Nat
  OBVIOUS
<1>2. q \in Nat /\ P * q <= a /\ a < P * q + P /\ r = a - P * q
  BY <1>1, Division, Remainder
<1> HIDE DEF q, r
<1>3. P * (q + 1) = P * q + P /\ P * (k + 1) = P * k + P
  BY <1>2
<1>4. P * q < P * (k + 1) /\ P * k < P * (q + 1)
  BY <1>1, <1>2, <1>3
<1>5. q < k + 1 /\ k < q + 1
  BY <1>2, <1>4, Cancel
<1>6. q = k
  BY <1>2, <1>5
<1> QED
  BY <1>1, <1>2, <1>6 DEF r

\* Nothing is a multiple of anything.
LEMMA NothingLeft ==
  ASSUME NEW P \in Nat, P >= 1
  PROVE  0 % P = 0
<1>1. PICK k \in Nat : k = 0
  OBVIOUS
<1>2. (P * k) % P = 0
  BY Multiple
<1>3. P * k = 0
  BY <1>1
<1> QED
  BY <1>2, <1>3, Zenon

\* A period further is a multiple of the period again.
LEMMA OneMore ==
  ASSUME NEW P \in Nat, P >= 1, NEW a \in Nat, a % P = 0
  PROVE  (a + P) % P = 0
<1>1. PICK k \in Nat : k = a \div P
  BY Division
<1>2. a = P * k
  BY <1>1, Remainder
<1>3. a + P = P * (k + 1) /\ k + 1 \in Nat
  BY <1>2
<1>4. (P * (k + 1)) % P = 0
  BY <1>3, Multiple
<1> QED
  BY <1>3, <1>4, Zenon

GridInv ==
    /\ first \in Nat
    /\ phase = "cycles" => pc \notin {"to_scan", "scan"}
    /\ phase = "cycles" /\ pc # "settle" => first <= wake /\ (wake - first) % Period = 0
    /\ pc \in {"cycle", "take", "read", "record", "to_rescan", "rescan", "settle"} => phase = "cycles"

\* If the period suffices for the longest cycle, each begins exactly a multiple of the period after
\* the first: where a pause ends is where its deadline is (Punctual), whatever the tick counter did
\* meanwhile (TicksLeftIs), and a deadline is counted from the one before.
THEOREM CyclesOnTime ==
  ASSUME PeriodSuffices
  PROVE  Spec => []OnTime
<1>1. Init => GridInv
  BY Durations DEF Init, GridInv
<1>2. TimelyInv /\ GridInv /\ [Next]_vars => GridInv'
  <2> SUFFICES ASSUME Moments, GridInv, [Next]_vars
               PROVE  GridInv'
    BY DEF TimelyInv, WatchdogInv
  <2>0. wake \in Nat /\ now \in Nat
    BY DEF Moments
  <2>1. CASE SettleEnds
    <3>1. /\ wake' = now /\ first' = now /\ phase' = phase
          /\ pc' = "cycle" /\ phase = "cycles"
      BY <2>1 DEF SettleEnds, Goto, GridInv
    <3>2. 0 % Period = 0
      BY Durations, NothingLeft, Zenon
    <3>3. wake' - first' = 0 /\ first' <= wake' /\ first' \in Nat
      BY <2>0, <3>1
    <3> QED
      BY <3>1, <3>2, <3>3 DEF GridInv
  <2>2. CASE Pause
    <3>1. CASE UNCHANGED wake /\ pc' = "sleep"
      BY <2>2, <3>1 DEF Pause, GridInv
    <3>2. CASE wake' = Deadline /\ pc' = Awake
      <4>1. UNCHANGED <<phase, first>> /\ first \in Nat /\ pc = "pause"
        BY <2>2 DEF Pause, GridInv
      <4>2. CASE phase = "cycles"
        <5>1. /\ wake' = wake + Period /\ first <= wake /\ (wake - first) % Period = 0
              /\ pc' = "cycle"
          BY <2>2, <3>2, <4>1, <4>2 DEF Deadline, Awake, GridInv
        <5>2. PICK d \in Nat : d = wake - first
          BY <2>0, <4>1, <5>1
        <5>3. (d + Period) % Period = 0
          BY <5>1, <5>2, OneMore, Durations
        <5>4. wake' - first' = d + Period /\ first' <= wake'
          BY <2>0, <4>1, <5>1, <5>2, Durations
        <5> QED
          BY <4>1, <4>2, <5>1, <5>3, <5>4 DEF GridInv
      <4>3. CASE phase # "cycles"
        BY <3>2, <4>1, <4>3 DEF Awake, GridInv
      <4> QED
        BY <4>2, <4>3
    <3> QED
      BY <2>2, <3>1, <3>2 DEF Pause, Goto
  <2>3. CASE ~SettleEnds /\ ~Pause
    <3>1. UNCHANGED <<wake, first>>
      BY <2>3 DEF Next, TaskStep, Over, vars, TakeBusToScan, ScanEnds, CycleBegins, TakeBusForCycle, ReadEnds,
                  Record, RescanEnds, SleepEnds, HttpTakes, HttpGives, Tick
    <3>2. /\ phase' = "cycles" => pc' \notin {"to_scan", "scan"}
          /\ phase' = "cycles" /\ pc' # "settle" => phase = "cycles" /\ pc # "settle"
          /\ pc' \in {"cycle", "take", "read", "record", "to_rescan", "rescan", "settle"} => phase' = "cycles"
      BY <2>3 DEF Next, TaskStep, Over, vars, TakeBusToScan, ScanEnds, CycleBegins, TakeBusForCycle, ReadEnds,
                  Record, RescanEnds, SleepEnds, HttpTakes, HttpGives, Tick, Goto, GridInv
    <3> QED
      BY <3>1, <3>2 DEF GridInv
  <2> QED
    BY <2>1, <2>2, <2>3
<1>3. TimelyInv /\ GridInv => OnTime
  <2> SUFFICES ASSUME TimelyInv, GridInv, pc = "cycle"
               PROVE  now = wake /\ (now - first) % Period = 0
    BY DEF OnTime
  <2>1. now = wake
    BY DEF TimelyInv, Punctual
  <2>2. (wake - first) % Period = 0
    BY DEF GridInv
  <2> QED
    BY <2>1, <2>2
<1> QED
  BY <1>1, <1>2, <1>3, TimelyInvariant, PTL DEF Spec

-----------------------------------------------------------------------------
(* The living task.                                                         *)

\* Two moments less than A seconds and one apart are less than A seconds apart rounded down.
LEMMA DivisionNear ==
  ASSUME NEW S \in Nat, S >= 1, NEW A \in Nat, NEW a \in Nat, NEW b \in Nat, NEW d \in Nat,
         b <= a + d, d + S <= S * A
  PROVE  b \div S - a \div S < A
<1> DEFINE x == a \div S
           y == b \div S
<1>1. x \in Nat /\ y \in Nat /\ S * y <= b /\ a < S * x + S
  BY Division
<1> HIDE DEF x, y
<1>2. S * (x + A) = S * x + S * A /\ S * A \in Nat
  BY <1>1
<1>3. S * y < S * (x + A)
  BY <1>1, <1>2
<1>4. y < x + A
  BY <1>1, <1>3, Cancel
<1> QED
  BY <1>1, <1>4 DEF x, y

\* A cycle is recorded within its period, and within the limit of sensor_alive() from the
\* beginning of one to the end of the next; the first one does not begin in the second of boot.
AliveSuffices ==
    /\ HoldMax + ReadMax < Period
    /\ Second <= Settle
    /\ 2 * Period + Second <= Second * AliveSeconds

StampedBefore ==
    \/ wake = first
    \/ first + Period <= wake /\ stamp = (wake - Period) \div Second

StampInv ==
    /\ first \in Nat
    /\ phase = "scans" \/ pc = "settle" => first = 0
    /\ phase = "cycles" /\ pc # "settle" => Second <= first /\ first <= wake
    /\ pc \in {"cycle", "take", "read", "record"} => StampedBefore
    /\ phase = "cycles" /\ pc \in {"to_rescan", "rescan", "pause", "sleep"} => stamp = wake \div Second

\* From the end of the first cycle on sensor_alive() holds at every moment, if the period and its
\* limit suffice.
THEOREM CyclingTaskAlive ==
  ASSUME PeriodSuffices, AliveSuffices
  PROVE  Spec => []AliveWhileCycling
<1>1. Init => StampInv
  BY DEF Init, StampInv
<1>2. TimelyInv /\ StampInv /\ [Next]_vars => StampInv'
  <2> SUFFICES ASSUME WatchdogInv, Punctual, StampInv, [Next]_vars
               PROVE  StampInv'
    BY DEF TimelyInv
  <2> USE Durations, AliveSuffices DEF AliveSuffices, WatchdogInv, Moments, Unfed, Goto, Punctual, StampInv, StampedBefore
  <2>1. CASE TakeBusToScan
    BY <2>1 DEF TakeBusToScan
  <2>2. CASE ScanEnds
    BY <2>2 DEF ScanEnds
  <2>3. CASE SettleEnds
    <3>1. /\ pc' = "cycle" /\ wake' = now /\ first' = now /\ phase' = phase /\ now = since + Settle
          /\ phase = "cycles"
      BY <2>3 DEF SettleEnds
    <3>2. Second <= now /\ now \in Nat
      BY <3>1
    <3>3. first' \in Nat /\ Second <= first' /\ first' <= wake' /\ wake' = first'
      BY <3>1, <3>2
    <3>4. phase' = "cycles" /\ pc' # "settle" /\ pc' \notin {"to_rescan", "rescan", "pause", "sleep"}
      BY <3>1
    <3>5. StampedBefore'
      BY <3>3, Zenon
    <3> HIDE DEF StampedBefore
    <3> QED
      BY <3>3, <3>4, <3>5, Zenon
  <2>4. CASE CycleBegins
    BY <2>4 DEF CycleBegins
  <2>5. CASE TakeBusForCycle
    BY <2>5 DEF TakeBusForCycle
  <2>6. CASE ReadEnds
    BY <2>6 DEF ReadEnds
  <2>7. CASE Record
    BY <2>7 DEF Record
  <2>8. CASE RescanEnds
    BY <2>8 DEF RescanEnds
  <2>9. CASE Pause
    <3>1. CASE UNCHANGED wake /\ pc' = "sleep"
      BY <2>9, <3>1 DEF Pause
    <3>2. CASE wake' = Deadline /\ pc' = Awake
      <4>1. CASE phase = "cycles"
        <5>1. wake' = wake + Period /\ wake' - Period = wake /\ pc' = "cycle"
          BY <3>2, <4>1 DEF Deadline, Awake
        <5> QED
          BY <2>9, <4>1, <5>1 DEF Pause
      <4>2. CASE phase = "scans"
        BY <2>9, <3>2, <4>2 DEF Pause, Awake
      <4> QED
        BY <4>1, <4>2
    <3> QED
      BY <2>9, <3>1, <3>2 DEF Pause
  <2>10. CASE SleepEnds
    BY <2>10 DEF SleepEnds
  <2>11. CASE HttpTakes
    BY <2>11 DEF HttpTakes
  <2>12. CASE HttpGives
    BY <2>12 DEF HttpGives
  <2>13. CASE Tick
    BY <2>13 DEF Tick, MayStay
  <2>14. CASE UNCHANGED vars
    BY <2>14 DEF vars
  <2> QED
    BY <2>1, <2>2, <2>3, <2>4, <2>5, <2>6, <2>7, <2>8, <2>9, <2>10, <2>11, <2>12, <2>13, <2>14
    DEF Next, TaskStep, Over
<1>3. TimelyInv /\ StampInv => AliveWhileCycling
  <2> SUFFICES ASSUME WatchdogInv, Punctual, StampInv, first > 0, now >= first + Period
               PROVE  stamp > 0 /\ now \div Second - stamp < AliveSeconds
    BY DEF TimelyInv, AliveWhileCycling, Alive, MonoSeconds
  <2>1. phase = "cycles" /\ pc # "settle" /\ wake \in Nat /\ now \in Nat /\ first \in Nat
    BY DEF StampInv, WatchdogInv, Moments
  <2>2. Second <= first /\ first <= wake
    BY <2>1 DEF StampInv
  <2>3. AliveSeconds \in Nat /\ 2 * Period \in Nat /\ 2 * Period + Second <= Second * AliveSeconds
    BY Durations, DurationAssumption, AliveSuffices DEF AliveSuffices
  <2>4. \E m \in Nat : Second <= m /\ stamp = m \div Second /\ now <= m + 2 * Period
    <3>1. CASE pc \in {"cycle", "take", "read", "record"}
      <4>1. now < wake + Period
        BY <2>1, <3>1, Durations, AliveSuffices, PeriodSuffices
        DEF AliveSuffices, PeriodSuffices, WatchdogInv, Moments, Unfed, Punctual
      <4>2. wake # first
        BY <2>1, <4>1, Durations
      <4>3. first + Period <= wake /\ stamp = (wake - Period) \div Second
        BY <3>1, <4>2 DEF StampInv, StampedBefore
      <4>4. wake - Period \in Nat /\ Second <= wake - Period /\ now <= (wake - Period) + 2 * Period
        BY <2>1, <2>2, <4>1, <4>3, Durations
      <4> QED
        BY <4>3, <4>4
    <3>2. CASE pc \notin {"cycle", "take", "read", "record"}
      <4>1. pc \in {"to_rescan", "rescan", "pause", "sleep"}
        BY <2>1, <3>2, Zenon DEF Punctual
      <4>2. stamp = wake \div Second
        BY <2>1, <4>1 DEF StampInv
      <4>3. now <= wake + 2 * Period
        BY <2>1, <4>1, Durations, PeriodSuffices
        DEF PeriodSuffices, WatchdogInv, Moments, Unfed, Punctual
      <4>4. Second <= wake
        BY <2>1, <2>2, Durations
      <4> QED
        <5> USE <2>1
        <5> WITNESS wake \in Nat
        <5> QED
          BY <4>2, <4>3, <4>4
    <3> QED
      BY <3>1, <3>2
  <2>5. PICK m \in Nat : Second <= m /\ stamp = m \div Second /\ now <= m + 2 * Period
    BY <2>4
  <2>6. now \div Second - stamp < AliveSeconds
    BY <2>1, <2>3, <2>5, Durations, DivisionNear
  <2>7. stamp > 0
    <3>1. Second \div Second <= m \div Second
      BY <2>5, Durations, DivisionOrder
    <3>2. Second \div Second = 1
      BY Durations
    <3>3. m \div Second \in Nat
      BY Durations, Division
    <3> QED
      BY <2>5, <3>1, <3>2, <3>3
  <2> QED
    BY <2>6, <2>7
<1> QED
  BY <1>1, <1>2, <1>3, TimelyInvariant, PTL DEF Spec
=============================================================================
