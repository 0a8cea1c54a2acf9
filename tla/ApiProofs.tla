----------------------------- MODULE ApiProofs -----------------------------
(***************************************************************************)
(* Theorems about Api for any number of sensors, slots and failures, any   *)
(* sizes of the rings, and any length of time.                             *)
(***************************************************************************)
EXTENDS Api, FiniteSetTheorems, SequenceTheorems, WellFoundedInduction, TLAPS

HistoryRing == INSTANCE RingProofs WITH Value <- Row, Size <- HistorySize,
                                        buf <- hbuf, head <- hhead, count <- hcount, log <- columns
EventsRing  == INSTANCE RingProofs WITH Value <- Event, Size <- EventsSize,
                                        buf <- ebuf, head <- ehead, count <- ecount, log <- published

-----------------------------------------------------------------------------
(* Types.                                                                   *)

\* What is constant has its types.
LEMMA Constants ==
    /\ Time \subseteq Nat /\ 0 \in Time /\ MaxTime \in Nat /\ MaxFaults \in Nat
    /\ MaxDevices \in Nat /\ FailReads \in Nat \ {0}
    /\ HistorySize \in Nat \ {0} /\ EventsSize \in Nat \ {0}
    /\ NoRow \in Row /\ NoEvent \in Event
  BY ApiAssumption DEF Time, NoRow, Row, NoEvent, Event

\* What the sensor task tells of itself is an event.
LEMMA EventTypes ==
    ASSUME NEW t \in {"sensors", "lost", "back", "mqtt"}, NEW w \in Sensor \cup {NoId},
           NEW n \in 0 .. MaxDevices, NEW p \in 0 .. MaxDevices
    PROVE  /\ [type |-> t, who |-> w, count |-> n, prev |-> p] \in Event
           /\ <<[type |-> t, who |-> w, count |-> n, prev |-> p]>> \in Seq(Event)
           /\ Len(<<[type |-> t, who |-> w, count |-> n, prev |-> p]>>) <= 1
  BY DEF Event

\* Series are sent after the header only: a document that begins finds none.
Unsent == rpc["httpd"] # "series" => series = <<>>

TypeInv == TypeOK /\ Unsent

\* The initial state has the types.
LEMMA ApiTypeInit == Init => TypeOK
<1> SUFFICES ASSUME Init PROVE TypeOK
  OBVIOUS
<1> USE Constants DEF Init
<1>1. now \in Time /\ faults \in 0 .. MaxFaults /\ count \in 0 .. MaxDevices
  OBVIOUS
<1>2. ids \in [Slot -> Sensor \cup {NoId}]
  OBVIOUS
<1>3. state \in [Slot -> [valid: BOOLEAN, mono: Time, fails: 0 .. FailReads, lost: BOOLEAN]]
  OBVIOUS
<1>4. History!TypeOK
  BY DEF History!TypeOK
<1>5. Events!TypeOK
  BY DEF Events!TypeOK
<1>6. /\ pc \in {"scan", "cycle", "record"} /\ slot \in 0 .. MaxDevices /\ cyc \in 0 .. MaxDevices
      /\ mono \in Time /\ row \in Row /\ sampled \in Time /\ newest \in Time
  OBVIOUS
<1>7. event \in Seq(Event) /\ Len(event) <= 1
  OBVIOUS
<1>8. /\ rpc \in [Reader -> {"idle", "status", "history", "series", "done"}]
      /\ total \in [Reader -> 0 .. MaxDevices]
      /\ list \in [Reader -> Seq(Status)]
      /\ at \in [Reader -> Time]
  OBVIOUS
<1>9. /\ header \in Header
      /\ series \in Seq(Seq(Time \cup {NoReading})) /\ Len(series) <= total["httpd"]
  BY DEF Header, Reader
<1> QED
  BY <1>1, <1>2, <1>3, <1>4, <1>5, <1>6, <1>7, <1>8, <1>9 DEF TypeOK

\* Adding a row keeps the history ring's types.
LEMMA HistoryAddType ==
    ASSUME History!TypeOK, NEW r \in Row, History!Add(r)
    PROVE  History!TypeOK'
<1>1. HistoryRing!TypeOK /\ HistoryRing!Add(r)
  BY DEF History!TypeOK, History!Add, HistoryRing!TypeOK, HistoryRing!Add
<1>2. HistoryRing!TypeOK'
  BY <1>1, Constants, HistoryRing!AddType
<1> QED
  BY <1>2 DEF History!TypeOK, HistoryRing!TypeOK

\* Adding an event keeps the events ring's types.
LEMMA EventsAddType ==
    ASSUME Events!TypeOK, NEW e \in Event, Events!Add(e)
    PROVE  Events!TypeOK'
<1>1. EventsRing!TypeOK /\ EventsRing!Add(e)
  BY DEF Events!TypeOK, Events!Add, EventsRing!TypeOK, EventsRing!Add
<1>2. EventsRing!TypeOK'
  BY <1>1, Constants, EventsRing!AddType
<1> QED
  BY <1>2 DEF Events!TypeOK, EventsRing!TypeOK

\* What history_copy() gives of a slot is a sequence of readings, no more than asked for.
LEMMA CopyType ==
    ASSUME History!TypeOK, NEW i \in Slot, NEW max \in 0 .. HistorySize
    PROVE  Copy(i, max) \in Seq(Time \cup {NoReading})
<1> DEFINE n == History!Copied(max)
           start == (hhead + HistorySize - n) % HistorySize
<1>1. n \in 0 .. HistorySize
  BY Constants DEF History!TypeOK, History!Copied
<1>2. ASSUME NEW k \in 1 .. n
      PROVE  hbuf[(start + (k - 1)) % HistorySize] \in Row
  <2>1. start + (k - 1) \in Int
    BY <1>1, Constants DEF History!TypeOK
  <2>2. PICK a \in Int : a = start + (k - 1)
    BY <2>1
  <2>3. a % HistorySize \in 0 .. HistorySize - 1
    BY Constants
  <2> QED
    BY <2>2, <2>3 DEF History!TypeOK
<1> DEFINE column == History!OldestFirst(max)
<1>3. column = [k \in 1 .. n |-> hbuf[(start + (k - 1)) % HistorySize]]
  BY DEF History!OldestFirst
<1> HIDE DEF n, start, column
<1>4. column \in [1 .. n -> Row]
  BY <1>2, <1>3
<1>5. Copy(i, max) = [k \in 1 .. n |-> column[k][i]]
  BY <1>4, Zenon DEF Copy, column
<1>6. Copy(i, max) \in [1 .. n -> Time \cup {NoReading}]
  BY <1>4, <1>5 DEF Row
<1> QED
  BY <1>1, <1>6

\* Every step keeps the types.
LEMMA ApiTypeStep == TypeInv /\ [Next]_vars => TypeInv'
<1> SUFFICES ASSUME TypeOK, Unsent, [Next]_vars PROVE TypeOK' /\ Unsent'
  BY DEF TypeInv
<1> USE Constants DEF TypeOK, sensorVars, historyVars, eventsVars, readerVars
<1>1. CASE Tick
  BY <1>1 DEF Tick, Time, Unsent, History!TypeOK, Events!TypeOK
<1>2. ASSUME NEW s \in Sensor, NameSlot(s) PROVE TypeOK' /\ Unsent'
  BY <1>2 DEF NameSlot, Unsent, History!TypeOK, Events!TypeOK
<1>3. CASE CountSlot
  <2>1. count' \in 0 .. MaxDevices
    BY <1>3 DEF CountSlot
  <2> QED
    BY <1>3, <2>1 DEF CountSlot, Unsent, History!TypeOK, Events!TypeOK
<1>4. CASE ScanEnds
  <2>1. event' \in Seq(Event) /\ Len(event') <= 1
    <3>1. PICK again \in count - cyc .. (IF count = 0 THEN 0 ELSE MaxDevices) :
             event' = IF again > 0 /\ again # cyc
                      THEN <<[type |-> "sensors", who |-> NoId, count |-> again, prev |-> cyc]>>
                      ELSE <<>>
      BY <1>4 DEF ScanEnds
    <3>2. CASE again > 0 /\ again # cyc
      <4>1. again \in 0 .. MaxDevices /\ cyc \in 0 .. MaxDevices
        BY <3>2
      <4>2. event' = <<[type |-> "sensors", who |-> NoId, count |-> again, prev |-> cyc]>>
        BY <3>1, <3>2
      <4>3. NoId \in Sensor \cup {NoId} /\ "sensors" \in {"sensors", "lost", "back", "mqtt"}
        OBVIOUS
      <4> QED
        BY <4>1, <4>2, <4>3, EventTypes, Zenon
    <3>3. CASE ~(again > 0 /\ again # cyc)
      BY <3>1, <3>3
    <3> QED
      BY <3>2, <3>3
  <2> QED
    BY <1>4, <2>1 DEF ScanEnds, Unsent, History!TypeOK, Events!TypeOK
<1>5. CASE CycleBegins
  <2>1. faults' \in 0 .. MaxFaults
    BY <1>5 DEF CycleBegins, Interfere
  <2>2. mono' \in Time /\ cyc' \in 0 .. MaxDevices /\ slot' \in 0 .. MaxDevices /\ row' \in Row
    BY <1>5 DEF CycleBegins
  <2>3. pc' \in {"scan", "cycle", "record"}
    BY <1>5 DEF CycleBegins
  <2>4. UNCHANGED <<now, ids, count, state, sampled, event>>
    BY <1>5 DEF CycleBegins
  <2>5. UNCHANGED historyVars /\ UNCHANGED eventsVars /\ UNCHANGED readerVars
    BY <1>5 DEF CycleBegins
  <2>6. History!TypeOK' /\ Events!TypeOK' /\ newest' \in Time
    BY <2>5 DEF History!TypeOK, Events!TypeOK
  <2> QED
    BY <2>1, <2>2, <2>3, <2>4, <2>5, <2>6 DEF Unsent
<1>6. ASSUME NEW ok \in BOOLEAN, RecordRead(ok) PROVE TypeOK' /\ Unsent'
  <2>1. slot \in Slot /\ slot' \in 0 .. MaxDevices
    BY <1>6 DEF RecordRead, Slot
  <2>2. faults' \in 0 .. MaxFaults
    <3>1. faults' = faults \/ Interfere
      BY <1>6, Zenon DEF RecordRead
    <3> QED
      BY <3>1 DEF Interfere
  <2> DEFINE fails == IF ok THEN 0 ELSE IF state[slot].fails < FailReads THEN state[slot].fails + 1 ELSE FailReads
             lost  == ~ok /\ (state[slot].lost \/ fails = FailReads)
             kind  == IF lost THEN "lost" ELSE "back"
  <2>3. fails \in 0 .. FailReads /\ lost \in BOOLEAN /\ kind \in {"lost", "back"}
    BY <2>1
  <2>4. /\ state' = [state EXCEPT ![slot] =
                        [valid |-> ok, mono |-> IF ok THEN mono ELSE state[slot].mono, fails |-> fails, lost |-> lost]]
        /\ event' = IF lost = state[slot].lost THEN <<>>
                    ELSE <<[type |-> kind, who |-> ids[slot], count |-> 0, prev |-> 0]>>
        /\ row' = IF ok THEN [row EXCEPT ![slot] = mono] ELSE row
    BY <1>6, Zenon DEF RecordRead
  <2> HIDE DEF fails, lost, kind
  <2>5. state' \in [Slot -> [valid: BOOLEAN, mono: Time, fails: 0 .. FailReads, lost: BOOLEAN]]
    BY <2>1, <2>3, <2>4
  <2>6. event' \in Seq(Event) /\ Len(event') <= 1
    <3>1. ids[slot] \in Sensor \cup {NoId} /\ 0 \in 0 .. MaxDevices
      BY <2>1
    <3>2. CASE lost = state[slot].lost
      BY <2>4, <3>2
    <3>3. CASE lost # state[slot].lost
      <4>1. kind \in {"sensors", "lost", "back", "mqtt"}
        BY <2>3
      <4>2. event' = <<[type |-> kind, who |-> ids[slot], count |-> 0, prev |-> 0]>>
        BY <2>4, <3>3, Zenon
      <4> QED
        BY <4>1, <4>2, <3>1, EventTypes, Zenon
    <3> QED
      BY <3>2, <3>3
  <2>7. row' \in Row
    BY <2>1, <2>4 DEF Row
  <2> QED
    BY <1>6, <2>1, <2>2, <2>5, <2>6, <2>7 DEF RecordRead, Unsent, History!TypeOK, Events!TypeOK
<1>7. CASE PublishEvent
  <2>1. event[1] \in Event
    BY <1>7 DEF PublishEvent
  <2>2. Events!TypeOK'
    BY <1>7, <2>1, EventsAddType DEF PublishEvent
  <2>3. event' \in Seq(Event) /\ Len(event') <= 1
    BY <1>7 DEF PublishEvent
  <2> QED
    BY <1>7, <2>2, <2>3 DEF PublishEvent, Unsent, History!TypeOK
<1>8. CASE CycleEnds
  <2>1. History!TypeOK' /\ newest' \in Time /\ sampled' \in Time
    <3>1. CASE History!Add(row) /\ newest' = now /\ sampled' = mono
      BY <3>1, HistoryAddType
    <3>2. CASE UNCHANGED <<historyVars, sampled>>
      BY <3>2 DEF History!TypeOK
    <3> QED
      BY <1>8, <3>1, <3>2 DEF CycleEnds
  <2> QED
    BY <1>8, <2>1 DEF CycleEnds, Unsent, Events!TypeOK
<1>9. CASE OnConnection
  <2>1. Events!TypeOK'
    BY <1>9, EventsAddType DEF OnConnection
  <2> QED
    BY <1>9, <2>1 DEF OnConnection, Interfere, Unsent, History!TypeOK
<1> SUFFICES ASSUME \/ \E c \in Reader, document \in {"status", "history"} : Begins(c, document)
                    \/ \E c \in Reader : CopySlot(c) \/ TimeStatus(c) \/ Ends(c)
                    \/ SendHeader \/ SendSeries \/ UNCHANGED vars
             PROVE  TypeOK' /\ Unsent'
  BY <1>1, <1>2, <1>3, <1>4, <1>5, <1>6, <1>7, <1>8, <1>9 DEF Next
<1>10. /\ now' \in Time /\ faults' \in 0 .. MaxFaults
       /\ UNCHANGED sensorVars /\ History!TypeOK' /\ newest' \in Time /\ Events!TypeOK'
  BY DEF Begins, CopySlot, TimeStatus, Ends, SendHeader, SendSeries, vars, History!TypeOK, Events!TypeOK
<1> DEFINE Readers ==
       /\ rpc \in [Reader -> {"idle", "status", "history", "series", "done"}]
       /\ total \in [Reader -> 0 .. MaxDevices]
       /\ list \in [Reader -> Seq(Status)]
       /\ at \in [Reader -> Time]
       /\ header \in Header
       /\ series \in Seq(Seq(Time \cup {NoReading})) /\ Len(series) <= total["httpd"]
       /\ Unsent
<1>11. Readers
  OBVIOUS
<1>12. Readers' => TypeOK' /\ Unsent'
  BY <1>10
<1>13. ids \in [Slot -> Sensor \cup {NoId}] /\ count \in 0 .. MaxDevices /\ now \in Time /\ newest \in Time
  OBVIOUS
<1>14. state \in [Slot -> [valid: BOOLEAN, mono: Time, fails: 0 .. FailReads, lost: BOOLEAN]]
  OBVIOUS
<1>15. History!TypeOK
  OBVIOUS
<1>r. "httpd" \in Reader
  BY DEF Reader
<1> HIDE DEF TypeOK
<1>16. ASSUME NEW c \in Reader, NEW document \in {"status", "history"}, Begins(c, document)
       PROVE  Readers'
  BY <1>r, <1>11, <1>13, <1>16 DEF Begins, Unsent
<1>17. ASSUME NEW c \in Reader, CopySlot(c) PROVE Readers'
  <2> DEFINE i == Len(list[c])
             status == [id |-> ids[i], valid |-> state[i].valid, mono |-> state[i].mono, lost |-> state[i].lost]
  <2>1. i \in Slot
    BY <1>r, <1>11, <1>17 DEF CopySlot, Slot
  <2>2. status \in Status
    BY <2>1, <1>13, <1>14 DEF Status
  <2>3. list' = [list EXCEPT ![c] = Append(@, status)]
    BY <1>17 DEF CopySlot, Listed
  <2> HIDE DEF status
  <2>4. list' \in [Reader -> Seq(Status)]
    BY <1>r, <1>11, <2>2, <2>3
  <2> QED
    BY <1>r, <1>11, <1>17, <2>4 DEF CopySlot, Unsent
<1>18. ASSUME NEW c \in Reader, TimeStatus(c) PROVE Readers'
  BY <1>r, <1>11, <1>13, <1>18 DEF TimeStatus, Unsent
<1>19. CASE SendHeader
  <2>1. [n |-> History!Copied(HistorySize), newest |-> newest, taken |-> Len(columns)] \in Header
    BY <1>13, <1>15 DEF History!TypeOK, History!Copied, Header
  <2>2. header' \in Header
    BY <1>r, <1>11, <1>19, <2>1 DEF SendHeader
  <2> QED
    <3>1. UNCHANGED total /\ UNCHANGED list /\ UNCHANGED at /\ UNCHANGED series
          /\ rpc' = [rpc EXCEPT !["httpd"] = "series"]
      BY <1>19 DEF SendHeader
    <3>2. rpc' \in [Reader -> {"idle", "status", "history", "series", "done"}]
          /\ rpc'["httpd"] = "series"
      BY <1>r, <1>11, <3>1
    <3> QED
      BY <1>11, <1>12, <2>2, <3>1, <3>2, Zenon DEF Unsent
<1>20. CASE SendSeries
  <2>1. Len(series) \in Slot /\ Len(series) < total["httpd"]
    BY <1>r, <1>11, <1>20 DEF SendSeries, Slot
  <2>2. Copy(Len(series), HistorySize) \in Seq(Time \cup {NoReading})
    BY <1>15, <2>1, CopyType
  <2>3. PICK one \in Seq(Time \cup {NoReading}) : series' = Append(series, one)
    BY <1>20, <2>2 DEF SendSeries
  <2>4. series' \in Seq(Seq(Time \cup {NoReading})) /\ Len(series') = Len(series) + 1
    BY <1>r, <1>11, <2>3
  <2> QED
    <3>1. UNCHANGED rpc /\ UNCHANGED total /\ UNCHANGED list /\ UNCHANGED at
          /\ UNCHANGED header /\ rpc["httpd"] = "series"
      BY <1>20 DEF SendSeries
    <3>2. Len(series') <= total["httpd"]
      BY <1>r, <1>11, <2>1, <2>4
    <3> QED
      BY <1>11, <1>12, <2>4, <3>1, <3>2, Zenon DEF Unsent
<1>21. ASSUME NEW c \in Reader, Ends(c) PROVE Readers'
  <2>1. <<>> \in Seq(Status) /\ <<>> \in Seq(Seq(Time \cup {NoReading})) /\ Len(<<>>) = 0
        /\ [n |-> 0, newest |-> 0, taken |-> 0] \in Header
    BY DEF Header
  <2>2. /\ total' \in [Reader -> 0 .. MaxDevices] /\ at' \in [Reader -> Time]
        /\ list' \in [Reader -> Seq(Status)]
        /\ rpc' \in [Reader -> {"idle", "status", "history", "series", "done"}]
    BY <1>r, <1>11, <1>21, <2>1 DEF Ends
  <2>3. CASE c = "httpd"
    BY <1>r, <1>11, <1>21, <2>1, <2>2, <2>3 DEF Ends, Unsent
  <2>4. CASE c # "httpd"
    BY <1>r, <1>11, <1>21, <2>2, <2>4 DEF Ends, Unsent
  <2> QED
    BY <2>3, <2>4
<1>22. CASE UNCHANGED vars
  <2>1. UNCHANGED rpc /\ UNCHANGED total /\ UNCHANGED list /\ UNCHANGED at
        /\ UNCHANGED header /\ UNCHANGED series
    BY <1>22 DEF vars
  <2> QED
    BY <1>11, <1>12, <2>1, Zenon DEF Unsent
<1> QED
  BY <1>12, <1>16, <1>17, <1>18, <1>19, <1>20, <1>21, <1>22

\* Type correctness: what the tasks, the rings and the documents hold has its type, whoever
\* interrupts whom (api.c, history.c, events.c, sensor_snapshot and record_read of sensor.c).
THEOREM ApiTypeCorrect == Spec => []TypeOK
<1>1. Init => TypeInv
  <2>1. Init => Unsent
    BY DEF Init, Unsent
  <2> QED
    BY <2>1, ApiTypeInit DEF TypeInv
<1>2. TypeInv => TypeOK
  BY DEF TypeInv
<1> QED
  BY <1>1, <1>2, ApiTypeStep, PTL DEF Spec

-----------------------------------------------------------------------------
(* The rings.                                                               *)

RingsInv == HistoryRing!RingInv /\ EventsRing!RingInv

\* Both rings are empty at first.
LEMMA RingsInit == Init => RingsInv
<1> SUFFICES ASSUME Init PROVE RingsInv
  OBVIOUS
<1>1. HistoryRing!Init /\ EventsRing!Init
  BY Constants DEF Init, HistoryRing!Init, EventsRing!Init
<1> QED
  BY <1>1, Constants, HistoryRing!RingInit, EventsRing!RingInit DEF RingsInv

\* A step that leaves a ring alone keeps its invariant.
LEMMA RingsAlone ==
    /\ HistoryRing!RingInv /\ UNCHANGED historyVars => HistoryRing!RingInv'
    /\ EventsRing!RingInv /\ UNCHANGED eventsVars => EventsRing!RingInv'
<1>1. HistoryRing!RingInv /\ UNCHANGED historyVars => HistoryRing!RingInv'
  BY DEF historyVars, HistoryRing!RingInv, HistoryRing!TypeOK, HistoryRing!Remembered
<1>2. EventsRing!RingInv /\ UNCHANGED eventsVars => EventsRing!RingInv'
  BY DEF eventsVars, EventsRing!RingInv, EventsRing!TypeOK, EventsRing!Remembered
<1> QED
  BY <1>1, <1>2

\* What a step may do to the rings: leave both alone, or add one entry to one of them.
LEMMA RingSteps ==
    ASSUME TypeInv, [Next]_vars
    PROVE  \/ UNCHANGED historyVars /\ UNCHANGED eventsVars
           \/ History!Add(row) /\ newest' = now /\ mono <= mono' /\ now' = now /\ UNCHANGED eventsVars
           \/ (\E e \in Event : Events!Add(e)) /\ UNCHANGED historyVars
<1>1. CASE PublishEvent
  <2>1. event[1] \in Event
    BY <1>1 DEF TypeInv, TypeOK, PublishEvent
  <2> QED
    BY <1>1, <2>1 DEF PublishEvent
<1>2. CASE CycleEnds
  <2>1. mono \in Nat
    BY Constants DEF TypeInv, TypeOK
  <2> QED
    BY <1>2, <2>1 DEF CycleEnds
<1>3. CASE OnConnection
  BY <1>3, Constants DEF OnConnection
<1>4. CASE ~PublishEvent /\ ~CycleEnds /\ ~OnConnection
  BY <1>4 DEF Next, vars, Tick, NameSlot, CountSlot, ScanEnds, CycleBegins, RecordRead, Begins,
              CopySlot, TimeStatus, SendHeader, SendSeries, Ends
<1> QED
  BY <1>1, <1>2, <1>3, <1>4

\* Every step keeps the rings.
LEMMA RingsStep == TypeInv /\ RingsInv /\ [Next]_vars => RingsInv'
<1> SUFFICES ASSUME TypeInv, RingsInv, [Next]_vars PROVE RingsInv'
  OBVIOUS
<1>1. HistoryRing!RingInv /\ EventsRing!RingInv
  BY DEF RingsInv
<1>2. CASE UNCHANGED historyVars /\ UNCHANGED eventsVars
  BY <1>1, <1>2, RingsAlone DEF RingsInv
<1>3. CASE History!Add(row) /\ UNCHANGED eventsVars
  <2>1. row \in Row
    BY DEF TypeInv, TypeOK
  <2>2. HistoryRing!Add(row)
    BY <1>3 DEF History!Add, HistoryRing!Add
  <2>3. HistoryRing!RingInv'
    BY <1>1, <2>1, <2>2, Constants, HistoryRing!AddKeeps
  <2> QED
    BY <1>1, <1>3, <2>3, RingsAlone DEF RingsInv
<1>4. CASE (\E e \in Event : Events!Add(e)) /\ UNCHANGED historyVars
  <2>1. PICK e \in Event : Events!Add(e)
    BY <1>4
  <2>2. EventsRing!Add(e)
    BY <2>1 DEF Events!Add, EventsRing!Add
  <2>3. EventsRing!RingInv'
    BY <1>1, <2>2, Constants, EventsRing!AddKeeps
  <2> QED
    BY <1>1, <1>4, <2>3, RingsAlone DEF RingsInv
<1> QED
  BY <1>2, <1>3, <1>4, RingSteps

\* What is copied from the rings are their newest entries.
LEMMA RingsCopy == RingsInv => RingsKeepNewest
<1> SUFFICES ASSUME RingsInv PROVE RingsKeepNewest
  OBVIOUS
<1>1. HistoryRing!KeepsNewest /\ EventsRing!KeepsNewest
  BY Constants, HistoryRing!RingCopies, EventsRing!RingCopies DEF RingsInv
<1>2. History!KeepsNewest
  BY <1>1 DEF History!KeepsNewest, HistoryRing!KeepsNewest, History!OldestFirst, HistoryRing!OldestFirst,
              History!NewestFirst, HistoryRing!NewestFirst, History!Copied, HistoryRing!Copied
<1>3. Events!KeepsNewest
  BY <1>1 DEF Events!KeepsNewest, EventsRing!KeepsNewest, Events!OldestFirst, EventsRing!OldestFirst,
              Events!NewestFirst, EventsRing!NewestFirst, Events!Copied, EventsRing!Copied
<1> QED
  BY <1>2, <1>3 DEF RingsKeepNewest

\* Whatever the sensors and the connection do, both rings give their newest entries, in order
\* and none twice (history_add and history_copy, events_publish and events_recent).
THEOREM RingsAlwaysKeepNewest == Spec => []RingsKeepNewest
<1>1. Init => TypeInv
  BY ApiTypeInit DEF TypeInv, Unsent, Init
<1> QED
  BY <1>1, ApiTypeStep, RingsInit, RingsStep, RingsCopy, PTL DEF Spec

-----------------------------------------------------------------------------
(* The status documents.                                                    *)

\* No reading is from the future, a valid one has a time, and a counted slot has a name.
TaskInv ==
    /\ mono <= now
    /\ pc = "record" => mono > 0
    /\ cyc <= count
    /\ \A i \in Slot : /\ state[i].mono <= now
                       /\ state[i].valid => state[i].mono > 0
                       /\ i < count => ids[i] \in Sensor

\* The part of a list that is copied: of slots that were counted before, at times gone by.
ListSound(c) ==
    /\ total[c] <= count
    /\ Len(list[c]) <= total[c]
    /\ rpc[c] \notin {"status", "done"} => list[c] = <<>>
    /\ rpc[c] = "done" => Len(list[c]) = total[c]
    /\ \A k \in 1 .. Len(list[c]) :
          /\ list[c][k].id = ids[k - 1] /\ ids[k - 1] \in Sensor
          /\ list[c][k].mono <= now
          /\ list[c][k].valid => list[c][k].mono > 0
          /\ rpc[c] = "done" => list[c][k].mono <= at[c]

ListInv == \A c \in Reader : ListSound(c)

\* The sensor task keeps its part, and whatever it does lists remain true.
LEMMA TaskStep ==
    ASSUME TypeInv, TaskInv, [Next]_vars
    PROVE  /\ TaskInv'
           /\ now <= now' /\ count <= count'
           /\ \A i \in Slot : i < count => ids'[i] = ids[i]
<1> USE Constants DEF TypeInv, TypeOK, TaskInv, sensorVars
<1>1. CASE Tick
  <2>1. now' = now + 1 /\ UNCHANGED <<ids, count, state, pc, cyc, mono>>
    BY <1>1 DEF Tick
  <2>2. now \in Nat /\ mono \in Nat /\ \A i \in Slot : state[i].mono \in Nat
    OBVIOUS
  <2>3. \A i \in Slot : state[i].mono <= now + 1
    BY <2>2
  <2> QED
    BY <2>1, <2>2, <2>3
<1>2. ASSUME NEW s \in Sensor, NameSlot(s)
      PROVE  TaskInv' /\ now <= now' /\ count <= count' /\ \A i \in Slot : i < count => ids'[i] = ids[i]
  <2>1. \A i \in Slot : i < count => ids'[i] = ids[i]
    BY <1>2 DEF NameSlot, Slot
  <2> QED
    BY <1>2, <2>1 DEF NameSlot
<1>3. CASE CountSlot
  <2>1. count \in Slot /\ ids[count] \in Sensor
    BY <1>3 DEF CountSlot, Slot
  <2>2. \A i \in Slot : i < count + 1 => ids[i] \in Sensor
    BY <2>1 DEF Slot
  <2> QED
    BY <1>3, <2>2 DEF CountSlot
<1>4. CASE ScanEnds
  BY <1>4 DEF ScanEnds
<1>5. CASE CycleBegins
  BY <1>5 DEF CycleBegins
<1>6. ASSUME NEW ok \in BOOLEAN, RecordRead(ok)
      PROVE  TaskInv' /\ now <= now' /\ count <= count' /\ \A i \in Slot : i < count => ids'[i] = ids[i]
  <2>1. slot \in Slot /\ pc = "record" /\ UNCHANGED <<now, ids, count, pc, cyc, mono>>
    BY <1>6 DEF RecordRead, Slot
  <2>2. PICK fails, lost : state' = [state EXCEPT ![slot] =
           [valid |-> ok, mono |-> IF ok THEN mono ELSE state[slot].mono, fails |-> fails, lost |-> lost]]
    BY <1>6, Zenon DEF RecordRead
  <2>3. /\ \A i \in Slot : i # slot => state'[i] = state[i]
        /\ state'[slot].valid = ok /\ state'[slot].mono = IF ok THEN mono ELSE state[slot].mono
    BY <2>1, <2>2
  <2>4. \A i \in Slot : state'[i].mono <= now /\ (state'[i].valid => state'[i].mono > 0)
    BY <2>1, <2>3
  <2> QED
    BY <2>1, <2>4
<1>7. CASE CycleEnds
  BY <1>7 DEF CycleEnds
<1>8. CASE ~(\E s \in Sensor : NameSlot(s)) /\ ~CountSlot /\ ~Tick /\ ~ScanEnds /\ ~CycleBegins
           /\ ~(\E ok \in BOOLEAN : RecordRead(ok)) /\ ~CycleEnds
  <2>1. UNCHANGED <<now, ids, count, state, pc, cyc, mono>>
    BY <1>8 DEF Next, vars, PublishEvent, OnConnection, Begins, CopySlot, TimeStatus, SendHeader,
                SendSeries, Ends
  <2> QED
    BY <2>1
<1> QED
  BY <1>1, <1>2, <1>3, <1>4, <1>5, <1>6, <1>7, <1>8

\* A step of the sensor task leaves every list sound.
LEMMA ListKept ==
    ASSUME TypeInv, TaskInv, ListInv, [Next]_vars,
           UNCHANGED rpc, UNCHANGED total, UNCHANGED list, UNCHANGED at
    PROVE  ListInv'
<1> SUFFICES ASSUME NEW c \in Reader PROVE ListSound(c)'
  BY DEF ListInv
<1>1. ListSound(c)
  BY DEF ListInv
<1>2. /\ now <= now' /\ count <= count' /\ now \in Nat /\ now' \in Nat
      /\ \A i \in Slot : i < count => ids'[i] = ids[i]
  BY TaskStep, ApiTypeStep, Constants DEF TypeInv, TypeOK
<1>3. /\ total[c] \in 0 .. MaxDevices /\ Len(list[c]) \in Nat /\ count \in 0 .. MaxDevices
      /\ count' \in 0 .. MaxDevices
  BY ApiTypeStep, Constants DEF TypeInv, TypeOK
<1>4. \A k \in 1 .. Len(list[c]) : list[c][k] \in Status
  BY DEF TypeInv, TypeOK
<1>5. \A k \in 1 .. Len(list[c]) : k - 1 \in Slot /\ k - 1 < count
  BY <1>1, <1>3, Constants DEF ListSound, Slot
<1>6. \A k \in 1 .. Len(list[c]) : ids'[k - 1] = ids[k - 1]
  BY <1>2, <1>5
<1>7. \A k \in 1 .. Len(list[c]) : list[c][k].mono \in Nat
  BY <1>4, Constants DEF Status
<1> QED
  BY <1>1, <1>2, <1>3, <1>6, <1>7 DEF ListSound

\* Every step keeps every list sound.
LEMMA ListStep == TypeInv /\ TaskInv /\ ListInv /\ [Next]_vars => ListInv'
<1> SUFFICES ASSUME TypeInv, TaskInv, ListInv, [Next]_vars PROVE ListInv'
  OBVIOUS
<1>1. CASE UNCHANGED <<rpc, total, list, at>>
  BY <1>1, ListKept
<1>2. \/ UNCHANGED <<rpc, total, list, at>>
      \/ \E c \in Reader, document \in {"status", "history"} : Begins(c, document)
      \/ \E c \in Reader : CopySlot(c) \/ TimeStatus(c) \/ Ends(c)
      \/ SendHeader
  BY DEF Next, vars, readerVars, Tick, NameSlot, CountSlot, ScanEnds, CycleBegins, RecordRead,
         PublishEvent, CycleEnds, OnConnection, SendSeries
<1> USE DEF Reader
<1>3. /\ rpc \in [Reader -> {"idle", "status", "history", "series", "done"}]
      /\ total \in [Reader -> 0 .. MaxDevices] /\ list \in [Reader -> Seq(Status)]
      /\ at \in [Reader -> Time] /\ count \in 0 .. MaxDevices
      /\ ids \in [Slot -> Sensor \cup {NoId}]
      /\ state \in [Slot -> [valid: BOOLEAN, mono: Time, fails: 0 .. FailReads, lost: BOOLEAN]]
  BY DEF TypeInv, TypeOK
<1>4. \A c \in Reader : ListSound(c)
  BY DEF ListInv
<1>5. ASSUME NEW c \in Reader, NEW d \in Reader, NEW document \in {"status", "history"}, Begins(c, document)
      PROVE  ListSound(d)'
  BY <1>3, <1>4, <1>5, Constants DEF Begins, sensorVars, ListSound
<1>6. ASSUME NEW c \in Reader, NEW d \in Reader, CopySlot(c) PROVE ListSound(d)'
  <2> DEFINE i == Len(list[c])
             status == [id |-> ids[i], valid |-> state[i].valid, mono |-> state[i].mono, lost |-> state[i].lost]
  <2>1. /\ i \in Slot /\ i < total[c] /\ rpc[c] = "status" /\ UNCHANGED <<now, ids, count, rpc, total, at>>
        /\ list' = [list EXCEPT ![c] = Append(@, status)]
    BY <1>3, <1>6, Constants DEF CopySlot, Listed, sensorVars, Slot
  <2>2. CASE d # c
    <3>1. list'[d] = list[d]
      BY <1>3, <2>1, <2>2
    <3>2. UNCHANGED <<now, ids, count, rpc, total, at>>
      BY <2>1
    <3> QED
      BY <1>4, <3>1, <3>2 DEF ListSound
  <2>3. CASE d = c
    <3>1. /\ status.id = ids[i] /\ ids[i] \in Sensor /\ status.mono <= now
          /\ status.valid => status.mono > 0
      BY <1>3, <1>4, <2>1, Constants DEF TaskInv, ListSound
    <3> HIDE DEF status
    <3>2. /\ Len(list'[c]) = i + 1 /\ list'[c][i + 1] = status
          /\ \A k \in 1 .. i : list'[c][k] = list[c][k]
      BY <1>3, <2>1
    <3>3. i \in Nat
      BY <1>3
    <3> HIDE DEF i
    <3>4. ListSound(c) /\ i = Len(list[c])
      BY <1>4 DEF i
    <3>5. ASSUME NEW k \in 1 .. i + 1
          PROVE  /\ list'[c][k].id = ids[k - 1] /\ ids[k - 1] \in Sensor
                 /\ list'[c][k].mono <= now
                 /\ list'[c][k].valid => list'[c][k].mono > 0
      <4>1. CASE k = i + 1
        BY <3>1, <3>2, <3>3, <4>1
      <4>2. CASE k # i + 1
        <5>1. k \in 1 .. i
          BY <3>3, <4>2
        <5> QED
          BY <3>2, <3>4, <5>1 DEF ListSound
      <4> QED
        BY <4>1, <4>2
    <3>6. total[c] <= count /\ i + 1 <= total[c]
      BY <1>3, <2>1, <3>3, <3>4 DEF ListSound
    <3> QED
      BY <2>1, <2>3, <3>2, <3>5, <3>6 DEF ListSound
  <2> QED
    BY <2>2, <2>3
<1>7. ASSUME NEW c \in Reader, NEW d \in Reader, TimeStatus(c) PROVE ListSound(d)'
  <2>1. UNCHANGED <<now, ids, count, total, list>> /\ rpc[c] = "status" /\ Len(list[c]) = total[c]
    BY <1>7 DEF TimeStatus, sensorVars
  <2>2. /\ d # c => at'[d] = at[d] /\ rpc'[d] = rpc[d]
        /\ d = c => at'[d] = now /\ rpc'[d] = "done"
    BY <1>3, <1>7 DEF TimeStatus
  <2> QED
    BY <1>4, <2>1, <2>2 DEF ListSound
<1>8. ASSUME SendHeader, NEW d \in Reader PROVE ListSound(d)'
  <2>1. /\ UNCHANGED <<now, ids, count, total, list, at>> /\ rpc["httpd"] = "history"
        /\ rpc' = [rpc EXCEPT !["httpd"] = "series"]
    BY <1>8 DEF SendHeader, sensorVars
  <2>2. CASE d = "httpd"
    <3>1. rpc'[d] = "series"
      BY <1>3, <2>1, <2>2
    <3> QED
      BY <1>4, <2>1, <2>2, <3>1 DEF ListSound
  <2>3. CASE d # "httpd"
    <3>1. rpc'[d] = rpc[d]
      BY <1>3, <2>1, <2>3
    <3> QED
      BY <1>4, <2>1, <3>1 DEF ListSound
  <2> QED
    BY <2>2, <2>3
<1>9. ASSUME NEW c \in Reader, NEW d \in Reader, Ends(c) PROVE ListSound(d)'
  <2>1. UNCHANGED <<now, ids, count>>
    BY <1>9 DEF Ends, sensorVars
  <2>2. CASE d # c
    <3>1. rpc'[d] = rpc[d] /\ total'[d] = total[d] /\ list'[d] = list[d] /\ at'[d] = at[d]
      BY <1>3, <1>9, <2>2 DEF Ends
    <3> QED
      BY <1>4, <2>1, <3>1 DEF ListSound
  <2>3. CASE d = c
    <3>1. rpc'[d] = "idle" /\ total'[d] = 0 /\ list'[d] = <<>>
      BY <1>3, <1>9, <2>3 DEF Ends
    <3> QED
      BY <1>3, <2>1, <3>1 DEF ListSound
  <2> QED
    BY <2>2, <2>3
<1> QED
  BY <1>1, <1>2, <1>5, <1>6, <1>7, <1>8, <1>9 DEF ListInv

\* Lists are sound in every state.
LEMMA SoundLists == Spec => [](TypeInv /\ ListInv)
<1>1. Init => TypeInv /\ TaskInv /\ ListInv
  <2>1. Init => TypeInv
    BY ApiTypeInit DEF TypeInv, Unsent, Init
  <2>2. Init => TaskInv
    BY Constants DEF Init, TaskInv, Slot
  <2>3. Init => ListInv
    BY Constants DEF Init, ListInv, ListSound
  <2> QED
    BY <2>1, <2>2, <2>3
<1> QED
  BY <1>1, ApiTypeStep, TaskStep, ListStep, PTL DEF Spec

\* A finished status document names each sensor it lists once and in order, and gives no age
\* below zero, however the snapshot and the sensor task's writes alternate and with two documents
\* built at a time (sensor_snapshot, api_status_json).
THEOREM DocumentsAlwaysSound == Spec => []DocumentsSound
<1>1. TypeInv /\ ListInv => DocumentsSound
  <2> SUFFICES ASSUME TypeInv, ListInv, NEW c \in Reader, rpc[c] = "done"
               PROVE  /\ Len(list[c]) = total[c]
                      /\ \A k \in DOMAIN list[c] :
                            /\ list[c][k].id \in Sensor /\ list[c][k].id = ids[k - 1]
                            /\ list[c][k].mono <= at[c]
                            /\ list[c][k].valid => list[c][k].mono > 0
    BY DEF DocumentsSound
  <2>1. DOMAIN list[c] = 1 .. Len(list[c])
    BY DEF TypeInv, TypeOK
  <2> QED
    BY <2>1 DEF ListInv, ListSound
<1> QED
  BY <1>1, SoundLists, PTL

-----------------------------------------------------------------------------
(* The highlights.                                                          *)

\* A set of numbers has a least one: what stands for an induction here.
LEMMA Least ==
    ASSUME NEW T, T \subseteq Nat, T # {}
    PROVE  \E n \in T : \A m \in T : n <= m
<1> DEFINE R == OpToRel(<, Nat)
<1>1. IsWellFoundedOn(R, Nat)
  BY NatLessThanWellFounded
<1>2. R = {ss \in Nat \X Nat : ss[1] < ss[2]}
  BY DEF OpToRel
<1> HIDE DEF R
<1>3. PICK n \in T : \A m \in T : ~ (<<m, n>> \in R)
  BY <1>1, WFMin
<1>4. \A m \in T : ~(m < n)
  BY <1>2, <1>3
<1> QED
  BY <1>4

\* Position p of the list l is shown before position q.
Precedes(l, p, q) ==
    \/ Order[l[p].id] < Order[l[q].id]
    \/ Order[l[p].id] = Order[l[q].id] /\ p < q

\* s has the first n positions of l in the order they are shown.
Ranked(l, s, n) ==
    /\ s \in Seq(1 .. n) /\ Len(s) = n
    /\ \A p \in 1 .. n : \E a \in 1 .. n : s[a] = p
    /\ \A a, b \in 1 .. n : a < b => Precedes(l, s[a], s[b])

\* The list names sensors.
Named(l) == \A p \in 1 .. Len(l) : Order[l[p].id] \in Nat

\* It is a sequence of them.
LEMMA RankedType ==
    ASSUME NEW l, NEW m \in Nat, NEW out, Ranked(l, out, m)
    PROVE  /\ out \in Seq(1 .. m) /\ Len(out) = m
           /\ \A k \in 1 .. m : out[k] \in 1 .. m
<1>1. out \in Seq(1 .. m) /\ Len(out) = m
  BY DEF Ranked
<1>2. \A k \in 1 .. Len(out) : out[k] \in 1 .. m
  BY <1>1
<1> QED
  BY <1>1, <1>2

\* A sequence with v put in behind place j, and its entries.
PutBehind(out, j, v) == SubSeq(out, 1, j) \o <<v>> \o SubSeq(out, j + 1, Len(out))

Put(w, out, j, v) ==
    /\ Len(w) = Len(out) + 1
    /\ \A k \in 1 .. Len(out) + 1 : w[k] = IF k <= j THEN out[k] ELSE IF k = j + 1 THEN v ELSE out[k - 1]

LEMMA PutIn ==
    ASSUME NEW T, NEW out \in Seq(T), NEW j \in 0 .. Len(out), NEW v \in T
    PROVE  PutBehind(out, j, v) \in Seq(T) /\ Put(PutBehind(out, j, v), out, j, v)
<1> DEFINE m == Len(out)
           x == SubSeq(out, 1, j)
           y == SubSeq(out, j + 1, m)
           z == x \o <<v>>
           w == z \o y
<1>0. m \in Nat /\ j \in 0 .. m
  OBVIOUS
<1>1. x \in Seq(T) /\ Len(x) = j /\ \A k \in 1 .. j : x[k] = out[k]
  OBVIOUS
<1>2. y \in Seq(T) /\ Len(y) = m - j /\ \A k \in 1 .. m - j : y[k] = out[j + k]
  OBVIOUS
<1> HIDE DEF m, x, y
<1>3. z \in Seq(T) /\ Len(z) = j + 1 /\ (\A k \in 1 .. j : z[k] = out[k]) /\ z[j + 1] = v
  BY <1>0, <1>1
<1> HIDE DEF z
<1>4. /\ w \in Seq(T) /\ Len(w) = Len(z) + Len(y)
      /\ \A k \in 1 .. Len(z) + Len(y) : w[k] = IF k <= Len(z) THEN z[k] ELSE y[k - Len(z)]
  BY <1>2, <1>3, ConcatProperties, Zenon
<1> HIDE DEF w
<1>5. /\ w \in Seq(T) /\ Len(w) = m + 1
      /\ \A k \in 1 .. m + 1 : w[k] = IF k <= j + 1 THEN z[k] ELSE y[k - (j + 1)]
  <2>1. Len(z) + Len(y) = m + 1 /\ Len(z) = j + 1
    BY <1>0, <1>2, <1>3
  <2> QED
    BY <1>4, <2>1
<1>6. ASSUME NEW k \in 1 .. m + 1
      PROVE  w[k] = IF k <= j THEN out[k] ELSE IF k = j + 1 THEN v ELSE out[k - 1]
  <2>1. CASE k <= j + 1
    BY <1>0, <1>3, <1>5, <2>1
  <2>2. CASE k > j + 1
    <3>1. k - (j + 1) \in 1 .. m - j /\ j + (k - (j + 1)) = k - 1
      BY <1>0, <2>2
    <3>2. y[k - (j + 1)] = out[k - 1]
      BY <1>2, <3>1
    <3> QED
      BY <1>0, <1>5, <2>2, <3>2
  <2> QED
    BY <1>0, <2>1, <2>2
<1> QED
  BY <1>5, <1>6 DEF w, z, x, y, m, PutBehind, Put

\* One insertion: what is behind v has a higher order, and nothing before it has.
LEMMA InsertedAt ==
    ASSUME NEW l, NEW m \in Nat, NEW out, Ranked(l, out, m),
           NEW v, \A p \in 1 .. m : Order[l[p].id] \in Nat, Order[l[v].id] \in Nat
    PROVE  \E j \in 0 .. m :
              /\ Inserted(out, v, l) = PutBehind(out, j, v)
              /\ \A k \in j + 1 .. m : Order[l[out[k]].id] > Order[l[v].id]
              /\ \A k \in 1 .. j : Order[l[out[k]].id] <= Order[l[v].id]
<1>1. Len(out) = m /\ \A k \in 1 .. m : out[k] \in 1 .. m
  BY RankedType
<1> DEFINE places == {j \in 0 .. Len(out) : \A k \in j + 1 .. Len(out) : Before(l[out[k]], l[v])}
           j == CHOOSE p \in places : \A q \in places : p <= q
<1>2. j \in places /\ \A q \in places : j <= q
  <2>1. m \in places /\ places \subseteq Nat
    BY <1>1
  <2> HIDE DEF places
  <2>2. \E p \in places : \A q \in places : p <= q
    BY <2>1, Least
  <2> QED
    BY <2>2
<1>3. Inserted(out, v, l) = PutBehind(out, j, v)
  BY DEF Inserted, PutBehind
<1> HIDE DEF j
<1>4. j \in 0 .. m /\ \A k \in j + 1 .. m : Order[l[out[k]].id] > Order[l[v].id]
  BY <1>1, <1>2 DEF Before
<1>5. ASSUME j > 0 PROVE ~(Order[l[out[j]].id] > Order[l[v].id])
  <2>1. j - 1 \notin places /\ j - 1 \in 0 .. m
    <3> HIDE DEF places
    <3> QED
      BY <1>2, <1>4, <1>5
  <2>2. PICK k \in (j - 1) + 1 .. m : ~Before(l[out[k]], l[v])
    BY <1>1, <2>1
  <2>3. k = j
    BY <1>2, <1>1, <1>4, <2>2
  <2> QED
    BY <2>2, <2>3 DEF Before
<1>6. ASSUME NEW k \in 1 .. j PROVE Order[l[out[k]].id] <= Order[l[v].id]
  <2>1. j > 0 /\ k \in 1 .. m /\ j \in 1 .. m
    BY <1>4
  <2>2. out[k] \in 1 .. m /\ out[j] \in 1 .. m
    BY <1>1, <2>1
  <2>3. k = j \/ Precedes(l, out[k], out[j])
    BY <2>1 DEF Ranked
  <2>4. Order[l[out[k]].id] \in Nat /\ Order[l[out[j]].id] \in Nat
    BY <2>2
  <2>5. Order[l[out[k]].id] <= Order[l[out[j]].id]
    BY <2>3, <2>4 DEF Precedes
  <2> QED
    BY <1>5, <2>1, <2>4, <2>5
<1> QED
  BY <1>3, <1>4, <1>6

\* One insertion keeps the order (the inner loop of sorted_slots).
LEMMA InsertionRanks ==
    ASSUME NEW l, NEW m \in Nat, NEW out, Ranked(l, out, m), \A p \in 1 .. m + 1 : Order[l[p].id] \in Nat
    PROVE  Ranked(l, Inserted(out, m + 1, l), m + 1)
<1> DEFINE v == m + 1
           w == Inserted(out, v, l)
<1>1. (\A p \in 1 .. m : Order[l[p].id] \in Nat) /\ Order[l[v].id] \in Nat
  OBVIOUS
<1> HIDE DEF v
<1>2. PICK j \in 0 .. m :
              /\ w = PutBehind(out, j, v)
              /\ \A k \in j + 1 .. m : Order[l[out[k]].id] > Order[l[v].id]
              /\ \A k \in 1 .. j : Order[l[out[k]].id] <= Order[l[v].id]
  BY <1>1, InsertedAt
<1> HIDE DEF w
<1>3. /\ out \in Seq(1 .. v) /\ Len(out) = m
      /\ \A k \in 1 .. m : out[k] \in 1 .. m
  <2>1. out \in Seq(1 .. m) /\ Len(out) = m /\ \A k \in 1 .. m : out[k] \in 1 .. m
    BY RankedType
  <2>2. Seq(1 .. m) \subseteq Seq(1 .. v)
    BY DEF v
  <2> QED
    BY <2>1, <2>2
<1>4. /\ w \in Seq(1 .. v) /\ Len(w) = v
      /\ \A k \in 1 .. v : w[k] = IF k <= j THEN out[k] ELSE IF k = j + 1 THEN v ELSE out[k - 1]
  <2>1. v \in 1 .. v /\ j \in 0 .. Len(out) /\ out \in Seq(1 .. v)
    BY <1>3 DEF v
  <2>2. v = Len(out) + 1
    BY <1>3 DEF v
  <2> DEFINE p == PutBehind(out, j, v)
  <2>3. p \in Seq(1 .. v) /\ Put(p, out, j, v)
    BY <2>1, PutIn
  <2>4. w = p
    BY <1>2
  <2> HIDE DEF p
  <2> QED
    BY <2>2, <2>3, <2>4 DEF Put
<1> USE DEF v
<1>5. ASSUME NEW p \in 1 .. v PROVE \E a \in 1 .. v : w[a] = p
  <2>1. CASE p = v
    <3>1. j + 1 \in 1 .. v /\ ~(j + 1 <= j)
      OBVIOUS
    <3>2. w[j + 1] = v
      BY <1>4, <3>1
    <3> QED
      BY <2>1, <3>1, <3>2
  <2>2. CASE p # v
    <3>1. PICK a \in 1 .. m : out[a] = p
      BY <2>2 DEF Ranked
    <3>2. CASE a <= j
      BY <1>4, <3>1, <3>2
    <3>3. CASE a > j
      <4>1. a + 1 \in 1 .. v /\ ~(a + 1 <= j) /\ a + 1 # j + 1 /\ (a + 1) - 1 = a
        BY <3>3
      <4> QED
        BY <1>4, <3>1, <4>1
    <3> QED
      BY <3>2, <3>3
  <2> QED
    BY <2>1, <2>2
<1>6. ASSUME NEW a \in 1 .. v, NEW b \in 1 .. v, a < b PROVE Precedes(l, w[a], w[b])
  <2>1. \A c, d \in 1 .. m : c < d => Precedes(l, out[c], out[d])
    BY DEF Ranked
  <2>2. CASE a # j + 1 /\ b # j + 1
    <3> DEFINE c == IF a <= j THEN a ELSE a - 1
               d == IF b <= j THEN b ELSE b - 1
    <3>1. c \in 1 .. m /\ d \in 1 .. m /\ c < d
      BY <1>6, <2>2
    <3>2. w[a] = out[c] /\ w[b] = out[d]
      BY <1>4, <2>2
    <3> QED
      BY <2>1, <3>1, <3>2
  <2>3. CASE a = j + 1
    <3>1. b - 1 \in j + 1 .. m /\ b - 1 \in 1 .. m /\ ~(b <= j) /\ b # j + 1 /\ ~(a <= j)
      BY <1>6, <2>3
    <3>2. w[a] = v /\ w[b] = out[b - 1]
      BY <1>4, <2>3, <3>1
    <3>3. Order[l[out[b - 1]].id] > Order[l[v].id] /\ out[b - 1] \in 1 .. m
      BY <1>2, <1>3, <3>1
    <3>4. Order[l[out[b - 1]].id] \in Nat /\ Order[l[v].id] \in Nat
      BY <1>1, <3>3
    <3>5. Order[l[v].id] < Order[l[out[b - 1]].id]
      BY <3>3, <3>4
    <3> HIDE DEF v
    <3>6. Precedes(l, v, out[b - 1])
      BY <3>5 DEF Precedes
    <3> QED
      BY <3>2, <3>6
  <2>4. CASE b = j + 1
    <3>1. a \in 1 .. j /\ a \in 1 .. m /\ ~(b <= j) /\ a <= j
      BY <1>6, <2>4
    <3>2. w[b] = v /\ w[a] = out[a]
      BY <1>4, <2>4, <3>1
    <3>3. Order[l[out[a]].id] <= Order[l[v].id] /\ out[a] < v /\ out[a] \in 1 .. m
      BY <1>2, <1>3, <3>1
    <3>4. Order[l[out[a]].id] \in Nat /\ Order[l[v].id] \in Nat
      BY <1>1, <3>3
    <3> QED
      BY <3>2, <3>3, <3>4 DEF Precedes
  <2> QED
    BY <2>2, <2>3, <2>4
<1> QED
  BY <1>4, <1>5, <1>6 DEF Ranked, w

\* The function sorted_slots computes exists, and its values are ranked.
LEMMA SortedRanks ==
    ASSUME NEW l, NEW n \in Nat, Len(l) = n, \A p \in 1 .. n : Order[l[p].id] \in Nat
    PROVE  Ranked(l, SortedSlots(l), n)
<1> DEFINE Step(f, i) == IF i = 0 THEN <<>> ELSE Inserted(f[i - 1], i, l)
           Sorts(f, k) == f = [i \in 0 .. k |-> Step(f, i)]
           Fails == {k \in 0 .. n : ~\E f : Sorts(f, k) /\ \A i \in 0 .. k : Ranked(l, f[i], i)}
<1>1. \E f : Sorts(f, 0) /\ \A i \in 0 .. 0 : Ranked(l, f[i], i)
  <2> DEFINE f == [i \in 0 .. 0 |-> <<>>]
  <2>1. \A i \in 0 .. 0 : i = 0
    OBVIOUS
  <2>2. f[0] = <<>>
    OBVIOUS
  <2>3. f = [i \in 0 .. 0 |-> Step(f, i)]
    BY <2>1
  <2>4. Ranked(l, <<>>, 0)
    BY DEF Ranked
  <2> QED
    BY <2>1, <2>2, <2>3, <2>4
<1>2. ASSUME NEW k \in 1 .. n, k - 1 \notin Fails PROVE k \notin Fails
  <2>1. PICK f : Sorts(f, k - 1) /\ \A i \in 0 .. k - 1 : Ranked(l, f[i], i)
    BY <1>2
  <2> DEFINE g == [i \in 0 .. k |-> IF i = k THEN Inserted(f[k - 1], k, l) ELSE f[i]]
  <2>2. \A i \in 0 .. k - 1 : f[i] = Step(f, i)
    BY <2>1
  <2>3. \A i \in 0 .. k - 1 : g[i] = f[i]
    OBVIOUS
  <2>4. g[k] = Inserted(f[k - 1], k, l)
    OBVIOUS
  <2>5. DOMAIN g = 0 .. k /\ g = [i \in 0 .. k |-> g[i]]
    OBVIOUS
  <2> HIDE DEF g
  <2>6. \A i \in 0 .. k : g[i] = Step(g, i)
    <3> TAKE i \in 0 .. k
    <3>1. CASE i = k
      <4>1. k - 1 \in 0 .. k - 1 /\ k # 0
        OBVIOUS
      <4>2. g[k - 1] = f[k - 1]
        BY <2>3, <4>1
      <4> QED
        BY <2>4, <3>1, <4>1, <4>2
    <3>2. CASE i = 0 /\ i # k
      <4>1. i \in 0 .. k - 1
        BY <3>2
      <4> QED
        BY <2>2, <2>3, <3>2, <4>1
    <3>3. CASE i # 0 /\ i # k
      <4>1. i \in 0 .. k - 1 /\ i - 1 \in 0 .. k - 1
        BY <3>3
      <4> QED
        BY <2>2, <2>3, <3>3, <4>1
    <3> QED
      BY <3>1, <3>2, <3>3
  <2>7. Sorts(g, k)
    BY <2>5, <2>6
  <2>8. Ranked(l, g[k], k)
    <3>1. Ranked(l, f[k - 1], k - 1) /\ k - 1 \in Nat /\ (k - 1) + 1 = k
      BY <2>1
    <3>2. \A p \in 1 .. (k - 1) + 1 : Order[l[p].id] \in Nat
      OBVIOUS
    <3>3. Ranked(l, Inserted(f[k - 1], (k - 1) + 1, l), (k - 1) + 1)
      BY <3>1, <3>2, InsertionRanks
    <3> QED
      BY <2>4, <3>1, <3>3
  <2>9. \A i \in 0 .. k : Ranked(l, g[i], i)
    <3> TAKE i \in 0 .. k
    <3>1. i = k \/ i \in 0 .. k - 1
      OBVIOUS
    <3> QED
      BY <2>1, <2>3, <2>8, <3>1
  <2> QED
    BY <2>7, <2>9
<1>3. n \notin Fails
  <2>1. Fails \subseteq 0 .. n /\ 0 \notin Fails
    BY <1>1
  <2>2. ASSUME Fails # {} PROVE FALSE
    <3> HIDE DEF Fails
    <3>1. PICK k \in Fails : \A i \in Fails : k <= i
      <4>1. Fails \subseteq Nat
        BY <2>1
      <4> QED
        BY <2>2, <4>1, Least
    <3>2. k \in 1 .. n /\ k - 1 \notin Fails
      BY <2>1, <3>1
    <3> QED
      BY <1>2, <3>1, <3>2
  <2> QED
    BY <2>2
<1>4. PICK f : Sorts(f, n) /\ \A i \in 0 .. n : Ranked(l, f[i], i)
  BY <1>3
<1>5. SortedSlots(l) = f[n]
  <2> DEFINE sorted[i \in 0 .. n] == IF i = 0 THEN <<>> ELSE Inserted(sorted[i - 1], i, l)
  <2>1. SortedSlots(l) = sorted[n]
    BY Zenon DEF SortedSlots
  <2>2. sorted = [i \in 0 .. n |-> Step(sorted, i)]
    BY <1>4, Zenon DEF sorted
  <2> HIDE DEF sorted
  <2> DEFINE Differ == {i \in 0 .. n : sorted[i] # f[i]}
  <2>3. ASSUME Differ # {} PROVE FALSE
    <3>1. PICK k \in Differ : \A i \in Differ : k <= i
      <4>1. Differ \subseteq Nat
        OBVIOUS
      <4> HIDE DEF Differ
      <4> QED
        BY <2>3, <4>1, Least
    <3>2. k \in 0 .. n /\ sorted[k] = Step(sorted, k) /\ f[k] = Step(f, k)
      BY <1>4, <2>2
    <3>3. k # 0 => sorted[k - 1] = f[k - 1]
      BY <3>1, <3>2
    <3> QED
      BY <3>1, <3>2, <3>3
  <2> QED
    BY <2>1, <2>3
<1> QED
  BY <1>4, <1>5

\* The positions shown before p.
Ahead(l, n, p) == {q \in 1 .. n : Precedes(l, q, p)}

\* Place h of the order is the position h - 1 others come before.
LEMMA RankCounted ==
    ASSUME NEW l, NEW n \in Nat, NEW s, Ranked(l, s, n), \A p \in 1 .. n : Order[l[p].id] \in Nat,
           NEW h \in 1 .. n
    PROVE  s[h] \in 1 .. n /\ Cardinality(Ahead(l, n, s[h])) = h - 1
<1>1. \A k \in 1 .. n : s[k] \in 1 .. n
  BY RankedType
<1>2. \A a, b \in 1 .. n : Precedes(l, a, b) => ~Precedes(l, b, a)
  BY DEF Precedes
<1>3. \A a, b \in 1 .. n : a < b => Precedes(l, s[a], s[b])
  BY DEF Ranked
<1> DEFINE earlier == Ahead(l, n, s[h])
           f == [i \in 1 .. h - 1 |-> s[i]]
<1>0. earlier = {q \in 1 .. n : Precedes(l, q, s[h])}
  BY DEF Ahead
<1> HIDE DEF earlier
<1>4. \A i \in 1 .. h - 1 : f[i] \in earlier
  <2> TAKE i \in 1 .. h - 1
  <2>1. i \in 1 .. n /\ i < h
    OBVIOUS
  <2> QED
    BY <1>0, <1>1, <1>3, <2>1
<1>5. \A q \in earlier : \E i \in 1 .. h - 1 : f[i] = q
  <2> TAKE q \in earlier
  <2>1. PICK i \in 1 .. n : s[i] = q
    BY <1>0 DEF Ranked
  <2>2. ~(h <= i)
    <3>1. h # i
      BY <1>0, <1>1, <1>2, <2>1
    <3>2. ~(h < i)
      BY <1>0, <1>1, <1>2, <1>3, <2>1
    <3> QED
      BY <3>1, <3>2
  <2>3. i \in 1 .. h - 1
    BY <2>2
  <2> QED
    BY <2>1, <2>3
<1>6. \A i, k \in 1 .. h - 1 : f[i] = f[k] => i = k
  <2> SUFFICES ASSUME NEW i \in 1 .. h - 1, NEW k \in 1 .. h - 1, i < k PROVE s[i] # s[k]
    OBVIOUS
  <2>1. i \in 1 .. n /\ k \in 1 .. n
    OBVIOUS
  <2> QED
    BY <1>1, <1>2, <1>3, <2>1
<1>7. f \in Bijection(1 .. h - 1, earlier)
  <2>1. f \in [1 .. h - 1 -> earlier]
    BY <1>4
  <2> HIDE DEF f, earlier
  <2> QED
    BY <1>5, <1>6, <2>1 DEF Bijection, Injection, Surjection, IsInjective
<1>8. IsFiniteSet(1 .. h - 1) /\ Cardinality(1 .. h - 1) = h - 1
  BY FS_Interval
<1> QED
  <2> HIDE DEF f, earlier
  <2>1. Cardinality(earlier) = h - 1
    BY <1>7, <1>8, FS_Bijection DEF ExistsBijection
  <2> QED
    BY <1>1, <2>1 DEF earlier

\* Highlight h of a board without highlights of its own shows the sensor that h - 1 of those listed
\* come before, by display_order and, among equals, as they were found, in every list of any length
\* (sorted_slots and add_highlights of api.c).
THEOREM HighlightsAlwaysRanked == Spec => []HighlightsRanked
<1>1. TypeInv /\ ListInv => HighlightsRanked
  <2> SUFFICES ASSUME TypeInv, ListInv, NEW c \in Reader, rpc[c] = "done",
                      NEW h \in DOMAIN Highlights, Highlights[h].kind = "none", h <= Len(list[c])
               PROVE  \E p \in Shown(list[c], h) :
                         h - 1 = Cardinality({q \in DOMAIN list[c] : Precedes(list[c], q, p)})
    BY DEF HighlightsRanked, Precedes
  <2> DEFINE l == list[c]
             n == Len(l)
             p == SortedSlots(l)[h]
  <2>1. l \in Seq(Status) /\ n \in Nat /\ DOMAIN l = 1 .. n
    BY DEF TypeInv, TypeOK
  <2>2. \A k \in 1 .. n : l[k].id \in Sensor
    BY <2>1 DEF ListInv, ListSound
  <2>3. \A k \in 1 .. n : Order[l[k].id] \in Nat
    BY <2>2, ApiAssumption
  <2>4. h \in 1 .. n
    BY <2>1, ApiAssumption
  <2> HIDE DEF l, n
  <2>5. Ranked(l, SortedSlots(l), n)
    BY <2>1, <2>3, SortedRanks DEF n
  <2>6. Cardinality(Ahead(l, n, p)) = h - 1
    BY <2>1, <2>3, <2>4, <2>5, RankCounted
  <2>7. p \in Shown(l, h)
    BY <2>4 DEF Shown, l, n
  <2> QED
    BY <2>1, <2>6, <2>7 DEF Ahead, l
<1> QED
  BY <1>1, SoundLists, PTL

-----------------------------------------------------------------------------
(* The history document.                                                    *)

\* No row is newer than its cycle, and no column newer than what the ring tells of itself.
RowsInv ==
    /\ \A i \in Slot : row[i] <= mono
    /\ Len(columns) > 0 => \A i \in Slot : columns[Len(columns)][i] <= newest

\* The header tells what was there when it was taken.
HeaderInv ==
    /\ rpc["httpd"] # "series" => header.n = 0
    /\ header.n > 0 =>
          /\ header.taken \in 1 .. Len(columns)
          /\ header.n = IF header.taken < HistorySize THEN header.taken ELSE HistorySize
          /\ \A i \in Slot : columns[header.taken][i] <= header.newest

\* Series k is the run of its slot's newest samples after m columns.
Run(k, m) ==
    /\ Len(series[k]) = IF m < HistorySize THEN m ELSE HistorySize
    /\ Len(series[k]) >= header.n
    /\ \A j \in DOMAIN series[k] : series[k][j] = columns[m - Len(series[k]) + j][k - 1]
    /\ columns[header.taken][k - 1] <= header.newest

Runs(upto) == \A k \in DOMAIN series : (k > 1 => upto[k - 1] <= upto[k]) /\ Run(k, upto[k])

\* SeriesInOrder, said with them.
LEMMA InOrderIsRuns ==
    SeriesInOrder <=> (rpc["httpd"] = "series" /\ header.n > 0 =>
                         \E upto \in [DOMAIN series -> header.taken .. Len(columns)] : Runs(upto))
  BY DEF SeriesInOrder, Runs, Run

SeriesInv == RowsInv /\ HeaderInv /\ SeriesInOrder

\* Columns are added and never change.
LEMMA ColumnsGrow ==
    ASSUME TypeInv, [Next]_vars
    PROVE  /\ columns \in Seq(Row) /\ columns' \in Seq(Row)
           /\ Len(columns) \in Nat /\ Len(columns') \in Nat /\ Len(columns) <= Len(columns')
           /\ \A m \in 1 .. Len(columns) : columns'[m] = columns[m]
<1>1. columns \in Seq(Row) /\ columns' \in Seq(Row)
  BY ApiTypeStep DEF TypeInv, TypeOK, History!TypeOK
<1>2. columns' = columns \/ \E r \in Row : columns' = Append(columns, r)
  <2>1. row \in Row
    BY DEF TypeInv, TypeOK
  <2> QED
    BY <2>1, RingSteps DEF historyVars, History!Add
<1> QED
  BY <1>1, <1>2

\* What a row holds are numbers, one that is no reading below all others.
LEMMA RowNumbers == \A r \in Row : \A i \in Slot : r[i] \in Int
<1>1. Time \cup {NoReading} \subseteq Int
  BY Constants DEF NoReading
<1> QED
  BY <1>1 DEF Row

\* The rows stay as old as the ring says.
LEMMA RowsStep ==
    ASSUME TypeInv, TaskInv, RowsInv, [Next]_vars
    PROVE  RowsInv'
<1>1. \A i \in Slot : row'[i] <= mono'
  <2>1. /\ row \in Row /\ mono \in Nat /\ now \in Nat /\ \A i \in Slot : row[i] \in Int
        /\ \A i \in Slot : row[i] <= mono
    BY RowNumbers, Constants DEF TypeInv, TypeOK, RowsInv
  <2>2. CASE CycleBegins
    BY <2>1, <2>2 DEF CycleBegins, NoRow, NoReading
  <2>3. ASSUME NEW ok \in BOOLEAN, RecordRead(ok) PROVE \A i \in Slot : row'[i] <= mono'
    <3>1. mono' = mono /\ row' = IF ok THEN [row EXCEPT ![slot] = mono] ELSE row
      BY <2>3, Zenon DEF RecordRead
    <3> QED
      BY <2>1, <3>1 DEF Row
  <2>4. CASE ~CycleBegins /\ ~(\E ok \in BOOLEAN : RecordRead(ok))
    <3>1. UNCHANGED <<row, mono>>
      BY <2>4 DEF Next, vars, sensorVars, Tick, NameSlot, CountSlot, ScanEnds, PublishEvent, CycleEnds,
                  OnConnection, Begins, CopySlot, TimeStatus, SendHeader, SendSeries, Ends
    <3> QED
      BY <2>1, <3>1
  <2> QED
    BY <2>2, <2>3, <2>4
<1>2. Len(columns') > 0 => \A i \in Slot : columns'[Len(columns')][i] <= newest'
  <2>1. CASE UNCHANGED historyVars
    BY <2>1 DEF historyVars, RowsInv
  <2>2. CASE History!Add(row) /\ newest' = now
    <3>1. columns' = Append(columns, row) /\ columns \in Seq(Row) /\ row \in Row
      BY <2>2 DEF History!Add, TypeInv, TypeOK, History!TypeOK
    <3>2. columns'[Len(columns')] = row
      BY <3>1
    <3>3. mono \in Int /\ now \in Int /\ \A i \in Slot : row[i] \in Int
      BY Constants, RowNumbers DEF TypeInv, TypeOK
    <3> QED
      BY <2>2, <3>2, <3>3 DEF TaskInv, RowsInv
  <2> QED
    BY <2>1, <2>2, RingSteps
<1> QED
  BY <1>1, <1>2 DEF RowsInv

\* A series that is sent remains the run it was.
LEMMA RunKept ==
    ASSUME TypeInv, [Next]_vars, header.n > 0, header.taken \in 1 .. Len(columns),
           NEW k \in DOMAIN series, NEW m \in header.taken .. Len(columns), Run(k, m),
           UNCHANGED header, series'[k] = series[k]
    PROVE  Run(k, m)'
<1>1. series[k] \in Seq(Time \cup {NoReading})
  BY DEF TypeInv, TypeOK
<1>2. /\ Len(columns) \in Nat /\ header.taken \in Int
      /\ \A a \in 1 .. Len(columns) : columns'[a] = columns[a]
  BY ColumnsGrow
<1> DEFINE n == Len(series[k])
<1>3. n \in Nat /\ DOMAIN series[k] = 1 .. n
  BY <1>1
<1>4. n <= m
  BY <1>2, <1>3, Constants DEF Run
<1>5. \A j \in 1 .. n : m - n + j \in 1 .. Len(columns)
  BY <1>2, <1>3, <1>4
<1> HIDE DEF n
<1>6. \A j \in 1 .. n : columns'[m - n + j] = columns[m - n + j]
  BY <1>2, <1>5
<1>7. columns'[header.taken] = columns[header.taken]
  BY <1>2
<1>8. \A j \in 1 .. n : series[k][j] = columns[m - n + j][k - 1]
  BY <1>3 DEF Run, n
<1>9. \A j \in 1 .. n : series[k][j] = columns'[m - n + j][k - 1]
  BY <1>6, <1>8
<1> QED
  BY <1>3, <1>7, <1>9 DEF Run, n

\* What is copied now is the run after all columns.
LEMMA CopyIsRun ==
    ASSUME TypeInv, RingsInv, NEW i \in Slot
    PROVE  LET n == IF Len(columns) < HistorySize THEN Len(columns) ELSE HistorySize IN
           Copy(i, HistorySize) = [k \in 1 .. n |-> columns[Len(columns) - n + k][i]]
<1> DEFINE n == IF Len(columns) < HistorySize THEN Len(columns) ELSE HistorySize
           column == History!OldestFirst(HistorySize)
<1>1. HistorySize \in 0 .. HistorySize
  BY Constants
<1>2. column = [k \in 1 .. n |-> columns[Len(columns) - n + k]]
  BY <1>1, RingsCopy, Zenon DEF RingsKeepNewest, History!KeepsNewest
<1>3. Copy(i, HistorySize) = [k \in DOMAIN column |-> column[k][i]]
  BY Zenon DEF Copy
<1> HIDE DEF n, column
<1>4. Copy(i, HistorySize) = [k \in 1 .. n |-> columns[Len(columns) - n + k][i]]
  BY <1>2, <1>3
<1> QED
  BY <1>4 DEF n

\* Every step keeps the header true.
LEMMA HeaderStep ==
    ASSUME TypeInv, RingsInv, RowsInv, HeaderInv, [Next]_vars
    PROVE  HeaderInv'
<1>1. /\ Len(columns) \in Nat /\ Len(columns') \in Nat /\ Len(columns) <= Len(columns')
      /\ \A m \in 1 .. Len(columns) : columns'[m] = columns[m]
  BY ColumnsGrow
<1>2. rpc \in [Reader -> {"idle", "status", "history", "series", "done"}] /\ "httpd" \in Reader
  BY DEF TypeInv, TypeOK, Reader
<1>3. CASE UNCHANGED header /\ (rpc'["httpd"] # "series" => rpc["httpd"] # "series" \/ header.n = 0)
  BY <1>1, <1>3 DEF HeaderInv
<1>4. CASE SendHeader
  <2>1. rpc'["httpd"] = "series" /\ UNCHANGED columns /\ rpc["httpd"] = "history"
    BY <1>2, <1>4 DEF SendHeader, historyVars
  <2>2. CASE total["httpd"] = 0
    <3>1. header' = header /\ header.n = 0
      BY <1>4, <2>1, <2>2 DEF SendHeader, HeaderInv
    <3> QED
      BY <2>1, <3>1 DEF HeaderInv
  <2>3. CASE total["httpd"] # 0
    <3>1. header' = [n |-> History!Copied(HistorySize), newest |-> newest, taken |-> Len(columns)]
      BY <1>4, <2>3 DEF SendHeader
    <3>2. hcount = IF Len(columns) < HistorySize THEN Len(columns) ELSE HistorySize
      BY DEF RingsInv, HistoryRing!RingInv, HistoryRing!Remembered
    <3>3. header'.n = hcount /\ header'.newest = newest /\ header'.taken = Len(columns)
      BY <1>1, <3>1, <3>2, Constants DEF History!Copied
    <3> QED
      BY <1>1, <2>1, <3>2, <3>3, Constants DEF HeaderInv, RowsInv
  <2> QED
    BY <2>2, <2>3
<1>5. ASSUME NEW c \in Reader, Ends(c) PROVE HeaderInv'
  <2>1. CASE c = "httpd"
    <3>1. header'.n = 0 /\ rpc'["httpd"] = "idle"
      BY <1>2, <1>5, <2>1 DEF Ends
    <3> QED
      BY <3>1 DEF HeaderInv
  <2>2. CASE c # "httpd"
    BY <1>2, <1>3, <1>5, <2>2 DEF Ends
  <2> QED
    BY <2>1, <2>2
<1>6. ASSUME NEW c \in Reader, NEW document \in {"status", "history"}, Begins(c, document) PROVE HeaderInv'
  <2>1. rpc' = [rpc EXCEPT ![c] = document] /\ rpc[c] = "idle" /\ UNCHANGED header
    BY <1>6 DEF Begins
  <2> QED
    BY <1>2, <1>3, <2>1
<1>7. ASSUME NEW c \in Reader, TimeStatus(c) PROVE HeaderInv'
  <2>1. rpc' = [rpc EXCEPT ![c] = "done"] /\ rpc[c] = "status" /\ UNCHANGED header
    BY <1>7 DEF TimeStatus
  <2> QED
    BY <1>2, <1>3, <2>1
<1>8. CASE UNCHANGED <<rpc, header>>
  BY <1>3, <1>8
<1>9. \/ UNCHANGED <<rpc, header>> \/ SendHeader
      \/ \E c \in Reader : TimeStatus(c) \/ Ends(c)
      \/ \E c \in Reader, document \in {"status", "history"} : Begins(c, document)
  BY DEF Next, vars, readerVars, Tick, NameSlot, CountSlot, ScanEnds, CycleBegins, RecordRead,
         PublishEvent, CycleEnds, OnConnection, CopySlot, SendSeries
<1> QED
  BY <1>4, <1>5, <1>6, <1>7, <1>8, <1>9

\* Every step keeps the order of the series.
LEMMA OrderStep ==
    ASSUME TypeInv, RingsInv, HeaderInv, SeriesInOrder, [Next]_vars
    PROVE  SeriesInOrder'
<1>1. /\ Len(columns) \in Nat /\ Len(columns') \in Nat /\ Len(columns) <= Len(columns')
  BY ColumnsGrow
<1>2. rpc \in [Reader -> {"idle", "status", "history", "series", "done"}] /\ "httpd" \in Reader
  BY DEF TypeInv, TypeOK, Reader
<1>3. CASE rpc'["httpd"] # "series"
  BY <1>3 DEF SeriesInOrder
<1>4. CASE UNCHANGED <<header, series>> /\ rpc["httpd"] = "series"
  <2> SUFFICES ASSUME header.n > 0
               PROVE  SeriesInOrder'
    BY <1>4 DEF SeriesInOrder
  <2>1. PICK upto \in [DOMAIN series -> header.taken .. Len(columns)] : Runs(upto)
    BY <1>4, InOrderIsRuns
  <2>2. header.taken \in 1 .. Len(columns)
    BY DEF HeaderInv
  <2>3. upto \in [DOMAIN series -> header.taken .. Len(columns')]
    BY <1>1, <2>1, <2>2
  <2>4. ASSUME NEW k \in DOMAIN series PROVE Run(k, upto[k])'
    <3>1. PICK m \in header.taken .. Len(columns) : m = upto[k]
      BY <2>1
    <3>2. Run(k, m)
      BY <2>1, <3>1 DEF Runs
    <3>3. Run(k, m)'
      BY <1>4, <2>2, <3>2, RunKept
    <3> QED
      BY <3>1, <3>3 DEF Run
  <2>5. Runs(upto)'
    BY <1>4, <2>1, <2>4 DEF Runs
  <2>6. \E u \in [DOMAIN series' -> header'.taken .. Len(columns')] : Runs(u)'
    BY <1>4, <2>3, <2>5
  <2> QED
    BY <2>6 DEF SeriesInOrder, Runs, Run
<1>5. CASE SendHeader
  <2>1. series' = <<>>
    BY <1>5 DEF SendHeader, TypeInv, Unsent
  <2>2. DOMAIN series' = {}
    BY <2>1
  <2> DEFINE none == [k \in {} |-> 0]
  <2>3. none \in [DOMAIN series' -> header'.taken .. Len(columns')]
    BY <2>2
  <2> QED
    BY <2>2, <2>3 DEF SeriesInOrder
<1>6. CASE SendSeries /\ ~(header.n > 0)
  BY <1>6 DEF SendSeries, SeriesInOrder
<1>7. CASE SendSeries /\ header.n > 0
  <2>s. PICK s : s = Len(series)
    OBVIOUS
  <2>l. PICK l : l = Len(columns)
    OBVIOUS
  <2>1. /\ rpc["httpd"] = "series" /\ s < total["httpd"] /\ UNCHANGED <<header, columns>>
        /\ series' = Append(series, Copy(s, HistorySize))
    BY <1>7, <2>s DEF SendSeries, historyVars
  <2>2. /\ s \in Nat /\ s \in Slot /\ series \in Seq(Seq(Time \cup {NoReading}))
        /\ header.taken \in 1 .. l /\ header.n \in Nat
    BY <1>1, <1>2, <1>7, <2>s, <2>l, <2>1, Constants DEF TypeInv, TypeOK, Slot, HeaderInv, Header
  <2>3. PICK upto \in [DOMAIN series -> header.taken .. l] : Runs(upto)
    BY <1>7, <2>l, <2>1, InOrderIsRuns
  <2> DEFINE n   == IF l < HistorySize THEN l ELSE HistorySize
             one == Copy(s, HistorySize)
             u   == [k \in 1 .. s + 1 |-> IF k = s + 1 THEN l ELSE upto[k]]
  <2>4. one = [k \in 1 .. n |-> columns[l - n + k][s]]
    BY <2>l, <2>2, CopyIsRun
  <2>5. l \in Nat /\ n \in Nat /\ n >= header.n
    BY <1>1, <1>7, <2>l, <2>2, Constants DEF HeaderInv
  <2>6. one \in Seq(Time \cup {NoReading})
    BY <2>2, Constants, CopyType DEF TypeInv, TypeOK
  <2> HIDE DEF one, n
  <2>7. Len(one) = n /\ DOMAIN one = 1 .. n /\ \A j \in 1 .. n : one[j] = columns[l - n + j][s]
    BY <2>4, <2>5
  <2>8. /\ DOMAIN series = 1 .. s /\ DOMAIN series' = 1 .. s + 1 /\ series'[s + 1] = one
        /\ \A k \in 1 .. s : series'[k] = series[k]
    BY <2>s, <2>1, <2>2, <2>6 DEF one
  <2>9. Run(s + 1, l)'
    <3>1. columns[header.taken][s] <= header.newest /\ s = (s + 1) - 1
      BY <1>7, <2>2 DEF HeaderInv
    <3>2. Len(one) = IF l < HistorySize THEN l ELSE HistorySize
      BY <2>7 DEF n
    <3>3. \A j \in DOMAIN one : one[j] = columns[l - Len(one) + j][(s + 1) - 1]
      BY <2>7, <3>1
    <3> QED
      BY <2>1, <2>5, <2>7, <2>8, <3>1, <3>2, <3>3 DEF Run
  <2>10. ASSUME NEW k \in 1 .. s PROVE Run(k, upto[k])'
    <3>1. PICK m \in header.taken .. l : m = upto[k]
      BY <2>3, <2>8
    <3>2. Run(k, m)
      BY <2>3, <2>8, <3>1 DEF Runs
    <3>3. Run(k, m)'
      BY <1>7, <2>l, <2>1, <2>2, <2>8, <3>1, <3>2, RunKept
    <3> QED
      BY <3>1, <3>3 DEF Run
  <2>11. u \in [DOMAIN series' -> header'.taken .. Len(columns')]
    BY <2>l, <2>1, <2>2, <2>3, <2>5, <2>8
  <2>12. ASSUME NEW k \in 1 .. s + 1 PROVE (k > 1 => u[k - 1] <= u[k]) /\ Run(k, u[k])'
    <3>1. CASE k = s + 1
      <4>1. u[k] = l
        BY <2>2, <3>1
      <4>2. k > 1 => k - 1 \in 1 .. s /\ u[k - 1] = upto[k - 1]
        BY <2>2, <3>1
      <4>3. k > 1 => upto[k - 1] \in header.taken .. l
        BY <2>3, <2>8, <4>2
      <4>4. k > 1 => u[k - 1] <= u[k]
        BY <2>2, <2>5, <4>1, <4>2, <4>3
      <4> QED
        BY <2>9, <3>1, <4>1, <4>4
    <3>2. CASE k # s + 1
      <4>1. k \in 1 .. s /\ u[k] = upto[k]
        BY <2>2, <3>2
      <4>2. k > 1 => k - 1 \in 1 .. s + 1 /\ k - 1 # s + 1 /\ u[k - 1] = upto[k - 1]
        BY <2>2, <4>1
      <4>3. k > 1 => upto[k - 1] <= upto[k]
        BY <2>3, <2>8, <4>1 DEF Runs
      <4> QED
        BY <2>10, <4>1, <4>2, <4>3
    <3> QED
      BY <3>1, <3>2
  <2> HIDE DEF u
  <2>13. Runs(u)'
    BY <2>8, <2>12 DEF Runs
  <2>14. \E v \in [DOMAIN series' -> header'.taken .. Len(columns')] : Runs(v)'
    BY <2>11, <2>13
  <2> QED
    BY <2>14 DEF SeriesInOrder, Runs, Run
<1>8. ASSUME NEW c \in Reader, Ends(c) PROVE SeriesInOrder'
  <2>1. CASE c = "httpd"
    <3>1. rpc'["httpd"] = "idle"
      BY <1>2, <1>8, <2>1 DEF Ends
    <3> QED
      BY <1>3, <3>1
  <2>2. CASE c # "httpd"
    <3>1. UNCHANGED <<header, series>> /\ rpc'["httpd"] = rpc["httpd"]
      BY <1>2, <1>8, <2>2 DEF Ends
    <3> QED
      BY <1>3, <1>4, <3>1
  <2> QED
    BY <2>1, <2>2
<1>9. ASSUME NEW c \in Reader, NEW document \in {"status", "history"}, Begins(c, document)
      PROVE  SeriesInOrder'
  <2>1. rpc' = [rpc EXCEPT ![c] = document] /\ UNCHANGED <<header, series>>
    BY <1>9 DEF Begins
  <2> QED
    BY <1>2, <1>3, <1>4, <2>1
<1>10. ASSUME NEW c \in Reader, TimeStatus(c) PROVE SeriesInOrder'
  <2>1. rpc' = [rpc EXCEPT ![c] = "done"] /\ UNCHANGED <<header, series>>
    BY <1>10 DEF TimeStatus
  <2> QED
    BY <1>2, <1>3, <1>4, <2>1
<1>11. CASE UNCHANGED <<rpc, header, series>>
  BY <1>3, <1>4, <1>11
<1>12. \/ UNCHANGED <<rpc, header, series>> \/ SendHeader \/ SendSeries
       \/ \E c \in Reader : TimeStatus(c) \/ Ends(c)
       \/ \E c \in Reader, document \in {"status", "history"} : Begins(c, document)
  BY DEF Next, vars, readerVars, Tick, NameSlot, CountSlot, ScanEnds, CycleBegins, RecordRead,
         PublishEvent, CycleEnds, OnConnection, CopySlot
<1> QED
  BY <1>5, <1>6, <1>7, <1>8, <1>9, <1>10, <1>11, <1>12

\* Every series of a history document is a run of its slot's newest samples at a moment after
\* the header's, and no series is older than the one before it, whatever the sensor task adds
\* while the document is sent (history_handler).
THEOREM SeriesAlwaysInOrder == Spec => []SeriesInOrder
<1>1. Init => TypeInv /\ RingsInv /\ TaskInv /\ SeriesInv
  <2> SUFFICES ASSUME Init PROVE TypeInv /\ RingsInv /\ TaskInv /\ SeriesInv
    OBVIOUS
  <2>1. TypeInv
    BY ApiTypeInit DEF TypeInv, Unsent, Init
  <2>2. TaskInv
    BY Constants DEF Init, TaskInv, Slot
  <2>3. RowsInv
    BY Constants DEF Init, RowsInv, NoRow, NoReading
  <2>4. HeaderInv
    BY DEF Init, HeaderInv
  <2>5. SeriesInOrder
    BY DEF Init, SeriesInOrder, Reader
  <2> QED
    BY <2>1, <2>2, <2>3, <2>4, <2>5, RingsInit DEF SeriesInv
<1>2. TypeInv /\ RingsInv /\ TaskInv /\ SeriesInv /\ [Next]_vars => SeriesInv'
  BY RowsStep, HeaderStep, OrderStep DEF SeriesInv
<1>3. TypeInv /\ TaskInv /\ [Next]_vars => TaskInv'
  BY TaskStep
<1>4. SeriesInv => SeriesInOrder
  BY DEF SeriesInv
<1> QED
  BY <1>1, <1>2, <1>3, <1>4, ApiTypeStep, RingsStep, PTL DEF Spec

=============================================================================
