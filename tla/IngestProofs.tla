--------------------------- MODULE IngestProofs ---------------------------
(***************************************************************************)
(* Theorems about Ingest for any readings, keys, window and queue sizes,   *)
(* and any number of faults and broker crashes.                            *)
(***************************************************************************)
EXTENDS Ingest, TLAPS

\* on_message has a message at hand exactly while it is in a step with one, and the one it
\* is about to ack has its row.
AtHand ==
    /\ step = "idle" <=> hand = NoReading
    /\ hand # NoReading => hand.reading \in Plausible
    /\ step = "ack" => HasRow(hand.reading)

\* Every message was made of an accepted reading.
FromAccepted ==
    /\ \A m \in session \cup saved \cup inbox \cup acks : m.reading \in accepted
    /\ hand # NoReading => hand.reading \in accepted

\* The inductive invariant: AckedIsSettled needs the row of the message at hand, NothingLost and
\* SavedIsSafe need AckedIsSettled when a PUBACK removes a message, and the refinement of
\* ReadingStore needs to know that what is stored was accepted.
IngestInv == TypeOK /\ AtHand /\ FromAccepted /\ AckedIsSettled /\ NothingLost /\ SavedIsSafe

-----------------------------------------------------------------------------
(* Types.                                                                   *)

\* The initial state has the types.
LEMMA IngestTypeInit == Init => TypeOK
<1> SUFFICES ASSUME Init PROVE TypeOK
  OBVIOUS
<1>1. mids \in Nat /\ faults \in 0 .. MaxFaults /\ losses \in 0 .. MaxLosses
  BY FaultsAssumption DEF Init
<1>2. rows \in [Key -> Reading \cup {NoReading}]
  BY DEF Init
<1> QED
  BY <1>1, <1>2 DEF Init, TypeOK

\* An insert leaves the table a table, gives the reading's key a row and changes no row.
LEMMA InsertRowFacts ==
    ASSUME TypeOK, NEW r \in Reading
    PROVE  /\ InsertRow(r) \in [Key -> Reading \cup {NoReading}]
           /\ InsertRow(r)[KeyOf[r]] # NoReading
           /\ \A k \in Key : rows[k] # NoReading => InsertRow(r)[k] = rows[k]
<1>1. KeyOf[r] \in Key /\ r # NoReading
  BY KeyAssumption, NoReadingAssumption
<1>2. CASE rows[KeyOf[r]] = NoReading
  BY <1>1, <1>2 DEF InsertRow, TypeOK
<1>3. CASE rows[KeyOf[r]] # NoReading
  BY <1>1, <1>3 DEF InsertRow, TypeOK
<1> QED
  BY <1>2, <1>3

\* The first of some messages is one of them.
LEMMA FirstOfSubset == \A S : FirstOf(S) \subseteq S
  BY DEF FirstOf

\* Every step keeps the types.
LEMMA IngestTypeStep == TypeOK /\ AtHand /\ [Next]_vars => TypeOK'
<1> SUFFICES ASSUME TypeOK, AtHand, [Next]_vars PROVE TypeOK'
  OBVIOUS
<1> USE FaultsAssumption DEF TypeOK, broker, client, proc, table
<1>1. ASSUME NEW r \in Reading, Publish(r) PROVE TypeOK'
  <2>1. [mid |-> mids + 1, reading |-> r] \in Message /\ mids + 1 \in Nat
    BY DEF Message
  <2>2. session' \subseteq Message /\ dropped' \subseteq Reading /\ accepted' \subseteq Reading
    BY <1>1, <2>1 DEF Publish
  <2>3. outbox' \subseteq Reading /\ faults' \in 0 .. MaxFaults
    BY <1>1 DEF Publish, Fault
  <2> QED
    BY <1>1, <2>1, <2>2, <2>3 DEF Publish
<1>2. CASE Deliver
  BY <1>2, FirstOfSubset DEF Deliver
<1>3. ASSUME NEW m \in acks, Acked(m) PROVE TypeOK'
  BY <1>3 DEF Acked
<1>4. CASE Autosave
  BY <1>4 DEF Autosave
<1>5. CASE BrokerCrash
  <2>1. losses' \in 0 .. MaxLosses
    BY <1>5 DEF BrokerCrash
  <2> QED
    BY <1>5, <2>1 DEF BrokerCrash
<1>6. CASE LinkBreaks
  <2>1. faults' \in 0 .. MaxFaults
    BY <1>6 DEF LinkBreaks, Fault
  <2> QED
    BY <1>6, <2>1 DEF LinkBreaks
<1>7. CASE Connect
  BY <1>7 DEF Connect
<1>8. CASE OnMessage
  <2>1. PICK m \in FirstOf(inbox) :
              /\ inbox' = inbox \ {m}
              /\ \/ hand' = m /\ step' = "insert" /\ UNCHANGED <<acks, refused>>
                 \/ Acknowledge(m) /\ refused' = refused \cup {m.reading}
    BY <1>8 DEF OnMessage
  <2>2. m \in Message /\ m.reading \in Reading
    BY <2>1, FirstOfSubset DEF Message
  <2>3. /\ hand' \in Message \cup {NoReading} /\ step' \in {"idle", "insert", "ack"}
        /\ acks' \subseteq Message /\ refused' \subseteq Reading
    BY <2>1, <2>2 DEF Acknowledge
  <2> QED
    BY <1>8, <2>1, <2>3 DEF OnMessage
<1>9. CASE Insert
  <2>1. hand.reading \in Reading
    BY <1>9, ReadingAssumption DEF Insert
  <2> QED
    BY <1>9, <2>1, InsertRowFacts DEF Insert
<1>10. CASE AckHand
  <2>1. hand' = NoReading /\ step' = "idle" /\ acks' \subseteq acks \cup {hand}
    BY <1>10 DEF AckHand, Acknowledge
  <2>2. hand \in Message
    BY <1>10 DEF AckHand, AtHand
  <2> QED
    BY <1>10, <2>1, <2>2 DEF AckHand
<1>11. CASE InsertFails
  <2>1. rows' \in [Key -> Reading \cup {NoReading}] /\ faults' \in 0 .. MaxFaults
    <3>1. CASE UNCHANGED <<rows, faults>>
      BY <3>1
    <3>2. CASE hand.reading \in Insertable /\ Fault /\ rows' \in {rows, InsertRow(hand.reading)}
      BY <3>2, ReadingAssumption, InsertRowFacts DEF Fault
    <3> QED
      BY <1>11, <3>1, <3>2 DEF InsertFails
  <2> QED
    BY <1>11, <2>1 DEF InsertFails, Exit
<1>12. CASE Kill
  <2>1. faults' \in 0 .. MaxFaults
    BY <1>12 DEF Kill, Fault
  <2> QED
    BY <1>12, <2>1 DEF Kill, Exit
<1>13. CASE Restart \/ DbUp
  BY <1>13 DEF Restart, DbUp
<1>14. CASE DbDown
  <2>1. faults' \in 0 .. MaxFaults
    BY <1>14 DEF DbDown, Fault
  <2> QED
    BY <1>14, <2>1 DEF DbDown
<1>15. CASE UNCHANGED vars
  BY <1>15 DEF vars
<1> QED
  BY <1>1, <1>2, <1>3, <1>4, <1>5, <1>6, <1>7, <1>8, <1>9, <1>10, <1>11, <1>12, <1>13, <1>14, <1>15
     DEF Next, Idle

-----------------------------------------------------------------------------
(* Nothing that was reached is taken back.                                  *)

\* Rows stay, and what was accepted, refused or dropped remains so.
LEMMA Monotone ==
    ASSUME TypeOK, AtHand, [Next]_vars
    PROVE  /\ \A k \in Key : rows[k] # NoReading => rows'[k] = rows[k]
           /\ accepted \subseteq accepted' /\ refused \subseteq refused' /\ dropped \subseteq dropped'
           /\ losses' = 0 => losses = 0
<1>1. rows' = rows \/ \E r \in Reading : rows' = InsertRow(r)
  <2>1. CASE Insert
    BY <2>1, ReadingAssumption DEF Insert
  <2>2. CASE InsertFails
    BY <2>2, ReadingAssumption DEF InsertFails
  <2>3. Insert \/ InsertFails \/ UNCHANGED rows
    BY DEF Next, Publish, Deliver, Acked, Autosave, BrokerCrash, LinkBreaks, Connect, OnMessage, AckHand,
           Kill, Restart, DbDown, DbUp, Idle, vars, table
  <2> QED
    BY <2>1, <2>2, <2>3
<1>2. \A k \in Key : rows[k] # NoReading => rows'[k] = rows[k]
  BY <1>1, InsertRowFacts
<1>3. accepted \subseteq accepted' /\ refused \subseteq refused' /\ dropped \subseteq dropped'
  BY DEF Next, Publish, Deliver, Acked, Autosave, BrokerCrash, LinkBreaks, Connect, OnMessage, Insert,
         AckHand, InsertFails, Kill, Restart, DbDown, DbUp, Idle, vars, table
<1>4. losses' = losses + 1 \/ losses' = losses
  BY DEF Next, Publish, Deliver, Acked, Autosave, BrokerCrash, LinkBreaks, Connect, OnMessage, Insert,
         AckHand, InsertFails, Kill, Restart, DbDown, DbUp, Idle, vars, table
<1>5. losses' = 0 => losses = 0
  BY <1>4 DEF TypeOK
<1> QED
  BY <1>2, <1>3, <1>5

\* A reading that has its row or is refused stays settled.
LEMMA SettledStays ==
    ASSUME TypeOK, AtHand, [Next]_vars, NEW r \in Reading, HasRow(r) \/ r \in refused
    PROVE  HasRow(r)' \/ r \in refused'
<1>1. KeyOf[r] \in Key
  BY KeyAssumption
<1> QED
  BY <1>1, Monotone DEF HasRow

-----------------------------------------------------------------------------
(* The steps.                                                               *)

\* on_message takes, inserts and acks one message after another.
LEMMA AtHandStep == IngestInv /\ [Next]_vars => AtHand'
<1> SUFFICES ASSUME IngestInv, [Next]_vars PROVE AtHand'
  OBVIOUS
<1> USE DEF IngestInv
<1>1. CASE OnMessage
  <2>1. PICK m \in FirstOf(inbox) :
              \/ m.reading \in Plausible /\ hand' = m /\ step' = "insert"
              \/ Acknowledge(m)
    BY <1>1 DEF OnMessage
  <2>2. m # NoReading
    BY <2>1, FirstOfSubset, NoReadingAssumption DEF TypeOK, Message
  <2> QED
    BY <2>1, <2>2 DEF AtHand, Acknowledge
<1>2. CASE Insert
  <2>1. hand' = hand /\ step' = "ack" /\ step = "insert" /\ rows' = InsertRow(hand.reading)
    BY <1>2 DEF Insert
  <2>2. hand.reading \in Reading
    BY <1>2, ReadingAssumption DEF Insert
  <2>3. HasRow(hand.reading)'
    BY <2>1, <2>2, InsertRowFacts DEF HasRow
  <2> QED
    BY <2>1, <2>3 DEF AtHand
<1>3. CASE AckHand
  BY <1>3 DEF AckHand, Acknowledge, AtHand
<1>4. CASE InsertFails \/ Kill
  BY <1>4 DEF InsertFails, Kill, Exit, AtHand
<1>5. CASE UNCHANGED <<hand, step, rows>>
  BY <1>5 DEF AtHand, HasRow
<1> QED
  BY <1>1, <1>2, <1>3, <1>4, <1>5 DEF Next, Publish, Deliver, Acked, Autosave, BrokerCrash, LinkBreaks,
     Connect, Restart, DbDown, DbUp, Idle, vars, proc, table

\* Messages come from accepted readings and are only moved about.
LEMMA FromAcceptedStep == IngestInv /\ [Next]_vars => FromAccepted'
<1> SUFFICES ASSUME IngestInv, [Next]_vars PROVE FromAccepted'
  OBVIOUS
<1> USE DEF IngestInv, FromAccepted, broker, client, proc
<1>1. ASSUME NEW r \in Reading, Publish(r) PROVE FromAccepted'
  <2>1. session' \subseteq session \cup {[mid |-> mids + 1, reading |-> r]}
    BY <1>1 DEF Publish
  <2>2. accepted' = accepted \cup {r} /\ UNCHANGED <<saved, inbox, acks, hand>>
    BY <1>1 DEF Publish
  <2> QED
    BY <2>1, <2>2
<1>2. CASE Deliver
  BY <1>2, FirstOfSubset DEF Deliver
<1>3. ASSUME NEW m \in acks, Acked(m) PROVE FromAccepted'
  BY <1>3 DEF Acked
<1>4. CASE Autosave \/ BrokerCrash \/ LinkBreaks \/ Connect
  BY <1>4 DEF Autosave, BrokerCrash, LinkBreaks, Connect
<1>5. CASE OnMessage
  BY <1>5, FirstOfSubset DEF OnMessage, Acknowledge
<1>6. CASE AckHand
  BY <1>6 DEF AckHand, Acknowledge, AtHand
<1>7. CASE InsertFails \/ Kill
  BY <1>7 DEF InsertFails, Kill, Exit
<1>8. CASE Insert \/ Restart \/ DbDown \/ DbUp \/ UNCHANGED vars
  BY <1>8 DEF Insert, Restart, DbDown, DbUp, vars
<1> QED
  BY <1>1, <1>2, <1>3, <1>4, <1>5, <1>6, <1>7, <1>8 DEF Next, Idle

\* A message is acked once its reading is settled.
LEMMA AckedStep == IngestInv /\ [Next]_vars => AckedIsSettled'
<1> SUFFICES ASSUME IngestInv, [Next]_vars, NEW m \in acks' PROVE HasRow(m.reading)' \/ m.reading \in refused'
  BY DEF AckedIsSettled
<1> USE DEF IngestInv
<1>1. CASE m \in acks
  <2>1. m.reading \in Reading
    BY <1>1 DEF TypeOK, Message
  <2>2. HasRow(m.reading) \/ m.reading \in refused
    BY <1>1 DEF AckedIsSettled
  <2> QED
    BY <2>1, <2>2, SettledStays
<1>2. CASE m \notin acks
  <2>1. OnMessage \/ AckHand
    BY <1>2 DEF Next, Publish, Deliver, Acked, Autosave, BrokerCrash, LinkBreaks, Connect, Insert,
       InsertFails, Kill, Exit, Restart, DbDown, DbUp, Idle, vars, client
  <2>2. CASE OnMessage
    BY <1>2, <2>2 DEF OnMessage, Acknowledge
  <2>3. CASE AckHand
    <3>1. m = hand /\ UNCHANGED rows
      BY <1>2, <2>3 DEF AckHand, Acknowledge, table
    <3>2. HasRow(hand.reading)
      BY <2>3 DEF AckHand, AtHand
    <3> QED
      BY <3>1, <3>2 DEF HasRow
  <2> QED
    BY <2>1, <2>2, <2>3
<1> QED
  BY <1>1, <1>2

\* A message leaves the session when it is acked, or when the broker loses it.
LEMMA SessionShrinks ==
    ASSUME [Next]_vars, ~BrokerCrash
    PROVE  \A m \in session : m \in session' \/ m \in acks
  BY DEF Next, Publish, Deliver, Acked, Autosave, BrokerCrash, LinkBreaks, Connect, OnMessage, Insert,
         AckHand, InsertFails, Kill, Restart, DbDown, DbUp, Idle, vars, broker

\* As long as the broker loses nothing, nothing is lost.
LEMMA NothingLostStep == IngestInv /\ [Next]_vars => NothingLost'
<1> SUFFICES ASSUME IngestInv, [Next]_vars, losses' = 0, NEW r \in accepted'
             PROVE  InSession(r)' \/ HasRow(r)' \/ r \in refused' \/ r \in dropped'
  BY DEF NothingLost
<1> USE DEF IngestInv
<1>1. losses = 0 /\ ~BrokerCrash
  BY Monotone DEF BrokerCrash, TypeOK
<1>2. CASE r \in accepted
  <2>1. r \in Reading
    BY <1>2 DEF TypeOK
  <2>2. InSession(r) \/ HasRow(r) \/ r \in refused \/ r \in dropped
    BY <1>1, <1>2 DEF NothingLost
  <2>3. CASE HasRow(r) \/ r \in refused
    BY <2>1, <2>3, SettledStays
  <2>4. CASE r \in dropped
    BY <2>4, Monotone
  <2>5. CASE InSession(r)
    <3>1. PICK m \in session : m.reading = r
      BY <2>5 DEF InSession
    <3>2. CASE m \in session'
      BY <3>1, <3>2 DEF InSession
    <3>3. CASE m \in acks
      <4>1. HasRow(r) \/ r \in refused
        BY <3>1, <3>3 DEF AckedIsSettled
      <4> QED
        BY <2>1, <4>1, SettledStays
    <3> QED
      BY <1>1, <3>2, <3>3, SessionShrinks
  <2> QED
    BY <2>2, <2>3, <2>4, <2>5
<1>3. CASE r \notin accepted
  <2>1. Publish(r)
    BY <1>3 DEF Next, Publish, Deliver, Acked, Autosave, BrokerCrash, LinkBreaks, Connect, OnMessage,
       Insert, AckHand, InsertFails, Kill, Restart, DbDown, DbUp, Idle, vars
  <2>2. r \in dropped' \/ [mid |-> mids + 1, reading |-> r] \in session'
    BY <2>1 DEF Publish
  <2> QED
    BY <2>2 DEF InSession
<1> QED
  BY <1>2, <1>3

\* What is on disk stays in the session until it is settled.
LEMMA SavedStep == IngestInv /\ [Next]_vars => SavedIsSafe'
<1> SUFFICES ASSUME IngestInv, [Next]_vars, NEW m \in saved'
             PROVE  m \in session' \/ HasRow(m.reading)' \/ m.reading \in refused'
  BY DEF SavedIsSafe
<1> USE DEF IngestInv
<1>1. CASE Autosave
  BY <1>1 DEF Autosave
<1>2. CASE BrokerCrash
  BY <1>2 DEF BrokerCrash
<1>3. CASE ~Autosave /\ ~BrokerCrash
  <2>1. m \in saved
    BY <1>3 DEF Next, Publish, Deliver, Acked, Autosave, LinkBreaks, Connect, OnMessage, Insert,
       AckHand, InsertFails, Kill, Restart, DbDown, DbUp, Idle, vars, broker
  <2>2. m.reading \in Reading
    BY <2>1 DEF TypeOK, Message
  <2>3. (HasRow(m.reading) \/ m.reading \in refused) => (HasRow(m.reading)' \/ m.reading \in refused')
    BY <2>2, SettledStays
  <2>4. m \in session => m \in session' \/ m \in acks
    BY <1>3, SessionShrinks
  <2>5. m \in acks => HasRow(m.reading) \/ m.reading \in refused
    BY DEF AckedIsSettled
  <2> QED
    BY <2>1, <2>3, <2>4, <2>5 DEF SavedIsSafe
<1> QED
  BY <1>1, <1>2, <1>3

\* The invariant holds initially and every step keeps it.
LEMMA IngestInvStep == IngestInv /\ [Next]_vars => IngestInv'
  BY IngestTypeStep, AtHandStep, FromAcceptedStep, AckedStep, NothingLostStep, SavedStep DEF IngestInv

LEMMA IngestInvInit == Init => IngestInv
  BY IngestTypeInit DEF Init, IngestInv, AtHand, FromAccepted, AckedIsSettled, NothingLost, SavedIsSafe

THEOREM IngestInvariant == Spec => []IngestInv
  BY IngestInvInit, IngestInvStep, PTL DEF Spec

\* Type correctness: whatever is redelivered, crashes and restarts, on_message has at most one
\* message at hand, and the table at most one row of a key.
THEOREM IngestTypeCorrect == Spec => []TypeOK
<1>1. IngestInv => TypeOK
  BY DEF IngestInv
<1> QED
  BY <1>1, IngestInvariant, PTL

\* A PUBACK never overtakes the commit, whatever crashes and reconnects come between.
THEOREM AcksFollowCommits == Spec => []AckedIsSettled
<1>1. IngestInv => AckedIsSettled
  BY DEF IngestInv
<1> QED
  BY <1>1, IngestInvariant, PTL

\* No reading the broker accepted gets lost while the broker keeps its sessions.
THEOREM NoReadingLost == Spec => []NothingLost
<1>1. IngestInv => NothingLost
  BY DEF IngestInv
<1> QED
  BY <1>1, IngestInvariant, PTL

\* No reading the broker has saved gets lost, broker crashes included.
THEOREM NoSavedReadingLost == Spec => []SavedIsSafe
<1>1. IngestInv => SavedIsSafe
  BY DEF IngestInv
<1> QED
  BY <1>1, IngestInvariant, PTL

-----------------------------------------------------------------------------
(* Ingest implements ReadingStore (its safety part).                        *)

\* Every step of Ingest accepts, stores or refuses a reading, or does nothing the store sees.
LEMMA StoreStep == IngestInv /\ [Next]_vars => [Store!Next]_(Store!svars)
<1> SUFFICES ASSUME IngestInv, [Next]_vars PROVE [Store!Next]_(Store!svars)
  OBVIOUS
<1> USE DEF IngestInv, table
<1>1. ASSUME NEW r \in Reading, Publish(r) PROVE Store!Next
  <2>1. Store!Accept(r)
    BY <1>1 DEF Publish, Store!Accept
  <2> QED
    BY <2>1 DEF Store!Next
<1>2. CASE OnMessage
  <2>1. PICK m \in inbox : \/ UNCHANGED refused
                           \/ refused' = refused \cup {m.reading}
    BY <1>2, FirstOfSubset DEF OnMessage
  <2>2. m.reading \in accepted /\ m.reading \in Reading
    BY <2>1 DEF FromAccepted, TypeOK
  <2>3. UNCHANGED <<accepted, dropped, rows>>
    BY <1>2 DEF OnMessage
  <2>4. CASE refused' = refused \cup {m.reading}
    <3>1. Store!Refuse(m.reading)
      BY <2>2, <2>3, <2>4 DEF Store!Refuse
    <3> QED
      BY <2>2, <3>1 DEF Store!Next, Store!Settle
  <2> QED
    BY <2>1, <2>3, <2>4 DEF Store!svars
<1>3. ASSUME UNCHANGED <<accepted, refused, dropped>>, hand.reading \in accepted, hand.reading \in Reading,
             rows' \in {rows, InsertRow(hand.reading)}
      PROVE  [Store!Next]_(Store!svars)
  <2>1. CASE rows' = rows
    BY <1>3, <2>1 DEF Store!svars
  <2>2. CASE rows' # rows
    <3>1. rows' = [rows EXCEPT ![KeyOf[hand.reading]] = hand.reading] /\ rows[KeyOf[hand.reading]] = NoReading
      BY <1>3, <2>2 DEF InsertRow
    <3>2. Store!Store(hand.reading)
      BY <1>3, <3>1 DEF Store!Store
    <3> QED
      BY <1>3, <3>2 DEF Store!Next, Store!Settle
  <2> QED
    BY <2>1, <2>2
<1>4. CASE Insert \/ InsertFails
  <2>1. hand.reading \in accepted /\ hand.reading \in Reading
    BY <1>4 DEF Insert, InsertFails, AtHand, FromAccepted, TypeOK
  <2>2. UNCHANGED <<accepted, refused, dropped>> /\ rows' \in {rows, InsertRow(hand.reading)}
    BY <1>4 DEF Insert, InsertFails
  <2> QED
    BY <1>3, <2>1, <2>2
<1>5. CASE UNCHANGED <<accepted, rows, refused, dropped>>
  BY <1>5 DEF Store!svars
<1> QED
  BY <1>1, <1>2, <1>4, <1>5 DEF Next, Deliver, Acked, Autosave, BrokerCrash, LinkBreaks, Connect, AckHand,
     Kill, Restart, DbDown, DbUp, Idle, vars

\* Whatever fails on the way, the server is a store that takes, stores and refuses readings.
THEOREM ImplementsStore == Spec => StoreSpec
<1>1. Init => Store!Init
  BY DEF Init, Store!Init
<1> QED
  BY <1>1, StoreStep, IngestInvariant, PTL DEF Spec, StoreSpec, Store!Spec

=============================================================================
