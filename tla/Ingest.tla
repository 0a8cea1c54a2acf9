------------------------------ MODULE Ingest ------------------------------
(***************************************************************************)
(* A reading's way from a board's outbox to temperature_raw: the broker's  *)
(* persistent session for sc-ingest (server/mosquitto/hc.conf), its client *)
(* and process (server/ingest/sc_ingest.py, sc-ingest.service) and the     *)
(* table (server/db/schema.sql), with lost connections, crashes, restarts, *)
(* database outages and the redeliveries they cause.                       *)
(*                                                                         *)
(* A message is a reading with the packet id the broker gave it. Messages  *)
(* are delivered and handled in the order of their ids, so sets of them    *)
(* stand for the queues and the connection. What makes a reading           *)
(* acceptable to parse_reading and to the table's CHECK is abstracted to   *)
(* two sets of readings. The broker and the boards are external.           *)
(***************************************************************************)
EXTENDS Integers, FiniteSets

CONSTANTS
    Reading,      \* readings the boards publish
    Plausible,    \* those parse_reading() does not raise ValueError for
    Insertable,   \* those temperature_raw's CHECK lets in
    Key,          \* the values of (sensor_id, ts)
    KeyOf,        \* the key of a reading
    NoReading,    \* "no row", "no message at hand"
    MaxInflight,  \* max_inflight_messages
    MaxQueued,    \* max_queued_messages
    MaxFaults,    \* bound: lost connections, crashes and outages
    MaxLosses     \* bound: broker crashes that lose what was not saved yet

\* sc_ingest.py:60: the bounds of parse_reading() are those of the table's CHECK.
ASSUME ReadingAssumption   == Plausible \subseteq Insertable /\ Insertable \subseteq Reading
ASSUME KeyAssumption       == KeyOf \in [Reading -> Key]
ASSUME NoReadingAssumption == NoReading \notin Reading /\ NoReading \notin [mid: Nat, reading: Reading]
ASSUME QueueAssumption     == MaxInflight \in Nat \ {0} /\ MaxQueued \in Nat
ASSUME FaultsAssumption    == MaxFaults \in Nat /\ MaxLosses \in Nat

VARIABLES
    outbox,    \* readings no board has got a PUBACK for yet
    accepted,  \* readings the broker sent a PUBACK for
    dropped,   \* readings the broker took and dropped, the session's queue being full
    mids,      \* packet ids given so far
    session,   \* messages the broker keeps for sc-ingest until they are acked
    saved,     \* the session as of the last autosave
    sent,      \* messages delivered over the running connection and not acked
    link,      \* the client is connected
    inbox,     \* messages the client has not handled yet
    acks,      \* PUBACKs on their way to the broker
    up,        \* the process runs
    hand,      \* the message on_message is handling
    step,      \* where on_message is
    db,        \* PostgreSQL accepts connections
    conn,      \* the process's connection to it (self.db) works
    rows,      \* temperature_raw
    refused,   \* readings parse_reading refused
    faults,    \* faults so far
    losses     \* broker crashes so far

broker == <<mids, session, saved, sent>>
client == <<link, inbox, acks>>
proc   == <<up, hand, step>>
table  == <<db, conn, rows, refused>>
vars   == <<outbox, accepted, dropped, broker, client, proc, table, faults, losses>>

Message == [mid: Nat, reading: Reading]

TypeOK ==
    /\ outbox \subseteq Reading
    /\ accepted \subseteq Reading
    /\ dropped \subseteq Reading
    /\ mids \in Nat
    /\ session \subseteq Message
    /\ saved \subseteq Message
    /\ sent \subseteq Message
    /\ link \in BOOLEAN
    /\ inbox \subseteq Message
    /\ acks \subseteq Message
    /\ up \in BOOLEAN
    /\ hand \in Message \cup {NoReading}
    /\ step \in {"idle", "insert", "ack"}
    /\ db \in BOOLEAN
    /\ conn \in BOOLEAN
    /\ rows \in [Key -> Reading \cup {NoReading}]
    /\ refused \subseteq Reading
    /\ faults \in 0 .. MaxFaults
    /\ losses \in 0 .. MaxLosses

\* sc-ingest has subscribed before (the session exists) and is not running yet.
Init ==
    /\ outbox = Reading
    /\ accepted = {}
    /\ dropped = {}
    /\ mids = 0
    /\ session = {}
    /\ saved = {}
    /\ sent = {}
    /\ link = FALSE
    /\ inbox = {}
    /\ acks = {}
    /\ up = FALSE
    /\ hand = NoReading
    /\ step = "idle"
    /\ db = TRUE
    /\ conn = FALSE
    /\ rows = [k \in Key |-> NoReading]
    /\ refused = {}
    /\ faults = 0
    /\ losses = 0

Fault ==
    /\ faults < MaxFaults
    /\ faults' = faults + 1

\* The message that is next among some, the one with the smallest id.
FirstOf(messages) == {m \in messages : \A n \in messages : m.mid <= n.mid}

-----------------------------------------------------------------------------
(* The boards and the broker.                                               *)

\* A board publishes a reading of its outbox. The broker queues it for sc-ingest, or drops it
\* when the session is full, and answers PUBACK either way. A board that does not get the
\* PUBACK publishes the reading again.
Publish(r) ==
    LET full == Cardinality(session) >= MaxInflight + MaxQueued IN
    /\ r \in outbox
    /\ mids' = mids + 1
    /\ accepted' = accepted \cup {r}
    /\ session' = IF full THEN session ELSE session \cup {[mid |-> mids + 1, reading |-> r]}
    /\ dropped' = IF full THEN dropped \cup {r} ELSE dropped
    /\ \/ /\ outbox' = outbox \ {r}
          /\ UNCHANGED faults
       \/ /\ Fault
          /\ UNCHANGED outbox
    /\ UNCHANGED <<saved, sent, client, proc, table, losses>>

\* The next message is delivered while fewer than MaxInflight wait for their PUBACK.
Deliver ==
    /\ link
    /\ Cardinality(sent) < MaxInflight
    /\ \E m \in FirstOf(session \ sent) :
          /\ sent' = sent \cup {m}
          /\ inbox' = inbox \cup {m}
    /\ UNCHANGED <<outbox, accepted, dropped, mids, session, saved, link, acks, proc, table, faults, losses>>

\* A PUBACK reaches the broker: the message is done with.
Acked(m) ==
    /\ m \in acks
    /\ acks' = acks \ {m}
    /\ session' = session \ {m}
    /\ sent' = sent \ {m}
    /\ UNCHANGED <<outbox, accepted, dropped, mids, saved, link, inbox, proc, table, faults, losses>>

\* autosave_interval: the broker writes its sessions to disk.
Autosave ==
    /\ saved # session
    /\ saved' = session
    /\ UNCHANGED <<outbox, accepted, dropped, mids, session, sent, client, proc, table, faults, losses>>

\* The broker's host goes down without a last save: it comes back with the sessions on disk.
BrokerCrash ==
    /\ losses < MaxLosses
    /\ losses' = losses + 1
    /\ session' = saved
    /\ link' = FALSE
    /\ acks' = {}
    /\ UNCHANGED <<outbox, accepted, dropped, mids, saved, sent, inbox, proc, table, faults>>

\* The connection breaks. What the client had received it may still handle, but no PUBACK of
\* it arrives.
LinkBreaks ==
    /\ link
    /\ Fault
    /\ link' = FALSE
    /\ acks' = {}
    /\ UNCHANGED <<outbox, accepted, dropped, broker, inbox, proc, table, losses>>

-----------------------------------------------------------------------------
(* sc_ingest.py. Its one thread connects, reads messages and runs           *)
(* on_message, so it reconnects only between two messages.                  *)

\* Mutant: a clean session, which the broker starts empty.
ConnectClean ==
    /\ up
    /\ ~link
    /\ hand = NoReading
    /\ link' = TRUE
    /\ session' = {}
    /\ sent' = {}
    /\ inbox' = {}
    /\ acks' = {}
    /\ UNCHANGED <<outbox, accepted, dropped, mids, saved, proc, table, faults, losses>>

\* The client connects to its persistent session: what was not acked will be delivered again.
Connect ==
    /\ up
    /\ ~link
    /\ hand = NoReading
    /\ link' = TRUE
    /\ sent' = {}
    /\ inbox' = {}
    /\ acks' = {}
    /\ UNCHANGED <<outbox, accepted, dropped, mids, session, saved, proc, table, faults, losses>>

\* client.ack(): a PUBACK is sent, if there is a connection to send it over.
Acknowledge(m) ==
    /\ hand' = NoReading
    /\ step' = "idle"
    /\ acks' = IF link THEN acks \cup {m} ELSE acks

\* on_message parses the next message; one it refuses is acked at once. (So is a status
\* message, which is logged only: for the session it is a reading that is refused.)
OnMessage ==
    /\ up
    /\ hand = NoReading
    /\ \E m \in FirstOf(inbox) :
          /\ inbox' = inbox \ {m}
          /\ \/ /\ m.reading \in Plausible
                /\ hand' = m
                /\ step' = "insert"
                /\ UNCHANGED <<acks, refused>>
             \/ /\ m.reading \notin Plausible
                /\ Acknowledge(m)
                /\ refused' = refused \cup {m.reading}
    /\ UNCHANGED <<outbox, accepted, dropped, broker, link, up, db, conn, rows, faults, losses>>

\* Mutant: a row is replaced when its key is inserted again.
InsertRowReplace(r) == [rows EXCEPT ![KeyOf[r]] = r]

\* INSERT ... ON CONFLICT (sensor_id, ts) DO NOTHING.
InsertRow(r) == IF rows[KeyOf[r]] = NoReading THEN [rows EXCEPT ![KeyOf[r]] = r] ELSE rows

\* Mutant: the message is acked before it is inserted.
InsertAckFirst ==
    /\ step = "insert"
    /\ conn
    /\ hand.reading \in Insertable
    /\ acks' = IF link THEN acks \cup {hand} ELSE acks
    /\ step' = "ack"
    /\ UNCHANGED <<outbox, accepted, dropped, broker, link, inbox, up, hand, table, faults, losses>>

\* The insert commits (autocommit).
Insert ==
    /\ step = "insert"
    /\ conn
    /\ hand.reading \in Insertable
    /\ rows' = InsertRow(hand.reading)
    /\ step' = "ack"
    /\ UNCHANGED <<outbox, accepted, dropped, broker, client, up, hand, db, conn, refused, faults, losses>>

\* Mutant: on_message acks its message and does not return.
AckHandAgain ==
    /\ step = "ack"
    /\ hand' = NoReading
    /\ acks' = IF link THEN acks \cup {hand} ELSE acks
    /\ UNCHANGED <<outbox, accepted, dropped, broker, link, inbox, up, step, table, faults, losses>>

\* The ack that follows the commit.
AckHand ==
    /\ step = "ack"
    /\ Acknowledge(hand)
    /\ UNCHANGED <<outbox, accepted, dropped, broker, link, inbox, up, table, faults, losses>>

\* The process is gone: what it had at hand and had not read yet stays unacked.
Exit ==
    /\ up' = FALSE
    /\ hand' = NoReading
    /\ step' = "idle"
    /\ link' = FALSE
    /\ inbox' = {}
    /\ acks' = {}
    /\ conn' = FALSE

\* Mutant: the message is acked although its insert failed.
InsertFailsAcked ==
    /\ step = "insert"
    /\ ~conn
    /\ Acknowledge(hand)
    /\ UNCHANGED <<outbox, accepted, dropped, broker, link, inbox, up, table, faults, losses>>

\* psycopg.Error: the database has been down since the process connected to it, refuses the row,
\* or goes away now, before the commit or after it. on_message exits without an ack.
InsertFails ==
    /\ step = "insert"
    /\ Exit
    /\ \/ /\ ~conn \/ hand.reading \notin Insertable
          /\ UNCHANGED <<rows, faults>>
       \/ /\ conn
          /\ hand.reading \in Insertable
          /\ Fault
          /\ rows' \in {rows, InsertRow(hand.reading)}
    /\ UNCHANGED <<outbox, accepted, dropped, broker, db, refused, losses>>

Kill ==
    /\ up
    /\ Fault
    /\ Exit
    /\ UNCHANGED <<outbox, accepted, dropped, broker, db, rows, refused, losses>>

\* Mutant: systemd starts the service only while nothing has gone wrong.
RestartNever ==
    /\ ~up
    /\ db
    /\ faults = 0
    /\ up' = TRUE
    /\ conn' = TRUE
    /\ UNCHANGED <<outbox, accepted, dropped, broker, client, hand, step, db, rows, refused, faults, losses>>

\* systemd starts the service again, which connects to the database; without the database it exits
\* at once (Ingest.__init__).
Restart ==
    /\ ~up
    /\ db
    /\ up' = TRUE
    /\ conn' = TRUE
    /\ UNCHANGED <<outbox, accepted, dropped, broker, client, hand, step, db, rows, refused, faults, losses>>

\* Connections to the database end with it; a new one is made by a new process only.
DbDown ==
    /\ db
    /\ Fault
    /\ db' = FALSE
    /\ conn' = FALSE
    /\ UNCHANGED <<outbox, accepted, dropped, broker, client, proc, rows, refused, losses>>

DbUp ==
    /\ ~db
    /\ db' = TRUE
    /\ UNCHANGED <<outbox, accepted, dropped, broker, client, proc, conn, rows, refused, faults, losses>>

-----------------------------------------------------------------------------
Done == outbox = {} /\ session = {} /\ inbox = {} /\ hand = NoReading

\* Nothing is left to publish or to handle: the model stops, the system waits for more.
Idle == Done /\ UNCHANGED vars

Next ==
    \/ \E r \in Reading : Publish(r)
    \/ Deliver \/ (\E m \in acks : Acked(m)) \/ Autosave \/ BrokerCrash \/ LinkBreaks
    \/ Connect \/ OnMessage \/ Insert \/ AckHand \/ InsertFails
    \/ Kill \/ Restart \/ DbDown \/ DbUp
    \/ Idle

Spec == Init /\ [][Next]_vars

\* Boards retry, the broker delivers, the client reconnects (reconnect_delay_set), the thread
\* runs, systemd restarts the service (Restart=always) and somebody brings the database back.
Fairness ==
    /\ WF_vars(\E r \in Reading : Publish(r))
    /\ WF_vars(Deliver)
    /\ WF_vars(\E m \in acks : Acked(m))
    /\ WF_vars(Connect)
    /\ WF_vars(OnMessage)
    /\ WF_vars(Insert \/ InsertFails)
    /\ WF_vars(AckHand)
    /\ WF_vars(Restart)
    /\ WF_vars(DbUp)

FairSpec == Spec /\ Fairness

-----------------------------------------------------------------------------
(* What has to hold.                                                        *)

HasRow(r) == rows[KeyOf[r]] # NoReading

InSession(r) == \E m \in session : m.reading = r

\* "A reading is acked only after it is committed" (sc_ingest.py), or after it was refused:
\* also for a PUBACK that belongs to a delivery before a reconnect or a restart.
AckedIsSettled ==
    \A m \in acks : HasRow(m.reading) \/ m.reading \in refused

\* While the broker keeps its sessions, no accepted reading gets lost between the board, which
\* has forgotten it, and the table: it waits in the session, has its row, was refused, or fell
\* to a full queue.
NothingLost ==
    losses = 0 => \A r \in accepted : InSession(r) \/ HasRow(r) \/ r \in refused \/ r \in dropped

\* What the broker has written to disk survives anything: an autosaved message is still in the
\* session or its reading is settled, so a broker crash redelivers it rather than losing it.
SavedIsSafe ==
    \A m \in saved : m \in session \/ HasRow(m.reading) \/ m.reading \in refused

\* The promise of ReadingStore, in the terms of this module.
Store == INSTANCE ReadingStore WITH given <- refused \cup dropped

StoreSpec == Store!Spec

\* Every reading a board got rid of is settled in the end, however often the process, the
\* connection and the database fail on the way.
EverySettled == Store!EverySettled

=============================================================================
