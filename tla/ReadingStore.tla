--------------------------- MODULE ReadingStore ---------------------------
(***************************************************************************)
(* What the server promises the boards: every reading the broker accepts   *)
(* is settled in the end - its (sensor_id, ts) has a row, or it was refused *)
(* for what it says - a row once written stays as it is, and nothing but   *)
(* accepted readings is ever stored. How that survives restarts, lost      *)
(* connections and redeliveries is Ingest's business.                      *)
(***************************************************************************)
CONSTANTS
    Reading,    \* readings the boards publish
    Key,        \* the values of (sensor_id, ts)
    KeyOf,      \* the key of a reading
    NoReading   \* "no row"

VARIABLES
    accepted,   \* readings the broker took
    rows,       \* temperature_raw: the reading stored under a key
    given       \* readings given up: refused, or dropped by a full queue

svars == <<accepted, rows, given>>

Settled(r) == rows[KeyOf[r]] # NoReading \/ r \in given

Init ==
    /\ accepted = {}
    /\ rows = [k \in Key |-> NoReading]
    /\ given = {}

\* The broker may drop a reading it accepts for want of room.
Accept(r) ==
    /\ accepted' = accepted \cup {r}
    /\ given' \in {given, given \cup {r}}
    /\ UNCHANGED rows

Store(r) ==
    /\ r \in accepted
    /\ rows[KeyOf[r]] = NoReading
    /\ rows' = [rows EXCEPT ![KeyOf[r]] = r]
    /\ UNCHANGED <<accepted, given>>

Refuse(r) ==
    /\ r \in accepted
    /\ given' = given \cup {r}
    /\ UNCHANGED <<accepted, rows>>

Settle(r) == Store(r) \/ Refuse(r)

Next == \E r \in Reading : Accept(r) \/ Settle(r)

Spec == Init /\ [][Next]_svars

EverySettled == \A r \in Reading : r \in accepted ~> Settled(r)

LiveSpec == Spec /\ EverySettled

=============================================================================
