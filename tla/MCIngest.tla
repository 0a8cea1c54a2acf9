----------------------------- MODULE MCIngest -----------------------------
(***************************************************************************)
(* Ingest for TLC: two readings and one that parse_reading refuses. The    *)
(* two have the same (sensor_id, ts), or different ones; the refused one   *)
(* has a key of its own, so no other row can pass for its.                 *)
(***************************************************************************)
EXTENDS Ingest

CONSTANTS r1, r2, bad, k1, k2, k3

MCReading    == {r1, r2, bad}
MCPlausible  == {r1, r2}
MCKey        == {k1, k2, k3}
SameKeyOf    == [r \in MCReading |-> IF r = bad THEN k3 ELSE k1]
OwnKeyOf     == [r \in MCReading |-> CASE r = r1 -> k1 [] r = r2 -> k2 [] r = bad -> k3]

=============================================================================
