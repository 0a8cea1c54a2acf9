------------------------------- MODULE MCApi -------------------------------
(***************************************************************************)
(* Api for TLC: two sensors, whose order is not the one they are found in, *)
(* on a board whose second highlight is a difference and the others free.  *)
(***************************************************************************)
EXTENDS Api, TLC

CONSTANTS a, b

MCSensor     == {a, b}
MCOrder      == (a :> 20) @@ (b :> 10)
MCHighlights == <<[kind |-> "none"], [kind |-> "delta", id |-> a, id_b |-> b], [kind |-> "none"]>>

\* sorted_slots on every list of up to five entries of two orders: all slots, by display_order,
\* and those of the same order as they are in the list.
ASSUME SortIsStable ==
    \A n \in 0 .. 5 : \A l \in [1 .. n -> [id: {a, b}]] :
        LET s == SortedSlots(l) IN
        /\ Len(s) = n /\ {s[i] : i \in 1 .. n} = 1 .. n
        /\ \A i, j \in 1 .. n :
              i < j => \/ Order[l[s[i]].id] < Order[l[s[j]].id]
                       \/ Order[l[s[i]].id] = Order[l[s[j]].id] /\ s[i] < s[j]

=============================================================================
