------------------------------- MODULE Ring -------------------------------
(***************************************************************************)
(* The rings of the firmware: history.c keeps the newest HISTORY_SAMPLES   *)
(* columns, events.c the newest EVENTS_RING_SIZE events, each in an array  *)
(* with the next write position and the number of entries in use, written  *)
(* and copied under a spinlock. `log` remembers everything ever written:   *)
(* it is what the array stands for, and the code has no such thing.        *)
(***************************************************************************)
EXTENDS Integers, Sequences

CONSTANTS
    Value,   \* what an entry can hold
    Size     \* HISTORY_SAMPLES, EVENTS_RING_SIZE: at least 1 (RingProofs; Api assumes it)

VARIABLES
    buf,     \* s_temps, s_ring
    head,    \* s_head: the next write position
    count,   \* s_count: entries in use
    log      \* all that was written, oldest first

ring == <<buf, head, count, log>>

TypeOK ==
    /\ buf \in [0 .. Size - 1 -> Value]
    /\ head \in 0 .. Size - 1
    /\ count \in 0 .. Size
    /\ log \in Seq(Value)

Init ==
    /\ buf \in [0 .. Size - 1 -> Value]
    /\ head = 0
    /\ count = 0
    /\ log = <<>>

\* Mutant: the number of entries is not limited.
AddUncapped(v) ==
    /\ buf' = [buf EXCEPT ![head] = v]
    /\ head' = (head + 1) % Size
    /\ count' = count + 1
    /\ log' = Append(log, v)

Add(v) ==
    /\ buf' = [buf EXCEPT ![head] = v]
    /\ head' = (head + 1) % Size
    /\ count' = IF count < Size THEN count + 1 ELSE count
    /\ log' = Append(log, v)

Next == \E v \in Value : Add(v)

Spec == Init /\ [][Next]_ring

Copied(max) == IF count < max THEN count ELSE max

\* Mutant: a copy starts at the first entry of the array.
OldestFirstUnwrapped(max) == [i \in 1 .. Copied(max) |-> buf[i - 1]]

\* history_copy: at most max entries, oldest first.
OldestFirst(max) ==
    LET start == (head + Size - Copied(max)) % Size IN
    [i \in 1 .. Copied(max) |-> buf[(start + (i - 1)) % Size]]

\* events_recent: at most max entries, newest first.
NewestFirst(max) ==
    [i \in 1 .. Copied(max) |-> buf[(head + Size - i) % Size]]

\* What a reader gets are the newest entries written, none left out, none twice and in order,
\* before and after the ring wraps (history_copy, events_recent).
KeepsNewest ==
    \A max \in 0 .. Size :
        LET n == IF Len(log) < max THEN Len(log) ELSE max IN
        /\ OldestFirst(max) = [i \in 1 .. n |-> log[Len(log) - n + i]]
        /\ NewestFirst(max) = [i \in 1 .. n |-> log[Len(log) + 1 - i]]

=============================================================================
