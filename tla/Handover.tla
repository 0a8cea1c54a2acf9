------------------------------ MODULE Handover ------------------------------
(***************************************************************************)
(* What metrics.h and metrics.c promise for the readings of the sensor     *)
(* task: one is taken or not when it is posted, for good; it is refused    *)
(* only when the queue is full or there is none; what is taken is handed   *)
(* to the MQTT client in order, once the wall clock is set.                *)
(***************************************************************************)
EXTENDS Integers, Sequences

CONSTANT Capacity   \* the readings that may wait

VARIABLES
    mode,    \* publishing is "off", "on", or "failing" to start
    posts,   \* the number of the last reading posted
    open,    \* it is still to be taken or not
    taken,   \* the readings taken, in that order
    sent,    \* how many of them were handed to the client
    clock    \* the wall clock is set

vars == <<mode, posts, open, taken, sent, clock>>

Init ==
    /\ mode = "off"
    /\ posts = 0
    /\ open = FALSE
    /\ taken = <<>>
    /\ sent = 0
    /\ clock = FALSE

Waiting == Len(taken) - sent

\* Publishing starts; a client that cannot be started takes it back before anything was sent,
\* and with it the readings taken so far.
Switch ==
    /\ \/ mode = "off" /\ mode' = "on" /\ UNCHANGED taken
       \/ mode = "on" /\ mode' = "failing" /\ sent = 0 /\ UNCHANGED taken
       \/ mode = "failing" /\ mode' = "failing" /\ taken' = <<>>
       \/ mode = "failing" /\ mode' = "off" /\ UNCHANGED taken
    /\ UNCHANGED <<posts, open, sent, clock>>

Post ==
    /\ ~open
    /\ posts' = posts + 1
    /\ open' = (mode # "off")
    /\ UNCHANGED <<mode, taken, sent, clock>>

\* (One more than the capacity is waiting while the client has one in hand.)
Take ==
    /\ open /\ mode # "off"
    /\ Waiting <= Capacity
    /\ open' = FALSE
    /\ taken' = Append(taken, posts)
    /\ UNCHANGED <<mode, posts, sent, clock>>

Drop ==
    /\ open
    /\ Waiting >= Capacity \/ mode # "on"
    /\ open' = FALSE
    /\ UNCHANGED <<mode, posts, taken, sent, clock>>

Send ==
    /\ mode = "on" /\ clock
    /\ Waiting > 0
    /\ sent' = sent + 1
    /\ UNCHANGED <<mode, posts, open, taken, clock>>

SetClock ==
    /\ clock' = TRUE
    /\ UNCHANGED <<mode, posts, open, taken, sent>>

Next == Switch \/ Post \/ Take \/ Drop \/ Send \/ SetClock

Spec == Init /\ [][Next]_vars
=============================================================================
