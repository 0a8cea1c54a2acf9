------------------------------ MODULE Metrics ------------------------------
(***************************************************************************)
(* firmware/main/metrics.c: the queue that hands readings from the sensor  *)
(* task to the metrics task, which waits for the wall clock and publishes  *)
(* them through hi_mqtt, and metrics_start() with its ways to fail, which  *)
(* runs in the main task while the sensor task is already sampling.        *)
(*                                                                         *)
(* Posted readings are numbered in the order the sensor task posts them.   *)
(* hi_mqtt and hi_ntp are external: a publish waits for the API lock, which *)
(* the MQTT client holds while it tries to connect, and then enters the    *)
(* outbox, finds it full (-2) or fails otherwise.                          *)
(***************************************************************************)
EXTENDS Integers, Sequences, FiniteSets

CONSTANTS
    QueueLen,   \* METRICS_QUEUE_LEN
    MaxPosts    \* bound: readings posted

ASSUME QueueLenAssumption == QueueLen \in Nat \ {0}
ASSUME MaxPostsAssumption == MaxPosts \in Nat

VARIABLES
    start,    \* where metrics_start() is
    handle,   \* s_queue # NULL
    alive,    \* the queue object is allocated
    queue,    \* what it holds
    posts,    \* readings posted so far, or being posted
    poster,   \* where the sensor task's metrics_post() is
    ignored,  \* readings posted without a queue
    dropped,  \* readings that found the queue full, counted in s_dropped
    task,     \* where metrics_task() is
    item,     \* its copy of the item it peeked at or received, 0 for none
    synced,   \* hi_ntp_synced()
    locked,   \* the MQTT client holds its API lock: it is connecting
    handed,   \* readings given to hi_mqtt_publish, in that order
    refused   \* those it did not put into the outbox

mqtt == <<locked, handed, refused>>
vars == <<start, handle, alive, queue, posts, poster, ignored, dropped, task, item, synced, mqtt>>

Post == 1 .. MaxPosts

TypeOK ==
    /\ start \in {"before", "client", "failed", "freed", "running", "disabled"}
    /\ handle \in BOOLEAN
    /\ alive \in BOOLEAN
    /\ queue \in Seq(Post)
    /\ Len(queue) <= QueueLen
    /\ posts \in 0 .. MaxPosts
    /\ poster \in {"idle", "send", "panic"}
    /\ ignored \subseteq Post
    /\ dropped \subseteq Post
    /\ task \in {"none", "peek", "receive", "publish"}
    /\ item \in Post \cup {0}
    /\ synced \in BOOLEAN
    /\ locked \in BOOLEAN
    /\ handed \in Seq(Post)
    /\ refused \subseteq Post

Init ==
    /\ start = "before"
    /\ handle = FALSE
    /\ alive = FALSE
    /\ queue = <<>>
    /\ posts = 0
    /\ poster = "idle"
    /\ ignored = {}
    /\ dropped = {}
    /\ task = "none"
    /\ item = 0
    /\ synced = FALSE
    /\ locked = FALSE
    /\ handed = <<>>
    /\ refused = {}

-----------------------------------------------------------------------------
(* metrics_start, in the main task.                                         *)

CreateQueue ==
    /\ start = "before"
    /\ \/ /\ start' = "client"
          /\ handle' = TRUE
          /\ alive' = TRUE
       \/ /\ start' = "disabled"      \* out of memory
          /\ UNCHANGED <<handle, alive>>
    /\ UNCHANGED <<queue, posts, poster, ignored, dropped, task, item, synced, mqtt>>

\* hi_mqtt_start() fails, or the metrics task is created - or is not, which leaves the queue
\* to fill up.
StartClient ==
    /\ start = "client"
    /\ \/ /\ start' = "failed"
          /\ UNCHANGED task
       \/ /\ start' = "running"
          /\ task' \in {"peek", "none"}
    /\ UNCHANGED <<handle, alive, queue, posts, poster, ignored, dropped, item, synced, mqtt>>

\* vQueueDelete() ...
DeleteQueue ==
    /\ start = "failed"
    /\ start' = "freed"
    /\ alive' = FALSE
    /\ queue' = <<>>
    /\ UNCHANGED <<handle, posts, poster, ignored, dropped, task, item, synced, mqtt>>

\* ... and then s_queue = NULL.
ForgetQueue ==
    /\ start = "freed"
    /\ start' = "disabled"
    /\ handle' = FALSE
    /\ UNCHANGED <<alive, queue, posts, poster, ignored, dropped, task, item, synced, mqtt>>

-----------------------------------------------------------------------------
(* metrics_post, in the sensor task.                                        *)

\* Without a queue the reading is ignored.
PostChecks ==
    /\ poster = "idle"
    /\ posts < MaxPosts
    /\ posts' = posts + 1
    /\ \/ /\ ~handle
          /\ ignored' = ignored \cup {posts'}
          /\ UNCHANGED poster
       \/ /\ handle
          /\ poster' = "send"
          /\ UNCHANGED ignored
    /\ UNCHANGED <<start, handle, alive, queue, dropped, task, item, synced, mqtt>>

\* A queue deleted since the check is used anyway, freed or NULL: the board panics or goes on with
\* the reading lost.
SendToNoQueue ==
    /\ ~(handle /\ alive)
    /\ poster' \in {"idle", "panic"}
    /\ dropped' \in {dropped, dropped \cup {posts}}
    /\ UNCHANGED queue

\* Mutant: the item waits for room in the queue.
SendWhenRoom ==
    /\ handle /\ alive
    /\ Len(queue) < QueueLen
    /\ poster' = "idle"
    /\ queue' = Append(queue, posts)
    /\ UNCHANGED dropped

\* Mutant: a full queue loses its oldest item instead.
SendOver ==
    /\ handle /\ alive
    /\ poster' = "idle"
    /\ queue' = IF Len(queue) < QueueLen THEN Append(queue, posts) ELSE Append(Tail(queue), posts)
    /\ UNCHANGED dropped

\* Mutant: the queue is one longer than it is.
SendOneMore ==
    /\ handle /\ alive
    /\ poster' = "idle"
    /\ \/ /\ Len(queue) <= QueueLen
          /\ queue' = Append(queue, posts)
          /\ UNCHANGED dropped
       \/ /\ Len(queue) > QueueLen
          /\ dropped' = dropped \cup {posts}
          /\ UNCHANGED queue

\* xQueueSend(s_queue, &item, 0) never waits: a full queue drops the new item.
SendToQueue ==
    /\ handle /\ alive
    /\ poster' = "idle"
    /\ \/ /\ Len(queue) < QueueLen
          /\ queue' = Append(queue, posts)
          /\ UNCHANGED dropped
       \/ /\ Len(queue) = QueueLen
          /\ dropped' = dropped \cup {posts}
          /\ UNCHANGED queue

PostSends ==
    /\ poster = "send"
    /\ SendToQueue \/ SendToNoQueue
    /\ UNCHANGED <<start, handle, alive, posts, ignored, task, item, synced, mqtt>>

-----------------------------------------------------------------------------
(* metrics_task.                                                            *)

\* Mutant: the item is taken at once and, without a wall clock, put back at the end.
PeekTakes ==
    /\ task = "peek"
    /\ queue # <<>>
    /\ item' = Head(queue)
    /\ task' = IF synced THEN "receive" ELSE "peek"
    /\ queue' = IF synced THEN queue ELSE Append(Tail(queue), Head(queue))
    /\ UNCHANGED <<start, handle, alive, posts, poster, ignored, dropped, synced, mqtt>>

\* Mutant: the clock is not asked for.
PeekAnyTime ==
    /\ task = "peek"
    /\ queue # <<>>
    /\ item' = Head(queue)
    /\ task' = "receive"
    /\ UNCHANGED <<start, handle, alive, queue, posts, poster, ignored, dropped, synced, mqtt>>

\* Mutant: the task ends when there is no clock.
PeekGivesUp ==
    /\ task = "peek"
    /\ queue # <<>>
    /\ item' = Head(queue)
    /\ task' = IF synced THEN "receive" ELSE "none"
    /\ UNCHANGED <<start, handle, alive, queue, posts, poster, ignored, dropped, synced, mqtt>>

\* xQueuePeek() waits for an item; without a wall clock the item stays where it is, and the
\* task looks again after a second.
Peek ==
    /\ task = "peek"
    /\ queue # <<>>
    /\ item' = Head(queue)
    /\ task' = IF synced THEN "receive" ELSE "peek"
    /\ UNCHANGED <<start, handle, alive, queue, posts, poster, ignored, dropped, synced, mqtt>>

Receive ==
    /\ task = "receive"
    /\ task' = "publish"
    /\ item' = Head(queue)
    /\ queue' = Tail(queue)
    /\ UNCHANGED <<start, handle, alive, posts, poster, ignored, dropped, synced, mqtt>>

\* hi_mqtt_publish() gets the API lock; the outbox takes the item, is full, or the client fails.
Publish ==
    /\ task = "publish"
    /\ ~locked
    /\ handed' = Append(handed, item)
    /\ refused' \in {refused, refused \cup {item}}
    /\ task' = "peek"
    /\ item' = 0
    /\ UNCHANGED <<start, handle, alive, queue, posts, poster, ignored, dropped, synced, locked>>

-----------------------------------------------------------------------------
(* hi_mqtt and hi_ntp.                                                      *)

ConnectBegins ==
    /\ start = "running"
    /\ ~locked
    /\ locked' = TRUE
    /\ UNCHANGED <<start, handle, alive, queue, posts, poster, ignored, dropped, task, item, synced, handed, refused>>

ConnectEnds ==
    /\ locked
    /\ locked' = FALSE
    /\ UNCHANGED <<start, handle, alive, queue, posts, poster, ignored, dropped, task, item, synced, handed, refused>>

ClockSet ==
    /\ ~synced
    /\ synced' = TRUE
    /\ UNCHANGED <<start, handle, alive, queue, posts, poster, ignored, dropped, task, item, mqtt>>

-----------------------------------------------------------------------------
StartStep == CreateQueue \/ StartClient \/ DeleteQueue \/ ForgetQueue

PostStep == PostChecks \/ PostSends

\* The board has panicked, or all readings of the bound are posted.
Stopped ==
    /\ poster = "panic" \/ (posts = MaxPosts /\ poster = "idle")
    /\ UNCHANGED vars

\* (What the main task and the clock do between a panic and the reset is of no consequence.)
Next ==
    \/ StartStep \/ PostStep
    \/ Peek \/ Receive \/ Publish
    \/ ConnectBegins \/ ConnectEnds \/ ClockSet
    \/ Stopped

Spec == Init /\ [][Next]_vars

\* Both tasks run, the clock is set some day and connection attempts end. The client pauses
\* between attempts without its lock, so a task waiting for the lock gets it.
FairSpec ==
    /\ Spec
    /\ WF_vars(PostStep)
    /\ WF_vars(StartStep)
    /\ WF_vars(Peek \/ Receive)
    /\ SF_vars(Publish)
    /\ WF_vars(ConnectEnds)
    /\ WF_vars(ClockSet)

-----------------------------------------------------------------------------
(* Properties                                                               *)

\* Accepted readings in the order they leave: handed over, in the task's hand, waiting.
InHand == IF task = "publish" THEN <<item>> ELSE <<>>
Accepted == handed \o InHand \o queue

\* Readings leave in the order they were taken, each at most once, also those that waited for
\* the wall clock: the task peeks at an item and takes it only when it can be stamped
\* (metrics_task), and a reading behind it never overtakes.
InOrder == \A i, j \in 1 .. Len(Accepted) : i < j => Accepted[i] < Accepted[j]

\* While metrics_start() has not failed, every reading posted has exactly one fate: it came
\* before the queue existed, was counted as dropped, or was accepted and then waits, is being
\* published or has been handed to the client. None vanishes between the two tasks.
OneFate ==
    start \in {"before", "client", "running"} =>
        \A p \in 1 .. posts : poster = "idle" \/ p < posts =>
            Cardinality({f \in 1 .. 3 : p \in <<ignored, dropped, {Accepted[i] : i \in 1 .. Len(Accepted)}>>[f]}) = 1

\* What has become of the queue: there is none, it is in use, or its client did not start.
Mode == IF start \in {"before", "disabled"} THEN "off"
        ELSE IF start \in {"client", "running"} THEN "on"
        ELSE "failing"

\* What metrics.h promises (Handover): a reading is taken or not when it is posted, for good, and
\* refused only by a full queue or without one; those taken go to the client one by one, after
\* the clock was set; and only a client that does not start takes them back.
Kept == INSTANCE Handover WITH
            Capacity <- QueueLen,
            mode     <- Mode,
            open     <- poster = "send",
            taken    <- Accepted,
            sent     <- Len(handed),
            clock    <- synced
HandoverKept == Kept!Spec

\* metrics_post() never waits: wherever the metrics task, the client and its lock, the clock and
\* metrics_start() are, the sensor task can go on (metrics.c:24, the reset of 2026-09-20).
PostNeverWaits == poster = "send" => ENABLED PostSends

\* A reading the queue accepted is handed to the client in the end, even when the clock is set
\* late and the broker is out of reach again and again.
QueueDrains ==
    \A p \in Post :
        (task # "none" /\ \E i \in 1 .. Len(queue) : queue[i] = p) ~> \E i \in 1 .. Len(handed) : handed[i] = p

\* metrics.h: posts are "dropped when the queue is full or metrics are disabled". metrics_start()
\* deletes the queue of a client that did not start before it clears s_queue, and
\* metrics_post() uses s_queue again after its check.
SendsToQueue == poster = "send" => handle /\ alive
=============================================================================
