--------------------------- MODULE MetricsProofs ---------------------------
(***************************************************************************)
(* Theorems about Metrics for a queue of any length and any number of      *)
(* readings posted.                                                        *)
(***************************************************************************)
EXTENDS Metrics, SequenceTheorems, FiniteSetTheorems, TLAPS

-----------------------------------------------------------------------------
(* Types.                                                                   *)

\* The queue's object and its handle are as far as metrics_start() has come; the metrics task
\* exists only while it is running, and what it was about to receive nobody takes away.
StartInv ==
    /\ (handle <=> start \in {"client", "failed", "freed", "running"})
    /\ (alive <=> start \in {"client", "failed", "running"})
    /\ task # "none" => start = "running"
    /\ task = "none" => handed = <<>>
    /\ task = "receive" => queue # <<>>
    /\ task = "publish" => item \in Post
    /\ poster = "send" => posts \in Post /\ start # "before"

TypeInv == TypeOK /\ StartInv

\* Every step keeps the types.
LEMMA TypeStep == TypeInv /\ [Next]_vars => TypeInv'
<1> SUFFICES ASSUME TypeInv, [Next]_vars PROVE TypeInv'
  OBVIOUS
<1> USE QueueLenAssumption, MaxPostsAssumption DEF TypeInv, TypeOK, StartInv, mqtt, Post
<1>1. CASE StartStep
  <2>1. CASE CreateQueue
    <3>1. start = "before" /\ task = "none" /\ UNCHANGED <<queue, posts, poster, ignored, dropped, task, item, synced, locked, handed, refused>>
      BY <2>1 DEF CreateQueue
    <3>2. CASE start' = "client" /\ handle' = TRUE /\ alive' = TRUE
      BY <3>1, <3>2
    <3>3. CASE start' = "disabled" /\ handle' = handle /\ alive' = alive
      BY <3>1, <3>3
    <3> QED
      BY <2>1, <3>2, <3>3 DEF CreateQueue
  <2>2. CASE StartClient
    BY <2>2 DEF StartClient
  <2>3. CASE DeleteQueue
    <3>1. /\ start = "failed" /\ start' = "freed" /\ alive' = FALSE /\ queue' = <<>> /\ task = "none"
          /\ UNCHANGED <<handle, posts, poster, ignored, dropped, task, item, synced, locked, handed, refused>>
      BY <2>3 DEF DeleteQueue
    <3>2. queue' \in Seq(Post) /\ Len(queue') <= QueueLen
      BY <3>1
    <3> QED
      BY <3>1, <3>2
  <2>4. CASE ForgetQueue
    BY <2>4 DEF ForgetQueue
  <2> QED
    BY <1>1, <2>1, <2>2, <2>3, <2>4 DEF StartStep
<1>2. CASE PostChecks
  <2>1. posts' \in Post /\ posts' \in 0 .. MaxPosts
    BY <1>2 DEF PostChecks
  <2>2. CASE ~handle /\ ignored' = ignored \cup {posts'} /\ UNCHANGED poster
    BY <1>2, <2>1, <2>2 DEF PostChecks
  <2>3. CASE handle /\ poster' = "send" /\ UNCHANGED ignored
    BY <1>2, <2>1, <2>3 DEF PostChecks
  <2> QED
    BY <1>2, <2>2, <2>3 DEF PostChecks
<1>3. CASE PostSends
  <2>1. posts \in Post /\ dropped \cup {posts} \subseteq Post
    BY <1>3 DEF PostSends
  <2>2. CASE SendToQueue
    <3>1. CASE queue' = Append(queue, posts) /\ Len(queue) < QueueLen /\ UNCHANGED dropped
      <4>1. queue' \in Seq(Post) /\ Len(queue') = Len(queue) + 1 /\ queue' # <<>>
        BY <2>1, <3>1
      <4> QED
        BY <1>3, <2>2, <3>1, <4>1 DEF PostSends, SendToQueue
    <3>2. CASE dropped' = dropped \cup {posts} /\ UNCHANGED queue
      BY <1>3, <2>1, <2>2, <3>2 DEF PostSends, SendToQueue
    <3> QED
      BY <2>2, <3>1, <3>2 DEF SendToQueue
  <2>3. CASE SendToNoQueue
    BY <1>3, <2>1, <2>3 DEF PostSends, SendToNoQueue
  <2> QED
    BY <1>3, <2>2, <2>3 DEF PostSends
<1>4. CASE Peek
  BY <1>4 DEF Peek
<1>5. CASE Receive
  <2>1. queue # <<>> /\ Head(queue) \in Post /\ Tail(queue) \in Seq(Post) /\ Len(Tail(queue)) <= QueueLen
    BY <1>5 DEF Receive
  <2> QED
    BY <1>5, <2>1 DEF Receive
<1>6. CASE Publish
  <2>1. handed' \in Seq(Post) /\ refused' \subseteq Post
    BY <1>6 DEF Publish
  <2> QED
    BY <1>6, <2>1 DEF Publish
<1>7. CASE ConnectBegins \/ ConnectEnds \/ ClockSet
  <2>1. /\ UNCHANGED <<start, handle, alive, queue, posts, poster, ignored, dropped, task, item, handed, refused>>
        /\ locked' \in BOOLEAN /\ synced' \in BOOLEAN
    BY <1>7, Zenon DEF ConnectBegins, ConnectEnds, ClockSet
  <2> QED
    BY <2>1
<1>8. CASE UNCHANGED vars
  BY <1>8 DEF vars
<1> QED
  BY <1>1, <1>2, <1>3, <1>4, <1>5, <1>6, <1>7, <1>8 DEF Next, PostStep, Stopped

\* The initial state has the types.
LEMMA InitTypes == Init => TypeInv
<1> SUFFICES ASSUME Init PROVE TypeOK /\ StartInv
  BY DEF TypeInv
<1>1. TypeOK
  <2>1. <<>> \in Seq(Post) /\ Len(<<>>) <= QueueLen /\ 0 \in 0 .. MaxPosts
    BY QueueLenAssumption, MaxPostsAssumption
  <2> QED
    BY <2>1, Zenon DEF Init, TypeOK
<1>2. StartInv
  BY DEF Init, StartInv
<1> QED
  BY <1>1, <1>2

\* Type correctness: the queue never holds more than METRICS_QUEUE_LEN items, and the metrics
\* task never receives from an empty one, whatever becomes of metrics_start() meanwhile.
THEOREM MetricsTypeCorrect == Spec => []TypeOK
<1>1. TypeInv => TypeOK
  BY DEF TypeInv
<1> QED
  BY <1>1, InitTypes, TypeStep, PTL DEF Spec

-----------------------------------------------------------------------------
(* The way of a reading.                                                    *)

\* Where a post leaves the readings on their way follows from what it does to the queue.
LEMMA SendMoves ==
    ASSUME TypeInv, PostSends
    PROVE  /\ posts \in Post
           /\ UNCHANGED queue => Accepted' = Accepted
           /\ queue' = Append(queue, posts) => Accepted' = Append(Accepted, posts)
<1>1. UNCHANGED <<handed, task, item>> /\ posts \in Post
  BY DEF PostSends, mqtt, TypeInv, StartInv
<1>2. queue \in Seq(Post) /\ handed \in Seq(Post) /\ InHand \in Seq(Post)
  BY DEF TypeInv, TypeOK, StartInv, InHand
<1>3. ASSUME queue' = Append(queue, posts) PROVE Accepted' = Append(Accepted, posts)
  <2>1. Accepted' = (handed \o InHand) \o Append(queue, posts)
    BY <1>1, <1>3 DEF Accepted, InHand
  <2>2. handed \o InHand \in Seq(Post)
    BY <1>2, ConcatProperties
  <2>3. \A s \in Seq(Post) : \A q \in Seq(Post) : s \o Append(q, posts) = Append(s \o q, posts)
    BY <1>1
  <2> QED
    BY <1>2, <2>1, <2>2, <2>3, Zenon DEF Accepted
<1> QED
  BY <1>1, <1>3 DEF Accepted, InHand

\* A post puts the reading behind all others, or drops it.
LEMMA SendFlow ==
    ASSUME TypeInv, PostSends
    PROVE  /\ posts \in Post
           /\ \/ Accepted' = Append(Accepted, posts) /\ UNCHANGED dropped
              \/ Accepted' = Accepted /\ (SendToQueue => dropped' = dropped \cup {posts})
<1>1. CASE UNCHANGED queue
  <2>1. Append(queue, posts) # queue
    BY SendMoves DEF TypeInv, TypeOK
  <2>2. SendToQueue => dropped' = dropped \cup {posts}
    BY <1>1, <2>1 DEF SendToQueue
  <2> QED
    BY <1>1, <2>2, SendMoves
<1>2. CASE queue' = Append(queue, posts) /\ UNCHANGED dropped
  BY <1>2, SendMoves
<1> QED
  BY <1>1, <1>2 DEF PostSends, SendToQueue, SendToNoQueue

\* Readings that are taken are on their way in one sequence, which a step leaves alone, extends
\* at its end, or empties with the queue of a client that did not start.
LEMMA Flow ==
    ASSUME TypeInv, [Next]_vars
    PROVE  /\ Accepted \in Seq(Post)
           /\ \/ Accepted' = Accepted
              \/ PostSends /\ Accepted' = Append(Accepted, posts)
              \/ DeleteQueue /\ Accepted' = <<>>
<1> USE DEF TypeInv, TypeOK, StartInv
<1>t. queue \in Seq(Post) /\ handed \in Seq(Post) /\ InHand \in Seq(Post)
  BY DEF InHand
<1>a. Accepted \in Seq(Post)
  BY <1>t, ConcatProperties DEF Accepted
<1>1. CASE UNCHANGED <<handed, task, item, queue>>
  BY <1>1 DEF Accepted, InHand
<1>2. CASE StartClient
  <2>1. task \notin {"publish"} /\ task' \notin {"publish"} /\ UNCHANGED <<handed, queue>>
    BY <1>2 DEF StartClient, mqtt
  <2> QED
    BY <2>1 DEF Accepted, InHand
<1>3. CASE DeleteQueue
  <2>1. task = "none" /\ handed' = <<>> /\ queue' = <<>> /\ task' = "none"
    BY <1>3 DEF DeleteQueue, mqtt
  <2>2. Accepted' = <<>> \o <<>> \o <<>>
    BY <2>1 DEF Accepted, InHand
  <2>3. <<>> \in Seq(Post) /\ <<>> \o <<>> = <<>>
    BY ConcatEmptySeq
  <2> QED
    BY <1>a, <1>3, <2>2, <2>3, Zenon
<1>4. CASE PostSends
  BY <1>a, <1>4, SendFlow
<1>5. CASE Peek
  <2>1. task = "peek" /\ task' # "publish" /\ UNCHANGED <<handed, queue>>
    BY <1>5 DEF Peek, mqtt
  <2> QED
    BY <2>1 DEF Accepted, InHand
<1>6. CASE Receive
  <2>1. /\ task = "receive" /\ task' = "publish" /\ item' = Head(queue) /\ queue' = Tail(queue)
        /\ queue # <<>> /\ handed' = handed
    BY <1>6 DEF Receive, mqtt
  <2>2. /\ <<Head(queue)>> \in Seq(Post) /\ Tail(queue) \in Seq(Post) /\ <<>> \in Seq(Post)
        /\ <<Head(queue)>> \o Tail(queue) = queue
    BY <1>t, <2>1
  <2>3. Accepted' = (handed \o <<Head(queue)>>) \o Tail(queue)
    BY <2>1 DEF Accepted, InHand
  <2>4. Accepted = (handed \o <<>>) \o queue
    BY <2>1 DEF Accepted, InHand
  <2>5. handed \o <<>> = handed
    BY <1>t, ConcatEmptySeq
  <2>6. (handed \o <<Head(queue)>>) \o Tail(queue) = handed \o (<<Head(queue)>> \o Tail(queue))
    BY <1>t, <2>2, ConcatAssociative
  <2>7. Accepted' = Accepted
    BY <2>2, <2>3, <2>4, <2>5, <2>6, Zenon
  <2> QED
    BY <1>a, <2>7
<1>7. CASE Publish
  <2>1. /\ task = "publish" /\ task' = "peek" /\ handed' = Append(handed, item) /\ queue' = queue
        /\ item \in Post
    BY <1>7 DEF Publish
  <2>2. Append(handed, item) \in Seq(Post) /\ Append(handed, item) = handed \o <<item>>
    BY <1>t, <2>1
  <2>3. Accepted' = (Append(handed, item) \o <<>>) \o queue
    BY <2>1 DEF Accepted, InHand
  <2>4. Accepted = (handed \o <<item>>) \o queue
    BY <2>1 DEF Accepted, InHand
  <2>5. Append(handed, item) \o <<>> = Append(handed, item)
    BY <2>2, ConcatEmptySeq
  <2>6. Accepted' = Accepted
    BY <2>2, <2>3, <2>4, <2>5, Zenon
  <2> QED
    BY <1>a, <2>6
<1>8. CASE CreateQueue \/ ForgetQueue \/ PostChecks \/ ConnectBegins \/ ConnectEnds \/ ClockSet \/ UNCHANGED vars
  <2>1. UNCHANGED <<handed, task, item, queue>>
    BY <1>8, Zenon DEF CreateQueue, ForgetQueue, PostChecks, ConnectBegins, ConnectEnds, ClockSet, vars, mqtt
  <2> QED
    BY <1>1, <1>a, <2>1
<1> QED
  BY <1>a, <1>2, <1>3, <1>4, <1>5, <1>6, <1>7, <1>8 DEF Next, StartStep, PostStep, Stopped

\* Readings are on their way in the order of their numbers, all below the one being posted.
OrderInv ==
    /\ InOrder
    /\ \A i \in 1 .. Len(Accepted) : /\ Accepted[i] <= posts
                                     /\ poster = "send" => Accepted[i] < posts

\* What a step does to the number of the last reading.
LEMMA PostsGrow ==
    ASSUME TypeInv, [Next]_vars
    PROVE  /\ posts \in Nat
           /\ \/ posts' = posts /\ (poster' = "send" => poster = "send")
              \/ PostChecks /\ posts' = posts + 1
           /\ PostSends => posts' = posts /\ poster = "send" /\ poster' # "send"
<1>1. posts \in Nat
  BY MaxPostsAssumption DEF TypeInv, TypeOK
<1>2. PostChecks => posts' = posts + 1
  BY DEF PostChecks
<1>3. PostSends => posts' = posts /\ poster = "send" /\ poster' # "send"
  BY DEF PostSends, SendToQueue, SendToNoQueue
<1>4. PostChecks \/ PostSends \/ UNCHANGED <<posts, poster>>
  BY Zenon DEF Next, StartStep, PostStep, CreateQueue, StartClient, DeleteQueue, ForgetQueue, Peek, Receive,
               Publish, ConnectBegins, ConnectEnds, ClockSet, Stopped, vars
<1> QED
  BY <1>1, <1>2, <1>3, <1>4

\* Every step keeps the order.
LEMMA OrderStep == TypeInv /\ OrderInv /\ [Next]_vars => OrderInv'
<1> SUFFICES ASSUME TypeInv, OrderInv, [Next]_vars PROVE OrderInv'
  OBVIOUS
<1>1. PICK a : a = Accepted
  OBVIOUS
<1>2. PICK b : b = Accepted'
  OBVIOUS
<1>3. /\ a \in Seq(Post) /\ posts \in Nat
      /\ \A i, j \in 1 .. Len(a) : i < j => a[i] < a[j]
      /\ \A i \in 1 .. Len(a) : a[i] <= posts /\ (poster = "send" => a[i] < posts)
  BY <1>1, Flow, PostsGrow DEF OrderInv, InOrder
<1>4. \A i \in 1 .. Len(a) : a[i] \in Nat
  <2>1. Post \subseteq Nat
    BY DEF Post
  <2> QED
    BY <1>3, <2>1, ElementOfSeq
<1>5. SUFFICES /\ \A i, j \in 1 .. Len(b) : i < j => b[i] < b[j]
               /\ \A i \in 1 .. Len(b) : b[i] <= posts' /\ (poster' = "send" => b[i] < posts')
  BY <1>2 DEF OrderInv, InOrder
<1>6. CASE b = a
  BY <1>3, <1>4, <1>6, PostsGrow
<1>7. CASE PostSends /\ b = Append(a, posts)
  <2>1. posts' = posts /\ poster = "send" /\ poster' # "send" /\ posts \in Post
    BY <1>7, PostsGrow DEF TypeInv, StartInv
  <2>2. /\ Len(a) \in Nat /\ Len(b) = Len(a) + 1 /\ b[Len(a) + 1] = posts
        /\ \A i \in 1 .. Len(a) : b[i] = a[i]
    BY <1>3, <1>7, <2>1
  <2> QED
    BY <1>3, <1>4, <2>1, <2>2
<1>8. CASE b = <<>>
  BY <1>8
<1> QED
  BY <1>1, <1>2, <1>6, <1>7, <1>8, Flow

\* Nothing is on its way at first.
LEMMA InitOrder == Init => OrderInv
<1> SUFFICES ASSUME Init PROVE OrderInv
  OBVIOUS
<1>1. Accepted = <<>> \o <<>> \o <<>>
  BY DEF Init, Accepted, InHand
<1>2. Accepted = <<>>
  BY <1>1
<1> QED
  BY <1>2 DEF OrderInv, InOrder

\* Readings leave in the order they were posted, none twice, for a queue of any length
\* (metrics_post, metrics_task).
THEOREM ReadingsInOrder == Spec => []InOrder
<1>1. Init => TypeInv /\ OrderInv
  BY InitTypes, InitOrder
<1>2. OrderInv => InOrder
  BY DEF OrderInv
<1> QED
  BY <1>1, <1>2, TypeStep, OrderStep, PTL DEF Spec

-----------------------------------------------------------------------------
(* The fate of a reading.                                                   *)

Taken == {Accepted[i] : i \in 1 .. Len(Accepted)}

\* One and only one of them.
Settled(p) ==
    /\ p \in ignored \/ p \in dropped \/ p \in Taken
    /\ ~(p \in ignored /\ p \in dropped) /\ ~(p \in ignored /\ p \in Taken) /\ ~(p \in dropped /\ p \in Taken)

Posted(p) == p \in 1 .. posts /\ (poster = "idle" \/ p < posts)

FateInv ==
    /\ \A p \in ignored \cup dropped : p <= posts /\ (poster = "send" => p < posts)
    /\ start \in {"before", "client", "running"} => poster # "panic" /\ \A p \in 1 .. posts : Posted(p) => Settled(p)

\* A start that has failed is not made up for.
LEMMA StartForward ==
    ASSUME TypeInv, [Next]_vars, start' \in {"before", "client", "running"}
    PROVE  start \in {"before", "client", "running"} /\ ~DeleteQueue
  BY Zenon DEF Next, StartStep, PostStep, CreateQueue, StartClient, DeleteQueue, ForgetQueue, PostChecks,
               PostSends, Peek, Receive, Publish, ConnectBegins, ConnectEnds, ClockSet, Stopped, vars

\* What is taken were posts of before, and a post more when one is taken.
LEMMA TakenNumbers ==
    ASSUME TypeInv, OrderInv, [Next]_vars
    PROVE  /\ \A p \in Taken : p \in Nat /\ p <= posts /\ (poster = "send" => p < posts)
           /\ Accepted' = Append(Accepted, posts) /\ posts \in Post => Taken' = Taken \cup {posts}
           /\ Accepted' = Accepted => Taken' = Taken
<1>1. \A p \in Taken : p \in Nat /\ p <= posts /\ (poster = "send" => p < posts)
  <2>1. Post \subseteq Nat
    BY DEF Post
  <2>2. \A i \in 1 .. Len(Accepted) : Accepted[i] \in Nat
    BY <2>1, Flow, ElementOfSeq
  <2> QED
    BY <2>2 DEF Taken, OrderInv
<1>2. ASSUME Accepted' = Append(Accepted, posts), posts \in Post PROVE Taken' = Taken \cup {posts}
  <2>1. PICK a, b : a = Accepted /\ b = Accepted'
    OBVIOUS
  <2>2. /\ Len(a) \in Nat /\ Len(b) = Len(a) + 1 /\ b[Len(a) + 1] = posts
        /\ \A i \in 1 .. Len(a) : b[i] = a[i]
    BY <1>2, <2>1, Flow
  <2>3. {b[i] : i \in 1 .. Len(b)} = {a[i] : i \in 1 .. Len(a)} \cup {posts}
    BY <2>2
  <2> QED
    BY <2>1, <2>3 DEF Taken
<1> QED
  BY <1>1, <1>2 DEF Taken

\* Every step keeps one fate for each reading.
LEMMA FateStep == TypeInv /\ OrderInv /\ FateInv /\ [Next]_vars => FateInv'
<1> SUFFICES ASSUME TypeInv, OrderInv, FateInv, [Next]_vars PROVE FateInv'
  OBVIOUS
<1> USE DEF Posted, Settled
<1>t. /\ ignored \subseteq Nat /\ dropped \subseteq Nat /\ posts \in Nat
      /\ \A p \in ignored \cup dropped : p <= posts /\ (poster = "send" => p < posts)
  BY PostsGrow DEF TypeInv, TypeOK, Post, FateInv
<1>1. CASE PostChecks
  <2>1. /\ poster = "idle" /\ posts' = posts + 1 /\ dropped' = dropped /\ start' = start
        /\ \/ ignored' = ignored \cup {posts + 1} /\ poster' = "idle"
           \/ ignored' = ignored /\ poster' = "send"
    BY <1>1 DEF PostChecks
  <2>2. Taken' = Taken /\ \A p \in Taken : p \in Nat /\ p <= posts
    <3>1. ~PostSends /\ ~DeleteQueue
      BY <1>1 DEF PostChecks, PostSends, DeleteQueue
    <3> QED
      BY <3>1, Flow, TakenNumbers
  <2>3. \A p \in ignored' \cup dropped' : p <= posts' /\ (poster' = "send" => p < posts')
    <3> SUFFICES ASSUME NEW p \in ignored' \cup dropped'
                 PROVE  p <= posts' /\ (poster' = "send" => p < posts')
      OBVIOUS
    <3>1. CASE p \in ignored \cup dropped
      <4>1. p \in Nat /\ p <= posts
        BY <1>t, <3>1
      <4> QED
        BY <1>t, <2>1, <4>1
    <3>2. CASE p \notin ignored \cup dropped
      BY <1>t, <2>1, <3>2
    <3> QED
      BY <3>1, <3>2
  <2>4. ASSUME start \in {"before", "client", "running"}, NEW p \in 1 .. posts + 1, Posted(p)'
        PROVE  Settled(p)'
    <3>1. CASE p = posts + 1
      <4>1. ignored' = ignored \cup {posts + 1}
        BY <1>t, <2>1, <2>4, <3>1
      <4>2. p \notin dropped /\ p \notin Taken
        BY <1>t, <2>2, <3>1
      <4> QED
        BY <2>1, <2>2, <3>1, <4>1, <4>2
    <3>2. CASE p # posts + 1
      <4>1. p \in 1 .. posts /\ Settled(p)
        BY <1>t, <2>1, <2>4, <3>2 DEF FateInv
      <4> QED
        BY <2>1, <2>2, <3>2, <4>1
    <3> QED
      BY <3>1, <3>2
  <2> QED
    BY <2>1, <2>3, <2>4 DEF FateInv
<1>2. CASE PostSends
  <2>1. /\ poster = "send" /\ posts' = posts /\ ignored' = ignored /\ start' = start
        /\ poster' \in {"idle", "panic"} /\ dropped' \in {dropped, dropped \cup {posts}}
    BY <1>2 DEF PostSends, SendToQueue, SendToNoQueue
  <2>2. \A p \in ignored' \cup dropped' : p <= posts' /\ poster' # "send"
    BY <1>t, <2>1
  <2>3. ASSUME start \in {"before", "client", "running"}
        PROVE  poster' # "panic" /\ \A p \in 1 .. posts : Settled(p)'
    <3>1. SendToQueue
      BY <1>2, <2>1, <2>3 DEF PostSends, SendToNoQueue, TypeInv, StartInv
    <3>2. \A p \in 1 .. posts : p < posts => Settled(p)
      BY <2>3 DEF FateInv
    <3>3. posts \notin ignored /\ posts \notin dropped /\ posts \notin Taken
      BY <1>t, <2>1, TakenNumbers
    <3>4. \/ dropped' = dropped /\ Taken' = Taken \cup {posts}
          \/ dropped' = dropped \cup {posts} /\ Taken' = Taken
      BY <1>2, <3>1, SendFlow, TakenNumbers
    <3> QED
      BY <1>t, <2>1, <3>1, <3>2, <3>3, <3>4 DEF SendToQueue
  <2> QED
    BY <2>1, <2>2, <2>3 DEF FateInv
<1>3. CASE ~PostChecks /\ ~PostSends
  <2>1. UNCHANGED <<posts, poster, ignored, dropped>>
    BY <1>3, Zenon DEF Next, StartStep, PostStep, CreateQueue, StartClient, DeleteQueue, ForgetQueue, Peek,
                       Receive, Publish, ConnectBegins, ConnectEnds, ClockSet, Stopped, vars
  <2>2. start' \in {"before", "client", "running"} =>
           start \in {"before", "client", "running"} /\ Taken' = Taken
    BY <1>3, StartForward, Flow, TakenNumbers
  <2> QED
    BY <2>1, <2>2 DEF FateInv
<1> QED
  BY <1>1, <1>2, <1>3

\* One fate, counted.
LEMMA SettledCounts ==
    ASSUME NEW p, Settled(p)
    PROVE  Cardinality({f \in 1 .. 3 : p \in <<ignored, dropped, Taken>>[f]}) = 1
<1> DEFINE fates == {f \in 1 .. 3 : p \in <<ignored, dropped, Taken>>[f]}
<1>1. \A f : f \in fates <=> \/ f = 1 /\ p \in ignored
                             \/ f = 2 /\ p \in dropped
                             \/ f = 3 /\ p \in Taken
  OBVIOUS
<1> HIDE DEF fates
<1>2. \E f : fates = {f}
  <2>1. CASE p \in ignored
    <3>1. \A f : f \in fates <=> f = 1
      BY <1>1, <2>1 DEF Settled
    <3>2. fates = {1}
      BY <3>1
    <3> QED
      BY <3>2
  <2>2. CASE p \in dropped
    <3>1. \A f : f \in fates <=> f = 2
      BY <1>1, <2>2 DEF Settled
    <3>2. fates = {2}
      BY <3>1
    <3> QED
      BY <3>2
  <2>3. CASE p \in Taken
    <3>1. \A f : f \in fates <=> f = 3
      BY <1>1, <2>3 DEF Settled
    <3>2. fates = {3}
      BY <3>1
    <3> QED
      BY <3>2
  <2> QED
    BY <2>1, <2>2, <2>3 DEF Settled
<1>3. Cardinality(fates) = 1
  BY <1>2, FS_Singleton
<1> QED
  BY <1>3 DEF fates

\* While metrics_start() has not failed, no reading vanishes between the tasks, and none is both
\* dropped and sent, for a queue of any length (metrics_post, metrics_task).
THEOREM ReadingsHaveOneFate == Spec => []OneFate
<1>1. Init => TypeInv /\ OrderInv /\ FateInv
  <2>1. Init => FateInv
    BY DEF Init, FateInv
  <2> QED
    BY <2>1, InitTypes, InitOrder
<1>2. FateInv => OneFate
  BY SettledCounts DEF FateInv, OneFate, Posted, Taken
<1> QED
  BY <1>1, <1>2, TypeStep, OrderStep, FateStep, PTL DEF Spec

-----------------------------------------------------------------------------
(* The clock.                                                               *)

\* No timestamp is made up: a reading goes to the client only after the clock was set.
StampedByClock == InHand # <<>> \/ handed # <<>> => synced

ClockInv ==
    /\ task \in {"receive", "publish"} => synced
    /\ handed # <<>> => synced

\* Every step keeps the clock ahead of what the metrics task does.
LEMMA ClockStep == ClockInv /\ [Next]_vars => ClockInv'
<1> SUFFICES ASSUME ClockInv, [Next]_vars PROVE ClockInv'
  OBVIOUS
<1>1. CASE Peek
  BY <1>1 DEF Peek, ClockInv, mqtt
<1>2. CASE Receive
  BY <1>2 DEF Receive, ClockInv, mqtt
<1>3. CASE Publish
  BY <1>3 DEF Publish, ClockInv, mqtt
<1>4. CASE StartClient
  BY <1>4 DEF StartClient, ClockInv, mqtt
<1>5. CASE ~Peek /\ ~Receive /\ ~Publish /\ ~StartClient
  <2>1. UNCHANGED task /\ UNCHANGED handed
    BY <1>5 DEF Next, StartStep, PostStep, CreateQueue, DeleteQueue, ForgetQueue, PostChecks,
                PostSends, ConnectBegins, ConnectEnds, ClockSet, Stopped, vars, mqtt
  <2>2. UNCHANGED synced \/ synced'
    BY <1>5, Zenon DEF Next, StartStep, PostStep, CreateQueue, DeleteQueue, ForgetQueue, PostChecks,
                       PostSends, ConnectBegins, ConnectEnds, ClockSet, Stopped, vars
  <2> QED
    BY <2>1, <2>2, Zenon DEF ClockInv
<1> QED
  BY <1>1, <1>2, <1>3, <1>4, <1>5

\* No reading leaves before the wall clock is set (metrics_task peeks until it is).
THEOREM ReadingsAreStamped == Spec => []StampedByClock
<1>1. Init => ClockInv
  BY DEF Init, ClockInv
<1>2. ClockInv => StampedByClock
  BY DEF ClockInv, StampedByClock, InHand
<1> QED
  BY <1>1, <1>2, ClockStep, PTL DEF Spec

-----------------------------------------------------------------------------
(* The promise of metrics.h.                                                *)

\* How many readings are waiting.
LEMMA WaitingIs ==
    ASSUME TypeInv
    PROVE  /\ Len(handed) \in Nat /\ Len(queue) \in Nat
           /\ Len(Accepted) - Len(handed) = IF task = "publish" THEN Len(queue) + 1 ELSE Len(queue)
<1>1. queue \in Seq(Post) /\ handed \in Seq(Post) /\ InHand \in Seq(Post)
  BY DEF TypeInv, TypeOK, StartInv, InHand
<1>2. Len(InHand) = IF task = "publish" THEN 1 ELSE 0
  BY DEF InHand
<1>3. handed \o InHand \in Seq(Post) /\ Len(handed \o InHand) = Len(handed) + Len(InHand)
  BY <1>1, ConcatProperties
<1>4. Len(Accepted) = Len(handed \o InHand) + Len(queue)
  BY <1>1, <1>3, ConcatProperties DEF Accepted
<1>5. Len(handed) \in Nat /\ Len(queue) \in Nat
  BY <1>1, LenProperties
<1> QED
  BY <1>2, <1>3, <1>4, <1>5

\* A post takes the reading when there is room, and drops it only when there is none or no queue.
LEMMA SendKeeps ==
    ASSUME TypeInv, PostSends
    PROVE  Kept!Take \/ Kept!Drop
<1>1. /\ poster = "send" /\ poster' # "send" /\ posts \in Post
      /\ UNCHANGED <<start, handle, alive, posts, task, handed, synced>>
  BY DEF PostSends, SendToQueue, SendToNoQueue, mqtt, TypeInv, StartInv
<1>2. Mode' = Mode /\ Len(handed)' = Len(handed)
  BY <1>1 DEF Mode
<1>3. Len(Accepted) - Len(handed) >= Len(queue) /\ Len(Accepted) - Len(handed) <= Len(queue) + 1
  BY WaitingIs
<1>4. Len(queue) \in Nat /\ Len(queue) <= QueueLen /\ Len(Accepted) - Len(handed) \in Int
  BY WaitingIs DEF TypeInv, TypeOK
<1>5. CASE SendToQueue /\ Len(queue) < QueueLen /\ queue' = Append(queue, posts)
  <2>1. Accepted' = Append(Accepted, posts)
    BY <1>5, SendMoves
  <2>2. Mode # "off"
    BY <1>5 DEF SendToQueue, TypeInv, StartInv, Mode
  <2>3. Len(Accepted) - Len(handed) <= QueueLen
    BY <1>3, <1>4, <1>5, QueueLenAssumption
  <2> QED
    BY <1>1, <1>2, <2>1, <2>2, <2>3 DEF Kept!Take, Kept!Waiting
<1>6. CASE UNCHANGED queue /\ (Len(queue) = QueueLen \/ ~(handle /\ alive))
  <2>1. Accepted' = Accepted
    BY <1>6, SendMoves
  <2>2. Len(queue) = QueueLen \/ Mode # "on"
    BY <1>6 DEF TypeInv, StartInv, Mode
  <2>3. Len(Accepted) - Len(handed) >= QueueLen \/ Mode # "on"
    BY <1>3, <1>4, <2>2, QueueLenAssumption
  <2> QED
    BY <1>1, <1>2, <2>1, <2>3 DEF Kept!Drop, Kept!Waiting
<1> QED
  BY <1>5, <1>6 DEF PostSends, SendToQueue, SendToNoQueue

\* Every step is one of Handover, or leaves its variables alone.
LEMMA HandoverStep ==
    ASSUME TypeInv, ClockInv, [Next]_vars
    PROVE  Kept!Next \/ UNCHANGED Kept!vars
<1> USE DEF Kept!Next
<1>0. posts \in Nat /\ Len(handed) \in Nat /\ handed \in Seq(Post)
  BY WaitingIs, MaxPostsAssumption DEF TypeInv, TypeOK
<1>1. CASE CreateQueue \/ StartClient \/ ForgetQueue
  <2>1. Accepted' = Accepted
    BY <1>1, Flow, Zenon DEF CreateQueue, StartClient, ForgetQueue, PostSends, DeleteQueue, Next, StartStep
  <2>2. UNCHANGED <<posts, poster, handed, synced>>
    BY <1>1 DEF CreateQueue, StartClient, ForgetQueue, mqtt
  <2>3. \/ Mode' = Mode
        \/ Mode = "off" /\ Mode' = "on"
        \/ Mode = "on" /\ Mode' = "failing" /\ handed = <<>>
        \/ Mode = "failing" /\ Mode' = "off"
    BY <1>1 DEF CreateQueue, StartClient, ForgetQueue, Mode, TypeInv, StartInv
  <2>4. handed = <<>> => Len(handed) = 0
    OBVIOUS
  <2> QED
    BY <2>1, <2>2, <2>3, <2>4 DEF Kept!Switch, Kept!vars
<1>2. CASE DeleteQueue
  <2>1. Accepted' = <<>> \/ Accepted' = Accepted
    BY <1>2, Flow DEF DeleteQueue, PostSends
  <2>2. UNCHANGED <<posts, poster, handed, synced>> /\ Mode = "failing" /\ Mode' = "failing"
    BY <1>2 DEF DeleteQueue, mqtt, Mode
  <2> QED
    BY <2>1, <2>2 DEF Kept!Switch, Kept!vars
<1>3. CASE PostChecks
  <2>1. Accepted' = Accepted
    BY <1>3, Flow DEF PostChecks, PostSends, DeleteQueue
  <2>2. /\ poster = "idle" /\ posts' = posts + 1 /\ UNCHANGED <<start, handed, synced>>
        /\ poster' = IF handle THEN "send" ELSE "idle"
    BY <1>3 DEF PostChecks, mqtt
  <2>3. handle <=> Mode # "off"
    BY DEF TypeInv, TypeOK, StartInv, Mode
  <2> QED
    BY <2>1, <2>2, <2>3 DEF Kept!Post, Mode
<1>4. CASE PostSends
  BY <1>4, SendKeeps
<1>5. CASE Peek \/ Receive \/ ConnectBegins \/ ConnectEnds \/ UNCHANGED vars
  <2>1. UNCHANGED <<start, posts, poster, handed, synced>>
    BY <1>5 DEF Peek, Receive, ConnectBegins, ConnectEnds, mqtt, vars
  <2>2. Accepted' = Accepted
    <3>1. ~PostSends \/ UNCHANGED vars
      BY <1>5, <2>1 DEF PostSends, SendToQueue, SendToNoQueue
    <3>2. ~DeleteQueue
      BY <2>1 DEF DeleteQueue
    <3>3. UNCHANGED vars => Accepted' = Accepted
      BY DEF vars, mqtt, Accepted, InHand
    <3> QED
      BY <3>1, <3>2, <3>3, Flow
  <2> QED
    BY <2>1, <2>2 DEF Kept!vars, Mode
<1>6. CASE Publish
  <2>1. /\ task = "publish" /\ handed' = Append(handed, item) /\ item \in Post
        /\ UNCHANGED <<start, posts, poster, synced>>
    BY <1>6 DEF Publish, TypeInv, StartInv
  <2>2. Accepted' = Accepted
    BY <1>6, Flow DEF Publish, PostSends, SendToQueue, SendToNoQueue, DeleteQueue
  <2>3. Len(handed)' = Len(handed) + 1
    BY <1>0, <2>1, LenProperties
  <2>4. Len(Accepted) - Len(handed) > 0
    BY <2>1, WaitingIs
  <2>5. Mode = "on" /\ Mode' = Mode /\ synced
    BY <2>1 DEF TypeInv, StartInv, Mode, ClockInv
  <2> QED
    BY <2>1, <2>2, <2>3, <2>4, <2>5 DEF Kept!Send, Kept!Waiting
<1>7. CASE ClockSet
  <2>1. Accepted' = Accepted /\ UNCHANGED <<start, posts, poster, handed>> /\ synced' = TRUE
    BY <1>7 DEF ClockSet, Accepted, InHand, mqtt
  <2> QED
    BY <2>1 DEF Kept!SetClock, Mode
<1> QED
  BY <1>1, <1>2, <1>3, <1>4, <1>5, <1>6, <1>7 DEF Next, StartStep, PostStep, Stopped

\* The handover keeps what metrics.h promises, for a queue of any length and any number of posts.
THEOREM ImplementsHandover == Spec => HandoverKept
<1>1. Init => TypeInv /\ ClockInv /\ Kept!Init
  <2>1. Init => ClockInv
    BY DEF Init, ClockInv
  <2>2. ASSUME Init PROVE Kept!Init
    <3>1. Accepted = <<>> \o <<>> \o <<>>
      BY <2>2 DEF Init, Accepted, InHand
    <3>2. Accepted = <<>>
      BY <3>1
    <3> QED
      BY <2>2, <3>2 DEF Init, Kept!Init, Mode
  <2> QED
    BY <2>1, <2>2, InitTypes
<1>2. TypeInv /\ ClockInv /\ [Next]_vars => [Kept!Next]_Kept!vars
  BY HandoverStep
<1> QED
  BY <1>1, <1>2, TypeStep, ClockStep, PTL DEF Spec, HandoverKept, Kept!Spec

-----------------------------------------------------------------------------
(* Posting.                                                                 *)

\* PostSends, as a relation of the state it is taken in to the values it gives to queue, dropped
\* and poster.
Sends(q, d, p) ==
    \/ /\ handle /\ alive
       /\ p = "idle"
       /\ \/ Len(queue) < QueueLen /\ q = Append(queue, posts) /\ d = dropped
          \/ Len(queue) = QueueLen /\ q = queue /\ d = dropped \cup {posts}
    \/ /\ ~(handle /\ alive)
       /\ p \in {"idle", "panic"}
       /\ q = queue /\ d \in {dropped, dropped \cup {posts}}

\* It is that relation, and leaves everything else as it is.
LEMMA SendsIsPostSends ==
    PostSends <=> /\ poster = "send"
                  /\ Sends(queue', dropped', poster')
                  /\ UNCHANGED <<start, handle, alive, posts, ignored, task, item, synced, mqtt>>
  BY Zenon DEF PostSends, SendToQueue, SendToNoQueue, Sends

\* metrics_post() never waits (metrics.c:24): wherever the metrics task, the client and its lock, the
\* clock and metrics_start() are, there are values a send can end with. This is what PostNeverWaits
\* says with ENABLED.
THEOREM PostAlwaysSends == Spec => [](poster = "send" => \E q, d, p : Sends(q, d, p))
<1>1. TypeInv => \E q, d, p : Sends(q, d, p)
  <2> SUFFICES ASSUME TypeInv PROVE \E q, d, p : Sends(q, d, p)
    OBVIOUS
  <2>1. Len(queue) < QueueLen \/ Len(queue) = QueueLen
    BY QueueLenAssumption, LenProperties DEF TypeInv, TypeOK
  <2>2. CASE Len(queue) < QueueLen
    <3>1. Sends(Append(queue, posts), dropped, "idle") \/ Sends(queue, dropped, "idle")
      BY <2>2 DEF Sends
    <3> QED
      BY <3>1
  <2>3. CASE Len(queue) = QueueLen
    <3>1. Sends(queue, dropped \cup {posts}, "idle")
      BY <2>3 DEF Sends
    <3> QED
      BY <3>1
  <2> QED
    BY <2>1, <2>2, <2>3
<1> QED
  BY <1>1, InitTypes, TypeStep, PTL DEF Spec

\* Without a client that failed to start there is no queue to be deleted under a post.
NotFreed == start # "freed" /\ (start = "disabled" => poster # "send")

\* metrics.h: posts are "dropped when the queue is full or metrics are disabled", which the run shows
\* to be wrong of a client that fails to start, is true otherwise: metrics_post() finds its queue.
THEOREM SendsUnlessStartFails == Spec /\ [](start # "failed") => []SendsToQueue
<1>1. Init => NotFreed
  BY DEF Init, NotFreed
<1>2. TypeInv /\ start # "failed" /\ NotFreed /\ [Next]_vars => NotFreed'
  BY Zenon DEF TypeInv, StartInv, NotFreed, Next, StartStep, PostStep, CreateQueue, StartClient, DeleteQueue,
               ForgetQueue, PostChecks, PostSends, SendToQueue, SendToNoQueue, Peek, Receive, Publish, ConnectBegins,
               ConnectEnds, ClockSet, Stopped, vars
<1>3. TypeInv /\ start # "failed" /\ NotFreed => SendsToQueue
  BY DEF TypeInv, TypeOK, StartInv, NotFreed, SendsToQueue
<1> QED
  BY <1>1, <1>2, <1>3, InitTypes, TypeStep, PTL DEF Spec

=============================================================================
