---------------------------- MODULE StreamsProofs ----------------------------
(***************************************************************************)
(* What a stream sends never goes back, and a slow subscriber keeps the    *)
(* newest snapshot: for any number of requests, any cap and any sizes.     *)
(***************************************************************************)
EXTENDS Streams, SequenceTheorems, TLAPS

(***************************************************************************)
(* One queue: q holds snapshots in order, none before lo or after hi.      *)
(***************************************************************************)
Between(q, lo, hi) == Ascending(q) /\ \A i \in 1..Len(q) : lo <= q[i] /\ q[i] <= hi

\* What a client was last offered: sent to it, or waiting at the end.
Newest(s) == IF queue[s] = <<>> THEN sent[s] ELSE queue[s][Len(queue[s])]

(***************************************************************************)
(* The inductive invariant, for one request.  Its parts beyond the two     *)
(* properties: nothing comes from the future, and a request that is not    *)
(* subscribed has nothing queued or on its way, so that what a new stream  *)
(* sends first has nothing older before or behind it.                      *)
(***************************************************************************)
Ordered(s) == Between(queue[s], sent[s], version) /\ Between(wire[s], 0, sent[s])
Fresh(s)   == /\ sent[s] <= version /\ Len(queue[s]) <= QueueSize
              /\ stage[s] = "open" => announced <= Newest(s)
Quiet(s)   == /\ stage[s] # "open" => wire[s] = <<>>
              /\ stage[s] \in {"idle", "admitted"} => queue[s] = <<>> /\ sent[s] = 0

Past == announced <= version

StreamInv == StreamTypeOK /\ Past /\ \A s \in Requests : Ordered(s) /\ Fresh(s) /\ Quiet(s)

\* Taking the head leaves a queue in order, above what was taken.
LEMMA TailBetween ==
  ASSUME NEW q \in Seq(Nat), NEW lo \in Nat, NEW hi \in Nat, q # <<>>, Between(q, lo, hi)
  PROVE  Between(Tail(q), Head(q), hi)
<1>1. Tail(q) \in Seq(Nat) /\ Len(Tail(q)) = Len(q) - 1 /\ Len(q) >= 1
  OBVIOUS
<1>2. \A i \in 1..Len(Tail(q)) : Tail(q)[i] = q[i + 1]
  OBVIOUS
<1>3. Head(q) = q[1] /\ Head(q) \in Nat
  OBVIOUS
<1>4. \A i \in 1..Len(q) : q[i] \in Nat
  OBVIOUS
<1>5. Ascending(Tail(q))
  BY <1>1, <1>2, <1>4 DEF Between, Ascending
<1>6. \A i \in 1..Len(Tail(q)) : Head(q) <= Tail(q)[i] /\ Tail(q)[i] <= hi
  BY <1>1, <1>2, <1>3, <1>4 DEF Between, Ascending
<1> QED BY <1>5, <1>6 DEF Between

\* Putting something newer at the end keeps the order.
LEMMA AppendBetween ==
  ASSUME NEW q \in Seq(Nat), NEW lo \in Nat, NEW hi \in Nat, NEW v \in Nat,
         Between(q, lo, hi), lo <= v, hi <= v
  PROVE  Between(Append(q, v), lo, v)
<1>1. Append(q, v) \in Seq(Nat) /\ Len(Append(q, v)) = Len(q) + 1
  OBVIOUS
<1>2. \A i \in 1..Len(q) : Append(q, v)[i] = q[i] /\ q[i] \in Nat
  OBVIOUS
<1>3. Append(q, v)[Len(q) + 1] = v
  OBVIOUS
<1>4. \A i \in 1..Len(q) : q[i] <= v
  BY <1>2 DEF Between
<1>5. Ascending(Append(q, v))
  BY <1>1, <1>2, <1>3, <1>4 DEF Between, Ascending
<1>6. \A i \in 1..Len(Append(q, v)) : lo <= Append(q, v)[i] /\ Append(q, v)[i] <= v
  BY <1>1, <1>2, <1>3, <1>4 DEF Between
<1> QED BY <1>5, <1>6 DEF Between

\* A bound may be widened.
LEMMA WiderBetween ==
  ASSUME NEW q \in Seq(Nat), NEW lo \in Nat, NEW hi \in Nat, NEW lo2 \in Nat, NEW hi2 \in Nat,
         Between(q, lo, hi), lo2 <= lo, hi <= hi2
  PROVE  Between(q, lo2, hi2)
<1>1. \A i \in 1..Len(q) : q[i] \in Nat
  OBVIOUS
<1> QED BY <1>1 DEF Between

\* What _broadcast does to one queue: in order, not longer than its size,
\* and the new snapshot at its end.
LEMMA EnqueuedBetween ==
  ASSUME NEW q \in Seq(Nat), NEW lo \in Nat, NEW hi \in Nat, NEW v \in Nat,
         Between(q, lo, hi), lo <= v, hi <= v, Len(q) <= QueueSize
  PROVE  /\ Between(Enqueued(q, v), lo, v)
         /\ Enqueued(q, v) \in Seq(Nat)
         /\ Len(Enqueued(q, v)) \in 1..QueueSize
         /\ Enqueued(q, v)[Len(Enqueued(q, v))] = v
<1> USE SizesAssumption
<1>1. CASE Len(q) = QueueSize
  <2>1. q # <<>>
    BY <1>1
  <2>2. Tail(q) \in Seq(Nat) /\ Len(Tail(q)) = QueueSize - 1 /\ Head(q) \in Nat
    BY <2>1, <1>1
  <2>3. lo <= Head(q) /\ Head(q) <= v
    BY <2>1 DEF Between
  <2>4. Between(Tail(q), lo, hi)
    <3>1. Between(Tail(q), Head(q), hi)
      BY <2>1, TailBetween
    <3>2. \A i \in 1..Len(Tail(q)) : Tail(q)[i] \in Nat
      BY <2>2
    <3> QED BY <3>1, <3>2, <2>2, <2>3 DEF Between
  <2>5. Enqueued(q, v) = Append(Tail(q), v)
    BY <1>1 DEF Enqueued
  <2>6. Between(Append(Tail(q), v), lo, v)
    BY <2>2, <2>4, AppendBetween
  <2> QED BY <2>2, <2>5, <2>6
<1>2. CASE Len(q) # QueueSize
  <2>1. Enqueued(q, v) = Append(q, v)
    BY <1>2 DEF Enqueued
  <2>2. Between(Append(q, v), lo, v)
    BY AppendBetween
  <2> QED BY <1>2, <2>1, <2>2
<1> QED BY <1>1, <1>2
-----------------------------------------------------------------------------
\* An empty queue is in order.
LEMMA EmptyBetween ==
  ASSUME NEW lo \in Nat, NEW hi \in Nat PROVE Between(<<>>, lo, hi)
BY DEF Between, Ascending

LEMMA InitStreamInv == StreamInit => StreamInv
<1> SUFFICES ASSUME StreamInit PROVE StreamInv
  OBVIOUS
<1>1. StreamTypeOK /\ Past
  BY DEF StreamInit, StreamTypeOK, Stages, Past
<1>2. ASSUME NEW s \in Requests PROVE Ordered(s) /\ Fresh(s) /\ Quiet(s)
  BY EmptyBetween, SizesAssumption DEF StreamInit, Ordered, Fresh, Quiet, Newest
<1> QED BY <1>1, <1>2 DEF StreamInv

(***************************************************************************)
(* Each action keeps it.  An action of one request leaves the others as    *)
(* they are.                                                               *)
(***************************************************************************)
LEMMA OthersKeep ==
  ASSUME StreamInv, NEW s \in Requests,
         version' = version, announced' = announced,
         stage'[s] = stage[s], queue'[s] = queue[s], sent'[s] = sent[s], wire'[s] = wire[s]
  PROVE  (Ordered(s) /\ Fresh(s) /\ Quiet(s))'
BY DEF StreamInv, Ordered, Fresh, Quiet, Newest

LEMMA PollKeeps == StreamInv /\ Poll => StreamInv'
<1> SUFFICES ASSUME StreamInv, Poll PROVE StreamInv'
  OBVIOUS
<1>1. version \in Nat /\ version' \in Nat /\ version <= version'
  BY DEF StreamInv, StreamTypeOK, Poll, Changed
<1>2. ASSUME NEW s \in Requests
      PROVE  queue[s] \in Seq(Nat) /\ wire[s] \in Seq(Nat) /\ sent[s] \in Nat
  BY DEF StreamInv, StreamTypeOK
<1>3. ASSUME NEW s \in Requests, s \in Subscribers
      PROVE  /\ queue'[s] = Enqueued(queue[s], version') /\ Enqueued(queue[s], version') \in Seq(Nat)
             /\ Between(queue'[s], sent[s], version')
             /\ Len(queue'[s]) \in 1..QueueSize
             /\ queue'[s][Len(queue'[s])] = version'
  <2>1. queue'[s] = Enqueued(queue[s], version')
    BY <1>3 DEF Poll
  <2>2. /\ Between(queue[s], sent[s], version) /\ sent[s] <= version'
        /\ Len(queue[s]) <= QueueSize
    BY <1>1, <1>2 DEF StreamInv, Ordered, Fresh
  <2> QED BY <1>1, <1>2, <2>1, <2>2, EnqueuedBetween
<1>4. ASSUME NEW s \in Requests, s \notin Subscribers
      PROVE  queue'[s] = queue[s] /\ Between(queue'[s], sent[s], version')
  <2>1. queue'[s] = queue[s]
    BY <1>4 DEF Poll
  <2>2. Between(queue[s], sent[s], version)
    BY DEF StreamInv, Ordered
  <2>3. sent[s] <= sent[s]
    BY <1>2
  <2> QED BY <1>1, <1>2, <2>1, <2>2, <2>3, WiderBetween
<1>5. StreamTypeOK'
  <2>1. queue' \in [Requests -> Seq(Nat)]
    BY <1>2, <1>3, <1>4 DEF Poll
  <2> QED BY <1>1, <2>1 DEF StreamInv, StreamTypeOK, Poll
<1>6. Past'
  BY <1>1 DEF Poll, Past
<1>7. ASSUME NEW s \in Requests PROVE (Ordered(s) /\ Fresh(s) /\ Quiet(s))'
  <2>1. Ordered(s)'
    BY <1>3, <1>4 DEF StreamInv, Ordered, Poll
  <2>2. Fresh(s)'
    <3>1. sent'[s] <= version'
      BY <1>1, <1>2 DEF StreamInv, Fresh, Poll
    <3>2. Len(queue'[s]) <= QueueSize
      BY <1>3, <1>4, SizesAssumption DEF StreamInv, Fresh
    <3>3. ASSUME stage'[s] = "open" PROVE announced' <= Newest(s)'
      <4>1. s \in Subscribers
        BY <3>3 DEF Poll, Subscribers
      <4>2. queue'[s] # <<>> /\ queue'[s][Len(queue'[s])] = version'
        BY <1>3, <4>1, SizesAssumption
      <4> QED BY <1>1, <4>2 DEF Newest, Poll
    <3> QED BY <3>1, <3>2, <3>3 DEF Fresh
  <2>3. Quiet(s)'
    BY <1>4 DEF StreamInv, Quiet, Poll, Subscribers
  <2> QED BY <2>1, <2>2, <2>3
<1> QED BY <1>5, <1>6, <1>7 DEF StreamInv

LEMMA DriftKeeps == StreamInv /\ Drift => StreamInv'
<1> SUFFICES ASSUME StreamInv, Drift PROVE StreamInv'
  OBVIOUS
<1>1. StreamTypeOK' /\ Past'
  BY DEF StreamInv, StreamTypeOK, Past, Drift
<1>2. ASSUME NEW s \in Requests PROVE (Ordered(s) /\ Fresh(s) /\ Quiet(s))'
  <2>1. queue[s] \in Seq(Nat) /\ wire[s] \in Seq(Nat) /\ sent[s] \in Nat /\ version \in Nat
    BY DEF StreamInv, StreamTypeOK
  <2>2. Between(queue[s], sent[s], version + 1)
    <3>1. Between(queue[s], sent[s], version) /\ version <= version + 1 /\ sent[s] <= sent[s]
      BY <2>1 DEF StreamInv, Ordered
    <3>2. version + 1 \in Nat
      BY <2>1
    <3> QED BY <2>1, <3>1, <3>2, WiderBetween
  <2>3. Ordered(s)'
    BY <2>2 DEF StreamInv, Ordered, Drift
  <2>4. Fresh(s)'
    BY <2>1 DEF StreamInv, Fresh, Drift, Newest
  <2>5. Quiet(s)'
    BY DEF StreamInv, Quiet, Drift
  <2> QED BY <2>3, <2>4, <2>5
<1> QED BY <1>1, <1>2 DEF StreamInv

LEMMA RestartKeeps == StreamInv /\ Restart => StreamInv'
<1> SUFFICES ASSUME StreamInv, Restart PROVE StreamInv'
  OBVIOUS
<1>1. StreamTypeOK' /\ Past'
  BY DEF StreamInv, StreamTypeOK, Stages, Past, Restart
<1>2. ASSUME NEW s \in Requests PROVE (Ordered(s) /\ Fresh(s) /\ Quiet(s))'
  <2>1. /\ stage'[s] = "idle" /\ queue'[s] = <<>> /\ wire'[s] = <<>> /\ sent'[s] = 0
        /\ version' \in Nat
    BY DEF StreamInv, StreamTypeOK, Restart
  <2> QED BY <2>1, EmptyBetween, SizesAssumption DEF Ordered, Fresh, Quiet, Newest
<1> QED BY <1>1, <1>2 DEF StreamInv

\* What every action of one request has in common.
LEMMA OneKeeps ==
  ASSUME StreamInv, StreamTypeOK', version' = version, announced' = announced,
         NEW s \in Requests, (Ordered(s) /\ Fresh(s) /\ Quiet(s))',
         \A t \in Requests \ {s} : /\ stage'[t] = stage[t] /\ queue'[t] = queue[t]
                                  /\ sent'[t] = sent[t] /\ wire'[t] = wire[t]
  PROVE  StreamInv'
<1>1. ASSUME NEW t \in Requests PROVE (Ordered(t) /\ Fresh(t) /\ Quiet(t))'
  <2>1. CASE t = s
    BY <2>1
  <2>2. CASE t # s
    BY <2>2, OthersKeep
  <2> QED BY <2>1, <2>2
<1>2. Past'
  BY DEF StreamInv, Past
<1> QED BY <1>1, <1>2 DEF StreamInv

LEMMA AdmitKeeps == ASSUME NEW s \in Requests, StreamInv, Admit(s) PROVE StreamInv'
<1>1. StreamTypeOK'
  BY DEF StreamInv, StreamTypeOK, Stages, Admit
<1>2. stage'[s] = "admitted" /\ stage[s] = "idle"
  BY DEF StreamInv, StreamTypeOK, Admit
<1>3. (Ordered(s) /\ Fresh(s) /\ Quiet(s))'
  BY <1>2 DEF StreamInv, Ordered, Fresh, Quiet, Admit
<1> QED BY <1>1, <1>3, OneKeeps DEF Admit

LEMMA SubscribeKeeps == ASSUME NEW s \in Requests, StreamInv, Subscribe(s) PROVE StreamInv'
<1>1. /\ version \in Nat /\ announced \in Nat /\ announced <= version
      /\ stage[s] = "admitted" /\ wire[s] = <<>> /\ queue[s] = <<>>
  BY DEF StreamInv, StreamTypeOK, Past, Quiet, Subscribe
<1>2. /\ stage'[s] = "open" /\ sent'[s] = version /\ wire'[s] = <<version>>
      /\ queue'[s] = <<>> /\ version' = version /\ announced' = announced
  BY <1>1 DEF StreamInv, StreamTypeOK, Subscribe
<1>3. StreamTypeOK'
  BY <1>1 DEF StreamInv, StreamTypeOK, Stages, Subscribe
<1>4. Ordered(s)'
  <2>1. Between(<<version>>, 0, version)
    BY <1>1 DEF Between, Ascending
  <2> QED BY <1>1, <1>2, <2>1, EmptyBetween DEF Ordered
<1>5. (Fresh(s) /\ Quiet(s))'
  BY <1>1, <1>2, SizesAssumption DEF Fresh, Quiet, Newest
<1> QED BY <1>3, <1>4, <1>5, OneKeeps DEF Subscribe

LEMMA SendKeeps == ASSUME NEW s \in Requests, StreamInv, Send(s) PROVE StreamInv'
<1>1. /\ version \in Nat /\ announced \in Nat /\ sent[s] \in Nat
      /\ queue[s] \in Seq(Nat) /\ wire[s] \in Seq(Nat) /\ queue[s] # <<>> /\ stage[s] = "open"
      /\ Between(queue[s], sent[s], version) /\ Between(wire[s], 0, sent[s])
      /\ Len(queue[s]) <= QueueSize /\ announced <= Newest(s)
  BY DEF StreamInv, StreamTypeOK, Ordered, Fresh, Send
<1> DEFINE head == Head(queue[s])
<1>2. head \in Nat /\ Len(queue[s]) >= 1 /\ head = queue[s][1] /\ Tail(queue[s]) \in Seq(Nat)
  BY <1>1
<1>3. sent[s] <= head /\ head <= version
  BY <1>1, <1>2 DEF Between
<1>4. /\ stage'[s] = "open" /\ sent'[s] = head /\ wire'[s] = Append(wire[s], head)
      /\ queue'[s] = Tail(queue[s]) /\ version' = version /\ announced' = announced
  BY <1>1 DEF StreamInv, StreamTypeOK, Send
<1>5. StreamTypeOK'
  <2>1. sent' \in [Requests -> Nat]
    BY <1>2 DEF StreamInv, StreamTypeOK, Send
  <2>2. queue' \in [Requests -> Seq(Nat)]
    BY <1>2 DEF StreamInv, StreamTypeOK, Send
  <2>3. wire' \in [Requests -> Seq(Nat)]
    BY <1>1, <1>2 DEF StreamInv, StreamTypeOK, Send
  <2> QED BY <2>1, <2>2, <2>3 DEF StreamInv, StreamTypeOK, Send
<1>6. Ordered(s)'
  <2>1. Between(Tail(queue[s]), head, version)
    BY <1>1, TailBetween
  <2>2. Between(Append(wire[s], head), 0, head)
    BY <1>1, <1>2, <1>3, AppendBetween
  <2> QED BY <1>4, <2>1, <2>2 DEF Ordered
<1>7. Newest(s)' = Newest(s)
  <2>0. Len(queue[s]) \in Nat
    BY <1>1, LenProperties
  <2>1. Newest(s) = queue[s][Len(queue[s])]
    BY <1>1 DEF Newest
  <2>2. Newest(s)' = IF Tail(queue[s]) = <<>> THEN head ELSE Tail(queue[s])[Len(Tail(queue[s]))]
    BY <1>4 DEF Newest
  <2>3. Len(Tail(queue[s])) = Len(queue[s]) - 1
    BY <1>1
  <2>4. Tail(queue[s]) = <<>> <=> Len(Tail(queue[s])) = 0
    BY <1>2, EmptySeq
  <2>5. \A i \in 1..Len(Tail(queue[s])) : Tail(queue[s])[i] = queue[s][i + 1]
    BY <1>1
  <2>6. CASE Len(queue[s]) = 1
    BY <1>2, <2>1, <2>2, <2>3, <2>4, <2>6
  <2>7. CASE Len(queue[s]) > 1
    <3>1. Len(queue[s]) \in Nat /\ Len(queue[s]) > 1
      BY <2>7, <2>0
    <3>2. Len(Tail(queue[s])) \in 1..Len(Tail(queue[s])) /\ Len(Tail(queue[s])) + 1 = Len(queue[s])
      BY <2>3, <3>1
    <3>3. Tail(queue[s])[Len(Tail(queue[s]))] = queue[s][Len(queue[s])]
      BY <2>5, <3>2
    <3> QED BY <2>1, <2>2, <2>3, <2>4, <3>1, <3>3
  <2>8. Len(queue[s]) \in Nat \ {0}
    BY <1>1, EmptySeq
  <2>9. \A n \in Nat \ {0} : n = 1 \/ n > 1
    OBVIOUS
  <2> QED BY <2>6, <2>7, <2>8, <2>9
<1>8. (Fresh(s) /\ Quiet(s))'
  <2>1. Len(Tail(queue[s])) <= QueueSize
    BY <1>1, <1>2, SizesAssumption
  <2> QED BY <1>1, <1>3, <1>4, <1>7, <2>1 DEF Fresh, Quiet
<1> HIDE DEF head
<1> QED BY <1>5, <1>6, <1>8, OneKeeps DEF Send

LEMMA LeaveKeeps == ASSUME NEW s \in Requests, StreamInv, Leave(s) PROVE StreamInv'
<1>1. StreamTypeOK'
  BY DEF StreamInv, StreamTypeOK, Stages, Leave
<1>2. /\ stage'[s] \in {"left", "idle"} /\ (stage'[s] = "idle" => stage[s] = "admitted")
      /\ wire'[s] = <<>> /\ sent[s] \in Nat
  BY DEF StreamInv, StreamTypeOK, Leave
<1>3. (Ordered(s) /\ Fresh(s) /\ Quiet(s))'
  BY <1>2, EmptyBetween DEF StreamInv, Ordered, Fresh, Quiet, Leave
<1> QED BY <1>1, <1>3, OneKeeps DEF Leave

LEMMA EndKeeps == ASSUME NEW s \in Requests, StreamInv, End(s) PROVE StreamInv'
<1>1. StreamTypeOK'
  BY DEF StreamInv, StreamTypeOK, Stages, End
<1>2. /\ stage'[s] = "idle" /\ queue'[s] = <<>> /\ sent'[s] = 0
      /\ wire'[s] = <<>> /\ version' = version /\ version \in Nat
  BY DEF StreamInv, StreamTypeOK, Quiet, End
<1>3. (Ordered(s) /\ Fresh(s) /\ Quiet(s))'
  BY <1>2, EmptyBetween, SizesAssumption DEF Ordered, Fresh, Quiet
<1> QED BY <1>1, <1>3, OneKeeps DEF End

LEMMA TakeKeeps == ASSUME NEW s \in Requests, StreamInv, Take(s) PROVE StreamInv'
<1>1. /\ wire[s] \in Seq(Nat) /\ wire[s] # <<>> /\ sent[s] \in Nat
      /\ Between(wire[s], 0, sent[s])
  BY DEF StreamInv, StreamTypeOK, Ordered, Take
<1>2. /\ wire'[s] = Tail(wire[s]) /\ Tail(wire[s]) \in Seq(Nat)
      /\ Head(wire[s]) \in Nat
  BY <1>1 DEF StreamInv, StreamTypeOK, Take
<1>3. StreamTypeOK'
  <2>1. wire' \in [Requests -> Seq(Nat)]
    BY <1>2 DEF StreamInv, StreamTypeOK, Take
  <2> QED BY <2>1 DEF StreamInv, StreamTypeOK, Take
<1>4. Between(Tail(wire[s]), 0, sent[s])
  <2>1. Between(Tail(wire[s]), Head(wire[s]), sent[s])
    BY <1>1, TailBetween
  <2>2. 0 <= Head(wire[s]) /\ sent[s] <= sent[s] /\ 0 \in Nat
    BY <1>1, <1>2
  <2> QED BY <1>1, <1>2, <2>1, <2>2, WiderBetween
<1>5. stage[s] = "open"
  BY <1>1 DEF StreamInv, Quiet
<1>6. (Ordered(s) /\ Fresh(s) /\ Quiet(s))'
  BY <1>2, <1>4, <1>5 DEF StreamInv, Ordered, Fresh, Quiet, Newest, Take
<1> QED BY <1>3, <1>6, OneKeeps DEF Take

LEMMA NextStreamInv == StreamInv /\ [StreamNext]_streamVars => StreamInv'
<1> SUFFICES ASSUME StreamInv, [StreamNext]_streamVars PROVE StreamInv'
  OBVIOUS
<1>1. CASE Poll
  BY <1>1, PollKeeps
<1>2. CASE Drift
  BY <1>2, DriftKeeps
<1>3. CASE Restart
  BY <1>3, RestartKeeps
<1>4. ASSUME NEW s \in Requests, Serve(s) PROVE StreamInv'
  BY <1>4, SubscribeKeeps, SendKeeps, EndKeeps DEF Serve
<1>5. ASSUME NEW s \in Requests, Client(s) PROVE StreamInv'
  BY <1>5, AdmitKeeps, LeaveKeeps, TakeKeeps DEF Client
<1>6. CASE UNCHANGED streamVars
  BY <1>6 DEF streamVars, StreamInv, StreamTypeOK, Past, Ordered, Fresh, Quiet, Newest
<1> QED BY <1>1, <1>2, <1>3, <1>4, <1>5, <1>6 DEF StreamNext

LEMMA Streaming == StreamSpec => []StreamInv
BY InitStreamInv, NextStreamInv, PTL DEF StreamSpec

\* No stream ever sends something older than it sent before.
THEOREM NoReplay == StreamSpec => []StreamsAscend
<1>1. StreamInv => StreamsAscend
  <2> SUFFICES ASSUME StreamInv, NEW s \in Requests
               PROVE  /\ Ascending(queue[s]) /\ Ascending(wire[s])
                      /\ \A i \in 1..Len(queue[s]) : sent[s] <= queue[s][i] /\ queue[s][i] <= version
                      /\ \A i \in 1..Len(wire[s]) : wire[s][i] <= sent[s]
    BY DEF StreamsAscend
  <2> QED BY DEF StreamInv, Ordered, Between
<1> QED BY <1>1, Streaming, PTL

\* The last broadcast is never lost on a subscriber, and no queue grows
\* beyond its size.
THEOREM NewestReaches == StreamSpec => []NewestIsKept
<1>1. StreamInv => NewestIsKept
  BY DEF StreamInv, Fresh, Newest, NewestIsKept
<1> QED BY <1>1, Streaming, PTL
=============================================================================
