------------------------------- MODULE Streams -------------------------------
(***************************************************************************)
(* The server's side of live updates: app/scheduler.py puts a snapshot in  *)
(* the bounded queue of every subscriber after each poll, app/main.py      *)
(* admits a request for /api/stream while fewer than Cap are subscribed    *)
(* and then sends it one snapshot of now and whatever its queue holds.     *)
(*                                                                         *)
(* A snapshot is the version of what it shows.  Its time stamp orders      *)
(* snapshots as their versions do; two of one version are not told apart.  *)
(***************************************************************************)
EXTENDS Naturals, Sequences, FiniteSets

CONSTANTS
  Requests,    \* requests for a stream, reused when they have ended
  Cap,         \* streams admitted, 32 in the code
  QueueSize,   \* snapshots a queue holds, 4 in the code
  InFlight,    \* frames the connection buffers before a send waits
  LastVersion  \* bound: the state changes this often

ASSUME SizesAssumption == /\ Cap \in Nat \ {0}
                          /\ QueueSize \in Nat \ {0}
                          /\ InFlight \in Nat \ {0}
                          /\ LastVersion \in Nat \ {0}

VARIABLES
  version,    \* of what a snapshot taken now shows
  announced,  \* of the last broadcast
  stage,      \* request -> idle, admitted, open (subscribed), left (the client is gone)
  queue,      \* request -> the subscriber's queue
  sent,       \* request -> the last version the generator yielded
  wire        \* request -> frames yielded and not yet received

streamVars == <<version, announced, stage, queue, sent, wire>>

Stages == {"idle", "admitted", "open", "left"}

Subscribers_FromAdmission ==  \* faulty: the handler subscribes, not the generator
  {s \in Requests : stage[s] # "idle"}

Subscribers == {s \in Requests : stage[s] \in {"open", "left"}}

Enqueued_DropsNewest(q, v) ==  \* faulty: a full queue refuses
  IF Len(q) = QueueSize THEN q ELSE Append(q, v)

\* A full queue loses its oldest snapshot, never the newest.
Enqueued(q, v) == Append(IF Len(q) = QueueSize THEN Tail(q) ELSE q, v)

Changed == {v \in {version, version + 1} : v <= LastVersion}

\* _ingest and _broadcast, without an await between them.  With no
\* subscriber nothing is put anywhere.
Poll ==
  /\ version' \in Changed
  /\ announced' = version'
  /\ queue' = [s \in Requests |-> IF s \in Subscribers THEN Enqueued(queue[s], version') ELSE queue[s]]
  /\ UNCHANGED <<stage, sent, wire>>

\* A mute, or only time: what a snapshot shows changes without a broadcast.
Drift ==
  /\ version < LastVersion
  /\ version' = version + 1
  /\ UNCHANGED <<announced, stage, queue, sent, wire>>

HasRoom == Cardinality(Subscribers) < Cap

\* The handler: the cap is checked here, the queue comes later.
Admit(s) ==
  /\ stage[s] = "idle"
  /\ HasRoom
  /\ stage' = [stage EXCEPT ![s] = "admitted"]
  /\ UNCHANGED <<version, announced, queue, sent, wire>>

\* The generator starts: it subscribes and yields a snapshot of now.
Subscribe(s) ==
  /\ stage[s] = "admitted"
  /\ stage' = [stage EXCEPT ![s] = "open"]
  /\ sent' = [sent EXCEPT ![s] = version]
  /\ wire' = [wire EXCEPT ![s] = Append(@, version)]
  /\ UNCHANGED <<version, announced, queue>>

\* It takes the next snapshot from its queue and yields that.
Send(s) ==
  /\ stage[s] = "open"
  /\ queue[s] # <<>> /\ Len(wire[s]) < InFlight
  /\ sent' = [sent EXCEPT ![s] = Head(queue[s])]
  /\ wire' = [wire EXCEPT ![s] = Append(@, Head(queue[s]))]
  /\ queue' = [queue EXCEPT ![s] = Tail(@)]
  /\ UNCHANGED <<version, announced, stage>>

\* The client goes away, or the connection breaks.
Leave(s) ==
  /\ stage[s] \in {"admitted", "open"}
  /\ stage' = [stage EXCEPT ![s] = IF @ = "open" THEN "left" ELSE "idle"]
  /\ wire' = [wire EXCEPT ![s] = <<>>]
  /\ UNCHANGED <<version, announced, queue, sent>>

End_KeepsQueue(s) ==  \* faulty: the generator ends without unsubscribing
  /\ stage[s] = "left"
  /\ UNCHANGED streamVars

\* The generator finds out when it next has something to send, a heartbeat
\* after twenty seconds at the latest, and unsubscribes.
End(s) ==
  /\ stage[s] = "left"
  /\ stage' = [stage EXCEPT ![s] = "idle"]
  /\ queue' = [queue EXCEPT ![s] = <<>>]
  /\ sent' = [sent EXCEPT ![s] = 0]
  /\ UNCHANGED <<version, announced, wire>>

\* The panel is restarted: every stream is cut, and what it shows is new.
Restart ==
  /\ version < LastVersion
  /\ version' = version + 1
  /\ announced' = 0
  /\ stage' = [s \in Requests |-> "idle"]
  /\ queue' = [s \in Requests |-> <<>>]
  /\ sent' = [s \in Requests |-> 0]
  /\ wire' = [s \in Requests |-> <<>>]

\* The client takes a frame off the connection.
Take(s) ==
  /\ wire[s] # <<>>
  /\ wire' = [wire EXCEPT ![s] = Tail(@)]
  /\ UNCHANGED <<version, announced, stage, queue, sent>>

StreamInit ==
  /\ version = 1
  /\ announced = 0
  /\ stage = [s \in Requests |-> "idle"]
  /\ queue = [s \in Requests |-> <<>>]
  /\ sent = [s \in Requests |-> 0]
  /\ wire = [s \in Requests |-> <<>>]

\* What the server does by itself, and what any client may do.
Serve(s)     == Subscribe(s) \/ Send(s) \/ End(s)
Client(s)    == Admit(s) \/ Leave(s) \/ Take(s)
StreamNext   == Poll \/ Drift \/ Restart \/ \E s \in Requests : Serve(s) \/ Client(s)
StreamSpec   == StreamInit /\ [][StreamNext]_streamVars
-----------------------------------------------------------------------------
StreamTypeOK ==
  /\ version \in Nat /\ announced \in Nat
  /\ stage \in [Requests -> Stages]
  /\ queue \in [Requests -> Seq(Nat)]
  /\ sent \in [Requests -> Nat]
  /\ wire \in [Requests -> Seq(Nat)]

Ascending(q) == \A i, j \in 1..Len(q) : i < j => q[i] <= q[j]

\* What a stream sends is never older than what it sent before, the first
\* snapshot included: `the client received a fresh snapshot and then had up
\* to four older ones replayed over it' must not come back.
StreamsAscend ==
  \A s \in Requests :
    /\ Ascending(queue[s]) /\ Ascending(wire[s])
    /\ \A i \in 1..Len(queue[s]) : sent[s] <= queue[s][i] /\ queue[s][i] <= version
    /\ \A i \in 1..Len(wire[s]) : wire[s][i] <= sent[s]

\* However slow a subscriber is, the last broadcast is not lost on it: it was
\* sent, or is the end of a queue that does not grow beyond its size.
NewestIsKept ==
  \A s \in Requests : stage[s] = "open" =>
    /\ Len(queue[s]) <= QueueSize
    /\ announced <= IF queue[s] = <<>> THEN sent[s] ELSE queue[s][Len(queue[s])]
=============================================================================
