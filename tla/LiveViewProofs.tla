---------------------------- MODULE LiveViewProofs ----------------------------
(***************************************************************************)
(* The board never goes back and never shows what was not, and after its   *)
(* first error it is always fed: for any requests, any number of fetches   *)
(* in flight, any sizes of cap, queue and connection.                      *)
(***************************************************************************)
EXTENDS LiveView, StreamsProofs

\* What arrives was asked for on a stream the server admitted.
Linked == ready = "open" => link # NoLink

\* Nothing on screen or on its way there comes from the future.
Seen == shown <= version /\ \A f \in Fetches : fetch[f].got <= version

\* The label leaves `connecting' with the first event of the stream, and
\* only an error of the stream starts polling.
Begun == /\ polling => feed # "connecting"
         /\ \A f \in Fetches : fetch[f].for = "poll" => feed # "connecting"

BoardInv == StreamInv /\ TypeOK /\ Linked /\ Seen /\ AlwaysFed /\ Begun

LEMMA OwnLink ==
  ASSUME TypeOK, link # NoLink PROVE link \in Requests /\ link \in Own
BY OwnAssumption DEF TypeOK

LEMMA InitBoardInv == Init => BoardInv
<1> SUFFICES ASSUME Init PROVE BoardInv
  OBVIOUS
<1>1. StreamInv
  BY InitStreamInv DEF Init
<1>2. TypeOK
  BY <1>1 DEF Init, TypeOK, StreamInv, FetchStates, Idle
<1>3. version = 1 /\ shown = 0 /\ \A f \in Fetches : fetch[f] = Idle
  BY DEF Init, StreamInit
<1>4. Linked /\ AlwaysFed /\ Begun
  BY <1>3 DEF Init, Linked, AlwaysFed, Begun, Idle
<1>5. Seen
  BY <1>3 DEF Seen, Idle
<1> QED BY <1>1, <1>2, <1>4, <1>5 DEF BoardInv

(***************************************************************************)
(* Every step of the board and its server is one of the server with some   *)
(* client, or leaves the server alone.                                     *)
(***************************************************************************)
LEMMA NextIsStreamStep == TypeOK /\ Linked /\ [Next]_vars => [StreamNext]_streamVars
<1> SUFFICES ASSUME TypeOK, Linked, [Next]_vars PROVE [StreamNext]_streamVars
  OBVIOUS
<1>1. CASE Server
  BY <1>1 DEF Server, StreamNext
<1>2. CASE Others
  BY <1>2 DEF Others, StreamNext
<1>3. ASSUME NEW s \in Own, Admitted(s) PROVE [StreamNext]_streamVars
  BY <1>3, OwnAssumption DEF Admitted, StreamNext, Client
<1>4. CASE Received
  <2>1. link \in Requests
    BY <1>4, OwnLink DEF Received, Linked
  <2> QED BY <1>4, <2>1 DEF Received, StreamNext, Client
<1>5. CASE Dropped
  <2>1. link \in Requests
    BY <1>5, OwnLink DEF Dropped
  <2> QED BY <1>5, <2>1 DEF Dropped, StreamNext, Client
<1>6. CASE Connect \/ Opened \/ Refused
  BY <1>6 DEF Connect, Opened, Refused
<1>7. ASSUME NEW f \in Fetches, Tick(f) \/ Mute(f) \/ Answered(f) \/ Arrived(f) \/ Failed(f)
      PROVE  [StreamNext]_streamVars
  BY <1>7 DEF Tick, Mute, Answered, Arrived, Failed, StreamNext
<1>8. CASE UNCHANGED vars
  BY <1>8 DEF vars, streamVars
<1> QED BY <1>1, <1>2, <1>3, <1>4, <1>5, <1>6, <1>7, <1>8 DEF Next, Board

\* The state the server is in is never undone.
LEMMA VersionGrows ==
  ASSUME StreamTypeOK, [StreamNext]_streamVars
  PROVE  version' \in {version, version + 1} /\ version' \in Nat /\ version <= version'
<1>1. version \in Nat
  BY DEF StreamTypeOK
<1>2. version' \in {version, version + 1}
  BY DEF StreamNext, streamVars, Poll, Changed, Drift, Restart, Serve, Client,
         Subscribe, Send, End, Admit, Leave, Take
<1> QED BY <1>1, <1>2

\* The head of the connection is a state the server was in.
LEMMA OnTheWire ==
  ASSUME StreamInv, NEW s \in Requests, wire[s] # <<>>
  PROVE  Head(wire[s]) \in Nat /\ Head(wire[s]) <= version
<1>1. wire[s] \in Seq(Nat) /\ sent[s] \in Nat /\ version \in Nat
  BY DEF StreamInv, StreamTypeOK
<1>2. Len(wire[s]) >= 1 /\ Head(wire[s]) = wire[s][1] /\ Head(wire[s]) \in Nat
  BY <1>1
<1>3. Between(wire[s], 0, sent[s]) /\ sent[s] <= version
  BY DEF StreamInv, Ordered, Fresh
<1> QED BY <1>1, <1>2, <1>3 DEF Between

(***************************************************************************)
(* What acceptSnapshot leaves on screen: never older than before, never    *)
(* newer than the server.                                                  *)
(***************************************************************************)
LEMMA AcceptedForward ==
  ASSUME NEW v \in Nat, v <= version, version \in Nat, shown \in Nat, shown <= version
  PROVE  Accepted(v) \in shown..version
BY DEF Accepted

\* The screen changes only while the server stands still, and then forward.
LEMMA ShownMoves ==
  ASSUME BoardInv, [Next]_vars
  PROVE  shown' = shown \/ (version' = version /\ shown' \in shown..version)
<1>1. StreamInv /\ TypeOK /\ Linked /\ shown \in Nat /\ version \in Nat /\ shown <= version
  BY DEF BoardInv, TypeOK, StreamTypeOK, Seen
<1>2. CASE Server \/ Others
  BY <1>2 DEF Server, Others, boardVars
<1>3. CASE Connect \/ (\E s \in Own : Admitted(s)) \/ Opened \/ Refused \/ Dropped
  BY <1>3 DEF Connect, Admitted, Opened, Refused, Dropped
<1>4. CASE Received
  <2>1. link \in Requests /\ wire[link] # <<>>
    BY <1>1, <1>4, OwnLink DEF Received, Linked
  <2>2. Head(wire[link]) \in Nat /\ Head(wire[link]) <= version
    BY <1>1, <2>1, OnTheWire
  <2>3. Accepted(Head(wire[link])) \in shown..version
    BY <1>1, <2>2, AcceptedForward
  <2> QED BY <1>4, <2>3 DEF Received, Take
<1>5. ASSUME NEW f \in Fetches, Tick(f) \/ Mute(f) \/ Answered(f) \/ Failed(f)
      PROVE  shown' = shown
  BY <1>5 DEF Tick, Mute, Answered, Failed
<1>6. ASSUME NEW f \in Fetches, Arrived(f)
      PROVE  version' = version /\ shown' \in shown..version
  <2>1. fetch[f].got \in Nat /\ fetch[f].got <= version
    BY DEF BoardInv, TypeOK, FetchStates, Seen
  <2>2. Accepted(fetch[f].got) \in shown..version
    BY <1>1, <2>1, AcceptedForward
  <2> QED BY <1>6, <2>2 DEF Arrived, streamVars
<1>7. CASE UNCHANGED vars
  BY <1>7 DEF vars
<1> QED BY <1>2, <1>3, <1>4, <1>5, <1>6, <1>7 DEF Next, Board

\* What a step does to one slot: nothing, an empty one, a new question, or
\* the answer of now.
LEMMA FetchMoves ==
  ASSUME BoardInv, [Next]_vars
  PROVE  /\ fetch' \in [Fetches -> FetchStates]
         /\ \A f \in Fetches : \/ fetch'[f] = fetch[f] \/ fetch'[f].got = 0
                              \/ (fetch'[f].got = version /\ fetch'[f].for = fetch[f].for)
<1>1. fetch \in [Fetches -> FetchStates] /\ version \in Nat
  BY DEF BoardInv, TypeOK, StreamTypeOK
<1> DEFINE Fine == /\ fetch' \in [Fetches -> FetchStates]
                   /\ \A f \in Fetches : \/ fetch'[f] = fetch[f] \/ fetch'[f].got = 0
                                        \/ (fetch'[f].got = version /\ fetch'[f].for = fetch[f].for)
<1>2. ASSUME NEW f \in Fetches, NEW new \in {Asked("poll"), Asked("refresh"), Idle},
             fetch' = [fetch EXCEPT ![f] = new]
      PROVE  Fine
  <2>1. new \in FetchStates /\ new.got = 0
    BY DEF Asked, Idle, FetchStates
  <2> QED BY <1>1, <1>2, <2>1
<1>3. CASE fetch' = fetch
  BY <1>1, <1>3
<1>4. ASSUME StartPolling PROVE Fine
  BY <1>2, <1>3, <1>4 DEF StartPolling
<1>5. CASE Server \/ Others
  BY <1>3, <1>5 DEF Server, Others, boardVars
<1>6. CASE Connect \/ (\E s \in Own : Admitted(s)) \/ Opened \/ Received
  BY <1>3, <1>6 DEF Connect, Admitted, Opened, Received
<1>7. CASE Refused \/ Dropped
  BY <1>4, <1>7 DEF Refused, Dropped
<1>8. ASSUME NEW f \in Fetches, Tick(f) \/ Mute(f) \/ Arrived(f) \/ Failed(f) PROVE Fine
  BY <1>2, <1>8 DEF Tick, Mute, Arrived, Failed
<1>9. ASSUME NEW f \in Fetches, Answered(f) PROVE Fine
  <2>1. fetch' = [fetch EXCEPT ![f].got = version]
    BY <1>9 DEF Answered
  <2>2. [fetch[f] EXCEPT !.got = version] \in FetchStates
    BY <1>1 DEF FetchStates
  <2>3. fetch'[f] = [fetch[f] EXCEPT !.got = version]
    BY <1>1, <2>1
  <2>4. fetch'[f].got = version /\ fetch'[f].for = fetch[f].for
    BY <1>1, <2>3 DEF FetchStates
  <2>5. \A g \in Fetches \ {f} : fetch'[g] = fetch[g]
    BY <1>1, <2>1
  <2>6. fetch' \in [Fetches -> FetchStates]
    BY <1>1, <2>1, <2>2
  <2> QED BY <2>4, <2>5, <2>6
<1>10. CASE UNCHANGED vars
  BY <1>3, <1>10 DEF vars
<1> QED BY <1>5, <1>6, <1>7, <1>8, <1>9, <1>10 DEF Next, Board

LEMMA NextSeen == ASSUME BoardInv, [Next]_vars PROVE Seen'
<1>1. StreamTypeOK /\ TypeOK /\ Linked /\ Seen /\ shown \in Nat /\ version \in Nat
  BY DEF BoardInv, TypeOK, StreamTypeOK
<1>2. version' \in Nat /\ version <= version'
  BY <1>1, NextIsStreamStep, VersionGrows
<1>3. shown' <= version'
  BY <1>1, <1>2, ShownMoves DEF Seen
<1>4. ASSUME NEW f \in Fetches PROVE fetch'[f].got <= version'
  <2>1. fetch[f].got \in Nat /\ fetch[f].got <= version
    BY <1>1 DEF TypeOK, FetchStates, Seen
  <2>2. fetch'[f] = fetch[f] \/ fetch'[f].got = 0 \/ fetch'[f].got = version
    BY FetchMoves
  <2> QED BY <1>1, <1>2, <2>1, <2>2
<1> QED BY <1>3, <1>4 DEF Seen

LEMMA NextTypeOK == ASSUME BoardInv, StreamInv', [Next]_vars PROVE TypeOK'
<1>1. TypeOK /\ StreamTypeOK' /\ shown \in Nat /\ version \in Nat
  BY DEF BoardInv, TypeOK, StreamInv, StreamTypeOK
<1>2. shown' \in Nat
  BY <1>1, ShownMoves
<1>3. fetch' \in [Fetches -> FetchStates]
  BY FetchMoves
<1> DEFINE Labels == /\ ready' \in {"closed", "connecting", "open"}
                     /\ link' \in Own \cup {NoLink}
                     /\ polling' \in BOOLEAN
                     /\ feed' \in {"connecting", "live", "polling", "offline"}
<1>4. Labels
  <2>1. StartPolling => polling' \in BOOLEAN
    BY <1>1 DEF StartPolling, TypeOK
  <2>2. CASE Server \/ Others \/ UNCHANGED vars
    BY <1>1, <2>2 DEF Server, Others, boardVars, vars, TypeOK
  <2>3. CASE Connect \/ (\E s \in Own : Admitted(s)) \/ Opened \/ Received
    BY <1>1, <2>3 DEF Connect, Admitted, Opened, Received, TypeOK
  <2>4. CASE Refused \/ Dropped
    BY <1>1, <2>1, <2>4 DEF Refused, Dropped, TypeOK
  <2>5. ASSUME NEW f \in Fetches, Tick(f) \/ Mute(f) \/ Answered(f) \/ Arrived(f) \/ Failed(f)
        PROVE  Labels
    BY <1>1, <2>5 DEF Tick, Mute, Answered, Arrived, Failed, TypeOK
  <2> QED BY <2>2, <2>3, <2>4, <2>5 DEF Next, Board
<1> QED BY <1>1, <1>2, <1>3, <1>4 DEF TypeOK

LEMMA NextLinked == ASSUME BoardInv, [Next]_vars PROVE Linked'
<1>1. Linked
  BY DEF BoardInv
<1>2. CASE Server \/ Others \/ UNCHANGED vars
  BY <1>1, <1>2 DEF Linked, Server, Others, boardVars, vars
<1>3. CASE Connect \/ (\E s \in Own : Admitted(s)) \/ Opened \/ Received \/ Refused \/ Dropped
  BY <1>1, <1>3 DEF Linked, Connect, Admitted, Opened, Received, Refused, Dropped
<1>4. ASSUME NEW f \in Fetches, Tick(f) \/ Mute(f) \/ Answered(f) \/ Arrived(f) \/ Failed(f)
      PROVE  Linked'
  BY <1>1, <1>4 DEF Linked, Tick, Mute, Answered, Arrived, Failed
<1> QED BY <1>2, <1>3, <1>4 DEF Next, Board

(***************************************************************************)
(* Only onopen ends polling, and then the stream is open; only onerror     *)
(* leaves an open stream, and then it starts polling.                      *)
(***************************************************************************)
LEMMA NextFed == ASSUME BoardInv, [Next]_vars PROVE AlwaysFed' /\ Begun'
<1>1. AlwaysFed /\ Begun /\ fetch \in [Fetches -> FetchStates] /\ polling \in BOOLEAN
  BY DEF BoardInv, TypeOK
<1>2. Idle.for # "poll" /\ Asked("refresh").for # "poll" /\ Asked("poll").for = "poll"
  BY DEF Idle, Asked
<1>3. ASSUME UNCHANGED <<ready, polling, feed, fetch>> PROVE AlwaysFed' /\ Begun'
  BY <1>1, <1>3 DEF AlwaysFed, Begun
<1>4. CASE Server \/ Others \/ UNCHANGED vars \/ (\E s \in Own : Admitted(s)) \/ Received
  BY <1>3, <1>4 DEF Server, Others, boardVars, vars, Admitted, Received
<1>5. CASE Connect
  BY <1>1, <1>5 DEF Connect, AlwaysFed, Begun
<1>6. CASE Opened
  BY <1>1, <1>6 DEF Opened, AlwaysFed, Begun
<1>7. CASE Refused \/ Dropped
  <2>1. StartPolling /\ feed' = "polling"
    BY <1>7 DEF Refused, Dropped
  <2>2. polling'
    BY <1>1, <2>1 DEF StartPolling
  <2> QED BY <2>1, <2>2 DEF AlwaysFed, Begun
<1>8. ASSUME NEW f \in Fetches, Tick(f) PROVE AlwaysFed' /\ Begun'
  <2>1. polling /\ UNCHANGED <<ready, polling, feed>>
    BY <1>8 DEF Tick
  <2> QED BY <1>1, <2>1 DEF AlwaysFed, Begun
<1>9. ASSUME NEW f \in Fetches, Mute(f) PROVE AlwaysFed' /\ Begun'
  <2>1. UNCHANGED <<ready, polling, feed>> /\ fetch' = [fetch EXCEPT ![f] = Asked("refresh")]
    BY <1>9 DEF Mute
  <2>2. \A g \in Fetches : fetch'[g].for = "poll" => fetch[g].for = "poll"
    BY <1>1, <1>2, <2>1
  <2> QED BY <1>1, <2>1, <2>2 DEF AlwaysFed, Begun
<1>10. ASSUME NEW f \in Fetches, Answered(f) PROVE AlwaysFed' /\ Begun'
  <2>1. UNCHANGED <<ready, polling, feed>> /\ fetch' = [fetch EXCEPT ![f].got = version]
    BY <1>10 DEF Answered
  <2>2. \A g \in Fetches : fetch'[g].for = fetch[g].for
    BY <1>1, <2>1 DEF FetchStates
  <2> QED BY <1>1, <2>1, <2>2 DEF AlwaysFed, Begun
<1>11. ASSUME NEW f \in Fetches, Arrived(f) \/ Failed(f) PROVE AlwaysFed' /\ Begun'
  <2>1. UNCHANGED <<ready, polling>> /\ fetch' = [fetch EXCEPT ![f] = Idle]
    BY <1>11 DEF Arrived, Failed
  <2>2. \A g \in Fetches : fetch'[g].for = "poll" => fetch[g].for = "poll"
    BY <1>1, <1>2, <2>1
  <2>3. feed' = feed \/ (fetch[f].for = "poll" /\ feed' \in {"polling", "offline"})
    BY <1>11 DEF Arrived, Failed
  <2> QED BY <1>1, <2>1, <2>2, <2>3 DEF AlwaysFed, Begun
<1> QED BY <1>4, <1>5, <1>6, <1>7, <1>8, <1>9, <1>10, <1>11 DEF Next, Board

LEMMA NextBoardInv == BoardInv /\ [Next]_vars => BoardInv'
<1> SUFFICES ASSUME BoardInv, [Next]_vars PROVE BoardInv'
  OBVIOUS
<1>1. StreamInv'
  BY NextIsStreamStep, NextStreamInv DEF BoardInv
<1> QED BY <1>1, NextTypeOK, NextLinked, NextSeen, NextFed DEF BoardInv

LEMMA Boarding == Spec => []BoardInv
BY InitBoardInv, NextBoardInv, PTL DEF Spec
-----------------------------------------------------------------------------
\* Every variable of board and server keeps its type.
THEOREM BoardTyping == Spec => []TypeOK
<1>1. BoardInv => TypeOK
  BY DEF BoardInv
<1> QED BY <1>1, Boarding, PTL

\* After its first error a board has a stream or polls.
THEOREM BoardIsFed == Spec => []AlwaysFed
<1>1. BoardInv => AlwaysFed
  BY DEF BoardInv
<1> QED BY <1>1, Boarding, PTL

\* The board implements a display: through streams, polls and fetches in any
\* order it never goes back and never shows what was not.
THEOREM BoardDisplays == Spec => BoardIsDisplay
<1>1. Init => OnScreen!Init
  BY DEF Init, StreamInit, OnScreen!Init
<1>2. BoardInv /\ [Next]_vars => [OnScreen!Next]_(OnScreen!vars)
  <2> SUFFICES ASSUME BoardInv, [Next]_vars PROVE [OnScreen!Next]_(OnScreen!vars)
    OBVIOUS
  <2>1. StreamTypeOK /\ TypeOK /\ Linked /\ shown \in Nat /\ version \in Nat /\ shown <= version
    BY DEF BoardInv, TypeOK, StreamTypeOK, Seen
  <2>2. version' \in {version, version + 1}
    BY <2>1, NextIsStreamStep, VersionGrows
  <2>3. CASE version' = version /\ shown' \in shown..version
    BY <2>3 DEF OnScreen!Next, OnScreen!Show
  <2>4. CASE shown' = shown
    BY <2>2, <2>4 DEF OnScreen!Next, OnScreen!Advance, OnScreen!vars
  <2> QED BY <2>3, <2>4, ShownMoves
<1> QED BY <1>1, <1>2, Boarding, PTL DEF Spec, BoardIsDisplay, OnScreen!Spec
=============================================================================
