------------------------------- MODULE LiveView -------------------------------
(***************************************************************************)
(* One open board, web/app.js, with the server of Streams: an EventSource  *)
(* that the browser reconnects when the transport drops and the page       *)
(* reconnects when it was closed for good, polling of /api/status while    *)
(* there is no stream, and the fetch that follows a mute.  Snapshots of    *)
(* all three meet in acceptSnapshot, in any order.                         *)
(*                                                                         *)
(* The browser's EventSource is external and modelled from its use: it     *)
(* opens when the response begins, delivers frames in order, and reports   *)
(* an error either while it will retry or when it is closed.               *)
(***************************************************************************)
EXTENDS Streams

CONSTANTS
  Own,      \* requests this board makes; the others belong to other clients
  Fetches   \* bound: fetches of /api/status this board has in flight

ASSUME OwnAssumption == Own \subseteq Requests

VARIABLES
  ready,    \* closed (source is null), connecting, open
  link,     \* the stream's request, if the server admitted it
  polling,  \* pollTimer is set
  feed,     \* the label of the connection
  fetch,    \* slot -> what a fetch is for and what it brings
  shown     \* version on screen, 0 before the first: lastGenerated

boardVars == <<ready, link, polling, feed, fetch, shown>>
vars == <<version, announced, stage, queue, sent, wire, ready, link, polling, feed, fetch, shown>>

NoLink == "no link"
Idle   == [for |-> "nothing", got |-> 0]

\* A fetch that was not answered yet brings nothing, 0.
Asked(why)  == [for |-> why, got |-> 0]
FetchStates == [for : {"nothing", "poll", "refresh"}, got : Nat]

Accepted_Any(v) ==  \* faulty: no ordering guard
  v

\* acceptSnapshot: a frame older than what is on screen is dropped.
Accepted(v) == IF v < shown THEN shown ELSE v

Free(f) == fetch[f] = Idle

\* startPolling: the first tick is at once; polling twice is polling once.
StartPolling ==
  IF polling THEN UNCHANGED <<polling, fetch>>
  ELSE /\ polling' = TRUE
       /\ \E f \in Fetches : Free(f) /\ fetch' = [fetch EXCEPT ![f] = Asked("poll")]
-----------------------------------------------------------------------------
(* The stream.                                                             *)

\* connect(): at boot, when the reconnect timer fires, when the tab becomes
\* visible without a stream.
Connect ==
  /\ ready = "closed"
  /\ ready' = "connecting"
  /\ UNCHANGED <<streamVars, link, polling, feed, fetch, shown>>

Admitted(s) ==
  /\ ready = "connecting" /\ link = NoLink
  /\ Admit(s)
  /\ link' = s
  /\ UNCHANGED <<ready, polling, feed, fetch, shown>>

\* onopen.
Opened ==
  /\ ready = "connecting" /\ link # NoLink
  /\ stage[link] \in {"admitted", "open"}
  /\ ready' = "open"
  /\ feed' = "live"
  /\ polling' = FALSE
  /\ UNCHANGED <<streamVars, link, fetch, shown>>

\* onmessage.
Received ==
  /\ ready = "open"
  /\ wire[link] # <<>>
  /\ shown' = Accepted(Head(wire[link]))
  /\ Take(link)
  /\ UNCHANGED <<ready, link, polling, feed, fetch>>

Refused_GivesUp ==  \* faulty: a stream that is closed for good is not replaced
  /\ ready = "connecting" /\ link = NoLink
  /\ ready' = "dead"
  /\ feed' = "polling"
  /\ StartPolling
  /\ UNCHANGED <<streamVars, link, shown>>

Refused_Ignored ==  \* faulty: nor is there any polling
  /\ ready = "connecting" /\ link = NoLink
  /\ ready' = "dead"
  /\ UNCHANGED <<streamVars, link, polling, feed, fetch, shown>>

Refused_NoPolling ==  \* faulty: the page only tries the stream again
  /\ ready = "connecting" /\ link = NoLink
  /\ ready' = "closed"
  /\ feed' = "polling"
  /\ UNCHANGED <<streamVars, link, polling, fetch, shown>>

\* onerror of a source that is closed: the server was full, or answered
\* with an error while it restarted.  The page will connect again.
Refused ==
  /\ ready = "connecting" /\ link = NoLink
  /\ ready' = "closed"
  /\ feed' = "polling"
  /\ StartPolling
  /\ UNCHANGED <<streamVars, link, shown>>

\* onerror of a source the browser reconnects: the transport dropped, or the
\* server cut the stream.
Dropped ==
  /\ ready \in {"connecting", "open"} /\ link # NoLink
  /\ \/ Leave(link)
     \/ stage[link] = "idle" /\ UNCHANGED streamVars
  /\ ready' = "connecting"
  /\ link' = NoLink
  /\ feed' = "polling"
  /\ StartPolling
  /\ UNCHANGED shown
-----------------------------------------------------------------------------
(* Fetches of /api/status.                                                 *)

Tick(f) ==
  /\ polling /\ Free(f)
  /\ fetch' = [fetch EXCEPT ![f] = Asked("poll")]
  /\ UNCHANGED <<streamVars, ready, link, polling, feed, shown>>

\* A mute by the user, answered, and refreshNow.
Mute(f) ==
  /\ Free(f)
  /\ Drift
  /\ fetch' = [fetch EXCEPT ![f] = Asked("refresh")]
  /\ UNCHANGED <<ready, link, polling, feed, shown>>

Answered(f) ==
  /\ ~Free(f) /\ fetch[f].got = 0
  /\ fetch' = [fetch EXCEPT ![f].got = version]
  /\ UNCHANGED <<streamVars, ready, link, polling, feed, shown>>

Arrived(f) ==
  /\ fetch[f].got # 0
  /\ shown' = Accepted(fetch[f].got)
  /\ feed' = IF fetch[f].for = "poll" /\ feed # "live" THEN "polling" ELSE feed
  /\ fetch' = [fetch EXCEPT ![f] = Idle]
  /\ UNCHANGED <<streamVars, ready, link, polling>>

Failed(f) ==
  /\ ~Free(f)
  /\ feed' = IF fetch[f].for = "poll" THEN "offline" ELSE feed
  /\ fetch' = [fetch EXCEPT ![f] = Idle]
  /\ UNCHANGED <<streamVars, ready, link, polling, shown>>
-----------------------------------------------------------------------------
Init ==
  /\ StreamInit
  /\ ready = "closed"
  /\ link = NoLink
  /\ polling = FALSE
  /\ feed = "connecting"
  /\ fetch = [f \in Fetches |-> Idle]
  /\ shown = 0

Server == (Poll \/ Restart \/ Drift \/ \E s \in Requests : Serve(s)) /\ UNCHANGED boardVars
Others == (\E s \in Requests \ Own : Client(s)) /\ UNCHANGED boardVars

Board ==
  \/ Connect \/ (\E s \in Own : Admitted(s)) \/ Opened \/ Received \/ Refused \/ Dropped
  \/ \E f \in Fetches : Tick(f) \/ Mute(f) \/ Answered(f) \/ Arrived(f) \/ Failed(f)

Next == Server \/ Others \/ Board
Spec == Init /\ [][Next]_vars

(***************************************************************************)
(* Fairness.  The server's loops and generators go on; timers fire, events *)
(* are handled, a request ends.  A stream asked for while there is room is *)
(* admitted and opened at last, and a fetch repeated again and again is    *)
(* answered: nothing is assumed of how often either fails before.          *)
(***************************************************************************)
Fairness ==
  /\ WF_vars(Poll /\ UNCHANGED boardVars)
  /\ \A s \in Requests : WF_vars(Serve(s) /\ UNCHANGED boardVars)
  /\ WF_vars(Connect) /\ WF_vars(Dropped /\ stage[link] = "idle")
  /\ WF_vars(Refused \/ \E s \in Own : Admitted(s))
  /\ SF_vars(\E s \in Own : Admitted(s)) /\ SF_vars(Opened) /\ WF_vars(Received)
  /\ WF_vars(\E f \in Fetches : Tick(f))
  /\ \A f \in Fetches : SF_vars(Answered(f)) /\ SF_vars(Arrived(f))

FairSpec == Spec /\ Fairness
-----------------------------------------------------------------------------
OnScreen == INSTANCE Display

TypeOK ==
  /\ StreamTypeOK
  /\ ready \in {"closed", "connecting", "open"}
  /\ link \in Own \cup {NoLink}
  /\ polling \in BOOLEAN
  /\ feed \in {"connecting", "live", "polling", "offline"}
  /\ fetch \in [Fetches -> FetchStates]
  /\ shown \in Nat

\* The board is a display: whatever the stream, the polls and the fetches
\* bring in whatever order, it never goes back, and it never shows a state
\* the server was not in.
BoardIsDisplay == OnScreen!Spec

\* From the first error on, a board without a stream is polling: through any
\* sequence of refusals, cuts and reconnects it is never a mere picture.
AlwaysFed == feed = "connecting" \/ polling \/ ready = "open"

\* When nothing changes any more the board shows the last of it, mutes that
\* no broadcast announced included, through refusals, cuts, restarts and
\* failed fetches.
CatchesUp == \A v \in 1..LastVersion : <>[](version = v) => <>[](shown = v)

\* Live updates come back after any error once the other clients are gone,
\* though the server may not have noticed yet that they are, nor that the
\* board's own stream is, and counts them under the cap until it does: `the
\* board never recovered live updates after a hard SSE close' stays fixed.
LiveReturns ==
  <>[](\A s \in Requests \ Own : stage[s] \in {"idle", "left"}) => []<>(ready = "open")
=============================================================================
