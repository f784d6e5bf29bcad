------------------------------- MODULE Access -------------------------------
(***************************************************************************)
(* Who is let in: the token of the configuration, the sessions in the      *)
(* database, and the pages of one browser, which trade the token of their  *)
(* link for a session and share its cookie.  Requests and answers of       *)
(* different pages overtake each other; the operator changes the token and *)
(* restarts the service; months pass.                                      *)
(*                                                                         *)
(* A token stands for its fingerprint, which is deterministic; the n-th    *)
(* session that was ever issued has the id n.                              *)
(***************************************************************************)
EXTENDS Integers, Sequences, FiniteSets

CONSTANTS
  Tabs,         \* the pages of the browser
  Tokens,       \* what may be configured, or stand in a link
  SESSION_TTL,  \* in ticks
  MaxNow,       \* bound on the ticks that pass
  MaxMoves      \* bound on stops, opened links and lost requests

ASSUME TTLAssumption == SESSION_TTL \in Nat \ {0}
ASSUME BoundsAssumption == MaxNow \in Nat /\ MaxMoves \in Nat

NoToken == "no token"     \* server.api_token is empty, or a page holds none
NoCookie == 0
Pending == [answered |-> FALSE]

ASSUME TokensAssumption == NoToken \notin Tokens

VARIABLES
  now,
  moves,
  up,        \* the service answers
  expected,  \* the token it was started with
  sessions,  \* the table: id -> token it was issued under, and when it expires
  jar,       \* the browser's cookie, and when the browser drops it
  tabs,      \* page -> what its script holds
  wire,      \* requests under way, answered or not
  issued     \* ghost: for every session, the token it was issued under and when

server == <<up, expected, sessions, issued>>
vars == <<now, moves, up, expected, sessions, jar, tabs, wire, issued>>

\* A page as it was loaded, with the token of its link; a snapshot is owed to
\* it (ghost) while it was opened with the right token and has had none.
Loaded(link, owed) ==
  [phase |-> IF link = NoToken THEN "running" ELSE "opening",
   token |-> link, useCookie |-> FALSE, owed |-> owed]

Init ==
  /\ now = 0
  /\ moves = 0
  /\ up = FALSE
  /\ expected = NoToken
  /\ sessions = <<>>
  /\ jar = [id |-> NoCookie, until |-> 0]
  /\ tabs = [t \in Tabs |-> Loaded(NoToken, FALSE)]
  /\ wire = {}
  /\ issued = <<>>

Moves == moves < MaxMoves /\ moves' = moves + 1

-----------------------------------------------------------------------------
\* The server.

SessionValid_AnyToken(id) ==  \* faulty: rotation logs nobody out
  id \in DOMAIN sessions /\ sessions[id].expires > now
SessionValid(id) ==
  id \in DOMAIN sessions /\ sessions[id].expires > now /\ sessions[id].token_fp = expected

\* require_token.  What the caller chose to send outranks the cookie.
Granted_CookieFirst(m) ==  \* faulty: the memory wins
  \/ expected = NoToken
  \/ m.cookie # NoCookie /\ SessionValid(m.cookie)
  \/ m.cookie = NoCookie /\ m.explicit = expected
Granted(m) ==
  \/ expected = NoToken
  \/ m.explicit # NoToken /\ m.explicit = expected
  \/ m.explicit = NoToken /\ m.cookie # NoCookie /\ SessionValid(m.cookie)

Answered(m, reply) == wire' = (wire \ {m}) \cup {[m EXCEPT !.reply = reply]}

\* A session that is asked for is opened, if a token is configured at all.
Serve(m) ==
  /\ up
  /\ m.reply = Pending
  /\ IF m.kind = "session" /\ Granted(m) /\ expected # NoToken
     THEN LET id == Len(issued) + 1
          IN  /\ sessions' = [i \in DOMAIN sessions \cup {id} |->
                                IF i = id THEN [token_fp |-> expected, expires |-> now + SESSION_TTL]
                                ELSE sessions[i]]
              /\ issued' = Append(issued, [token |-> expected, at |-> now])
              /\ Answered(m, [ok |-> TRUE, cookie |-> id, clear |-> FALSE])
     ELSE /\ Answered(m, [ok |-> Granted(m), cookie |-> NoCookie, clear |-> ~Granted(m) /\ m.cookie # NoCookie])
          /\ UNCHANGED <<sessions, issued>>
  /\ UNCHANGED <<now, moves, up, expected, jar, tabs>>

\* expire_sessions, as _maintenance calls it.
Expire ==
  /\ up
  /\ sessions' = [i \in {j \in DOMAIN sessions : sessions[j].expires >= now} |-> sessions[i]]
  /\ UNCHANGED <<now, moves, up, expected, jar, tabs, wire, issued>>

\* What is owed to a page does not outlive a stop or a tick.
NothingOwed == tabs' = [t \in Tabs |-> [tabs[t] EXCEPT !.owed = FALSE]]

Stop ==
  /\ up
  /\ Moves
  /\ up' = FALSE
  /\ NothingOwed
  /\ UNCHANGED <<now, expected, sessions, jar, wire, issued>>

\* lifespan: with what the configuration says by now, unless that refers to a
\* variable that is not set, which validate refuses.
Start(token) ==
  /\ ~up
  /\ up' = TRUE
  /\ expected' = token
  /\ UNCHANGED <<now, moves, sessions, jar, tabs, wire, issued>>

-----------------------------------------------------------------------------
\* The browser.

Cookie == IF jar.until > now THEN jar.id ELSE NoCookie

Request(t, kind, token) ==
  [tab |-> t, kind |-> kind, explicit |-> token, cookie |-> Cookie, reply |-> Pending]
Of(t) == {m \in wire : m.tab = t}

\* A page is opened, or opened again, with a token in its link or without one.
Open(t, link) ==
  /\ Moves
  /\ tabs' = [tabs EXCEPT ![t] = Loaded(link, up /\ link = expected)]
  /\ wire' = (wire \ Of(t)) \cup (IF link = NoToken THEN {} ELSE {Request(t, "session", link)})
  /\ UNCHANGED <<now, server, jar>>

\* The page does not wait for its session any longer.
GiveUp(t) ==
  /\ tabs[t].phase = "opening"
  /\ tabs' = [tabs EXCEPT ![t].phase = "running"]
  /\ UNCHANGED <<now, moves, server, jar, wire>>

\* A snapshot is asked for: with the header, or the query string of a stream,
\* as long as the page still holds its token.
Fetch(t) ==
  /\ tabs[t].phase = "running"
  /\ \A m \in Of(t) : m.kind # "status"
  /\ wire' = wire \cup {Request(t, "status", tabs[t].token)}
  /\ UNCHANGED <<now, moves, server, jar, tabs>>

Forgotten_NotYet(tab) == tab  \* faulty: the token stays with the page
Forgotten(tab) == [tab EXCEPT !.token = NoToken]

\* openSession after the answer; too late, it is for the cookie jar only.
Exchanged(tab, reply) ==
  IF tab.phase # "opening" THEN tab
  ELSE [Forgotten(tab) EXCEPT !.phase = "running", !.useCookie = reply.cookie # NoCookie]

Told(tab, reply) == [tab EXCEPT !.owed = @ /\ ~reply.ok]

\* An answer takes a cookie from the browser that would still let in.
ThrownAway(reply) ==
  /\ Cookie # NoCookie /\ SessionValid(Cookie)
  /\ reply.clear \/ (reply.cookie # NoCookie /\ ~SessionValid(reply.cookie))

Receive(m) ==
  /\ m.reply # Pending
  /\ wire' = wire \ {m}
  /\ jar' = CASE m.reply.cookie # NoCookie -> [id |-> m.reply.cookie, until |-> now + SESSION_TTL]
              [] m.reply.clear -> [id |-> NoCookie, until |-> 0]
              [] OTHER -> jar
  /\ tabs' = [t \in Tabs |->
       LET tab == CASE t # m.tab -> tabs[t]
                    [] t = m.tab /\ m.kind = "session" -> Exchanged(tabs[t], m.reply)
                    [] OTHER -> Told(tabs[t], m.reply)
       IN  [tab EXCEPT !.owed = @ /\ ~ThrownAway(m.reply)]]
  /\ UNCHANGED <<now, moves, server>>

\* A request, or its answer, is lost; the page goes on with what it has.
Fail(m) ==
  /\ IF up THEN Moves ELSE UNCHANGED moves
  /\ wire' = wire \ {m}
  /\ tabs' = [tabs EXCEPT ![m.tab].phase = IF m.kind = "session" THEN "running" ELSE @]
  /\ UNCHANGED <<now, server, jar>>

\* No request takes as long as a tick.
Tick ==
  /\ now < MaxNow
  /\ wire = {}
  /\ now' = now + 1
  /\ NothingOwed
  /\ UNCHANGED <<moves, server, jar, wire>>

Next ==
  \/ \E m \in wire : Serve(m) \/ Receive(m) \/ Fail(m)
  \/ Expire
  \/ Stop
  \/ \E token \in Tokens \cup {NoToken} : Start(token)
  \/ \E t \in Tabs : Fetch(t) \/ GiveUp(t) \/ \E link \in Tokens \cup {NoToken} : Open(t, link)
  \/ Tick

\* A page goes on asking, and a service that is up answers; systemd starts it.
Fairness ==
  /\ WF_vars(\E token \in Tokens \cup {NoToken} : Start(token))
  /\ \A t \in Tabs :
       /\ WF_vars(Fetch(t))
       /\ WF_vars(\E m \in Of(t) : Serve(m))
       /\ WF_vars(\E m \in Of(t) : Receive(m))

Spec == Init /\ [][Next]_vars
FairSpec == Spec /\ Fairness

-----------------------------------------------------------------------------
Replies == [ok : BOOLEAN, cookie : 0..Len(issued), clear : BOOLEAN]

TypeOK ==
  /\ now \in 0..MaxNow
  /\ moves \in 0..MaxMoves
  /\ expected \in Tokens \cup {NoToken}
  /\ up \in BOOLEAN
  /\ issued \in Seq([token : Tokens, at : 0..now])
  /\ DOMAIN sessions \subseteq DOMAIN issued
  /\ \A i \in DOMAIN sessions : sessions[i] \in [token_fp : Tokens, expires : Int]
  /\ jar \in [id : 0..Len(issued), until : Nat]
  /\ tabs \in [Tabs -> [phase : {"opening", "running"}, token : Tokens \cup {NoToken},
                        useCookie : BOOLEAN, owed : BOOLEAN]]
  /\ \A t \in Tabs : tabs[t].useCookie => tabs[t].token = NoToken
  /\ \A m \in wire :
       /\ m.tab \in Tabs
       /\ m.kind \in {"session", "status"}
       /\ m.explicit \in Tokens \cup {NoToken}
       /\ m.cookie \in 0..Len(issued)
       /\ m.reply = Pending \/ m.reply \in Replies

\* A session opens the panel for as long as it lives, and only under the token
\* it was issued under: no restart, maintenance or rotation back and forth ends
\* it early, and none that changed the token leaves it open.
SessionIsItsToken ==
  \A id \in DOMAIN issued :
    SessionValid(id) <=> issued[id].token = expected /\ now < issued[id].at + SESSION_TTL

\* A page that is opened with the right token is fed, whatever cookie the
\* browser kept and whatever is lost, unless the answer to an older request, or
\* the refusal of another page's token, takes a good cookie from the browser.
RightTokenGetsIn == \A t \in Tabs : tabs[t].owed ~> ~tabs[t].owed
=============================================================================
