---------------------------- MODULE AccessProofs ----------------------------
(***************************************************************************)
(* Proofs about Access, for any pages, tokens, lifetime and bounds: its    *)
(* types, and that a session opens exactly as long as it lives and under   *)
(* its own token.                                                          *)
(***************************************************************************)
EXTENDS Access, TLAPS

Requests ==
  [tab : Tabs, kind : {"session", "status"}, explicit : Tokens \cup {NoToken},
   cookie : 0..Len(issued), reply : Replies \cup {Pending}]
Issues == [token : Tokens, at : 0..now]
Pages == [phase : {"opening", "running"}, token : Tokens \cup {NoToken}, useCookie : BOOLEAN, owed : BOOLEAN]
Jars == [id : 0..Len(issued), until : Nat]

\* The table has what was issued, and lacks only what has expired.
Table ==
  /\ \A i \in DOMAIN sessions :
       /\ i \in DOMAIN issued
       /\ sessions[i].token_fp = issued[i].token
       /\ sessions[i].expires = issued[i].at + SESSION_TTL
  /\ \A i \in DOMAIN issued \ DOMAIN sessions : issued[i].at + SESSION_TTL < now

\* The types, with requests and pages in full.
Typed ==
  /\ now \in 0..MaxNow
  /\ moves \in 0..MaxMoves
  /\ up \in BOOLEAN
  /\ expected \in Tokens \cup {NoToken}
  /\ issued \in Seq(Issues)
  /\ \A i \in DOMAIN sessions : sessions[i] \in [token_fp : Tokens, expires : Int]
  /\ jar \in Jars
  /\ tabs \in [Tabs -> Pages]
  /\ \A t \in Tabs : tabs[t].useCookie => tabs[t].token = NoToken
  /\ wire \subseteq Requests

IInv == Typed /\ Table

LEMMA TypedInit == Init => IInv
<1> SUFFICES ASSUME Init PROVE IInv
  OBVIOUS
<1> USE TTLAssumption, BoundsAssumption DEF Init
<1>1. Typed
  <2>1. tabs \in [Tabs -> Pages] /\ \A t \in Tabs : tabs[t].useCookie => tabs[t].token = NoToken
    BY DEF Pages, Loaded
  <2>2. jar \in Jars
    BY DEF Jars, NoCookie
  <2>3. issued \in Seq(Issues) /\ \A i \in DOMAIN sessions : sessions[i] \in [token_fp : Tokens, expires : Int]
    OBVIOUS
  <2>4. now \in 0..MaxNow /\ moves \in 0..MaxMoves /\ expected \in Tokens \cup {NoToken}
    <3>1. now = 0 /\ moves = 0 /\ expected = NoToken
      OBVIOUS
    <3> HIDE DEF Init
    <3> QED
      BY <3>1
  <2>6. up \in BOOLEAN
    OBVIOUS
  <2>5. wire \subseteq Requests
    OBVIOUS
  <2> HIDE DEF Init
  <2> QED
    BY <2>1, <2>2, <2>3, <2>4, <2>5, <2>6 DEF Typed
<1>2. Table
  BY DEF Table
<1> QED
  BY <1>1, <1>2 DEF IInv

\* A request keeps its type when its answer is there.
LEMMA AnswerTyped ==
  ASSUME wire \subseteq Requests, NEW m \in wire, NEW reply \in Replies, Answered(m, reply)
  PROVE  wire' \subseteq Requests
BY DEF Answered, Requests

\* Nothing that was typed depends on how many sessions were issued, or when.
LEMMA IssuesGrow ==
  ASSUME now \in Nat, issued \in Seq(Issues), NEW token \in Tokens,
         issued' = Append(issued, [token |-> token, at |-> now]), UNCHANGED now
  PROVE  /\ issued' \in Seq(Issues')
         /\ DOMAIN issued' = DOMAIN issued \cup {Len(issued) + 1}
         /\ \A i \in DOMAIN issued : issued'[i] = issued[i]
         /\ issued'[Len(issued) + 1] = [token |-> token, at |-> now]
         /\ Len(issued') = Len(issued) + 1
         /\ Len(issued) \in Nat
         /\ Len(issued) + 1 \notin DOMAIN issued
<1>1. [token |-> token, at |-> now] \in Issues /\ Issues' = Issues
  BY DEF Issues
<1> QED
  BY <1>1

LEMMA NothingOwedTyped ==
  ASSUME tabs \in [Tabs -> Pages], \A t \in Tabs : tabs[t].useCookie => tabs[t].token = NoToken, NothingOwed
  PROVE  tabs' \in [Tabs -> Pages] /\ \A t \in Tabs : tabs'[t].useCookie => tabs'[t].token = NoToken
BY DEF NothingOwed, Pages

LEMMA CookieTyped ==
  ASSUME Typed
  PROVE  Cookie \in 0..Len(issued)
<1>1. Len(issued) \in Nat
  BY DEF Typed
<1> QED
  BY <1>1 DEF Typed, Jars, Cookie, NoCookie

LEMMA RequestTyped ==
  ASSUME Typed, NEW t \in Tabs, NEW kind \in {"session", "status"}, NEW token \in Tokens \cup {NoToken}
  PROVE  Request(t, kind, token) \in Requests
BY CookieTyped DEF Request, Requests

LEMMA IssuedAtTyped ==
  ASSUME Typed
  PROVE  \A i \in DOMAIN issued : issued[i].at \in Nat
<1>1. now \in Nat /\ issued \in Seq(Issues)
  BY BoundsAssumption DEF Typed
<1>2. \A i \in DOMAIN issued : issued[i] \in Issues
  BY <1>1
<1>3. \A x \in Issues : x.at \in Nat
  BY <1>1 DEF Issues
<1> QED
  BY <1>2, <1>3

-----------------------------------------------------------------------------
LEMMA ServeKeeps ==
  ASSUME IInv, NEW m \in wire, Serve(m)
  PROVE  IInv'
<1> USE TTLAssumption, BoundsAssumption
<1>0. Typed /\ Table /\ now \in Nat /\ Len(issued) \in Nat /\ m \in Requests
  BY DEF IInv, Typed
<1>1. UNCHANGED <<now, moves, up, expected, jar, tabs>>
  BY DEF Serve
<1>2. CASE m.kind = "session" /\ Granted(m) /\ expected # NoToken
  <2> DEFINE id == Len(issued) + 1
             reply == [ok |-> TRUE, cookie |-> id, clear |-> FALSE]
  <2>1. /\ sessions' = [i \in DOMAIN sessions \cup {id} |->
              IF i = id THEN [token_fp |-> expected, expires |-> now + SESSION_TTL] ELSE sessions[i]]
        /\ issued' = Append(issued, [token |-> expected, at |-> now])
        /\ Answered(m, reply)
    BY <1>2 DEF Serve
  <2>2. expected \in Tokens
    BY <1>0, <1>2 DEF Typed
  <2>3. /\ issued' \in Seq(Issues')
        /\ DOMAIN issued' = DOMAIN issued \cup {id}
        /\ \A i \in DOMAIN issued : issued'[i] = issued[i]
        /\ issued'[id] = [token |-> expected, at |-> now]
        /\ Len(issued') = id
        /\ id \notin DOMAIN issued
    BY <1>0, <1>1, <2>1, <2>2, IssuesGrow DEF Typed
  <2>4. wire' \subseteq Requests'
    <3>1. reply \in Replies'
      BY <1>0, <2>3 DEF Replies
    <3>2. \A x \in Requests : x \in Requests'
      BY <1>0, <2>3 DEF Requests, Replies
    <3>3. [m EXCEPT !.reply = reply] \in Requests'
      BY <3>1, <3>2, <1>0 DEF Requests
    <3> QED
      BY <3>2, <3>3, <1>0, <2>1 DEF Answered, Typed
  <2>5. \A i \in DOMAIN sessions' : sessions'[i] \in [token_fp : Tokens, expires : Int]
    BY <1>0, <2>1, <2>2 DEF Typed
  <2>6. jar' \in Jars'
    BY <1>0, <1>1, <2>3 DEF Typed, Jars
  <2>7. Typed'
    BY <1>0, <1>1, <2>3, <2>4, <2>5, <2>6 DEF Typed, Pages
  <2>8. Table'
    BY <1>0, <1>1, <2>1, <2>3 DEF Table
  <2> QED
    BY <2>7, <2>8 DEF IInv
<1>3. CASE ~(m.kind = "session" /\ Granted(m) /\ expected # NoToken)
  <2> DEFINE reply == [ok |-> Granted(m), cookie |-> NoCookie, clear |-> ~Granted(m) /\ m.cookie # NoCookie]
  <2>1. Answered(m, reply) /\ UNCHANGED <<sessions, issued>>
    BY <1>3 DEF Serve
  <2>2. Granted(m) \in BOOLEAN
    BY DEF Granted
  <2>3. reply \in Replies
    BY <2>2, <1>0 DEF Replies, NoCookie
  <2>4. wire' \subseteq Requests
    BY <1>0, <2>1, <2>3, AnswerTyped DEF Typed
  <2> QED
    BY <1>0, <1>1, <2>1, <2>4 DEF IInv, Typed, Table, Requests, Replies, Issues, Jars, Pages
<1> QED
  BY <1>2, <1>3

LEMMA ExpireKeeps ==
  ASSUME IInv, Expire
  PROVE  IInv'
<1>1. Typed' 
  BY DEF IInv, Typed, Expire, Requests, Replies, Issues, Jars, Pages
<1>2. Table'
  <2>1. Typed /\ Table /\ UNCHANGED <<now, issued>> /\ now \in Nat
    BY BoundsAssumption DEF IInv, Expire, Typed
  <2>2. DOMAIN sessions' = {j \in DOMAIN sessions : sessions[j].expires >= now}
        /\ \A i \in DOMAIN sessions' : sessions'[i] = sessions[i]
    BY DEF Expire
  <2>3. \A i \in DOMAIN issued \ DOMAIN sessions' : issued[i].at + SESSION_TTL < now
    <3> SUFFICES ASSUME NEW i \in DOMAIN issued \ DOMAIN sessions', i \in DOMAIN sessions
                 PROVE  issued[i].at + SESSION_TTL < now
      BY <2>1 DEF Table
    <3>1. ~(sessions[i].expires >= now) /\ sessions[i].expires \in Int /\ sessions[i].expires = issued[i].at + SESSION_TTL
      BY <2>1, <2>2 DEF Typed, Table
    <3> QED
      BY <3>1, <2>1
  <2> QED
    BY <2>1, <2>2, <2>3 DEF Table
<1> QED
  BY <1>1, <1>2 DEF IInv

LEMMA StopKeeps ==
  ASSUME IInv, Stop
  PROVE  IInv'
<1>1. tabs' \in [Tabs -> Pages] /\ \A t \in Tabs : tabs'[t].useCookie => tabs'[t].token = NoToken
  BY NothingOwedTyped DEF IInv, Typed, Stop
<1>2. moves' \in 0..MaxMoves
  BY BoundsAssumption DEF IInv, Typed, Stop, Moves
<1> QED
  BY <1>1, <1>2 DEF IInv, Typed, Table, Stop, Requests, Replies, Issues, Jars, Pages

LEMMA StartKeeps ==
  ASSUME IInv, NEW token \in Tokens \cup {NoToken}, Start(token)
  PROVE  IInv'
BY DEF IInv, Typed, Table, Start, Requests, Replies, Issues, Jars, Pages

LEMMA OpenKeeps ==
  ASSUME IInv, NEW t \in Tabs, NEW link \in Tokens \cup {NoToken}, Open(t, link)
  PROVE  IInv'
<1>1. moves' \in 0..MaxMoves
  BY BoundsAssumption DEF IInv, Typed, Open, Moves
<1>2. Loaded(link, up /\ link = expected) \in Pages /\ ~Loaded(link, up /\ link = expected).useCookie
  BY DEF Loaded, Pages
<1>3. tabs' \in [Tabs -> Pages] /\ \A x \in Tabs : tabs'[x].useCookie => tabs'[x].token = NoToken
  BY <1>2 DEF IInv, Typed, Open
<1>4. wire' \subseteq Requests
  <2>1. Request(t, "session", link) \in Requests
    BY RequestTyped DEF IInv
  <2> QED
    BY <2>1 DEF Open, IInv, Typed
<1> QED
  BY <1>1, <1>3, <1>4 DEF IInv, Typed, Table, Open, server, Requests, Replies, Issues, Jars, Pages

LEMMA GiveUpKeeps ==
  ASSUME IInv, NEW t \in Tabs, GiveUp(t)
  PROVE  IInv'
<1>1. tabs' \in [Tabs -> Pages] /\ \A x \in Tabs : tabs'[x].useCookie => tabs'[x].token = NoToken
  BY DEF IInv, Typed, GiveUp, Pages
<1> QED
  BY <1>1 DEF IInv, Typed, Table, GiveUp, server, Requests, Replies, Issues, Jars, Pages

LEMMA FetchKeeps ==
  ASSUME IInv, NEW t \in Tabs, Fetch(t)
  PROVE  IInv'
<1>1. tabs[t].token \in Tokens \cup {NoToken}
  BY DEF IInv, Typed, Pages
<1>2. Request(t, "status", tabs[t].token) \in Requests
  BY <1>1, RequestTyped DEF IInv
<1>3. wire' \subseteq Requests
  BY <1>2 DEF Fetch, IInv, Typed
<1> QED
  BY <1>3 DEF IInv, Typed, Table, Fetch, server, Requests, Replies, Issues, Jars, Pages

LEMMA ReceiveKeeps ==
  ASSUME IInv, NEW m \in wire, Receive(m)
  PROVE  IInv'
<1>1. m \in Requests /\ m.reply \in Replies
  BY DEF IInv, Typed, Receive, Requests
<1>2. jar' \in Jars
  <2>1. now + SESSION_TTL \in Nat /\ m.reply.cookie \in 0..Len(issued) /\ Len(issued) \in Nat
    BY <1>1, TTLAssumption, BoundsAssumption DEF IInv, Typed, Replies
  <2>2. \/ jar' = [id |-> m.reply.cookie, until |-> now + SESSION_TTL]
        \/ jar' = [id |-> NoCookie, until |-> 0]
        \/ jar' = jar
    BY DEF Receive
  <2> QED
    BY <2>1, <2>2 DEF IInv, Typed, Jars, NoCookie
<1>3. tabs' \in [Tabs -> Pages] /\ \A x \in Tabs : tabs'[x].useCookie => tabs'[x].token = NoToken
  <2> DEFINE Tab(t) == CASE t # m.tab -> tabs[t]
                         [] t = m.tab /\ m.kind = "session" -> Exchanged(tabs[t], m.reply)
                         [] OTHER -> Told(tabs[t], m.reply)
  <2>1. tabs' = [t \in Tabs |-> [Tab(t) EXCEPT !.owed = @ /\ ~ThrownAway(m.reply)]]
    BY DEF Receive
  <2>2. ASSUME NEW t \in Tabs
        PROVE  Tab(t) \in Pages /\ (Tab(t).useCookie => Tab(t).token = NoToken)
    <3>1. tabs[t] \in Pages /\ (tabs[t].useCookie => tabs[t].token = NoToken)
      BY DEF IInv, Typed
    <3>2. Tab(t) \in {tabs[t], Exchanged(tabs[t], m.reply), Told(tabs[t], m.reply)}
      OBVIOUS
    <3>3. Exchanged(tabs[t], m.reply) \in Pages
          /\ (Exchanged(tabs[t], m.reply).useCookie => Exchanged(tabs[t], m.reply).token = NoToken)
      BY <3>1 DEF Exchanged, Forgotten, Pages
    <3>4. Told(tabs[t], m.reply) \in Pages
          /\ (Told(tabs[t], m.reply).useCookie => Told(tabs[t], m.reply).token = NoToken)
      BY <3>1 DEF Told, Pages
    <3> QED
      BY <3>1, <3>2, <3>3, <3>4
  <2> HIDE DEF Tab
  <2> QED
    BY <2>1, <2>2 DEF Pages
<1>4. wire' \subseteq Requests
  BY DEF IInv, Typed, Receive
<1> QED
  BY <1>2, <1>3, <1>4 DEF IInv, Typed, Table, Receive, server, Requests, Replies, Issues, Jars, Pages

LEMMA FailKeeps ==
  ASSUME IInv, NEW m \in wire, Fail(m)
  PROVE  IInv'
<1>1. moves' \in 0..MaxMoves
  BY BoundsAssumption DEF IInv, Typed, Fail, Moves
<1>2. tabs' \in [Tabs -> Pages] /\ \A x \in Tabs : tabs'[x].useCookie => tabs'[x].token = NoToken
  BY DEF IInv, Typed, Fail, Pages
<1>3. wire' \subseteq Requests
  BY DEF IInv, Typed, Fail
<1> QED
  BY <1>1, <1>2, <1>3 DEF IInv, Typed, Table, Fail, server, Requests, Replies, Issues, Jars, Pages

\* What has expired stays expired.
LEMMA TickKeeps ==
  ASSUME IInv, Tick
  PROVE  IInv'
<1>0. now \in Nat /\ now' = now + 1 /\ now' \in 0..MaxNow
  BY BoundsAssumption DEF IInv, Typed, Tick
<1>1. tabs' \in [Tabs -> Pages] /\ \A t \in Tabs : tabs'[t].useCookie => tabs'[t].token = NoToken
  BY NothingOwedTyped DEF IInv, Typed, Tick
<1>2. issued' \in Seq(Issues')
  <2>1. \A x \in Issues : x \in Issues'
    BY <1>0 DEF Issues
  <2> QED
    BY <2>1 DEF IInv, Typed, Tick, server
<1>3. \A i \in DOMAIN issued : issued[i].at \in Nat
  BY IssuedAtTyped DEF IInv
<1>4. Table'
  BY <1>0, <1>3, TTLAssumption DEF IInv, Table, Tick, server
<1> QED
  BY <1>0, <1>1, <1>2, <1>4 DEF IInv, Typed, Tick, server, Requests, Replies, Jars, Pages

LEMMA NextKeeps ==
  ASSUME IInv, [Next]_vars
  PROVE  IInv'
<1>1. CASE UNCHANGED vars
  BY <1>1 DEF vars, IInv, Typed, Table, Requests, Replies, Issues, Jars, Pages
<1>2. CASE Next
  BY <1>2, ServeKeeps, ReceiveKeeps, FailKeeps, ExpireKeeps, StopKeeps, StartKeeps,
     FetchKeeps, GiveUpKeeps, OpenKeeps, TickKeeps DEF Next
<1> QED
  BY <1>1, <1>2

-----------------------------------------------------------------------------
\* Every variable keeps its type, and a page that trusts its cookie has
\* forgotten its token.
THEOREM AccessTyping == Spec => []TypeOK
<1>1. IInv => TypeOK
  BY DEF IInv, Typed, Table, TypeOK, Requests, Issues, Jars, Pages
<1> QED
  BY <1>1, TypedInit, NextKeeps, PTL DEF Spec

\* A session is valid exactly as long as it lives and under the token it was
\* issued under (Store.session_valid), whatever restarts, rotations and
\* maintenance come in between.
THEOREM SessionsAreTheirTokens == Spec => []SessionIsItsToken
<1>1. ASSUME IInv PROVE SessionIsItsToken
  <2> SUFFICES ASSUME NEW id \in DOMAIN issued
               PROVE  SessionValid(id) <=> issued[id].token = expected /\ now < issued[id].at + SESSION_TTL
    BY DEF SessionIsItsToken
  <2>1. now \in Nat /\ issued[id].at \in Nat
    BY <1>1, BoundsAssumption, IssuedAtTyped DEF IInv, Typed
  <2>2. CASE id \in DOMAIN sessions
    BY <1>1, <2>1, <2>2, TTLAssumption DEF IInv, Table, SessionValid
  <2>3. CASE id \notin DOMAIN sessions
    <3>1. issued[id].at + SESSION_TTL < now
      BY <1>1, <2>3 DEF IInv, Table
    <3> QED
      BY <2>1, <2>3, <3>1, TTLAssumption DEF SessionValid
  <2> QED
    BY <2>2, <2>3
<1> QED
  BY <1>1, TypedInit, NextKeeps, PTL DEF Spec
=============================================================================
