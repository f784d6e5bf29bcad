---------------------------- MODULE AlertContract ----------------------------
(***************************************************************************)
(* What the alert lifecycle promises, with no memory, database, grace,     *)
(* backoff or process in sight: a durable book that says of each id what   *)
(* it is observed at and what it is notified at, an outbox of one request, *)
(* and the last word the receiver was given.                               *)
(*                                                                         *)
(*  - A notification is a debt written in the book; it disappears from it  *)
(*    only by being told or by one of the named reasons to keep silent.    *)
(*  - A request states what is observed when it leaves, and only what is   *)
(*    owed.  The receiver's word changes only by a request.                *)
(*  - Stopping, being killed and starting again change nothing here.       *)
(***************************************************************************)
EXTENDS Severity

CONSTANTS
  Ids,
  Ephemeral,  \* ids that stand for events, forgotten without a recovery
  Mutable,    \* ids whose recovery a mute may settle without a word
  Lasting     \* ids that are never muted and never vanish

VARIABLES
  policy,  \* [ids, configured, floor]: what is watched, and what is told
  book,    \* id -> [severity, notified]
  outbox,  \* id -> the severity the request in flight states, or None
  word     \* id -> the last severity the receiver was told, or None

vars == <<policy, book, outbox, word>>

Blank == [severity |-> "absent", notified |-> None]
Empty == [i \in Ids |-> None]

Clears(s)     == rank(s) >= rank(policy.floor)
InBook(i)     == book[i] # Blank
InDebt(i)     == InBook(i) /\ book[i].severity \notin {book[i].notified, UNKNOWN}
ToldFailed(i) == book[i].notified \in BAD /\ Clears(book[i].notified)
Accepted(i)   == outbox[i] # None /\ word'[i] = outbox[i] /\ outbox' = Empty
-----------------------------------------------------------------------------
(* What may happen to the line of one id.                                  *)

\* First sight: a failure is owed, anything else is no news.
Appears(i) ==
  /\ ~InBook(i)
  /\ \E s \in Severities :
       book'[i] = [severity |-> s, notified |-> IF s \in BAD THEN None ELSE s]

Observes(i) ==
  /\ InBook(i)
  /\ \E s \in Severities : book'[i] = [book[i] EXCEPT !.severity = s]

\* The request was accepted, and stays accepted whatever was observed since.
IsTold(i) ==
  /\ InBook(i)
  /\ Accepted(i)
  /\ book'[i] = [book[i] EXCEPT !.notified = outbox[i]]

\* Reasons to settle a debt in silence: nobody to tell; a muted recovery; a
\* severity below the floor, of which the receiver holds no failure.
MaySettleSilently(i) ==
  \/ ~policy.configured
  \/ i \in Mutable /\ book[i].severity = OK
  \/ /\ ~Clears(book[i].severity)
     /\ IF i \in Lasting THEN word[i] \notin BAD ELSE ~ToldFailed(i)

SettlesSilently(i) ==
  /\ InDebt(i)
  /\ MaySettleSilently(i)
  /\ book'[i] = [book[i] EXCEPT !.notified = book[i].severity]

\* A check that vanished is dropped when it owes no recovery: none was ever
\* notified, this step tells it, or there is a reason to keep it silent.
Forgotten(i) ==
  /\ InBook(i)
  /\ i \notin Lasting
  /\ \/ i \in Ephemeral
     \/ book[i].notified \notin BAD
     \/ Accepted(i) /\ outbox[i] = OK
     \/ i \in Mutable \/ ~policy.configured \/ ~ToldFailed(i)
  /\ book'[i] = Blank

LineMoves(i) ==
  \/ book'[i] = book[i]
  \/ Appears(i) \/ Observes(i) \/ IsTold(i) \/ SettlesSilently(i) \/ Forgotten(i)

WordMoves(i) == word'[i] = word[i] \/ Accepted(i)
-----------------------------------------------------------------------------
\* A request leaves: it states current observations, each a debt, each worth
\* telling by the policy.
Posts ==
  /\ outbox = Empty
  /\ outbox' # Empty
  /\ policy.configured
  /\ \A i \in Ids : outbox'[i] # None =>
       /\ InDebt(i)
       /\ outbox'[i] = book[i].severity
       /\ Clears(book[i].severity) \/ book[i].notified \in BAD

OutboxMoves == outbox' = outbox \/ outbox' = Empty \/ Posts

Watch ==
  /\ policy' = policy
  /\ OutboxMoves
  /\ \A i \in Ids : LineMoves(i) /\ WordMoves(i)

\* The configuration was edited: ids no longer watched leave the book.
Reconfigure ==
  /\ policy' # policy
  /\ outbox = Empty /\ outbox' = Empty
  /\ word' = word
  /\ book' = [i \in Ids |-> IF i \in policy'.ids THEN book[i] ELSE Blank]

Init ==
  /\ policy \in [ids : SUBSET Ids, configured : BOOLEAN, floor : Severities]
  /\ book = [i \in Ids |-> Blank]
  /\ outbox = Empty
  /\ word = Empty

Next == Watch \/ Reconfigure

Spec == Init /\ [][Next]_vars
=============================================================================
