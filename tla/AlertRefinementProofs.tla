------------------------- MODULE AlertRefinementProofs -------------------------
(***************************************************************************)
(* AlertEngine implements AlertContract, for any checks, collectors and    *)
(* interleavings, while storage can be written and answers are not lost.   *)
(***************************************************************************)
EXTENDS AlertRefinement, AlertEngineProofs

(* The contract's copies of the severities are the engine's.               *)
LEMMA SameSeverities ==
  /\ Contract!Severities = Severities /\ Contract!BAD = BAD
  /\ Contract!OK = OK /\ Contract!UNKNOWN = UNKNOWN /\ Contract!None = None
  /\ \A s \in Severities : Contract!rank(s) = rank(s)
BY DEF Contract!Severities, Contract!BAD, Contract!OK, Contract!UNKNOWN, Contract!WARNING, Contract!CRITICAL,
       Contract!None, Contract!rank, Severities, BAD, OK, UNKNOWN, WARNING, CRITICAL, None, rank

LEMMA SameBlanks ==
  /\ Contract!Blank = NoRow /\ Contract!Blank = Line(NoEntry)
  /\ Contract!Empty = NoBatch
BY SameSeverities DEF Contract!Blank, Contract!Empty, NoRow, NoEntry, Line, NoBatch

\* In a running engine an id is in the book when it is not absent.
LEMMA LineBlank ==
  ASSUME NEW e \in Entry, Absent(e) => e = NoEntry
  PROVE  Line(e) = Contract!Blank <=> Absent(e)
<1>1. ASSUME Line(e) = Contract!Blank PROVE Absent(e)
  <2>1. Line(e).severity = e.severity /\ Line(NoEntry).severity = "absent"
    BY DEF Line, NoEntry
  <2> QED
    BY <1>1, <2>1, SameBlanks DEF Absent
<1>2. ASSUME Absent(e) PROVE Line(e) = Contract!Blank
  BY <1>2, SameBlanks
<1> QED
  BY <1>1, <1>2

LEMMA BookAt ==
  ASSUME phase # "down", NEW i \in Ids
  PROVE  Book[i] = Line(state[i])
BY DEF Book

LEMMA BookIsTable ==
  ASSUME TypeOK, Durable
  PROVE  Book = db
<1>1. CASE phase = "down"
  BY <1>1 DEF Book
<1>2. CASE phase # "down"
  <2>1. db = [i \in Ids |-> db[i]]
    BY DEF TypeOK
  <2>2. \A i \in Ids : db[i] = Line(state[i])
    BY <1>2 DEF Durable, Mirrors, Line
  <2> QED
    BY <1>2, <2>1, <2>2 DEF Book
<1> QED
  BY <1>1, <1>2
-----------------------------------------------------------------------------
(* What may happen to one line while the engine runs.                      *)

Running == phase # "down" /\ phase' # "down"

LEMMA LineSame ==
  ASSUME Running, NEW i \in Ids, state'[i].severity = state[i].severity, state'[i].notified = state[i].notified
  PROVE  Contract!LineMoves(i)
<1>1. Book'[i] = Book[i]
  BY DEF Running, Book, Line
<1> QED
  BY <1>1 DEF Contract!LineMoves

LEMMA LineSighted ==
  ASSUME TypeOK, Blanks(state), Running, NEW i \in Ids, NEW s \in Severities, state'[i] = Sighted(state[i], s)
  PROVE  Contract!LineMoves(i)
<1>1. Book[i] = Line(state[i]) /\ Book'[i] = Line(state'[i]) /\ state[i] \in Entry
  BY DEF Running, Book, TypeOK
<1>2. CASE Absent(state[i])
  <2>1. Book[i] = Contract!Blank
    BY <1>1, <1>2, SameBlanks DEF Blanks
  <2>2. state'[i].severity = s /\ state'[i].notified = (IF s \in BAD THEN None ELSE s)
    BY <1>2 DEF Sighted, NoEntry
  <2>3. Book'[i] = [severity |-> s, notified |-> IF s \in BAD THEN None ELSE s]
    BY <1>1, <2>2 DEF Line
  <2> QED
    BY <2>1, <2>3, SameSeverities DEF Contract!LineMoves, Contract!Appears, Contract!InBook
<1>3. CASE ~Absent(state[i])
  <2>1. Book[i] # Contract!Blank
    BY <1>1, <1>3, LineBlank
  <2>2. state'[i].severity = s /\ state'[i].notified = state[i].notified
    BY <1>1, <1>3 DEF Sighted, Entry
  <2>3. Book'[i] = [Book[i] EXCEPT !.severity = s]
    BY <1>1, <2>2 DEF Line
  <2> QED
    BY <2>1, <2>3, SameSeverities DEF Contract!LineMoves, Contract!Observes, Contract!InBook
<1> QED
  BY <1>2, <1>3

LEMMA LineEntombed ==
  ASSUME TypeOK, Blanks(state), Running, NEW i \in Ids, ~Absent(state[i]), state'[i] = Tombstone(state[i])
  PROVE  Contract!LineMoves(i)
<1>1. Book[i] = Line(state[i]) /\ Book'[i] = Line(state'[i]) /\ state[i] \in Entry
  BY DEF Running, Book, TypeOK
<1>2. Book[i] # Contract!Blank
  BY <1>1, LineBlank DEF Blanks
<1>3. state'[i].severity = OK /\ state'[i].notified = state[i].notified
  BY <1>1 DEF Tombstone, Entry
<1>4. Book'[i] = [Book[i] EXCEPT !.severity = OK]
  BY <1>1, <1>3 DEF Line
<1> QED
  BY <1>2, <1>4, SameSeverities, SeverityFacts DEF Contract!LineMoves, Contract!Observes, Contract!InBook

\* Forgetting needs one of the contract's reasons.
LEMMA LineForgotten ==
  ASSUME TypeOK, Blanks(state), Running, NEW i \in Ids, ~Absent(state[i]), state'[i] = NoEntry, i \notin Lasting,
         \/ i \in Ephemeral \/ state[i].notified \notin BAD
         \/ Contract!Accepted(i) /\ batch[i] = OK
         \/ i \in Mutable \/ ~Contract!ToldFailed(i)
  PROVE  Contract!LineMoves(i)
<1>1. Book[i] = Line(state[i]) /\ Book'[i] = Line(state'[i]) /\ state[i] \in Entry
  BY DEF Running, Book, TypeOK
<1>2. Contract!InBook(i)
  BY <1>1, LineBlank DEF Blanks, Contract!InBook
<1>3. Book'[i] = Contract!Blank
  BY <1>1, SameBlanks
<1>4. Book[i].notified = state[i].notified
  BY <1>1 DEF Line
<1>5. Contract!Forgotten(i)
  BY <1>2, <1>3, <1>4, SameSeverities DEF Contract!Forgotten
<1> QED
  BY <1>5 DEF Contract!LineMoves

LEMMA LineNotified ==
  ASSUME TypeOK, Blanks(state), Running, NEW i \in Ids, ~Absent(state[i]), NEW s,
         state'[i].severity = state[i].severity, state'[i].notified = s
  PROVE  /\ Contract!InBook(i)
         /\ Book[i].severity = state[i].severity /\ Book[i].notified = state[i].notified
         /\ Book'[i] = [Book[i] EXCEPT !.notified = s]
<1>1. Book[i] = Line(state[i]) /\ Book'[i] = Line(state'[i]) /\ state[i] \in Entry
  BY DEF Running, Book, TypeOK
<1>2. Contract!InBook(i)
  BY <1>1, LineBlank DEF Blanks, Contract!InBook
<1> QED
  BY <1>1, <1>2 DEF Line
-----------------------------------------------------------------------------
(* What more has to be known of a process that is down or being stopped:   *)
(* no row is left of a collector that is not enabled, so a start with the  *)
(* same configuration changes nothing; and the delivery in flight is gone. *)

Tidy ==
  /\ OnlyEnabledKnown
  /\ phase = "down" => \A i \in Ids : db[i] # NoRow => Owner(i) \in conf.enabled
  /\ phase = "stopping" => ~Delivering

LEMMA InitTidy == Init => Tidy
BY DEF Init, Tidy, OnlyEnabledKnown, Known, NoEntry, Absent

LEMMA NextTidy ==
  ASSUME TypeOK, Durable, Tidy, [Next]_vars
  PROVE  Tidy'
<1>1. OnlyEnabledKnown'
  BY NextEnabledKnown DEF Tidy
<1>2. CASE Halt \/ Crash
  <2>1. phase # "down" /\ phase' = "down" /\ UNCHANGED <<db, conf>>
    BY <1>2 DEF Halt, Crash, MemoryLost
  <2>2. ASSUME NEW i \in Ids, db[i] # NoRow PROVE Owner(i) \in conf.enabled
    <3>1. db[i] = [severity |-> state[i].severity, notified |-> state[i].notified]
      BY <2>1 DEF Durable, Mirrors
    <3>2. ~Absent(state[i])
      BY <2>2, <3>1 DEF Durable, Blanks, NoEntry, NoRow
    <3> QED
      BY <3>2 DEF Tidy, OnlyEnabledKnown, Known
  <2> QED
    BY <1>1, <2>1, <2>2 DEF Tidy
<1>3. ASSUME NEW p \in Panels, PollSucceeds(p) \/ PollFails(p) \/ PollAborts(p) PROVE Tidy'
  BY <1>1, <1>3 DEF PollSucceeds, PollFails, PollAborts, Tidy
<1>4. CASE WorkerDrains \/ FinalDrain \/ Start \/ RetryDue \/ GraceEnds
  BY <1>1, <1>4 DEF WorkerDrains, FinalDrain, Start, RetryDue, GraceEnds, Tidy
<1>5. CASE DeliveryAccepted \/ DeliveryFails \/ FinalTimeout \/ Stop
  <2>1. phase # "down" /\ (phase' = phase \/ phase' = "stopping") /\ batch' = NoBatch
    BY <1>5 DEF DeliveryAccepted, DeliveryFails, FinalTimeout, Stop, Durable
  <2> QED
    BY <1>1, <2>1 DEF Tidy, Delivering
<1>6. CASE UNCHANGED vars
  BY <1>1, <1>6 DEF vars, Tidy, Delivering
<1>7. ASSUME NEW i \in Mutable, Mute(i) \/ MuteEnds(i) PROVE Tidy'
  BY <1>1, <1>7 DEF Mute, MuteEnds, engineVars, Tidy, Delivering
<1> QED
  BY <1>2, <1>3, <1>4, <1>5, <1>6, <1>7 DEF Next
-----------------------------------------------------------------------------
(* Every handler is a step of the contract.                                *)

LEMMA SilentWatch ==
  ASSUME conf' = conf, heard' = heard, batch' = batch \/ batch' = NoBatch,
         \A i \in Ids : Contract!LineMoves(i)
  PROVE  Contract!Watch
<1>1. Policy' = Policy
  BY DEF Policy
<1>2. Contract!OutboxMoves
  BY SameBlanks DEF Contract!OutboxMoves
<1>3. \A i \in Ids : Contract!WordMoves(i)
  BY DEF Contract!WordMoves
<1> QED
  BY <1>1, <1>2, <1>3 DEF Contract!Watch

LEMMA LapsedLine ==
  ASSUME TypeOK, Durable, Books, NEW p \in Panels, NEW r \in Reports(p), NEW u \in Unread(p, r),
         Running, NEW i \in Lapsed(p, r, u), state'[i] = NoEntry
  PROVE  Contract!LineMoves(i)
<1>1. i \in ChecksOf(p) /\ i \notin Published(r) /\ i \in Ids /\ ~Absent(state[i]) /\ i \notin u
  BY PollSets, IdsFacts DEF Books, Known, Lapsed, Vanished
<1>2. Lapses(i, state[i])
  BY DEF Lapsed
<1>3. i \in Ephemeral \/ state[i].notified \notin BAD
  BY <1>1, <1>2, SeverityFacts DEF Lapses, Books, TombstonesOwe
<1>4. i \notin Lasting
  <2>1. Steady \cap ChecksOf(p) \subseteq Published(r) \cup u
    BY DEF Unread
  <2> QED
    BY <1>1, <2>1, IdsFacts, LastingFacts
<1> QED
  BY <1>1, <1>3, <1>4, LineForgotten DEF Durable

LEMMA IngestWatch ==
  ASSUME TypeOK, Durable, Books, NEW p \in Panels, PollSucceeds(p)
  PROVE  Contract!Watch
<1>1. PICK r \in Reports(p) : \E u \in Unread(p, r), o \in WriteOutcome : IngestSuccess(p, r, u, o)
  BY DEF PollSucceeds
<1>2. PICK u \in Unread(p, r), o \in WriteOutcome : IngestSuccess(p, r, u, o)
  BY <1>1
<1>3. Running /\ UNCHANGED <<conf, batch, heard>> /\ Blanks(state) /\ BaselineComplete
  BY DEF PollSucceeds, Running, Durable, Books
<1>4. ASSUME NEW i \in Ids PROVE Contract!LineMoves(i)
  <2>1. CASE i = p
    <3>1. state'[i] = Sighted(state[i], OK)
      BY <1>2, <1>3, <2>1, AfterIngest
    <3> QED
      BY <1>3, <3>1, SeverityFacts, LineSighted
  <2>2. CASE i \in Published(r)
    <3>1. state'[i] = Sighted(state[i], r[i]) /\ r[i] \in Severities
      BY <1>2, <1>3, <2>2, AfterIngest, ReportFacts
    <3> QED
      BY <1>3, <3>1, LineSighted
  <2>3. CASE i \in Lapsed(p, r, u)
    <3>1. state'[i] = NoEntry
      BY <1>2, <1>3, <2>3, AfterIngest
    <3> QED
      BY <1>3, <2>3, <3>1, LapsedLine
  <2>4. CASE i \in Entombed(p, r, u)
    <3>1. state'[i] = Tombstone(state[i])
      BY <1>2, <1>3, <2>4, AfterIngest
    <3>2. ~Absent(state[i])
      BY <1>3, <2>4, PollSets DEF Known
    <3> QED
      BY <1>3, <3>1, <3>2, LineEntombed
  <2>5. CASE i # p /\ i \notin Published(r) \cup Lapsed(p, r, u) \cup Entombed(p, r, u)
    <3>1. state'[i] = state[i]
      BY <1>2, <1>3, <2>5, AfterIngest
    <3> QED
      BY <1>3, <3>1, LineSame
  <2> QED
    BY <2>1, <2>2, <2>3, <2>4, <2>5
<1> QED
  BY <1>3, <1>4, SilentWatch

LEMMA FailureWatch ==
  ASSUME TypeOK, Durable, NEW p \in Panels, PollFails(p)
  PROVE  Contract!Watch
<1>1. Running /\ UNCHANGED <<conf, batch, heard>> /\ Blanks(state)
  BY DEF PollFails, Running, Durable
<1>2. state' = [state EXCEPT ![p] = Sighted(@, CRITICAL)]
  BY DEF PollFails, IngestFailure
<1>3. ASSUME NEW i \in Ids PROVE Contract!LineMoves(i)
  <2>1. CASE i = p
    <3>1. state'[i] = Sighted(state[i], CRITICAL) /\ CRITICAL \in Severities
      BY <1>2, <2>1 DEF TypeOK, Severities
    <3> QED
      BY <1>1, <3>1, LineSighted
  <2>2. CASE i # p
    <3>1. state'[i] = state[i]
      BY <1>2, <2>2 DEF TypeOK
    <3> QED
      BY <1>1, <3>1, LineSame
  <2> QED
    BY <2>1, <2>2
<1> QED
  BY <1>1, <1>3, SilentWatch

Settled == MutedRecoveries \cup (Owed \ ToSend)

\* Each reason for which a drain settles a debt without a request is one of
\* the contract's.
LEMMA SettledReason ==
  ASSUME TypeOK, Spoken, Posting, phase # "down", NEW i \in Settled
  PROVE  /\ i \in Lasting => heard[i] \notin BAD
         /\ \/ i \in Mutable /\ state[i].severity = OK
            \/ /\ ~Contract!Clears(state[i].severity)
               /\ state[i].notified \notin BAD \/ ~Contract!Clears(state[i].notified)
<1>1. i \in Lasting => heard[i] \notin BAD
  BY SilentLasting DEF Settled
<1>2. CASE i \in MutedRecoveries
  <2>1. i \in Mutable /\ state[i].severity = OK
    BY <1>2 DEF MutedRecoveries, TypeOK
  <2> QED
    BY <1>1, <2>1
<1>3. CASE i \in Owed \ ToSend
  <2>1. i \in Owes /\ ~Notable(state[i])
    BY <1>3, SettledSets DEF ToSend, Posting, Spoken
  <2>2. state[i].severity \in Severities
    BY <2>1, OwesFacts, SeverityFacts DEF TypeOK
  <2>3. \A s \in Severities : Contract!Clears(s) <=> rank(s) >= rank(conf.floor)
    BY InputsAssumption, SameSeverities DEF Contract!Clears, Policy, TypeOK, Config
  <2>4. ~Contract!Clears(state[i].severity)
    BY <2>1, <2>2, <2>3 DEF Notable
  <2>5. state[i].notified \in BAD => ~Contract!Clears(state[i].notified)
    BY <2>1, <2>3, SeverityFacts DEF Notable, ReceiverKnowsOld
  <2> QED
    BY <1>1, <2>4, <2>5
<1> QED
  BY <1>2, <1>3 DEF Settled

LEMMA SettledLine ==
  ASSUME TypeOK, Durable, Spoken, Posting, Running, NEW i \in Settled,
         state' = Marked(state, News(Settled), FALSE)
  PROVE  Contract!LineMoves(i)
<1>1. Settled \in SUBSET Owes
  BY SettledSets DEF Settled
<1>2. /\ i \in Ids /\ ~Absent(state[i])
      /\ state[i].severity \in {OK} \cup BAD /\ state[i].severity # state[i].notified
  BY <1>1, OwesFacts DEF TypeOK
<1>3. News(Settled)[i] = state[i].severity /\ News(Settled)[i] # None
  BY <1>2, SeverityFacts DEF News
<1>4. phase # "down" /\ Blanks(state) /\ state \in [Ids -> Entry]
  BY DEF Running, Durable, TypeOK
<1>5. CASE i \in Paid(state, News(Settled))
  <2>1. state'[i] = NoEntry
    BY <1>2, <1>5, MarkedPaid
  <2>2. i \notin Lasting
    BY <1>5 DEF Paid, Spoken
  <2>3. state[i].notified \notin BAD \/ i \in Mutable \/ ~Contract!ToldFailed(i)
    <3>0. Book[i] = Line(state[i])
      BY <1>2, <1>4, BookAt
    <3>1. Book[i].notified = state[i].notified
      BY <3>0 DEF Line
    <3> QED
      BY <1>4, <3>1, SettledReason DEF Contract!ToldFailed
  <2> QED
    BY <1>2, <1>4, <2>1, <2>2, <2>3, LineForgotten
<1>6. CASE i \notin Paid(state, News(Settled))
  <2>1. i \in Rows(state, News(Settled))
    BY <1>2, <1>3, <1>6 DEF Rows, Known
  <2>2. state'[i].severity = state[i].severity
    BY <1>2, <1>4, <2>1, MarkedKept
  <2>3. state'[i].notified = state[i].severity
    BY <1>2, <1>3, <1>4, <2>1, MarkedKept
  <2>4. /\ Contract!InBook(i)
        /\ Book[i].severity = state[i].severity /\ Book[i].notified = state[i].notified
        /\ Book'[i] = [Book[i] EXCEPT !.notified = state[i].severity]
    BY <1>2, <1>4, <2>2, <2>3, LineNotified
  <2>5. Contract!InDebt(i)
    BY <1>2, <2>4, SameSeverities, SeverityFacts DEF Contract!InDebt
  <2>6. Contract!MaySettleSilently(i)
    <3>1. CASE i \in Mutable /\ state[i].severity = OK
      BY <2>4, <3>1, SameSeverities DEF Contract!MaySettleSilently
    <3>2. CASE /\ ~Contract!Clears(state[i].severity)
               /\ state[i].notified \notin BAD \/ ~Contract!Clears(state[i].notified)
      <4>1. i \in Lasting => heard[i] \notin Contract!BAD
        BY <1>4, SettledReason, SameSeverities
      <4>2. ~Contract!ToldFailed(i)
        BY <2>4, <3>2, SameSeverities DEF Contract!ToldFailed
      <4> QED
        BY <2>4, <3>2, <4>1, <4>2 DEF Contract!MaySettleSilently
    <3> QED
      BY <1>4, <3>1, <3>2, SettledReason
  <2> QED
    BY <2>4, <2>5, <2>6 DEF Contract!LineMoves, Contract!SettlesSilently
<1> QED
  BY <1>5, <1>6

\* What a drain sends is owed, current and worth telling.
LEMMA DrainPosts ==
  ASSUME TypeOK, Durable, Spoken, Posting, phase # "down", ~Delivering, batch' = News(ToSend), ToSend # {}
  PROVE  Contract!Posts
<1>1. conf.configured /\ state \in [Ids -> Entry] /\ ToSend \in SUBSET Owes
  BY SettledSets DEF Posting, Spoken, TypeOK
<1>2. ASSUME NEW i \in ToSend
      PROVE  /\ i \in Ids /\ ~Absent(state[i])
             /\ state[i].severity \in {OK} \cup BAD /\ state[i].severity # state[i].notified
             /\ batch'[i] = state[i].severity /\ batch'[i] # None
  <2>1. /\ i \in Ids /\ ~Absent(state[i])
        /\ state[i].severity \in {OK} \cup BAD /\ state[i].severity # state[i].notified
    BY <1>1, OwesFacts
  <2> QED
    BY <2>1, SeverityFacts DEF News
<1>3. ASSUME NEW i \in ToSend
      PROVE  /\ Contract!InDebt(i)
             /\ batch'[i] = Book[i].severity
             /\ Contract!Clears(Book[i].severity) \/ Book[i].notified \in Contract!BAD
  <2>1. Book[i] = Line(state[i])
    BY <1>2, BookAt
  <2>2. Book[i].severity = state[i].severity /\ Book[i].notified = state[i].notified
    BY <2>1 DEF Line
  <2>3. Contract!InBook(i)
    BY <1>1, <1>2, <2>1, LineBlank DEF Contract!InBook, Durable, Blanks
  <2>4. Contract!InDebt(i)
    BY <1>2, <2>2, <2>3, SameSeverities, SeverityFacts DEF Contract!InDebt
  <2>5. Notable(state[i])
    BY <1>1 DEF ToSend
  <2>6. Contract!Clears(state[i].severity) <=> rank(state[i].severity) >= rank(conf.floor)
    BY <1>2, SameSeverities, SeverityFacts, InputsAssumption DEF Contract!Clears, Policy, TypeOK, Config
  <2>7. Contract!Clears(state[i].severity) \/ state[i].notified \in BAD
    BY <2>5, <2>6 DEF Notable, ReceiverKnowsOld
  <2> QED
    BY <1>2, <2>2, <2>4, <2>7, SameSeverities
<1>4. \A i \in Ids : batch'[i] # None => i \in ToSend
  BY DEF News
<1>5. batch' # NoBatch
  BY <1>2 DEF NoBatch
<1> QED
  BY <1>1, <1>3, <1>4, <1>5, SameSeverities, SameBlanks DEF Contract!Posts, Policy, Delivering

LEMMA DrainWatch ==
  ASSUME TypeOK, Durable, Spoken, Posting, Running, ~Delivering, UNCHANGED <<conf, heard>>, NEW force, Drain(force)
  PROVE  Contract!Watch
<1>1. /\ state' = Marked(state, News(Settled), FALSE)
      /\ batch' = IF ToSend # {} /\ (force \/ ~waiting) THEN News(ToSend) ELSE NoBatch
  BY DEF Drain, Settled
<1>2. ASSUME NEW i \in Ids PROVE Contract!LineMoves(i)
  <2>1. CASE i \in Settled
    BY <1>1, <2>1, SettledLine
  <2>2. CASE i \notin Settled
    <3>1. News(Settled)[i] = None
      BY <2>2 DEF News
    <3>2. state'[i] = state[i]
      BY <1>1, <3>1 DEF Marked
    <3> QED
      BY <3>2, LineSame
  <2> QED
    BY <2>1, <2>2
<1>3. CASE batch' = NoBatch
  BY <1>2, <1>3, SilentWatch
<1>4. CASE batch' # NoBatch
  <2>1. batch' = News(ToSend) /\ ToSend # {}
    BY <1>1, <1>4
  <2>2. Contract!Posts
    BY <2>1, DrainPosts DEF Running
  <2>3. Policy' = Policy /\ \A i \in Ids : Contract!WordMoves(i)
    BY DEF Policy, Contract!WordMoves
  <2> QED
    BY <1>2, <2>2, <2>3 DEF Contract!Watch, Contract!OutboxMoves
<1> QED
  BY <1>3, <1>4

LEMMA AcceptedWatch ==
  ASSUME TypeOK, Durable, Books, Spoken, DeliveryAccepted
  PROVE  Contract!Watch
<1>1. /\ state' = Marked(state, batch, TRUE) /\ batch' = NoBatch /\ heard' = HeardAfter(TRUE)
      /\ UNCHANGED <<phase, conf>>
  BY DEF DeliveryAccepted
<1>2. Running /\ Blanks(state) /\ state \in [Ids -> Entry]
  BY <1>1 DEF DeliveryAccepted, Durable, Running, TypeOK
<1>3. ASSUME NEW i \in Ids PROVE heard'[i] = IF batch[i] # None THEN batch[i] ELSE heard[i]
  BY <1>1 DEF HeardAfter
<1>4. ASSUME NEW i \in Ids, batch[i] # None PROVE Contract!Accepted(i)
  BY <1>1, <1>3, <1>4, SameSeverities, SameBlanks DEF Contract!Accepted
<1>5. ASSUME NEW i \in Ids PROVE Contract!LineMoves(i)
  <2>1. CASE i \in Paid(state, batch)
    <3>1. state'[i] = NoEntry
      BY <1>1, <2>1, MarkedPaid
    <3>2. ~Absent(state[i]) /\ batch[i] # None /\ state[i].gone /\ state[i].severity = batch[i]
      BY <2>1 DEF Paid, Known
    <3>3. batch[i] = OK /\ i \notin Lasting
      BY <3>2 DEF Books, TombstonesOwe, Spoken
    <3>4. Contract!Accepted(i)
      BY <1>4, <3>2
    <3> QED
      BY <1>2, <3>1, <3>2, <3>3, <3>4, LineForgotten
  <2>2. CASE i \in Rows(state, batch)
    <3>1. ~Absent(state[i]) /\ batch[i] # None
      BY <2>2 DEF Rows, Known
    <3>2. state'[i].severity = state[i].severity
      BY <1>1, <1>2, <2>2, MarkedKept
    <3>3. state'[i].notified = batch[i]
      BY <1>1, <1>2, <2>2, MarkedKept
    <3>4. /\ Contract!InBook(i)
          /\ Book'[i] = [Book[i] EXCEPT !.notified = batch[i]]
      BY <1>2, <3>1, <3>2, <3>3, LineNotified
    <3> QED
      BY <1>4, <3>1, <3>4 DEF Contract!LineMoves, Contract!IsTold
  <2>3. CASE i \notin Paid(state, batch) /\ i \notin Rows(state, batch)
    <3>1. state'[i] = state[i]
      BY <1>1, <2>3, MarkedOther
    <3> QED
      BY <1>2, <3>1, LineSame
  <2> QED
    BY <2>1, <2>2, <2>3
<1>6. \A i \in Ids : Contract!WordMoves(i)
  BY <1>3, <1>4 DEF Contract!WordMoves
<1>7. Policy' = Policy /\ Contract!OutboxMoves
  BY <1>1, SameBlanks DEF Policy, Contract!OutboxMoves
<1> QED
  BY <1>5, <1>6, <1>7 DEF Contract!Watch

\* Going down keeps what the table mirrors.
LEMMA DownWatch ==
  ASSUME TypeOK, Durable, phase # "down", MemoryLost, UNCHANGED <<db, heard>>
  PROVE  Contract!Watch
<1>1. Book' = db' /\ Book = db
  BY BookIsTable DEF MemoryLost, Book
<1>2. \A i \in Ids : Contract!LineMoves(i)
  BY <1>1 DEF Contract!LineMoves
<1> QED
  BY <1>2, SilentWatch DEF MemoryLost

\* A start forgets what is no longer watched, and nothing else.
LEMMA StartMoves ==
  ASSUME TypeOK, Durable, Tidy, Saving, Start
  PROVE  Contract!Next
<1>1. TypeOK' /\ Durable'
  BY NextType, StartDurable DEF Next
<1>2. Book = db /\ Book' = db'
  <2>1. Book = db
    BY BookIsTable
  <2>2. db' = [i \in Ids |-> db'[i]]
    BY <1>1 DEF TypeOK
  <2>3. \A i \in Ids : db'[i] = Line(state'[i])
    BY <1>1 DEF Start, Durable, Mirrors, Line
  <2> QED
    BY <2>1, <2>2, <2>3 DEF Start, Book
<1>3. batch = NoBatch /\ batch' = NoBatch /\ heard' = heard
  BY DEF Start, Durable, Delivering
<1>4. \A i \in Ids : db'[i] = IF i \in Policy'.ids THEN db[i] ELSE NoRow
  <2>1. PICK o \in WriteOutcome : db' = Written(db, state', {}, Retired(conf'), o)
    BY DEF Start, Saving
  <2>2. o.forget
    BY SavingOutcome
  <2>3. \A i \in Ids : i \in Policy'.ids <=> i \notin Retired(conf')
    BY DEF Policy, Retired
  <2> QED
    BY <2>1, <2>2, <2>3 DEF Written
<1>5. CASE Policy' = Policy
  <2>1. \A i \in Ids : db[i] # NoRow => i \in Policy.ids
    BY DEF Tidy, Policy, Start
  <2>2. \A i \in Ids : Book'[i] = Book[i]
    BY <1>2, <1>4, <1>5, <2>1
  <2>3. \A i \in Ids : Contract!LineMoves(i) /\ Contract!WordMoves(i)
    BY <1>3, <2>2 DEF Contract!LineMoves, Contract!WordMoves
  <2> QED
    BY <1>3, <1>5, <2>3 DEF Contract!Next, Contract!Watch, Contract!OutboxMoves
<1>6. CASE Policy' # Policy
  <2>1. Book' = [i \in Ids |-> IF i \in Policy'.ids THEN Book[i] ELSE NoRow]
    BY <1>1, <1>2, <1>4 DEF TypeOK
  <2> QED
    BY <1>3, <1>6, <2>1, SameBlanks DEF Contract!Next, Contract!Reconfigure
<1> QED
  BY <1>5, <1>6

LEMMA InitMaps == Init => Contract!Init
<1> SUFFICES ASSUME Init PROVE Contract!Init
  OBVIOUS
<1>1. conf \in Config
  BY InputsAssumption DEF Init
<1>2. Policy \in [ids : SUBSET Ids, configured : BOOLEAN, floor : Contract!Severities]
  BY <1>1, SameSeverities DEF Policy, Config
<1>3. Book = [i \in Ids |-> Contract!Blank]
  BY SameBlanks DEF Init, Book
<1>4. batch = Contract!Empty /\ heard = Contract!Empty
  BY SameBlanks DEF Init, NoBatch
<1> QED
  BY <1>2, <1>3, <1>4 DEF Contract!Init

LEMMA NextMaps ==
  ASSUME GoodWeather, TypeOK, Durable, Books, Spoken, Tidy, [Next]_vars
  PROVE  [Contract!Next]_Contract!vars
<1>0. Saving /\ Posting /\ Honest /\ heard \in [Ids -> Severities \cup {None}]
  BY DEF GoodWeather, TypeOK
<1>1. ASSUME NEW p \in Panels, PollSucceeds(p) \/ PollFails(p) PROVE Contract!Watch
  BY <1>1, IngestWatch, FailureWatch
<1>2. ASSUME NEW p \in Panels, PollAborts(p) PROVE FALSE
  BY <1>0, <1>2 DEF PollAborts, Saving
<1>3. CASE WorkerDrains \/ FinalDrain
  <2>1. Running /\ ~Delivering /\ UNCHANGED <<conf, heard>> /\ \E force : Drain(force)
    BY <1>3 DEF WorkerDrains, FinalDrain, Running, Tidy
  <2> QED
    BY <1>0, <2>1, DrainWatch DEF Contract!Next
<1>4. CASE DeliveryAccepted
  BY <1>4, AcceptedWatch DEF Contract!Next
<1>5. CASE DeliveryFails \/ FinalTimeout \/ Stop
  <2>1. Running /\ UNCHANGED <<conf, heard, state>> /\ batch' = NoBatch
    BY <1>0, <1>5, UnheardSpoken DEF DeliveryFails, FinalTimeout, Stop, Running, Durable
  <2>2. \A i \in Ids : Contract!LineMoves(i)
    BY <2>1, LineSame
  <2> QED
    BY <2>1, <2>2, SilentWatch DEF Contract!Next
<1>6. CASE RetryDue \/ GraceEnds \/ UNCHANGED vars
  <2>1. UNCHANGED <<phase, conf, state, db, batch, heard>>
    BY <1>6 DEF RetryDue, GraceEnds, vars
  <2> QED
    BY <2>1 DEF Contract!vars, Policy, Book
<1>7. ASSUME NEW i \in Mutable, Mute(i) \/ MuteEnds(i) PROVE UNCHANGED Contract!vars
  <2>1. UNCHANGED <<phase, conf, state, db, batch, heard>>
    BY <1>7 DEF Mute, MuteEnds, engineVars
  <2> QED
    BY <2>1 DEF Contract!vars, Policy, Book
<1>8. CASE Start
  BY <1>0, <1>8, StartMoves
<1>9. CASE Halt \/ Crash
  <2>1. phase # "down" /\ MemoryLost /\ UNCHANGED <<db, heard>>
    BY <1>0, <1>9, UnheardSpoken DEF Halt, Crash
  <2> QED
    BY <2>1, DownWatch DEF Contract!Next
<1> QED
  BY <1>1, <1>2, <1>3, <1>4, <1>5, <1>6, <1>7, <1>8, <1>9 DEF Next, Contract!Next

\* While storage can be written and answers arrive, the engine keeps the
\* contract of AlertContract, for any checks and collectors: no interleaving
\* of polls, deliveries, failures, mutes, kills and restarts loses a debt,
\* invents one, or tells the receiver what was not observed and owed.
THEOREM EngineKeepsContract == GoodWeather /\ Spec => ContractKept
<1>1. CASE GoodWeather
  <2> DEFINE IInv == TypeOK /\ Durable /\ Books /\ Spoken
  <2>1. Spec => []IInv
    BY <1>1, SpecSpoken
  <2>2. IInv /\ Tidy /\ [Next]_vars => Tidy'
    BY NextTidy
  <2>3. IInv /\ Tidy /\ [Next]_vars => [Contract!Next]_Contract!vars
    BY <1>1, NextMaps
  <2> HIDE DEF IInv
  <2> QED
    BY <2>1, <2>2, <2>3, InitTidy, InitMaps, PTL DEF Spec, ContractKept, Contract!Spec
<1> QED
  BY <1>1
=============================================================================
