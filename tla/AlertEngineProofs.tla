--------------------------- MODULE AlertEngineProofs ---------------------------
(***************************************************************************)
(* Proofs about AlertEngine for any checks, collectors, configurations and *)
(* disturbances.                                                           *)
(***************************************************************************)
EXTENDS AlertEngine, TLAPS

\* What may be settled or sent: a new severity, or None, per id.
Told == [Ids -> Severities \cup {None}]

\* A panel is not a check, so it is an id of its own and no check's.
LEMMA IdsFacts ==
  /\ Checks \subseteq Ids /\ Panels \subseteq Ids
  /\ \A p \in Panels : p \notin Checks
  /\ \A c \in Checks : PanelOf[c] \in Panels
  /\ \A p \in Panels : ChecksOf(p) \subseteq Checks
  /\ \A i \in Ids : Owner(i) \in Panels
BY IdsAssumption DEF Ids, ChecksOf, Owner

LEMMA SeverityFacts ==
  /\ BAD \subseteq Severities
  /\ OK \in Severities /\ UNKNOWN \in Severities /\ OK \notin BAD
  /\ None \notin Severities /\ "absent" \notin Severities
  /\ OK # UNKNOWN /\ UNKNOWN \notin BAD
BY DEF BAD, Severities, OK, UNKNOWN, WARNING, CRITICAL, None

-----------------------------------------------------------------------------
(* The operators on one entry or one table preserve their types.           *)

LEMMA BlankTypes == NoEntry \in Entry /\ NoRow \in Row /\ NoBatch \in Told
BY DEF NoEntry, Entry, NoRow, Row, NoBatch, Told, Observed, Notified

LEMMA SightedType ==
  ASSUME NEW e \in Entry, NEW s \in Severities
  PROVE  Sighted(e, s) \in Entry
BY SeverityFacts, BlankTypes DEF Sighted, Entry, Observed, Notified

LEMMA HalfSightedType ==
  ASSUME NEW e \in Entry, NEW s \in Severities
  PROVE  HalfSighted(e, s) \in Entry
BY SightedType DEF HalfSighted, Entry

LEMMA TombstoneType ==
  ASSUME NEW e \in Entry
  PROVE  Tombstone(e) \in Entry
BY SeverityFacts DEF Tombstone, Entry, Observed

LEMMA SavedRowType ==
  ASSUME NEW e \in Entry, NEW row \in Row
  PROVE  SavedRow(e, row) \in Row
BY DEF SavedRow, Entry, Row

LEMMA WrittenType ==
  ASSUME NEW table \in [Ids -> Row], NEW st \in [Ids -> Entry],
         NEW rows, NEW gone, NEW o
  PROVE  Written(table, st, rows, gone, o) \in [Ids -> Row]
BY SavedRowType, BlankTypes DEF Written

LEMMA MarkedType ==
  ASSUME NEW st \in [Ids -> Entry], NEW told \in Told, NEW sent \in BOOLEAN
  PROVE  Marked(st, told, sent) \in [Ids -> Entry]
BY BlankTypes DEF Marked, Told, Entry, Notified

LEMMA MarkedRowsType ==
  ASSUME NEW table \in [Ids -> Row], NEW st \in [Ids -> Entry], NEW told \in Told, NEW o
  PROVE  MarkedRows(table, st, told, o) \in [Ids -> Row]
BY WrittenType, MarkedType DEF MarkedRows

LEMMA RestoredType ==
  ASSUME NEW row \in Row
  PROVE  Restored(row) \in Entry
BY BlankTypes DEF Restored, Entry, Row

\* What is owed is a state other than `unknown' of a known id.
LEMMA OwesFacts ==
  ASSUME state \in [Ids -> Entry], NEW i \in Owes
  PROVE  /\ i \in Ids /\ ~Absent(state[i])
         /\ state[i].severity \in {OK} \cup BAD
         /\ state[i].severity # state[i].notified
<1>1. i \in Ids /\ ~Absent(state[i])
  BY DEF Owes, OwesIn, Known
<1>2. state[i].severity \in Severities
  BY <1>1 DEF Absent, Entry, Observed
<1> QED
  BY <1>1, <1>2 DEF Owes, OwesIn, Severities, BAD, OK, UNKNOWN, WARNING, CRITICAL

LEMMA NewsType ==
  ASSUME state \in [Ids -> Entry], NEW S \in SUBSET Owes
  PROVE  News(S) \in Told
BY OwesFacts, SeverityFacts DEF News, Told

LEMMA SettledSets == /\ MutedRecoveries \in SUBSET Owes
                     /\ Owed \in SUBSET Owes
                     /\ ToSend \in SUBSET Owed
BY DEF MutedRecoveries, Owed, ToSend
-----------------------------------------------------------------------------
(* The parts of the handlers that several actions share.                   *)

LEMMA ReportFacts ==
  ASSUME NEW p \in Panels, NEW r \in Reports(p)
  PROVE  /\ Published(r) \subseteq ChecksOf(p)
         /\ \A c \in Published(r) : r[c] \in Severities
<1>1. r \in [Checks -> Reported \cup {None}] /\ \A c \in Checks : PanelOf[c] # p => r[c] = None
  BY DEF Reports
<1> QED
  BY <1>1, InputsAssumption DEF Published, ChecksOf

LEMMA VanishedFacts ==
  ASSUME baseline \in [Panels -> SUBSET Checks], NEW p \in Panels, NEW r, NEW u
  PROVE  /\ Missing(p, r) \subseteq Checks
         /\ Vanished(p, r, u) \subseteq Missing(p, r)
         /\ Lapsed(p, r, u) \subseteq Vanished(p, r, u)
         /\ Entombed(p, r, u) \subseteq Vanished(p, r, u) \ Lapsed(p, r, u)
         /\ Missing(p, r) \cap Published(r) = {}
<1>1. Before(p, state) \subseteq Checks
  BY DEF Before, ChecksOf
<1> QED
  BY <1>1 DEF Missing, Vanished, Lapsed, Entombed

LEMMA AfterChecksType ==
  ASSUME state \in [Ids -> Entry], NEW p \in Panels, NEW r \in Reports(p), NEW u
  PROVE  AfterChecks(p, r, u) \in [Ids -> Entry]
<1> SUFFICES ASSUME NEW i \in Ids
             PROVE  /\ i \in Published(r) => Sighted(state[i], r[i]) \in Entry
                    /\ Tombstone(state[i]) \in Entry
                    /\ NoEntry \in Entry
                    /\ state[i] \in Entry
  BY DEF AfterChecks
<1> QED
  BY ReportFacts, SightedType, TombstoneType, BlankTypes

LEMMA IngestType ==
  ASSUME TypeOK, NEW p \in Panels
  PROVE  /\ \A r \in Reports(p), u \in SUBSET Checks, o \in WriteOutcome :
              IngestSuccess(p, r, u, o) =>
                /\ state' \in [Ids -> Entry]
                /\ baseline' \in [Panels -> SUBSET Checks]
                /\ polled' \in SUBSET Panels
                /\ db' \in [Ids -> Row]
         /\ \A o \in WriteOutcome : IngestFailure(p, o) =>
                /\ state' \in [Ids -> Entry]
                /\ db' \in [Ids -> Row]
<1> USE DEF TypeOK
<1>1. ASSUME NEW r \in Reports(p), NEW u \in SUBSET Checks, NEW o \in WriteOutcome, IngestSuccess(p, r, u, o)
      PROVE  /\ state' \in [Ids -> Entry]
             /\ baseline' \in [Panels -> SUBSET Checks]
             /\ polled' \in SUBSET Panels
             /\ db' \in [Ids -> Row]
  <2> DEFINE after == [AfterChecks(p, r, u) EXCEPT ![p] = Sighted(@, OK)]
  <2>1. after \in [Ids -> Entry]
    BY AfterChecksType, SightedType, IdsFacts, SeverityFacts
  <2>2. Published(r) \cup (Missing(p, r) \ Lapsed(p, r, u)) \in SUBSET Checks
    BY ReportFacts, VanishedFacts, IdsFacts
  <2>3. Written(db, after, Published(r) \cup Entombed(p, r, u) \cup {p}, Lapsed(p, r, u), o) \in [Ids -> Row]
    BY <2>1, WrittenType
  <2> QED
    BY <1>1, <2>1, <2>2, <2>3 DEF IngestSuccess
<1>2. ASSUME NEW o \in WriteOutcome, IngestFailure(p, o)
      PROVE  state' \in [Ids -> Entry] /\ db' \in [Ids -> Row]
  <2>1. [state EXCEPT ![p] = Sighted(@, CRITICAL)] \in [Ids -> Entry]
    BY SightedType, IdsFacts DEF Severities
  <2> QED
    BY <1>2, <2>1, WrittenType DEF IngestFailure
<1> QED
  BY <1>1, <1>2

LEMMA AbortType ==
  ASSUME TypeOK, NEW p \in Panels, AbortsAtCheck(p) \/ AbortsAtVanished(p) \/ AbortsAtPanel(p)
  PROVE  /\ state' \in [Ids -> Entry]
         /\ baseline' \in [Panels -> SUBSET Checks]
         /\ polled' \in SUBSET Panels
         /\ db' \in [Ids -> Row]
<1> USE DEF TypeOK
<1>1. CASE AbortsAtCheck(p)
  <2>1. PICK r \in Reports(p) : \E x \in Published(r) : \E done \in SUBSET (Published(r) \ {x}) :
          state' = [i \in Ids |-> CASE i \in done -> Sighted(state[i], r[i])
                                    [] i = x     -> HalfSighted(state[i], r[i])
                                    [] OTHER     -> state[i]]
    BY <1>1 DEF AbortsAtCheck
  <2>3. PICK x \in Published(r), done \in SUBSET Published(r) :
          state' = [i \in Ids |-> CASE i \in done -> Sighted(state[i], r[i])
                                    [] i = x     -> HalfSighted(state[i], r[i])
                                    [] OTHER     -> state[i]]
    BY <2>1
  <2>2. \A i \in Ids : i \in done \/ i = x => Sighted(state[i], r[i]) \in Entry /\ HalfSighted(state[i], r[i]) \in Entry
    BY ReportFacts, SightedType, HalfSightedType
  <2> QED
    BY <1>1, <2>2, <2>3 DEF AbortsAtCheck
<1>2. CASE AbortsAtVanished(p)
  <2>1. PICK r \in Reports(p) : \E done :
          state' = [i \in Ids |->
                      CASE i \in Published(r)                              -> Sighted(state[i], r[i])
                        [] i \in done \ Ephemeral /\ ~state[i].gone       -> Tombstone(state[i])
                        [] OTHER                                           -> state[i]]
    BY <1>2 DEF AbortsAtVanished
  <2>2. PICK done :
          state' = [i \in Ids |->
                      CASE i \in Published(r)                              -> Sighted(state[i], r[i])
                        [] i \in done \ Ephemeral /\ ~state[i].gone       -> Tombstone(state[i])
                        [] OTHER                                           -> state[i]]
    BY <2>1
  <2>3. \A i \in Ids : /\ i \in Published(r) => Sighted(state[i], r[i]) \in Entry
                       /\ Tombstone(state[i]) \in Entry
    BY ReportFacts, SightedType, TombstoneType
  <2> QED
    BY <1>2, <2>2, <2>3 DEF AbortsAtVanished
<1>3. CASE AbortsAtPanel(p)
  <2>1. CASE \E r \in Reports(p) : \E u \in Unread(p, r), o \in WriteOutcome :
               /\ ~Absent(state[p]) /\ state[p].severity # OK
               /\ state' = [AfterChecks(p, r, u) EXCEPT ![p] = Sighted(@, OK)]
               /\ baseline' = [baseline EXCEPT ![p] = Published(r) \cup (Missing(p, r) \ Lapsed(p, r, u))]
               /\ polled' = polled \cup {p}
               /\ db' = Written(db, state', {}, Lapsed(p, r, u), o)
    <3>1. PICK r \in Reports(p) : \E u \in Unread(p, r), o \in WriteOutcome :
               /\ state' = [AfterChecks(p, r, u) EXCEPT ![p] = Sighted(@, OK)]
               /\ baseline' = [baseline EXCEPT ![p] = Published(r) \cup (Missing(p, r) \ Lapsed(p, r, u))]
               /\ polled' = polled \cup {p}
               /\ db' = Written(db, state', {}, Lapsed(p, r, u), o)
      BY <2>1
    <3>2. PICK u \in Unread(p, r), o \in WriteOutcome :
               /\ state' = [AfterChecks(p, r, u) EXCEPT ![p] = Sighted(@, OK)]
               /\ baseline' = [baseline EXCEPT ![p] = Published(r) \cup (Missing(p, r) \ Lapsed(p, r, u))]
               /\ polled' = polled \cup {p}
               /\ db' = Written(db, state', {}, Lapsed(p, r, u), o)
      BY <3>1
    <3>3. Published(r) \cup (Missing(p, r) \ Lapsed(p, r, u)) \in SUBSET Checks
      BY ReportFacts, VanishedFacts, IdsFacts
    <3>4. state' \in [Ids -> Entry]
      BY <3>2, AfterChecksType, SightedType, IdsFacts, SeverityFacts
    <3> QED
      BY <3>2, <3>3, <3>4, WrittenType
  <2>2. CASE /\ state[p].severity # CRITICAL
             /\ state' = [state EXCEPT ![p] = Sighted(@, CRITICAL)]
             /\ UNCHANGED <<baseline, polled, db>>
    BY <2>2, SightedType, IdsFacts DEF Severities
  <2> QED
    BY <1>3, <2>1, <2>2 DEF AbortsAtPanel
<1> QED
  BY <1>1, <1>2, <1>3

LEMMA DrainType ==
  ASSUME TypeOK, NEW force, Drain(force)
  PROVE  /\ state' \in [Ids -> Entry]
         /\ baseline' \in [Panels -> SUBSET Checks]
         /\ batch' \in Told
         /\ db' \in [Ids -> Row]
<1> DEFINE silent == Owed \ ToSend
<1>1. /\ News(MutedRecoveries \cup silent) \in Told
      /\ News(MutedRecoveries) \in Told
      /\ News(silent) \in Told
      /\ News(ToSend) \in Told
  BY NewsType, SettledSets DEF TypeOK
<1>2. PICK o1, o2 \in WriteOutcome :
        /\ state' = Marked(state, News(MutedRecoveries \cup silent), FALSE)
        /\ db' = MarkedRows(MarkedRows(db, state, News(MutedRecoveries), o1), state, News(silent), o2)
        /\ baseline' = Without(Paid(state, News(MutedRecoveries \cup silent)))
        /\ batch' = IF ToSend # {} /\ (force \/ ~waiting) THEN News(ToSend) ELSE NoBatch
  BY DEF Drain
<1>3. state' \in [Ids -> Entry]
  BY <1>1, <1>2, MarkedType DEF TypeOK
<1>4. db' \in [Ids -> Row]
  <2>1. MarkedRows(db, state, News(MutedRecoveries), o1) \in [Ids -> Row]
    BY <1>1, MarkedRowsType DEF TypeOK
  <2> QED
    BY <1>1, <1>2, <2>1, MarkedRowsType DEF TypeOK
<1>5. baseline' \in [Panels -> SUBSET Checks]
  BY <1>2 DEF Without, TypeOK
<1>6. batch' \in Told
  BY <1>1, <1>2, BlankTypes
<1> QED
  BY <1>3, <1>4, <1>5, <1>6

LEMMA HeardType ==
  ASSUME TypeOK, NEW got
  PROVE  HeardAfter(got) \in [Ids -> Severities \cup {None}]
BY DEF TypeOK, HeardAfter

LEMMA MemoryLostType ==
  ASSUME TypeOK, MemoryLost
  PROVE  /\ phase' = "down" /\ conf' \in Config /\ grace' \in BOOLEAN
         /\ state' \in [Ids -> Entry]
         /\ baseline' \in [Panels -> SUBSET Checks]
         /\ polled' \in SUBSET Panels
         /\ batch' \in Told
         /\ waiting' \in BOOLEAN
BY BlankTypes DEF MemoryLost, TypeOK
-----------------------------------------------------------------------------
LEMMA InitType == Init => TypeOK
<1> SUFFICES ASSUME Init PROVE TypeOK
  OBVIOUS
<1>1. conf \in Config
  BY InputsAssumption DEF Init
<1>2. mutes \in SUBSET Mutable /\ heard \in [Ids -> Severities \cup {None}]
  BY DEF Init
<1> QED
  BY <1>1, <1>2, BlankTypes DEF Init, TypeOK, Told

LEMMA NextType == TypeOK /\ [Next]_vars => TypeOK'
<1> SUFFICES ASSUME TypeOK, [Next]_vars PROVE TypeOK'
  OBVIOUS
<1>1. ASSUME NEW p \in Panels, PollSucceeds(p) PROVE TypeOK'
  <2>1. PICK r \in Reports(p) : \E u \in Unread(p, r), o \in WriteOutcome : IngestSuccess(p, r, u, o)
    BY <1>1 DEF PollSucceeds
  <2>2. PICK u \in Unread(p, r), o \in WriteOutcome : IngestSuccess(p, r, u, o)
    BY <2>1
  <2>3. u \in SUBSET Checks
    BY DEF Unread, ChecksOf
  <2> QED
    BY <1>1, <2>2, <2>3, IngestType DEF PollSucceeds, TypeOK
<1>2. ASSUME NEW p \in Panels, PollFails(p) PROVE TypeOK'
  BY <1>2, IngestType DEF PollFails, IngestFailure, TypeOK
<1>3. ASSUME NEW p \in Panels, PollAborts(p) PROVE TypeOK'
  BY <1>3, AbortType DEF PollAborts, TypeOK
<1>4. CASE WorkerDrains
  BY <1>4, DrainType DEF WorkerDrains, TypeOK, Told
<1>5. CASE DeliveryAccepted
  <2>1. batch \in Told
    BY DEF TypeOK, Told
  <2>2. state' \in [Ids -> Entry]
    BY <1>5, <2>1, MarkedType DEF DeliveryAccepted, TypeOK
  <2>3. db' \in [Ids -> Row]
    BY <1>5, <2>1, MarkedRowsType DEF DeliveryAccepted, TypeOK
  <2>4. baseline' \in [Panels -> SUBSET Checks]
    BY <1>5 DEF DeliveryAccepted, Without, TypeOK
  <2> QED
    BY <1>5, <2>2, <2>3, <2>4, HeardType, BlankTypes DEF DeliveryAccepted, TypeOK, Told
<1>6. CASE DeliveryFails
  BY <1>6, HeardType, BlankTypes DEF DeliveryFails, TypeOK, Told
<1>7. CASE RetryDue \/ GraceEnds
  BY <1>7 DEF RetryDue, GraceEnds, TypeOK
<1>8. ASSUME NEW i \in Mutable, Mute(i) \/ MuteEnds(i) PROVE TypeOK'
  BY <1>8 DEF Mute, MuteEnds, engineVars, TypeOK
<1>9. CASE Start
  <2>1. \A i \in Ids : NoEntry \in Entry /\ Restored(db[i]) \in Entry
    BY RestoredType, BlankTypes DEF TypeOK
  <2>2. state' \in [Ids -> Entry]
    BY <1>9, <2>1 DEF Start
  <2>3. db' \in [Ids -> Row]
    BY <1>9, <2>2, WrittenType DEF Start, TypeOK
  <2> QED
    BY <1>9, <2>2, <2>3, InputsAssumption DEF Start, TypeOK
<1>10. CASE Stop
  BY <1>10, HeardType, BlankTypes DEF Stop, TypeOK, Told
<1>11. CASE FinalDrain
  BY <1>11, DrainType DEF FinalDrain, TypeOK, Told
<1>12. CASE FinalTimeout
  BY <1>12, HeardType, BlankTypes DEF FinalTimeout, TypeOK, Told
<1>13. CASE Halt
  BY <1>13, MemoryLostType DEF Halt, TypeOK, Told
<1>14. CASE Crash
  BY <1>14, MemoryLostType, HeardType DEF Crash, TypeOK, Told
<1>15. CASE UNCHANGED vars
  BY <1>15 DEF vars, TypeOK
<1> QED
  BY <1>1, <1>2, <1>3, <1>4, <1>5, <1>6, <1>7, <1>8, <1>9, <1>10, <1>11, <1>12, <1>13, <1>14, <1>15
  DEF Next

\* Every variable keeps its type, with any disturbance and any number of
\* checks and collectors; in particular no transition label (`new') is ever
\* stored as a severity, neither in memory nor in the table.
THEOREM Typing == Spec => []TypeOK
<1> QED
  BY InitType, NextType, PTL DEF Spec
-----------------------------------------------------------------------------
(* Memory and table agree.  DurableDebts is not inductive: a COALESCE that *)
(* meets a stored value needs to know that an entry made anew had no row,  *)
(* so entries and rows of absent ids must be blank; while the process is   *)
(* down that has to be known of the table alone; and no answer may arrive  *)
(* then.                                                                   *)

Mirrors(table, st) ==
  \A i \in Ids : table[i] = [severity |-> st[i].severity, notified |-> st[i].notified]

Blanks(st) == \A i \in Ids : Absent(st[i]) => st[i] = NoEntry

Durable ==
  /\ Blanks(state)
  /\ phase # "down" => Mirrors(db, state)
  /\ phase = "down" => /\ \A i \in Ids : db[i].severity = "absent" => db[i] = NoRow
                       /\ ~Delivering

\* The severity cache can be written, and the event log does not raise.
Saving == "db" \notin Disturbances /\ "event" \notin Disturbances

LEMMA SavingOutcome ==
  ASSUME Saving, NEW o \in WriteOutcome
  PROVE  o = [save |-> TRUE, forget |-> TRUE] /\ o.save /\ o.forget
BY DEF Saving, WriteOutcome

\* Saving and forgetting what was touched makes the table mirror the new
\* state, when no saved entry lost a `notified' that the table still has.
LEMMA WrittenMirrors ==
  ASSUME NEW table \in [Ids -> Row], NEW old \in [Ids -> Entry], NEW new \in [Ids -> Entry],
         Mirrors(table, old),
         NEW rows, NEW gone, rows \cap gone = {}, NEW o, o.save, o.forget,
         \A i \in Ids : i \in rows /\ new[i].notified = None => old[i].notified = None,
         \A i \in Ids \ rows : i \in gone => new[i] = NoEntry,
         \A i \in Ids \ (rows \cup gone) : new[i].severity = old[i].severity /\ new[i].notified = old[i].notified
  PROVE  Mirrors(Written(table, new, rows, gone, o), new)
<1> SUFFICES ASSUME NEW i \in Ids
             PROVE  Written(table, new, rows, gone, o)[i] = [severity |-> new[i].severity, notified |-> new[i].notified]
  BY DEF Mirrors
<1>1. table[i] = [severity |-> old[i].severity, notified |-> old[i].notified]
  BY DEF Mirrors
<1>2. CASE i \in rows
  <2>1. Written(table, new, rows, gone, o)[i] = SavedRow(new[i], table[i])
    BY <1>2 DEF Written
  <2> QED
    BY <1>1, <1>2, <2>1 DEF SavedRow
<1>3. CASE i \in gone \ rows
  <2>1. Written(table, new, rows, gone, o)[i] = NoRow
    BY <1>3 DEF Written
  <2>2. new[i] = NoEntry
    BY <1>3
  <2> QED
    BY <2>1, <2>2 DEF NoRow, NoEntry
<1>4. CASE i \notin rows /\ i \notin gone
  <2>1. Written(table, new, rows, gone, o)[i] = table[i]
    BY <1>4 DEF Written
  <2> QED
    BY <1>1, <1>4, <2>1
<1> QED
  BY <1>2, <1>3, <1>4

LEMMA SightedBlanks ==
  ASSUME NEW e \in Entry, Absent(e) => e = NoEntry, NEW s \in Severities
  PROVE  /\ ~Absent(Sighted(e, s))
         /\ Sighted(e, s).notified = None => e.notified = None
BY SeverityFacts DEF Sighted, Absent, NoEntry, Entry

LEMMA TombstoneBlanks ==
  ASSUME NEW e \in Entry
  PROVE  ~Absent(Tombstone(e)) /\ Tombstone(e).notified = e.notified
BY SeverityFacts DEF Tombstone, Absent, Entry

LEMMA AfterChecksBlanks ==
  ASSUME TypeOK, Blanks(state), NEW p \in Panels, NEW r \in Reports(p), NEW u
  PROVE  /\ Blanks(AfterChecks(p, r, u))
         /\ \A i \in Published(r) \cup Entombed(p, r, u) :
              AfterChecks(p, r, u)[i].notified = None => state[i].notified = None
         /\ \A i \in Lapsed(p, r, u) : AfterChecks(p, r, u)[i] = NoEntry
         /\ \A i \in Ids \ (Published(r) \cup Entombed(p, r, u) \cup Lapsed(p, r, u)) :
              AfterChecks(p, r, u)[i] = state[i]
<1> DEFINE after == AfterChecks(p, r, u)
<1>1. /\ Published(r) \subseteq Ids /\ Lapsed(p, r, u) \subseteq Ids /\ Entombed(p, r, u) \subseteq Ids
      /\ Published(r) \cap Lapsed(p, r, u) = {} /\ Published(r) \cap Entombed(p, r, u) = {}
      /\ Lapsed(p, r, u) \cap Entombed(p, r, u) = {}
  BY VanishedFacts, ReportFacts, IdsFacts DEF TypeOK
<1>2. ASSUME NEW i \in Published(r)
      PROVE  after[i] = Sighted(state[i], r[i])
  BY <1>1 DEF AfterChecks
<1>3. ASSUME NEW i \in Lapsed(p, r, u)
      PROVE  after[i] = NoEntry
  BY <1>1 DEF AfterChecks
<1>4. ASSUME NEW i \in Entombed(p, r, u)
      PROVE  after[i] = Tombstone(state[i])
  BY <1>1 DEF AfterChecks
<1>5. ASSUME NEW i \in Ids \ (Published(r) \cup Entombed(p, r, u) \cup Lapsed(p, r, u))
      PROVE  after[i] = state[i]
  BY DEF AfterChecks
<1>6. ASSUME NEW i \in Published(r)
      PROVE  ~Absent(after[i]) /\ (after[i].notified = None => state[i].notified = None)
  <2>1. r[i] \in Severities /\ i \in Ids
    BY <1>1, ReportFacts
  <2> QED
    BY <1>2, <2>1, SightedBlanks DEF TypeOK, Blanks
<1>7. ASSUME NEW i \in Entombed(p, r, u)
      PROVE  ~Absent(after[i]) /\ after[i].notified = state[i].notified
  BY <1>1, <1>4, TombstoneBlanks DEF TypeOK
<1>8. Blanks(after)
  BY <1>3, <1>5, <1>6, <1>7 DEF Blanks
<1> QED
  BY <1>3, <1>5, <1>6, <1>7, <1>8

LEMMA IngestDurable ==
  ASSUME TypeOK, Durable, phase = "up", phase' = "up", NEW p \in Panels, NEW r \in Reports(p),
         NEW u \in SUBSET Checks, NEW o, o.save, o.forget, IngestSuccess(p, r, u, o)
  PROVE  Durable'
<1> DEFINE checked == AfterChecks(p, r, u)
           after   == [checked EXCEPT ![p] = Sighted(@, OK)]
           rows    == Published(r) \cup Entombed(p, r, u) \cup {p}
           gone    == Lapsed(p, r, u)
<1>1. checked \in [Ids -> Entry] /\ p \in Ids /\ p \notin Checks /\ OK \in Severities
  BY AfterChecksType, IdsFacts, SeverityFacts DEF TypeOK
<1>2. p \notin Published(r) \cup Entombed(p, r, u) \cup Lapsed(p, r, u)
  BY <1>1, VanishedFacts, ReportFacts, IdsFacts DEF TypeOK
<1>3. /\ Blanks(checked)
      /\ \A i \in Published(r) \cup Entombed(p, r, u) : checked[i].notified = None => state[i].notified = None
      /\ \A i \in gone : checked[i] = NoEntry
      /\ \A i \in Ids \ (Published(r) \cup Entombed(p, r, u) \cup gone) : checked[i] = state[i]
  BY AfterChecksBlanks DEF Durable
<1>4. /\ after \in [Ids -> Entry]
      /\ after[p] = Sighted(state[p], OK)
      /\ \A i \in Ids \ {p} : after[i] = checked[i]
  <2>1. Sighted(checked[p], OK) \in Entry
    BY <1>1, SightedType
  <2> QED
    BY <1>1, <1>2, <1>3, <2>1
<1>5. ~Absent(after[p]) /\ (after[p].notified = None => state[p].notified = None)
  BY <1>1, <1>4, SightedBlanks DEF TypeOK, Durable, Blanks
<1>6. Blanks(after)
  BY <1>3, <1>4, <1>5 DEF Blanks
<1>7. Mirrors(Written(db, after, rows, gone, o), after)
  <2>1. \A i \in Ids : i \in rows /\ after[i].notified = None => state[i].notified = None
    BY <1>3, <1>4, <1>5
  <2>2. \A i \in Ids \ rows : i \in gone => after[i] = NoEntry
    BY <1>3, <1>4
  <2>3. \A i \in Ids \ (rows \cup gone) : after[i] = state[i]
    BY <1>3, <1>4
  <2>4. db \in [Ids -> Row] /\ state \in [Ids -> Entry] /\ Mirrors(db, state)
    BY DEF TypeOK, Durable
  <2>5. rows \cap gone = {}
    BY <1>2, VanishedFacts DEF TypeOK
  <2>6. after \in [Ids -> Entry]
    BY <1>4
  <2> HIDE DEF after, rows, gone
  <2> QED
    BY <2>1, <2>2, <2>3, <2>4, <2>5, <2>6, WrittenMirrors
<1>8. state' = after /\ db' = Written(db, after, rows, gone, o)
  BY DEF IngestSuccess
<1> QED
  BY <1>6, <1>7, <1>8 DEF Durable

\* What _mark_notified makes of one entry: it is dropped, marked, or left.
LEMMA MarkedIds ==
  ASSUME NEW st, NEW told, NEW i \in Ids
  PROVE  /\ i \in Paid(st, told) => i \notin Rows(st, told)
         /\ i \in Paid(st, told) \cup Rows(st, told) <=> ~Absent(st[i]) /\ told[i] # None
BY DEF Paid, Rows, Known

LEMMA MarkedPaid ==
  ASSUME NEW st, NEW told, NEW sent \in BOOLEAN, NEW i \in Ids, i \in Paid(st, told)
  PROVE  Marked(st, told, sent)[i] = NoEntry
BY DEF Marked, Paid, Known

LEMMA MarkedKept ==
  ASSUME NEW st \in [Ids -> Entry], NEW told, NEW sent \in BOOLEAN, NEW i \in Ids, i \in Rows(st, told)
  PROVE  /\ Marked(st, told, sent)[i].severity = st[i].severity
         /\ Marked(st, told, sent)[i].notified = told[i]
         /\ Marked(st, told, sent)[i].gone = st[i].gone
BY DEF Marked, Rows, Paid, Known, Entry

LEMMA MarkedOther ==
  ASSUME NEW st, NEW told, NEW sent \in BOOLEAN, NEW i \in Ids, i \notin Paid(st, told), i \notin Rows(st, told)
  PROVE  Marked(st, told, sent)[i] = st[i]
BY DEF Marked, Rows, Paid, Known

\* And of its row.
LEMMA RowsWritten ==
  ASSUME NEW table, NEW st, NEW told, Saving, NEW o \in WriteOutcome, NEW i \in Ids
  PROVE  MarkedRows(table, st, told, o)[i]
           = CASE i \in Rows(st, told) -> SavedRow(Marked(st, told, FALSE)[i], table[i])
               [] i \in Paid(st, told) -> NoRow
               [] OTHER                -> table[i]
<1> DEFINE o2 == [o EXCEPT !.forget = @ /\ (o.save \/ Rows(st, told) = {})]
<1>1. o2.save /\ o2.forget
  BY SavingOutcome
<1>2. MarkedRows(table, st, told, o)
        = Written(table, Marked(st, told, FALSE), Rows(st, told), Paid(st, told), o2)
  BY DEF MarkedRows
<1> HIDE DEF o2
<1> QED
  BY <1>1, <1>2 DEF Written

LEMMA RowPaid ==
  ASSUME NEW table, NEW st, NEW told, Saving, NEW o \in WriteOutcome, NEW i \in Ids, i \in Paid(st, told)
  PROVE  MarkedRows(table, st, told, o)[i] = NoRow
<1>1. MarkedRows(table, st, told, o)[i]
        = CASE i \in Rows(st, told) -> SavedRow(Marked(st, told, FALSE)[i], table[i])
            [] i \in Paid(st, told) -> NoRow
            [] OTHER                -> table[i]
  BY RowsWritten
<1>2. i \notin Rows(st, told)
  BY DEF Rows
<1> QED
  BY <1>1, <1>2

LEMMA RowKept ==
  ASSUME NEW table \in [Ids -> Row], NEW st \in [Ids -> Entry], NEW told,
         Saving, NEW o \in WriteOutcome, NEW i \in Ids, i \in Rows(st, told)
  PROVE  MarkedRows(table, st, told, o)[i] = [severity |-> st[i].severity, notified |-> told[i]]
<1> DEFINE e == Marked(st, told, FALSE)[i]
<1>1. i \notin Paid(st, told) /\ told[i] # None
  BY DEF Rows
<1>2. MarkedRows(table, st, told, o)[i] = SavedRow(e, table[i])
  BY <1>1, RowsWritten
<1>3. e.severity = st[i].severity
  BY MarkedKept
<1>4. e.notified = told[i]
  BY MarkedKept
<1> HIDE DEF e
<1> QED
  BY <1>1, <1>2, <1>3, <1>4 DEF SavedRow

LEMMA RowOther ==
  ASSUME NEW table, NEW st, NEW told, Saving, NEW o \in WriteOutcome,
         NEW i \in Ids, i \notin Paid(st, told), i \notin Rows(st, told)
  PROVE  MarkedRows(table, st, told, o)[i] = table[i]
BY RowsWritten

LEMMA MarkedMirrors ==
  ASSUME NEW table \in [Ids -> Row], NEW st \in [Ids -> Entry], NEW told \in Told, NEW sent \in BOOLEAN,
         Saving, NEW o \in WriteOutcome, Mirrors(table, st), Blanks(st)
  PROVE  Mirrors(MarkedRows(table, st, told, o), Marked(st, told, sent)) /\ Blanks(Marked(st, told, sent))
<1> DEFINE new == Marked(st, told, sent)
           row == MarkedRows(table, st, told, o)
<1> SUFFICES ASSUME NEW i \in Ids
             PROVE  /\ row[i] = [severity |-> new[i].severity, notified |-> new[i].notified]
                    /\ Absent(new[i]) => new[i] = NoEntry
  BY DEF Mirrors, Blanks
<1>1. CASE i \in Paid(st, told)
  <2>1. row[i] = NoRow
    BY <1>1, RowPaid
  <2>2. new[i] = NoEntry
    BY <1>1, MarkedPaid
  <2> HIDE DEF row, new
  <2> QED
    BY <2>1, <2>2 DEF NoRow, NoEntry
<1>2. CASE i \in Rows(st, told)
  <2>1. row[i] = [severity |-> st[i].severity, notified |-> told[i]]
    BY <1>2, RowKept
  <2>2. new[i].severity = st[i].severity
    BY <1>2, MarkedKept
  <2>4. new[i].notified = told[i]
    BY <1>2, MarkedKept
  <2>3. ~Absent(st[i])
    BY <1>2 DEF Rows, Known
  <2> HIDE DEF row, new
  <2> QED
    BY <2>1, <2>2, <2>3, <2>4 DEF Absent
<1>3. CASE i \notin Paid(st, told) \cup Rows(st, told)
  <2>1. row[i] = table[i]
    BY <1>3, RowOther
  <2>2. new[i] = st[i]
    BY <1>3, MarkedOther
  <2> HIDE DEF row, new
  <2> QED
    BY <2>1, <2>2 DEF Mirrors, Blanks
<1> QED
  BY <1>1, <1>2, <1>3

\* The row of an id depends on no other id, and on no other write's outcome.
LEMMA SameRow ==
  ASSUME NEW table1 \in [Ids -> Row], NEW table2 \in [Ids -> Row], NEW st \in [Ids -> Entry],
         NEW told1, NEW told2, Saving, NEW o1 \in WriteOutcome, NEW o2 \in WriteOutcome,
         NEW i \in Ids, table1[i] = table2[i], told1[i] = told2[i],
         i \in Paid(st, told1) <=> i \in Paid(st, told2),
         i \in Rows(st, told1) <=> i \in Rows(st, told2)
  PROVE  MarkedRows(table1, st, told1, o1)[i] = MarkedRows(table2, st, told2, o2)[i]
<1>1. CASE i \in Paid(st, told1)
  BY <1>1, RowPaid
<1>2. CASE i \in Rows(st, told1)
  <2>1. MarkedRows(table1, st, told1, o1)[i] = [severity |-> st[i].severity, notified |-> told1[i]]
    BY <1>2, RowKept
  <2>2. MarkedRows(table2, st, told2, o2)[i] = [severity |-> st[i].severity, notified |-> told2[i]]
    BY <1>2, RowKept
  <2> QED
    BY <2>1, <2>2
<1>3. CASE i \notin Paid(st, told1) /\ i \notin Rows(st, told1)
  <2>1. MarkedRows(table1, st, told1, o1)[i] = table1[i]
    BY <1>3, RowOther
  <2>2. MarkedRows(table2, st, told2, o2)[i] = table2[i]
    BY <1>3, RowOther
  <2> QED
    BY <2>1, <2>2
<1> QED
  BY <1>1, <1>2, <1>3

\* Two settlements one after the other, of ids that are not in both, are one.
LEMMA DrainDurable ==
  ASSUME TypeOK, Durable, Saving, phase # "down", phase' # "down", NEW force, Drain(force)
  PROVE  Durable'
<1> DEFINE silent == Owed \ ToSend
           first  == News(MutedRecoveries)
           second == News(silent)
           both   == News(MutedRecoveries \cup silent)
<1>1. first \in Told /\ second \in Told /\ both \in Told
  BY NewsType, SettledSets DEF TypeOK
<1>2. PICK o1, o2 \in WriteOutcome :
        /\ state' = Marked(state, both, FALSE)
        /\ db' = MarkedRows(MarkedRows(db, state, first, o1), state, second, o2)
  BY DEF Drain
<1>4. \A i \in Ids : /\ first[i] # None => second[i] = None /\ both[i] = first[i]
                     /\ first[i] = None => both[i] = second[i]
  <2>1. MutedRecoveries \cap silent = {}
    BY DEF MutedRecoveries, Owed
  <2> QED
    BY <2>1 DEF News
<1>5. state \in [Ids -> Entry] /\ db \in [Ids -> Row] /\ Mirrors(db, state) /\ Blanks(state)
  BY DEF TypeOK, Durable
<1>6. MarkedRows(db, state, first, o1) \in [Ids -> Row]
  BY <1>1, <1>5, MarkedRowsType
<1> HIDE DEF silent, first, second, both
<1>7. \A i \in Ids : db'[i] = MarkedRows(db, state, both, o1)[i]
  <2> TAKE i \in Ids
  <2>1. CASE first[i] # None
    <3>1. i \notin Paid(state, second) /\ i \notin Rows(state, second)
      BY <1>4, <2>1 DEF Paid, Rows
    <3>2. db'[i] = MarkedRows(db, state, first, o1)[i]
      BY <1>2, <3>1, RowOther
    <3>3. /\ i \in Paid(state, first) <=> i \in Paid(state, both)
          /\ i \in Rows(state, first) <=> i \in Rows(state, both)
          /\ both[i] = first[i]
      BY <1>4, <2>1 DEF Paid, Rows
    <3> QED
      BY <1>5, <3>2, <3>3, SameRow
  <2>2. CASE first[i] = None
    <3>1. i \notin Paid(state, first) /\ i \notin Rows(state, first)
      BY <2>2 DEF Paid, Rows
    <3>2. MarkedRows(db, state, first, o1)[i] = db[i]
      BY <3>1, RowOther
    <3>3. /\ i \in Paid(state, second) <=> i \in Paid(state, both)
          /\ i \in Rows(state, second) <=> i \in Rows(state, both)
          /\ both[i] = second[i]
      BY <1>4, <2>2 DEF Paid, Rows
    <3> QED
      BY <1>2, <1>5, <1>6, <3>2, <3>3, SameRow
  <2> QED
    BY <2>1, <2>2
<1>8. Mirrors(MarkedRows(db, state, both, o1), state') /\ Blanks(state')
  BY <1>1, <1>2, <1>5, MarkedMirrors
<1> QED
  BY <1>7, <1>8 DEF Durable, Mirrors

LEMMA FailureDurable ==
  ASSUME TypeOK, Durable, phase = "up", phase' = "up", NEW p \in Panels,
         NEW o, o.save, o.forget, IngestFailure(p, o)
  PROVE  Durable'
<1> DEFINE after == [state EXCEPT ![p] = Sighted(@, CRITICAL)]
<1>1. p \in Ids /\ CRITICAL \in Severities
  BY IdsFacts DEF Severities
<1>2. /\ state \in [Ids -> Entry] /\ db \in [Ids -> Row]
      /\ Mirrors(db, state) /\ Blanks(state)
  BY DEF TypeOK, Durable
<1>3. Sighted(state[p], CRITICAL) \in Entry
  BY <1>1, <1>2, SightedType
<1>4. /\ after \in [Ids -> Entry]
      /\ after[p] = Sighted(state[p], CRITICAL)
      /\ \A i \in Ids \ {p} : after[i] = state[i]
  BY <1>1, <1>2, <1>3
<1>5. ~Absent(after[p]) /\ (after[p].notified = None => state[p].notified = None)
  BY <1>1, <1>2, <1>4, SightedBlanks DEF Blanks
<1>6. state' = after /\ db' = Written(db, after, {p}, {}, o)
  BY DEF IngestFailure
<1> HIDE DEF after
<1>7. Blanks(after)
  BY <1>2, <1>4, <1>5 DEF Blanks
<1>8. Mirrors(Written(db, after, {p}, {}, o), after)
  <2>1. \A i \in Ids : i \in {p} /\ after[i].notified = None => state[i].notified = None
    BY <1>5
  <2>2. \A i \in Ids \ {p} : i \in {} => after[i] = NoEntry
    OBVIOUS
  <2>3. \A i \in Ids \ ({p} \cup {}) : after[i].severity = state[i].severity /\ after[i].notified = state[i].notified
    BY <1>4
  <2>4. {p} \cap {} = {}
    OBVIOUS
  <2> QED
    BY <1>2, <1>4, <2>1, <2>2, <2>3, <2>4, WrittenMirrors
<1> QED
  BY <1>6, <1>7, <1>8 DEF Durable

LEMMA AcceptedDurable ==
  ASSUME TypeOK, Durable, Saving, DeliveryAccepted
  PROVE  Durable'
<1>1. PICK o \in WriteOutcome : db' = MarkedRows(db, state, batch, o)
  BY DEF DeliveryAccepted
<1>2. state' = Marked(state, batch, TRUE) /\ phase' = phase
  BY DEF DeliveryAccepted
<1>3. batch \in Told
  BY DEF TypeOK, Told
<1>4. phase # "down"
  BY DEF DeliveryAccepted, Durable
<1>5. /\ Mirrors(MarkedRows(db, state, batch, o), Marked(state, batch, TRUE))
      /\ Blanks(Marked(state, batch, TRUE))
  BY <1>3, <1>4, MarkedMirrors DEF TypeOK, Durable
<1> QED
  BY <1>1, <1>2, <1>4, <1>5 DEF Durable

LEMMA RestoredBlank == Restored(NoRow) = NoEntry
<1> DEFINE e == Restored(NoRow)
<1>1. e \in Entry
  BY BlankTypes, RestoredType
<1>2. e.severity = "absent" /\ e.notified = None /\ e.gone = FALSE /\ e.delivered = FALSE
  BY DEF Restored, NoRow, NoEntry
<1>3. e = [severity |-> e.severity, notified |-> e.notified, gone |-> e.gone, delivered |-> e.delivered]
  <2> HIDE DEF e
  <2> QED
    BY <1>1 DEF Entry
<1> HIDE DEF e
<1>4. e = NoEntry
  BY <1>2, <1>3 DEF NoEntry
<1> QED
  BY <1>4 DEF e

LEMMA StartDurable ==
  ASSUME TypeOK, Durable, Saving, Start
  PROVE  Durable'
<1> DEFINE fresh(i) == IF i \in Retired(conf') THEN NoEntry ELSE Restored(db[i])
           after    == [i \in Ids |-> fresh(i)]
<1>1. PICK o \in WriteOutcome : state' = after /\ db' = Written(db, after, {}, Retired(conf'), o)
  BY DEF Start, Saving
<1>2. o.save /\ o.forget
  BY SavingOutcome
<1>3. \A i \in Ids : db[i] \in Row
  BY DEF TypeOK
<1>9. \A i \in Ids : db[i].severity = "absent" => db[i] = NoRow
  BY DEF Durable, Start
<1>4. \A i \in Ids : Restored(db[i]).severity = db[i].severity /\ Restored(db[i]).notified = db[i].notified
  BY DEF Restored, NoEntry
<1>5. \A i \in Ids : db[i] = NoRow => Restored(db[i]) = NoEntry
  BY RestoredBlank
<1>6. Blanks(after)
  BY <1>4, <1>5, <1>9 DEF Blanks, Absent
<1>7. ASSUME NEW i \in Ids
      PROVE  db'[i] = [severity |-> after[i].severity, notified |-> after[i].notified]
  <2>1. CASE i \in Retired(conf')
    <3>1. db'[i] = NoRow /\ after[i] = NoEntry
      BY <1>1, <1>2, <2>1 DEF Written
    <3> HIDE DEF after
    <3> QED
      BY <3>1 DEF NoRow, NoEntry
  <2>2. CASE i \notin Retired(conf')
    <3>1. db'[i] = db[i] /\ after[i] = Restored(db[i])
      BY <1>1, <2>2 DEF Written
    <3>2. db[i] = [severity |-> db[i].severity, notified |-> db[i].notified]
      BY <1>3 DEF Row
    <3> HIDE DEF after
    <3> QED
      BY <1>4, <3>1, <3>2
  <2> QED
    BY <2>1, <2>2
<1>8. phase' = "up"
  BY DEF Start
<1> HIDE DEF after
<1> QED
  BY <1>1, <1>6, <1>7, <1>8 DEF Durable, Mirrors

\* When the process goes down, what the table holds is what memory held.
LEMMA DownDurable ==
  ASSUME TypeOK, Durable, phase # "down", MemoryLost, db' = db
  PROVE  Durable'
<1>1. ASSUME NEW i \in Ids, db[i].severity = "absent"
      PROVE  db[i] = NoRow
  <2>1. db[i] = [severity |-> state[i].severity, notified |-> state[i].notified]
    BY DEF Durable, Mirrors
  <2>2. state[i] = NoEntry
    BY <1>1, <2>1 DEF Durable, Blanks, Absent
  <2> QED
    BY <2>1, <2>2 DEF NoEntry, NoRow
<1>2. Blanks(state')
  BY DEF MemoryLost, Blanks
<1> QED
  BY <1>1, <1>2 DEF Durable, MemoryLost, Delivering

LEMMA InitDurable == Init => Durable
BY DEF Init, Durable, Blanks, NoRow, NoEntry, Absent, Delivering

LEMMA NextDurable ==
  ASSUME Saving, TypeOK, Durable, [Next]_vars
  PROVE  Durable'
<1>1. ASSUME NEW p \in Panels, PollSucceeds(p) PROVE Durable'
  <2>1. PICK r \in Reports(p) : \E u \in Unread(p, r), o \in WriteOutcome : IngestSuccess(p, r, u, o)
    BY <1>1 DEF PollSucceeds
  <2>2. PICK u \in Unread(p, r), o \in WriteOutcome : IngestSuccess(p, r, u, o)
    BY <2>1
  <2>3. u \in SUBSET Checks /\ o.save /\ o.forget
    BY SavingOutcome DEF Unread, ChecksOf
  <2>4. phase = "up" /\ phase' = "up"
    BY <1>1 DEF PollSucceeds
  <2> QED
    BY <2>2, <2>3, <2>4, IngestDurable
<1>2. ASSUME NEW p \in Panels, PollFails(p) PROVE Durable'
  <2>1. PICK o \in WriteOutcome : IngestFailure(p, o)
    BY <1>2 DEF PollFails
  <2> QED
    BY <1>2, <2>1, SavingOutcome, FailureDurable DEF PollFails
<1>3. ASSUME NEW p \in Panels, PollAborts(p) PROVE Durable'
  BY <1>3 DEF PollAborts, Saving
<1>4. CASE WorkerDrains
  BY <1>4, DrainDurable DEF WorkerDrains
<1>5. CASE DeliveryAccepted
  BY <1>5, AcceptedDurable
<1>6. CASE DeliveryFails \/ RetryDue \/ GraceEnds \/ FinalTimeout \/ UNCHANGED vars
  BY <1>6 DEF DeliveryFails, RetryDue, GraceEnds, FinalTimeout, vars, Durable, Delivering
<1>7. ASSUME NEW i \in Mutable, Mute(i) \/ MuteEnds(i) PROVE Durable'
  BY <1>7 DEF Mute, MuteEnds, engineVars, Durable, Delivering
<1>8. CASE Start
  BY <1>8, StartDurable
<1>9. CASE Stop
  BY <1>9 DEF Stop, Durable
<1>10. CASE FinalDrain
  BY <1>10, DrainDurable DEF FinalDrain
<1>11. CASE Halt \/ Crash
  BY <1>11, DownDurable DEF Halt, Crash
<1> QED
  BY <1>1, <1>2, <1>3, <1>4, <1>5, <1>6, <1>7, <1>8, <1>9, <1>10, <1>11 DEF Next

\* While the severity cache can be written, nothing that a kill at any moment
\* destroys is missing from the database: neither what is observed of any
\* check nor what it is notified at, so neither is any debt.
THEOREM DebtsAreDurable == Saving /\ Spec => []DurableDebts
<1>1. Durable => DurableDebts
  BY DEF Durable, DurableDebts, Mirrors
<1>2. CASE Saving
  <2>1. TypeOK /\ Durable /\ [Next]_vars => (TypeOK /\ Durable)'
    BY <1>2, NextType, NextDurable
  <2> QED
    BY <1>1, <2>1, InitType, InitDurable, PTL DEF Spec
<1>3. CASE ~Saving
  BY <1>3
<1> QED
  BY <1>2, <1>3
-----------------------------------------------------------------------------
(* Tombstones and baselines.  Each of TombstonesOwe and BaselineComplete   *)
(* needs the other: that a tombstone is met again by the next poll rests   *)
(* on its baseline, and that a settled one leaves both rests on `gone'.    *)

Books ==
  /\ TombstonesOwe
  /\ BaselineComplete
  /\ \A i \in Ids : batch[i] # UNKNOWN
  /\ phase = "down" => polled = {}

LEMMA SightedGone ==
  ASSUME NEW e \in Entry, NEW s \in Severities
  PROVE  Sighted(e, s).gone = FALSE /\ Sighted(e, s).severity = s
BY BlankTypes DEF Sighted, NoEntry, Entry

\* What a poll publishes and what it lacks are checks of that panel; before
\* the poll the panel's baseline, or what was restored, is all that is known.
LEMMA PollSets ==
  ASSUME TypeOK, BaselineComplete, NEW p \in Panels, NEW r \in Reports(p), NEW u
  PROVE  /\ Missing(p, r) = (ChecksOf(p) \cap Known(state)) \ Published(r)
         /\ Published(r) \subseteq ChecksOf(p)
         /\ Lapsed(p, r, u) \subseteq Missing(p, r)
         /\ Entombed(p, r, u) \subseteq Missing(p, r) \ Lapsed(p, r, u)
<1>1. Before(p, state) = ChecksOf(p) \cap Known(state)
  BY DEF Before, BaselineComplete
<1>2. Missing(p, r) = (ChecksOf(p) \cap Known(state)) \ Published(r)
  BY <1>1 DEF Missing, Known
<1>3. Lapsed(p, r, u) \subseteq Missing(p, r) /\ Entombed(p, r, u) \subseteq Missing(p, r) \ Lapsed(p, r, u)
  BY VanishedFacts DEF TypeOK
<1> QED
  BY <1>2, <1>3, ReportFacts

LEMMA AfterIngest ==
  ASSUME TypeOK, BaselineComplete, NEW p \in Panels, NEW r \in Reports(p), NEW u, NEW o,
         IngestSuccess(p, r, u, o)
  PROVE  /\ state'[p] = Sighted(state[p], OK)
         /\ \A i \in Published(r) : state'[i] = Sighted(state[i], r[i])
         /\ \A i \in Lapsed(p, r, u) : state'[i] = NoEntry
         /\ \A i \in Entombed(p, r, u) : state'[i] = Tombstone(state[i])
         /\ \A i \in Ids : /\ i # p
                           /\ i \notin Published(r) \cup Lapsed(p, r, u) \cup Entombed(p, r, u)
                           => state'[i] = state[i]
<1> DEFINE checked == AfterChecks(p, r, u)
<1>1. /\ Published(r) \subseteq Ids \ {p} /\ Lapsed(p, r, u) \subseteq Ids \ {p}
      /\ Entombed(p, r, u) \subseteq Ids \ {p} /\ p \in Ids
      /\ Lapsed(p, r, u) \cap Published(r) = {}
      /\ Entombed(p, r, u) \cap (Published(r) \cup Lapsed(p, r, u)) = {}
  BY PollSets, IdsFacts DEF ChecksOf
<1>2. state' = [checked EXCEPT ![p] = Sighted(checked[p], OK)]
  BY DEF IngestSuccess
<1>3. checked = [i \in Ids |-> CASE i \in Published(r)       -> Sighted(state[i], r[i])
                                 [] i \in Lapsed(p, r, u)    -> NoEntry
                                 [] i \in Entombed(p, r, u)  -> Tombstone(state[i])
                                 [] OTHER                    -> state[i]]
  BY DEF AfterChecks
<1>4. state'[p] = Sighted(checked[p], OK) /\ \A i \in Ids \ {p} : state'[i] = checked[i]
  <2> HIDE DEF checked
  <2> QED
    BY <1>1, <1>2, <1>3
<1>5. checked[p] = state[p]
  BY <1>1, <1>3
<1>6. \A i \in Published(r) : checked[i] = Sighted(state[i], r[i])
  BY <1>1, <1>3
<1>7. \A i \in Lapsed(p, r, u) : checked[i] = NoEntry
  BY <1>1, <1>3
<1>8. \A i \in Entombed(p, r, u) : checked[i] = Tombstone(state[i])
  BY <1>1, <1>3
<1>9. \A i \in Ids : i \notin Published(r) \cup Lapsed(p, r, u) \cup Entombed(p, r, u) => checked[i] = state[i]
  BY <1>3
<1> HIDE DEF checked
<1> QED
  BY <1>1, <1>4, <1>5, <1>6, <1>7, <1>8, <1>9

LEMMA IngestBooks ==
  ASSUME TypeOK, Books, phase' = "up", batch' = batch, NEW p \in Panels, NEW r \in Reports(p), NEW u, NEW o,
         IngestSuccess(p, r, u, o)
  PROVE  Books'
<1>1. /\ baseline' = [baseline EXCEPT ![p] = Published(r) \cup (Missing(p, r) \ Lapsed(p, r, u))]
      /\ polled' = polled \cup {p}
  BY DEF IngestSuccess
<1>2. /\ baseline'[p] = Published(r) \cup (Missing(p, r) \ Lapsed(p, r, u))
      /\ \A q \in Panels \ {p} : baseline'[q] = baseline[q]
  BY <1>1 DEF TypeOK
<1>3. /\ Missing(p, r) = (ChecksOf(p) \cap Known(state)) \ Published(r)
      /\ Published(r) \subseteq ChecksOf(p)
      /\ Lapsed(p, r, u) \subseteq Missing(p, r)
      /\ Entombed(p, r, u) \subseteq Missing(p, r) \ Lapsed(p, r, u)
  BY PollSets DEF Books
<1>4. p \in Ids /\ state[p] \in Entry /\ state'[p] = Sighted(state[p], OK)
  BY AfterIngest, IdsFacts DEF Books, TypeOK
<1>5. ASSUME NEW i \in Published(r)
      PROVE  i \in Ids /\ ~state'[i].gone /\ ~Absent(state'[i])
  <2>1. state'[i] = Sighted(state[i], r[i])
    BY AfterIngest DEF Books
  <2>2. i \in Ids /\ r[i] \in Severities /\ state[i] \in Entry
    BY <1>3, ReportFacts, IdsFacts DEF TypeOK
  <2>3. Sighted(state[i], r[i]).gone = FALSE
    BY <2>2, SightedGone
  <2>4. Sighted(state[i], r[i]).severity \in Severities
    BY <2>2, SightedGone
  <2> QED
    BY <2>1, <2>2, <2>3, <2>4, SeverityFacts DEF Absent
<1>6. ASSUME NEW i \in Lapsed(p, r, u)
      PROVE  ~state'[i].gone /\ Absent(state'[i])
  BY AfterIngest DEF Books, NoEntry, Absent
<1>7. ASSUME NEW i \in Entombed(p, r, u)
      PROVE  /\ i \in Ids /\ state'[i].severity = OK /\ ~Absent(state'[i])
             /\ state'[i].notified = state[i].notified /\ state[i].notified \in BAD
  <2>1. state'[i] = Tombstone(state[i])
    BY AfterIngest DEF Books
  <2>2. i \in Ids /\ state[i] \in Entry
    BY <1>3, IdsFacts DEF TypeOK
  <2>3. state[i].notified \in BAD
    BY DEF Entombed, Lapsed, Lapses
  <2> QED
    BY <2>1, <2>2, <2>3, SeverityFacts DEF Tombstone, Entry, Absent
<1>8. ASSUME NEW i \in Ids, i # p, i \notin Published(r) \cup Lapsed(p, r, u) \cup Entombed(p, r, u)
      PROVE  state'[i] = state[i]
  BY <1>8, AfterIngest DEF Books
<1>9. ~state'[p].gone
  BY <1>4, SightedGone, SeverityFacts
<1>10. \A c \in ChecksOf(p) : c \in Ids /\ c # p /\ Owner(c) = p
  BY IdsFacts DEF ChecksOf, Owner
<1>11. TombstonesOwe'
  <2> SUFFICES ASSUME NEW i \in Ids, state'[i].gone
               PROVE  /\ state'[i].severity = OK
                      /\ state'[i].notified \in BAD
                      /\ Owner(i) \in polled' /\ i \in baseline'[Owner(i)]
    BY DEF TombstonesOwe
  <2>1. CASE i \in Entombed(p, r, u)
    BY <1>1, <1>2, <1>3, <1>7, <1>10, <2>1
  <2>2. CASE i \notin Entombed(p, r, u)
    <3>1. state'[i] = state[i]
      BY <1>5, <1>6, <1>8, <1>9, <2>2
    <3>2. /\ state[i].severity = OK /\ state[i].notified \in BAD
          /\ Owner(i) \in polled /\ i \in baseline[Owner(i)]
      BY <3>1 DEF Books, TombstonesOwe
    <3>3. CASE Owner(i) # p
      BY <1>1, <1>2, <3>1, <3>2, <3>3, IdsFacts
    <3>4. CASE Owner(i) = p
      <4>1. i \in ChecksOf(p) \cap Known(state)
        BY <3>2, <3>4 DEF Books, BaselineComplete
      <4>2. i \notin Published(r) /\ i \notin Lapsed(p, r, u)
        BY <1>5, <1>6
      <4> QED
        BY <1>1, <1>2, <1>3, <3>1, <3>2, <3>4, <4>1, <4>2
    <3> QED
      BY <3>3, <3>4
  <2> QED
    BY <2>1, <2>2
<1>12. BaselineComplete'
  <2> SUFFICES ASSUME NEW q \in polled'
               PROVE  baseline'[q] = ChecksOf(q) \cap Known(state')
    BY DEF BaselineComplete
  <2>0. q \in Panels
    BY <1>1 DEF TypeOK
  <2>1. CASE q # p
    <3>1. \A c \in ChecksOf(q) : c \in Ids /\ state'[c] = state[c]
      <4> TAKE c \in ChecksOf(q)
      <4>1. c \in Ids /\ c # p /\ c \notin ChecksOf(p)
        BY <2>0, <2>1, IdsFacts DEF ChecksOf
      <4> QED
        BY <1>3, <1>8, <4>1
    <3>2. ChecksOf(q) \cap Known(state') = ChecksOf(q) \cap Known(state)
      BY <3>1 DEF Known
    <3> QED
      BY <1>1, <1>2, <2>0, <2>1, <3>2 DEF Books, BaselineComplete
  <2>2. CASE q = p
    <3>1. ASSUME NEW c \in ChecksOf(p)
          PROVE  c \in Known(state') <=> c \in Published(r) \cup (Missing(p, r) \ Lapsed(p, r, u))
      <4>1. c \in Ids /\ c # p
        BY <1>10
      <4>2. CASE c \in Published(r)
        BY <1>5, <4>1, <4>2 DEF Known
      <4>3. CASE c \in Lapsed(p, r, u)
        BY <1>3, <1>6, <4>3 DEF Known
      <4>4. CASE c \in Entombed(p, r, u)
        BY <1>3, <1>7, <4>4 DEF Known
      <4>5. CASE c \notin Published(r) \cup Lapsed(p, r, u) \cup Entombed(p, r, u)
        <5>1. state'[c] = state[c]
          BY <1>8, <4>1, <4>5
        <5> QED
          BY <1>3, <4>1, <4>5, <5>1 DEF Known
      <4> QED
        BY <4>2, <4>3, <4>4, <4>5
    <3> QED
      BY <1>2, <1>3, <2>2, <3>1
  <2> QED
    BY <2>1, <2>2
<1> QED
  BY <1>11, <1>12 DEF Books

\* A settlement drops the tombstones it pays from the baselines, marks a
\* tombstone it does not pay at a failure, and forgets nothing else.
LEMMA MarkedBooks ==
  ASSUME TypeOK, TombstonesOwe, BaselineComplete,
         NEW told \in Told, \A i \in Ids : told[i] # UNKNOWN, NEW sent \in BOOLEAN,
         state' = Marked(state, told, sent), baseline' = Without(Paid(state, told)), polled' = polled
  PROVE  TombstonesOwe' /\ BaselineComplete'
<1>1. \A q \in Panels : baseline'[q] = baseline[q] \ Paid(state, told)
  BY DEF Without
<1>2. ASSUME NEW i \in Paid(state, told)
      PROVE  i \in Ids /\ state'[i] = NoEntry
  <2>1. i \in Ids
    BY DEF Paid, Known
  <2> QED
    BY <2>1, MarkedPaid
<1>3. ASSUME NEW i \in Rows(state, told)
      PROVE  /\ i \in Ids /\ ~Absent(state'[i]) /\ ~Absent(state[i])
             /\ state'[i].severity = state[i].severity
             /\ state'[i].notified = told[i]
             /\ state'[i].gone = state[i].gone
  <2>1. i \in Ids /\ ~Absent(state[i]) /\ state \in [Ids -> Entry]
    BY DEF Rows, Known, TypeOK
  <2>2. state'[i].severity = state[i].severity
    BY <2>1, MarkedKept
  <2>3. state'[i].notified = told[i]
    BY <2>1, MarkedKept
  <2>4. state'[i].gone = state[i].gone
    BY <2>1, MarkedKept
  <2> QED
    BY <2>1, <2>2, <2>3, <2>4 DEF Absent
<1>4. ASSUME NEW i \in Ids, i \notin Paid(state, told), i \notin Rows(state, told)
      PROVE  state'[i] = state[i]
  BY <1>4, MarkedOther
<1>5. TombstonesOwe'
  <2> SUFFICES ASSUME NEW i \in Ids, state'[i].gone
               PROVE  /\ state'[i].severity = OK /\ state'[i].notified \in BAD
                      /\ Owner(i) \in polled' /\ i \in baseline'[Owner(i)]
    BY DEF TombstonesOwe
  <2>1. i \notin Paid(state, told)
    BY <1>2 DEF NoEntry
  <2>2. state[i].gone
    BY <1>3, <1>4, <2>1
  <2>3. /\ state[i].severity = OK /\ state[i].notified \in BAD
        /\ Owner(i) \in polled /\ i \in baseline[Owner(i)]
    BY <2>2 DEF TombstonesOwe
  <2>4. Owner(i) \in polled' /\ i \in baseline'[Owner(i)]
    BY <1>1, <2>1, <2>3, IdsFacts
  <2>5. CASE i \in Rows(state, told)
    <3>1. told[i] # OK /\ told[i] # None
      BY <2>2, <2>3, <2>5 DEF Rows, Paid
    <3>2. told[i] \in BAD
      BY <3>1 DEF Told, Severities, BAD, OK, UNKNOWN, WARNING, CRITICAL, None
    <3> QED
      BY <1>3, <2>3, <2>4, <2>5, <3>2
  <2>6. CASE i \notin Rows(state, told)
    BY <1>4, <2>1, <2>3, <2>4, <2>6
  <2> QED
    BY <2>5, <2>6
<1>6. \A i \in Ids : i \in Known(state') <=> i \in Known(state) /\ i \notin Paid(state, told)
  <2> TAKE i \in Ids
  <2>1. CASE i \in Paid(state, told)
    BY <1>2, <2>1 DEF Known, Absent, NoEntry
  <2>2. CASE i \in Rows(state, told)
    BY <1>3, <2>2 DEF Known, Rows
  <2>3. CASE i \notin Paid(state, told) /\ i \notin Rows(state, told)
    BY <1>4, <2>3 DEF Known
  <2> QED
    BY <2>1, <2>2, <2>3
<1>7. BaselineComplete'
  <2> SUFFICES ASSUME NEW q \in polled
               PROVE  baseline'[q] = ChecksOf(q) \cap Known(state')
    BY DEF BaselineComplete
  <2>1. q \in Panels /\ baseline[q] = ChecksOf(q) \cap Known(state)
    BY DEF BaselineComplete, TypeOK
  <2>2. ChecksOf(q) \subseteq Ids
    BY <2>1, IdsFacts
  <2> QED
    BY <1>1, <1>6, <2>1, <2>2
<1> QED
  BY <1>5, <1>7

\* Nothing is said of a state nobody could read.
LEMMA NewsClaims ==
  ASSUME state \in [Ids -> Entry], NEW S \in SUBSET Owes, NEW i \in Ids
  PROVE  News(S)[i] # UNKNOWN
BY OwesFacts, SeverityFacts DEF News, OK, UNKNOWN, None

LEMMA DrainBooks ==
  ASSUME TypeOK, Books, phase # "down", phase' # "down", polled' = polled, NEW force, Drain(force)
  PROVE  Books'
<1> DEFINE settled == MutedRecoveries \cup (Owed \ ToSend)
<1>1. settled \in SUBSET Owes /\ ToSend \in SUBSET Owes
  BY SettledSets
<1> HIDE DEF settled
<1>2. News(settled) \in Told /\ \A i \in Ids : News(settled)[i] # UNKNOWN
  BY <1>1, NewsType, NewsClaims DEF TypeOK
<1>3. /\ state' = Marked(state, News(settled), FALSE)
      /\ baseline' = Without(Paid(state, News(settled)))
      /\ batch' = IF ToSend # {} /\ (force \/ ~waiting) THEN News(ToSend) ELSE NoBatch
  BY DEF Drain, settled
<1>4. TombstonesOwe' /\ BaselineComplete'
  BY <1>2, <1>3, MarkedBooks DEF Books
<1>5. \A i \in Ids : News(ToSend)[i] # UNKNOWN /\ NoBatch[i] # UNKNOWN
  <2>1. \A i \in Ids : News(ToSend)[i] # UNKNOWN
    BY <1>1, NewsClaims DEF TypeOK
  <2>2. \A i \in Ids : NoBatch[i] # UNKNOWN
    BY DEF NoBatch, None, UNKNOWN
  <2> QED
    BY <2>1, <2>2
<1> QED
  BY <1>3, <1>4, <1>5 DEF Books

LEMMA NoBatchClaims == \A i \in Ids : NoBatch[i] # UNKNOWN
BY DEF NoBatch, None, UNKNOWN

\* A process without memory has no tombstone and no baseline.
LEMMA BlankBooks ==
  ASSUME \A i \in Ids : ~state[i].gone, polled = {}, batch = NoBatch
  PROVE  Books
BY NoBatchClaims DEF Books, TombstonesOwe, BaselineComplete

LEMMA FailureBooks ==
  ASSUME TypeOK, Books, phase' = "up", batch' = batch, NEW p \in Panels, NEW o, IngestFailure(p, o)
  PROVE  Books'
<1>1. p \in Ids /\ CRITICAL \in Severities /\ state[p] \in Entry
  BY IdsFacts DEF Severities, TypeOK
<1>2. state'[p].gone = FALSE
  <2>1. state'[p] = Sighted(state[p], CRITICAL)
    BY <1>1 DEF IngestFailure, TypeOK
  <2> QED
    BY <1>1, <2>1, SightedGone
<1>3. \A i \in Ids \ {p} : state'[i] = state[i]
  BY DEF IngestFailure, TypeOK
<1>4. baseline' = baseline /\ polled' = polled
  BY DEF IngestFailure
<1>5. TombstonesOwe'
  BY <1>2, <1>3, <1>4 DEF Books, TombstonesOwe
<1>6. \A q \in Panels : ChecksOf(q) \cap Known(state') = ChecksOf(q) \cap Known(state)
  BY <1>3, IdsFacts DEF Known
<1>7. BaselineComplete'
  BY <1>4, <1>6 DEF Books, BaselineComplete, TypeOK
<1> QED
  BY <1>4, <1>5, <1>7 DEF Books

\* The event log does not raise in the middle of a poll.
LogHolds == "event" \notin Disturbances

LEMMA NextBooks ==
  ASSUME LogHolds, TypeOK, Books, [Next]_vars
  PROVE  Books'
<1>1. ASSUME NEW p \in Panels, PollSucceeds(p) PROVE Books'
  <2>1. PICK r \in Reports(p) : \E u \in Unread(p, r), o \in WriteOutcome : IngestSuccess(p, r, u, o)
    BY <1>1 DEF PollSucceeds
  <2>2. PICK u \in Unread(p, r), o \in WriteOutcome : IngestSuccess(p, r, u, o)
    BY <2>1
  <2>3. phase' = "up" /\ batch' = batch
    BY <1>1 DEF PollSucceeds
  <2> QED
    BY <2>2, <2>3, IngestBooks
<1>2. ASSUME NEW p \in Panels, PollFails(p) PROVE Books'
  <2>1. PICK o \in WriteOutcome : IngestFailure(p, o)
    BY <1>2 DEF PollFails
  <2>2. phase' = "up" /\ batch' = batch
    BY <1>2 DEF PollFails
  <2> QED
    BY <2>1, <2>2, FailureBooks
<1>3. ASSUME NEW p \in Panels, PollAborts(p) PROVE Books'
  BY <1>3 DEF PollAborts, LogHolds
<1>4. CASE WorkerDrains
  BY <1>4, DrainBooks DEF WorkerDrains
<1>5. CASE DeliveryAccepted
  <2>1. batch \in Told /\ \A i \in Ids : batch[i] # UNKNOWN
    BY DEF TypeOK, Told, Books
  <2>2. /\ state' = Marked(state, batch, TRUE) /\ baseline' = Without(Paid(state, batch))
        /\ polled' = polled /\ phase' = phase /\ batch' = NoBatch
    BY <1>5 DEF DeliveryAccepted
  <2>3. TombstonesOwe' /\ BaselineComplete'
    BY <2>1, <2>2, MarkedBooks DEF Books
  <2> QED
    BY <2>2, <2>3, NoBatchClaims DEF Books
<1>6. CASE DeliveryFails \/ FinalTimeout \/ Stop
  BY <1>6, NoBatchClaims DEF DeliveryFails, FinalTimeout, Stop, Books, TombstonesOwe, BaselineComplete
<1>7. CASE RetryDue \/ GraceEnds \/ UNCHANGED vars
  BY <1>7 DEF RetryDue, GraceEnds, vars, Books, TombstonesOwe, BaselineComplete
<1>8. ASSUME NEW i \in Mutable, Mute(i) \/ MuteEnds(i) PROVE Books'
  BY <1>8 DEF Mute, MuteEnds, engineVars, Books, TombstonesOwe, BaselineComplete
<1>9. CASE Start
  <2>3. \A i \in Ids : NoEntry.gone = FALSE /\ Restored(db[i]).gone = FALSE
    BY DEF Restored, NoEntry
  <2>1. \A i \in Ids : state'[i].gone = FALSE
    BY <1>9, <2>3 DEF Start
  <2>2. phase' = "up" /\ polled' = {} /\ batch' = batch
    BY <1>9 DEF Start, Books
  <2> QED
    BY <2>1, <2>2 DEF Books, TombstonesOwe, BaselineComplete
<1>10. CASE FinalDrain
  BY <1>10, DrainBooks DEF FinalDrain
<1>11. CASE Halt \/ Crash
  <2>1. MemoryLost
    BY <1>11 DEF Halt, Crash
  <2> QED
    BY <2>1, NoBatchClaims DEF MemoryLost, Books, TombstonesOwe, BaselineComplete, NoEntry
<1> QED
  BY <1>1, <1>2, <1>3, <1>4, <1>5, <1>6, <1>7, <1>8, <1>9, <1>10, <1>11 DEF Next

LEMMA InitBooks == Init => Books
BY BlankBooks DEF Init, NoEntry

LEMMA SpecBooks == LogHolds /\ Spec => []Books
<1>1. CASE LogHolds
  <2>1. TypeOK /\ Books /\ [Next]_vars => (TypeOK /\ Books)'
    BY <1>1, NextType, NextBooks
  <2> QED
    BY <2>1, InitType, InitBooks, PTL DEF Spec
<1> QED
  BY <1>1

\* While the event log can be written, a check that vanished is kept only as
\* a tombstone that owes the recovery of a notified failure, and the baseline
\* of its collector holds it.
THEOREM TombstonesAreOwed == LogHolds /\ Spec => []TombstonesOwe
<1>1. Books => TombstonesOwe
  BY DEF Books
<1> QED
  BY <1>1, SpecBooks, PTL

\* While the event log can be written, the baseline of every polled collector
\* is exactly the checks known of it, so no check can vanish unnoticed.
THEOREM BaselinesAreComplete == LogHolds /\ Spec => []BaselineComplete
<1>1. Books => BaselineComplete
  BY DEF Books
<1> QED
  BY <1>1, SpecBooks, PTL
-----------------------------------------------------------------------------
(* The receiver's last word.  It is compared with what is notified, which  *)
(* is kept by memory or by the table; a lasting id never vanishes, so what *)
(* is answered for it is always marked; and only claims of health are ever *)
(* settled in silence, over notifications that were no failure.            *)

\* Every configuration posts to a webhook, with the default floor.
Posting == \A cf \in Configs : cf.configured /\ cf.floor = WARNING

\* The engine learns of every request the receiver got.
Honest == "ambiguous" \notin Disturbances

NotifiedAt(i) == IF phase = "down" THEN db[i].notified ELSE state[i].notified

Agree(said, notified) == said = notified \/ (said \notin BAD /\ notified \notin BAD)

Spoken ==
  /\ conf \in Configs
  /\ \A i \in Lasting :
       /\ Agree(heard[i], NotifiedAt(i))
       /\ ~state[i].gone
       /\ batch[i] # None => ~Absent(state[i]) /\ batch[i] # heard[i]

LEMMA LastingFacts ==
  ASSUME NEW i \in Lasting
  PROVE  /\ i \in Ids /\ i \notin Mutable
         /\ \A cf \in Configs : i \notin Retired(cf)
         /\ i \in Panels \/ (i \in Steady /\ i \in Checks)
BY IdsFacts, KindsAssumption DEF Lasting, Retired, Ids

LEMMA RankFacts ==
  /\ \A s \in BAD : rank(s) >= rank(WARNING)
  /\ ~(rank(OK) >= rank(WARNING))
BY DEF BAD, rank, OK, UNKNOWN, WARNING, CRITICAL

\* First sight notifies no failure, later sights notify nothing.
LEMMA SightedAgrees ==
  ASSUME NEW e \in Entry, Absent(e) => e = NoEntry, NEW s \in Severities, NEW said, Agree(said, e.notified)
  PROVE  Agree(said, Sighted(e, s).notified)
<1>1. CASE Absent(e)
  <2>1. e.notified = None /\ Sighted(e, s).notified = (IF s \in BAD THEN None ELSE s)
    BY <1>1 DEF Sighted, NoEntry
  <2> QED
    BY <2>1, SeverityFacts DEF Agree
<1>2. CASE ~Absent(e)
  <2>1. Sighted(e, s).notified = e.notified
    BY <1>2 DEF Sighted, Entry
  <2> QED
    BY <2>1
<1> QED
  BY <1>1, <1>2

\* A poll that publishes or declares unread every steady check only sights it.
LEMMA LastingPolled ==
  ASSUME TypeOK, BaselineComplete, NEW p \in Panels, NEW r \in Reports(p), NEW u \in Unread(p, r), NEW o,
         IngestSuccess(p, r, u, o), NEW i \in Lasting
  PROVE  state'[i] = state[i] \/ \E s \in Severities : state'[i] = Sighted(state[i], s)
<1>1. i \in Ids /\ (i \in Panels \/ (i \in Steady /\ i \in Checks))
  BY LastingFacts
<1>2. CASE i = p
  BY <1>2, AfterIngest, SeverityFacts
<1>3. CASE i \in Published(r)
  BY <1>3, AfterIngest, ReportFacts
<1>4. CASE i # p /\ i \notin Published(r)
  <2>1. i \notin Vanished(p, r, u)
    <3>1. CASE i \in Panels
      BY <3>1, PollSets, IdsFacts DEF Vanished, ChecksOf
    <3>2. CASE i \in Steady /\ i \in Checks
      <4>1. Steady \cap ChecksOf(p) \subseteq Published(r) \cup u
        BY DEF Unread
      <4> QED
        BY <1>4, <3>2, <4>1, PollSets DEF Vanished
    <3> QED
      BY <1>1, <3>1, <3>2
  <2>2. i \notin Lapsed(p, r, u) /\ i \notin Entombed(p, r, u)
    BY <2>1 DEF Lapsed, Entombed
  <2> QED
    BY <1>1, <1>4, <2>2, AfterIngest
<1> QED
  BY <1>2, <1>3, <1>4

LEMMA SightedSpoken ==
  ASSUME TypeOK, Blanks(state), Spoken, phase = "up", phase' = "up",
         UNCHANGED <<conf, batch, heard>>,
         \A i \in Lasting : state'[i] = state[i] \/ \E s \in Severities : state'[i] = Sighted(state[i], s)
  PROVE  Spoken'
<1> SUFFICES ASSUME NEW i \in Lasting
             PROVE  /\ Agree(heard[i], state'[i].notified)
                    /\ ~state'[i].gone
                    /\ ~Absent(state[i]) => ~Absent(state'[i])
  BY DEF Spoken, NotifiedAt
<1>1. /\ Agree(heard[i], state[i].notified) /\ ~state[i].gone /\ state[i] \in Entry
      /\ Absent(state[i]) => state[i] = NoEntry
  BY LastingFacts DEF Spoken, NotifiedAt, TypeOK, Blanks
<1>2. CASE state'[i] = state[i]
  BY <1>1, <1>2
<1>3. ASSUME NEW s \in Severities, state'[i] = Sighted(state[i], s)
      PROVE  /\ Agree(heard[i], state'[i].notified)
             /\ ~state'[i].gone
             /\ ~Absent(state'[i])
  <2>1. Agree(heard[i], Sighted(state[i], s).notified)
    BY <1>1, SightedAgrees
  <2>2. Sighted(state[i], s).gone = FALSE
    BY <1>1, SightedGone
  <2>3. ~Absent(Sighted(state[i], s))
    BY <1>1, SightedBlanks
  <2> QED
    BY <1>3, <2>1, <2>2, <2>3
<1> QED
  BY <1>2, <1>3

\* What is told of a lasting id that is known changes `notified', no more.
LEMMA LastingMarked ==
  ASSUME TypeOK, Spoken, phase # "down", NEW told \in Told, NEW sent \in BOOLEAN,
         state' = Marked(state, told, sent), NEW i \in Lasting
  PROVE  /\ state'[i].gone = FALSE
         /\ ~Absent(state[i]) => ~Absent(state'[i])
         /\ told[i] # None /\ ~Absent(state[i]) => state'[i].notified = told[i]
         /\ told[i] = None => state'[i] = state[i]
<1>1. i \in Ids /\ ~state[i].gone /\ state[i] \in Entry
  BY LastingFacts DEF Spoken, TypeOK
<1>2. i \notin Paid(state, told)
  BY <1>1 DEF Paid
<1>3. CASE i \in Rows(state, told)
  <2>1. told[i] # None /\ ~Absent(state[i]) /\ state \in [Ids -> Entry]
    BY <1>3 DEF Rows, Known, TypeOK
  <2>2. state'[i].severity = state[i].severity
    BY <1>1, <1>3, <2>1, MarkedKept
  <2>3. state'[i].notified = told[i]
    BY <1>1, <1>3, <2>1, MarkedKept
  <2>4. state'[i].gone = state[i].gone
    BY <1>1, <1>3, <2>1, MarkedKept
  <2> QED
    BY <1>1, <2>1, <2>2, <2>3, <2>4 DEF Absent, Entry
<1>4. CASE i \notin Rows(state, told)
  <2>1. state'[i] = state[i]
    BY <1>1, <1>2, <1>4, MarkedOther
  <2>2. told[i] = None \/ Absent(state[i])
    BY <1>1, <1>2, <1>4 DEF Rows, Known
  <2> QED
    BY <1>1, <2>1, <2>2 DEF Entry
<1> QED
  BY <1>3, <1>4

\* A debt of a lasting id is settled in silence only where the receiver holds
\* no failure and is owed none.
LEMMA SilentLasting ==
  ASSUME TypeOK, Spoken, Posting, phase # "down", NEW i \in Lasting,
         i \in MutedRecoveries \cup (Owed \ ToSend)
  PROVE  state[i].severity \notin BAD /\ heard[i] \notin BAD
<1>1. i \in Owed \ ToSend
  BY LastingFacts DEF MutedRecoveries, TypeOK
<1>2. conf.configured /\ conf.floor = WARNING
  BY DEF Posting, Spoken
<1>3. ~Notable(state[i])
  BY <1>1, <1>2 DEF ToSend
<1>4. state[i].severity \notin BAD
  BY <1>2, <1>3, RankFacts DEF Notable
<1>5. state[i].notified \notin BAD
  BY <1>2, <1>3, RankFacts DEF Notable, ReceiverKnowsOld
<1>6. Agree(heard[i], state[i].notified)
  BY DEF Spoken, NotifiedAt
<1> QED
  BY <1>4, <1>5, <1>6 DEF Agree

\* What is sent of a lasting id is not what the receiver heard last.
LEMMA SentLasting ==
  ASSUME TypeOK, Spoken, Posting, phase # "down", NEW i \in Lasting, i \in ToSend
  PROVE  ~Absent(state[i]) /\ state[i].severity # heard[i]
<1>1. i \in Owes /\ Notable(state[i])
  BY SettledSets DEF ToSend
<1>2. ~Absent(state[i]) /\ state[i].severity # state[i].notified /\ state[i].severity \in {OK} \cup BAD
  BY <1>1, OwesFacts DEF TypeOK
<1>3. conf.floor = WARNING
  BY DEF Posting, Spoken
<1>4. Agree(heard[i], state[i].notified)
  BY DEF Spoken, NotifiedAt
<1>5. CASE heard[i] = state[i].notified
  BY <1>2, <1>5
<1>6. CASE heard[i] \notin BAD /\ state[i].notified \notin BAD
  <2>1. rank(state[i].severity) >= rank(WARNING)
    BY <1>1, <1>3, <1>6 DEF Notable, ReceiverKnowsOld
  <2>2. state[i].severity \in BAD
    BY <1>2, <2>1, RankFacts
  <2> QED
    BY <1>2, <1>6, <2>2
<1> QED
  BY <1>4, <1>5, <1>6 DEF Agree

LEMMA DrainSpoken ==
  ASSUME TypeOK, Spoken, Posting, phase # "down", phase' # "down",
         UNCHANGED <<conf, heard>>, NEW force, Drain(force)
  PROVE  Spoken'
<1> DEFINE settled == MutedRecoveries \cup (Owed \ ToSend)
<1>1. settled \in SUBSET Owes
  BY SettledSets
<1>2. /\ state' = Marked(state, News(settled), FALSE)
      /\ batch' = IF ToSend # {} /\ (force \/ ~waiting) THEN News(ToSend) ELSE NoBatch
  BY DEF Drain
<1>3. \A i \in Lasting \cap settled : state[i].severity \notin BAD /\ heard[i] \notin BAD
  BY SilentLasting
<1> HIDE DEF settled
<1>4. News(settled) \in Told
  BY <1>1, NewsType DEF TypeOK
<1> SUFFICES ASSUME NEW i \in Lasting
             PROVE  /\ Agree(heard[i], state'[i].notified)
                    /\ ~state'[i].gone
                    /\ batch'[i] # None => ~Absent(state'[i]) /\ batch'[i] # heard[i]
  BY DEF Spoken, NotifiedAt
<1>5. i \in Ids /\ Agree(heard[i], state[i].notified)
  BY LastingFacts DEF Spoken, NotifiedAt
<1>6. /\ state'[i].gone = FALSE
      /\ ~Absent(state[i]) => ~Absent(state'[i])
      /\ News(settled)[i] # None /\ ~Absent(state[i]) => state'[i].notified = News(settled)[i]
      /\ News(settled)[i] = None => state'[i] = state[i]
  BY <1>2, <1>4, LastingMarked
<1>7. Agree(heard[i], state'[i].notified)
  <2>1. CASE i \in settled
    <3>1. News(settled)[i] = state[i].severity /\ ~Absent(state[i]) /\ state[i].severity # None
      BY <1>1, <1>5, <2>1, OwesFacts, SeverityFacts DEF News, TypeOK
    <3> QED
      BY <1>3, <1>6, <2>1, <3>1 DEF Agree
  <2>2. CASE i \notin settled
    BY <1>5, <1>6, <2>2 DEF News
  <2> QED
    BY <2>1, <2>2
<1>8. ASSUME batch'[i] # None
      PROVE  ~Absent(state'[i]) /\ batch'[i] # heard[i]
  <2>1. i \in ToSend /\ batch'[i] = state[i].severity
    BY <1>2, <1>5, <1>8 DEF News, NoBatch
  <2> QED
    BY <1>6, <2>1, SentLasting
<1> QED
  BY <1>6, <1>7, <1>8

LEMMA AcceptedSpoken ==
  ASSUME TypeOK, Spoken, phase # "down", DeliveryAccepted
  PROVE  Spoken'
<1>1. /\ state' = Marked(state, batch, TRUE) /\ batch' = NoBatch /\ heard' = HeardAfter(TRUE)
      /\ UNCHANGED <<phase, conf>>
  BY DEF DeliveryAccepted
<1>2. batch \in Told
  BY DEF TypeOK, Told
<1> SUFFICES ASSUME NEW i \in Lasting
             PROVE  Agree(heard'[i], state'[i].notified) /\ ~state'[i].gone /\ batch'[i] = None
  BY <1>1 DEF Spoken, NotifiedAt
<1>3. i \in Ids /\ Agree(heard[i], state[i].notified) /\ (batch[i] # None => ~Absent(state[i]))
  BY LastingFacts DEF Spoken, NotifiedAt
<1>4. /\ state'[i].gone = FALSE
      /\ batch[i] # None /\ ~Absent(state[i]) => state'[i].notified = batch[i]
      /\ batch[i] = None => state'[i] = state[i]
  BY <1>1, <1>2, LastingMarked
<1>5. heard'[i] = IF batch[i] # None THEN batch[i] ELSE heard[i]
  BY <1>1, <1>3 DEF HeardAfter
<1>6. batch'[i] = None
  BY <1>1, <1>3 DEF NoBatch
<1> QED
  BY <1>3, <1>4, <1>5, <1>6 DEF Agree

LEMMA UnheardSpoken ==
  ASSUME Honest, NEW got \in Receipt, heard \in [Ids -> Severities \cup {None}]
  PROVE  HeardAfter(got) = heard
BY DEF Honest, Receipt, HeardAfter

LEMMA StartSpoken ==
  ASSUME TypeOK, Durable, Spoken, Saving, Start
  PROVE  Spoken'
<1>1. /\ phase' = "up" /\ phase = "down" /\ conf' \in Configs /\ UNCHANGED <<batch, heard>>
      /\ state' = [i \in Ids |-> IF i \in Retired(conf') THEN NoEntry ELSE Restored(db[i])]
  BY DEF Start, Saving
<1>2. \A i \in Ids : batch[i] = None
  BY <1>1 DEF Durable, Delivering, NoBatch
<1> SUFFICES ASSUME NEW i \in Lasting
             PROVE  Agree(heard[i], state'[i].notified) /\ ~state'[i].gone /\ batch[i] = None
  BY <1>1 DEF Spoken, NotifiedAt
<1>3. i \in Ids /\ i \notin Retired(conf')
  BY <1>1, LastingFacts
<1>4. state'[i] = Restored(db[i])
  BY <1>1, <1>3
<1>5. Restored(db[i]).notified = db[i].notified /\ Restored(db[i]).gone = FALSE
  BY DEF Restored, NoEntry
<1>6. Agree(heard[i], db[i].notified)
  BY <1>1 DEF Spoken, NotifiedAt
<1> QED
  BY <1>2, <1>3, <1>4, <1>5, <1>6

LEMMA DownSpoken ==
  ASSUME TypeOK, Durable, Spoken, phase # "down", MemoryLost, UNCHANGED <<db, heard>>
  PROVE  Spoken'
<1>1. ASSUME NEW i \in Ids PROVE db[i].notified = state[i].notified
  <2>1. db[i] = [severity |-> state[i].severity, notified |-> state[i].notified]
    BY DEF Durable, Mirrors
  <2> QED
    BY <2>1
<1> SUFFICES ASSUME NEW i \in Lasting
             PROVE  Agree(heard[i], db[i].notified) /\ ~state'[i].gone /\ batch'[i] = None
  BY DEF Spoken, NotifiedAt, MemoryLost
<1>2. i \in Ids /\ Agree(heard[i], state[i].notified)
  BY LastingFacts DEF Spoken, NotifiedAt
<1> QED
  BY <1>1, <1>2 DEF MemoryLost, NoEntry, NoBatch

LEMMA InitSpoken == Init => Spoken
<1> SUFFICES ASSUME Init PROVE Spoken
  OBVIOUS
<1>1. phase = "down" /\ conf \in Configs
  BY DEF Init
<1>2. ASSUME NEW i \in Lasting
      PROVE  Agree(heard[i], db[i].notified) /\ ~state[i].gone /\ batch[i] = None
  <2>1. i \in Ids
    BY LastingFacts
  <2>2. heard[i] = None /\ db[i] = NoRow /\ state[i] = NoEntry /\ batch = NoBatch
    BY <2>1 DEF Init
  <2> QED
    BY <2>1, <2>2 DEF Agree, NoRow, NoEntry, NoBatch
<1> QED
  BY <1>1, <1>2 DEF Spoken, NotifiedAt

LEMMA NextSpoken ==
  ASSUME Saving, Posting, Honest, TypeOK, Durable, Books, Spoken, [Next]_vars
  PROVE  Spoken'
<1>0. heard \in [Ids -> Severities \cup {None}] /\ Blanks(state) /\ BaselineComplete
  BY DEF TypeOK, Durable, Books
<1>1. ASSUME NEW p \in Panels, PollSucceeds(p) PROVE Spoken'
  <2>1. PICK r \in Reports(p) : \E u \in Unread(p, r), o \in WriteOutcome : IngestSuccess(p, r, u, o)
    BY <1>1 DEF PollSucceeds
  <2>2. PICK u \in Unread(p, r), o \in WriteOutcome : IngestSuccess(p, r, u, o)
    BY <2>1
  <2>3. phase = "up" /\ phase' = "up" /\ UNCHANGED <<conf, batch, heard>>
    BY <1>1 DEF PollSucceeds
  <2>4. \A i \in Lasting : state'[i] = state[i] \/ \E s \in Severities : state'[i] = Sighted(state[i], s)
    BY <1>0, <2>2, LastingPolled
  <2> QED
    BY <1>0, <2>3, <2>4, SightedSpoken
<1>2. ASSUME NEW p \in Panels, PollFails(p) PROVE Spoken'
  <2>1. PICK o \in WriteOutcome : IngestFailure(p, o)
    BY <1>2 DEF PollFails
  <2>2. phase = "up" /\ phase' = "up" /\ UNCHANGED <<conf, batch, heard>>
    BY <1>2 DEF PollFails
  <2>3. \A i \in Lasting : state'[i] = state[i] \/ \E s \in Severities : state'[i] = Sighted(state[i], s)
    BY <2>1, LastingFacts DEF IngestFailure, TypeOK, Severities
  <2> QED
    BY <1>0, <2>2, <2>3, SightedSpoken
<1>3. ASSUME NEW p \in Panels, PollAborts(p) PROVE Spoken'
  BY <1>3 DEF PollAborts, Saving
<1>4. CASE WorkerDrains
  BY <1>4, DrainSpoken DEF WorkerDrains
<1>5. CASE DeliveryAccepted
  <2>1. phase # "down"
    BY <1>5 DEF DeliveryAccepted, Durable
  <2> QED
    BY <1>5, <2>1, AcceptedSpoken
<1>6. CASE DeliveryFails \/ FinalTimeout \/ Stop
  <2>1. /\ heard' = heard /\ batch' = NoBatch
        /\ UNCHANGED <<conf, state, db>>
        /\ phase' = phase \/ (phase = "up" /\ phase' = "stopping")
    BY <1>0, <1>6, UnheardSpoken DEF DeliveryFails, FinalTimeout, Stop
  <2>2. \A i \in Lasting : NotifiedAt(i)' = NotifiedAt(i) /\ batch'[i] = None
    BY <2>1, LastingFacts DEF NotifiedAt, NoBatch
  <2> QED
    BY <2>1, <2>2 DEF Spoken
<1>7. CASE RetryDue \/ GraceEnds \/ UNCHANGED vars
  <2>1. UNCHANGED <<phase, conf, state, batch, db, heard>>
    BY <1>7 DEF RetryDue, GraceEnds, vars
  <2> QED
    BY <2>1 DEF Spoken, NotifiedAt
<1>8. ASSUME NEW i \in Mutable, Mute(i) \/ MuteEnds(i) PROVE Spoken'
  <2>1. UNCHANGED <<phase, conf, state, batch, db, heard>>
    BY <1>8 DEF Mute, MuteEnds, engineVars
  <2> QED
    BY <2>1 DEF Spoken, NotifiedAt
<1>9. CASE Start
  BY <1>9, StartSpoken
<1>10. CASE FinalDrain
  BY <1>10, DrainSpoken DEF FinalDrain
<1>11. CASE Halt
  BY <1>11, DownSpoken DEF Halt
<1>12. CASE Crash
  <2>1. MemoryLost /\ phase # "down" /\ UNCHANGED <<db, heard>>
    BY <1>0, <1>12, UnheardSpoken DEF Crash
  <2> QED
    BY <2>1, DownSpoken
<1> QED
  BY <1>1, <1>2, <1>3, <1>4, <1>5, <1>6, <1>7, <1>8, <1>9, <1>10, <1>11, <1>12 DEF Next

\* What the temporal theorems about the receiver assume of the environment.
GoodWeather == Saving /\ Posting /\ Honest

LEMMA SpecSpoken == GoodWeather /\ Spec => [](TypeOK /\ Durable /\ Books /\ Spoken)
<1> DEFINE IInv == TypeOK /\ Durable /\ Books /\ Spoken
<1>1. CASE GoodWeather
  <2>1. Saving /\ Posting /\ Honest /\ LogHolds
    BY <1>1 DEF GoodWeather, Saving, LogHolds
  <2>2. Init => IInv
    BY InitType, InitDurable, InitBooks, InitSpoken
  <2>3. IInv /\ [Next]_vars => IInv'
    BY <2>1, NextType, NextDurable, NextBooks, NextSpoken
  <2> HIDE DEF IInv
  <2>4. Spec => []IInv
    BY <2>2, <2>3, PTL DEF Spec
  <2> QED
    BY <2>4 DEF IInv
<1> QED
  BY <1>1

LEMMA SpokenIsTrue ==
  ASSUME Posting, TypeOK, Spoken
  PROVE  LastWordTrue
<1> SUFFICES ASSUME phase = "up", NEW i \in Lasting
             PROVE  \/ heard[i] = state[i].notified
                    \/ /\ heard[i] \notin BAD
                       /\ state[i].notified = None \/ rank(state[i].notified) < rank(conf.floor)
  BY DEF LastWordTrue
<1>1. Agree(heard[i], state[i].notified) /\ conf.floor = WARNING
  BY DEF Spoken, NotifiedAt, Posting
<1>2. state[i].notified \in Severities \cup {None}
  BY LastingFacts DEF TypeOK, Entry, Notified
<1>3. \A s \in Severities : s \in BAD \/ rank(s) < rank(WARNING)
  BY DEF Severities, BAD, rank, OK, UNKNOWN, WARNING, CRITICAL
<1> QED
  BY <1>1, <1>2, <1>3 DEF Agree

\* With the default floor, nothing that happens between the start and the end
\* of a request, no lost debt, no retry and no restart makes the receiver's
\* last word about a check differ from what the engine has it notified at.
THEOREM LastWordIsTrue == GoodWeather /\ Spec => []LastWordTrue
<1>1. CASE GoodWeather
  <2>1. TypeOK /\ Spoken => LastWordTrue
    BY <1>1, SpokenIsTrue DEF GoodWeather
  <2> QED
    BY <1>1, <2>1, SpecSpoken, PTL
<1> QED
  BY <1>1

\* No request repeats what the receiver heard last.
THEOREM MessagesAreNews == GoodWeather /\ Spec => []EveryMessageIsNews
<1>1. Spoken => EveryMessageIsNews
  BY DEF Spoken, EveryMessageIsNews
<1> QED
  BY <1>1, SpecSpoken, PTL
-----------------------------------------------------------------------------
(* Collectors that are not enabled.                                        *)

\* A poll makes nothing known but what its own panel publishes.
LEMMA PolledKnown ==
  ASSUME TypeOK, NEW p \in Panels, PollSucceeds(p) \/ PollFails(p) \/ PollAborts(p),
         NEW i \in Ids, ~Absent(state'[i])
  PROVE  ~Absent(state[i]) \/ Owner(i) = p
<1> SUFFICES ASSUME Absent(state[i]), Owner(i) # p PROVE FALSE
  OBVIOUS
<1>1. i # p /\ i \notin ChecksOf(p)
  BY IdsFacts DEF Owner, ChecksOf
<1>2. \A r \in Reports(p) : i \notin Published(r)
  BY <1>1, ReportFacts
<1>3. \A r, u : i \notin Vanished(p, r, u) \cup Lapsed(p, r, u) \cup Entombed(p, r, u)
  BY DEF Vanished, Lapsed, Entombed, Missing
<1>4. ASSUME NEW r \in Reports(p), NEW u PROVE AfterChecks(p, r, u)[i] = state[i]
  BY <1>2, <1>3 DEF AfterChecks
<1>5. CASE PollSucceeds(p)
  <2>1. PICK r \in Reports(p) : \E u, o : state' = [AfterChecks(p, r, u) EXCEPT ![p] = Sighted(@, OK)]
    BY <1>5 DEF PollSucceeds, IngestSuccess
  <2>2. PICK u : state' = [AfterChecks(p, r, u) EXCEPT ![p] = Sighted(@, OK)]
    BY <2>1
  <2>3. state'[i] = AfterChecks(p, r, u)[i]
    BY <1>1, <2>2 DEF AfterChecks
  <2> QED
    BY <1>4, <2>3
<1>6. CASE PollFails(p)
  BY <1>1, <1>6 DEF PollFails, IngestFailure, TypeOK
<1>7. CASE PollAborts(p)
  <2>1. CASE AbortsAtCheck(p)
    <3>1. PICK r \in Reports(p) : \E x \in Published(r) : \E done \in SUBSET (Published(r) \ {x}) :
            state' = [j \in Ids |-> CASE j \in done -> Sighted(state[j], r[j])
                                      [] j = x     -> HalfSighted(state[j], r[j])
                                      [] OTHER     -> state[j]]
      BY <2>1 DEF AbortsAtCheck
    <3>2. PICK x \in Published(r), done \in SUBSET Published(r) :
            state' = [j \in Ids |-> CASE j \in done -> Sighted(state[j], r[j])
                                      [] j = x     -> HalfSighted(state[j], r[j])
                                      [] OTHER     -> state[j]]
      BY <3>1
    <3> QED
      BY <1>2, <3>2
  <2>2. CASE AbortsAtVanished(p)
    <3>1. PICK r \in Reports(p) : \E u : \E x \in Vanished(p, r, u) : \E done \in SUBSET (Vanished(p, r, u) \ {x}) :
            state' = [j \in Ids |->
                        CASE j \in Published(r)                              -> Sighted(state[j], r[j])
                          [] j \in done \ Ephemeral /\ ~state[j].gone       -> Tombstone(state[j])
                          [] OTHER                                           -> state[j]]
      BY <2>2 DEF AbortsAtVanished
    <3>2. PICK u : \E done \in SUBSET Vanished(p, r, u) :
            state' = [j \in Ids |->
                        CASE j \in Published(r)                              -> Sighted(state[j], r[j])
                          [] j \in done \ Ephemeral /\ ~state[j].gone       -> Tombstone(state[j])
                          [] OTHER                                           -> state[j]]
      BY <3>1
    <3> QED
      BY <1>2, <1>3, <3>2
  <2>3. CASE AbortsAtPanel(p)
    <3>1. \/ \E r \in Reports(p) : \E u : state' = [AfterChecks(p, r, u) EXCEPT ![p] = Sighted(@, OK)]
          \/ state' = [state EXCEPT ![p] = Sighted(@, CRITICAL)]
      BY <2>3 DEF AbortsAtPanel
    <3>2. ASSUME NEW r \in Reports(p), NEW u, state' = [AfterChecks(p, r, u) EXCEPT ![p] = Sighted(@, OK)]
          PROVE  state'[i] = state[i]
      <4>1. state'[i] = AfterChecks(p, r, u)[i]
        BY <1>1, <3>2 DEF AfterChecks
      <4> QED
        BY <1>4, <4>1
    <3> QED
      BY <1>1, <3>1, <3>2 DEF TypeOK
  <2> QED
    BY <1>7, <2>1, <2>2, <2>3 DEF PollAborts
<1> QED
  BY <1>5, <1>6, <1>7

\* Marking makes nothing known.
LEMMA MarkedKnown ==
  ASSUME NEW st \in [Ids -> Entry], NEW told, NEW sent \in BOOLEAN, NEW i \in Ids, ~Absent(Marked(st, told, sent)[i])
  PROVE  ~Absent(st[i])
BY DEF Marked

LEMMA NextEnabledKnown ==
  ASSUME TypeOK, OnlyEnabledKnown, [Next]_vars
  PROVE  OnlyEnabledKnown'
<1> SUFFICES ASSUME NEW i \in Ids, ~Absent(state'[i])
             PROVE  Owner(i) \in conf'.enabled
  BY DEF OnlyEnabledKnown, Known
<1>1. ~Absent(state[i]) => Owner(i) \in conf.enabled
  BY DEF OnlyEnabledKnown, Known
<1>2. ASSUME NEW p \in Panels, PollSucceeds(p) \/ PollFails(p) \/ PollAborts(p)
      PROVE  Owner(i) \in conf'.enabled
  <2>1. conf' = conf /\ p \in conf.enabled
    BY <1>2 DEF PollSucceeds, PollFails, PollAborts
  <2> QED
    BY <1>1, <1>2, <2>1, PolledKnown
<1>3. CASE WorkerDrains \/ FinalDrain
  <2>1. conf' = conf /\ state' = Marked(state, News(MutedRecoveries \cup (Owed \ ToSend)), FALSE)
    BY <1>3 DEF WorkerDrains, FinalDrain, Drain
  <2> QED
    BY <1>1, <2>1, MarkedKnown DEF TypeOK
<1>4. CASE DeliveryAccepted
  BY <1>1, <1>4, MarkedKnown DEF DeliveryAccepted, TypeOK
<1>5. CASE Start
  <2>1. state'[i] = NoEntry \/ i \notin Retired(conf')
    BY <1>5 DEF Start
  <2> QED
    BY <2>1 DEF Retired, NoEntry, Absent
<1>6. CASE Halt \/ Crash
  BY <1>6 DEF Halt, Crash, MemoryLost, NoEntry, Absent
<1>7. CASE DeliveryFails \/ RetryDue \/ GraceEnds \/ Stop \/ FinalTimeout \/ UNCHANGED vars
  BY <1>1, <1>7 DEF DeliveryFails, RetryDue, GraceEnds, Stop, FinalTimeout, vars
<1>8. ASSUME NEW j \in Mutable, Mute(j) \/ MuteEnds(j)
      PROVE  Owner(i) \in conf'.enabled
  BY <1>1, <1>8 DEF Mute, MuteEnds, engineVars
<1> QED
  BY <1>2, <1>3, <1>4, <1>5, <1>6, <1>7, <1>8 DEF Next

\* Whatever the table held at the start, and whether or not it could be read
\* and cleaned, the engine never knows anything of a collector that is not
\* enabled, so it alerts for none.
THEOREM DisabledAreUnknown == Spec => []OnlyEnabledKnown
<1>1. Init => OnlyEnabledKnown
  BY DEF Init, OnlyEnabledKnown, Known, NoEntry, Absent
<1>2. TypeOK /\ OnlyEnabledKnown /\ [Next]_vars => OnlyEnabledKnown'
  BY NextEnabledKnown
<1> QED
  BY <1>1, <1>2, Typing, PTL DEF Spec
-----------------------------------------------------------------------------
(* What a step may never do, under every disturbance.  What a poll may     *)
(* make of one entry, whole or aborted, is all the following proofs need.  *)

AfterPoll(i, e, f) ==
  \/ f = e
  \/ \E s \in Severities : f = Sighted(e, s) \/ f = HalfSighted(e, s)
  \/ ~Absent(e) /\ f = Tombstone(e)
  \/ Lapses(i, e) /\ f = NoEntry

Polled(p) == PollSucceeds(p) \/ PollFails(p) \/ PollAborts(p)

LEMMA ChecksAfterPoll ==
  ASSUME TypeOK, NEW p \in Panels, NEW r \in Reports(p), NEW u, NEW i \in Ids
  PROVE  AfterPoll(i, state[i], AfterChecks(p, r, u)[i])
<1>0. /\ Published(r) \cap Lapsed(p, r, u) = {} /\ Published(r) \cap Entombed(p, r, u) = {}
      /\ Lapsed(p, r, u) \cap Entombed(p, r, u) = {}
  BY VanishedFacts DEF TypeOK
<1>1. CASE i \in Published(r)
  <2>1. r[i] \in Severities
    BY <1>1, ReportFacts
  <2>2. AfterChecks(p, r, u)[i] = Sighted(state[i], r[i])
    BY <1>0, <1>1 DEF AfterChecks
  <2> QED BY <2>1, <2>2 DEF AfterPoll
<1>2. CASE i \in Lapsed(p, r, u) \ Published(r)
  <2>1. Lapses(i, state[i])
    BY <1>2, Zenon DEF Lapsed
  <2>2. AfterChecks(p, r, u)[i] = NoEntry
    BY <1>0, <1>2 DEF AfterChecks
  <2> QED BY <2>1, <2>2 DEF AfterPoll
<1>3. CASE i \in Entombed(p, r, u) \ (Published(r) \cup Lapsed(p, r, u))
  <2>1. ~Absent(state[i])
    BY <1>3 DEF Entombed, Vanished, Missing
  <2>2. AfterChecks(p, r, u)[i] = Tombstone(state[i])
    BY <1>3 DEF AfterChecks
  <2> QED BY <2>1, <2>2 DEF AfterPoll
<1>4. CASE i \notin Published(r) \cup Lapsed(p, r, u) \cup Entombed(p, r, u)
  BY <1>4 DEF AfterChecks, AfterPoll
<1> QED BY <1>1, <1>2, <1>3, <1>4

LEMMA PanelAfterPoll ==
  ASSUME TypeOK, NEW p \in Panels, NEW r \in Reports(p), NEW u
  PROVE  AfterChecks(p, r, u)[p] = state[p]
<1>1. p \in Ids /\ p \notin Checks
  BY IdsFacts
<1>2. p \notin Published(r) \cup Lapsed(p, r, u) \cup Entombed(p, r, u)
  BY <1>1, ReportFacts, VanishedFacts, IdsFacts DEF TypeOK
<1> QED BY <1>1, <1>2 DEF AfterChecks

LEMMA EntryAfterPoll ==
  ASSUME TypeOK, NEW p \in Panels, Polled(p), NEW i \in Ids
  PROVE  AfterPoll(i, state[i], state'[i])
<1>0. OK \in Severities /\ CRITICAL \in Severities /\ p \in Ids /\ state \in [Ids -> Entry]
  BY IdsFacts DEF Severities, TypeOK
<1>1. CASE PollSucceeds(p)
  <2>1. PICK r \in Reports(p) : \E u, o : state' = [AfterChecks(p, r, u) EXCEPT ![p] = Sighted(@, OK)]
    BY <1>1 DEF PollSucceeds, IngestSuccess
  <2>2. PICK u : state' = [AfterChecks(p, r, u) EXCEPT ![p] = Sighted(@, OK)]
    BY <2>1
  <2>3. CASE i = p
    <3>1. state'[p] = Sighted(state[p], OK)
      BY <1>0, <2>2, PanelAfterPoll DEF AfterChecks
    <3> QED BY <1>0, <2>3, <3>1 DEF AfterPoll
  <2>4. CASE i # p
    BY <2>2, <2>4, ChecksAfterPoll DEF AfterChecks
  <2> QED BY <2>3, <2>4
<1>2. CASE PollFails(p)
  <2>1. state' = [state EXCEPT ![p] = Sighted(@, CRITICAL)]
    BY <1>2 DEF PollFails, IngestFailure
  <2> QED BY <1>0, <2>1 DEF AfterPoll
<1>3. CASE PollAborts(p)
  <2>1. CASE AbortsAtCheck(p)
    <3>1. PICK r \in Reports(p) : \E x \in Published(r) : \E done \in SUBSET (Published(r) \ {x}) :
            state' = [j \in Ids |-> CASE j \in done -> Sighted(state[j], r[j])
                                      [] j = x     -> HalfSighted(state[j], r[j])
                                      [] OTHER     -> state[j]]
      BY <2>1 DEF AbortsAtCheck
    <3>2. PICK x \in Published(r), done \in SUBSET Published(r) :
            state' = [j \in Ids |-> CASE j \in done -> Sighted(state[j], r[j])
                                      [] j = x     -> HalfSighted(state[j], r[j])
                                      [] OTHER     -> state[j]]
      BY <3>1
    <3>3. i \in Published(r) => r[i] \in Severities
      BY ReportFacts
    <3>4. CASE i \in done
      BY <3>2, <3>3, <3>4 DEF AfterPoll
    <3>5. CASE i = x
      BY <3>2, <3>3, <3>5 DEF AfterPoll
    <3>6. CASE i \notin done /\ i # x
      BY <3>2, <3>6 DEF AfterPoll
    <3> QED BY <3>4, <3>5, <3>6
  <2>2. CASE AbortsAtVanished(p)
    <3>1. PICK r \in Reports(p) : \E u : \E x \in Vanished(p, r, u) : \E done \in SUBSET (Vanished(p, r, u) \ {x}) :
            state' = [j \in Ids |->
                        CASE j \in Published(r)                              -> Sighted(state[j], r[j])
                          [] j \in done \ Ephemeral /\ ~state[j].gone       -> Tombstone(state[j])
                          [] OTHER                                           -> state[j]]
      BY <2>2 DEF AbortsAtVanished
    <3>2. PICK u : \E done \in SUBSET Vanished(p, r, u) :
            state' = [j \in Ids |->
                        CASE j \in Published(r)                              -> Sighted(state[j], r[j])
                          [] j \in done \ Ephemeral /\ ~state[j].gone       -> Tombstone(state[j])
                          [] OTHER                                           -> state[j]]
      BY <3>1
    <3>3. PICK done \in SUBSET Vanished(p, r, u) :
            state' = [j \in Ids |->
                        CASE j \in Published(r)                              -> Sighted(state[j], r[j])
                          [] j \in done \ Ephemeral /\ ~state[j].gone       -> Tombstone(state[j])
                          [] OTHER                                           -> state[j]]
      BY <3>2
    <3>4. CASE i \in Published(r)
      <4>1. r[i] \in Severities
        BY <3>4, ReportFacts
      <4>2. i \notin done
        BY <3>4, VanishedFacts DEF TypeOK
      <4>3. state'[i] = Sighted(state[i], r[i])
        BY <3>3, <3>4, <4>2
      <4> QED BY <4>1, <4>3 DEF AfterPoll
    <3>5. CASE i \notin Published(r) /\ i \in done \ Ephemeral /\ ~state[i].gone
      <4>1. ~Absent(state[i])
        BY <3>5 DEF Vanished, Missing
      <4> QED BY <3>3, <3>5, <4>1 DEF AfterPoll
    <3>6. CASE i \notin Published(r) /\ ~(i \in done \ Ephemeral /\ ~state[i].gone)
      BY <3>3, <3>6 DEF AfterPoll
    <3> QED BY <3>4, <3>5, <3>6
  <2>3. CASE AbortsAtPanel(p)
    <3>1. \/ \E r \in Reports(p) : \E u : state' = [AfterChecks(p, r, u) EXCEPT ![p] = Sighted(@, OK)]
          \/ state' = [state EXCEPT ![p] = Sighted(@, CRITICAL)]
      BY <2>3 DEF AbortsAtPanel
    <3>2. CASE \E r \in Reports(p) : \E u : state' = [AfterChecks(p, r, u) EXCEPT ![p] = Sighted(@, OK)]
      <4>1. PICK r \in Reports(p) : \E u : state' = [AfterChecks(p, r, u) EXCEPT ![p] = Sighted(@, OK)]
        BY <3>2
      <4>2. PICK u : state' = [AfterChecks(p, r, u) EXCEPT ![p] = Sighted(@, OK)]
        BY <4>1
      <4>3. CASE i = p
        <5>1. state'[p] = Sighted(state[p], OK)
          BY <1>0, <4>2, PanelAfterPoll DEF AfterChecks
        <5> QED BY <1>0, <4>3, <5>1 DEF AfterPoll
      <4>4. CASE i # p
        BY <4>2, <4>4, ChecksAfterPoll DEF AfterChecks
      <4> QED BY <4>3, <4>4
    <3>3. CASE state' = [state EXCEPT ![p] = Sighted(@, CRITICAL)]
      BY <1>0, <3>3 DEF AfterPoll
    <3> QED BY <3>1, <3>2, <3>3
  <2> QED BY <1>3, <2>1, <2>2, <2>3 DEF PollAborts
<1> QED BY <1>1, <1>2, <1>3 DEF Polled

\* Polling notifies of nothing: what it leaves as notified of a failure was so.
LEMMA PollNotifies ==
  ASSUME NEW i, NEW e \in Entry, NEW f, AfterPoll(i, e, f), f.notified \in BAD
  PROVE  f.notified = e.notified /\ f.delivered = e.delivered
<1>1. CASE f = e
  BY <1>1
<1>2. ASSUME NEW s \in Severities, f = Sighted(e, s) PROVE f.notified = e.notified /\ f.delivered = e.delivered
  BY <1>2, SeverityFacts, BlankTypes DEF Sighted, Entry, NoEntry
<1>3. ASSUME NEW s \in Severities, f = HalfSighted(e, s) PROVE f.notified = e.notified /\ f.delivered = e.delivered
  <2>1. CASE Absent(e)
    BY <1>2, <1>3, <2>1 DEF HalfSighted
  <2>2. CASE ~Absent(e)
    BY <1>3, <2>2 DEF HalfSighted, Entry
  <2> QED BY <2>1, <2>2
<1>4. CASE f = Tombstone(e)
  BY <1>4 DEF Tombstone, Entry
<1>5. CASE f = NoEntry
  BY <1>5, SeverityFacts DEF NoEntry
<1> QED BY <1>1, <1>2, <1>3, <1>4, <1>5 DEF AfterPoll

LEMMA SightedKnown ==
  ASSUME NEW e \in Entry, NEW s \in Severities
  PROVE  ~Absent(Sighted(e, s))
BY SeverityFacts DEF Sighted, Absent, NoEntry, Entry

\* What a poll saves of an id, it knows.
LEMMA SavedIsKnown ==
  ASSUME TypeOK, NEW p \in Panels, NEW r \in Reports(p), NEW u,
         NEW i \in Published(r) \cup Entombed(p, r, u) \cup {p},
         state' = [AfterChecks(p, r, u) EXCEPT ![p] = Sighted(@, OK)]
  PROVE  i \in Ids /\ ~Absent(state'[i])
<1>0. state \in [Ids -> Entry] /\ p \in Ids /\ p \notin Checks /\ OK \in Severities
  BY IdsFacts, SeverityFacts DEF TypeOK
<1>1. /\ Published(r) \subseteq Checks /\ Entombed(p, r, u) \subseteq Checks
      /\ Published(r) \cap Lapsed(p, r, u) = {} /\ Published(r) \cap Entombed(p, r, u) = {}
      /\ Lapsed(p, r, u) \cap Entombed(p, r, u) = {}
  BY VanishedFacts DEF TypeOK, Published
<1>2. CASE i = p
  <2>1. state'[i] = Sighted(state[p], OK)
    BY <1>0, <1>2, PanelAfterPoll DEF AfterChecks
  <2> QED BY <1>0, <1>2, <2>1, SightedKnown
<1>3. CASE i \in Published(r)
  <2>1. i \in Ids /\ i # p /\ r[i] \in Severities
    BY <1>0, <1>1, <1>3, IdsFacts, ReportFacts
  <2>2. state'[i] = Sighted(state[i], r[i])
    BY <1>0, <1>1, <1>3, <2>1 DEF AfterChecks
  <2> QED BY <1>0, <2>1, <2>2, SightedKnown
<1>4. CASE i \in Entombed(p, r, u)
  <2>1. i \in Ids /\ i # p
    BY <1>0, <1>1, <1>4, IdsFacts
  <2>2. state'[i] = Tombstone(state[i])
    BY <1>0, <1>1, <1>4, <2>1 DEF AfterChecks
  <2> QED BY <1>0, <2>1, <2>2, TombstoneBlanks
<1> QED BY <1>2, <1>3, <1>4

LEMMA RowAfterPoll ==
  ASSUME TypeOK, NEW p \in Panels, Polled(p), NEW i \in Ids
  PROVE  \/ db'[i] = db[i]
         \/ db'[i] = NoRow
         \/ ~Absent(state'[i]) /\ db'[i] = SavedRow(state'[i], db[i])
<1>1. CASE PollSucceeds(p)
  <2>1. PICK r \in Reports(p) : \E u, o :
          /\ state' = [AfterChecks(p, r, u) EXCEPT ![p] = Sighted(@, OK)]
          /\ db' = Written(db, state', Published(r) \cup Entombed(p, r, u) \cup {p}, Lapsed(p, r, u), o)
    BY <1>1 DEF PollSucceeds, IngestSuccess
  <2>2. PICK u, o :
          /\ state' = [AfterChecks(p, r, u) EXCEPT ![p] = Sighted(@, OK)]
          /\ db' = Written(db, state', Published(r) \cup Entombed(p, r, u) \cup {p}, Lapsed(p, r, u), o)
    BY <2>1
  <2>3. i \in Published(r) \cup Entombed(p, r, u) \cup {p} => ~Absent(state'[i])
    BY <2>2, SavedIsKnown
  <2> DEFINE rows == Published(r) \cup Entombed(p, r, u) \cup {p}
  <2>4. \/ db'[i] = db[i] \/ db'[i] = NoRow
        \/ i \in rows /\ db'[i] = SavedRow(state'[i], db[i])
    <3> HIDE DEF rows
    <3>1. db' = Written(db, state', rows, Lapsed(p, r, u), o)
      BY <2>2 DEF rows
    <3> QED BY <3>1 DEF Written
  <2> QED BY <2>3, <2>4
<1>2. CASE PollFails(p)
  <2>1. PICK o : /\ state' = [state EXCEPT ![p] = Sighted(@, CRITICAL)]
                 /\ db' = Written(db, state', {p}, {}, o)
    BY <1>2 DEF PollFails, IngestFailure
  <2>2. ~Absent(state'[p])
    <3>1. state'[p] = Sighted(state[p], CRITICAL) /\ state[p] \in Entry /\ CRITICAL \in Severities
      BY <2>1, IdsFacts DEF TypeOK, Severities
    <3> QED BY <3>1, SightedKnown
  <2>3. \/ db'[i] = db[i] \/ db'[i] = NoRow
        \/ i \in {p} /\ db'[i] = SavedRow(state'[i], db[i])
    BY <2>1 DEF Written
  <2> QED BY <2>2, <2>3
<1>3. CASE PollAborts(p)
  <2>1. db' = db \/ \E gone, o : db' = Written(db, state', {}, gone, o)
    BY <1>3 DEF PollAborts, AbortsAtCheck, AbortsAtVanished, AbortsAtPanel
  <2> QED BY <2>1 DEF Written
<1> QED BY <1>1, <1>2, <1>3 DEF Polled

\* A settlement at n leaves an entry, drops a tombstone it pays, or marks it;
\* what that makes of the entry's row.
SettlesTo(e, n, sent, f) ==
  \/ f = e
  \/ n # None /\ e.gone /\ e.severity = n /\ f = NoEntry
  \/ n # None /\ ~Absent(e) /\ f = [e EXCEPT !.notified = n, !.delivered = sent]

RowSettled(e, n, row, new) ==
  \/ new = row
  \/ new = NoRow
  \/ n # None /\ ~Absent(e) /\ new = [severity |-> e.severity, notified |-> n]

LEMMA MarkedEntry ==
  ASSUME NEW st \in [Ids -> Entry], NEW told, NEW sent, NEW i \in Ids
  PROVE  SettlesTo(st[i], told[i], sent, Marked(st, told, sent)[i])
BY DEF Marked, SettlesTo

MarkedAt(e, n, sent, f) ==
  /\ n # None /\ ~Absent(e)
  /\ f.notified = n /\ f.delivered = sent
  /\ f.severity = e.severity /\ f.gone = e.gone

LEMMA SettledEntry ==
  ASSUME NEW e \in Entry, NEW n, NEW sent, NEW f, SettlesTo(e, n, sent, f)
  PROVE  f = e \/ (n # None /\ f = NoEntry) \/ MarkedAt(e, n, sent, f)
<1>1. CASE n # None /\ ~Absent(e) /\ f = [e EXCEPT !.notified = n, !.delivered = sent]
  <2>1. f.notified = n /\ f.delivered = sent /\ f.severity = e.severity /\ f.gone = e.gone
    BY <1>1 DEF Entry
  <2> QED BY <1>1, <2>1 DEF MarkedAt
<1> QED BY <1>1 DEF SettlesTo

LEMMA MarkedRow ==
  ASSUME NEW st \in [Ids -> Entry], NEW table, NEW told, NEW o, NEW i \in Ids
  PROVE  RowSettled(st[i], told[i], table[i], MarkedRows(table, st, told, o)[i])
<1> DEFINE new == Marked(st, told, FALSE)
           o2 == [o EXCEPT !.forget = @ /\ (o.save \/ Rows(st, told) = {})]
<1>1. MarkedRows(table, st, told, o)[i] = Written(table, new, Rows(st, told), Paid(st, told), o2)[i]
  BY DEF MarkedRows
<1>2. CASE i \in Rows(st, told)
  <2>1. new[i].severity = st[i].severity
    BY <1>2, MarkedKept
  <2>2. new[i].notified = told[i]
    BY <1>2, MarkedKept
  <2>3. told[i] # None /\ ~Absent(st[i])
    BY <1>2 DEF Rows, Known
  <2>4. SavedRow(new[i], table[i]) = [severity |-> st[i].severity, notified |-> told[i]]
    BY <2>1, <2>2, <2>3 DEF SavedRow
  <2>5. \/ Written(table, new, Rows(st, told), Paid(st, told), o2)[i] = table[i]
        \/ Written(table, new, Rows(st, told), Paid(st, told), o2)[i] = NoRow
        \/ Written(table, new, Rows(st, told), Paid(st, told), o2)[i] = SavedRow(new[i], table[i])
    <3> HIDE DEF new, o2
    <3> QED BY DEF Written
  <2> HIDE DEF new, o2
  <2> QED BY <1>1, <2>3, <2>4, <2>5 DEF RowSettled
<1>3. CASE i \notin Rows(st, told)
  <2> HIDE DEF new, o2
  <2> QED BY <1>1, <1>3 DEF Written, RowSettled
<1> QED BY <1>2, <1>3

\* What a drain settles without a word, and how.
Silent == MutedRecoveries \cup (Owed \ ToSend)

LEMMA DrainEntry ==
  ASSUME TypeOK, NEW force \in BOOLEAN, Drain(force), NEW i \in Ids
  PROVE  SettlesTo(state[i], News(Silent)[i], FALSE, state'[i])
<1>1. state' = Marked(state, News(Silent), FALSE) /\ state \in [Ids -> Entry]
  BY DEF Drain, Silent, TypeOK
<1> QED BY <1>1, MarkedEntry

LEMMA DrainRow ==
  ASSUME TypeOK, NEW force \in BOOLEAN, Drain(force), NEW i \in Ids
  PROVE  RowSettled(state[i], News(Silent)[i], db[i], db'[i])
<1> DEFINE muted == News(MutedRecoveries)
           rest == News(Owed \ ToSend)
<1>1. PICK o1, o2 : db' = MarkedRows(MarkedRows(db, state, muted, o1), state, rest, o2)
  BY DEF Drain
<1> DEFINE table == MarkedRows(db, state, muted, o1)
<1>2. /\ muted[i] # None => muted[i] = News(Silent)[i]
      /\ rest[i] # None => rest[i] = News(Silent)[i]
  BY DEF News, Silent
<1>3. state \in [Ids -> Entry]
  BY DEF TypeOK
<1>4. RowSettled(state[i], muted[i], db[i], table[i])
  <2> HIDE DEF muted
  <2> QED BY <1>3, MarkedRow
<1>5. RowSettled(state[i], rest[i], table[i], db'[i])
  <2> HIDE DEF rest, table
  <2>1. db' = MarkedRows(table, state, rest, o2)
    BY <1>1 DEF table
  <2> QED BY <1>3, <2>1, MarkedRow
<1> HIDE DEF muted, rest, table
<1> QED BY <1>2, <1>4, <1>5 DEF RowSettled

\* What is settled in silence: muted recoveries, or what is not notable.
LEMMA SilentNews ==
  ASSUME NEW i \in Ids, News(Silent)[i] # None
  PROVE  /\ News(Silent)[i] = state[i].severity
         /\ \/ state[i].severity = OK /\ i \in mutes
            \/ i \notin mutes /\ i \in Owed /\ i \notin ToSend
BY DEF News, Silent, MutedRecoveries, Owed

\* A drain says nothing of a recovery but to who knows of the failure.
LEMMA DrainBatch ==
  ASSUME TypeOK, NEW force \in BOOLEAN, Drain(force), NEW i \in Ids, batch'[i] # None
  PROVE  /\ i \in ToSend /\ batch'[i] = state[i].severity
BY DEF Drain, News, NoBatch
-----------------------------------------------------------------------------
\* A muted failure stays owed, for any checks, configurations and
\* disturbances: polls notify of nothing, the worker settles of the muted
\* only recoveries, and an accepted request marks what it carried.
THEOREM MutedFailuresStayOwed == Spec => MutedFailureStaysOwed
<1>1. ASSUME TypeOK, [Next]_vars, phase = "up", NEW i \in mutes,
             state'[i].notified \in BAD \ {state[i].notified}
      PROVE  batch[i] = state'[i].notified
  <2>0. i \in Ids /\ state \in [Ids -> Entry] /\ state[i] \in Entry /\ batch \in Told
    BY <1>1, KindsAssumption DEF TypeOK, Told
  <2>1. ASSUME NEW p \in Panels, Polled(p) PROVE FALSE
    BY <1>1, <2>0, <2>1, EntryAfterPoll, PollNotifies
  <2>2. ASSUME WorkerDrains PROVE FALSE
    <3>1. Drain(FALSE)
      BY <2>2 DEF WorkerDrains
    <3>2. News(Silent)[i] # None => News(Silent)[i] = OK
      BY <1>1, <2>0, SilentNews
    <3>3. SettlesTo(state[i], News(Silent)[i], FALSE, state'[i])
      BY <1>1, <2>0, <3>1, DrainEntry
    <3>4. \/ state'[i] = state[i] \/ state'[i] = NoEntry
          \/ MarkedAt(state[i], News(Silent)[i], FALSE, state'[i])
      BY <2>0, <3>3, SettledEntry
    <3> QED BY <1>1, <3>2, <3>4, SeverityFacts DEF NoEntry, MarkedAt
  <2>3. CASE DeliveryAccepted
    <3>1. state' = Marked(state, batch, TRUE)
      BY <2>3 DEF DeliveryAccepted
    <3>2. SettlesTo(state[i], batch[i], TRUE, state'[i])
      BY <2>0, <3>1, MarkedEntry
    <3>3. \/ state'[i] = state[i] \/ state'[i] = NoEntry
          \/ MarkedAt(state[i], batch[i], TRUE, state'[i])
      BY <2>0, <3>2, SettledEntry
    <3> QED BY <1>1, <3>3, SeverityFacts DEF NoEntry, MarkedAt
  <2>4. ASSUME Halt \/ Crash PROVE FALSE
    <3>1. state'[i] = NoEntry
      BY <2>0, <2>4 DEF Halt, Crash, MemoryLost
    <3> QED BY <1>1, <3>1, SeverityFacts DEF NoEntry
  <2>5. ASSUME state' = state PROVE FALSE
    BY <1>1, <2>5
  <2>6. DeliveryFails \/ RetryDue \/ GraceEnds \/ Stop \/ FinalTimeout \/ UNCHANGED vars => state' = state
    BY DEF DeliveryFails, RetryDue, GraceEnds, Stop, FinalTimeout, vars
  <2>7. (\E j \in Mutable : Mute(j) \/ MuteEnds(j)) => state' = state
    BY DEF Mute, MuteEnds, engineVars
  <2>8. ~Start /\ ~FinalDrain
    BY <1>1 DEF Start, FinalDrain
  <2> QED
    BY <1>1, <2>1, <2>2, <2>3, <2>4, <2>5, <2>6, <2>7, <2>8 DEF Next, Polled
<1>2. TypeOK /\ [Next]_vars
        => [phase = "up" => \A i \in mutes : state'[i].notified \in BAD \ {state[i].notified}
                                              => batch[i] = state'[i].notified]_vars
  BY <1>1
<1> QED
  BY <1>2, Typing, PTL DEF Spec, MutedFailureStaysOwed
-----------------------------------------------------------------------------
(* Nothing is forgotten silently.  An id without an entry, or without a    *)
(* row, has nothing else either, and a tombstone is observed OK: so what a *)
(* poll drops owed nothing, and what a settlement drops was told or muted. *)
(* Unlike DurableDebts this holds whatever writes fail.                    *)
Neat ==
  \A i \in Ids :
    /\ Absent(state[i]) => state[i] = NoEntry
    /\ db[i].severity = "absent" => db[i] = NoRow
    /\ state[i].gone => state[i].severity = OK

NeatEntry(e) == /\ Absent(e) => e = NoEntry
                /\ e.gone => e.severity = OK
NeatRow(row) == row.severity = "absent" => row = NoRow

LEMMA PolledNeat ==
  ASSUME NEW i, NEW e \in Entry, NEW f, AfterPoll(i, e, f), NeatEntry(e)
  PROVE  NeatEntry(f)
<1>0. NeatEntry(NoEntry)
  BY DEF NeatEntry, NoEntry
<1>1. ASSUME NEW s \in Severities, f = Sighted(e, s) PROVE NeatEntry(f)
  <2>1. ~Absent(f)
    BY <1>1, SightedKnown
  <2>2. ~f.gone
    BY <1>1 DEF Sighted, NoEntry, Entry
  <2> QED BY <2>1, <2>2 DEF NeatEntry
<1>2. ASSUME NEW s \in Severities, f = HalfSighted(e, s) PROVE NeatEntry(f)
  <2>1. CASE Absent(e)
    BY <1>1, <1>2, <2>1 DEF HalfSighted
  <2>2. CASE ~Absent(e)
    <3>1. f.severity = e.severity /\ ~f.gone
      BY <1>2, <2>2 DEF HalfSighted, Entry
    <3> QED BY <2>2, <3>1 DEF NeatEntry, Absent
  <2> QED BY <2>1, <2>2
<1>3. ASSUME f = Tombstone(e) PROVE NeatEntry(f)
  <2>1. f.severity = OK
    BY <1>3 DEF Tombstone, Entry
  <2> QED BY <2>1, SeverityFacts DEF NeatEntry, Absent
<1> QED BY <1>0, <1>1, <1>2, <1>3 DEF AfterPoll

LEMMA SettledNeat ==
  ASSUME NEW e \in Entry, NEW n, NEW sent, NEW f, SettlesTo(e, n, sent, f), NeatEntry(e)
  PROVE  NeatEntry(f)
<1>1. f = e \/ (n # None /\ f = NoEntry) \/ MarkedAt(e, n, sent, f)
  BY SettledEntry
<1>2. NeatEntry(NoEntry)
  BY DEF NeatEntry, NoEntry
<1>3. MarkedAt(e, n, sent, f) => NeatEntry(f)
  BY DEF MarkedAt, NeatEntry, Absent
<1> QED BY <1>1, <1>2, <1>3

LEMMA RowsNeat ==
  ASSUME NEW e \in Entry, NEW row \in Row, NeatRow(row), NEW new, NEW n,
         new = row \/ new = NoRow \/ (~Absent(e) /\ new = SavedRow(e, row)) \/ RowSettled(e, n, row, new)
  PROVE  NeatRow(new)
BY DEF NeatRow, NoRow, SavedRow, RowSettled, Absent

LEMMA NextNeat ==
  ASSUME TypeOK, Neat, [Next]_vars
  PROVE  Neat'
<1> SUFFICES ASSUME NEW i \in Ids PROVE NeatEntry(state'[i]) /\ NeatRow(db'[i])
  BY DEF Neat, NeatEntry, NeatRow
<1>0. /\ state \in [Ids -> Entry] /\ state[i] \in Entry /\ db[i] \in Row /\ batch \in Told
      /\ state'[i] \in Entry
  BY NextType DEF TypeOK, Told
<1>1. NeatEntry(state[i]) /\ NeatRow(db[i])
  BY DEF Neat, NeatEntry, NeatRow
<1>2. ASSUME NEW p \in Panels, Polled(p) PROVE NeatEntry(state'[i]) /\ NeatRow(db'[i])
  <2>1. NeatEntry(state'[i])
    BY <1>0, <1>1, <1>2, EntryAfterPoll, PolledNeat
  <2>2. \/ db'[i] = db[i]
        \/ db'[i] = NoRow
        \/ ~Absent(state'[i]) /\ db'[i] = SavedRow(state'[i], db[i])
    BY <1>2, RowAfterPoll
  <2> QED BY <1>0, <1>1, <2>1, <2>2, RowsNeat
<1>3. ASSUME NEW force \in BOOLEAN, Drain(force) PROVE NeatEntry(state'[i]) /\ NeatRow(db'[i])
  <2>1. SettlesTo(state[i], News(Silent)[i], FALSE, state'[i])
    BY <1>3, DrainEntry
  <2>2. RowSettled(state[i], News(Silent)[i], db[i], db'[i])
    BY <1>3, DrainRow
  <2> QED BY <1>0, <1>1, <2>1, <2>2, SettledNeat, RowsNeat
<1>4. ASSUME DeliveryAccepted PROVE NeatEntry(state'[i]) /\ NeatRow(db'[i])
  <2>1. SettlesTo(state[i], batch[i], TRUE, state'[i])
    BY <1>0, <1>4, MarkedEntry DEF DeliveryAccepted
  <2>2. RowSettled(state[i], batch[i], db[i], db'[i])
    BY <1>0, <1>4, MarkedRow DEF DeliveryAccepted
  <2> QED BY <1>0, <1>1, <2>1, <2>2, SettledNeat, RowsNeat
<1>5. ASSUME Start PROVE NeatEntry(state'[i]) /\ NeatRow(db'[i])
  <2>1. state'[i] = NoEntry \/ state'[i] = Restored(db[i])
    BY <1>5 DEF Start
  <2>2. NeatEntry(NoEntry) /\ NeatEntry(Restored(db[i]))
    <3>1. CASE db[i].severity = "absent"
      <4>1. Restored(db[i]) = NoEntry
        BY <1>1, <3>1, RestoredBlank DEF NeatRow
      <4> QED BY <4>1 DEF NeatEntry, NoEntry
    <3>2. CASE db[i].severity # "absent"
      <4>1. Restored(db[i]).severity = db[i].severity /\ ~Restored(db[i]).gone
        BY DEF Restored, NoEntry
      <4> QED BY <3>2, <4>1 DEF NeatEntry, NoEntry, Absent
    <3> QED BY <3>1, <3>2
  <2>3. db' = db \/ \E st, gone, o : db' = Written(db, st, {}, gone, o)
    BY <1>5 DEF Start
  <2>4. db'[i] = db[i] \/ db'[i] = NoRow
    BY <2>3 DEF Written
  <2> QED BY <1>0, <1>1, <2>1, <2>2, <2>4, RowsNeat
<1>6. ASSUME Halt \/ Crash PROVE NeatEntry(state'[i]) /\ NeatRow(db'[i])
  <2>1. state'[i] = NoEntry /\ db' = db
    BY <1>6 DEF Halt, Crash, MemoryLost
  <2> QED BY <1>1, <2>1 DEF NeatEntry, NoEntry
<1>7. DeliveryFails \/ RetryDue \/ GraceEnds \/ Stop \/ FinalTimeout \/ UNCHANGED vars
        => state' = state /\ db' = db
  BY DEF DeliveryFails, RetryDue, GraceEnds, Stop, FinalTimeout, vars
<1>8. (\E j \in Mutable : Mute(j) \/ MuteEnds(j)) => state' = state /\ db' = db
  BY DEF Mute, MuteEnds, engineVars
<1> QED
  BY <1>1, <1>2, <1>3, <1>4, <1>5, <1>6, <1>7, <1>8 DEF Next, Polled, WorkerDrains, FinalDrain

\* What leaves the engine's memory while it runs was an event, was told as
\* recovered in that very step, or is muted: for any checks, configurations
\* and disturbances.
THEOREM NothingForgottenUntold == Spec => ForgottenOnlyWhenTold
<1>1. ASSUME TypeOK, Neat, [Next]_vars, NEW i \in Ids \ Ephemeral,
             phase = "up", phase' = "up", conf.configured,
             state[i].notified \in BAD, rank(state[i].notified) >= rank(conf.floor), Absent(state'[i])
      PROVE  heard'[i] = OK \/ i \in mutes
  <2>0. state \in [Ids -> Entry] /\ state[i] \in Entry /\ batch \in Told /\ heard \in Told
    BY <1>1 DEF TypeOK, Told
  <2>1. NeatEntry(state[i]) /\ ~Absent(state[i])
    BY <1>1, SeverityFacts DEF Neat, NeatEntry, NoEntry
  <2>2. ASSUME NEW p \in Panels, Polled(p) PROVE FALSE
    <3>1. AfterPoll(i, state[i], state'[i])
      BY <1>1, <2>2, EntryAfterPoll
    <3>2. ~Lapses(i, state[i])
      BY <1>1, <2>1, SeverityFacts DEF Lapses, NeatEntry
    <3>3. ASSUME NEW s \in Severities PROVE ~Absent(Sighted(state[i], s)) /\ ~Absent(HalfSighted(state[i], s))
      <4>1. HalfSighted(state[i], s).severity = state[i].severity
        BY <2>0, <2>1 DEF HalfSighted, Entry
      <4> QED BY <2>0, <2>1, <4>1, SightedKnown DEF Absent
    <3>4. ~Absent(Tombstone(state[i]))
      BY <2>0, TombstoneBlanks
    <3> QED BY <1>1, <2>1, <3>1, <3>2, <3>3, <3>4 DEF AfterPoll
  <2>3. CASE WorkerDrains
    <3>1. Drain(FALSE)
      BY <2>3 DEF WorkerDrains
    <3>2. SettlesTo(state[i], News(Silent)[i], FALSE, state'[i])
      BY <1>1, <3>1, DrainEntry
    <3>3. \/ state'[i] = state[i]
          \/ News(Silent)[i] # None
      BY <3>2 DEF SettlesTo
    <3>4. News(Silent)[i] # None
      BY <1>1, <2>1, <3>3
    <3>5. i \in mutes \/ (i \in Owed /\ i \notin ToSend)
      BY <1>1, <3>4, SilentNews
    <3>6. ASSUME i \in Owed PROVE i \in ToSend
      BY <1>1, <3>6 DEF ToSend, Notable, ReceiverKnowsOld
    <3> QED BY <3>5, <3>6
  <2>4. CASE DeliveryAccepted
    <3>1. SettlesTo(state[i], batch[i], TRUE, state'[i])
      BY <1>1, <2>0, <2>4, MarkedEntry DEF DeliveryAccepted
    <3>2. state'[i] # [state[i] EXCEPT !.notified = batch[i], !.delivered = TRUE]
      BY <1>1, <2>0, <2>1 DEF Absent, Entry
    <3>3. batch[i] # None /\ state[i].gone /\ state[i].severity = batch[i]
      BY <1>1, <2>1, <3>1, <3>2 DEF SettlesTo
    <3>4. batch[i] = OK
      BY <2>1, <3>3 DEF NeatEntry
    <3>5. heard'[i] = batch[i]
      BY <1>1, <2>4, <3>3 DEF DeliveryAccepted, HeardAfter
    <3> QED BY <3>4, <3>5
  <2>5. DeliveryFails \/ RetryDue \/ GraceEnds \/ Stop \/ FinalTimeout \/ UNCHANGED vars => state' = state
    BY DEF DeliveryFails, RetryDue, GraceEnds, Stop, FinalTimeout, vars
  <2>6. (\E j \in Mutable : Mute(j) \/ MuteEnds(j)) => state' = state
    BY DEF Mute, MuteEnds, engineVars
  <2>7. ~Start /\ ~FinalDrain /\ ~Halt /\ ~Crash
    BY <1>1 DEF Start, FinalDrain, Halt, Crash, MemoryLost
  <2>8. state' # state
    BY <1>1, <2>1
  <2> QED
    BY <1>1, <2>2, <2>3, <2>4, <2>5, <2>6, <2>7, <2>8 DEF Next, Polled
<1>2. Init => Neat
  BY DEF Init, Neat, NoEntry
<1>3. TypeOK /\ Neat /\ [Next]_vars => Neat'
  BY NextNeat
<1>4. TypeOK /\ Neat /\ [Next]_vars
        => [\A i \in Ids \ Ephemeral :
              /\ phase = "up" /\ phase' = "up" /\ conf.configured
              /\ state[i].notified \in BAD /\ rank(state[i].notified) >= rank(conf.floor)
              /\ Absent(state'[i])
              => heard'[i] = OK \/ i \in mutes]_vars
  BY <1>1
<1> QED
  BY <1>2, <1>3, <1>4, Typing, PTL DEF Spec, ForgottenOnlyWhenTold
-----------------------------------------------------------------------------
(* Recoveries are said only to who heard of the failure.  That a check is  *)
(* notified at or above the floor, in memory or in its row, or at anything *)
(* the receiver was given, means that the receiver has heard of it: which  *)
(* is why what is settled in silence may not claim more than the floor     *)
(* hides.  A restart with a lower floor would make such a silence look     *)
(* like a message, and a floor of `ok' makes every recovery one.           *)
OneFloor ==
  \E f \in Severities \ {OK} : \A cf \in Configs : cf.configured /\ cf.floor = f

Informed ==
  /\ conf \in Configs
  /\ \A i \in Ids :
       /\ ReceiverKnowsOld(state[i]) => heard[i] # None
       /\ db[i].notified \in BAD /\ rank(db[i].notified) >= rank(conf.floor) => heard[i] # None
       /\ batch[i] = OK => heard[i] # None

\* The same of one entry and one row.
Claims(e) == e.notified \in BAD /\ (rank(e.notified) >= rank(conf.floor) \/ e.delivered)
RowClaims(row) == row.notified \in BAD /\ rank(row.notified) >= rank(conf.floor)

LEMMA BlankClaims == ~Claims(NoEntry) /\ ~RowClaims(NoRow)
BY SeverityFacts DEF Claims, RowClaims, NoEntry, NoRow

\* The receiver never forgets.
LEMMA HeardGrows ==
  ASSUME TypeOK, NEW got, heard' = HeardAfter(got) \/ heard' = heard, NEW i \in Ids, heard[i] # None
  PROVE  heard'[i] # None
BY DEF HeardAfter

LEMMA PolledClaims ==
  ASSUME NEW i, NEW e \in Entry, NEW f, AfterPoll(i, e, f), Claims(f)
  PROVE  Claims(e)
<1>1. f.notified \in BAD
  BY DEF Claims
<1>2. f.notified = e.notified /\ f.delivered = e.delivered
  BY <1>1, PollNotifies
<1> QED BY <1>2 DEF Claims

LEMMA SavedClaims ==
  ASSUME NEW e, NEW row, RowClaims(SavedRow(e, row))
  PROVE  Claims(e) \/ RowClaims(row)
BY SeverityFacts DEF RowClaims, Claims, SavedRow

\* What is settled in silence claims nothing.
LEMMA SilentClaims ==
  ASSUME TypeOK, conf \in Configs, OneFloor, NEW i \in Ids, News(Silent)[i] # None
  PROVE  ~(News(Silent)[i] \in BAD /\ rank(News(Silent)[i]) >= rank(conf.floor))
<1>1. /\ News(Silent)[i] = state[i].severity
      /\ \/ state[i].severity = OK /\ i \in mutes
         \/ i \notin mutes /\ i \in Owed /\ i \notin ToSend
  BY SilentNews
<1>2. CASE state[i].severity = OK
  BY <1>1, <1>2, SeverityFacts
<1>3. CASE i \in Owed /\ i \notin ToSend
  <2>1. ~Notable(state[i])
    BY <1>3 DEF ToSend, OneFloor
  <2> QED BY <1>1, <2>1 DEF Notable
<1> QED BY <1>1, <1>2, <1>3

LEMMA DrainInformed ==
  ASSUME TypeOK, Informed, OneFloor, NEW force \in BOOLEAN, Drain(force), conf' = conf, heard' = heard
  PROVE  Informed'
<1>0. conf \in Configs /\ state \in [Ids -> Entry]
  BY DEF Informed, TypeOK
<1>1. ASSUME NEW i \in Ids, Claims(state'[i]) PROVE heard[i] # None
  <2>1. SettlesTo(state[i], News(Silent)[i], FALSE, state'[i])
    BY DrainEntry
  <2>2. \/ state'[i] = state[i]
        \/ News(Silent)[i] # None /\ state'[i] = NoEntry
        \/ MarkedAt(state[i], News(Silent)[i], FALSE, state'[i])
    BY <1>0, <2>1, SettledEntry
  <2>3. ~MarkedAt(state[i], News(Silent)[i], FALSE, state'[i])
    BY <1>0, <1>1, SilentClaims DEF MarkedAt, Claims
  <2>4. Claims(state[i])
    BY <1>1, <2>2, <2>3, BlankClaims
  <2> QED BY <2>4 DEF Informed, ReceiverKnowsOld, Claims
<1>2. ASSUME NEW i \in Ids, RowClaims(db'[i]) PROVE heard[i] # None
  <2>1. RowSettled(state[i], News(Silent)[i], db[i], db'[i])
    BY DrainRow
  <2>2. db'[i] = db[i] \/ db'[i] = NoRow \/ (News(Silent)[i] # None /\ db'[i].notified = News(Silent)[i])
    BY <2>1 DEF RowSettled
  <2>3. News(Silent)[i] # None => db'[i].notified # News(Silent)[i]
    BY <1>0, <1>2, SilentClaims DEF RowClaims
  <2>4. RowClaims(db[i])
    BY <1>2, <2>2, <2>3, BlankClaims
  <2> QED BY <2>4 DEF Informed, RowClaims
<1>3. ASSUME NEW i \in Ids, batch'[i] = OK PROVE heard[i] # None
  <2>1. i \in ToSend /\ state[i].severity = OK
    BY <1>3, DrainBatch, SeverityFacts
  <2>2. Notable(state[i])
    BY <2>1 DEF ToSend
  <2>3. ~(rank(OK) >= rank(conf.floor))
    BY <1>0 DEF OneFloor, rank, Severities, OK, UNKNOWN, WARNING, CRITICAL
  <2> QED BY <2>1, <2>2, <2>3 DEF Notable, Informed
<1> QED BY <1>0, <1>1, <1>2, <1>3 DEF Informed, ReceiverKnowsOld, Claims, RowClaims

LEMMA AcceptedInformed ==
  ASSUME TypeOK, Informed, DeliveryAccepted
  PROVE  Informed'
<1>0. /\ conf' = conf /\ state \in [Ids -> Entry] /\ batch \in Told /\ batch' = NoBatch
      /\ heard' = HeardAfter(TRUE) /\ state' = Marked(state, batch, TRUE)
      /\ \E o : db' = MarkedRows(db, state, batch, o)
  BY DEF DeliveryAccepted, TypeOK, Told
<1>1. ASSUME NEW i \in Ids PROVE /\ batch[i] # None => heard'[i] # None
                                 /\ heard[i] # None => heard'[i] # None
  BY <1>0 DEF HeardAfter
<1>2. ASSUME NEW i \in Ids, Claims(state'[i]) PROVE heard'[i] # None
  <2>1. SettlesTo(state[i], batch[i], TRUE, state'[i])
    BY <1>0, MarkedEntry
  <2>2. state'[i] = state[i] \/ batch[i] # None
    BY <2>1 DEF SettlesTo
  <2> QED BY <1>1, <1>2, <2>2 DEF Informed, ReceiverKnowsOld, Claims
<1>3. ASSUME NEW i \in Ids, RowClaims(db'[i]) PROVE heard'[i] # None
  <2>1. RowSettled(state[i], batch[i], db[i], db'[i])
    BY <1>0, MarkedRow
  <2>2. db'[i] = db[i] \/ batch[i] # None
    BY <1>3, <2>1, BlankClaims DEF RowSettled
  <2> QED BY <1>1, <1>3, <2>2 DEF Informed, RowClaims
<1>4. \A i \in Ids : batch'[i] # OK
  BY <1>0, SeverityFacts DEF NoBatch
<1> QED BY <1>0, <1>2, <1>3, <1>4 DEF Informed, ReceiverKnowsOld, Claims, RowClaims

LEMMA PollInformed ==
  ASSUME TypeOK, Informed, NEW p \in Panels, Polled(p)
  PROVE  Informed'
<1>0. conf' = conf /\ heard' = heard /\ batch' = batch /\ state \in [Ids -> Entry]
  BY DEF Polled, PollSucceeds, PollFails, PollAborts, TypeOK
<1>1. ASSUME NEW i \in Ids, Claims(state'[i]) PROVE heard[i] # None
  <2>1. Claims(state[i])
    BY <1>0, <1>1, EntryAfterPoll, PolledClaims
  <2> QED BY <2>1 DEF Informed, ReceiverKnowsOld, Claims
<1>2. ASSUME NEW i \in Ids, RowClaims(db'[i]) PROVE heard[i] # None
  <2>1. db'[i] = db[i] \/ db'[i] = NoRow \/ db'[i] = SavedRow(state'[i], db[i])
    BY RowAfterPoll
  <2>2. RowClaims(db[i]) \/ Claims(state'[i])
    BY <1>2, <2>1, BlankClaims, SavedClaims
  <2> QED BY <1>1, <2>2 DEF Informed, RowClaims
<1> QED BY <1>0, <1>1, <1>2 DEF Informed, ReceiverKnowsOld, Claims, RowClaims

LEMMA StartInformed ==
  ASSUME TypeOK, Informed, OneFloor, Start
  PROVE  Informed'
<1>0. conf' \in Configs /\ conf'.floor = conf.floor /\ heard' = heard /\ batch' = batch
  BY DEF Start, OneFloor, Informed
<1>1. ASSUME NEW i \in Ids
      PROVE  state'[i] = NoEntry \/ state'[i] = Restored(db[i])
  BY DEF Start
<1>2. ASSUME NEW i \in Ids PROVE db'[i] = db[i] \/ db'[i] = NoRow
  <2>1. db' = db \/ \E st, gone, o : db' = Written(db, st, {}, gone, o)
    BY DEF Start
  <2> QED BY <2>1 DEF Written
<1>3. ASSUME NEW i \in Ids, Claims(state'[i]) PROVE heard[i] # None
  <2>1. Restored(db[i]).notified = db[i].notified /\ ~Restored(db[i]).delivered
    BY DEF Restored, NoEntry
  <2>2. RowClaims(db[i])
    BY <1>1, <1>3, <2>1, BlankClaims DEF Claims, RowClaims
  <2> QED BY <2>2 DEF Informed, RowClaims
<1>4. ASSUME NEW i \in Ids, RowClaims(db'[i]) PROVE heard[i] # None
  BY <1>2, <1>4, BlankClaims DEF Informed, RowClaims
<1> QED BY <1>0, <1>3, <1>4 DEF Informed, ReceiverKnowsOld, Claims, RowClaims

\* The steps that settle nothing.
LEMMA QuietInformed ==
  ASSUME TypeOK, Informed, conf' = conf, db' = db,
         state' = state \/ state' = [i \in Ids |-> NoEntry],
         batch' = batch \/ batch' = NoBatch,
         heard' = heard \/ \E got : heard' = HeardAfter(got)
  PROVE  Informed'
<1>1. \A i \in Ids : heard[i] # None => heard'[i] # None
  BY HeardGrows
<1>2. \A i \in Ids : batch'[i] = OK => batch[i] = OK
  BY SeverityFacts DEF NoBatch
<1>3. \A i \in Ids : Claims(state'[i]) => Claims(state[i])
  BY BlankClaims
<1> QED BY <1>1, <1>2, <1>3 DEF Informed, ReceiverKnowsOld, Claims

LEMMA NextInformed ==
  ASSUME TypeOK, Informed, OneFloor, [Next]_vars
  PROVE  Informed'
<1>1. ASSUME NEW p \in Panels, Polled(p) PROVE Informed'
  BY <1>1, PollInformed
<1>2. CASE WorkerDrains \/ FinalDrain
  BY <1>2, DrainInformed DEF WorkerDrains, FinalDrain
<1>3. CASE DeliveryAccepted
  BY <1>3, AcceptedInformed
<1>4. CASE Start
  BY <1>4, StartInformed
<1>5. CASE DeliveryFails \/ RetryDue \/ GraceEnds \/ Stop \/ FinalTimeout \/ UNCHANGED vars
  <2>1. /\ conf' = conf /\ db' = db /\ state' = state
        /\ batch' = batch \/ batch' = NoBatch
        /\ heard' = heard \/ \E got : heard' = HeardAfter(got)
    BY <1>5 DEF DeliveryFails, RetryDue, GraceEnds, Stop, FinalTimeout, vars
  <2> QED BY <2>1, QuietInformed
<1>6. CASE \E j \in Mutable : Mute(j) \/ MuteEnds(j)
  BY <1>6, QuietInformed DEF Mute, MuteEnds, engineVars
<1>7. CASE Halt \/ Crash
  <2>1. /\ conf' = conf /\ db' = db /\ state' = [i \in Ids |-> NoEntry]
        /\ batch' = NoBatch
        /\ heard' = heard \/ \E got : heard' = HeardAfter(got)
    BY <1>7 DEF Halt, Crash, MemoryLost
  <2> QED BY <2>1, QuietInformed
<1> QED
  BY <1>1, <1>2, <1>3, <1>4, <1>5, <1>6, <1>7 DEF Next, Polled

\* Nobody's first word about a check is its recovery, whatever is refused,
\* lost, killed or not written, as long as every start finds a webhook and
\* the same floor above `ok'.
THEOREM FailuresComeFirst == OneFloor /\ Spec => FirstWordIsFailure
<1>1. ASSUME Informed, [Next]_vars, NEW i \in Ids, heard[i] = None
      PROVE  heard'[i] # OK
  <2>1. batch[i] # OK
    BY <1>1 DEF Informed
  <2>2. heard' = heard \/ \E got : heard' = HeardAfter(got)
    BY <1>1 DEF Next, PollSucceeds, PollFails, PollAborts, WorkerDrains, DeliveryAccepted, DeliveryFails,
                RetryDue, GraceEnds, Mute, MuteEnds, Start, Stop, FinalDrain, FinalTimeout, Halt, Crash, vars
  <2> QED BY <1>1, <2>1, <2>2, SeverityFacts DEF HeardAfter
<1>2. Init => Informed
  BY SeverityFacts DEF Init, Informed, ReceiverKnowsOld, NoEntry, NoRow, NoBatch
<1>3. OneFloor /\ TypeOK /\ Informed /\ [Next]_vars => Informed'
  BY NextInformed
<1>4. Informed /\ [Next]_vars => [\A i \in Ids : heard[i] = None => heard'[i] # OK]_heard
  BY <1>1
<1>5. CASE OneFloor
  <2>1. TypeOK /\ Informed /\ [Next]_vars => Informed'
    BY <1>3, <1>5
  <2> QED
    BY <1>2, <1>4, <2>1, Typing, PTL DEF Spec, FirstWordIsFailure
<1> QED
  BY <1>5
=============================================================================
