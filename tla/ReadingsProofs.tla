--------------------------- MODULE ReadingsProofs ---------------------------
(***************************************************************************)
(* Proofs about module Readings, for any collectors, checks, mutes and     *)
(* intervals.  Of the board: green is earned, and no failure is outweighed.*)
(* Of the log: availability counts only what was seen.                     *)
(***************************************************************************)
EXTENDS Readings, FiniteSetTheorems, TLAPS

Ids == DOMAIN PanelOf \cup {Gap}
Boards == UNION {[D -> Severities] : D \in SUBSET Ids}
PanelType ==
  {p \in [ts : Nat, checks : Boards, error : BOOLEAN] : p.error => DOMAIN p.checks = {}}

\* What the board is made of.
BoardOK ==
  /\ instance \in Instances
  /\ now \in Nat
  /\ DOMAIN panels \subseteq Enabled
  /\ \A c \in DOMAIN panels : panels[c] \in PanelType

LEMMA SeverityFacts ==
  /\ \A s \in Severities : rank(s) \in 0..3
  /\ \A s \in Severities : s \in BAD <=> rank(s) >= 2
  /\ \A s, t \in Severities : rank(s) = rank(t) => s = t
  /\ rank(OK) = 0 /\ rank(UNKNOWN) = 1
  /\ OK \in Severities /\ UNKNOWN \in Severities /\ OK \notin BAD /\ UNKNOWN \notin BAD
  /\ BAD \subseteq Severities
<1>1. rank(OK) = 0
  BY DEF rank, OK, UNKNOWN, WARNING, CRITICAL
<1>2. rank(UNKNOWN) = 1
  BY DEF rank, OK, UNKNOWN, WARNING, CRITICAL
<1>3. rank(WARNING) = 2
  BY DEF rank, OK, UNKNOWN, WARNING, CRITICAL
<1>4. rank(CRITICAL) = 3
  BY DEF rank, OK, UNKNOWN, WARNING, CRITICAL
<1>5. OK # WARNING /\ OK # CRITICAL /\ UNKNOWN # WARNING /\ UNKNOWN # CRITICAL
  BY DEF OK, UNKNOWN, WARNING, CRITICAL
<1> HIDE DEF OK, UNKNOWN, WARNING, CRITICAL
<1> QED
  BY <1>1, <1>2, <1>3, <1>4, <1>5 DEF Severities, BAD

\* The worst of some severities is one of them, and ranks above all.
LEMMA WorstIsMember ==
  ASSUME NEW A \in SUBSET Severities, A # {}
  PROVE  worst(A) \in A /\ \A s \in A : rank(s) <= rank(worst(A))
<1>1. \E s \in A : \A t \in A : rank(t) <= rank(s)
  <2>1. CASE CRITICAL \in A
    BY <2>1, SeverityFacts DEF Severities, rank, OK, UNKNOWN, WARNING, CRITICAL
  <2>2. CASE CRITICAL \notin A /\ WARNING \in A
    BY <2>2, SeverityFacts DEF Severities, rank, OK, UNKNOWN, WARNING, CRITICAL
  <2>3. CASE CRITICAL \notin A /\ WARNING \notin A /\ UNKNOWN \in A
    BY <2>3, SeverityFacts DEF Severities, rank, OK, UNKNOWN, WARNING, CRITICAL
  <2>4. CASE CRITICAL \notin A /\ WARNING \notin A /\ UNKNOWN \notin A
    BY <2>4, SeverityFacts DEF Severities, rank, OK, UNKNOWN, WARNING, CRITICAL
  <2> QED
    BY <2>1, <2>2, <2>3, <2>4
<1> QED
  BY <1>1 DEF worst

\* Engine.__init__
LEMMA BoardInit == Init => BoardOK
BY DEF Init, BoardOK

LEMMA WithTyped ==
  ASSUME NEW f, NEW x, NEW value
  PROVE  /\ DOMAIN With(f, x, value) = DOMAIN f \cup {x}
         /\ With(f, x, value)[x] = value
         /\ \A y \in DOMAIN f : y # x => With(f, x, value)[y] = f[y]
BY DEF With

\* Whatever a collector publishes is a panel.
LEMMA OutcomesTyped ==
  ASSUME NEW c, NEW panel \in Outcomes(c)
  PROVE  panel.checks \in Boards /\ panel.error \in BOOLEAN /\ (panel.error => DOMAIN panel.checks = {})
<1> DEFINE Some(S) == {f \in [S -> Severities] : \A x \in S : f[x] \in Reports[x]}
<1>1. ChecksOf(c) \subseteq Ids
  BY DEF ChecksOf, Ids
<1>2. CASE panel = [checks |-> <<>>, unread |-> FALSE, error |-> TRUE]
  <2>1. <<>> \in [{} -> Severities]
    OBVIOUS
  <2>2. {} \in SUBSET Ids
    OBVIOUS
  <2>3. <<>> \in Boards
    BY <2>1, <2>2 DEF Boards
  <2> QED
    BY <1>2, <2>3
<1>3. ASSUME NEW S \in SUBSET ChecksOf(c), NEW f \in Some(S),
             panel = [checks |-> f, unread |-> FALSE, error |-> FALSE]
      PROVE  panel.checks \in Boards /\ panel.error = FALSE
  BY <1>1, <1>3 DEF Boards
<1>4. ASSUME NEW S \in SUBSET (ChecksOf(c) \ {Followed}), NEW f \in Some(S),
             panel = [checks |-> With(f, Gap, UNKNOWN), unread |-> TRUE, error |-> FALSE]
      PROVE  panel.checks \in Boards /\ panel.error = FALSE
  <2>1. With(f, Gap, UNKNOWN) \in [S \cup {Gap} -> Severities]
    BY SeverityFacts DEF With
  <2>2. S \cup {Gap} \in SUBSET Ids
    BY <1>1 DEF Ids
  <2> QED
    BY <1>4, <2>1, <2>2 DEF Boards
<1>5. \/ panel = [checks |-> <<>>, unread |-> FALSE, error |-> TRUE]
      \/ \E S \in SUBSET ChecksOf(c) : \E f \in Some(S) :
           panel = [checks |-> f, unread |-> FALSE, error |-> FALSE]
      \/ \E S \in SUBSET (ChecksOf(c) \ {Followed}) : \E f \in Some(S) :
           panel = [checks |-> With(f, Gap, UNKNOWN), unread |-> TRUE, error |-> FALSE]
  BY DEF Outcomes
<1>6. DOMAIN <<>> = {}
  OBVIOUS
<1> HIDE DEF Some
<1> QED
  BY <1>2, <1>3, <1>4, <1>5, <1>6

LEMMA BoardKept == BoardOK /\ [Next]_vars => BoardOK'
<1> SUFFICES ASSUME BoardOK, [Next]_vars PROVE BoardOK'
  OBVIOUS
<1>1. ASSUME NEW c \in Enabled, Poll(c) PROVE BoardOK'
  <2>1. PICK panel \in Outcomes(c) :
          panels' = With(panels, c, [ts |-> now, checks |-> panel.checks, error |-> panel.error])
    BY <1>1 DEF Poll
  <2>2. [ts |-> now, checks |-> panel.checks, error |-> panel.error] \in PanelType
    BY OutcomesTyped DEF PanelType, BoardOK
  <2>3. UNCHANGED <<instance, now>>
    BY <1>1 DEF Poll
  <2>4. DOMAIN panels' = DOMAIN panels \cup {c} /\ DOMAIN panels \subseteq Enabled /\ Enabled' = Enabled
    BY <2>1, <2>3, WithTyped DEF BoardOK, Enabled
  <2>5. ASSUME NEW d \in DOMAIN panels' PROVE panels'[d] \in PanelType
    <3>1. CASE d = c
      BY <3>1, <2>1, <2>2 DEF With
    <3>2. CASE d # c
      <4>1. d \in DOMAIN panels /\ panels'[d] = panels[d]
        BY <3>2, <2>1, <2>4 DEF With
      <4> QED
        BY <4>1 DEF BoardOK
    <3> QED
      BY <3>1, <3>2
  <2> QED
    BY <2>3, <2>4, <2>5 DEF BoardOK, PanelType
<1>2. ASSUME Restart PROVE BoardOK'
  BY <1>2, InstanceAssumption DEF Restart, Passes, BoardOK, Enabled
<1>3. ASSUME Tick PROVE BoardOK'
  BY <1>3, InstanceAssumption DEF Tick, Passes, BoardOK, Enabled
<1>4. ASSUME Settle \/ Maintain \/ (\E x \in instance.mutable : SetMute(x) \/ ClearMute(x)) PROVE BoardOK'
  BY <1>4 DEF Settle, Maintain, SetMute, ClearMute, BoardOK, Enabled
<1>5. ASSUME UNCHANGED vars PROVE BoardOK'
  BY <1>5 DEF vars, BoardOK, Enabled
<1> QED
  BY <1>1, <1>2, <1>3, <1>4, <1>5 DEF Next

-----------------------------------------------------------------------------
LEMMA PanelFacts ==
  ASSUME BoardOK, NEW c \in DOMAIN panels
  PROVE  /\ c \in Polled /\ c \in Enabled /\ ~Pending(c)
         /\ panels[c].ts \in Nat /\ panels[c].error \in BOOLEAN
         /\ (panels[c].error => Published(c) = {})
         /\ Published(c) \subseteq Ids
         /\ Live(c) \subseteq Published(c)
         /\ \A x \in Published(c) : panels[c].checks[x] \in Severities
         /\ {panels[c].checks[x] : x \in Live(c)} \subseteq Severities
<1>1. panels[c] \in PanelType /\ c \in Enabled
  BY DEF BoardOK
<1>2. PICK D \in SUBSET Ids : panels[c].checks \in [D -> Severities]
  BY <1>1 DEF PanelType, Boards
<1> QED
  BY <1>1, <1>2 DEF PanelType, Polled, Pending, Published, Live

LEMMA DegradedTyped ==
  ASSUME NEW c, NEW s \in Severities
  PROVE  Degraded(c, s) \in Severities /\ (s # OK => Degraded(c, s) = s)
BY SeverityFacts DEF Degraded

LEMMA PanelSeverityTyped ==
  ASSUME BoardOK, NEW c \in Enabled
  PROVE  PanelSeverity(c) \in Severities
<1>1. CASE Pending(c) \/ Broken(c) \/ Published(c) = {}
  BY <1>1, SeverityFacts DEF PanelSeverity
<1>2. CASE ~(Pending(c) \/ Broken(c) \/ Published(c) = {}) /\ Live(c) = {}
  <2>1. PanelSeverity(c) = Degraded(c, OK)
    BY <1>2 DEF PanelSeverity
  <2> QED
    BY <2>1, SeverityFacts, DegradedTyped
<1>3. CASE ~(Pending(c) \/ Broken(c) \/ Published(c) = {}) /\ Live(c) # {}
  <2>1. c \in DOMAIN panels
    BY <1>3 DEF Pending
  <2>2. worst({panels[c].checks[x] : x \in Live(c)}) \in Severities
    BY <1>3, <2>1, PanelFacts, WorstIsMember
  <2> QED
    BY <1>3, <2>2, DegradedTyped DEF PanelSeverity
<1> QED
  BY <1>1, <1>2, <1>3

\* A live check that is bad makes its panel at least as bad.
LEMMA BadReachesPanel ==
  ASSUME BoardOK, NEW c \in DOMAIN panels, ~panels[c].error,
         NEW x \in Live(c), panels[c].checks[x] \in BAD
  PROVE  rank(PanelSeverity(c)) >= rank(panels[c].checks[x])
<1> DEFINE A == {panels[c].checks[y] : y \in Live(c)}
<1>1. A \subseteq Severities /\ A # {} /\ panels[c].checks[x] \in A
  BY PanelFacts
<1>2. worst(A) \in A /\ rank(panels[c].checks[x]) <= rank(worst(A))
  BY <1>1, WorstIsMember
<1>3. worst(A) \in BAD
  BY <1>1, <1>2, SeverityFacts
<1>4. PanelSeverity(c) = Degraded(c, worst(A))
  BY PanelFacts DEF PanelSeverity, Broken
<1>5. PanelSeverity(c) = worst(A)
  BY <1>3, <1>4, SeverityFacts DEF Degraded
<1> QED
  BY <1>1, <1>2, <1>5, SeverityFacts

\* A bad panel has a live check that is as bad.
LEMMA BadHasCause ==
  ASSUME BoardOK, NEW c \in Enabled, PanelSeverity(c) \in BAD
  PROVE  \E x \in Live(c) : CheckSeverity(c, x) = PanelSeverity(c) /\ c \in Polled /\ x \in Ids
<1> DEFINE A == {panels[c].checks[y] : y \in Live(c)}
<1>1. ~(Pending(c) \/ Broken(c) \/ Published(c) = {})
  <2>1. Pending(c) \/ Broken(c) \/ Published(c) = {} => PanelSeverity(c) = UNKNOWN
    BY DEF PanelSeverity
  <2> QED
    BY <2>1, SeverityFacts
<1>2. Live(c) # {}
  <2>1. Live(c) = {} => PanelSeverity(c) = Degraded(c, OK)
    BY <1>1 DEF PanelSeverity
  <2>2. Degraded(c, OK) \in {OK, UNKNOWN}
    BY DEF Degraded
  <2> QED
    BY <2>1, <2>2, SeverityFacts
<1>3. c \in DOMAIN panels
  BY <1>1 DEF Pending
<1>4. A \subseteq Severities /\ A # {}
  BY <1>2, <1>3, PanelFacts
<1>5. worst(A) \in A
  BY <1>4, WorstIsMember
<1>6. PanelSeverity(c) = Degraded(c, worst(A))
  BY <1>1, <1>2 DEF PanelSeverity
<1>7. worst(A) # OK
  <2>1. Degraded(c, OK) \in {OK, UNKNOWN}
    BY DEF Degraded
  <2> QED
    BY <1>6, <2>1, SeverityFacts
<1>8. PanelSeverity(c) = worst(A)
  BY <1>4, <1>5, <1>6, <1>7, DegradedTyped
<1>9. PICK x \in Live(c) : panels[c].checks[x] = worst(A)
  BY <1>5
<1>10. CheckSeverity(c, x) = PanelSeverity(c)
  BY <1>8, <1>9, <1>7, <1>6 DEF CheckSeverity
<1> QED
  BY <1>3, <1>10, PanelFacts

LEMMA OverallFacts ==
  ASSUME BoardOK, Enabled # {}
  PROVE  /\ Overall \in Severities
         /\ \A c \in Enabled : rank(PanelSeverity(c)) <= rank(Overall)
         /\ \E c \in Enabled : Overall = PanelSeverity(c)
<1> DEFINE A == {PanelSeverity(c) : c \in Enabled}
<1>1. A \subseteq Severities /\ A # {}
  BY PanelSeverityTyped
<1>2. worst(A) \in A /\ \A s \in A : rank(s) <= rank(worst(A))
  BY <1>1, WorstIsMember
<1> QED
  BY <1>1, <1>2 DEF Overall

\* Counting is finite, so what is counted exists and what exists is counted.
LEMMA CountFacts ==
  ASSUME BoardOK, NEW sev
  PROVE  Count(sev) \in Nat
         /\ (Count(sev) > 0 <=> \E c \in Polled : \E x \in Live(c) : x \in Ids /\ CheckSeverity(c, x) = sev)
<1> DEFINE All == Polled \X Ids
           Counted == {p \in All : p[2] \in Live(p[1]) /\ CheckSeverity(p[1], p[2]) = sev}
<1>1. IsFiniteSet(Polled)
  <2>1. IsFiniteSet(Enabled)
    BY InstanceAssumption DEF BoardOK, Enabled
  <2> QED
    BY <2>1, FS_Subset DEF Polled
<1>2. IsFiniteSet(Ids)
  BY ChecksAssumption, FS_AddElement DEF Ids
<1>3. IsFiniteSet(All)
  BY <1>1, <1>2, FS_Product
<1>4. IsFiniteSet(Counted)
  BY <1>3, FS_Subset
<1>5. Count(sev) = Cardinality(Counted)
  BY DEF Count, Ids
<1>6. Count(sev) \in Nat /\ (Count(sev) = 0 <=> Counted = {})
  BY <1>4, <1>5, FS_CardinalityType, FS_EmptySet
<1>7. Counted # {} <=> \E c \in Polled : \E x \in Live(c) : x \in Ids /\ CheckSeverity(c, x) = sev
  <2>1. ASSUME NEW c \in Polled, NEW x \in Live(c), x \in Ids, CheckSeverity(c, x) = sev
        PROVE  <<c, x>> \in Counted
    BY <2>1
  <2>2. ASSUME NEW p \in Counted
        PROVE  \E c \in Polled : \E x \in Live(c) : x \in Ids /\ CheckSeverity(c, x) = sev
    OBVIOUS
  <2> QED
    BY <2>1, <2>2
<1> QED
  BY <1>6, <1>7

-----------------------------------------------------------------------------
\* What the last branch of the headline has ruled out.
AllClear ==
  /\ Overall # CRITICAL /\ Overall # WARNING
  /\ \A c \in Polled : ~Broken(c) /\ ~Stale(c) /\ Published(c) # {}
  /\ Polled = Enabled
  /\ Count(OK) # 0
  /\ ~(Count(UNKNOWN) > 0)

LEMMA GreenIsClear ==
  ASSUME Headline = "everything is healthy"
  PROVE  AllClear
BY DEF Headline, AllClear

LEMMA ClearIsFine ==
  ASSUME BoardOK, AllClear
  PROVE  /\ \A c \in Enabled :
              /\ c \in DOMAIN panels
              /\ ~panels[c].error
              /\ now <= panels[c].ts + Reach
              /\ panels[c].checks # <<>>
              /\ \A x \in DOMAIN panels[c].checks : panels[c].checks[x] # OK => Muted(x)
         /\ \E c \in Enabled : \E x \in DOMAIN panels[c].checks : ~Muted(x)
<1>1. /\ Overall # CRITICAL /\ Overall # WARNING
      /\ \A c \in Polled : ~Broken(c) /\ ~Stale(c) /\ Published(c) # {}
      /\ Polled = Enabled
      /\ Count(OK) # 0
      /\ ~(Count(UNKNOWN) > 0)
  BY DEF AllClear
<1>2. ASSUME NEW c \in Enabled
      PROVE  /\ c \in DOMAIN panels
             /\ ~panels[c].error
             /\ now <= panels[c].ts + Reach
             /\ panels[c].checks # <<>>
             /\ \A x \in DOMAIN panels[c].checks : panels[c].checks[x] # OK => Muted(x)
  <2>1. c \in DOMAIN panels
    BY <1>1 DEF Polled, Pending
  <2>2. ~panels[c].error /\ ~Stale(c) /\ Published(c) # {}
    BY <1>1, <2>1 DEF Broken
  <2>3. now <= panels[c].ts + Reach
    <3>1. now \in Nat /\ panels[c].ts \in Nat /\ Interval \in Nat
      BY <2>1, PanelFacts, InstanceAssumption DEF BoardOK
    <3> QED
      BY <2>2, <3>1 DEF Stale, Reach, STALE_FACTOR
  <2>4. panels[c].checks # <<>>
    <3>1. DOMAIN <<>> = {}
      OBVIOUS
    <3> QED
      BY <2>2, <3>1 DEF Published
  <2>5. ASSUME NEW x \in DOMAIN panels[c].checks, panels[c].checks[x] # OK, ~Muted(x)
        PROVE  FALSE
    <3>1. x \in Live(c) /\ x \in Ids /\ c \in Polled /\ panels[c].checks[x] \in Severities
      BY <2>1, <2>5, PanelFacts DEF Live, Published
    <3>2. CASE panels[c].checks[x] = UNKNOWN
      <4>1. CheckSeverity(c, x) = UNKNOWN
        BY <3>2, SeverityFacts, DegradedTyped DEF CheckSeverity, Degraded
      <4> QED
        BY <4>1, <3>1, <1>1, CountFacts
    <3>3. CASE panels[c].checks[x] \in BAD
      <4>1. rank(PanelSeverity(c)) >= rank(panels[c].checks[x])
        BY <2>1, <2>2, <3>1, <3>3, BadReachesPanel
      <4>2. Overall \in Severities /\ rank(PanelSeverity(c)) <= rank(Overall)
        BY OverallFacts
      <4>3. PanelSeverity(c) \in Severities
        BY PanelSeverityTyped
      <4>4. rank(Overall) >= 2
        <5>1. rank(panels[c].checks[x]) \in 0..3 /\ rank(PanelSeverity(c)) \in 0..3 /\ rank(Overall) \in 0..3
          BY <3>1, <4>2, <4>3, SeverityFacts
        <5>2. rank(panels[c].checks[x]) >= 2
          BY <3>1, <3>3, SeverityFacts
        <5> QED
          BY <4>1, <4>2, <5>1, <5>2
      <4>5. Overall \in BAD
        BY <4>2, <4>4, SeverityFacts
      <4> QED
        BY <4>5, <1>1 DEF BAD
    <3> QED
      BY <3>1, <3>2, <3>3, <2>5 DEF Severities, BAD
  <2> QED
    BY <2>1, <2>2, <2>3, <2>4, <2>5
<1>3. \E c \in Enabled : \E x \in DOMAIN panels[c].checks : ~Muted(x)
  <2>1. Count(OK) > 0
    <3>1. Count(OK) \in Nat
      BY CountFacts
    <3> QED
      BY <1>1, <3>1
  <2>2. PICK c \in Polled : \E x \in Live(c) : x \in Ids /\ CheckSeverity(c, x) = OK
    BY <2>1, CountFacts
  <2> QED
    BY <2>2 DEF Polled, Live, Published
<1> QED
  BY <1>2, <1>3

\* The board is green only with a fresh answer of every collector in which
\* everything that nobody silenced was fine (Engine._headline).
THEOREM GreenMustBeEarned == Spec => []GreenIsEarned
<1>1. BoardOK => GreenIsEarned
  BY GreenIsClear, ClearIsFine DEF GreenIsEarned
<1> QED
  BY <1>1, BoardInit, BoardKept, PTL DEF Spec

\* A failure that nobody silences is never outweighed by what else is wrong,
\* nor by its age (Engine.snapshot).
THEOREM FailuresAreShown == Spec => []BadIsShown
<1>1. ASSUME BoardOK PROVE BadIsShown
  <2> USE <1>1
  <2>1. ASSUME NEW c \in DOMAIN panels, NEW x \in DOMAIN panels[c].checks, panels[c].checks[x] \in BAD,
               x \notin DOMAIN mutes \/ mutes[x] \in 0..(now - 1)
        PROVE  rank(Overall) >= rank(panels[c].checks[x])
    <3>1. ~Muted(x)
      BY <2>1 DEF Muted, Forever, BoardOK
    <3>2. x \in Live(c) /\ c \in Enabled
      BY <3>1, PanelFacts DEF Live, Published
    <3>3. ~panels[c].error
      BY <3>2, PanelFacts
    <3>4. rank(PanelSeverity(c)) >= rank(panels[c].checks[x])
      BY <2>1, <3>2, <3>3, BadReachesPanel
    <3>5. rank(PanelSeverity(c)) <= rank(Overall) /\ Overall \in Severities /\ PanelSeverity(c) \in Severities
      BY <3>2, OverallFacts, PanelSeverityTyped
    <3>6. panels[c].checks[x] \in Severities
      BY <3>2, PanelFacts
    <3> QED
      BY <3>4, <3>5, <3>6, SeverityFacts
  <2>2. ASSUME Overall \in BAD PROVE Count(Overall) > 0
    <3>1. Enabled # {}
      <4>1. Enabled = {} => Overall = UNKNOWN
        BY DEF Overall, worst
      <4> QED
        BY <4>1, <2>2, SeverityFacts
    <3>2. PICK c \in Enabled : Overall = PanelSeverity(c)
      BY <3>1, OverallFacts
    <3>3. PICK x \in Live(c) : CheckSeverity(c, x) = Overall /\ c \in Polled /\ x \in Ids
      BY <2>2, <3>2, BadHasCause
    <3> QED
      BY <3>3, CountFacts
  <2> QED
    BY <2>1, <2>2 DEF BadIsShown
<1> QED
  BY <1>1, BoardInit, BoardKept, PTL DEF Spec
-----------------------------------------------------------------------------
(* The log of transitions.  `Told' relates it, for one tick that passed    *)
(* and in which somebody looked, to what was true in that tick: the last   *)
(* transition up to the tick led there, and the first after it starts from *)
(* there, or, if there is none, the entry is still there.  Neither half    *)
(* refers to the window that availability is asked for, which is why they  *)
(* survive pruning: whichever transition is still in the log, is right.    *)
\* Transitions that happened at different times up to n.
Dated(S, n) == \A e, f \in S : e.ts \in 0..n /\ (e.ts = f.ts => e = f)

\* Any numbers have a least one: the intervals below them are well-founded.
LEMMA LeastNat ==
  ASSUME NEW T \in SUBSET Nat, T # {}
  PROVE  \E x \in T : \A y \in T : x <= y
<1> DEFINE C == {1..x : x \in T}
           R == StrictSubsetOrdering(Nat)
           F == FiniteSubsetsOf(Nat)
<1>1. C \subseteq F /\ C # {}
  <2>1. ASSUME NEW x \in T PROVE 1..x \in F
    <3>1. IsFiniteSet(1..x) /\ 1..x \in SUBSET Nat
      BY FS_Interval
    <3> QED BY <3>1 DEF FiniteSubsetsOf
  <2> QED BY <2>1
<1>2. \E I \in C : \A J \in C : ~ (<<J, I>> \in R)
  <2>1. IsWellFoundedOn(R, F)
    BY FS_StrictSubsetOrderingWellFounded
  <2> HIDE DEF C, R, F
  <2> QED BY <1>1, <2>1, WFMin
<1>3. PICK x \in T : \A y \in T : ~ (<<1..y, 1..x>> \in R)
  BY <1>2
<1>4. ASSUME NEW y \in T, y < x PROVE FALSE
  <2>1. 1..y \subseteq 1..x /\ x \in 1..x /\ x \notin 1..y
    BY <1>4
  <2>2. 1..y # 1..x
    BY <2>1
  <2>3. 1..y \in SUBSET Nat /\ 1..x \in SUBSET Nat
    OBVIOUS
  <2>4. <<1..y, 1..x>> \in R
    BY <2>1, <2>2, <2>3 DEF StrictSubsetOrdering
  <2> QED BY <1>3, <2>4
<1>5. \A y \in T : x <= y
  BY <1>4
<1> QED BY <1>5

\* What the queries for one row return, if there is a row.
LEMMA LatestFacts ==
  ASSUME NEW n \in Nat, NEW S, Dated(S, n), S # {}
  PROVE  /\ Latest(S) \in S /\ \A f \in S : f.ts <= Latest(S).ts
<1> DEFINE T == {n - e.ts : e \in S}
<1>1. T \in SUBSET Nat /\ T # {}
  BY DEF Dated
<1>2. PICK x \in T : \A y \in T : x <= y
  BY <1>1, LeastNat
<1>3. PICK e \in S : x = n - e.ts
  BY <1>2
<1>4. ASSUME NEW f \in S PROVE f.ts <= e.ts
  <2>1. n - e.ts <= n - f.ts
    BY <1>2, <1>3
  <2>2. e.ts \in 0..n /\ f.ts \in 0..n
    BY DEF Dated
  <2> QED BY <2>1, <2>2
<1>5. \E g \in S : \A f \in S : f.ts <= g.ts
  BY <1>4
<1> QED BY <1>5 DEF Latest

LEMMA EarliestFacts ==
  ASSUME NEW n \in Nat, NEW S, Dated(S, n), S # {}
  PROVE  /\ Earliest(S) \in S /\ \A f \in S : Earliest(S).ts <= f.ts
<1> DEFINE T == {e.ts : e \in S}
<1>1. T \in SUBSET Nat /\ T # {}
  BY DEF Dated
<1>2. PICK x \in T : \A y \in T : x <= y
  BY <1>1, LeastNat
<1>3. \E g \in S : \A f \in S : g.ts <= f.ts
  BY <1>2
<1> QED BY <1>3 DEF Earliest

LEMMA LatestIs ==
  ASSUME NEW n \in Nat, NEW S, Dated(S, n), NEW e \in S, \A f \in S : f.ts <= e.ts
  PROVE  Latest(S) = e
<1>1. Latest(S) \in S /\ \A f \in S : f.ts <= Latest(S).ts
  BY LatestFacts
<1>2. e.ts \in Nat /\ Latest(S).ts \in Nat
  BY <1>1 DEF Dated
<1>3. Latest(S).ts = e.ts
  BY <1>1, <1>2
<1> QED BY <1>1, <1>3 DEF Dated

LEMMA EarliestIs ==
  ASSUME NEW n \in Nat, NEW S, Dated(S, n), NEW e \in S, \A f \in S : e.ts <= f.ts
  PROVE  Earliest(S) = e
<1>1. Earliest(S) \in S /\ \A f \in S : Earliest(S).ts <= f.ts
  BY EarliestFacts
<1>2. e.ts \in Nat /\ Earliest(S).ts \in Nat
  BY <1>1 DEF Dated
<1>3. Earliest(S).ts = e.ts
  BY <1>1, <1>2
<1> QED BY <1>1, <1>3 DEF Dated

States == Severities \cup {Nothing}
Labels == Severities \cup {STATE_NEW, STATE_GONE}

\* The same severity, or two between which the log missed a transition.
Agree(u, a, b) == a = b \/ {a, b} \subseteq u \cup {Nothing}

\* What an entry says the check is.
Label(k) == IF k.gone THEN Nothing ELSE k.severity

Upto(ev, t)  == {e \in ev : e.ts <= t}
After(ev, t) == {e \in ev : e.ts > t}

ToldBefore(ev, u, s, t) ==
  Upto(ev, t) # {} =>
    LET n == Latest(Upto(ev, t)).new
    IN  Agree(u, s, Normalised(n)) \/ (n = STATE_GONE /\ s \in {OK, UNKNOWN})

ToldAfter(ev, u, k, s, t) ==
  Agree(u, s, IF After(ev, t) # {} THEN Normalised(Earliest(After(ev, t)).old) ELSE Label(k))

Told(ev, u, k, s, t) == ToldBefore(ev, u, s, t) /\ ToldAfter(ev, u, k, s, t)

\* What the last transition leaves an entry that exists ...
LastTold(ev, u, k) ==
  ev # {} =>
    LET n == Latest(ev).new
    IN  /\ \/ n = k.severity
           \/ n = STATE_GONE /\ k.severity \in {OK, UNKNOWN}
           \/ n = OK /\ k.severity = UNKNOWN /\ {OK, UNKNOWN} \subseteq u
        /\ k.gone => n = STATE_GONE \/ OK \in u

EntryNow(ev, u, k, s) ==
  /\ k.gone => k.severity = OK
  /\ Agree(u, s, Label(k))
  /\ LastTold(ev, u, k)

\* ... and one that was forgotten.
LastForgotten(ev) == ev # {} => Latest(ev).new \in {OK, STATE_GONE}

LEMMA StateFacts ==
  /\ Nothing \notin Severities /\ STATE_NEW \notin Severities /\ STATE_GONE \notin Severities
  /\ Normalised(STATE_NEW) = Nothing /\ Normalised(STATE_GONE) = Nothing
  /\ \A s \in Severities : Normalised(s) = s
  /\ \A s \in Labels : Normalised(s) \in States
  /\ Nothing \in States /\ STATE_NEW # STATE_GONE
BY DEF Nothing, STATE_NEW, STATE_GONE, Severities, OK, UNKNOWN, WARNING, CRITICAL, Normalised, States, Labels

LEMMA AgreeMoves ==
  ASSUME NEW u, NEW v, u \subseteq v, NEW a, NEW b, NEW c, Agree(u, a, b), Agree(v, b, c)
  PROVE  Agree(v, a, c)
BY DEF Agree

LEMMA DatedSubset ==
  ASSUME NEW n, NEW ev, Dated(ev, n), NEW S, S \subseteq ev
  PROVE  Dated(S, n)
BY DEF Dated

\* The entry moves on and the log need not tell.
LEMMA ToldMoves ==
  ASSUME NEW u, NEW v, u \subseteq v, NEW ev, NEW k, NEW l, NEW s, NEW t,
         Told(ev, u, k, s, t), Agree(v, Label(k), Label(l))
  PROVE  Told(ev, v, l, s, t)
<1>1. \A a, b : Agree(u, a, b) => Agree(v, a, b)
  BY DEF Agree
<1>2. ToldBefore(ev, v, s, t)
  BY <1>1 DEF Told, ToldBefore
<1>3. ToldAfter(ev, v, l, s, t)
  <2>1. CASE After(ev, t) # {}
    BY <1>1, <2>1 DEF Told, ToldAfter
  <2>2. CASE After(ev, t) = {}
    BY <2>2, AgreeMoves DEF Told, ToldAfter
  <2> QED BY <2>1, <2>2
<1> QED BY <1>2, <1>3 DEF Told

\* A transition is logged that starts from where the entry is.
LEMMA ToldLogged ==
  ASSUME NEW u, NEW v, u \subseteq v, NEW n \in Nat, NEW ev, Dated(ev, n), \A e \in ev : e.ts < n,
         NEW k, NEW l, NEW s, NEW t \in Nat, t < n, NEW ne, ne.ts = n, Normalised(ne.old) = Label(k),
         Told(ev, u, k, s, t)
  PROVE  Told(ev \cup {ne}, v, l, s, t)
<1>1. \A a, b : Agree(u, a, b) => Agree(v, a, b)
  BY DEF Agree
<1>2. Upto(ev \cup {ne}, t) = Upto(ev, t)
  BY DEF Upto
<1>3. After(ev \cup {ne}, t) = After(ev, t) \cup {ne}
  BY DEF After
<1>4. Dated(After(ev, t), n) /\ Dated(After(ev, t) \cup {ne}, n)
  BY DEF Dated, After
<1>5. CASE After(ev, t) = {}
  <2>1. Earliest(After(ev, t) \cup {ne}) = ne
    <3>1. \A f \in After(ev, t) \cup {ne} : ne.ts <= f.ts
      BY <1>5
    <3> QED BY <1>4, <3>1, EarliestIs
  <2> QED BY <1>1, <1>2, <1>3, <1>5, <2>1 DEF Told, ToldBefore, ToldAfter
<1>6. CASE After(ev, t) # {}
  <2>1. Earliest(After(ev, t)) \in After(ev, t) /\ \A f \in After(ev, t) : Earliest(After(ev, t)).ts <= f.ts
    BY <1>4, <1>6, EarliestFacts
  <2>2. Earliest(After(ev, t)).ts \in Nat /\ Earliest(After(ev, t)).ts < n
    BY <2>1 DEF After, Dated
  <2>3. \A f \in After(ev, t) \cup {ne} : Earliest(After(ev, t)).ts <= f.ts
    BY <2>1, <2>2
  <2>4. Earliest(After(ev, t) \cup {ne}) = Earliest(After(ev, t))
    BY <1>4, <2>1, <2>3, EarliestIs
  <2> QED BY <1>1, <1>2, <1>3, <1>6, <2>4 DEF Told, ToldBefore, ToldAfter
<1> QED BY <1>5, <1>6

\* What is no longer in the log says nothing of the ticks that are.
LEMMA ToldPruned ==
  ASSUME NEW u, NEW n \in Nat, NEW ev, Dated(ev, n), NEW k, NEW s, NEW t \in Nat, NEW m \in Int, m <= t,
         Told(ev, u, k, s, t)
  PROVE  Told({e \in ev : e.ts >= m}, u, k, s, t)
<1> DEFINE kept == {e \in ev : e.ts >= m}
<1>1. After(kept, t) = After(ev, t)
  BY DEF After, Dated
<1>2. ASSUME Upto(kept, t) # {}
      PROVE  Upto(ev, t) # {} /\ Latest(Upto(kept, t)) = Latest(Upto(ev, t))
  <2>1. Dated(Upto(kept, t), n) /\ Dated(Upto(ev, t), n) /\ Upto(kept, t) \subseteq Upto(ev, t)
    BY DEF Upto, Dated
  <2>2. PICK e \in Upto(kept, t) : TRUE
    BY <1>2
  <2>3. /\ Latest(Upto(ev, t)) \in Upto(ev, t)
        /\ \A f \in Upto(ev, t) : f.ts <= Latest(Upto(ev, t)).ts
    BY <2>1, <2>2, LatestFacts
  <2>4. Latest(Upto(ev, t)) \in Upto(kept, t)
    <3>1. e.ts <= Latest(Upto(ev, t)).ts /\ e.ts >= m
      BY <2>1, <2>2, <2>3 DEF Upto
    <3>2. e.ts \in Nat /\ Latest(Upto(ev, t)).ts \in Nat
      BY <2>1, <2>2, <2>3 DEF Dated
    <3> QED BY <2>3, <3>1, <3>2 DEF Upto
  <2>5. Latest(Upto(kept, t)) = Latest(Upto(ev, t))
    BY <2>1, <2>3, <2>4, LatestIs
  <2> QED BY <2>1, <2>2, <2>5
<1> HIDE DEF kept
<1>3. ToldBefore(kept, u, s, t)
  BY <1>2 DEF Told, ToldBefore
<1>4. ToldAfter(kept, u, k, s, t)
  BY <1>1 DEF Told, ToldAfter
<1> QED BY <1>3, <1>4 DEF Told, kept

\* A tick passes: what is true now is told of it.
LEMMA ToldNow ==
  ASSUME NEW u \in SUBSET {OK, UNKNOWN}, NEW n \in Nat, NEW ev, Dated(ev, n), \A e \in ev : e.new \in Labels,
         NEW k, k.severity \in Severities, k.gone \in BOOLEAN, NEW s \in States, EntryNow(ev, u, k, s)
  PROVE  Told(ev, u, k, s, n)
<1>1. Upto(ev, n) = ev /\ After(ev, n) = {}
  BY DEF Upto, After, Dated
<1>2. ToldAfter(ev, u, k, s, n)
  BY <1>1 DEF ToldAfter, EntryNow
<1>3. ASSUME ev # {}
      PROVE  \/ Agree(u, s, Normalised(Latest(ev).new))
             \/ Latest(ev).new = STATE_GONE /\ s \in {OK, UNKNOWN}
  <2>1. Agree(u, s, Label(k))
    BY DEF EntryNow
  <2>2. CASE k.gone
    <3>1. k.severity = OK /\ (s = Nothing \/ s \in u)
      BY <2>1, <2>2, StateFacts DEF Label, Agree, EntryNow
    <3>2. CASE Latest(ev).new = STATE_GONE
      BY <3>1, <3>2, StateFacts DEF Agree
    <3>3. CASE Latest(ev).new # STATE_GONE
      <4>1. OK \in u /\ UNKNOWN # OK
        BY <1>3, <2>2, <3>3 DEF EntryNow, LastTold, OK, UNKNOWN
      <4>2. Latest(ev).new = OK
        BY <1>3, <3>1, <3>3, <4>1 DEF EntryNow, LastTold
      <4>3. Normalised(Latest(ev).new) = OK
        BY <4>2, StateFacts, SeverityFacts
      <4> QED BY <3>1, <4>1, <4>3 DEF Agree
    <3> QED BY <3>2, <3>3
  <2>3. CASE ~k.gone
    <3>1. Agree(u, s, k.severity)
      BY <2>1, <2>3 DEF Label
    <3>2. CASE Latest(ev).new = k.severity
      BY <3>1, <3>2, StateFacts
    <3>3. CASE Latest(ev).new = STATE_GONE /\ k.severity \in {OK, UNKNOWN}
      <4>1. s \in {OK, UNKNOWN} \/ s = Nothing
        BY <3>1, <3>3 DEF Agree
      <4> QED BY <3>3, <4>1, StateFacts DEF Agree
    <3>4. CASE Latest(ev).new = OK /\ k.severity = UNKNOWN /\ {OK, UNKNOWN} \subseteq u
      <4>1. Normalised(Latest(ev).new) = OK
        BY <3>4, StateFacts, SeverityFacts
      <4> QED BY <3>1, <3>4, <4>1 DEF Agree
    <3> QED BY <1>3, <3>2, <3>3, <3>4 DEF EntryNow, LastTold
  <2> QED BY <2>2, <2>3
<1>4. ToldBefore(ev, u, s, n)
  BY <1>1, <1>3 DEF ToldBefore
<1> QED BY <1>2, <1>4 DEF Told

-----------------------------------------------------------------------------
Entries == {Unheard} \cup [heard : {TRUE}, severity : Severities, gone : BOOLEAN]
Rows    == {Unheard} \cup [heard : {TRUE}, first_seen : Nat]

\* The collector of the followed check.
Home == PanelOf[Followed]

\* What the log is made of.
LogOK ==
  /\ now \in Nat
  /\ unlogged \subseteq {OK, UNKNOWN}
  /\ said \in States
  /\ heard \in 0..now
  /\ obs \subseteq 0..heard
  /\ known \in Entries
  /\ row \in Rows
  /\ known = Unheard <=> row = Unheard
  /\ row # Unheard => row.first_seen <= now /\ Followed \in DOMAIN PanelOf
  /\ Dated(events, now)
  /\ \A e \in events : e.old \in Labels /\ e.new \in Severities \cup {STATE_GONE}
  /\ truth \in Seq(States) /\ Len(truth) = now

\* The panels, as far as the log depends on them: no collector is polled twice
\* within a tick, and none publishes the checks of another.
PanelsOK ==
  /\ now <= instance.until
  /\ DOMAIN mutes \subseteq instance.mutable
  /\ \A c \in DOMAIN panels :
       /\ panels[c].ts <= now
       /\ panels[c].error => panels[c].checks = <<>>
       /\ \A x \in DOMAIN panels[c].checks : x = Gap \/ PanelOf[x] = c
  /\ (\E e \in events : e.ts = now) => Home \in DOMAIN panels /\ panels[Home].ts = now

EntryTold == IF known = Unheard THEN LastForgotten(events) ELSE EntryNow(events, unlogged, known, said)

Watched(t) == row # Unheard /\ t >= row.first_seen /\ Looked(t)

Timeline == \A t \in 0..(now - 1) : Watched(t) => Told(events, unlogged, known, truth[t + 1], t)

\* A poll vouched for whatever could be said of the check, unless it was pruned.
Sight ==
  /\ said # Nothing => heard \in obs \/ heard < now - 2 * Retention
  /\ \A t \in 0..(now - 1) : truth[t + 1] # Nothing => Looked(t) \/ t < now - 2 * Retention + Reach

\* The board and the entry agree.
BoardSees ==
  OnBoard /\ row # Unheard =>
    ~known.gone /\ Followed \in Published(Home) /\ known.severity = panels[Home].checks[Followed]

LogInv == LogOK /\ EntryTold /\ Timeline /\ Sight

\* The ways a poll is read, as far as the log is concerned.
Reads == obs' = obs \cup {now} /\ heard' = now
ReadsSight ==
  /\ Reads /\ Followed \in DOMAIN PanelOf
  /\ said' \in Severities
  /\ Sighted(said')
ReadsGone ==
  /\ Reads
  /\ said' = Nothing
  /\ known # Unheard /\ ~known.gone /\ Vanished
ReadsNothing ==
  /\ Reads
  /\ said' = said \/ (said' = Nothing /\ (known = Unheard \/ known.gone))
  /\ UNCHANGED <<known, row, events, unlogged>>

Settled ==
  /\ known # Unheard /\ known.gone
  /\ known' = Unheard /\ row' = Unheard
  /\ UNCHANGED <<events, obs, said, heard, unlogged>>

LEMMA EntryFacts ==
  ASSUME NEW k \in Entries, k # Unheard
  PROVE  k.heard = TRUE /\ k.severity \in Severities /\ k.gone \in BOOLEAN
BY DEF Entries

LEMMA RowFacts ==
  ASSUME NEW r \in Rows, r # Unheard
  PROVE  r.first_seen \in Nat
BY DEF Rows

LEMMA EntryIsHeard ==
  ASSUME NEW s \in Severities, NEW g \in BOOLEAN
  PROVE  /\ [heard |-> TRUE, severity |-> s, gone |-> g] \in Entries
         /\ [heard |-> TRUE, severity |-> s, gone |-> g] # Unheard
         /\ Label([heard |-> TRUE, severity |-> s, gone |-> g]) = IF g THEN Nothing ELSE s
<1>1. [heard |-> TRUE, severity |-> s, gone |-> g].heard # Unheard.heard
  BY DEF Unheard
<1> QED BY <1>1 DEF Entries, Label

\* Nothing that is read now says more of the ticks that passed.
LEMMA LookedBefore ==
  ASSUME obs' = obs \cup {now}, NEW t \in Int, t < now, now \in Int
  PROVE  Looked(t)' <=> Looked(t)
BY DEF Looked, Reach

LEMMA TimelineTyped ==
  ASSUME LogOK, NEW t \in 0..(now - 1)
  PROVE  t \in Nat /\ t < now /\ t + 1 \in DOMAIN truth /\ truth[t + 1] \in States
BY DEF LogOK

\* The logs grow, and what is said of the check was read just now.
LEMMA ReadsSeen ==
  ASSUME LogInv, Reads, UNCHANGED <<now, truth>>
  PROVE  Sight'
<1>1. heard' \in obs'
  BY DEF Reads
<1>2. now \in Nat /\ Reach \in Int /\ Retention \in Int
  BY InstanceAssumption DEF LogInv, LogOK, Reach, STALE_FACTOR
<1>3. \A t : Looked(t) => Looked(t)'
  BY DEF Looked, Reach, Reads
<1> QED BY <1>1, <1>3 DEF LogInv, Sight, Reach

LEMMA ReadsTyped ==
  ASSUME LogOK, Reads
  PROVE  now \in Nat /\ heard' \in 0..now /\ obs' \subseteq 0..heard'
BY DEF LogOK, Reads

\* A transition that is logged is the last one.
LEMMA LoggedFacts ==
  ASSUME LogOK, \A e \in events : e.ts < now,
         NEW old \in Labels, NEW new \in Severities \cup {STATE_GONE}
  PROVE  /\ Dated(Logged(old, new), now)
         /\ \A e \in Logged(old, new) : e.old \in Labels /\ e.new \in Severities \cup {STATE_GONE}
         /\ Logged(old, new) # {} /\ Latest(Logged(old, new)).new = new
<1> DEFINE ne == [ts |-> now, old |-> old, new |-> new]
<1>1. now \in Nat /\ Dated(events, now)
  BY DEF LogOK
<1>2. Logged(old, new) = events \cup {ne} /\ ne.ts = now /\ ne.old = old /\ ne.new = new
  BY DEF Logged
<1> HIDE DEF ne
<1>3. Dated(Logged(old, new), now)
  BY <1>1, <1>2 DEF Dated
<1>4. \A f \in Logged(old, new) : f.ts <= ne.ts
  BY <1>1, <1>2 DEF Dated
<1>5. Latest(Logged(old, new)) = ne
  BY <1>1, <1>2, <1>3, <1>4, LatestIs
<1> QED BY <1>2, <1>3, <1>5 DEF LogOK

\* The past stays told when the transition that is logged starts from the entry.
LEMMA TimelineLogged ==
  ASSUME LogInv, Reads, UNCHANGED <<now, truth, row>>, \A e \in events : e.ts < now, known # Unheard,
         unlogged \subseteq unlogged',
         \/ events' = events /\ Agree(unlogged', Label(known), Label(known'))
         \/ \E old \in Labels : \E new : events' = Logged(old, new) /\ Normalised(old) = Label(known)
  PROVE  Timeline'
<1> SUFFICES ASSUME NEW t \in 0..(now - 1), Watched(t)'
             PROVE  Told(events', unlogged', known', truth[t + 1], t)
  BY DEF Timeline
<1>1. now \in Nat /\ t \in Nat /\ t < now /\ Dated(events, now)
  BY DEF LogInv, LogOK
<1>2. Watched(t)
  BY <1>1, LookedBefore DEF Watched, Reads
<1>3. Told(events, unlogged, known, truth[t + 1], t)
  BY <1>2 DEF LogInv, Timeline
<1>4. CASE events' = events /\ Agree(unlogged', Label(known), Label(known'))
  BY <1>3, <1>4, ToldMoves
<1>5. ASSUME NEW old \in Labels, NEW new, events' = Logged(old, new), Normalised(old) = Label(known)
      PROVE  Told(events', unlogged', known', truth[t + 1], t)
  <2> DEFINE ne == [ts |-> now, old |-> old, new |-> new]
  <2>1. events' = events \cup {ne} /\ ne.ts = now /\ Normalised(ne.old) = Label(known)
    BY <1>5 DEF Logged
  <2> HIDE DEF ne
  <2> QED BY <1>1, <1>3, <2>1, ToldLogged
<1> QED BY <1>4, <1>5

LEMMA TimelineAnew ==
  ASSUME LogInv, Reads, now' = now, row' = Unheard \/ row'.first_seen = now
  PROVE  Timeline'
<1> SUFFICES ASSUME NEW t \in 0..(now - 1) PROVE ~ Watched(t)'
  BY DEF Timeline
<1> QED BY DEF Watched, LogInv, LogOK

LEMMA SightKept ==
  ASSUME LogInv, UNCHANGED <<instance, now, truth>>, ReadsSight, \A e \in events : e.ts < now
  PROVE  LogInv'
<1> DEFINE sev == said'
           first == known = Unheard
           old == IF first THEN STATE_NEW ELSE IF known.gone THEN STATE_GONE ELSE known.severity
<1>1. LogOK /\ sev \in Severities /\ Reads /\ Followed \in DOMAIN PanelOf
  BY DEF LogInv, ReadsSight
<1>2. /\ known' = [heard |-> TRUE, severity |-> sev, gone |-> FALSE]
      /\ row' = IF first THEN [heard |-> TRUE, first_seen |-> now] ELSE row
      /\ events' = IF old # sev /\ (first => sev \in BAD) THEN Logged(old, sev) ELSE events
      /\ unlogged' = IF first /\ sev = UNKNOWN /\ events # {} /\ Latest(events).new = OK
                     THEN unlogged \cup {OK, UNKNOWN} ELSE unlogged
  BY DEF ReadsSight, Sighted
<1>3. old \in Labels /\ (~first => Normalised(old) = Label(known)) /\ sev \in Severities \cup {STATE_GONE}
  BY <1>1, EntryFacts, StateFacts DEF LogOK, Labels, Label
<1>4. known' \in Entries /\ known' # Unheard /\ Label(known') = sev /\ known'.severity = sev /\ known'.gone = FALSE
  BY <1>1, <1>2, EntryIsHeard
<1>5. LogOK'
  <2>1. row' \in Rows /\ row' # Unheard /\ row'.first_seen <= now
    <3>1. [heard |-> TRUE, first_seen |-> now].heard # Unheard.heard /\ now \in Nat
      BY <1>1 DEF Unheard, LogOK
    <3>2. CASE first
      <4>1. row' = [heard |-> TRUE, first_seen |-> now]
        BY <1>2, <3>2
      <4>2. [heard |-> TRUE, first_seen |-> now] \in [heard : {TRUE}, first_seen : Nat]
        BY <3>1
      <4>3. row' # Unheard
        BY <3>1, <4>1
      <4>4. row'.first_seen = now
        BY <4>1
      <4>5. now <= now
        BY <3>1
      <4> QED BY <4>1, <4>2, <4>3, <4>4, <4>5 DEF Rows
    <3>3. CASE ~first
      BY <1>1, <1>2, <3>3 DEF LogOK
    <3> QED BY <3>2, <3>3
  <2>2. unlogged' \subseteq {OK, UNKNOWN}
    BY <1>1, <1>2 DEF LogOK
  <2>3. Dated(events', now) /\ \A e \in events' : e.old \in Labels /\ e.new \in Severities \cup {STATE_GONE}
    BY <1>1, <1>2, <1>3, LoggedFacts DEF LogOK
  <2>4. heard' \in 0..now /\ obs' \subseteq 0..heard'
    BY <1>1, ReadsTyped
  <2>5. said' \in States /\ Followed' = Followed
    BY <1>1 DEF States, ReadsSight, Followed
  <2> QED BY <1>1, <1>4, <2>1, <2>2, <2>3, <2>4, <2>5 DEF LogOK, Dated
<1>6. EntryTold'
  <2>1. Agree(unlogged', said', Label(known'))
    BY <1>4 DEF Agree
  <2>2. CASE events' = Logged(old, sev)
    <3>1. Latest(events').new = sev
      BY <1>1, <1>3, <2>2, LoggedFacts
    <3>2. LastTold(events', unlogged', known')
      BY <1>4, <3>1 DEF LastTold
    <3> QED BY <1>4, <2>1, <3>2 DEF EntryTold, EntryNow
  <2>3. CASE events' = events /\ ~ first /\ old = sev
    <3>1. ~known.gone /\ known.severity = sev
      BY <1>1, <2>3, StateFacts
    <3>2. EntryNow(events, unlogged, known, said) /\ unlogged' = unlogged
      BY <1>2, <2>3 DEF LogInv, EntryTold
    <3>3. LastTold(events', unlogged', known')
      BY <1>4, <2>3, <3>1, <3>2 DEF LastTold, EntryNow
    <3> QED BY <1>4, <2>1, <3>3 DEF EntryTold, EntryNow
  <2>4. CASE events' = events /\ first /\ sev \notin BAD
    <3>1. LastForgotten(events)
      BY <2>4 DEF LogInv, EntryTold
    <3>2. sev \in {OK, UNKNOWN}
      BY <1>1, <2>4 DEF Severities, BAD
    <3>3. LastTold(events', unlogged', known')
      BY <1>2, <1>4, <2>4, <3>1, <3>2 DEF LastTold, LastForgotten
    <3> QED BY <1>4, <2>1, <3>3 DEF EntryTold, EntryNow
  <2>5. first => old # sev
    BY <1>1, StateFacts
  <2> QED BY <1>2, <2>2, <2>3, <2>4, <2>5
<1>7. Timeline'
  <2>1. CASE first
    <3>1. row'.first_seen = now
      BY <1>2, <2>1
    <3> QED BY <1>1, <3>1, TimelineAnew
  <2>2. CASE ~first
    <3>1. row' = row /\ unlogged' = unlogged
      BY <1>2, <2>2
    <3>2. CASE events' = Logged(old, sev)
      BY <1>1, <1>3, <2>2, <3>1, <3>2, TimelineLogged
    <3>3. CASE events' = events /\ old = sev
      <4>1. Label(known) = Label(known')
        BY <1>1, <1>4, <2>2, <3>3, StateFacts DEF Label
      <4> QED BY <1>1, <2>2, <3>1, <3>3, <4>1, TimelineLogged DEF Agree
    <3> QED BY <1>2, <2>2, <3>2, <3>3
  <2> QED BY <2>1, <2>2
<1>8. Sight'
  BY <1>1, ReadsSeen
<1> QED BY <1>5, <1>6, <1>7, <1>8 DEF LogInv

\* The check was on its collector's list, and no longer is.
LEMMA GoneKept ==
  ASSUME LogInv, UNCHANGED <<instance, now, truth>>, ReadsGone, \A e \in events : e.ts < now
  PROVE  LogInv'
<1>1. LogOK /\ Reads /\ known # Unheard /\ ~known.gone /\ Vanished /\ said' = Nothing
  BY DEF LogInv, ReadsGone
<1>2. known.severity \in Severities /\ known.gone = FALSE /\ known.heard = TRUE /\ Label(known) = known.severity
  BY <1>1, EntryFacts DEF LogOK, Label
<1>3. EntryNow(events, unlogged, known, said)
  BY <1>1 DEF LogInv, EntryTold
<1>4. \/ known.severity # OK /\ events' = Logged(known.severity, STATE_GONE)
      \/ known.severity = OK /\ events' = events
  BY <1>1 DEF Vanished
<1>5. known.severity \in Labels /\ STATE_GONE \in Severities \cup {STATE_GONE} /\ Normalised(known.severity) = Label(known)
  BY <1>2, StateFacts DEF Labels
<1>6. Dated(events', now) /\ \A e \in events' : e.old \in Labels /\ e.new \in Severities \cup {STATE_GONE}
  BY <1>1, <1>4, <1>5, LoggedFacts DEF LogOK
<1>7. events' # {} => \/ Latest(events').new = STATE_GONE
                      \/ known.severity = OK /\ events' = events /\ Latest(events).new = OK
  <2>1. CASE events' = Logged(known.severity, STATE_GONE)
    BY <1>1, <1>5, <2>1, LoggedFacts
  <2>2. CASE known.severity = OK /\ events' = events
    BY <1>3, <2>2 DEF EntryNow, LastTold, OK, UNKNOWN
  <2> QED BY <1>4, <2>1, <2>2
<1>8. heard' \in 0..now /\ obs' \subseteq 0..heard' /\ said' \in States /\ Followed' = Followed
  BY <1>1, ReadsTyped, StateFacts DEF Followed
<1>9. Sight'
  BY <1>1, ReadsSeen
<1>10. CASE /\ known' = [known EXCEPT !.severity = OK, !.gone = TRUE]
            /\ unlogged' = IF known.severity = OK THEN unlogged \cup {OK} ELSE unlogged
            /\ UNCHANGED row
  <2>1. known' = [heard |-> TRUE, severity |-> OK, gone |-> TRUE]
    BY <1>1, <1>10 DEF LogOK, Entries
  <2>2. known' \in Entries /\ known' # Unheard /\ Label(known') = Nothing /\ known'.severity = OK /\ known'.gone = TRUE
    BY <2>1, SeverityFacts, EntryIsHeard
  <2>3. unlogged \subseteq unlogged' /\ unlogged' \subseteq {OK, UNKNOWN} /\ (known.severity = OK => OK \in unlogged')
    BY <1>1, <1>10 DEF LogOK
  <2>4. LogOK'
    BY <1>1, <1>6, <1>8, <1>10, <2>2, <2>3 DEF LogOK, Dated
  <2>5. EntryTold'
    <3>1. LastTold(events', unlogged', known')
      BY <1>7, <2>2, <2>3 DEF LastTold
    <3> QED BY <1>1, <2>2, <3>1 DEF EntryTold, EntryNow, Agree
  <2>6. Timeline'
    <3>1. CASE events' = Logged(known.severity, STATE_GONE)
      BY <1>1, <1>5, <1>10, <2>3, <3>1, TimelineLogged
    <3>2. CASE known.severity = OK /\ events' = events
      <4>1. Agree(unlogged', Label(known), Label(known'))
        BY <1>2, <2>2, <2>3, <3>2 DEF Agree
      <4> QED BY <1>1, <1>10, <2>3, <3>2, <4>1, TimelineLogged
    <3> QED BY <1>4, <3>1, <3>2
  <2> QED BY <1>9, <2>4, <2>5, <2>6 DEF LogInv
<1>11. CASE known' = Unheard /\ row' = Unheard /\ UNCHANGED unlogged
  <2>1. LogOK'
    BY <1>1, <1>6, <1>8, <1>11 DEF LogOK, Dated, Entries, Rows
  <2>2. EntryTold'
    BY <1>7, <1>11 DEF EntryTold, LastForgotten
  <2>3. Timeline'
    BY <1>1, <1>11, TimelineAnew
  <2> QED BY <1>9, <2>1, <2>2, <2>3 DEF LogInv
<1> QED BY <1>1, <1>10, <1>11 DEF Vanished

LEMMA NothingKept ==
  ASSUME LogInv, UNCHANGED <<instance, now, truth>>, ReadsNothing
  PROVE  LogInv'
<1>1. LogOK /\ Reads /\ UNCHANGED <<known, row, events, unlogged>>
  BY DEF LogInv, ReadsNothing
<1>2. heard' \in 0..now /\ obs' \subseteq 0..heard' /\ said' \in States /\ Followed' = Followed
  BY <1>1, ReadsTyped, StateFacts DEF Followed, LogOK, ReadsNothing
<1>3. LogOK'
  BY <1>1, <1>2 DEF LogOK, Dated
<1>4. EntryTold'
  <2>1. CASE known = Unheard
    BY <1>1, <2>1 DEF LogInv, EntryTold
  <2>2. CASE known # Unheard
    <3>1. EntryNow(events, unlogged, known, said)
      BY <2>2 DEF LogInv, EntryTold
    <3>2. Agree(unlogged, said', Label(known))
      BY <2>2, <3>1 DEF ReadsNothing, EntryNow, Agree, Label
    <3> QED BY <1>1, <2>2, <3>1, <3>2 DEF EntryTold, EntryNow
  <2> QED BY <2>1, <2>2
<1>5. Timeline'
  <2>1. ASSUME NEW t \in 0..(now - 1), Watched(t)' PROVE Watched(t)
    BY <1>1, <2>1, TimelineTyped, LookedBefore DEF Watched, Reads, LogOK
  <2> QED BY <1>1, <2>1 DEF LogInv, Timeline
<1> QED BY <1>1, <1>3, <1>4, <1>5, ReadsSeen DEF LogInv

\* A poll of the followed check's collector, or one that tells nothing of it.
LEMMA PollKeepsLog ==
  ASSUME BoardOK, PanelsOK, LogInv, NEW c \in Enabled, Poll(c)
  PROVE  LogInv'
<1>1. PICK panel \in Outcomes(c) : Ingest(c, panel)
  BY DEF Poll
<1>2. UNCHANGED <<instance, now, truth>>
  BY DEF Poll
<1>3. CASE panel.error \/ Followed \notin ChecksOf(c)
  <2>1. UNCHANGED log
    BY <1>1, <1>3 DEF Ingest
  <2> QED BY <1>2, <2>1 DEF log, LogInv, LogOK, Dated, EntryTold, Timeline, Sight, Watched, Looked, Reach, Followed
<1>4. CASE ~ (panel.error \/ Followed \notin ChecksOf(c))
  <2>1. Followed \in DOMAIN PanelOf /\ Home = c
    BY <1>4 DEF ChecksOf, Home
  <2>2. \A e \in events : e.ts < now
    <3>1. \A e \in events : e.ts \in 0..now
      BY DEF LogInv, LogOK, Dated
    <3>2. ASSUME NEW e \in events, e.ts = now PROVE FALSE
      <4>1. c \in DOMAIN panels /\ panels[c].ts = now
        BY <2>1, <3>2 DEF PanelsOK
      <4>2. panels[c].ts < now /\ now \in Nat
        BY <4>1 DEF Poll, Pending, BoardOK
      <4> QED BY <4>1, <4>2
    <3> QED BY <3>1, <3>2 DEF BoardOK
  <2> DEFINE listed == Followed \in DOMAIN panel.checks
  <2>3. /\ Reads
        /\ said' = IF listed THEN panel.checks[Followed] ELSE IF panel.unread THEN said ELSE Nothing
        /\ CASE listed -> Sighted(panel.checks[Followed])
             [] ~listed /\ ~panel.unread /\ known # Unheard /\ ~known.gone -> Vanished
             [] OTHER -> UNCHANGED <<known, row, events, unlogged>>
    BY <1>1, <1>4 DEF Ingest, Reads
  <2>4. CASE listed
    <3>1. panel.checks[Followed] \in Severities
      BY <2>4, OutcomesTyped DEF Boards
    <3>2. ReadsSight
      BY <2>1, <2>3, <2>4, <3>1 DEF ReadsSight
    <3> QED BY <1>2, <2>2, <3>2, SightKept
  <2>5. CASE ~listed /\ ~panel.unread /\ known # Unheard /\ ~known.gone
    <3>1. ReadsGone
      BY <2>3, <2>5 DEF ReadsGone
    <3> QED BY <1>2, <2>2, <3>1, GoneKept
  <2>6. CASE ~listed /\ ~ (~panel.unread /\ known # Unheard /\ ~known.gone)
    <3>1. said' = said \/ (said' = Nothing /\ (known = Unheard \/ known.gone))
      BY <2>3, <2>6
    <3>2. ReadsNothing
      BY <2>3, <2>6, <3>1 DEF ReadsNothing
    <3> QED BY <1>2, <3>2, NothingKept
  <2> QED BY <2>4, <2>5, <2>6
<1> QED BY <1>3, <1>4

LEMMA SettledKept ==
  ASSUME LogInv, UNCHANGED <<instance, now, truth>>, Settled
  PROVE  LogInv'
<1>1. LogOK' /\ Sight'
  BY DEF LogInv, LogOK, Settled, Dated, Followed, Entries, Rows, Sight, Looked, Reach
<1>2. EntryTold'
  <2>1. EntryNow(events, unlogged, known, said) /\ known.gone
    BY DEF LogInv, EntryTold, Settled
  <2>2. LastForgotten(events)
    <3>1. OK # UNKNOWN
      BY DEF OK, UNKNOWN
    <3> QED BY <2>1, <3>1 DEF EntryNow, LastTold, LastForgotten
  <2> QED BY <2>2 DEF EntryTold, Settled
<1>3. Timeline'
  BY DEF Timeline, Watched, Settled
<1> QED BY <1>1, <1>2, <1>3 DEF LogInv

\* The mutes do not matter to the log; pruning leaves what was read lately.
LEMMA MaintainKept ==
  ASSUME LogInv, Maintain
  PROVE  LogInv'
<1> DEFINE cut == now - 2 * Retention
<1>1. /\ events' = {e \in events : e.ts >= cut}
      /\ obs' = {o \in obs : o >= cut}
      /\ UNCHANGED <<instance, now, panels, known, row, said, heard, unlogged, truth>>
  BY DEF Maintain
<1>2. LogOK /\ now \in Nat /\ cut \in Int /\ Retention \in Nat /\ Reach \in Int /\ Followed' = Followed
  BY <1>1, InstanceAssumption DEF LogInv, LogOK, Reach, STALE_FACTOR, Followed
<1>3. Dated(events, now) /\ Dated(events', now)
  BY <1>1, <1>2 DEF LogOK, Dated
<1>4. LogOK'
  BY <1>1, <1>2, <1>3 DEF LogOK, Dated
<1>5. EntryTold'
  <2>1. events' # {} => events # {} /\ Latest(events') = Latest(events)
    <3> SUFFICES ASSUME events' # {} PROVE events # {} /\ Latest(events') = Latest(events)
      OBVIOUS
    <3>1. PICK e \in events' : TRUE
      OBVIOUS
    <3>2. Latest(events) \in events /\ \A f \in events : f.ts <= Latest(events).ts
      BY <1>1, <1>2, <1>3, <3>1, LatestFacts
    <3>3. Latest(events) \in events'
      <4>1. e.ts \in Nat /\ Latest(events).ts \in Nat /\ e.ts >= cut /\ e.ts <= Latest(events).ts
        BY <1>1, <1>3, <3>1, <3>2 DEF Dated
      <4> QED BY <1>1, <1>2, <3>2, <4>1
    <3>4. Latest(events') = Latest(events)
      BY <1>1, <1>2, <1>3, <3>2, <3>3, LatestIs
    <3> QED BY <1>1, <3>1, <3>4
  <2>2. CASE known = Unheard
    BY <1>1, <2>1, <2>2 DEF LogInv, EntryTold, LastForgotten
  <2>3. CASE known # Unheard
    BY <1>1, <2>1, <2>3 DEF LogInv, EntryTold, EntryNow, LastTold
  <2> QED BY <2>2, <2>3
<1>6. Timeline'
  <2> SUFFICES ASSUME NEW t \in 0..(now - 1), Watched(t)'
               PROVE  Told(events', unlogged, known, truth[t + 1], t)
    BY <1>1 DEF Timeline
  <2>1. PICK o \in obs' : o <= t /\ t < o + Reach
    BY <1>1 DEF Watched, Looked, Reach
  <2>2. o \in obs /\ o >= cut /\ o \in Int /\ t \in Nat
    BY <1>1, <1>2, <2>1 DEF LogOK
  <2>3. Watched(t)
    BY <1>1, <2>1, <2>2 DEF Watched, Looked, Reach
  <2>4. Told(events, unlogged, known, truth[t + 1], t)
    BY <2>3 DEF LogInv, Timeline
  <2>5. cut <= t
    BY <1>2, <2>1, <2>2
  <2> QED BY <1>1, <1>2, <1>3, <2>2, <2>4, <2>5, ToldPruned
<1>7. Sight'
  <2>1. said' # Nothing => heard' \in obs' \/ heard' < now' - 2 * Retention'
    BY <1>1, <1>2 DEF LogInv, LogOK, Sight
  <2>2. ASSUME NEW t \in 0..(now - 1), truth[t + 1] # Nothing
        PROVE  Looked(t)' \/ t < cut + Reach
    <3>1. CASE t < cut + Reach
      BY <3>1
    <3>2. CASE Looked(t)
      <4>1. PICK o \in obs : o <= t /\ t < o + Reach
        BY <3>2 DEF Looked
      <4>2. o \in Int /\ t \in Int
        BY <1>2 DEF LogOK
      <4>3. CASE o >= cut
        BY <1>1, <4>1, <4>3 DEF Looked, Reach
      <4>4. CASE o < cut
        BY <1>2, <4>1, <4>2, <4>4
      <4> QED BY <1>2, <4>2, <4>3, <4>4
    <3> QED BY <2>2, <3>1, <3>2 DEF LogInv, Sight
  <2> QED BY <1>1, <2>1, <2>2 DEF Sight, Reach
<1> QED BY <1>4, <1>5, <1>6, <1>7 DEF LogInv

\* A tick that passes is told of by the entry.
LEMMA PassesKept ==
  ASSUME LogInv, Passes, UNCHANGED <<instance, row, events, obs, said, heard>>,
         \/ UNCHANGED <<known, unlogged>>
         \/ /\ known' = IF known = Unheard THEN Unheard ELSE [known EXCEPT !.gone = FALSE]
            /\ unlogged' = IF known # Unheard /\ known.gone THEN unlogged \cup {OK} ELSE unlogged
  PROVE  LogInv'
<1> DEFINE state == IF said # Nothing /\ now < heard + Reach THEN said ELSE Nothing
<1>1. LogOK /\ now \in Nat /\ now' = now + 1 /\ truth' = Append(truth, state) /\ Reach \in Int /\ Retention \in Int
  <2>1. LogOK /\ now \in Nat
    BY DEF LogInv, LogOK
  <2>2. now' = now + 1 /\ truth' = Append(truth, state)
    BY DEF Passes
  <2>3. Reach \in Int /\ Retention \in Int
    BY InstanceAssumption DEF Reach, STALE_FACTOR
  <2> QED BY <2>1, <2>2, <2>3
<1>2. state \in States
  BY <1>1, StateFacts DEF LogOK
<1> HIDE DEF state
<1>3. /\ truth' \in Seq(States) /\ Len(truth') = now + 1 /\ truth'[now + 1] = state
      /\ \A t \in 0..(now - 1) : truth'[t + 1] = truth[t + 1]
  <2>1. truth \in Seq(States) /\ Len(truth) = now
    BY <1>1 DEF LogOK
  <2> QED BY <1>1, <1>2, <2>1
<1>4. /\ known' \in Entries /\ (known' = Unheard <=> known = Unheard)
      /\ unlogged \subseteq unlogged' /\ unlogged' \subseteq {OK, UNKNOWN}
      /\ known # Unheard => Agree(unlogged', Label(known), Label(known'))
      /\ known # Unheard => EntryNow(events, unlogged', known', said)
  <2>1. CASE UNCHANGED <<known, unlogged>>
    BY <1>1, <2>1 DEF LogOK, Agree, LogInv, EntryTold
  <2>2. CASE /\ known' = IF known = Unheard THEN Unheard ELSE [known EXCEPT !.gone = FALSE]
             /\ unlogged' = IF known # Unheard /\ known.gone THEN unlogged \cup {OK} ELSE unlogged
    <3>1. CASE known = Unheard
      BY <1>1, <2>2, <3>1 DEF LogOK
    <3>2. CASE known # Unheard
      <4>1. known.severity \in Severities /\ known.gone \in BOOLEAN
        BY <1>1, <3>2, EntryFacts DEF LogOK
      <4>2. known' = [heard |-> TRUE, severity |-> known.severity, gone |-> FALSE]
        BY <1>1, <2>2, <3>2 DEF LogOK, Entries
      <4>3. /\ known' \in Entries /\ known' # Unheard /\ Label(known') = known.severity
            /\ known'.severity = known.severity /\ known'.gone = FALSE
        BY <4>1, <4>2, EntryIsHeard
      <4>4. unlogged \subseteq unlogged' /\ unlogged' \subseteq {OK, UNKNOWN} /\ (known.gone => OK \in unlogged')
        BY <1>1, <2>2, <3>2 DEF LogOK
      <4>5. EntryNow(events, unlogged, known, said)
        BY <3>2 DEF LogInv, EntryTold
      <4>6. Agree(unlogged', Label(known), Label(known'))
        BY <4>1, <4>3, <4>4, <4>5 DEF Agree, Label, EntryNow
      <4>7. Agree(unlogged', said, Label(known'))
        BY <4>4, <4>5, <4>6, AgreeMoves DEF EntryNow
      <4>8. LastTold(events, unlogged', known')
        BY <4>3, <4>4, <4>5 DEF EntryNow, LastTold
      <4> QED BY <3>2, <4>3, <4>4, <4>6, <4>7, <4>8 DEF EntryNow
    <3> QED BY <3>1, <3>2
  <2> QED BY <2>1, <2>2
<1>5. LogOK'
  <2>1. now' \in Nat /\ heard' \in 0..now' /\ obs' \subseteq 0..heard'
    BY <1>1 DEF LogOK
  <2>2. truth' \in Seq(States) /\ Len(truth') = now'
    BY <1>1, <1>3
  <2>3. row' \in Rows /\ (row' # Unheard => row'.first_seen <= now' /\ Followed' \in DOMAIN PanelOf)
    <3>1. row.first_seen \in Nat \/ row = Unheard
      BY <1>1 DEF LogOK, Rows
    <3>2. row.first_seen \in Nat /\ row.first_seen <= now => row.first_seen <= now'
      BY <1>1
    <3> QED BY <1>1, <3>1, <3>2 DEF LogOK, Followed
  <2>4. Dated(events', now') /\ \A e \in events' : e.old \in Labels /\ e.new \in Severities \cup {STATE_GONE}
    BY <1>1 DEF LogOK, Dated
  <2>5. said' \in States /\ known' \in Entries /\ unlogged' \subseteq {OK, UNKNOWN} /\ (known' = Unheard <=> row' = Unheard)
    BY <1>1, <1>4 DEF LogOK
  <2> QED BY <2>1, <2>2, <2>3, <2>4, <2>5 DEF LogOK
<1>6. EntryTold'
  BY <1>4 DEF LogInv, EntryTold
<1>7. Timeline'
  <2> SUFFICES ASSUME NEW t \in 0..now, Watched(t)'
               PROVE  Told(events, unlogged', known', truth'[t + 1], t)
    <3>1. now' - 1 = now /\ events' = events
      BY <1>1
    <3> QED BY <3>1 DEF Timeline
  <2>1. Watched(t) /\ known # Unheard /\ known' # Unheard
    BY <1>1, <1>4 DEF Watched, Looked, Reach, LogOK
  <2>2. CASE t < now
    <3>1. t \in 0..(now - 1) /\ truth'[t + 1] = truth[t + 1]
      BY <1>1, <1>3, <2>2
    <3>2. Told(events, unlogged, known, truth[t + 1], t)
      BY <2>1, <3>1 DEF LogInv, Timeline
    <3> QED BY <1>4, <2>1, <3>1, <3>2, ToldMoves
  <2>3. CASE t = now
    <3>1. PICK o \in obs : o <= now /\ now < o + Reach
      BY <2>1, <2>3 DEF Watched, Looked
    <3>2. heard \in Int /\ o \in Int /\ o <= heard
      BY <1>1 DEF LogOK
    <3>3. now < heard + Reach
      BY <1>1, <3>1, <3>2
    <3>4. state = said
      BY <3>3 DEF state
    <3>5. Told(events, unlogged', known', said, now)
      <4>1. known'.severity \in Severities /\ known'.gone \in BOOLEAN /\ said \in States
        BY <1>1, <1>4, <2>1, EntryFacts DEF LogOK
      <4>2. Dated(events, now) /\ \A e \in events : e.new \in Labels
        BY <1>1 DEF LogOK, Labels
      <4> QED BY <1>1, <1>4, <2>1, <4>1, <4>2, ToldNow
    <3> QED BY <1>3, <2>3, <3>4, <3>5
  <2>4. t < now \/ t = now
    BY <1>1
  <2> QED BY <2>2, <2>3, <2>4
<1>8. Sight'
  <2>1. said' # Nothing => heard' \in obs' \/ heard' < now' - 2 * Retention'
    BY <1>1 DEF LogInv, LogOK, Sight
  <2>2. ASSUME NEW t \in 0..now, truth'[t + 1] # Nothing
        PROVE  Looked(t)' \/ t < now + 1 - 2 * Retention + Reach
    <3>1. CASE t < now
      <4>1. t \in 0..(now - 1) /\ truth[t + 1] # Nothing
        BY <1>1, <1>3, <2>2, <3>1
      <4>2. Looked(t) \/ t < now - 2 * Retention + Reach
        BY <4>1 DEF LogInv, Sight
      <4>3. Looked(t) => Looked(t)'
        BY DEF Looked, Reach
      <4>4. t < now - 2 * Retention + Reach => t < now + 1 - 2 * Retention + Reach
        <5>1. t \in Int /\ now - 2 * Retention + Reach \in Int
          BY <1>1, <4>1
        <5>2. now + 1 - 2 * Retention + Reach = (now - 2 * Retention + Reach) + 1
          BY <1>1
        <5> QED BY <5>1, <5>2
      <4> QED BY <4>2, <4>3, <4>4
    <3>2. CASE t = now
      <4>1. said # Nothing /\ now < heard + Reach
        BY <1>3, <2>2, <3>2 DEF state
      <4>2. heard \in Int /\ heard <= now
        BY <1>1 DEF LogOK
      <4>3. CASE heard \in obs
        BY <3>2, <4>1, <4>2, <4>3 DEF Looked, Reach
      <4>4. CASE heard < now - 2 * Retention
        BY <1>1, <3>2, <4>1, <4>2, <4>4
      <4> QED BY <4>1, <4>3, <4>4 DEF LogInv, Sight
    <3> QED BY <1>1, <3>1, <3>2
  <2>3. now' - 1 = now /\ now' = now + 1
    BY <1>1
  <2>4. ASSUME NEW t \in 0..(now' - 1), truth'[t + 1] # Nothing
        PROVE  Looked(t)' \/ t < now' - 2 * Retention + Reach
    <3>1. t \in 0..now
      BY <2>3
    <3>2. Looked(t)' \/ t < now + 1 - 2 * Retention + Reach
      BY <2>2, <2>4, <3>1
    <3> QED BY <1>1, <3>2
  <2> QED BY <2>1, <2>4 DEF Sight, Reach
<1> QED BY <1>5, <1>6, <1>7, <1>8 DEF LogInv

\* Everything that availability rests on.
ReadingsInv == BoardOK /\ PanelsOK /\ LogInv /\ BoardSees

LEMMA ReadingsInit == Init => ReadingsInv
<1> SUFFICES ASSUME Init PROVE ReadingsInv
  OBVIOUS
<1>1. BoardOK
  BY BoardInit
<1>2. PanelsOK
  <2>1. DOMAIN <<>> = {}
    OBVIOUS
  <2>2. now <= instance.until
    BY InstanceAssumption DEF Init
  <2> QED BY <2>1, <2>2 DEF Init, PanelsOK
<1>3. LogOK
  <2>1. <<>> \in Seq(States) /\ Len(<<>>) = 0
    OBVIOUS
  <2> QED BY <2>1, StateFacts DEF Init, LogOK, Entries, Rows, Dated
<1>4. EntryTold /\ Timeline /\ Sight
  BY DEF Init, EntryTold, LastForgotten, Timeline, Sight
<1>5. BoardSees
  BY DEF Init, BoardSees
<1> QED BY <1>1, <1>2, <1>3, <1>4, <1>5 DEF ReadingsInv, LogInv

\* A collector publishes its own checks, and nothing when it fails.
LEMMA OutcomesOwn ==
  ASSUME NEW c, NEW panel \in Outcomes(c)
  PROVE  /\ panel.error => panel.checks = <<>>
         /\ \A x \in DOMAIN panel.checks : x = Gap \/ (x \in DOMAIN PanelOf /\ PanelOf[x] = c)
<1> DEFINE Some(S) == {f \in [S -> Severities] : \A x \in S : f[x] \in Reports[x]}
<1>1. \/ panel = [checks |-> <<>>, unread |-> FALSE, error |-> TRUE]
      \/ \E S \in SUBSET ChecksOf(c) : \E f \in Some(S) :
           panel = [checks |-> f, unread |-> FALSE, error |-> FALSE]
      \/ \E S \in SUBSET (ChecksOf(c) \ {Followed}) : \E f \in Some(S) :
           panel = [checks |-> With(f, Gap, UNKNOWN), unread |-> TRUE, error |-> FALSE]
  BY DEF Outcomes
<1>2. DOMAIN <<>> = {}
  OBVIOUS
<1>3. \A S : \A f \in Some(S) : DOMAIN f = S
  OBVIOUS
<1> HIDE DEF Some
<1>4. CASE panel = [checks |-> <<>>, unread |-> FALSE, error |-> TRUE]
  BY <1>2, <1>4
<1>5. ASSUME NEW S \in SUBSET ChecksOf(c), NEW f \in Some(S), panel = [checks |-> f, unread |-> FALSE, error |-> FALSE]
      PROVE  panel.error = FALSE /\ DOMAIN panel.checks \subseteq ChecksOf(c)
  BY <1>3, <1>5
<1>6. ASSUME NEW S \in SUBSET (ChecksOf(c) \ {Followed}), NEW f \in Some(S),
             panel = [checks |-> With(f, Gap, UNKNOWN), unread |-> TRUE, error |-> FALSE]
      PROVE  panel.error = FALSE /\ DOMAIN panel.checks \subseteq ChecksOf(c) \cup {Gap}
  <2>1. DOMAIN panel.checks = DOMAIN f \cup {Gap}
    BY <1>6 DEF With
  <2> QED BY <1>3, <1>6, <2>1
<1> QED BY <1>1, <1>4, <1>5, <1>6 DEF ChecksOf

LEMMA PollKeepsPanels ==
  ASSUME BoardOK, PanelsOK, LogInv, NEW c \in Enabled, Poll(c)
  PROVE  PanelsOK'
<1>1. PICK panel \in Outcomes(c) :
        /\ panels' = With(panels, c, [ts |-> now, checks |-> panel.checks, error |-> panel.error])
        /\ Ingest(c, panel)
  BY DEF Poll
<1>2. UNCHANGED <<instance, now, mutes>> /\ now \in Nat
  BY DEF Poll, BoardOK
<1>3. /\ DOMAIN panels' = DOMAIN panels \cup {c} /\ panels'[c].ts = now
      /\ panels'[c].checks = panel.checks /\ panels'[c].error = panel.error
      /\ \A d \in DOMAIN panels : d # c => panels'[d] = panels[d]
  BY <1>1 DEF With
<1>4. ASSUME NEW d \in DOMAIN panels'
      PROVE  /\ panels'[d].ts <= now
             /\ panels'[d].error => panels'[d].checks = <<>>
             /\ \A x \in DOMAIN panels'[d].checks : x = Gap \/ PanelOf[x] = d
  <2>1. CASE d = c
    BY <1>1, <1>2, <1>3, <2>1, OutcomesOwn
  <2>2. CASE d # c
    BY <1>3, <2>2 DEF PanelsOK
  <2> QED BY <2>1, <2>2
<1>5. ASSUME NEW e \in events', e.ts = now
      PROVE  Home \in DOMAIN panels' /\ panels'[Home].ts = now
  <2>1. CASE Home = c
    BY <1>3, <2>1
  <2>2. CASE Home # c
    <3>1. events' = events
      BY <1>1, <2>2 DEF Ingest, ChecksOf, Home, log
    <3> QED BY <1>3, <1>5, <2>2, <3>1 DEF PanelsOK
  <2> QED BY <2>1, <2>2
<1>6. Home' = Home
  BY <1>2 DEF Home, Followed
<1> QED BY <1>2, <1>4, <1>5, <1>6 DEF PanelsOK

\* Only the collector of the followed check can put it on the board.
LEMMA PollKeepsSight ==
  ASSUME BoardOK, PanelsOK, PanelsOK', LogInv, LogOK', BoardSees, NEW c \in Enabled, Poll(c)
  PROVE  BoardSees'
<1> SUFFICES ASSUME NEW d \in DOMAIN panels', Followed \in DOMAIN panels'[d].checks, row' # Unheard
             PROVE  /\ ~known'.gone /\ Followed \in DOMAIN panels'[Home].checks
                    /\ known'.severity = panels'[Home].checks[Followed]
  BY DEF BoardSees, OnBoard, Published, Home, Followed, Poll
<1>1. PICK panel \in Outcomes(c) :
        /\ panels' = With(panels, c, [ts |-> now, checks |-> panel.checks, error |-> panel.error])
        /\ Ingest(c, panel)
  BY DEF Poll
<1>2. /\ DOMAIN panels' = DOMAIN panels \cup {c} /\ panels'[c].checks = panel.checks
      /\ \A e \in DOMAIN panels : e # c => panels'[e] = panels[e]
  BY <1>1 DEF With
<1>3. Followed \in DOMAIN PanelOf /\ Followed # Gap /\ Followed' = Followed
  BY ChecksAssumption DEF LogOK, Poll, Followed
<1>4. d = Home
  BY <1>3 DEF PanelsOK, Home
<1>5. CASE d = c
  <2>1. Followed \in ChecksOf(c) /\ Followed \in DOMAIN panel.checks
    BY <1>2, <1>3, <1>4, <1>5 DEF ChecksOf, Home
  <2>2. ~panel.error
    <3>1. DOMAIN <<>> = {}
      OBVIOUS
    <3> QED BY <2>1, <3>1, OutcomesOwn
  <2>3. Sighted(panel.checks[Followed])
    BY <1>1, <2>1, <2>2 DEF Ingest
  <2>4. known'.severity = panel.checks[Followed] /\ known'.gone = FALSE
    BY <2>3 DEF Sighted
  <2> QED BY <1>2, <1>4, <1>5, <2>1, <2>4
<1>6. CASE d # c
  <2>1. Followed \notin ChecksOf(c)
    BY <1>4, <1>6 DEF ChecksOf, Home
  <2>2. known' = known /\ row' = row
    BY <1>1, <2>1 DEF Ingest, log
  <2>3. d \in DOMAIN panels /\ panels'[d] = panels[d]
    BY <1>2, <1>6
  <2> QED BY <1>4, <2>2, <2>3 DEF BoardSees, OnBoard, Published
<1> QED BY <1>5, <1>6

LEMMA ReadingsKept == ReadingsInv /\ [Next]_vars => ReadingsInv'
<1> SUFFICES ASSUME ReadingsInv, [Next]_vars PROVE ReadingsInv'
  OBVIOUS
<1>1. BoardOK /\ PanelsOK /\ LogInv /\ BoardSees /\ BoardOK'
  BY BoardKept DEF ReadingsInv
<1>2. ASSUME NEW c \in Enabled, Poll(c) PROVE ReadingsInv'
  <2>1. LogInv' /\ PanelsOK'
    BY <1>1, <1>2, PollKeepsLog, PollKeepsPanels
  <2>2. BoardSees'
    BY <1>1, <1>2, <2>1, PollKeepsSight DEF LogInv
  <2> QED BY <1>1, <2>1, <2>2 DEF ReadingsInv
<1>3. ASSUME Settle PROVE ReadingsInv'
  <2>1. Settled /\ UNCHANGED <<instance, now, truth>>
    BY <1>3 DEF Settle, Settled
  <2>2. LogInv'
    BY <1>1, <2>1, SettledKept
  <2>3. PanelsOK'
    BY <1>1, <1>3 DEF PanelsOK, Settle, Home, Followed
  <2>4. BoardSees'
    BY <2>1 DEF BoardSees, Settled
  <2> QED BY <1>1, <2>2, <2>3, <2>4 DEF ReadingsInv
<1>4. ASSUME NEW x \in instance.mutable, SetMute(x) \/ ClearMute(x) PROVE ReadingsInv'
  <2>1. UNCHANGED <<instance, now, panels, log, truth>>
    BY <1>4 DEF SetMute, ClearMute
  <2>2. DOMAIN mutes' \subseteq DOMAIN mutes \cup {x}
    BY <1>4 DEF SetMute, ClearMute, With
  <2>3. LogInv'
    BY <1>1, <2>1 DEF log, LogInv, LogOK, Dated, EntryTold, Timeline, Sight, Watched, Looked, Reach, Followed
  <2>4. PanelsOK'
    BY <1>1, <2>1, <2>2 DEF PanelsOK, log, Home, Followed
  <2>5. BoardSees'
    BY <1>1, <2>1 DEF BoardSees, OnBoard, Published, Home, Followed, log
  <2> QED BY <1>1, <2>3, <2>4, <2>5 DEF ReadingsInv
<1>5. ASSUME Maintain PROVE ReadingsInv'
  <2>1. LogInv'
    BY <1>1, <1>5, MaintainKept
  <2>2. DOMAIN mutes' \subseteq DOMAIN mutes /\ events' \subseteq events /\ UNCHANGED <<instance, now, panels, known, row>>
    BY <1>5 DEF Maintain
  <2>3. PanelsOK'
    BY <1>1, <2>2 DEF PanelsOK, Home, Followed
  <2>4. BoardSees'
    BY <1>1, <2>2 DEF BoardSees, OnBoard, Published, Home, Followed
  <2> QED BY <1>1, <2>1, <2>3, <2>4 DEF ReadingsInv
<1>6. ASSUME Tick \/ Restart PROVE ReadingsInv'
  <2>1. Passes /\ UNCHANGED <<instance, mutes, row, events, obs, said, heard>>
    BY <1>6 DEF Tick, Restart, log
  <2>2. LogInv'
    BY <1>1, <1>6, <2>1, PassesKept DEF Tick, Restart, log
  <2>3. \/ panels' = panels /\ known' = known
        \/ panels' = <<>>
    BY <1>6 DEF Tick, Restart, log
  <2>4. PanelsOK'
    <3>1. now \in Nat /\ now' = now + 1 /\ now < instance.until /\ instance' = instance /\ mutes' = mutes /\ events' = events
      BY <1>1, <2>1 DEF BoardOK, Passes
    <3>2. instance.until \in Nat
      BY <1>1, InstanceAssumption DEF BoardOK
    <3>3. now' <= instance.until
      BY <3>1, <3>2
    <3>4. \A e \in events : e.ts # now'
      BY <1>1, <3>1 DEF LogInv, LogOK, Dated
    <3>5. \A c \in DOMAIN panels' : c \in DOMAIN panels /\ panels'[c] = panels[c]
      <4>1. DOMAIN <<>> = {}
        OBVIOUS
      <4> QED BY <2>3, <4>1
    <3>6. \A c \in DOMAIN panels : panels[c].ts \in Nat /\ panels[c].ts <= now
      BY <1>1, PanelFacts DEF PanelsOK
    <3>7. \A c \in DOMAIN panels' : panels'[c].ts <= now'
      BY <3>1, <3>5, <3>6
    <3> QED BY <1>1, <3>1, <3>3, <3>4, <3>5, <3>7 DEF PanelsOK
  <2>5. BoardSees'
    <3>1. CASE panels' = <<>>
      <4>1. DOMAIN <<>> = {}
        OBVIOUS
      <4> QED BY <3>1, <4>1 DEF BoardSees, OnBoard
    <3>2. CASE panels' = panels /\ known' = known
      BY <1>1, <2>1, <3>2 DEF BoardSees, OnBoard, Published, Home, Followed
    <3> QED BY <2>3, <3>1, <3>2
  <2> QED BY <1>1, <2>2, <2>4, <2>5 DEF ReadingsInv
<1>7. ASSUME UNCHANGED vars PROVE ReadingsInv'
  <2>1. LogInv'
    BY <1>1, <1>7 DEF vars, LogInv, LogOK, Dated, EntryTold, Timeline, Sight, Watched, Looked, Reach, Followed
  <2>2. PanelsOK' /\ BoardSees'
    BY <1>1, <1>7 DEF vars, PanelsOK, BoardSees, OnBoard, Published, Home, Followed
  <2> QED BY <1>1, <2>1, <2>2 DEF ReadingsInv
<1> QED BY <1>2, <1>3, <1>4, <1>5, <1>6, <1>7 DEF Next

\* The state variables are well formed: Readings.TypeOK, whose least obvious
\* parts are that the entry and its row come and go together, and that no two
\* transitions of one check are logged with the same time (scheduler.py:778).
THEOREM ReadingsTyping == Spec => []TypeOK
<1>1. ReadingsInv => TypeOK
  <2> SUFFICES ASSUME ReadingsInv PROVE TypeOK
    OBVIOUS
  <2>1. BoardOK /\ PanelsOK /\ LogOK
    BY DEF ReadingsInv, LogInv
  <2>2. instance \in Instances /\ now \in 0..instance.until /\ DOMAIN panels \subseteq Enabled
    BY <2>1, InstanceAssumption DEF BoardOK, PanelsOK
  <2>3. \A c \in DOMAIN panels : panels[c].ts \in 0..now
    BY <2>1, PanelFacts DEF PanelsOK, BoardOK
  <2>4. known # Unheard => known.severity \in Severities /\ row.first_seen \in 0..now
    <3>1. known # Unheard => row # Unheard /\ row.first_seen \in Nat /\ row.first_seen <= now
      BY <2>1, RowFacts DEF LogOK
    <3>2. now \in Nat
      BY <2>1 DEF LogOK
    <3>3. known # Unheard => known.severity \in Severities
      BY <2>1, EntryFacts DEF LogOK
    <3> QED BY <3>1, <3>2, <3>3
  <2>5. obs \subseteq 0..now
    BY <2>1 DEF LogOK
  <2> QED BY <2>1, <2>2, <2>3, <2>4, <2>5 DEF TypeOK, PanelsOK, LogOK, Dated
<1> QED BY <1>1, ReadingsInit, ReadingsKept, PTL DEF Spec

-----------------------------------------------------------------------------
\* What availability makes of a tick, whatever the window it is asked for.
Reading(t) ==
  IF Upto(events, t) # {} THEN Normalised(Latest(Upto(events, t)).new)
  ELSE IF After(events, t) # {} THEN Normalised(Earliest(After(events, t)).old)
  ELSE Current

LEMMA WindowDoesNotMatter ==
  ASSUME ReadingsInv, row # Unheard, NEW window \in 1..now, NEW t \in Start(window)..(now - 1)
  PROVE  StateAt(t, window) = Reading(t)
<1> DEFINE B == Before(window)
           W == Within(window)
           past == {e \in W : e.ts <= t}
<1>1. /\ now \in Nat /\ Dated(events, now) /\ \A e \in events : e.ts \in Int
      /\ row.first_seen \in Nat
  BY RowFacts DEF ReadingsInv, LogInv, LogOK, Dated
<1>2. Start(window) \in Int /\ t \in Int /\ Start(window) <= t
  BY <1>1 DEF Start, Later
<1>3. /\ B = {e \in events : e.ts < Start(window)} /\ W = {e \in events : e.ts >= Start(window)}
      /\ Upto(events, t) = B \cup past
  BY <1>1, <1>2 DEF Before, Within, Upto
<1>4. StateAt(t, window) = IF past = {} THEN Entering(window) ELSE Normalised(Latest(past).new)
  BY DEF StateAt
<1>5. Entering(window) = IF B # {} THEN Normalised(Latest(B).new)
                         ELSE IF W # {} THEN Normalised(Earliest(W).old) ELSE Current
  BY DEF Entering
<1>6. CASE past # {}
  <2>1. Dated(past, now) /\ Dated(Upto(events, t), now)
    BY <1>1, <1>3 DEF Dated
  <2>2. Latest(past) \in past /\ \A f \in past : f.ts <= Latest(past).ts
    BY <1>1, <1>6, <2>1, LatestFacts
  <2>3. \A f \in B : f.ts <= Latest(past).ts
    <3>1. Latest(past).ts >= Start(window) /\ Latest(past).ts \in Int
      BY <1>1, <1>3, <2>2
    <3>2. \A f \in B : f.ts \in Int /\ f.ts < Start(window)
      BY <1>1, <1>3
    <3> QED BY <1>2, <3>1, <3>2
  <2>4. Latest(Upto(events, t)) = Latest(past)
    BY <1>1, <1>3, <2>1, <2>2, <2>3, LatestIs
  <2> QED BY <1>3, <1>4, <1>6, <2>4 DEF Reading
<1>7. CASE past = {} /\ B # {}
  <2>1. Upto(events, t) = B
    BY <1>3, <1>7
  <2> QED BY <1>4, <1>5, <1>7, <2>1 DEF Reading
<1>8. CASE past = {} /\ B = {}
  <2>1. Upto(events, t) = {}
    BY <1>3, <1>8
  <2>2. After(events, t) = W
    BY <1>1, <1>2, <1>3, <1>8 DEF After
  <2> QED BY <1>4, <1>5, <1>8, <2>1, <2>2 DEF Reading
<1> QED BY <1>6, <1>7, <1>8

\* The board vouches for the check when no transition does.
LEMMA CurrentIsTold ==
  ASSUME ReadingsInv, row # Unheard, OnBoard
  PROVE  Current = Label(known) /\ Current \in Severities
<1>1. PICK d \in DOMAIN panels : Followed \in DOMAIN panels[d].checks
  BY DEF OnBoard
<1>2. Followed \in DOMAIN PanelOf /\ Followed # Gap
  BY ChecksAssumption DEF ReadingsInv, LogInv, LogOK
<1>3. d = Home
  BY <1>1, <1>2 DEF ReadingsInv, PanelsOK, Home
<1>4. d \in Polled
  BY <1>1, PanelFacts DEF ReadingsInv
<1>5. Current = panels[Home].checks[Followed]
  BY <1>1, <1>4 DEF Current, Published, Home
<1>6. ~known.gone /\ known.severity = panels[Home].checks[Followed]
  BY DEF ReadingsInv, BoardSees
<1>7. known # Unheard /\ known.severity \in Severities
  BY EntryFacts DEF ReadingsInv, LogInv, LogOK
<1> QED BY <1>5, <1>6, <1>7 DEF Label

\* Availability and the truth agree on every tick in which somebody looked.
LEMMA ReadingIsTrue ==
  ASSUME ReadingsInv, row # Unheard, NEW t \in 0..(now - 1), Watched(t),
         NEW sev \in Severities \ unlogged, events = {} => OnBoard
  PROVE  /\ Reading(t) = sev => truth[t + 1] = sev
         /\ Complete /\ truth[t + 1] = sev => Reading(t) = sev
<1>1. Told(events, unlogged, known, truth[t + 1], t)
  BY DEF ReadingsInv, LogInv, Timeline
<1>2. sev # Nothing /\ sev \notin unlogged /\ t \in Int /\ now \in Nat /\ Dated(events, now)
  BY StateFacts DEF ReadingsInv, LogInv, LogOK
<1>3. CASE Upto(events, t) # {}
  <2> DEFINE n == Latest(Upto(events, t)).new
  <2>1. Reading(t) = Normalised(n)
    BY <1>3 DEF Reading
  <2>2. Agree(unlogged, truth[t + 1], Normalised(n)) \/ (n = STATE_GONE /\ truth[t + 1] \in {OK, UNKNOWN})
    BY <1>1, <1>3 DEF Told, ToldBefore
  <2>3. Complete => n # STATE_GONE
    <3>1. Dated(Upto(events, t), now)
      BY <1>2 DEF Upto, Dated
    <3>2. Latest(Upto(events, t)) \in events
      BY <1>2, <1>3, <3>1, LatestFacts DEF Upto
    <3> QED BY <3>2 DEF Complete
  <2> HIDE DEF n
  <2>4. n = STATE_GONE => Normalised(n) = Nothing
    BY StateFacts
  <2> QED BY <1>2, <2>1, <2>2, <2>3, <2>4 DEF Agree
<1>4. CASE Upto(events, t) = {} /\ After(events, t) # {}
  <2>1. Reading(t) = Normalised(Earliest(After(events, t)).old)
    BY <1>4 DEF Reading
  <2>2. Agree(unlogged, truth[t + 1], Reading(t))
    BY <1>1, <1>4, <2>1 DEF Told, ToldAfter
  <2> QED BY <1>2, <2>2 DEF Agree
<1>5. CASE Upto(events, t) = {} /\ After(events, t) = {}
  <2>1. events = {}
    <3>1. \A e \in events : e.ts \in Int
      BY <1>2 DEF Dated
    <3> QED BY <1>2, <1>5, <3>1 DEF Upto, After
  <2>2. Reading(t) = Label(known)
    BY <1>5, <2>1, CurrentIsTold DEF Reading
  <2>3. Agree(unlogged, truth[t + 1], Reading(t))
    BY <1>1, <1>5, <2>2 DEF Told, ToldAfter
  <2> QED BY <1>2, <2>3 DEF Agree
<1> QED BY <1>3, <1>4, <1>5

\* Availability counts a tick under a severity only if the collector vouched for
\* that severity then, for any collectors, checks, intervals, retention and
\* clock: the sums over a window (Store.availability, db.py:400) are over ticks
\* whose states the log tells, and restarts, failed polls, gaps and pruning
\* change neither what is told nor, within retention, what is counted.
THEOREM AvailabilityCountsWhatWasSeen == Spec => []AvailabilityIsSeen
<1>1. ASSUME ReadingsInv, NEW window \in 1..now, NEW sev \in Severities,
             HasLog, Guessed(window) => OnBoard, sev \notin unlogged
      PROVE  /\ Spent(sev, window) <= Seen(sev, window)
             /\ (Complete /\ Start(window) >= Kept) => Spent(sev, window) = Seen(sev, window)
  <2> DEFINE I == Start(window)..(now - 1)
             spent == {t \in I : (HasLog => Looked(t)) /\ StateAt(t, window) = sev}
             seen == {t \in I : truth[t + 1] = sev}
  <2>1. /\ row # Unheard /\ now \in Nat /\ row.first_seen \in Nat
        /\ Retention \in Nat /\ Reach \in Int /\ sev # Nothing
    <3>1. row # Unheard /\ now \in Nat /\ row.first_seen \in Nat
      BY <1>1, RowFacts DEF HasLog, ReadingsInv, LogInv, LogOK
    <3>2. Retention \in Nat /\ Reach \in Int
      BY InstanceAssumption DEF Reach, STALE_FACTOR
    <3> QED BY <3>1, <3>2, StateFacts
  <2>2. Start(window) \in Nat /\ Start(window) >= row.first_seen
    BY <2>1 DEF Start, Later
  <2>3. events = {} => OnBoard
    BY <1>1, <2>1 DEF Guessed, Before, Within
  <2>4. IsFiniteSet(I) /\ IsFiniteSet(seen) /\ IsFiniteSet(spent)
    <3>1. IsFiniteSet(I)
      BY <2>1, <2>2, FS_Interval
    <3> QED BY <3>1, FS_Subset
  <2>5. ASSUME NEW t \in I
        PROVE  /\ t \in 0..(now - 1) /\ StateAt(t, window) = Reading(t)
               /\ Looked(t) => Watched(t)
    <3>1. t \in 0..(now - 1) /\ t >= row.first_seen
      BY <2>1, <2>2
    <3> QED BY <1>1, <2>1, <3>1, WindowDoesNotMatter DEF Watched
  <2>6. ASSUME NEW t \in spent PROVE t \in seen
    <3>1. t \in I /\ Looked(t) /\ StateAt(t, window) = sev
      BY <1>1
    <3> HIDE DEF spent, I
    <3>2. t \in 0..(now - 1) /\ Reading(t) = sev /\ Watched(t)
      BY <2>5, <3>1
    <3>3. truth[t + 1] = sev
      BY <1>1, <2>1, <2>3, <3>2, ReadingIsTrue
    <3> QED BY <3>1, <3>3
  <2>7. ASSUME Complete, Start(window) >= Kept, NEW t \in seen PROVE t \in spent
    <3>1. t \in I /\ truth[t + 1] = sev
      OBVIOUS
    <3>2. t \in 0..(now - 1) /\ StateAt(t, window) = Reading(t) /\ (Looked(t) => Watched(t))
      BY <2>5, <3>1
    <3>3. Looked(t)
      <4>1. Looked(t) \/ t < now - 2 * Retention + Reach
        BY <1>1, <2>1, <3>1, <3>2 DEF ReadingsInv, LogInv, Sight
      <4>2. t >= now - 2 * Retention + Reach
        BY <2>1, <2>2, <2>7, <3>1 DEF Kept, Later
      <4>3. ~ (t < now - 2 * Retention + Reach)
        BY <2>1, <3>2, <4>2
      <4> QED BY <4>1, <4>3
    <3>4. Reading(t) = sev
      BY <1>1, <2>1, <2>3, <2>7, <3>1, <3>2, <3>3, ReadingIsTrue
    <3> QED BY <3>1, <3>2, <3>3, <3>4
  <2>8. Spent(sev, window) = Cardinality(spent) /\ Seen(sev, window) = Cardinality(seen)
    BY DEF Spent, Seen
  <2> HIDE DEF spent, seen, I
  <2>9. Cardinality(spent) <= Cardinality(seen)
    <3>1. spent \subseteq seen
      BY <2>6
    <3> QED BY <2>4, <3>1, FS_Subset
  <2>10. (Complete /\ Start(window) >= Kept) => spent = seen
    BY <2>6, <2>7
  <2> QED BY <2>8, <2>9, <2>10
<1>2. ReadingsInv => AvailabilityIsSeen
  BY <1>1 DEF AvailabilityIsSeen
<1> QED BY <1>2, ReadingsInit, ReadingsKept, PTL DEF Spec
=============================================================================
