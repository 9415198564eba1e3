------------------------- MODULE EventAnalysis_proofs -------------------------
(* Theorems about EventAnalysis for any numbers of handlers, users, events,   *)
(* suggestions, rules, calendar revisions and calculations.                   *)
(*                                                                            *)
(* Most facts are about rows that were read and are used later.  They hold    *)
(* because rows only grow: what a later step relies on is never taken back    *)
(* (Grow).  What does change is protected only while handlers do not overlap  *)
(* (Calm).                                                                    *)
EXTENDS EventAnalysis, FiniteSetTheorems, TLAPS

Confirmed == {"CONFIRMED_FOR_DEADLINE_ANALYSIS", "CONFIRMED_FACT"}

(* What holds of every row.                                                   *)
AssessmentsRest == \A a \in AssessmentIds : assessment[a] # NoAssessment =>
  /\ assessment[a].event \in EventIds
  /\ assessment[a].rule <= rule.last
  /\ event[assessment[a].event].confirmation \in Confirmed
Rests(a) ==
  /\ a \in AssessmentIds
  /\ assessment[a] # NoAssessment
  /\ event[assessment[a].event].date = "VERIFIED"
CalculationsRest == \A c \in CalculationIds :
  calculation[c] # NoCalculation => Rests(calculation[c].assessment)
SuggestionsPoint == \A s \in SuggestionIds :
  suggestion[s].accepted # 0 => event[suggestion[s].accepted].from = s
Reviewed(c) == calculation[c].reviewer \notin {None, calculation[c].by}
VerifiedIsReviewed == \A c \in CalculationIds :
  calculation[c].status = "VERIFIED" => Reviewed(c)
DeadlinesHaveCalculations == \A c \in CalculationIds, i \in Copies :
  deadline[c][i] # NoDeadline => calculation[c] # NoCalculation

(* Versions are dense: the one before each is there.                          *)
Numbered(a, n) ==
  /\ n \in Nat \ {0}
  /\ n = 1 \/ \E k \in CalculationIds : /\ calculation[k].assessment = a
                                        /\ calculation[k].version = n - 1
VersionsAreDense == \A c \in CalculationIds : calculation[c] # NoCalculation =>
  Numbered(calculation[c].assessment, calculation[c].version)

(* What a handler still knows of what it has read.                            *)
Made(c) == c \in CalculationIds /\ calculation[c] # NoCalculation
Shaped(h) ==
  /\ Doing(h, "confirm") => work[h].id \in EventIds /\ work[h].text \in Confirmed
  /\ Doing(h, "assess") =>
       /\ work[h].id \in EventIds /\ work[h].number \in Rules /\ work[h].number <= rule.last
       /\ event[work[h].id].confirmation \in Confirmed
  /\ Doing(h, "reject") => work[h].id \in SuggestionIds
  /\ Doing(h, "accept") => work[h].id \in SuggestionIds /\ work[h].text \in DatePrecisions
  /\ Doing(h, "revise") => work[h].id \in CalendarRevisions
  /\ Doing(h, "approve") => work[h].id \in CalendarRevisions
  /\ Doing(h, "calculate") =>
       Rests(work[h].id) /\ Numbered(work[h].id, work[h].number) /\ work[h].user \in Users
  /\ Doing(h, "verify") =>
       Made(work[h].id) /\ work[h].user \in Users \ {calculation[work[h].id].by}
  /\ Doing(h, "track") => Made(work[h].id) /\ Reviewed(work[h].id)
  /\ Doing(h, "recalculate") =>
       /\ Made(work[h].id) /\ work[h].user \in Users
       /\ Numbered(calculation[work[h].id].assessment, work[h].number)
       /\ calculation[work[h].id].version < work[h].number

(* Supersession of deadlines, with the type of the link.                      *)
LinksArePlaced == \A c \in CalculationIds, i \in Copies :
  deadline[c][i].status = "SUPERSEDED" => deadline[c][i].next \in CalculationIds

RowFacts ==
        /\ AssessmentsRest /\ CalculationsRest /\ SuggestionsPoint
        /\ VerifiedIsReviewed /\ DeadlinesHaveCalculations /\ VersionsAreDense
        /\ LinksArePlaced

(* While no two handlers have overlapped: one is busy at most, and what it    *)
(* read is current.                                                           *)
OneBusy == \A g, h \in Handlers : Busy(g) /\ Busy(h) => g = h
Newest(a, n) == \A c \in CalculationIds :
  calculation[c].assessment = a => calculation[c].version < n
Fresh(h) ==
  /\ Doing(h, "assess") =>
       \A a \in AssessmentIds : assessment[a] # Assessment(work[h].id, work[h].number)
  /\ Doing(h, "approve") => work[h].number = current
  /\ Doing(h, "calculate") => Newest(work[h].id, work[h].number)
  /\ Doing(h, "track") =>
       /\ calculation[work[h].id].status = "VERIFIED"
       /\ \A i \in Copies : ~Live(work[h].id, i)
  /\ Doing(h, "recalculate") => Newest(calculation[work[h].id].assessment, work[h].number)
Calm == ~raced => OneBusy /\ \A h \in Handlers : Fresh(h)

IInv == /\ TypeOK /\ RowFacts /\ SupersessionIsLinked /\ NothingIsDoubled
        /\ \A h \in Handlers : Shaped(h)
        /\ Calm

(* What no step takes back.                                                   *)
Grow ==
  /\ \A e \in EventIds :
       /\ event[e].confirmation \in Confirmed => event'[e].confirmation \in Confirmed
       /\ event[e].date = "VERIFIED" => event'[e].date = "VERIFIED"
       /\ event[e] # Absent => event'[e].from = event[e].from
  /\ rule.last <= rule'.last
  /\ \A a \in AssessmentIds : assessment[a] # NoAssessment => assessment'[a] = assessment[a]
  /\ \A c \in CalculationIds : calculation[c] # NoCalculation =>
       /\ calculation'[c] # NoCalculation
       /\ calculation'[c].assessment = calculation[c].assessment
       /\ calculation'[c].version = calculation[c].version
       /\ calculation'[c].by = calculation[c].by
       /\ calculation'[c].supersedes = calculation[c].supersedes
       /\ Reviewed(c) => Reviewed(c)'

(* The types of the tables, without what handlers keep.                       *)
Tables ==
  /\ event \in [EventIds -> [confirmation : ConfirmationStatuses \cup {"ABSENT"},
                             date : DateStates, from : Nat]]
  /\ rule \in [last : Rules, active : BOOLEAN]
  /\ assessment \in [AssessmentIds -> [event : EventIds \cup {0}, rule : Rules \cup {0}]]
  /\ DetectionTypeOK
  /\ DeadlinesTypeOK

-----------------------------------------------------------------------------
(* Arithmetic.                                                                *)
(* A non-empty set of naturals has a least member.                            *)
LEMMA Least ==
  ASSUME NEW T \in SUBSET Nat, T # {}
  PROVE  \E x \in T : \A y \in T : x <= y
<1> DEFINE Below == {0 .. x : x \in T}
           R     == StrictSubsetOrdering(Nat)
<1>1. Below \in SUBSET FiniteSubsetsOf(Nat)
  <2>1. ASSUME NEW x \in T PROVE 0 .. x \in FiniteSubsetsOf(Nat)
    BY FS_Interval DEF FiniteSubsetsOf
  <2> QED BY <2>1
<1>2. Below # {}
  OBVIOUS
<1>3. PICK s \in Below : \A t \in Below : ~ (<<t, s>> \in R)
  <2>1. IsWellFoundedOn(R, FiniteSubsetsOf(Nat))
    BY FS_StrictSubsetOrderingWellFounded
  <2> HIDE DEF Below, R
  <2> QED BY <1>1, <1>2, <2>1, WFMin
<1>4. PICK x \in T : s = 0 .. x
  OBVIOUS
<1>5. ASSUME NEW y \in T, y < x PROVE FALSE
  <2>1. 0 .. y \subseteq 0 .. x /\ 0 .. y # 0 .. x
    <3>1. x \in 0 .. x /\ x \notin 0 .. y
      BY <1>5
    <3> QED BY <1>5, <3>1
  <2>2. <<0 .. y, s>> \in R
    BY <1>4, <2>1 DEF StrictSubsetOrdering
  <2> QED BY <1>3, <2>2
<1> QED BY <1>5

(* NextVersion is what the code's aggregate plus one is: the versions of an   *)
(* assessment are dense, so there is a version it may choose.                 *)
LEMMA NextVersionIsNext ==
  ASSUME TypeOK, VersionsAreDense, NEW a \in AssessmentIds
  PROVE  Numbered(a, NextVersion(a)) /\ Newest(a, NextVersion(a))
<1> DEFINE V == Versions(a)
           T == {n \in Nat \ {0} : n \notin V}
<1> USE DeadlinesAssumption, EventsAssumption
<1>1. \A v \in V : /\ v \in Nat \ {0}
                   /\ v = 1 \/ v - 1 \in V
  <2> TAKE v \in V
  <2>1. PICK c \in CalculationIds : calculation[c].assessment = a /\ calculation[c].version = v
    BY DEF Versions
  <2>2. calculation[c] # NoCalculation
    BY <2>1 DEF NoCalculation, Calculation, AssessmentIds
  <2>3. Numbered(a, v)
    BY <2>1, <2>2 DEF VersionsAreDense
  <2> QED BY <2>3 DEF Numbered, Versions
<1>2. IsFiniteSet(V) /\ Cardinality(V) <= MaxCalculations
  <2> DEFINE C == {k \in CalculationIds : calculation[k].assessment = a}
  <2>1. IsFiniteSet(CalculationIds) /\ Cardinality(CalculationIds) = MaxCalculations
    BY FS_Interval DEF CalculationIds
  <2>2. IsFiniteSet(C) /\ Cardinality(C) <= MaxCalculations
    BY <2>1, FS_Subset
  <2>3. V = {calculation[c].version : c \in C}
    BY DEF Versions
  <2>4. IsFiniteSet(V) /\ Cardinality(V) <= Cardinality(C)
    <3> DEFINE f == [c \in C |-> calculation[c].version]
    <3>1. f \in Surjection(C, V)
      BY <2>3 DEF Surjection
    <3> HIDE DEF C, f
    <3> QED BY <2>2, <3>1, FS_Surjection
  <2>5. Cardinality(V) \in Nat /\ Cardinality(C) \in Nat
    BY <2>2, <2>4, FS_CardinalityType
  <2> QED BY <2>2, <2>4, <2>5
<1> HIDE DEF V
<1>3. ASSUME NEW n \in Nat \ {0}, \A k \in 1 .. n - 1 : k \in V
      PROVE  n - 1 <= MaxCalculations
  <2>1. 1 .. n - 1 \in SUBSET V
    BY <1>3
  <2>2. Cardinality(1 .. n - 1) = n - 1
    BY FS_Interval
  <2> QED BY <1>2, <2>1, <2>2, FS_Subset, FS_CardinalityType
<1>4. T # {}
  <2> SUFFICES ASSUME T = {} PROVE FALSE
    OBVIOUS
  <2>1. \A k \in 1 .. MaxCalculations + 1 : k \in V
    OBVIOUS
  <2> QED BY <1>3, <2>1
<1>5. PICK n \in T : \A m \in T : n <= m
  BY <1>4, Least
<1>6. \A v \in V : v < n
  <2> DEFINE U == {v \in V : v > n}
  <2> SUFFICES U = {}
    BY <1>1
  <2> SUFFICES ASSUME U # {} PROVE FALSE
    OBVIOUS
  <2>1. PICK u \in U : \A v \in U : u <= v
    BY <1>1, Least
  <2>2. u - 1 \in V /\ u - 1 >= n
    BY <1>1
  <2>3. u - 1 # n
    BY <2>2
  <2>4. u - 1 \in U
    BY <1>1, <2>2, <2>3
  <2> QED BY <1>1, <2>1, <2>4
<1>7. n = 1 \/ n - 1 \in V
  <2> SUFFICES ASSUME n # 1, n - 1 \notin V PROVE FALSE
    OBVIOUS
  <2>1. n - 1 \in T
    OBVIOUS
  <2> QED BY <1>5, <2>1
<1>8. n \in 1 .. MaxCalculations + 1
  <2>1. \A k \in 1 .. n - 1 : k \in V
    <3> SUFFICES ASSUME NEW k \in 1 .. n - 1, k \notin V PROVE FALSE
      OBVIOUS
    <3>1. k \in T
      OBVIOUS
    <3> QED BY <1>5, <3>1
  <2> QED BY <1>3, <2>1
<1>9. /\ NextVersion(a) \in 1 .. MaxCalculations + 1
      /\ \A v \in V : v < NextVersion(a)
      /\ NextVersion(a) = 1 \/ NextVersion(a) - 1 \in V
  BY <1>6, <1>7, <1>8 DEF NextVersion, V
<1>10. Numbered(a, NextVersion(a))
  BY <1>9 DEF Numbered, V, Versions
<1>11. Newest(a, NextVersion(a))
  BY <1>9 DEF Newest, V, Versions
<1> QED BY <1>10, <1>11

-----------------------------------------------------------------------------
(* What handlers keep.                                                        *)
(* A handler still knows what it has read after any step but its own.         *)
LEMMA ShapeIsKept ==
  ASSUME IInv, Grow, Tables', NEW g \in Handlers, work'[g] = work[g]
  PROVE  Shaped(g)'
<1> USE DeadlinesAssumption, EventsAssumption
<1> DEFINE w == work[g]
<1>1. Shaped(g)
  BY DEF IInv
<1>2. ASSUME Doing(g, "confirm") PROVE w.id \in EventIds /\ w.text \in Confirmed
  BY <1>1, <1>2 DEF Shaped
<1>3. ASSUME Doing(g, "assess")
      PROVE  /\ w.id \in EventIds /\ w.number \in Rules /\ w.number <= rule'.last
             /\ event'[w.id].confirmation \in Confirmed
  <2>1. rule.last \in Nat /\ rule'.last \in Nat /\ w.number \in Nat
    BY <1>1, <1>3 DEF IInv, TypeOK, EventsTypeOK, Tables, Rules, Shaped
  <2> QED BY <1>1, <1>3, <2>1 DEF Shaped, Grow
<1>4. ASSUME NEW a, Rests(a) PROVE Rests(a)'
  <2>1. a \in AssessmentIds /\ assessment[a] # NoAssessment /\ assessment[a].event \in EventIds
    BY <1>4 DEF Rests, IInv, RowFacts, AssessmentsRest
  <2> QED BY <1>4, <2>1 DEF Rests, Grow
<1>5. ASSUME NEW a \in AssessmentIds, NEW n, Numbered(a, n) PROVE Numbered(a, n)'
  <2>1. \A k \in CalculationIds : calculation[k].assessment = a =>
          /\ calculation'[k].assessment = a
          /\ calculation'[k].version = calculation[k].version
    BY DEF Grow, NoCalculation, Calculation, AssessmentIds
  <2> QED BY <1>5, <2>1 DEF Numbered
<1>6. ASSUME NEW c, Made(c)
      PROVE  /\ Made(c)' /\ calculation'[c].assessment = calculation[c].assessment
             /\ calculation'[c].version = calculation[c].version
             /\ calculation'[c].by = calculation[c].by
             /\ calculation[c].assessment \in AssessmentIds
             /\ Reviewed(c) => Reviewed(c)'
  BY <1>6 DEF Made, Grow, IInv, RowFacts, CalculationsRest, Rests
<1> QED
  BY <1>1, <1>2, <1>3, <1>4, <1>5, <1>6 DEF Shaped, Doing, Rests

(* A row of work is typed, and what Begin, End and AtOnce do to it.           *)
LEMMA WorkIsTyped ==
  ASSUME TransactionsTypeOK, Tables', \A g \in Handlers : Shaped(g)',
         \/ \E h \in Handlers : End(h)
         \/ AtOnce
         \/ \E h \in Handlers, user \in Users \cup {None}, id \in Nat, number \in Nat :
              \E op, text : Begin(h, Work(op, user, id, number, text))
  PROVE  TypeOK'
<1>1. TransactionsTypeOK'
  <2>1. ASSUME NEW h \in Handlers, End(h) PROVE TransactionsTypeOK'
    BY <2>1 DEF TransactionsTypeOK, End, Work, Idle
  <2>2. CASE AtOnce
    BY <2>2 DEF TransactionsTypeOK, AtOnce
  <2>3. ASSUME NEW h \in Handlers, NEW user \in Users \cup {None}, NEW id \in Nat,
               NEW number \in Nat, NEW op, NEW text, Begin(h, Work(op, user, id, number, text))
        PROVE  TransactionsTypeOK'
    BY <2>3 DEF TransactionsTypeOK, Begin, Work, Quiet
  <2> QED BY <2>1, <2>2, <2>3
<1>2. EventsTypeOK'
  BY DEF Tables, EventsTypeOK, Shaped, Confirmed, ConfirmationStatuses
<1> QED BY <1>1, <1>2 DEF TypeOK, Tables

(* Behaviours without overlap: the handler that begins is alone, and after a  *)
(* commit or a step of its own nobody is busy.                                *)
LEMMA OneAtATime ==
  ASSUME TransactionsTypeOK, ~raced => OneBusy, ~raced'
  PROVE  /\ \A h \in Handlers : \A read : Begin(h, read) =>
              ~raced /\ \A g \in Handlers \ {h} : ~Busy(g)'
         /\ \A h \in Handlers : Busy(h) /\ End(h) => ~raced /\ \A g \in Handlers : ~Busy(g)'
         /\ AtOnce => ~raced /\ \A g \in Handlers : ~Busy(g)'
<1>1. ASSUME NEW h \in Handlers, NEW read, Begin(h, read)
      PROVE  ~raced /\ \A g \in Handlers \ {h} : ~Busy(g)'
  BY <1>1 DEF TransactionsTypeOK, Begin, Quiet, Busy
<1>2. ASSUME NEW h \in Handlers, Busy(h), End(h)
      PROVE  ~raced /\ \A g \in Handlers : ~Busy(g)'
  BY <1>2 DEF TransactionsTypeOK, End, OneBusy, Busy, Idle, Work
<1>3. ASSUME AtOnce PROVE ~raced /\ \A g \in Handlers : ~Busy(g)'
  BY <1>3 DEF TransactionsTypeOK, AtOnce, Quiet, Busy
<1> QED BY <1>1, <1>2, <1>3

(* A step that only reads keeps the invariant if what it read is so.          *)
LEMMA ReadsKeep ==
  ASSUME IInv, UNCHANGED <<eventVars, suggestion, deadlineVars>>, archived' \in BOOLEAN,
         NEW h \in Handlers, NEW user \in Users \cup {None}, NEW id \in Nat, NEW number \in Nat,
         NEW op, NEW text, Begin(h, Work(op, user, id, number, text)),
         Shaped(h)', ~raced' => Fresh(h)'
  PROVE  IInv'
<1>1. Grow
  BY DEF Grow, eventVars, deadlineVars, Reviewed, IInv, TypeOK, EventsTypeOK, Rules
<1>2. Tables'
  BY DEF Tables, IInv, TypeOK, EventsTypeOK, DetectionTypeOK, DeadlinesTypeOK, eventVars,
         deadlineVars
<1>3. \A g \in Handlers : Shaped(g)'
  BY <1>1, <1>2, ShapeIsKept DEF Begin, IInv, TypeOK, TransactionsTypeOK
<1>4. TypeOK'
  BY <1>2, <1>3, WorkIsTyped DEF IInv, TypeOK
<1>5. RowFacts'
  BY DEF IInv, RowFacts, AssessmentsRest, CalculationsRest, Rests, SuggestionsPoint,
         VerifiedIsReviewed, Reviewed, DeadlinesHaveCalculations, VersionsAreDense, Numbered,
         LinksArePlaced, eventVars, deadlineVars
<1>6. SupersessionIsLinked'
  BY DEF IInv, SupersessionIsLinked, deadlineVars
<1>7. ASSUME ~raced'
      PROVE  /\ ~raced
             /\ \A g \in Handlers \ {h} : ~Busy(g)'
  BY <1>7, OneAtATime DEF IInv, TypeOK, Calm
<1>8. NothingIsDoubled'
  BY <1>7 DEF IInv, NothingIsDoubled, CurrentIsApproved, RowsAreSingle, Live, eventVars,
              deadlineVars
<1>9. Calm'
  BY <1>7 DEF Calm, OneBusy, Fresh, Busy, Doing
<1> QED BY <1>3, <1>4, <1>5, <1>6, <1>8, <1>9 DEF IInv

(* A step that writes keeps the invariant if it keeps the facts about rows.   *)
LEMMA WritesKeep ==
  ASSUME IInv, Grow, Tables', RowFacts', SupersessionIsLinked', CurrentIsApproved',
         ~raced /\ ~raced' => RowsAreSingle',
         (\E h \in Handlers : Busy(h) /\ End(h)) \/ AtOnce
  PROVE  IInv'
<1>1. \A g \in Handlers : Shaped(g)'
  <2>1. CASE AtOnce
    BY <2>1, ShapeIsKept DEF AtOnce
  <2>2. ASSUME NEW h \in Handlers, End(h) PROVE \A g \in Handlers : Shaped(g)'
    <3>1. ASSUME NEW g \in Handlers, g # h PROVE Shaped(g)'
      BY <2>2, <3>1, ShapeIsKept DEF End, IInv, TypeOK, TransactionsTypeOK
    <3>2. Shaped(h)'
      BY <2>2 DEF End, IInv, TypeOK, TransactionsTypeOK, Shaped, Doing, Idle, Work
    <3> QED BY <3>1, <3>2
  <2> QED BY <2>1, <2>2
<1>2. TypeOK'
  BY <1>1, WorkIsTyped DEF IInv, TypeOK
<1>3. ASSUME ~raced' PROVE ~raced /\ \A g \in Handlers : ~Busy(g)'
  BY <1>3, OneAtATime DEF IInv, TypeOK, Calm
<1>4. NothingIsDoubled'
  BY <1>3 DEF NothingIsDoubled
<1>5. Calm'
  BY <1>3 DEF Calm, OneBusy, Fresh, Busy, Doing
<1> QED BY <1>1, <1>2, <1>4, <1>5 DEF IInv

-----------------------------------------------------------------------------
(* The steps that read.                                                       *)
LEMMA ReadingSteps ==
  ASSUME IInv, NEW h \in Handlers,
         \/ /\ \/ \E e \in EventIds :
                  \/ \E status \in ConfirmationStatuses : ConfirmRead(h, e, status)
                  \/ \E r \in Rules : AssessRead(h, e, r)
            /\ UNCHANGED <<detectionVars, deadlineVars>>
         \/ /\ \E s \in SuggestionIds :
                  \/ RejectRead(h, s)
                  \/ \E takeDate \in BOOLEAN : AcceptRead(h, s, takeDate)
            /\ UNCHANGED deadlineVars
         \/ /\ \/ \E k \in CalendarRevisions : ReviseRead(h, k) \/ ApproveRead(h, k)
               \/ \E user \in Users, a \in AssessmentIds : CalculateRead(h, user, a)
               \/ \E user \in Users, c \in CalculationIds : VerifyRead(h, user, c)
               \/ \E user \in Users, c \in CalculationIds : RecalculateRead(h, user, c)
               \/ \E c \in CalculationIds : TrackRead(h, c)
            /\ UNCHANGED detectionVars
  PROVE  IInv'
<1> USE DeadlinesAssumption, EventsAssumption, DetectionAssumption, TransactionsAssumption
<1>0. /\ TypeOK /\ h \in DOMAIN work /\ archived \in BOOLEAN
      /\ RowFacts
  BY DEF IInv, TypeOK, TransactionsTypeOK, DetectionTypeOK
<1>ids. /\ EventIds \subseteq Nat /\ Rules \subseteq Nat /\ SuggestionIds \subseteq Nat
        /\ CalendarRevisions \subseteq Nat /\ AssessmentIds \subseteq Nat
        /\ CalculationIds \subseteq Nat
  BY DEF EventIds, Rules, SuggestionIds, CalendarRevisions, AssessmentIds, CalculationIds
<1> DEFINE Read(op, user, id, number, text) ==
             /\ UNCHANGED <<eventVars, suggestion, deadlineVars>>
             /\ archived' \in BOOLEAN
             /\ Begin(h, Work(op, user, id, number, text))
             /\ work'[h] = Work(op, user, id, number, text)
<1>1. ASSUME NEW e \in EventIds, NEW status \in ConfirmationStatuses, ConfirmRead(h, e, status),
             UNCHANGED <<detectionVars, deadlineVars>>
      PROVE  IInv'
  <2>1. Read("confirm", None, e, 0, status)
    BY <1>0, <1>1 DEF ConfirmRead, Begin, eventVars, detectionVars
  <2>2. Shaped(h)'
    BY <1>1, <2>1 DEF ConfirmRead, Shaped, Doing, Work, Confirmed
  <2>3. Fresh(h)'
    BY <2>1 DEF Fresh, Doing, Work
  <2> QED BY <1>ids, <2>1, <2>2, <2>3, ReadsKeep
<1>2. ASSUME NEW e \in EventIds, NEW r \in Rules, AssessRead(h, e, r),
             UNCHANGED <<detectionVars, deadlineVars>>
      PROVE  IInv'
  <2>1. Read("assess", None, e, r, "none")
    BY <1>0, <1>2 DEF AssessRead, Begin, eventVars, detectionVars
  <2>2. r <= rule.last
    BY <1>ids, <1>2 DEF AssessRead, CandidateRules
  <2>3. Shaped(h)'
    BY <1>2, <2>1, <2>2 DEF AssessRead, Shaped, Doing, Work, Confirmed, eventVars
  <2>4. Fresh(h)'
    BY <1>2, <2>1 DEF AssessRead, Fresh, Doing, Work, eventVars
  <2> QED BY <1>ids, <2>1, <2>3, <2>4, ReadsKeep
<1>3. ASSUME NEW s \in SuggestionIds, RejectRead(h, s), UNCHANGED deadlineVars
      PROVE  IInv'
  <2>1. Read("reject", None, s, 0, "none")
    BY <1>0, <1>3 DEF RejectRead, Begin, eventVars, detectionVars
  <2>2. Shaped(h)' /\ Fresh(h)'
    BY <2>1 DEF Shaped, Fresh, Doing, Work
  <2> QED BY <1>ids, <2>1, <2>2, ReadsKeep
<1>4. ASSUME NEW s \in SuggestionIds, NEW takeDate \in BOOLEAN, AcceptRead(h, s, takeDate),
             UNCHANGED deadlineVars
      PROVE  IInv'
  <2> DEFINE date == IF takeDate THEN suggestion[s].date ELSE "NONE"
  <2>1. Read("accept", None, s, 0, date)
    BY <1>0, <1>4 DEF AcceptRead, Begin, eventVars, detectionVars
  <2>2. date \in DatePrecisions
    BY <1>0 DEF TypeOK, DetectionTypeOK, DatePrecisions
  <2> HIDE DEF date
  <2>3. Shaped(h)' /\ Fresh(h)'
    BY <2>1, <2>2 DEF Shaped, Fresh, Doing, Work
  <2> QED BY <1>ids, <2>1, <2>3, ReadsKeep
<1>5. ASSUME NEW k \in CalendarRevisions, ReviseRead(h, k), UNCHANGED detectionVars
      PROVE  IInv'
  <2>1. Read("revise", None, k, 0, "none")
    BY <1>0, <1>5 DEF ReviseRead, Begin, eventVars, detectionVars
  <2>2. Shaped(h)' /\ Fresh(h)'
    BY <2>1 DEF Shaped, Fresh, Doing, Work
  <2> QED BY <1>ids, <2>1, <2>2, ReadsKeep
<1>6. ASSUME NEW k \in CalendarRevisions, ApproveRead(h, k), UNCHANGED detectionVars
      PROVE  IInv'
  <2>1. Read("approve", None, k, current, "none") /\ current \in Nat
    BY <1>0, <1>6, <1>ids DEF ApproveRead, Begin, eventVars, detectionVars, TypeOK, DeadlinesTypeOK
  <2>2. Shaped(h)' /\ Fresh(h)'
    BY <2>1 DEF Shaped, Fresh, Doing, Work, deadlineVars
  <2> QED BY <1>ids, <2>1, <2>2, ReadsKeep
<1>7. ASSUME NEW user \in Users, NEW a \in AssessmentIds, CalculateRead(h, user, a),
             UNCHANGED detectionVars
      PROVE  IInv'
  <2>1. Calculable(a) /\ Rests(a)
    BY <1>7 DEF CalculateRead, Calculable, Rests
  <2>2. PICK n \in Nat : n = NextVersion(a) /\ Numbered(a, n) /\ Newest(a, n)
    BY <1>0, NextVersionIsNext DEF RowFacts, Numbered
  <2>3. Read("calculate", user, a, n, "none")
    BY <1>0, <1>7, <2>2 DEF CalculateRead, Begin, eventVars, detectionVars
  <2>4. Rests(a)' /\ Numbered(a, n)' /\ Newest(a, n)'
    BY <2>1, <2>2, <2>3 DEF Rests, Numbered, Newest, eventVars, deadlineVars
  <2>5. Shaped(h)' /\ Fresh(h)'
    BY <2>3, <2>4 DEF Shaped, Fresh, Doing, Work
  <2> QED BY <1>ids, <2>3, <2>5, ReadsKeep
<1>8. ASSUME NEW user \in Users, NEW c \in CalculationIds, VerifyRead(h, user, c),
             UNCHANGED detectionVars
      PROVE  IInv'
  <2>1. Read("verify", user, c, 0, "none")
    BY <1>0, <1>8 DEF VerifyRead, Begin, eventVars, detectionVars
  <2>2. Made(c)' /\ user \in Users \ {calculation'[c].by}
    BY <1>8, <2>1 DEF VerifyRead, Made, NoCalculation, Calculation, deadlineVars
  <2>3. Shaped(h)' /\ Fresh(h)'
    BY <2>1, <2>2 DEF Shaped, Fresh, Doing, Work
  <2> QED BY <1>ids, <2>1, <2>3, ReadsKeep
<1>9. ASSUME NEW user \in Users, NEW c \in CalculationIds, RecalculateRead(h, user, c),
             UNCHANGED detectionVars
      PROVE  IInv'
  <2>1. PICK a \in AssessmentIds : a = calculation[c].assessment /\ Made(c)
    BY <1>0, <1>9 DEF RecalculateRead, Made, NoCalculation, Calculation, RowFacts,
                      CalculationsRest, Rests
  <2>2. PICK n \in Nat : /\ n = NextVersion(a) /\ Numbered(a, n) /\ Newest(a, n)
                         /\ calculation[c].version < n
    BY <1>0, <2>1, NextVersionIsNext DEF RowFacts, Numbered, Newest
  <2>3. Read("recalculate", user, c, n, "none")
    BY <1>0, <1>9, <2>1, <2>2 DEF RecalculateRead, Begin, eventVars, detectionVars
  <2>4. /\ Made(c)' /\ Numbered(a, n)' /\ Newest(a, n)' /\ calculation'[c].version < n
        /\ calculation'[c].assessment = a
    BY <2>1, <2>2, <2>3 DEF Made, Numbered, Newest, deadlineVars
  <2>5. Shaped(h)' /\ Fresh(h)'
    BY <2>3, <2>4 DEF Shaped, Fresh, Doing, Work
  <2> QED BY <1>ids, <2>3, <2>5, ReadsKeep
<1>10. ASSUME NEW c \in CalculationIds, TrackRead(h, c), UNCHANGED detectionVars
       PROVE  IInv'
  <2>1. Read("track", None, c, 0, "none")
    BY <1>0, <1>10 DEF TrackRead, Begin, eventVars, detectionVars
  <2>2. Made(c)' /\ Reviewed(c)'
    BY <1>0, <1>10, <2>1 DEF TrackRead, Made, NoCalculation, Calculation, Reviewed, RowFacts,
                             VerifiedIsReviewed, deadlineVars
  <2>3. Fresh(h)'
    BY <1>10, <2>1 DEF TrackRead, Fresh, Doing, Work, Live, deadlineVars
  <2>4. Shaped(h)'
    BY <2>1, <2>2 DEF Shaped, Doing, Work
  <2> QED BY <1>ids, <2>1, <2>3, <2>4, ReadsKeep
<1> QED
  BY <1>1, <1>2, <1>3, <1>4, <1>5, <1>6, <1>7, <1>8, <1>9, <1>10

-----------------------------------------------------------------------------
(* The steps that write events, rules, assessments and suggestions.           *)
OneAssessmentEach == \A a, b \in AssessmentIds :
  (assessment[a] = assessment[b] /\ assessment[a] # NoAssessment) => a = b

LEMMA FactsKeep ==
  ASSUME IInv, UNCHANGED deadlineVars, Grow, Tables', AssessmentsRest', SuggestionsPoint',
         ~raced /\ ~raced' => OneAssessmentEach',
         (\E h \in Handlers : Busy(h) /\ End(h)) \/ AtOnce
  PROVE  IInv'
<1>1. CalculationsRest'
  BY DEF IInv, RowFacts, AssessmentsRest, CalculationsRest, Rests, Grow, deadlineVars
<1>2. RowFacts'
  BY <1>1 DEF IInv, RowFacts, VerifiedIsReviewed, Reviewed, DeadlinesHaveCalculations,
              VersionsAreDense, Numbered, LinksArePlaced, deadlineVars
<1>3. SupersessionIsLinked' /\ CurrentIsApproved'
  BY DEF IInv, SupersessionIsLinked, NothingIsDoubled, CurrentIsApproved, deadlineVars
<1>4. ~raced /\ ~raced' => RowsAreSingle'
  BY DEF IInv, NothingIsDoubled, RowsAreSingle, OneAssessmentEach, Live, deadlineVars
<1> QED BY <1>2, <1>3, <1>4, WritesKeep

(* A step that changes one event row and no other table.                      *)
LEMMA EventRowKeeps ==
  ASSUME IInv, UNCHANGED <<rule, assessment, detectionVars, deadlineVars>>,
         NEW e \in EventIds, NEW row \in [confirmation : ConfirmationStatuses \cup {"ABSENT"},
                                          date : DateStates, from : Nat],
         event' = [event EXCEPT ![e] = row],
         event[e].confirmation \in Confirmed => row.confirmation \in Confirmed,
         event[e].date = "VERIFIED" => row.date = "VERIFIED",
         event[e] # Absent => row.from = event[e].from,
         (\E h \in Handlers : Busy(h) /\ End(h)) \/ AtOnce
  PROVE  IInv'
<1> USE EventsAssumption
<1>1. /\ TypeOK /\ RowFacts /\ event' \in [EventIds -> [confirmation : ConfirmationStatuses \cup
                             {"ABSENT"}, date : DateStates, from : Nat]]
  BY DEF IInv, TypeOK, EventsTypeOK
<1>2. Grow
  BY <1>1 DEF Grow, deadlineVars, Reviewed, TypeOK, EventsTypeOK, Rules
<1>3. Tables'
  BY <1>1 DEF Tables, TypeOK, EventsTypeOK, DetectionTypeOK, DeadlinesTypeOK, detectionVars,
         deadlineVars
<1>4. AssessmentsRest'
  BY <1>1, <1>2 DEF RowFacts, AssessmentsRest, Grow
<1>5. SuggestionsPoint'
  <2> SUFFICES ASSUME NEW s \in SuggestionIds, suggestion[s].accepted # 0
               PROVE  event'[suggestion[s].accepted].from = s
    BY DEF SuggestionsPoint, detectionVars
  <2>1. /\ suggestion[s].accepted \in EventIds
        /\ event[suggestion[s].accepted].from = s
    BY <1>1 DEF TypeOK, DetectionTypeOK, RowFacts, SuggestionsPoint
  <2>2. event[suggestion[s].accepted] # Absent
    BY <2>1 DEF Absent, Event, SuggestionIds
  <2> QED BY <1>2, <2>1, <2>2 DEF Grow
<1>6. ~raced => OneAssessmentEach'
  BY DEF IInv, NothingIsDoubled, RowsAreSingle, OneAssessmentEach
<1> QED BY <1>2, <1>3, <1>4, <1>5, <1>6, FactsKeep

(* Writing a column of a row is writing the row.                              *)
LEMMA EventColumns ==
  ASSUME NEW e, NEW confirmation, NEW date,
         NEW row \in [confirmation : ConfirmationStatuses \cup {"ABSENT"}, date : DateStates,
                      from : Nat]
  PROVE  /\ [row EXCEPT !.date = date] = Event(row.confirmation, date, row.from)
         /\ [row EXCEPT !.confirmation = confirmation] = Event(confirmation, row.date, row.from)
BY DEF Event

LEMMA EventSteps ==
  ASSUME IInv, UNCHANGED <<detectionVars, deadlineVars>>,
         \/ \E e \in EventIds :
              \/ CreateProjectEvent(e)
              \/ \E precision \in DateStates : AddProjectEventDate(e, precision)
              \/ VerifyProjectEventDate(e)
         \/ \E h \in Handlers : ConfirmProjectEvent(h)
  PROVE  IInv'
<1> DEFINE Rows == [confirmation : ConfirmationStatuses \cup {"ABSENT"}, date : DateStates,
                    from : Nat]
           Keeps(e, row) ==
             /\ row \in Rows
             /\ event' = [event EXCEPT ![e] = row]
             /\ event[e].confirmation \in Confirmed => row.confirmation \in Confirmed
             /\ event[e].date = "VERIFIED" => row.date = "VERIFIED"
             /\ event[e] # Absent => row.from = event[e].from
<1>1. event \in [EventIds -> Rows]
  BY DEF IInv, TypeOK, EventsTypeOK
<1>2. ASSUME NEW e \in EventIds, CreateProjectEvent(e) PROVE IInv'
  <2> DEFINE row == Event("UNCONFIRMED", "NONE", 0)
  <2>1. Keeps(e, row)
    BY <1>2 DEF CreateProjectEvent, NextId, Absent, Event, Confirmed, ConfirmationStatuses,
                DateStates
  <2> QED BY <1>2, <2>1, EventRowKeeps DEF CreateProjectEvent
<1>3. ASSUME NEW e \in EventIds, NEW precision \in DateStates, AddProjectEventDate(e, precision)
      PROVE  IInv'
  <2> DEFINE row == Event(event[e].confirmation, precision, event[e].from)
  <2>1. row \in Rows /\ event' = [event EXCEPT ![e] = row]
    BY <1>1, <1>3, EventColumns DEF AddProjectEventDate, Event
  <2>2. Keeps(e, row)
    BY <1>3, <2>1 DEF AddProjectEventDate, Event
  <2> QED BY <1>3, <2>2, EventRowKeeps DEF AddProjectEventDate
<1>4. ASSUME NEW e \in EventIds, VerifyProjectEventDate(e) PROVE IInv'
  <2> DEFINE row == Event(event[e].confirmation, "VERIFIED", event[e].from)
  <2>1. row \in Rows /\ event' = [event EXCEPT ![e] = row]
    BY <1>1, <1>4, EventColumns DEF VerifyProjectEventDate, Event, DateStates
  <2>2. Keeps(e, row)
    BY <1>4, <2>1 DEF VerifyProjectEventDate, Event
  <2> QED BY <1>4, <2>2, EventRowKeeps DEF VerifyProjectEventDate
<1>5. ASSUME NEW h \in Handlers, ConfirmProjectEvent(h) PROVE IInv'
  <2>1. PICK e \in EventIds, status \in Confirmed : e = work[h].id /\ status = work[h].text
    BY <1>5 DEF IInv, Shaped, ConfirmProjectEvent
  <2> DEFINE row == Event(status, event[e].date, event[e].from)
  <2>2. row \in Rows /\ event' = [event EXCEPT ![e] = row]
    BY <1>1, <1>5, <2>1, EventColumns DEF ConfirmProjectEvent, Event, Confirmed,
                                          ConfirmationStatuses
  <2>3. Keeps(e, row)
    BY <2>2 DEF Event
  <2>4. Busy(h) /\ End(h)
    BY <1>5 DEF ConfirmProjectEvent, Busy, Doing
  <2> QED BY <1>5, <2>3, <2>4, EventRowKeeps DEF ConfirmProjectEvent
<1> QED BY <1>2, <1>3, <1>4, <1>5

LEMMA RuleSteps ==
  ASSUME IInv, UNCHANGED <<detectionVars, deadlineVars>>,
         \/ \E h \in Handlers, a \in AssessmentIds : ConfirmRuleApplicability(h, a)
         \/ ConfigurationApproved
         \/ ConfigurationSuperseded
  PROVE  IInv'
<1> USE EventsAssumption
<1>1. /\ TypeOK /\ RowFacts /\ event' = event /\ rule.last \in Nat
  <2>1. event' = event
    BY DEF ConfirmRuleApplicability, ConfigurationApproved, ConfigurationSuperseded
  <2>2. TypeOK /\ RowFacts
    BY DEF IInv
  <2>3. rule.last \in 1 .. MaxRules
    BY <2>2 DEF TypeOK, EventsTypeOK, Rules
  <2> QED BY <2>1, <2>2, <2>3
<1>2. ASSUME NEW h \in Handlers, NEW a \in AssessmentIds, ConfirmRuleApplicability(h, a)
      PROVE  IInv'
  <2>1. PICK e \in EventIds, r \in Rules :
          /\ e = work[h].id /\ r = work[h].number /\ r <= rule.last
          /\ event[e].confirmation \in Confirmed
    BY <1>2 DEF IInv, Shaped, ConfirmRuleApplicability
  <2> DEFINE row == Assessment(e, r)
  <2>2. /\ row.event = e /\ row.rule = r
        /\ row \in [event : EventIds \cup {0}, rule : Rules \cup {0}]
    BY DEF Assessment
  <2>3. /\ assessment[a] = NoAssessment
        /\ assessment' = [assessment EXCEPT ![a] = row]
        /\ rule' = rule /\ Busy(h) /\ End(h)
    BY <1>2, <2>1 DEF ConfirmRuleApplicability, NextId, Busy, Doing
  <2> HIDE DEF row
  <2>4. assessment' \in [AssessmentIds -> [event : EventIds \cup {0}, rule : Rules \cup {0}]]
    BY <1>1, <2>2, <2>3 DEF TypeOK, EventsTypeOK
  <2>5. Grow
    BY <1>1, <2>3 DEF Grow, deadlineVars, Reviewed, TypeOK, EventsTypeOK
  <2>6. Tables'
    BY <1>1, <2>3, <2>4 DEF Tables, TypeOK, EventsTypeOK, DetectionTypeOK, DeadlinesTypeOK,
                            detectionVars, deadlineVars
  <2>7. AssessmentsRest'
    BY <1>1, <2>1, <2>2, <2>3 DEF AssessmentsRest, RowFacts, TypeOK, EventsTypeOK
  <2>8. SuggestionsPoint'
    BY <1>1 DEF RowFacts, SuggestionsPoint, detectionVars
  <2>9. ASSUME ~raced PROVE OneAssessmentEach'
    <3>1. \A b \in AssessmentIds : assessment[b] # row
      BY <1>2, <2>1, <2>9 DEF IInv, Calm, Fresh, ConfirmRuleApplicability, row
    <3> QED
      BY <1>1, <2>3, <2>9, <3>1 DEF OneAssessmentEach, IInv, NothingIsDoubled, RowsAreSingle,
                                    TypeOK, EventsTypeOK
  <2> QED BY <2>3, <2>5, <2>6, <2>7, <2>8, <2>9, FactsKeep
<1>3. ASSUME ConfigurationApproved \/ ConfigurationSuperseded PROVE IInv'
  <2>0. rule.last \in 1 .. MaxRules
    BY <1>1 DEF TypeOK, EventsTypeOK, Rules
  <2>1. /\ assessment' = assessment /\ AtOnce
        /\ rule' \in [last : Rules, active : BOOLEAN] /\ rule.last <= rule'.last
    <3>1. CASE ConfigurationApproved
      <4>1. rule.last + 1 \in Rules
        BY <2>0, <3>1 DEF ConfigurationApproved, Rules
      <4>2. rule' = [last |-> rule.last + 1, active |-> TRUE]
        BY <3>1 DEF ConfigurationApproved, Revision
      <4>3. rule' \in [last : Rules, active : BOOLEAN]
        BY <4>1, <4>2
      <4>4. rule'.last = rule.last + 1
        BY <4>2
      <4>5. assessment' = assessment /\ AtOnce
        BY <3>1 DEF ConfigurationApproved
      <4> QED BY <1>1, <4>3, <4>4, <4>5
    <3>2. CASE ConfigurationSuperseded
      <4>1. rule' = [last |-> rule.last, active |-> FALSE]
        BY <3>2 DEF ConfigurationSuperseded, Revision
      <4>2. rule' \in [last : Rules, active : BOOLEAN]
        BY <2>0, <4>1 DEF Rules
      <4>3. rule'.last = rule.last
        BY <4>1
      <4>4. assessment' = assessment /\ AtOnce
        BY <3>2 DEF ConfigurationSuperseded
      <4> QED BY <1>1, <4>2, <4>3, <4>4
    <3> QED BY <1>3, <3>1, <3>2
  <2>2. rule'.last \in Nat
    BY <2>1 DEF Rules
  <2>3. Grow
    BY <1>1, <2>1 DEF Grow, deadlineVars, Reviewed
  <2>4. Tables'
    BY <1>1, <2>1 DEF Tables, TypeOK, EventsTypeOK, DetectionTypeOK, DeadlinesTypeOK,
                      detectionVars, deadlineVars
  <2>5. AssessmentsRest'
    <3>1. \A a \in AssessmentIds : assessment[a].rule \in Nat
      BY <1>1 DEF TypeOK, EventsTypeOK, Rules
    <3> QED BY <1>1, <2>1, <2>2, <3>1 DEF RowFacts, AssessmentsRest
  <2>6. SuggestionsPoint'
    BY <1>1 DEF RowFacts, SuggestionsPoint, detectionVars
  <2>7. ~raced => OneAssessmentEach'
    BY <2>1 DEF OneAssessmentEach, IInv, NothingIsDoubled, RowsAreSingle
  <2> QED BY <2>1, <2>3, <2>4, <2>5, <2>6, <2>7, FactsKeep
<1> QED BY <1>2, <1>3

SuggestionRows == [status : SuggestionStatuses, segment : Segments \cup {None},
                   date : DatePrecisions, accepted : EventIds \cup {0}]

LEMMA SuggestionSteps ==
  ASSUME IInv, UNCHANGED deadlineVars,
         \/ \E s \in SuggestionIds :
              \/ \E segment \in Segments, date \in DatePrecisions :
                   StartDetectionRun(s, segment, date)
              \/ RequestMoreEvidence(s)
         \/ \E h \in Handlers : RejectSuggestion(h)
         \/ \E h \in Handlers, e \in EventIds : AcceptSuggestion(h, e)
         \/ ArchiveProject
  PROVE  IInv'
<1> USE EventsAssumption
<1>1. /\ TypeOK /\ RowFacts /\ UNCHANGED <<rule, assessment>> /\ archived' \in BOOLEAN
      /\ suggestion \in [SuggestionIds -> SuggestionRows]
  <2>1. TypeOK /\ RowFacts
    BY DEF IInv
  <2>2. UNCHANGED <<rule, assessment>> /\ (archived' = archived \/ archived' = TRUE)
    BY DEF StartDetectionRun, RequestMoreEvidence, RejectSuggestion, AcceptSuggestion,
           ArchiveProject
  <2> QED BY <2>1, <2>2 DEF TypeOK, DetectionTypeOK, SuggestionRows
<1>2. ASSUME suggestion' \in [SuggestionIds -> SuggestionRows],
             event' \in [EventIds -> [confirmation : ConfirmationStatuses \cup {"ABSENT"},
                                      date : DateStates, from : Nat]],
             \A e \in EventIds : event[e] # Absent => event'[e] = event[e],
             SuggestionsPoint',
             (\E h \in Handlers : Busy(h) /\ End(h)) \/ AtOnce
      PROVE  IInv'
  <2>1. rule.last \in Nat
    BY <1>1 DEF TypeOK, EventsTypeOK, Rules
  <2>2. Grow
    BY <1>1, <1>2, <2>1 DEF Grow, deadlineVars, Reviewed, Absent, Event, Confirmed
  <2>3. Tables'
    BY <1>1, <1>2 DEF Tables, TypeOK, EventsTypeOK, DetectionTypeOK, DeadlinesTypeOK,
                      SuggestionRows, deadlineVars
  <2>4. AssessmentsRest'
    BY <1>1, <2>2 DEF RowFacts, AssessmentsRest, Grow
  <2>5. ~raced => OneAssessmentEach'
    BY <1>1 DEF OneAssessmentEach, IInv, NothingIsDoubled, RowsAreSingle
  <2> QED BY <1>2, <2>2, <2>3, <2>4, <2>5, FactsKeep
<1>3. ASSUME NEW s \in SuggestionIds, NEW row \in SuggestionRows,
             suggestion' = [suggestion EXCEPT ![s] = row], event' = event,
             row.accepted = suggestion[s].accepted \/ row.accepted = 0,
             (\E h \in Handlers : Busy(h) /\ End(h)) \/ AtOnce
      PROVE  IInv'
  <2>1. suggestion' \in [SuggestionIds -> SuggestionRows]
    BY <1>1, <1>3
  <2>2. SuggestionsPoint'
    BY <1>1, <1>3 DEF RowFacts, SuggestionsPoint
  <2> QED BY <1>1, <1>2, <1>3, <2>1, <2>2 DEF TypeOK, EventsTypeOK
<1>4. ASSUME NEW s \in SuggestionIds, NEW segment \in Segments, NEW date \in DatePrecisions,
             StartDetectionRun(s, segment, date)
      PROVE  IInv'
  <2> DEFINE row == Suggestion("PENDING_REVIEW", segment, date, 0)
  <2>1. row \in SuggestionRows /\ row.accepted = 0
    BY DEF SuggestionRows, Suggestion, SuggestionStatuses
  <2> QED BY <1>3, <1>4, <2>1 DEF StartDetectionRun
<1>5. ASSUME NEW s \in SuggestionIds, NEW status \in SuggestionStatuses, SetStatus(s, status),
             event' = event, (\E h \in Handlers : Busy(h) /\ End(h)) \/ AtOnce
      PROVE  IInv'
  <2> DEFINE row == [suggestion[s] EXCEPT !.status = status]
  <2>1. row \in SuggestionRows /\ row.accepted = suggestion[s].accepted
    BY <1>1 DEF SuggestionRows
  <2>2. suggestion' = [suggestion EXCEPT ![s] = row]
    BY <1>5 DEF SetStatus
  <2> QED BY <1>3, <1>5, <2>1, <2>2
<1>6. ASSUME NEW s \in SuggestionIds, RequestMoreEvidence(s) PROVE IInv'
  BY <1>5, <1>6 DEF RequestMoreEvidence, SuggestionStatuses
<1>7. ASSUME NEW h \in Handlers, RejectSuggestion(h) PROVE IInv'
  <2>1. Busy(h) /\ End(h) /\ event' = event
    BY <1>7 DEF RejectSuggestion, Busy, Doing
  <2>2. PICK s \in SuggestionIds : s = work[h].id
    BY <1>7 DEF IInv, Shaped, RejectSuggestion
  <2> QED BY <1>5, <1>7, <2>1, <2>2 DEF RejectSuggestion, SuggestionStatuses
<1>8. ASSUME NEW h \in Handlers, NEW e \in EventIds, AcceptSuggestion(h, e) PROVE IInv'
  <2>1. PICK s \in SuggestionIds, date \in DatePrecisions : s = work[h].id /\ date = work[h].text
    BY <1>8 DEF IInv, Shaped, AcceptSuggestion
  <2> DEFINE row == Event("UNCONFIRMED", date, s)
             accepted == [suggestion[s] EXCEPT !.status = "ACCEPTED", !.accepted = e]
  <2>2. /\ Busy(h) /\ End(h) /\ event[e] = Absent
        /\ event' = [event EXCEPT ![e] = row]
        /\ suggestion' = [suggestion EXCEPT ![s] = accepted]
    BY <1>8, <2>1 DEF AcceptSuggestion, Busy, Doing, NextId
  <2>3. accepted \in SuggestionRows /\ accepted.accepted = e
    BY <1>1 DEF SuggestionRows, SuggestionStatuses
  <2>4. /\ row \in [confirmation : ConfirmationStatuses \cup {"ABSENT"}, date : DateStates,
                    from : Nat]
        /\ row.from = s
    BY DEF Event, ConfirmationStatuses, DateStates, DatePrecisions, SuggestionIds
  <2> HIDE DEF row, accepted
  <2>5. /\ suggestion' \in [SuggestionIds -> SuggestionRows]
        /\ event' \in [EventIds -> [confirmation : ConfirmationStatuses \cup {"ABSENT"},
                                    date : DateStates, from : Nat]]
    BY <1>1, <2>2, <2>3, <2>4 DEF TypeOK, EventsTypeOK
  <2>6. ASSUME NEW t \in SuggestionIds, suggestion'[t].accepted # 0
        PROVE  event'[suggestion'[t].accepted].from = t
    <3>1. CASE t = s
      BY <1>1, <2>2, <2>3, <2>4, <3>1 DEF TypeOK, EventsTypeOK
    <3>2. CASE t # s
      <4>1. /\ suggestion'[t] = suggestion[t] /\ suggestion[t].accepted \in EventIds
            /\ event[suggestion[t].accepted].from = t
        BY <1>1, <2>2, <2>6, <3>2 DEF RowFacts, SuggestionsPoint, SuggestionRows
      <4>2. t # 0 /\ event[e].from = 0
        BY <2>2 DEF SuggestionIds, Absent, Event
      <4> QED BY <2>2, <4>1, <4>2
    <3> QED BY <3>1, <3>2
  <2>7. \A k \in EventIds : event[k] # Absent => event'[k] = event[k]
    BY <2>2
  <2> QED BY <1>2, <2>2, <2>5, <2>6, <2>7 DEF SuggestionsPoint
<1>9. ASSUME ArchiveProject PROVE IInv'
  <2>1. event' = event /\ suggestion' = suggestion /\ AtOnce
    BY <1>9 DEF ArchiveProject
  <2>2. SuggestionsPoint'
    BY <1>1, <2>1 DEF RowFacts, SuggestionsPoint
  <2> QED BY <1>1, <1>2, <2>1, <2>2 DEF TypeOK, EventsTypeOK
<1> QED BY <1>4, <1>6, <1>7, <1>8, <1>9

-----------------------------------------------------------------------------
(* The steps that write calendars, calculations and deadlines.                *)
CalculationRows ==
  [status : CalculationStatuses, assessment : AssessmentIds \cup {0}, version : Nat,
   by : Users \cup {None}, reviewer : Users \cup {None}, supersedes : CalculationIds \cup {0}]
DeadlineRows == [status : DeadlineStatuses, next : CalculationIds \cup {0}]

(* The facts a step of Deadlines does not touch.                              *)
LEMMA DeadlineSteps ==
  ASSUME IInv, UNCHANGED <<eventVars, detectionVars>>
  PROVE  /\ TypeOK /\ RowFacts /\ AssessmentsRest' /\ SuggestionsPoint'
         /\ calculation \in [CalculationIds -> CalculationRows]
         /\ deadline \in [CalculationIds -> [Copies -> DeadlineRows]]
         /\ ~raced => OneAssessmentEach'
         /\ \A a : Rests(a)' <=> Rests(a)
         /\ /\ calculation' \in [CalculationIds -> CalculationRows]
            /\ deadline' \in [CalculationIds -> [Copies -> DeadlineRows]]
            /\ revision' \in [CalendarRevisions -> RevisionStatuses]
            /\ current' \in CalendarRevisions \cup {0}
            => Tables'
         /\ (\A c \in CalculationIds : calculation[c] # NoCalculation =>
               /\ calculation'[c] # NoCalculation
               /\ calculation'[c].assessment = calculation[c].assessment
               /\ calculation'[c].version = calculation[c].version
               /\ calculation'[c].by = calculation[c].by
               /\ calculation'[c].supersedes = calculation[c].supersedes
               /\ Reviewed(c) => Reviewed(c)')
            => Grow
<1> USE EventsAssumption
<1>1. TypeOK /\ RowFacts
  BY DEF IInv
<1>2. AssessmentsRest' /\ SuggestionsPoint' /\ \A a : Rests(a)' <=> Rests(a)
  BY <1>1 DEF RowFacts, AssessmentsRest, SuggestionsPoint, Rests, eventVars, detectionVars
<1>3. /\ calculation \in [CalculationIds -> CalculationRows]
      /\ deadline \in [CalculationIds -> [Copies -> DeadlineRows]]
  BY <1>1 DEF TypeOK, DeadlinesTypeOK, CalculationRows, DeadlineRows
<1>4. ~raced => OneAssessmentEach'
  BY DEF OneAssessmentEach, IInv, NothingIsDoubled, RowsAreSingle, eventVars
<1>5. ASSUME calculation' \in [CalculationIds -> CalculationRows],
             deadline' \in [CalculationIds -> [Copies -> DeadlineRows]],
             revision' \in [CalendarRevisions -> RevisionStatuses],
             current' \in CalendarRevisions \cup {0}
      PROVE  Tables'
  BY <1>1, <1>5 DEF Tables, TypeOK, EventsTypeOK, DetectionTypeOK, DeadlinesTypeOK,
                    CalculationRows, DeadlineRows, eventVars, detectionVars
<1>6. rule.last \in Nat
  BY <1>1 DEF TypeOK, EventsTypeOK, Rules
<1>7. ASSUME \A c \in CalculationIds : calculation[c] # NoCalculation =>
               /\ calculation'[c] # NoCalculation
               /\ calculation'[c].assessment = calculation[c].assessment
               /\ calculation'[c].version = calculation[c].version
               /\ calculation'[c].by = calculation[c].by
               /\ calculation'[c].supersedes = calculation[c].supersedes
               /\ Reviewed(c) => Reviewed(c)'
      PROVE  Grow
  BY <1>6, <1>7 DEF Grow, eventVars
<1> QED BY <1>1, <1>2, <1>3, <1>4, <1>5, <1>7

LEMMA CalendarSteps ==
  ASSUME IInv, UNCHANGED detectionVars,
         \E h \in Handlers : CreateCalendarRevision(h) \/ ApproveCalendarRevision(h)
  PROVE  IInv'
<1> PICK h \in Handlers : CreateCalendarRevision(h) \/ ApproveCalendarRevision(h)
  OBVIOUS
<1>1. /\ UNCHANGED <<eventVars, detectionVars, calculation, deadline>>
      /\ Busy(h) /\ End(h) /\ work[h].id \in CalendarRevisions
  BY DEF CreateCalendarRevision, ApproveCalendarRevision, eventVars, Busy, Doing, IInv, Shaped
<1>2. PICK k \in CalendarRevisions : k = work[h].id
  BY <1>1
<1>3. TypeOK /\ RowFacts /\ revision \in [CalendarRevisions -> RevisionStatuses]
  BY DEF IInv, TypeOK, DeadlinesTypeOK
<1>4. Grow
  BY <1>1, DeadlineSteps DEF Reviewed
<1>5. /\ revision' \in [CalendarRevisions -> RevisionStatuses]
      /\ current' \in CalendarRevisions \cup {0}
      /\ current' # 0 => revision'[current'] = "APPROVED"
      /\ ~raced => \A j \in CalendarRevisions : revision'[j] = "APPROVED" => j = current'
  <2>1. /\ current \in CalendarRevisions \cup {0}
        /\ current # 0 => revision[current] = "APPROVED"
        /\ ~raced => \A j \in CalendarRevisions : revision[j] = "APPROVED" => j = current
    BY <1>3 DEF TypeOK, DeadlinesTypeOK, IInv, NothingIsDoubled, CurrentIsApproved, RowsAreSingle
  <2>2. CASE CreateCalendarRevision(h)
    BY <1>2, <1>3, <2>1, <2>2 DEF CreateCalendarRevision, RevisionStatuses
  <2>3. CASE ApproveCalendarRevision(h)
    <3>1. ~raced => work[h].number = current
      BY <2>3 DEF IInv, Calm, Fresh, ApproveCalendarRevision
    <3>2. k # 0
      BY DEF CalendarRevisions
    <3> QED
      BY <1>2, <1>3, <2>1, <2>3, <3>1, <3>2 DEF ApproveCalendarRevision, RevisionStatuses
  <2> QED BY <2>2, <2>3
<1>6. Tables'
  BY <1>1, <1>5, DeadlineSteps
<1>7. RowFacts'
  BY <1>1, <1>3 DEF RowFacts, AssessmentsRest, CalculationsRest, Rests, SuggestionsPoint,
         VerifiedIsReviewed, Reviewed, DeadlinesHaveCalculations, VersionsAreDense, Numbered,
         LinksArePlaced, eventVars, detectionVars
<1>8. SupersessionIsLinked'
  BY <1>1 DEF IInv, SupersessionIsLinked
<1>9. CurrentIsApproved'
  BY <1>5 DEF CurrentIsApproved
<1>10. ~raced => RowsAreSingle'
  BY <1>1, <1>5 DEF IInv, NothingIsDoubled, RowsAreSingle, Live, eventVars
<1> QED BY <1>1, <1>4, <1>6, <1>7, <1>8, <1>9, <1>10, WritesKeep

LEMMA CalculateStep ==
  ASSUME IInv, UNCHANGED detectionVars, NEW h \in Handlers, NEW c \in CalculationIds,
         NEW result \in EngineResults, CalculateEventDeadline(h, c, result)
  PROVE  IInv'
<1> USE DeadlinesAssumption
<1>1. /\ UNCHANGED <<eventVars, detectionVars, revision, current, deadline>>
      /\ Busy(h) /\ End(h) /\ calculation[c] = NoCalculation
  BY DEF CalculateEventDeadline, eventVars, Busy, Doing, NextId
<1>2. PICK a \in AssessmentIds, n \in Nat, user \in Users :
        /\ a = work[h].id /\ n = work[h].number /\ user = work[h].user
        /\ Rests(a) /\ Numbered(a, n)
  BY DEF IInv, Shaped, CalculateEventDeadline, Rests, Numbered
<1> DEFINE row == Calculation(result, a, n, user, None, 0)
<1>3. /\ row \in CalculationRows /\ row # NoCalculation
      /\ row.status \notin {"VERIFIED", "SUPERSEDED"}
      /\ row.assessment = a /\ row.version = n /\ row.supersedes = 0
  BY DEF Calculation, NoCalculation, CalculationRows, EngineResults, CalculationStatuses
<1>4. /\ NoCalculation.status = "ABSENT" /\ NoCalculation.assessment = 0
      /\ NoCalculation.supersedes = 0
      /\ \A k \in CalculationIds : k # 0
      /\ \A b \in AssessmentIds : b # 0
  BY DEF NoCalculation, Calculation, CalculationIds, AssessmentIds
<1>5. calculation' = [calculation EXCEPT ![c] = row]
  BY <1>2 DEF CalculateEventDeadline
<1> HIDE DEF row
<1>6. /\ TypeOK /\ RowFacts
      /\ calculation \in [CalculationIds -> CalculationRows]
      /\ deadline \in [CalculationIds -> [Copies -> DeadlineRows]]
      /\ revision \in [CalendarRevisions -> RevisionStatuses]
      /\ current \in CalendarRevisions \cup {0}
  BY <1>1, DeadlineSteps DEF TypeOK, DeadlinesTypeOK
<1>7. /\ calculation'[c] = row
      /\ \A k \in CalculationIds \ {c} : calculation'[k] = calculation[k]
      /\ calculation' \in [CalculationIds -> CalculationRows]
  BY <1>3, <1>5, <1>6
<1>8. Tables'
  BY <1>1, <1>6, <1>7, DeadlineSteps
<1>9. Grow
  BY <1>1, <1>7, DeadlineSteps DEF Reviewed
<1>10. RowFacts'
  <2>1. AssessmentsRest' /\ SuggestionsPoint' /\ \A b : Rests(b)' <=> Rests(b)
    BY <1>1, DeadlineSteps
  <2>2. CalculationsRest'
    BY <1>2, <1>3, <1>6, <1>7, <2>1 DEF RowFacts, CalculationsRest
  <2>3. VerifiedIsReviewed' /\ DeadlinesHaveCalculations' /\ LinksArePlaced'
    BY <1>1, <1>3, <1>6, <1>7 DEF RowFacts, VerifiedIsReviewed, Reviewed,
                                  DeadlinesHaveCalculations, LinksArePlaced
  <2>4. VersionsAreDense'
    <3>1. ASSUME NEW b \in AssessmentIds, NEW m, Numbered(b, m) PROVE Numbered(b, m)'
      BY <1>1, <1>4, <1>7, <3>1 DEF Numbered
    <3>2. Numbered(a, n)'
      BY <1>2, <3>1
    <3>3. ASSUME NEW k \in CalculationIds, calculation'[k] # NoCalculation
          PROVE  Numbered(calculation[k].assessment, calculation[k].version)'
      <4>1. CASE k = c
        BY <1>3, <1>7, <3>2, <4>1 DEF Numbered
      <4>2. CASE k # c
        <5> DEFINE b == calculation[k].assessment
                   m == calculation[k].version
        <5>1. b \in AssessmentIds
          BY <1>6, <1>7, <3>3, <4>2 DEF RowFacts, CalculationsRest, Rests
        <5>2. Numbered(b, m)'
          BY <1>6, <1>7, <3>1, <3>3, <4>2, <5>1 DEF RowFacts, VersionsAreDense
        <5> QED BY <1>7, <4>2, <5>1, <5>2 DEF Numbered
      <4> QED BY <4>1, <4>2
    <3> QED BY <3>3 DEF VersionsAreDense
  <2> QED BY <2>1, <2>2, <2>3, <2>4 DEF RowFacts
<1>11. SupersessionIsLinked'
  <2>1. ASSUME NEW d \in CalculationIds, calculation'[d].status = "SUPERSEDED"
        PROVE  \E k \in CalculationIds : /\ calculation'[k].supersedes = d
                                         /\ calculation'[k].assessment = calculation'[d].assessment
                                         /\ calculation'[k].version > calculation'[d].version
    <3>1. d # c
      BY <1>3, <1>7, <2>1
    <3>2. PICK k \in CalculationIds : /\ calculation[k].supersedes = d
                                      /\ calculation[k].assessment = calculation[d].assessment
                                      /\ calculation[k].version > calculation[d].version
      BY <1>7, <2>1, <3>1 DEF IInv, SupersessionIsLinked
    <3>3. k # c
      BY <1>1, <1>4, <3>2
    <3> QED BY <1>7, <3>1, <3>2, <3>3
  <2>2. ASSUME NEW d \in CalculationIds, NEW i \in Copies, deadline[d][i].status = "SUPERSEDED"
        PROVE  /\ calculation'[deadline[d][i].next].supersedes = d
               /\ deadline[deadline[d][i].next][i] # NoDeadline
    <3>1. PICK k \in CalculationIds : /\ k = deadline[d][i].next /\ calculation[k].supersedes = d
                                      /\ deadline[k][i] # NoDeadline
      BY <1>6, <2>2 DEF RowFacts, LinksArePlaced, IInv, SupersessionIsLinked
    <3>2. k # c
      BY <1>1, <1>4, <3>1
    <3> QED BY <1>7, <3>1, <3>2
  <2>3. ASSUME NEW d \in CalculationIds, NEW i \in Copies, deadline[d][i] # NoDeadline
        PROVE  \/ calculation'[d].reviewer \notin {None, calculation'[d].by}
               \/ \E k \in CalculationIds : deadline[k][i] = Deadline("SUPERSEDED", d)
    <3>1. d # c
      BY <1>1, <1>6, <2>3 DEF RowFacts, DeadlinesHaveCalculations
    <3> QED BY <1>7, <2>3, <3>1 DEF IInv, SupersessionIsLinked
  <2> QED BY <1>1, <2>1, <2>2, <2>3 DEF SupersessionIsLinked
<1>12. CurrentIsApproved'
  BY <1>1 DEF IInv, NothingIsDoubled, CurrentIsApproved
<1>13. ASSUME ~raced PROVE RowsAreSingle'
  <2>1. RowsAreSingle /\ Newest(a, n)
    BY <1>2, <1>13 DEF IInv, NothingIsDoubled, Calm, Fresh, CalculateEventDeadline
  <2>2. \A d \in CalculationIds, i, j \in Copies : Live(d, i)' =>
          calculation'[d].status # "SUPERSEDED" /\ (Live(d, j)' => i = j)
    BY <1>1, <1>3, <1>7, <2>1 DEF RowsAreSingle, Live
  <2>3. ASSUME NEW d \in CalculationIds, NEW k \in CalculationIds,
               calculation'[d] # NoCalculation,
               calculation'[d].assessment = calculation'[k].assessment,
               calculation'[d].version = calculation'[k].version
        PROVE  d = k
    <3>1. \A x \in CalculationIds : calculation[x].version \in Nat
      BY <1>6 DEF CalculationRows
    <3>2. \A x \in CalculationIds : calculation[x].assessment = a => calculation[x].version # n
      BY <2>1, <3>1 DEF Newest
    <3>3. CASE d # c /\ k # c
      BY <1>7, <2>1, <2>3, <3>3 DEF RowsAreSingle
    <3>4. CASE d = c /\ k # c
      BY <1>3, <1>7, <2>3, <3>2, <3>4
    <3>5. CASE d # c /\ k = c
      BY <1>3, <1>7, <2>3, <3>2, <3>5
    <3> QED BY <3>3, <3>4, <3>5
  <2> QED BY <1>1, <2>1, <2>2, <2>3 DEF RowsAreSingle, eventVars
<1> QED BY <1>1, <1>8, <1>9, <1>10, <1>11, <1>12, <1>13, WritesKeep

LEMMA VerifyStep ==
  ASSUME IInv, UNCHANGED detectionVars, NEW h \in Handlers, VerifyDeadlineCalculation(h)
  PROVE  IInv'
<1> USE DeadlinesAssumption, TransactionsAssumption
<1>1. /\ UNCHANGED <<eventVars, detectionVars, revision, current, deadline>>
      /\ Busy(h) /\ End(h)
  BY DEF VerifyDeadlineCalculation, eventVars, Busy, Doing
<1>2. PICK c \in CalculationIds, user \in Users :
        /\ c = work[h].id /\ user = work[h].user
        /\ calculation[c] # NoCalculation /\ user # calculation[c].by
  BY DEF IInv, Shaped, VerifyDeadlineCalculation, Made
<1> DEFINE row == [calculation[c] EXCEPT !.status = "VERIFIED", !.reviewer = user]
<1>3. /\ TypeOK /\ RowFacts
      /\ calculation \in [CalculationIds -> CalculationRows]
      /\ deadline \in [CalculationIds -> [Copies -> DeadlineRows]]
      /\ revision \in [CalendarRevisions -> RevisionStatuses]
      /\ current \in CalendarRevisions \cup {0}
  BY <1>1, DeadlineSteps DEF TypeOK, DeadlinesTypeOK
<1>4. /\ row \in CalculationRows /\ row # NoCalculation
      /\ row.status = "VERIFIED" /\ row.reviewer = user
      /\ row.assessment = calculation[c].assessment /\ row.version = calculation[c].version
      /\ row.supersedes = calculation[c].supersedes /\ row.by = calculation[c].by
  BY <1>2, <1>3 DEF Calculation, NoCalculation, CalculationRows, CalculationStatuses
<1>5. calculation' = [calculation EXCEPT ![c] = row]
  BY <1>2, <1>3 DEF VerifyDeadlineCalculation
<1> HIDE DEF row
<1>6. /\ calculation'[c] = row
      /\ \A k \in CalculationIds \ {c} : calculation'[k] = calculation[k]
      /\ calculation' \in [CalculationIds -> CalculationRows]
  BY <1>3, <1>4, <1>5
<1>7. /\ \A k \in CalculationIds : /\ calculation'[k].assessment = calculation[k].assessment
                                   /\ calculation'[k].version = calculation[k].version
                                   /\ calculation'[k].supersedes = calculation[k].supersedes
                                   /\ calculation'[k].by = calculation[k].by
                                   /\ calculation'[k] = NoCalculation <=> calculation[k] = NoCalculation
                                   /\ Reviewed(k) => Reviewed(k)'
                                   /\ calculation'[k].status = "SUPERSEDED"
                                        => calculation[k].status = "SUPERSEDED"
      /\ Reviewed(c)'
  BY <1>2, <1>4, <1>6 DEF Reviewed
<1>8. Tables'
  BY <1>1, <1>3, <1>6, DeadlineSteps
<1>9. Grow
  BY <1>1, <1>7, DeadlineSteps DEF Reviewed
<1>10. RowFacts'
  <2>1. AssessmentsRest' /\ SuggestionsPoint' /\ \A b : Rests(b)' <=> Rests(b)
    BY <1>1, DeadlineSteps
  <2>2. CalculationsRest'
    BY <1>3, <1>7, <2>1 DEF RowFacts, CalculationsRest
  <2>3. VerifiedIsReviewed'
    BY <1>3, <1>6, <1>7 DEF RowFacts, VerifiedIsReviewed
  <2>4. DeadlinesHaveCalculations' /\ LinksArePlaced'
    BY <1>1, <1>3, <1>7 DEF RowFacts, DeadlinesHaveCalculations, LinksArePlaced
  <2>5. VersionsAreDense'
    BY <1>3, <1>7 DEF RowFacts, VersionsAreDense, Numbered
  <2> QED BY <2>1, <2>2, <2>3, <2>4, <2>5 DEF RowFacts
<1>11. SupersessionIsLinked'
  <2>1. ASSUME NEW d \in CalculationIds, calculation'[d].status = "SUPERSEDED"
        PROVE  \E k \in CalculationIds : /\ calculation'[k].supersedes = d
                                         /\ calculation'[k].assessment = calculation'[d].assessment
                                         /\ calculation'[k].version > calculation'[d].version
    BY <1>7, <2>1 DEF IInv, SupersessionIsLinked
  <2>2. ASSUME NEW d \in CalculationIds, NEW i \in Copies, deadline[d][i].status = "SUPERSEDED"
        PROVE  /\ calculation'[deadline[d][i].next].supersedes = d
               /\ deadline[deadline[d][i].next][i] # NoDeadline
    BY <1>3, <1>7, <2>2 DEF RowFacts, LinksArePlaced, IInv, SupersessionIsLinked
  <2>3. ASSUME NEW d \in CalculationIds, NEW i \in Copies, deadline[d][i] # NoDeadline
        PROVE  \/ calculation'[d].reviewer \notin {None, calculation'[d].by}
               \/ \E k \in CalculationIds : deadline[k][i] = Deadline("SUPERSEDED", d)
    BY <1>7, <2>3 DEF IInv, SupersessionIsLinked, Reviewed
  <2> QED BY <1>1, <2>1, <2>2, <2>3 DEF SupersessionIsLinked
<1>12. CurrentIsApproved'
  BY <1>1 DEF IInv, NothingIsDoubled, CurrentIsApproved
<1>13. ~raced => RowsAreSingle'
  BY <1>1, <1>7 DEF IInv, NothingIsDoubled, RowsAreSingle, Live, eventVars
<1> QED BY <1>1, <1>8, <1>9, <1>10, <1>11, <1>12, <1>13, WritesKeep

LEMMA TrackStep ==
  ASSUME IInv, UNCHANGED detectionVars, NEW h \in Handlers, NEW i \in Copies,
         CreateTrackedDeadline(h, i)
  PROVE  IInv'
<1> USE DeadlinesAssumption
<1>1. /\ UNCHANGED <<eventVars, detectionVars, revision, current, calculation>>
      /\ Busy(h) /\ End(h)
  BY DEF CreateTrackedDeadline, eventVars, Busy, Doing
<1>2. PICK c \in CalculationIds : /\ c = work[h].id /\ deadline[c][i] = NoDeadline
                                  /\ calculation[c] # NoCalculation /\ Reviewed(c)
  BY DEF IInv, Shaped, CreateTrackedDeadline, Made, NextId
<1> DEFINE row == Deadline("UPCOMING", 0)
<1>3. /\ row \in DeadlineRows /\ row # NoDeadline /\ row.status = "UPCOMING"
      /\ NoDeadline.status = "ABSENT"
      /\ \A d : Deadline("SUPERSEDED", d) # NoDeadline
  BY DEF Deadline, DeadlineRows, DeadlineStatuses, NoDeadline
<1>4. /\ TypeOK /\ RowFacts
      /\ calculation \in [CalculationIds -> CalculationRows]
      /\ deadline \in [CalculationIds -> [Copies -> DeadlineRows]]
      /\ revision \in [CalendarRevisions -> RevisionStatuses]
      /\ current \in CalendarRevisions \cup {0}
  BY <1>1, DeadlineSteps DEF TypeOK, DeadlinesTypeOK
<1>5. deadline' = [deadline EXCEPT ![c][i] = row]
  BY <1>2 DEF CreateTrackedDeadline
<1> HIDE DEF row
<1>6. /\ deadline'[c][i] = row
      /\ \A k \in CalculationIds, j \in Copies :
           k # c \/ j # i => deadline'[k][j] = deadline[k][j]
      /\ deadline' \in [CalculationIds -> [Copies -> DeadlineRows]]
  BY <1>3, <1>4, <1>5
<1>7. \A k \in CalculationIds, j \in Copies :
        /\ deadline[k][j] # NoDeadline => deadline'[k][j] = deadline[k][j]
        /\ deadline'[k][j].status = "SUPERSEDED" => deadline'[k][j] = deadline[k][j]
  BY <1>2, <1>3, <1>6
<1>8. Tables' /\ Grow
  BY <1>1, <1>4, <1>6, DeadlineSteps DEF Reviewed
<1>9. RowFacts'
  <2>1. AssessmentsRest' /\ SuggestionsPoint' /\ \A b : Rests(b)' <=> Rests(b)
    BY <1>1, DeadlineSteps
  <2>2. CalculationsRest' /\ VerifiedIsReviewed' /\ VersionsAreDense'
    BY <1>1, <1>4, <2>1 DEF RowFacts, CalculationsRest, VerifiedIsReviewed, Reviewed,
                            VersionsAreDense, Numbered
  <2>3. DeadlinesHaveCalculations'
    BY <1>1, <1>2, <1>4, <1>6, <1>7 DEF RowFacts, DeadlinesHaveCalculations
  <2>4. LinksArePlaced'
    BY <1>1, <1>2, <1>4, <1>6, <1>7 DEF RowFacts, LinksArePlaced
  <2> QED BY <2>1, <2>2, <2>3, <2>4 DEF RowFacts
<1>10. SupersessionIsLinked'
  <2>1. ASSUME NEW d \in CalculationIds, calculation[d].status = "SUPERSEDED"
        PROVE  \E k \in CalculationIds : /\ calculation[k].supersedes = d
                                         /\ calculation[k].assessment = calculation[d].assessment
                                         /\ calculation[k].version > calculation[d].version
    BY <2>1 DEF IInv, SupersessionIsLinked
  <2>2. ASSUME NEW d \in CalculationIds, NEW j \in Copies, deadline'[d][j].status = "SUPERSEDED"
        PROVE  /\ calculation[deadline'[d][j].next].supersedes = d
               /\ deadline'[deadline'[d][j].next][j] # NoDeadline
    <3>1. PICK k \in CalculationIds : /\ k = deadline[d][j].next /\ calculation[k].supersedes = d
                                      /\ deadline[k][j] # NoDeadline /\ deadline'[d][j].next = k
      BY <1>4, <1>7, <2>2 DEF RowFacts, LinksArePlaced, IInv, SupersessionIsLinked
    <3> QED BY <1>7, <3>1
  <2>3. ASSUME NEW d \in CalculationIds, NEW j \in Copies, deadline'[d][j] # NoDeadline
        PROVE  \/ calculation[d].reviewer \notin {None, calculation[d].by}
               \/ \E k \in CalculationIds : deadline'[k][j] = Deadline("SUPERSEDED", d)
    <3>1. CASE d = c /\ j = i
      BY <1>2, <3>1 DEF Reviewed
    <3>2. CASE d # c \/ j # i
      <4>1. \/ calculation[d].reviewer \notin {None, calculation[d].by}
            \/ \E k \in CalculationIds : deadline[k][j] = Deadline("SUPERSEDED", d)
        BY <1>6, <2>3, <3>2 DEF IInv, SupersessionIsLinked
      <4> QED BY <1>3, <1>7, <4>1
    <3> QED BY <3>1, <3>2
  <2> QED BY <1>1, <2>1, <2>2, <2>3 DEF SupersessionIsLinked
<1>11. CurrentIsApproved'
  BY <1>1 DEF IInv, NothingIsDoubled, CurrentIsApproved
<1>12. ASSUME ~raced PROVE RowsAreSingle'
  <2>1. /\ RowsAreSingle /\ calculation[c].status = "VERIFIED"
        /\ \A j \in Copies : ~Live(c, j)
    BY <1>2, <1>12 DEF IInv, NothingIsDoubled, Calm, Fresh, CreateTrackedDeadline
  <2>2. \A d \in CalculationIds, j \in Copies :
          Live(d, j)' <=> Live(d, j) \/ (d = c /\ j = i)
    BY <1>3, <1>6 DEF Live
  <2>3. \A d \in CalculationIds, j, l \in Copies : Live(d, j)' =>
          calculation[d].status # "SUPERSEDED" /\ (Live(d, l)' => j = l)
    BY <2>1, <2>2 DEF RowsAreSingle
  <2> QED BY <1>1, <2>1, <2>3 DEF RowsAreSingle, eventVars
<1> QED BY <1>1, <1>8, <1>9, <1>10, <1>11, <1>12, WritesKeep

LEMMA RecalculateStep ==
  ASSUME IInv, UNCHANGED detectionVars, NEW h \in Handlers, NEW c \in CalculationIds,
         NEW result \in EngineResults, RecalculateDeadline(h, c, result)
  PROVE  IInv'
<1> USE DeadlinesAssumption
<1>1. /\ UNCHANGED <<eventVars, detectionVars, revision, current>>
      /\ Busy(h) /\ End(h) /\ calculation[c] = NoCalculation
  BY DEF RecalculateDeadline, eventVars, Busy, Doing, NextId
<1>2. PICK p \in CalculationIds, a \in AssessmentIds, n \in Nat, user \in Users :
        /\ p = work[h].id /\ n = work[h].number /\ user = work[h].user
        /\ calculation[p] # NoCalculation /\ a = calculation[p].assessment
        /\ Numbered(a, n) /\ calculation[p].version < n /\ Rests(a)
  BY DEF IInv, Shaped, RecalculateDeadline, Made, Rests, Numbered, RowFacts, CalculationsRest
<1> DEFINE row == Calculation(result, a, n, user, None, p)
           old == [calculation[p] EXCEPT !.status = "SUPERSEDED"]
<1>3. /\ TypeOK /\ RowFacts
      /\ calculation \in [CalculationIds -> CalculationRows]
      /\ deadline \in [CalculationIds -> [Copies -> DeadlineRows]]
      /\ revision \in [CalendarRevisions -> RevisionStatuses]
      /\ current \in CalendarRevisions \cup {0}
  BY <1>1, DeadlineSteps DEF TypeOK, DeadlinesTypeOK
<1>4. /\ row \in CalculationRows /\ row # NoCalculation
      /\ row.status \notin {"VERIFIED", "SUPERSEDED"}
      /\ row.assessment = a /\ row.version = n /\ row.supersedes = p
  BY DEF Calculation, NoCalculation, CalculationRows, EngineResults, CalculationStatuses
<1>5. /\ old \in CalculationRows /\ old # NoCalculation /\ old.status = "SUPERSEDED"
      /\ old.reviewer = calculation[p].reviewer
      /\ old.assessment = calculation[p].assessment /\ old.version = calculation[p].version
      /\ old.supersedes = calculation[p].supersedes /\ old.by = calculation[p].by
  BY <1>3 DEF Calculation, NoCalculation, CalculationRows, CalculationStatuses
<1>6. /\ NoCalculation.status = "ABSENT" /\ NoCalculation.assessment = 0
      /\ NoCalculation.supersedes = 0 /\ NoDeadline.status = "ABSENT"
      /\ \A k \in CalculationIds : k # 0
      /\ \A b \in AssessmentIds : b # 0
  BY DEF NoCalculation, Calculation, CalculationIds, AssessmentIds, NoDeadline, Deadline
<1>7. c # p /\ calculation' = [calculation EXCEPT ![c] = row, ![p] = old]
  BY <1>1, <1>2, <1>3 DEF RecalculateDeadline
<1> HIDE DEF row, old
<1>8. /\ calculation'[c] = row /\ calculation'[p] = old
      /\ \A k \in CalculationIds \ {c, p} : calculation'[k] = calculation[k]
      /\ calculation' \in [CalculationIds -> CalculationRows]
  BY <1>3, <1>4, <1>5, <1>7
<1>9. \A k \in CalculationIds \ {c} :
        /\ calculation'[k].assessment = calculation[k].assessment
        /\ calculation'[k].version = calculation[k].version
        /\ calculation'[k].supersedes = calculation[k].supersedes
        /\ calculation'[k].by = calculation[k].by
        /\ calculation'[k].reviewer = calculation[k].reviewer
        /\ calculation'[k] = NoCalculation <=> calculation[k] = NoCalculation
        /\ calculation'[k].status # calculation[k].status => k = p
  BY <1>2, <1>5, <1>8
<1> DEFINE moved == [i \in Copies |-> IF Live(p, i) THEN Deadline("UPCOMING", 0) ELSE NoDeadline]
           left  == [i \in Copies |-> IF Live(p, i) THEN Deadline("SUPERSEDED", c)
                                      ELSE deadline[p][i]]
<1>10. /\ Deadline("UPCOMING", 0) \in DeadlineRows /\ NoDeadline \in DeadlineRows
       /\ Deadline("SUPERSEDED", c) \in DeadlineRows
       /\ Deadline("UPCOMING", 0).status = "UPCOMING"
       /\ Deadline("SUPERSEDED", c).status = "SUPERSEDED" /\ Deadline("SUPERSEDED", c).next = c
  BY DEF Deadline, DeadlineRows, DeadlineStatuses, NoDeadline
<1>11. moved \in [Copies -> DeadlineRows] /\ left \in [Copies -> DeadlineRows]
  BY <1>3, <1>10
<1>12. deadline' = [deadline EXCEPT ![c] = moved, ![p] = left]
  BY <1>2 DEF RecalculateDeadline
<1>13. /\ \A i \in Copies :
            /\ deadline'[c][i] = IF Live(p, i) THEN Deadline("UPCOMING", 0) ELSE NoDeadline
            /\ deadline'[p][i] = IF Live(p, i) THEN Deadline("SUPERSEDED", c)
                                 ELSE deadline[p][i]
       /\ \A k \in CalculationIds \ {c, p} : deadline'[k] = deadline[k]
       /\ deadline' \in [CalculationIds -> [Copies -> DeadlineRows]]
  <2>1. deadline'[c] = moved /\ deadline'[p] = left
    BY <1>3, <1>7, <1>12
  <2>2. \A k \in CalculationIds \ {c, p} : deadline'[k] = deadline[k]
    BY <1>3, <1>12
  <2>3. deadline' \in [CalculationIds -> [Copies -> DeadlineRows]]
    <3> HIDE DEF moved, left
    <3> QED BY <1>3, <1>11, <1>12
  <2> QED BY <2>1, <2>2, <2>3
<1> HIDE DEF moved, left
<1>14. \A i \in Copies : deadline[c][i] = NoDeadline /\ ~Live(c, i)
  BY <1>1, <1>3, <1>6 DEF RowFacts, DeadlinesHaveCalculations, Live
<1>15. ASSUME NEW k \in CalculationIds, NEW i \in Copies
       PROVE  /\ deadline[k][i] # NoDeadline => deadline'[k][i] # NoDeadline
              /\ deadline[k][i].status = "SUPERSEDED" => deadline'[k][i] = deadline[k][i]
              /\ k # c /\ deadline'[k][i] # NoDeadline => deadline[k][i] # NoDeadline
              /\ Live(k, i)' <=> \/ k = c /\ Live(p, i)
                                 \/ k # p /\ Live(k, i)
  <2>1. CASE k = c
    BY <1>6, <1>7, <1>10, <1>13, <1>14, <2>1 DEF Live
  <2>2. CASE k = p
    BY <1>6, <1>7, <1>10, <1>13, <2>2 DEF Live
  <2>3. CASE k # c /\ k # p
    BY <1>13, <2>3 DEF Live
  <2> QED BY <2>1, <2>2, <2>3
<1>16. Tables'
  BY <1>1, <1>3, <1>8, <1>13, DeadlineSteps
<1>17. Grow
  BY <1>1, <1>9, DeadlineSteps DEF Reviewed
<1>18. RowFacts'
  <2>1. AssessmentsRest' /\ SuggestionsPoint' /\ \A b : Rests(b)' <=> Rests(b)
    BY <1>1, DeadlineSteps
  <2>2. CalculationsRest'
    BY <1>2, <1>3, <1>4, <1>8, <1>9, <2>1 DEF RowFacts, CalculationsRest
  <2>3. VerifiedIsReviewed'
    BY <1>3, <1>4, <1>5, <1>8 DEF RowFacts, VerifiedIsReviewed, Reviewed
  <2>4. DeadlinesHaveCalculations'
    BY <1>3, <1>4, <1>8, <1>9, <1>15 DEF RowFacts, DeadlinesHaveCalculations
  <2>5. LinksArePlaced'
    <3>1. ASSUME NEW d \in CalculationIds, NEW i \in Copies, deadline'[d][i].status = "SUPERSEDED"
          PROVE  deadline'[d][i].next \in CalculationIds
      <4>1. d # c
        BY <1>6, <1>10, <1>13, <3>1
      <4>2. CASE d = p /\ Live(p, i)
        BY <1>10, <1>13, <4>2
      <4>3. CASE d # p \/ ~Live(p, i)
        BY <1>3, <1>13, <3>1, <4>1, <4>3 DEF RowFacts, LinksArePlaced
      <4> QED BY <4>2, <4>3
    <3> QED BY <3>1 DEF LinksArePlaced
  <2>6. VersionsAreDense'
    <3>1. ASSUME NEW b \in AssessmentIds, NEW m, Numbered(b, m) PROVE Numbered(b, m)'
      BY <1>1, <1>6, <1>9, <3>1 DEF Numbered
    <3>2. Numbered(a, n)'
      BY <1>2, <3>1
    <3>3. ASSUME NEW k \in CalculationIds, calculation'[k] # NoCalculation
          PROVE  Numbered(calculation[k].assessment, calculation[k].version)'
      <4>1. CASE k = c
        BY <1>4, <1>8, <3>2, <4>1 DEF Numbered
      <4>2. CASE k # c
        <5> DEFINE b == calculation[k].assessment
                   m == calculation[k].version
        <5>1. b \in AssessmentIds
          BY <1>3, <1>9, <3>3, <4>2 DEF RowFacts, CalculationsRest, Rests
        <5>2. Numbered(b, m)'
          BY <1>3, <1>9, <3>1, <3>3, <4>2, <5>1 DEF RowFacts, VersionsAreDense
        <5> QED BY <1>9, <4>2, <5>1, <5>2 DEF Numbered
      <4> QED BY <4>1, <4>2
    <3> QED BY <3>3 DEF VersionsAreDense
  <2> QED BY <2>1, <2>2, <2>3, <2>4, <2>5, <2>6 DEF RowFacts
<1>19. SupersessionIsLinked'
  <2>1. ASSUME NEW d \in CalculationIds, calculation'[d].status = "SUPERSEDED"
        PROVE  \E k \in CalculationIds : /\ calculation'[k].supersedes = d
                                         /\ calculation'[k].assessment = calculation'[d].assessment
                                         /\ calculation'[k].version > calculation'[d].version
    <3>1. d # c
      BY <1>4, <1>8, <2>1
    <3>2. CASE d = p
      <4>1. calculation[p].version \in Nat
        BY <1>3 DEF CalculationRows
      <4> QED BY <1>2, <1>4, <1>5, <1>8, <3>2, <4>1
    <3>3. CASE d # p
      <4>1. PICK k \in CalculationIds : /\ calculation[k].supersedes = d
                                        /\ calculation[k].assessment = calculation[d].assessment
                                        /\ calculation[k].version > calculation[d].version
        BY <1>8, <2>1, <3>1, <3>3 DEF IInv, SupersessionIsLinked
      <4>2. k # c
        BY <1>1, <1>6, <4>1
      <4> QED BY <1>9, <3>1, <4>1, <4>2
    <3> QED BY <3>2, <3>3
  <2>2. ASSUME NEW d \in CalculationIds, NEW i \in Copies, deadline'[d][i].status = "SUPERSEDED"
        PROVE  /\ calculation'[deadline'[d][i].next].supersedes = d
               /\ deadline'[deadline'[d][i].next][i] # NoDeadline
    <3>1. d # c
      BY <1>6, <1>10, <1>13, <2>2
    <3>2. CASE d = p /\ Live(p, i)
      BY <1>4, <1>6, <1>8, <1>10, <1>13, <3>2
    <3>3. CASE d # p \/ ~Live(p, i)
      <4>1. deadline'[d][i] = deadline[d][i]
        BY <1>13, <3>1, <3>3
      <4>2. PICK k \in CalculationIds : /\ k = deadline[d][i].next /\ calculation[k].supersedes = d
                                        /\ deadline[k][i] # NoDeadline
        BY <1>3, <2>2, <4>1 DEF RowFacts, LinksArePlaced, IInv, SupersessionIsLinked
      <4>3. k # c
        BY <1>1, <1>6, <4>2
      <4> QED BY <1>9, <1>15, <4>1, <4>2, <4>3
    <3> QED BY <3>2, <3>3
  <2>3. ASSUME NEW d \in CalculationIds, NEW i \in Copies, deadline'[d][i] # NoDeadline
        PROVE  \/ calculation'[d].reviewer \notin {None, calculation'[d].by}
               \/ \E k \in CalculationIds : deadline'[k][i] = Deadline("SUPERSEDED", d)
    <3>1. CASE d = c
      BY <1>13, <2>3, <3>1
    <3>2. CASE d # c
      <4>1. \/ calculation[d].reviewer \notin {None, calculation[d].by}
            \/ \E k \in CalculationIds : deadline[k][i] = Deadline("SUPERSEDED", d)
        BY <1>15, <2>3, <3>2 DEF IInv, SupersessionIsLinked
      <4>2. Deadline("SUPERSEDED", d).status = "SUPERSEDED"
        BY DEF Deadline
      <4>3. ASSUME NEW k \in CalculationIds, deadline[k][i] = Deadline("SUPERSEDED", d)
            PROVE  deadline'[k][i] = Deadline("SUPERSEDED", d)
        BY <1>15, <4>2, <4>3
      <4> QED BY <1>9, <3>2, <4>1, <4>3
    <3> QED BY <3>1, <3>2
  <2> QED BY <2>1, <2>2, <2>3 DEF SupersessionIsLinked
<1>20. CurrentIsApproved'
  BY <1>1 DEF IInv, NothingIsDoubled, CurrentIsApproved
<1>21. ASSUME ~raced PROVE RowsAreSingle'
  <2>1. RowsAreSingle /\ Newest(a, n)
    BY <1>2, <1>21 DEF IInv, NothingIsDoubled, Calm, Fresh, RecalculateDeadline
  <2>2. ASSUME NEW d \in CalculationIds, NEW i \in Copies, NEW j \in Copies, Live(d, i)'
        PROVE  calculation'[d].status # "SUPERSEDED" /\ (Live(d, j)' => i = j)
    <3>1. CASE d = c
      BY <1>4, <1>7, <1>8, <1>14, <1>15, <2>1, <2>2, <3>1 DEF RowsAreSingle
    <3>2. CASE d # c
      BY <1>8, <1>15, <2>1, <2>2, <3>2 DEF RowsAreSingle
    <3> QED BY <3>1, <3>2
  <2>3. ASSUME NEW d \in CalculationIds, NEW k \in CalculationIds,
               calculation'[d] # NoCalculation,
               calculation'[d].assessment = calculation'[k].assessment,
               calculation'[d].version = calculation'[k].version
        PROVE  d = k
    <3>1. \A x \in CalculationIds : calculation[x].version \in Nat
      BY <1>3 DEF CalculationRows
    <3>2. \A x \in CalculationIds : calculation[x].assessment = a => calculation[x].version # n
      BY <2>1, <3>1 DEF Newest
    <3>3. CASE d # c /\ k # c
      BY <1>9, <2>1, <2>3, <3>3 DEF RowsAreSingle
    <3>4. CASE d = c /\ k # c
      BY <1>4, <1>8, <1>9, <2>3, <3>2, <3>4
    <3>5. CASE d # c /\ k = c
      BY <1>4, <1>8, <1>9, <2>3, <3>2, <3>5
    <3> QED BY <3>3, <3>4, <3>5
  <2>4. OneAssessmentEach'
    BY <1>1, <1>21, DeadlineSteps
  <2>5. \A k \in CalendarRevisions : revision'[k] = "APPROVED" => k = current'
    BY <1>1, <2>1 DEF RowsAreSingle
  <2> QED BY <2>2, <2>3, <2>4, <2>5 DEF RowsAreSingle, OneAssessmentEach
<1> QED BY <1>1, <1>16, <1>17, <1>18, <1>19, <1>20, <1>21, WritesKeep

-----------------------------------------------------------------------------
(* No row exists yet and no handler is busy.                                  *)
LEMMA InitIInv == Init => IInv
<1> SUFFICES ASSUME Init PROVE IInv
  OBVIOUS
<1> USE EventsAssumption, DetectionAssumption, DeadlinesAssumption DEF Init
<1>1. TransactionsTypeOK /\ raced = FALSE /\ \A h \in Handlers : work[h].op = "idle"
  BY DEF TransactionsInit, TransactionsTypeOK, Idle, Work
<1>2. /\ Absent \in [confirmation : ConfirmationStatuses \cup {"ABSENT"}, date : DateStates,
                     from : Nat]
      /\ NoAssessment \in [event : EventIds \cup {0}, rule : Rules \cup {0}]
      /\ NoSuggestion \in SuggestionRows /\ NoSuggestion.accepted = 0
      /\ NoCalculation \in CalculationRows /\ NoCalculation.status = "ABSENT"
      /\ NoDeadline \in DeadlineRows /\ NoDeadline.status = "ABSENT"
  BY DEF Absent, Event, DateStates, NoAssessment, Assessment, NoSuggestion, Suggestion,
         SuggestionRows, SuggestionStatuses, DatePrecisions, NoCalculation, Calculation,
         CalculationRows, CalculationStatuses, NoDeadline, Deadline, DeadlineRows,
         DeadlineStatuses
<1>3. EventsTypeOK
  <2>1. rule \in [last : Rules, active : BOOLEAN]
    BY DEF EventsInit, Revision, Rules
  <2>2. event \in [EventIds -> [confirmation : ConfirmationStatuses \cup {"ABSENT"},
                                date : DateStates, from : Nat]]
    BY <1>2 DEF EventsInit
  <2>3. assessment \in [AssessmentIds -> [event : EventIds \cup {0}, rule : Rules \cup {0}]]
    BY <1>2 DEF EventsInit
  <2> QED BY <1>1, <2>1, <2>2, <2>3 DEF EventsTypeOK, Doing
<1>4. DetectionTypeOK
  BY <1>2 DEF DetectionTypeOK, DetectionInit, SuggestionRows
<1>5. DeadlinesTypeOK
  <2>1. revision \in [CalendarRevisions -> RevisionStatuses] /\ current = 0
    BY DEF DeadlinesInit, RevisionStatuses
  <2>2. /\ calculation \in [CalculationIds -> CalculationRows]
        /\ deadline \in [CalculationIds -> [Copies -> DeadlineRows]]
    BY <1>2 DEF DeadlinesInit
  <2> QED BY <2>1, <2>2 DEF DeadlinesTypeOK, CalculationRows, DeadlineRows
<1>6. /\ \A a \in AssessmentIds : assessment[a] = NoAssessment
      /\ \A s \in SuggestionIds : suggestion[s] = NoSuggestion
      /\ \A k \in CalendarRevisions : revision[k] = "ABSENT"
      /\ current = 0
      /\ \A c \in CalculationIds : /\ calculation[c] = NoCalculation
                                   /\ \A i \in Copies : deadline[c][i] = NoDeadline
  BY DEF EventsInit, DetectionInit, DeadlinesInit
<1>7. RowFacts
  BY <1>2, <1>6 DEF RowFacts, AssessmentsRest, CalculationsRest, SuggestionsPoint,
         VerifiedIsReviewed, DeadlinesHaveCalculations, VersionsAreDense, LinksArePlaced
<1>8. SupersessionIsLinked /\ NothingIsDoubled
  BY <1>2, <1>6 DEF SupersessionIsLinked, NothingIsDoubled, CurrentIsApproved, RowsAreSingle, Live
<1>9. (\A h \in Handlers : Shaped(h)) /\ Calm
  BY <1>1 DEF Shaped, Calm, OneBusy, Fresh, Busy, Doing
<1> QED BY <1>1, <1>3, <1>4, <1>5, <1>7, <1>8, <1>9 DEF IInv, TypeOK

(* A rolled back handler has written nothing and remembers nothing.           *)
LEMMA RollBackStep ==
  ASSUME IInv, NEW h \in Handlers, RollBack(h),
         UNCHANGED <<eventVars, detectionVars, deadlineVars>>
  PROVE  IInv'
<1>1. Grow
  BY DeadlineSteps DEF deadlineVars, Reviewed
<1>2. Tables'
  BY DEF Tables, IInv, TypeOK, EventsTypeOK, DetectionTypeOK, DeadlinesTypeOK, eventVars,
         detectionVars, deadlineVars
<1>3. AssessmentsRest' /\ SuggestionsPoint' /\ (~raced => OneAssessmentEach')
  BY DeadlineSteps
<1> QED BY <1>1, <1>2, <1>3, FactsKeep DEF RollBack

LEMMA StepKeepsIInv == IInv /\ [Next]_vars => IInv'
<1> SUFFICES ASSUME IInv, [Next]_vars PROVE IInv'
  OBVIOUS
<1>1. CASE EventsNext /\ UNCHANGED <<detectionVars, deadlineVars>>
  BY <1>1, EventSteps, RuleSteps, ReadingSteps DEF EventsNext
<1>2. CASE DetectionNext /\ UNCHANGED deadlineVars
  BY <1>2, SuggestionSteps, ReadingSteps DEF DetectionNext
<1>3. CASE DeadlinesNext /\ UNCHANGED detectionVars
  BY <1>3, CalendarSteps, CalculateStep, VerifyStep, TrackStep, RecalculateStep, ReadingSteps
     DEF DeadlinesNext
<1>4. CASE \E h \in Handlers : RollBack(h) /\ UNCHANGED <<eventVars, detectionVars, deadlineVars>>
  BY <1>4, RollBackStep
<1>5. CASE UNCHANGED vars
  <2>1. Tables'
    BY <1>5 DEF Tables, IInv, TypeOK, EventsTypeOK, DetectionTypeOK, DeadlinesTypeOK, vars,
                eventVars, detectionVars, deadlineVars
  <2>2. UNCHANGED <<work, raced, eventVars, detectionVars, deadlineVars>>
    BY <1>5 DEF vars, transactionVars
  <2>3. Grow
    BY <2>2, DeadlineSteps DEF deadlineVars, Reviewed
  <2>4. \A h \in Handlers : Shaped(h)'
    BY <2>1, <2>2, <2>3, ShapeIsKept
  <2>5. TypeOK'
    BY <2>2 DEF IInv, TypeOK, TransactionsTypeOK, EventsTypeOK, DetectionTypeOK, DeadlinesTypeOK,
                Doing, eventVars, detectionVars, deadlineVars
  <2>6. RowFacts' /\ SupersessionIsLinked' /\ NothingIsDoubled'
    BY <2>2 DEF IInv, RowFacts, AssessmentsRest, CalculationsRest, Rests, SuggestionsPoint,
         VerifiedIsReviewed, Reviewed, DeadlinesHaveCalculations, VersionsAreDense, Numbered,
         LinksArePlaced, SupersessionIsLinked, NothingIsDoubled, CurrentIsApproved, RowsAreSingle,
         Live, eventVars, detectionVars, deadlineVars
  <2>7. Calm'
    BY <2>2 DEF IInv, Calm, OneBusy, Fresh, Busy, Doing, Newest, Live, eventVars, deadlineVars
  <2> QED BY <2>4, <2>5, <2>6, <2>7 DEF IInv
<1> QED BY <1>1, <1>2, <1>3, <1>4, <1>5 DEF Next

(* The inductive invariant: rows rest on rows that stay, versions are dense,  *)
(* and without overlap what a handler read is current.                        *)
THEOREM EventAnalysisInvariant == Spec => []IInv
BY InitIInv, StepKeepsIInv, PTL DEF Spec

(* Every table and every handler's read set keeps its type.                   *)
THEOREM TypesAreKept == Spec => []TypeOK
<1>1. IInv => TypeOK
  BY DEF IInv
<1> QED BY <1>1, EventAnalysisInvariant, PTL

(* For any number of overlapping handlers, a calculation exists only for a    *)
(* confirmed event with a verified date under a rule that was approved, and a *)
(* suggestion points to the event made from it.                               *)
THEOREM DeadlinesRest == Spec => []DeadlinesRestOnConfirmedFacts
<1>1. IInv => DeadlinesRestOnConfirmedFacts
  BY DEF IInv, RowFacts, CalculationsRest, Rests, AssessmentsRest, SuggestionsPoint,
         DeadlinesRestOnConfirmedFacts, Confirmed
<1> QED BY <1>1, EventAnalysisInvariant, PTL

(* For any number of overlapping handlers, supersession leaves its trail.     *)
THEOREM SupersessionStaysLinked == Spec => []SupersessionIsLinked
<1>1. IInv => SupersessionIsLinked
  BY DEF IInv
<1> QED BY <1>1, EventAnalysisInvariant, PTL

(* The calendar's pointer is right whatever overlaps; without overlap there   *)
(* is one approved revision, one assessment per event and rule, one live      *)
(* deadline per calculation and one calculation per version.                  *)
THEOREM NothingGetsDoubled == Spec => []NothingIsDoubled
<1>1. IInv => NothingIsDoubled
  BY DEF IInv
<1> QED BY <1>1, EventAnalysisInvariant, PTL

(* A step leaves a verified calculation alone or supersedes it.               *)
LEMMA StepFreezesVerified ==
  ASSUME IInv, [Next]_vars, NEW c \in CalculationIds, calculation[c].status = "VERIFIED"
  PROVE  \/ calculation'[c] = calculation[c]
         \/ calculation'[c] = [calculation[c] EXCEPT !.status = "SUPERSEDED"]
<1>0. /\ calculation \in [CalculationIds -> CalculationRows]
      /\ calculation[c] # NoCalculation
  BY DEF IInv, TypeOK, DeadlinesTypeOK, CalculationRows, NoCalculation, Calculation
<1>1. CASE calculation' = calculation
  BY <1>1
<1>2. ASSUME NEW h \in Handlers, NEW k \in CalculationIds, NEW result \in EngineResults,
             CalculateEventDeadline(h, k, result)
      PROVE  calculation'[c] = calculation[c]
  BY <1>0, <1>2 DEF CalculateEventDeadline, NextId
<1>3. ASSUME NEW h \in Handlers, VerifyDeadlineCalculation(h)
      PROVE  calculation'[c] = calculation[c]
  BY <1>0, <1>3 DEF VerifyDeadlineCalculation
<1>4. ASSUME NEW h \in Handlers, NEW k \in CalculationIds, NEW result \in EngineResults,
             RecalculateDeadline(h, k, result)
      PROVE  \/ calculation'[c] = calculation[c]
             \/ calculation'[c] = [calculation[c] EXCEPT !.status = "SUPERSEDED"]
  BY <1>0, <1>4 DEF RecalculateDeadline, NextId
<1>5. CASE DeadlinesNext
  <2> SUFFICES ASSUME calculation' # calculation
               PROVE  \/ calculation'[c] = calculation[c]
                      \/ calculation'[c] = [calculation[c] EXCEPT !.status = "SUPERSEDED"]
    OBVIOUS
  <2>1. \E h \in Handlers :
          \/ VerifyDeadlineCalculation(h)
          \/ \E k \in CalculationIds, result \in EngineResults :
               CalculateEventDeadline(h, k, result) \/ RecalculateDeadline(h, k, result)
    BY <1>5 DEF DeadlinesNext, ReviseRead, ApproveRead, CreateCalendarRevision,
                ApproveCalendarRevision, CalculateRead, VerifyRead, RecalculateRead, TrackRead,
                CreateTrackedDeadline, deadlineVars
  <2> QED BY <1>2, <1>3, <1>4, <2>1
<1> QED BY <1>1, <1>5 DEF Next, vars, deadlineVars

(* For any number of overlapping handlers, a verified calculation keeps its   *)
(* author, reviewer and basis and only ever becomes superseded.               *)
THEOREM VerifiedStaysFrozen == Spec => VerifiedIsFrozen
<1>1. IInv /\ [Next]_vars =>
        [\A c \in CalculationIds : calculation[c].status = "VERIFIED" =>
           \/ calculation'[c] = calculation[c]
           \/ calculation'[c] = [calculation[c] EXCEPT !.status = "SUPERSEDED"]]_vars
  BY StepFreezesVerified
<1> QED BY <1>1, EventAnalysisInvariant, PTL DEF Spec, VerifiedIsFrozen

===============================================================================
