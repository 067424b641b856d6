------------------------ MODULE DeletionStore_proofs ------------------------
(***************************************************************************)
(* Proofs about DeletionStore, for any number of requests, texts, rows,    *)
(* clients and uses: typing, the well-formed rows behind ValidRows, one    *)
(* operation per text, the finality of a completion, the uses held, and    *)
(* the rows covered by a complete reconciliation.                          *)
(***************************************************************************)
EXTENDS DeletionStore, FiniteSetTheorems, WellFoundedInduction, TLAPS

(***************************************************************************)
(* Pages.  Rows is finite, so a set of rows has a last and a first one; a  *)
(* page takes the first PageSize of the rows left.                         *)
(***************************************************************************)
LEMMA RowSetsWellFounded ==
    IsWellFoundedOn(StrictSubsetOrdering(Rows), SUBSET Rows)
<1>1. FiniteSubsetsOf(Rows) = SUBSET Rows
  BY RowsAreOrdered, FS_FiniteSubsetsOfFinite, Zenon
<1> QED
  BY <1>1, FS_StrictSubsetOrderingWellFounded, Zenon

LEMMA LastRow ==
    ASSUME NEW S \in SUBSET Rows, S # {}
    PROVE  \E m \in S : \A k \in S : k <= m
<1> DEFINE bad == {T \in SUBSET Rows :
                     T # {} /\ ~\E m \in T : \A k \in T : k <= m}
<1> SUFFICES ASSUME bad # {} PROVE FALSE
  OBVIOUS
<1>1. bad \subseteq SUBSET Rows
  OBVIOUS
<1>2. PICK T \in bad : \A U \in bad : <<U, T>> \notin StrictSubsetOrdering(Rows)
  <2> HIDE DEF bad
  <2> QED
    BY <1>1, RowSetsWellFounded, WFMin, Zenon
<1>3. PICK x \in T : TRUE
  OBVIOUS
<1> DEFINE R == T \ {x}
<1>4. R \in SUBSET Rows /\ R \subseteq T /\ R # T
  BY <1>3
<1>5. <<R, T>> \in StrictSubsetOrdering(Rows)
  BY <1>4 DEF StrictSubsetOrdering
<1>6. R \notin bad
  BY <1>2, <1>5
<1>7. CASE R = {}
  BY <1>3, <1>7, RowsAreOrdered
<1>8. CASE R # {}
  <2>1. PICK m \in R : \A k \in R : k <= m
    BY <1>4, <1>6, <1>8
  <2>2. \A k \in T : k = x \/ k \in R
    OBVIOUS
  <2>3. T \subseteq Nat
    BY RowsAreOrdered
  <2>4. CASE x <= m
    <3>1. \A k \in T : k <= m
      BY <2>1, <2>2, <2>4
    <3> QED
      BY <2>1, <3>1
  <2>5. CASE ~(x <= m)
    <3>1. \A k \in T : k <= x
      BY <2>1, <2>2, <2>3, <2>5, <1>3
    <3> QED
      BY <1>3, <3>1
  <2> QED
    BY <2>4, <2>5
<1> QED
  BY <1>7, <1>8

LEMMA FirstRow ==
    ASSUME NEW S \in SUBSET Rows, S # {}
    PROVE  \E m \in S : \A k \in S : m <= k
<1> DEFINE below(m) == {k \in S : k < m}
           sets == {below(m) : m \in S}
<1>1. sets \subseteq SUBSET Rows /\ sets # {}
  OBVIOUS
<1>2. PICK B \in sets : \A U \in sets : <<U, B>> \notin StrictSubsetOrdering(Rows)
  <2> HIDE DEF sets
  <2> QED
    BY <1>1, RowSetsWellFounded, WFMin, Zenon
<1>3. PICK m \in S : B = below(m)
  BY <1>2
<1>4. ASSUME NEW k \in S, ~(m <= k) PROVE FALSE
  <2>1. k \in Nat /\ m \in Nat /\ S \subseteq Nat
    BY RowsAreOrdered
  <2>2. k \in below(m) /\ k \notin below(k)
    BY <1>4, <2>1
  <2>3. \A n \in S : n < k => n < m
    BY <1>4, <2>1
  <2>4. below(k) \subseteq below(m) /\ below(k) # below(m)
    BY <2>2, <2>3
  <2>5. <<below(k), B>> \in StrictSubsetOrdering(Rows)
    BY <1>3, <2>4 DEF StrictSubsetOrdering
  <2> QED
    BY <1>2, <2>5
<1> QED
  BY <1>4

LEMMA PageRows ==
    ASSUME NEW t, NEW n
    PROVE  Page(t, n) \in SUBSET Rows
BY DEF Page

LEMMA CursorType ==
    ASSUME NEW n \in Rows \cup {0}, NEW S \in SUBSET Rows
    PROVE  LastOf(S, n) \in Rows \cup {0}
BY LastRow DEF LastOf

\* No row is skipped: up to the new cursor every row left is on the page,
\* and on a page that is not full, every row left at all.
LEMMA PageSkipsNoRow ==
    ASSUME NEW t, NEW n \in Rows \cup {0}, NEW m \in Rows, m > n, body[m] = t,
           m <= LastOf(Page(t, n), n) \/ Cardinality(Page(t, n)) < PageSize
    PROVE  m \in Page(t, n)
<1> DEFINE rest == {k \in Rows : k > n /\ body[k] = t}
           before(k) == {j \in rest : j < k}
<1>1. Page(t, n) = {k \in rest : Cardinality(before(k)) < PageSize}
  BY DEF Page
<1>2. m \in rest
  OBVIOUS
<1>3. \A k \in Nat : IsFiniteSet(before(k)) /\ Cardinality(before(k)) \in Nat
  BY RowsAreOrdered, FS_Subset, FS_CardinalityType
<1>4. rest \subseteq Nat
  BY RowsAreOrdered
<1>5. IsFiniteSet(Page(t, n)) /\ Cardinality(Page(t, n)) \in Nat
  BY PageRows, RowsAreOrdered, FS_Subset, FS_CardinalityType
<1>6. CASE m <= LastOf(Page(t, n), n)
  <2>1. Page(t, n) # {}
    BY <1>6, RowsAreOrdered DEF LastOf
  <2>2. PICK k \in Page(t, n) : m <= k
    BY <1>6, <2>1, PageRows, LastRow DEF LastOf
  <2>3. k \in Nat /\ m \in Nat
    BY <2>2, PageRows, RowsAreOrdered
  <2>4. before(m) \subseteq before(k)
    BY <1>4, <2>2, <2>3
  <2>5. Cardinality(before(m)) <= Cardinality(before(k))
    BY <1>3, <2>3, <2>4, FS_Subset
  <2>6. Cardinality(before(k)) < PageSize
    BY <1>1, <2>2
  <2>7. Cardinality(before(m)) < PageSize
    BY <1>3, <2>3, <2>5, <2>6, PageSizePositive
  <2> QED
    BY <1>1, <1>2, <2>7
<1>7. CASE Cardinality(Page(t, n)) < PageSize
  <2> SUFFICES ASSUME m \notin Page(t, n) PROVE FALSE
    OBVIOUS
  <2> DEFINE left == rest \ Page(t, n)
  <2>1. PICK k \in left : \A j \in left : k <= j
    <3>1. left \in SUBSET Rows /\ left # {}
      BY <1>2
    <3> QED
      BY <3>1, FirstRow
  <2>2. k \in Nat /\ k \in rest /\ k \notin Page(t, n)
    BY <1>4, <2>1
  <2>3. before(k) \subseteq Page(t, n)
    BY <1>4, <2>1
  <2>4. Cardinality(before(k)) <= Cardinality(Page(t, n))
    BY <1>5, <2>3, FS_Subset
  <2>5. Cardinality(before(k)) < PageSize
    BY <1>3, <1>5, <1>7, <2>2, <2>4, PageSizePositive
  <2> QED
    BY <1>1, <2>2, <2>5
<1> QED
  BY <1>6, <1>7

-----------------------------------------------------------------------------
(***************************************************************************)
(* Typing.  OpenNext and ScanPage are parts of several transactions.       *)
(***************************************************************************)
LEMMA OpenNextType ==
    ASSUME DeletionTypeOK, NEW Q \in SUBSET Requests, OpenNext(Q)
    PROVE  DeletionTypeOK'
<1>1. /\ phase' \in [Requests -> Phases \cup {"none"}]
      /\ hold' \in [Requests -> {"no", "unavailable", "generation_exhausted"}]
      /\ complete' \in SUBSET Requests
      /\ cursor' \in [Requests -> Rows \cup {0}]
  BY DEF OpenNext, DeletionTypeOK, Phases
<1>2. sweep' \in [Requests -> 0..MaxSweep]
  BY MaxSweepPositive DEF OpenNext, DeletionTypeOK, Advances
<1>3. progress' \in [Requests -> [Owners -> States \cup {"absent"}]]
  BY DEF OpenNext, DeletionTypeOK, ResetReport, States
<1>4. seenSweep' \in [Requests -> [Owners -> 0..MaxSweep]]
  BY MaxSweepPositive DEF OpenNext, DeletionTypeOK, Advances
<1> QED
  BY <1>1, <1>2, <1>3, <1>4
     DEF OpenNext, DeletionTypeOK, requestVars, contentVars, useVars

LEMMA ScanPageType ==
    ASSUME DeletionTypeOK, NEW q \in Requests, NEW t, NEW n \in Rows \cup {0},
           NEW known \in SUBSET Rows, ScanPage(q, t, n, known)
    PROVE  /\ covered' \in [Requests -> SUBSET Rows]
           /\ cursor' \in [Requests -> Rows \cup {0}]
           /\ complete' \in SUBSET Requests
           /\ held' \in [Uses -> SUBSET Requests]
           /\ claimHeld' \in [Uses -> SUBSET Requests]
<1>1. Page(t, n) \in SUBSET Rows /\ LastOf(Page(t, n), n) \in Rows \cup {0}
  BY PageRows, CursorType
<1> QED
  BY <1>1 DEF ScanPage, Associate, DeletionTypeOK

(* The transactions that write content and uses only.                      *)
ContentOrUse == ContentStep \/ \E f \in Uses : UseStep(f)

LEMMA ContentOrUseType ==
    ASSUME DeletionTypeOK, ContentOrUse
    PROVE  DeletionTypeOK'
<1>1. CASE ContentStep
  <2>1. body' \in [Rows -> Bodies \cup {"fresh", "gone"}] /\ surfaces' \in SUBSET Texts
    <3>1. ASSUME NEW m \in Rows, NEW t \in Bodies, StoreRow(m, t)
          PROVE  /\ body' \in [Rows -> Bodies \cup {"fresh", "gone"}]
                 /\ surfaces' \in SUBSET Texts
      BY <3>1 DEF StoreRow, DeletionTypeOK, Bodies
    <3>2. ASSUME NEW t \in Texts, ChangeSurface(t)
          PROVE  /\ body' \in [Rows -> Bodies \cup {"fresh", "gone"}]
                 /\ surfaces' \in SUBSET Texts
      BY <3>2 DEF ChangeSurface, DeletionTypeOK
    <3>3. ASSUME NEW q \in Requests, NEW m \in Rows, NEW left \in {"gone", "clear"},
                 EraseRow(q, m, left)
          PROVE  /\ body' \in [Rows -> Bodies \cup {"fresh", "gone"}]
                 /\ surfaces' \in SUBSET Texts
      BY <3>3 DEF EraseRow, DeletionTypeOK, Bodies
    <3>4. ASSUME NEW m \in Rows, NEW t \in Bodies, NEW h \in BOOLEAN,
                 StoreResult(m, t, h)
          PROVE  /\ body' \in [Rows -> Bodies \cup {"fresh", "gone"}]
                 /\ surfaces' \in SUBSET Texts
      BY <3>4 DEF StoreResult, DeletionTypeOK, Bodies
    <3> QED
      BY <1>1, <3>1, <3>2, <3>3, <3>4, Zenon DEF ContentStep
  <2>2. UNCHANGED <<requestVars, operationVars, participantVars, scanVars, useVars>>
    BY <1>1, Zenon DEF ContentStep, StoreRow, StoreResult, ChangeSurface, EraseRow
  <2> QED
    BY <2>1, <2>2 DEF DeletionTypeOK, requestVars, operationVars,
            participantVars, scanVars, useVars
<1>2. ASSUME NEW f \in Uses, UseStep(f) PROVE DeletionTypeOK'
  <2>1. ASSUME NEW S \in SUBSET Rows, BeginFormation(f, S) PROVE DeletionTypeOK'
    <3>1. Holders(S) \in SUBSET Requests
      BY DEF Holders, CoversFormation, Unreconciled, Unfinished
    <3> QED
      BY <2>1, <3>1 DEF BeginFormation, DeletionTypeOK, requestVars,
            operationVars, participantVars, scanVars, contentVars
  <2>2. CASE CheckFormation(f) \/ SettleFormation(f) \/ HoldClaim(f)
    <3>1. \A S : /\ CoversFormation(S) \in SUBSET Requests
                 /\ CoversClaim(S) \in SUBSET Requests
      BY DEF CoversFormation, CoversClaim, Unreconciled
    <3>2. CASE CheckFormation(f)
      BY <3>1, <3>2 DEF CheckFormation, DeletionTypeOK, requestVars,
            operationVars, participantVars, scanVars, contentVars
    <3>3. CASE SettleFormation(f)
      BY <3>3 DEF SettleFormation, DeletionTypeOK, requestVars,
            operationVars, participantVars, scanVars, contentVars
    <3>4. CASE HoldClaim(f)
      BY <3>1, <3>4 DEF HoldClaim, DeletionTypeOK, requestVars,
            operationVars, participantVars, scanVars, contentVars
    <3> QED
      BY <2>2, <3>2, <3>3, <3>4
  <2>3. ASSUME NEW S \in SUBSET Rows, BeginClaim(f, S) PROVE DeletionTypeOK'
    BY <2>3 DEF BeginClaim, DeletionTypeOK, requestVars, operationVars,
            participantVars, scanVars, contentVars
  <2>4. ASSUME NEW ends, NEW S \in SUBSET Rows, NEW said \in [S -> Bodies],
               CommitMemory(f, ends, said)
        PROVE  DeletionTypeOK'
    <3>1. body' \in [Rows -> Bodies \cup {"fresh", "gone"}]
      BY <2>4 DEF CommitMemory, DeletionTypeOK
    <3> QED
      BY <2>4, <3>1 DEF CommitMemory, DeletionTypeOK, requestVars, operationVars,
            participantVars, scanVars, useVars
  <2>5. ASSUME NEW m \in Rows, NEW n \in Rows
        PROVE  {m} \in SUBSET Rows /\ {m, n} \in SUBSET Rows
    OBVIOUS
  <2> QED
    BY <1>2, <2>1, <2>2, <2>3, <2>4, <2>5, Zenon DEF UseStep
<1> QED
  BY <1>1, <1>2 DEF ContentOrUse

(* Only what was confirmed is started, and its first sweep is 1.           *)
Started ==
    \A q \in Requests :
        /\ q \in confirmed => purpose[q] # None
        /\ phase[q] # "none" => q \in confirmed /\ sweep[q] > 0

LEMMA DeletionTypingInductive ==
    ASSUME DeletionTypeOK, Started, [DeletionNext]_deletionVars
    PROVE  DeletionTypeOK'
<1>1. ASSUME NEW q \in Requests, NEW t \in Texts, NEW u \in Purposes, Stage(q, t, u)
      PROVE  DeletionTypeOK'
  BY <1>1 DEF Stage, DeletionTypeOK, operationVars, participantVars, scanVars,
              contentVars, useVars
<1>2. ASSUME NEW q \in Requests, Confirm(q) PROVE DeletionTypeOK'
  BY <1>2 DEF Confirm, DeletionTypeOK, operationVars, participantVars, scanVars,
              contentVars, useVars
<1>3. ASSUME NEW q \in Requests, NEW c \in SUBSET Clients, Start(q, c)
      PROVE  DeletionTypeOK'
  <2>1. /\ phase' \in [Requests -> Phases \cup {"none"}]
        /\ sweep' \in [Requests -> 0..MaxSweep]
        /\ material' \in [Requests -> Texts \cup {None}]
    BY <1>3, MaxSweepPositive DEF Start, DeletionTypeOK, Phases
  <2>2. /\ progress' \in [Requests -> [Owners -> States \cup {"absent"}]]
        /\ seenSweep' \in [Requests -> [Owners -> 0..MaxSweep]]
    BY <1>3, MaxSweepPositive DEF Start, DeletionTypeOK, States
  <2>3. /\ covered' \in [Requests -> SUBSET Rows]
        /\ cursor' \in [Requests -> Rows \cup {0}]
        /\ complete' \in SUBSET Requests
        /\ held' \in [Uses -> SUBSET Requests]
        /\ claimHeld' \in [Uses -> SUBSET Requests]
    <3>1. ScanPage(q, exactText[q], 0, {})
      BY <1>3 DEF Start
    <3>2. 0 \in Rows \cup {0} /\ {} \in SUBSET Rows
      OBVIOUS
    <3> QED
      BY <3>1, <3>2, ScanPageType, Zenon
  <2> QED
    BY <1>3, <2>1, <2>2, <2>3 DEF Start, DeletionTypeOK, requestVars, contentVars
<1>4. ASSUME NEW q \in Requests, HoldOperation(q) \/ ResumeOperation(q)
      PROVE  DeletionTypeOK'
  <2>1. CASE HoldOperation(q)
    BY <2>1 DEF HoldOperation, DeletionTypeOK, Phases, requestVars,
            participantVars, scanVars, contentVars, useVars
  <2>2. CASE ResumeOperation(q)
    BY <2>2 DEF ResumeOperation, DeletionTypeOK, Phases, requestVars,
            participantVars, scanVars, contentVars, useVars
  <2> QED
    BY <1>4, <2>1, <2>2
<1>5. ASSUME NEW q \in Requests, NextSweep(q) \/ CollectRemainder(q)
      PROVE  DeletionTypeOK'
  BY <1>5, OpenNextType DEF NextSweep, CollectRemainder
<1>6. ASSUME NEW Q \in SUBSET Requests, NoteArrival(Q) PROVE DeletionTypeOK'
  BY <1>6, OpenNextType DEF NoteArrival
<1>7. ASSUME NEW q \in Requests, NEW p \in Owners, BeginDemand(q, p)
      PROVE  DeletionTypeOK'
  BY <1>7 DEF BeginDemand, DeletionTypeOK, States, requestVars, operationVars,
              scanVars, contentVars, useVars
<1>8. ASSUME NEW q \in Requests, NEW p \in Owners, NEW s \in States, RecordCompletion(q, p, s)
      PROVE  DeletionTypeOK'
  BY <1>8 DEF RecordCompletion, DeletionTypeOK, requestVars, operationVars,
              scanVars, contentVars, useVars
<1>9. ASSUME NEW q \in Requests, Reconcile(q) PROVE DeletionTypeOK'
  <2>1. /\ covered' \in [Requests -> SUBSET Rows]
        /\ cursor' \in [Requests -> Rows \cup {0}]
        /\ complete' \in SUBSET Requests
        /\ held' \in [Uses -> SUBSET Requests]
        /\ claimHeld' \in [Uses -> SUBSET Requests]
    <3>1. cursor[q] \in Rows \cup {0} /\ covered[q] \in SUBSET Rows
      BY DEF DeletionTypeOK
    <3> QED
      BY <1>9, <3>1, ScanPageType DEF Reconcile
  <2> QED
    BY <1>9, <2>1 DEF Reconcile, DeletionTypeOK, requestVars, operationVars,
              participantVars, contentVars
<1>10. ASSUME NEW q \in Requests, BeginFinalizing(q) PROVE DeletionTypeOK'
  BY <1>10 DEF BeginFinalizing, DeletionTypeOK, Phases, requestVars,
               participantVars, scanVars, contentVars, useVars
<1>11. ASSUME NEW q \in Requests, CompleteFinalizing(q) PROVE DeletionTypeOK'
  <2>1. purpose[q] \in Purposes /\ sweep[q] \in 1..MaxSweep
    BY <1>11 DEF CompleteFinalizing, Started, DeletionTypeOK
  <2>2. Required(q) \in SUBSET Owners /\ Verified(q) \in SUBSET Owners
    BY DEF Required, Verified
  <2>3. audit' \in [Requests -> Audits \cup {None}]
    BY <1>11, <2>1, <2>2 DEF CompleteFinalizing, DeletionTypeOK, Audits
  <2> QED
    BY <1>11, <2>3 DEF CompleteFinalizing, DeletionTypeOK, Phases,
            participantVars, contentVars, useVars
<1>12. ASSUME UNCHANGED deletionVars PROVE DeletionTypeOK'
  BY <1>12 DEF deletionVars, DeletionTypeOK, requestVars, operationVars,
               participantVars, scanVars, contentVars, useVars
<1>13. ASSUME NEW q \in Requests, RequestStep(q) PROVE DeletionTypeOK'
  BY <1>13, <1>1, <1>2, <1>3, Zenon DEF RequestStep
<1>14. ASSUME NEW q \in Requests, OperationStep(q) PROVE DeletionTypeOK'
  BY <1>14, <1>4, <1>5, <1>9, <1>10, <1>11, Zenon DEF OperationStep
<1>15. ASSUME NEW q \in Requests, NEW p \in Owners, ParticipantStep(q, p)
       PROVE  DeletionTypeOK'
  BY <1>15, <1>7, <1>8, Zenon DEF ParticipantStep
<1> QED
  BY <1>6, <1>12, <1>13, <1>14, <1>15, ContentOrUseType, Zenon
     DEF DeletionNext, ContentOrUse

-----------------------------------------------------------------------------
(***************************************************************************)
(* Well-formed rows: ValidRows, and what it takes to start from nothing.   *)
(***************************************************************************)
Row(q) ==
    /\ q \in confirmed => purpose[q] # None
    /\ phase[q] # "none" =>
            ValidOperation(q) /\ ValidParticipants(q) /\ ValidRecords(q)
    /\ phase[q] = "none" =>
            /\ material[q] = None /\ audit[q] = None /\ hold[q] = "no"
            /\ covered[q] = {} /\ Required(q) = {} /\ q \notin complete

RowsInv ==
    /\ DeletionTypeOK
    /\ \A q \in Requests : Row(q)

LEMMA SameRow ==
    ASSUME NEW q \in Requests, Row(q),
           q \in confirmed' <=> q \in confirmed, purpose'[q] = purpose[q],
           exactText'[q] = exactText[q], phase'[q] = phase[q],
           sweep'[q] = sweep[q], hold'[q] = hold[q],
           material'[q] = material[q], audit'[q] = audit[q],
           progress'[q] = progress[q], seenSweep'[q] = seenSweep[q],
           q \in complete' <=> q \in complete, covered'[q] = covered[q]
    PROVE  Row(q)'
<1>1. Required(q)' = Required(q) /\ Verified(q)' = Verified(q)
  BY DEF Required, Verified
<1> QED
  BY <1>1 DEF Row, ValidOperation, ValidParticipants, ValidRecords

LEMMA OpenNextRow ==
    ASSUME RowsInv, NEW Q \in SUBSET Unfinished, OpenNext(Q), NEW x \in Requests
    PROVE  Row(x)'
<1>1. Row(x) /\ DeletionTypeOK
  BY DEF RowsInv
<1>2. CASE x \notin Q
  <2>1. /\ phase'[x] = phase[x] /\ hold'[x] = hold[x] /\ sweep'[x] = sweep[x]
        /\ progress'[x] = progress[x] /\ seenSweep'[x] = seenSweep[x]
        /\ x \in complete' <=> x \in complete
    BY <1>1, <1>2 DEF OpenNext, DeletionTypeOK
  <2> QED
    BY <1>1, <2>1, SameRow DEF OpenNext, requestVars
<1>3. CASE x \in Q /\ ~Advances(x)
  <2>1. /\ phase'[x] = "held" /\ hold'[x] = "generation_exhausted"
        /\ sweep'[x] = sweep[x]
        /\ x \in complete' <=> x \in complete
    BY <1>3 DEF OpenNext
  <2>2. progress'[x] = progress[x] /\ seenSweep'[x] = seenSweep[x]
    BY <1>1, <1>3 DEF OpenNext, DeletionTypeOK
  <2>3. Required(x)' = Required(x)
    BY <2>2 DEF Required
  <2> QED
    BY <1>1, <1>3, <2>1, <2>2, <2>3 DEF OpenNext, requestVars, Row, Unfinished,
       ValidOperation, ValidParticipants, ValidRecords
<1>4. CASE x \in Q /\ Advances(x)
  <2>1. /\ phase'[x] = "active" /\ hold'[x] = "no"
        /\ sweep'[x] = sweep[x] + 1
        /\ x \notin complete'
    BY <1>4 DEF OpenNext
  <2>2. Required(x)' = Required(x)
    BY <1>4 DEF OpenNext, Required, ResetReport
  <2>3. \A p \in Required(x) : seenSweep'[x][p] = sweep[x] + 1
    BY <1>4 DEF OpenNext, Required
  <2>4. sweep[x] \in Nat
    BY <1>1 DEF DeletionTypeOK
  <2>5. UNCHANGED <<requestVars, material, audit, covered>>
    BY DEF OpenNext
  <2>6. phase[x] \in {"active", "held", "finalizing"}
    BY <1>4 DEF Unfinished
  <2>7. ValidOperation(x)'
    BY <1>1, <2>1, <2>4, <2>5, <2>6 DEF Row, requestVars, ValidOperation
  <2>8. ValidParticipants(x)'
    BY <1>1, <2>1, <2>2, <2>3, <2>6 DEF Row, ValidParticipants
  <2>9. ValidRecords(x)'
    BY <1>1, <2>1, <2>5, <2>6 DEF Row, ValidRecords
  <2> QED
    BY <2>1, <2>5, <2>7, <2>8, <2>9 DEF Row, ValidOperation
<1> QED
  BY <1>2, <1>3, <1>4

(* The transactions that open a sweep do so for unfinished operations.     *)
OpensSweep ==
    \/ \E q \in Requests : NextSweep(q) \/ CollectRemainder(q)
    \/ \E Q \in SUBSET Requests : NoteArrival(Q)

LEMMA OpensUnfinished ==
    ASSUME OpensSweep
    PROVE  \E Q \in SUBSET Unfinished : OpenNext(Q)
<1>1. ASSUME NEW q \in Requests, NextSweep(q) \/ CollectRemainder(q)
      PROVE  {q} \in SUBSET Unfinished /\ OpenNext({q})
  BY <1>1 DEF NextSweep, CollectRemainder, Changeable, ReadyToFinalize, Unfinished
<1>2. ASSUME NEW Q \in SUBSET Requests, NoteArrival(Q)
      PROVE  /\ {q \in Q : ArrivalMatters(q)} \in SUBSET Unfinished
             /\ OpenNext({q \in Q : ArrivalMatters(q)})
  BY <1>2 DEF NoteArrival, ArrivalMatters, Unfinished
<1> QED
  BY <1>1, <1>2 DEF OpensSweep

LEMMA RowsInductive ==
    ASSUME RowsInv, [DeletionNext]_deletionVars
    PROVE  RowsInv'
<1>0. DeletionTypeOK /\ \A q \in Requests : Row(q)
  BY DEF RowsInv
<1>1. DeletionTypeOK'
  <2>1. Started
    BY DEF Started, RowsInv, Row, ValidOperation
  <2> QED
    BY <1>0, <2>1, DeletionTypingInductive
<1> SUFFICES ASSUME NEW x \in Requests PROVE Row(x)'
  BY <1>1 DEF RowsInv
<1>2. ASSUME NEW q \in Requests, NEW t \in Texts, NEW u \in Purposes, Stage(q, t, u)
      PROVE  Row(x)'
  <2>1. UNCHANGED <<confirmed, phase, sweep, hold, material, audit, progress,
                    seenSweep, cursor, complete, covered>>
    BY <1>2 DEF Stage, operationVars, participantVars, scanVars
  <2>2. CASE x # q
    BY <1>0, <1>2, <2>1, <2>2, SameRow DEF Stage, DeletionTypeOK
  <2>3. CASE x = q
    <3>1. phase[q] = "none"
      BY <1>0, <1>2 DEF Stage, Row, ValidOperation
    <3>2. Required(q)' = Required(q)
      BY <2>1 DEF Required
    <3> QED
      BY <1>0, <1>2, <2>1, <2>3, <3>1, <3>2 DEF Stage, Row
  <2> QED
    BY <2>2, <2>3
<1>3. ASSUME NEW q \in Requests, Confirm(q) PROVE Row(x)'
  <2>1. UNCHANGED <<purpose, exactText, phase, sweep, hold, material, audit,
                    progress, seenSweep, cursor, complete, covered>>
    BY <1>3 DEF Confirm, operationVars, participantVars, scanVars
  <2>2. Required(x)' = Required(x) /\ Verified(x)' = Verified(x)
    BY <2>1 DEF Required, Verified
  <2> QED
    BY <1>0, <1>3, <2>1, <2>2 DEF Confirm, Row, ValidOperation,
       ValidParticipants, ValidRecords
<1>4. ASSUME NEW q \in Requests, NEW c \in SUBSET Clients, Start(q, c)
      PROVE  Row(x)'
  <2>1. ScanPage(q, exactText[q], 0, {}) /\ UNCHANGED <<requestVars, hold, audit>>
    BY <1>4 DEF Start
  <2>2. CASE x # q
    <3>1. /\ phase'[x] = phase[x] /\ sweep'[x] = sweep[x]
          /\ material'[x] = material[x] /\ progress'[x] = progress[x]
          /\ seenSweep'[x] = seenSweep[x]
      BY <1>0, <1>4, <2>2 DEF Start, DeletionTypeOK
    <3>2. covered'[x] = covered[x] /\ (x \in complete' <=> x \in complete)
      BY <1>0, <2>1, <2>2 DEF ScanPage, DeletionTypeOK
    <3> QED
      BY <1>0, <2>1, <3>1, <3>2, SameRow DEF requestVars
  <2>3. CASE x = q
    <3>1. /\ phase'[q] = "active" /\ sweep'[q] = 1 /\ material'[q] = exactText[q]
          /\ exactText[q] # None /\ q \in confirmed /\ phase[q] = "none"
      BY <1>0, <1>4 DEF Start, Startable, DeletionTypeOK
    <3>2. Required(q)' = Local \cup c
      BY <1>0, <1>4 DEF Start, Required, Owners, DeletionTypeOK
    <3>3. \A p \in Local \cup c : seenSweep'[q][p] = 1
      BY <1>0, <1>4 DEF Start, Owners, DeletionTypeOK
    <3>4. Required(q)' # {}
      BY <3>2, HostTransientIsLocal
    <3> QED
      BY <1>0, <2>1, <2>3, <3>1, <3>2, <3>3, <3>4 DEF Row, requestVars,
         ValidOperation, ValidParticipants, ValidRecords
  <2> QED
    BY <2>2, <2>3
<1>5. ASSUME NEW q \in Requests, HoldOperation(q) \/ ResumeOperation(q) \/ BeginFinalizing(q)
      PROVE  Row(x)'
  <2>1. UNCHANGED <<requestVars, sweep, material, audit, participantVars, scanVars>>
    BY <1>5 DEF HoldOperation, ResumeOperation, BeginFinalizing
  <2>2. CASE x # q
    <3>1. phase'[x] = phase[x] /\ hold'[x] = hold[x]
      BY <1>0, <1>5, <2>2 DEF HoldOperation, ResumeOperation, BeginFinalizing,
         DeletionTypeOK
    <3> QED
      BY <1>0, <2>1, <3>1, SameRow DEF requestVars, participantVars, scanVars
  <2>3. CASE x = q
    <3>1. Required(q)' = Required(q) /\ Verified(q)' = Verified(q)
      BY <2>1 DEF Required, Verified, participantVars
    <3>2. \/ phase'[q] = "held" /\ hold'[q] = "unavailable"
          \/ phase'[q] = "active" /\ hold'[q] = "no"
          \/ /\ phase'[q] = "finalizing" /\ hold'[q] = "no"
             /\ Verified(q) = Required(q) /\ q \in complete
      BY <1>0, <1>5 DEF HoldOperation, ResumeOperation, BeginFinalizing,
         ReadyToFinalize, DeletionTypeOK
    <3>3. q \in Unfinished
      BY <1>5 DEF HoldOperation, ResumeOperation, BeginFinalizing,
         ReadyToFinalize, Changeable, Unfinished
    <3> QED
      BY <1>0, <2>1, <2>3, <3>1, <3>2, <3>3 DEF Row, Unfinished, requestVars, scanVars,
         participantVars, ValidOperation, ValidParticipants, ValidRecords
  <2> QED
    BY <2>2, <2>3
<1>6. CASE OpensSweep
  BY <1>6, OpensUnfinished, OpenNextRow
<1>7. ASSUME NEW q \in Requests, NEW p \in Owners, NEW s \in States \ {"pending"},
             BeginDemand(q, p) \/ RecordCompletion(q, p, s)
      PROVE  Row(x)'
  <2>1. UNCHANGED <<requestVars, operationVars, scanVars>>
    BY <1>7 DEF BeginDemand, RecordCompletion
  <2>2. CASE x # q
    <3>1. progress'[x] = progress[x] /\ seenSweep'[x] = seenSweep[x]
      BY <1>0, <1>7, <2>2 DEF BeginDemand, RecordCompletion, DeletionTypeOK
    <3> QED
      BY <1>0, <2>1, <3>1, SameRow DEF requestVars, operationVars, scanVars
  <2>3. CASE x = q
    <3>1. q \in Unfinished /\ progress[q][p] \notin {"absent", "verified"}
      BY <1>7 DEF BeginDemand, RecordCompletion
    <3>2. phase[q] # "finalizing"
      BY <1>0, <3>1 DEF Row, Unfinished, ValidParticipants, Required, Verified
    <3>3. Required(q)' = Required(q)
      BY <1>0, <1>7, <3>1 DEF BeginDemand, RecordCompletion, Required,
         DeletionTypeOK, States
    <3>4. \A o \in Required(q) : seenSweep'[q][o] = sweep[q]
      <4>1. \A o \in Required(q) : seenSweep[q][o] = sweep[q]
        BY <1>0, <3>1 DEF Row, Unfinished, ValidParticipants
      <4>2. \A o \in Owners : seenSweep'[q][o] \in {seenSweep[q][o], sweep[q]}
        BY <1>0, <1>7 DEF BeginDemand, RecordCompletion, DeletionTypeOK
      <4> QED
        BY <4>1, <4>2 DEF Required
    <3> QED
      BY <1>0, <2>1, <2>3, <3>1, <3>2, <3>3, <3>4 DEF Row, Unfinished, requestVars,
         operationVars, scanVars, ValidOperation, ValidParticipants, ValidRecords
  <2> QED
    BY <2>2, <2>3
<1>8. ASSUME NEW q \in Requests, Reconcile(q) PROVE Row(x)'
  <2>1. /\ UNCHANGED <<requestVars, operationVars, participantVars>>
        /\ ScanPage(q, material[q], cursor[q], covered[q])
        /\ phase[q] \in {"active", "held"}
    BY <1>8 DEF Reconcile, Unreconciled
  <2>2. Required(x)' = Required(x) /\ Verified(x)' = Verified(x)
    BY <2>1 DEF Required, Verified, participantVars
  <2>3. x # q => covered'[x] = covered[x] /\ (x \in complete' <=> x \in complete)
    BY <1>0, <2>1 DEF ScanPage, DeletionTypeOK
  <2> QED
    BY <1>0, <2>1, <2>2, <2>3 DEF Row, requestVars, operationVars,
       participantVars, ValidOperation, ValidParticipants, ValidRecords
<1>9. ASSUME NEW q \in Requests, CompleteFinalizing(q) PROVE Row(x)'
  <2>1. UNCHANGED <<purpose, confirmed, sweep, participantVars>>
    BY <1>9 DEF CompleteFinalizing
  <2>2. CASE x # q
    BY <1>0, <1>9, <2>1, <2>2, SameRow DEF CompleteFinalizing, DeletionTypeOK,
       participantVars
  <2>3. CASE x = q
    <3>1. Required(q)' = Required(q) /\ Verified(q)' = Verified(q)
      BY <2>1 DEF Required, Verified, participantVars
    <3>2. /\ phase'[q] = "completed" /\ hold'[q] = "no" /\ material'[q] = None
          /\ exactText'[q] = None /\ covered'[q] = {} /\ q \notin complete'
          /\ audit'[q] = [purpose |-> purpose[q], sweeps |-> sweep[q],
                          required |-> Required(q), verified |-> Verified(q)]
      BY <1>0, <1>9 DEF CompleteFinalizing, DeletionTypeOK
    <3>3. phase[q] = "finalizing"
      BY <1>9 DEF CompleteFinalizing
    <3>4. audit'[q] # None
      <4>1. Verified(q) = Required(q) /\ purpose[q] # None /\ sweep[q] > 0
        BY <1>0, <3>3 DEF Row, ValidOperation, ValidParticipants
      <4>2. audit'[q] \in Audits
        BY <1>0, <3>2, <4>1 DEF Audits, DeletionTypeOK, Required
      <4> QED
        BY <4>2, NoneIsNoAudit
    <3> QED
      BY <1>0, <2>1, <2>3, <3>1, <3>2, <3>3, <3>4 DEF Row, participantVars,
         ValidOperation, ValidParticipants, ValidRecords
  <2> QED
    BY <2>2, <2>3
<1>10. CASE ContentOrUse
  <2>1. UNCHANGED <<requestVars, operationVars, participantVars, scanVars>>
    BY <1>10 DEF ContentOrUse, ContentStep, UseStep, StoreRow, StoreResult, ChangeSurface,
       EraseRow, BeginFormation, CheckFormation, SettleFormation, BeginClaim,
       HoldClaim, CommitMemory
  <2> QED
    BY <1>0, <2>1, SameRow DEF requestVars, operationVars, participantVars, scanVars
<1>11. CASE UNCHANGED deletionVars
  BY <1>0, <1>11, SameRow DEF deletionVars, requestVars, operationVars,
     participantVars, scanVars
<1>12. ASSUME NEW q \in Requests, RequestStep(q) PROVE Row(x)'
  BY <1>12, <1>2, <1>3, <1>4, Zenon DEF RequestStep
<1>13. ASSUME NEW q \in Requests, OperationStep(q) PROVE Row(x)'
  BY <1>13, <1>5, <1>6, <1>8, <1>9, Zenon DEF OperationStep, OpensSweep
<1>14. ASSUME NEW q \in Requests, NEW p \in Owners, ParticipantStep(q, p)
       PROVE  Row(x)'
  <2>1. CASE BeginDemand(q, p)
    BY <2>1, <1>7 DEF States
  <2>2. ASSUME NEW s \in States \ {"pending"}, RecordCompletion(q, p, s)
        PROVE  Row(x)'
    BY <2>2, <1>7
  <2> QED
    BY <1>14, <2>1, <2>2, Zenon DEF ParticipantStep
<1> QED
  BY <1>6, <1>10, <1>11, <1>12, <1>13, <1>14, Zenon
     DEF DeletionNext, ContentOrUse, OpensSweep

LEMMA RowsInvariant == DeletionSpec => []RowsInv
<1>1. DeletionInit => RowsInv
  <2> SUFFICES ASSUME DeletionInit PROVE RowsInv
    OBVIOUS
  <2>1. DeletionTypeOK
    BY MaxSweepPositive DEF DeletionInit, DeletionTypeOK
  <2>2. \A q \in Requests : Row(q)
    BY DEF DeletionInit, Row, Required
  <2> QED
    BY <2>1, <2>2 DEF RowsInv
<1> QED
  BY <1>1, RowsInductive, PTL DEF DeletionSpec

(* The rows never leave their domains, whatever calls arrive in whatever   *)
(* order (crates/ene-store/src/preservation.rs).                           *)
THEOREM DeletionTyping == DeletionSpec => []DeletionTypeOK
<1>1. RowsInv => DeletionTypeOK
  BY DEF RowsInv
<1> QED
  BY <1>1, RowsInvariant, PTL

(* ene-store never writes rows that its own `validate` calls corrupt; an   *)
(* operation is completed only with every required participant verified in *)
(* its last sweep and its reconciliation done.                             *)
THEOREM WellFormedRows == DeletionSpec => []ValidRows
<1>1. RowsInv => ValidRows
  BY DEF RowsInv, Row, ValidRows
<1> QED
  BY <1>1, RowsInvariant, PTL

-----------------------------------------------------------------------------
(***************************************************************************)
(* What a step does to the unfinished operations, and to the finished.     *)
(***************************************************************************)
(* No operation becomes unfinished but by Start, none changes its text.    *)
LEMMA UnfinishedAfter ==
    ASSUME RowsInv, [DeletionNext]_deletionVars,
           \A q \in Requests, c \in SUBSET Clients : ~Start(q, c)
    PROVE  /\ Unfinished' \subseteq Unfinished
           /\ \A q \in Unfinished' : material'[q] = material[q]
<1>0. DeletionTypeOK
  BY DEF RowsInv
<1>1. ASSUME NEW q \in Requests,
             HoldOperation(q) \/ ResumeOperation(q) \/ BeginFinalizing(q)
      PROVE  Unfinished' \subseteq Unfinished /\ UNCHANGED material
  BY <1>0, <1>1 DEF HoldOperation, ResumeOperation, BeginFinalizing, Changeable,
     ReadyToFinalize, Unfinished, DeletionTypeOK
<1>2. ASSUME NEW q \in Requests, CompleteFinalizing(q)
      PROVE  /\ Unfinished' = Unfinished \ {q}
             /\ \A x \in Requests \ {q} : material'[x] = material[x]
  BY <1>0, <1>2 DEF CompleteFinalizing, Unfinished, DeletionTypeOK
<1>3. ASSUME OpensSweep PROVE Unfinished' \subseteq Unfinished /\ UNCHANGED material
  BY <1>0, <1>3, OpensUnfinished DEF OpenNext, Unfinished
<1>4. ASSUME UNCHANGED <<phase, material>> PROVE Unfinished' = Unfinished
  BY <1>4 DEF Unfinished
<1>5. ASSUME NEW q \in Requests, RequestStep(q)
      PROVE  UNCHANGED <<phase, material>>
  BY <1>5, Zenon DEF RequestStep, Stage, Confirm, operationVars
<1>6. ASSUME NEW q \in Requests, NEW p \in Owners, ParticipantStep(q, p)
      PROVE  UNCHANGED <<phase, material>>
  BY <1>6, Zenon DEF ParticipantStep, BeginDemand, RecordCompletion, operationVars
<1>7. ASSUME NEW q \in Requests, Reconcile(q) PROVE UNCHANGED <<phase, material>>
  BY <1>7, Zenon DEF Reconcile, operationVars
<1>8. ASSUME ContentOrUse PROVE UNCHANGED <<phase, material>>
  BY <1>8, Zenon DEF ContentOrUse, ContentStep, UseStep, StoreRow, StoreResult, ChangeSurface,
     EraseRow, BeginFormation, CheckFormation, SettleFormation, BeginClaim,
     HoldClaim, CommitMemory, operationVars
<1>9. ASSUME UNCHANGED deletionVars PROVE UNCHANGED <<phase, material>>
  BY <1>9, Zenon DEF deletionVars, operationVars
<1>10. ASSUME NEW q \in Requests, OperationStep(q)
       PROVE  /\ Unfinished' \subseteq Unfinished
              /\ \A x \in Unfinished' : material'[x] = material[x]
  <2>1. CASE HoldOperation(q) \/ ResumeOperation(q) \/ BeginFinalizing(q)
    BY <2>1, <1>1
  <2>2. CASE CompleteFinalizing(q)
    BY <2>2, <1>2 DEF Unfinished
  <2>3. CASE NextSweep(q) \/ CollectRemainder(q)
    BY <2>3, <1>3 DEF OpensSweep
  <2>4. CASE Reconcile(q)
    BY <2>4, <1>4, <1>7
  <2> QED
    BY <1>10, <2>1, <2>2, <2>3, <2>4, Zenon DEF OperationStep
<1>11. CASE \E q \in Requests : OperationStep(q)
  BY <1>10, <1>11
<1>12. CASE \E Q \in SUBSET Requests : NoteArrival(Q)
  BY <1>3, <1>12 DEF OpensSweep
<1>13. CASE UNCHANGED <<phase, material>>
  BY <1>4, <1>13
<1> QED
  BY <1>5, <1>6, <1>8, <1>9, <1>11, <1>12, <1>13, Zenon DEF DeletionNext, ContentOrUse

(* Two unfinished operations are never about the same text: what           *)
(* admit_deletion asks is enough, however the requests were staged.        *)
THEOREM OneOperation == DeletionSpec => []OneOperationPerText
<1>1. DeletionInit => OneOperationPerText
  BY DEF DeletionInit, OneOperationPerText, Unfinished
<1>2. ASSUME RowsInv, OneOperationPerText, [DeletionNext]_deletionVars
      PROVE  OneOperationPerText'
  <2>1. ASSUME NEW q \in Requests, NEW c \in SUBSET Clients, Start(q, c)
        PROVE  OneOperationPerText'
    <3>1. /\ ~\E x \in Unfinished : material[x] = exactText[q]
          /\ Unfinished' = Unfinished \cup {q}
          /\ material' = [material EXCEPT ![q] = exactText[q]]
      BY <1>2, <2>1 DEF Start, Startable, TextCovered, Unfinished, RowsInv,
         DeletionTypeOK
    <3>2. material'[q] = exactText[q]
          /\ \A x \in Requests \ {q} : material'[x] = material[x]
      BY <1>2, <3>1 DEF RowsInv, DeletionTypeOK
    <3> QED
      BY <1>2, <3>1, <3>2 DEF OneOperationPerText, Unfinished
  <2>2. CASE \A q \in Requests, c \in SUBSET Clients : ~Start(q, c)
    BY <1>2, <2>2, UnfinishedAfter DEF OneOperationPerText
  <2> QED
    BY <2>1, <2>2
<1> QED
  BY <1>1, <1>2, RowsInvariant, PTL DEF DeletionSpec

(* A completed deletion stays completed: no arrival, demand or report that *)
(* comes late reopens it or touches its audit.                             *)
THEOREM CompletionFinal == DeletionSpec => CompletedIsFinal
<1> DEFINE Kept(x) == /\ phase'[x] = "completed" /\ sweep'[x] = sweep[x]
                      /\ progress'[x] = progress[x] /\ audit'[x] = audit[x]
<1>1. ASSUME RowsInv, [DeletionNext]_deletionVars,
             NEW x \in Requests, phase[x] = "completed"
      PROVE  Kept(x)
  <2>0. DeletionTypeOK /\ x \notin Unfinished
    BY <1>1 DEF RowsInv, Unfinished
  <2>1. ASSUME NEW q \in Requests, RequestStep(q) PROVE Kept(x)
    BY <1>1, <2>0, <2>1 DEF RequestStep, Stage, Confirm, Start, Startable,
       DeletionTypeOK, operationVars, participantVars
  <2>2. CASE OpensSweep
    <3>1. PICK Q \in SUBSET Unfinished : OpenNext(Q)
      BY <2>2, OpensUnfinished
    <3> QED
      BY <1>1, <2>0, <3>1 DEF OpenNext, DeletionTypeOK
  <2>3. ASSUME NEW q \in Requests, OperationStep(q), ~OpensSweep PROVE Kept(x)
    <3>1. ~NextSweep(q) /\ ~CollectRemainder(q)
      BY <2>3 DEF OpensSweep
    <3> QED
      BY <1>1, <2>0, <2>3, <3>1 DEF OperationStep, HoldOperation, ResumeOperation,
         Reconcile, BeginFinalizing, CompleteFinalizing, Changeable,
         ReadyToFinalize, DeletionTypeOK, operationVars, participantVars
  <2>4. ASSUME NEW q \in Requests, NEW p \in Owners, ParticipantStep(q, p)
        PROVE  Kept(x)
    BY <1>1, <2>0, <2>4 DEF ParticipantStep, BeginDemand, RecordCompletion,
       DeletionTypeOK, operationVars
  <2>5. CASE ContentOrUse
    <3>1. UNCHANGED <<operationVars, participantVars>>
      BY <2>5, Zenon DEF ContentOrUse, ContentStep, UseStep, StoreRow,
         StoreResult, ChangeSurface, EraseRow, BeginFormation, CheckFormation,
         SettleFormation, BeginClaim, HoldClaim, CommitMemory
    <3> QED
      BY <1>1, <3>1 DEF operationVars, participantVars
  <2>6. CASE UNCHANGED deletionVars
    BY <1>1, <2>6 DEF deletionVars, operationVars, participantVars
  <2> QED
    BY <1>1, <2>1, <2>2, <2>3, <2>4, <2>5, <2>6, Zenon
       DEF DeletionNext, OpensSweep, ContentOrUse
<1>2. RowsInv /\ [DeletionNext]_deletionVars =>
        [\A q \in Requests : phase[q] = "completed" =>
            /\ phase'[q] = "completed"
            /\ sweep'[q] = sweep[q]
            /\ progress'[q] = progress[q]
            /\ audit'[q] = audit[q]]_deletionVars
  BY <1>1
<1> QED
  BY <1>2, RowsInvariant, PTL DEF DeletionSpec, CompletedIsFinal

-----------------------------------------------------------------------------
(***************************************************************************)
(* Covered sources: what a scan adds, and that nothing else adds any.      *)
(***************************************************************************)
(* The two transactions that read a page, and what was known before it.    *)
Scans(q, known) ==
    \/ /\ phase[q] = "none" /\ known = {} /\ ScanPage(q, exactText[q], 0, {})
       /\ material' = [material EXCEPT ![q] = exactText[q]]
       /\ phase' = [phase EXCEPT ![q] = "active"]
       /\ ~TextCovered(exactText[q])
    \/ /\ q \in Unfinished /\ known = covered[q]
       /\ ScanPage(q, material[q], cursor[q], covered[q])
       /\ UNCHANGED <<phase, material>>

ScanFrame == UNCHANGED <<contentVars, formation, sources, claims, dataUse>>

LEMMA StepOrScan ==
    ASSUME RowsInv, [DeletionNext]_deletionVars
    PROVE  \/ \E q \in Requests, known \in SUBSET Rows : Scans(q, known) /\ ScanFrame
           \/ /\ Unfinished' \subseteq Unfinished
              /\ \A q \in Unfinished' : /\ material'[q] = material[q]
                                        /\ covered'[q] = covered[q]
              /\ \/ OpensSweep
                 \/ \E q \in Requests : CompleteFinalizing(q)
                 \/ UNCHANGED <<cursor, complete, covered>>
              /\ ContentOrUse \/ UNCHANGED <<contentVars, useVars>>
<1>0. DeletionTypeOK
  BY DEF RowsInv
<1>1. ASSUME NEW q \in Requests, NEW c \in SUBSET Clients, Start(q, c)
      PROVE  Scans(q, {}) /\ ScanFrame
  BY <1>1, Zenon DEF Start, Startable, Scans, ScanFrame
<1>2. ASSUME NEW q \in Requests, Reconcile(q)
      PROVE  Scans(q, covered[q]) /\ ScanFrame /\ covered[q] \in SUBSET Rows
  BY <1>0, <1>2 DEF Reconcile, Unreconciled, Unfinished, Scans, ScanFrame,
     DeletionTypeOK, operationVars
<1>3. CASE \E q \in Requests : Reconcile(q) \/ \E c \in SUBSET Clients : Start(q, c)
  BY <1>1, <1>2, <1>3
<1>4. CASE ~\E q \in Requests : Reconcile(q) \/ \E c \in SUBSET Clients : Start(q, c)
  <2>1. /\ Unfinished' \subseteq Unfinished
        /\ \A q \in Unfinished' : material'[q] = material[q]
    BY <1>4, UnfinishedAfter
  <2>2. CASE OpensSweep
    <3>1. UNCHANGED <<covered, contentVars, useVars>>
      BY <2>2, OpensUnfinished DEF OpenNext
    <3> QED
      BY <2>1, <2>2, <3>1
  <2>3. ASSUME NEW q \in Requests, CompleteFinalizing(q)
        PROVE  /\ \A x \in Unfinished' : covered'[x] = covered[x]
               /\ UNCHANGED <<contentVars, useVars>>
    BY <1>0, <2>3 DEF CompleteFinalizing, Unfinished, DeletionTypeOK
  <2>4. CASE \E q \in Requests : CompleteFinalizing(q)
    BY <2>1, <2>3, <2>4
  <2>5. CASE ~OpensSweep /\ ~\E q \in Requests : CompleteFinalizing(q)
    <3>1. ASSUME NEW q \in Requests, RequestStep(q) \/ OperationStep(q)
          PROVE  UNCHANGED <<cursor, complete, covered, contentVars, useVars>>
      BY <3>1, <1>4, <2>5, Zenon DEF RequestStep, OperationStep, OpensSweep, Stage,
         Confirm, HoldOperation, ResumeOperation, BeginFinalizing, scanVars
    <3>2. ASSUME NEW q \in Requests, NEW p \in Owners, ParticipantStep(q, p)
          PROVE  UNCHANGED <<cursor, complete, covered, contentVars, useVars>>
      BY <3>2, Zenon DEF ParticipantStep, BeginDemand, RecordCompletion, scanVars
    <3>3. ASSUME ContentOrUse PROVE UNCHANGED <<cursor, complete, covered>>
      BY <3>3, Zenon DEF ContentOrUse, ContentStep, UseStep, StoreRow,
         StoreResult, ChangeSurface, EraseRow, BeginFormation, CheckFormation, SettleFormation,
         BeginClaim, HoldClaim, CommitMemory, scanVars
    <3>4. ASSUME UNCHANGED deletionVars
          PROVE  UNCHANGED <<cursor, complete, covered, contentVars, useVars>>
      BY <3>4, Zenon DEF deletionVars, scanVars
    <3>5. /\ UNCHANGED <<cursor, complete, covered>>
          /\ ContentOrUse \/ UNCHANGED <<contentVars, useVars>>
      BY <2>5, <3>1, <3>2, <3>3, <3>4, Zenon DEF DeletionNext, ContentOrUse, OpensSweep
    <3> QED
      BY <2>1, <3>5
  <2> QED
    BY <2>2, <2>4, <2>5
<1> QED
  BY <1>3, <1>4

(* A use of a source an unfinished operation knows to be covered is held   *)
(* for it: publishing, reconciling and claiming close every gap.           *)
THEOREM UsesHeld == DeletionSpec => []CoveredUsesHeld
<1> DEFINE HeldFor(q, f) ==
      /\ formation[f] = "open" /\ sources[f] \cap covered[q] # {} => q \in held[f]
      /\ f \in claims /\ dataUse[f] \cap covered[q] # {} => q \in claimHeld[f]
<1>1. DeletionInit => CoveredUsesHeld
  BY DEF DeletionInit, CoveredUsesHeld
<1>2. ASSUME RowsInv, CoveredUsesHeld, [DeletionNext]_deletionVars,
             NEW q \in Unfinished', NEW f \in Uses
      PROVE  HeldFor(q, f)'
  <2>0. DeletionTypeOK
    BY <1>2 DEF RowsInv
  <2>1. ASSUME NEW x \in Requests, NEW known \in SUBSET Rows,
               Scans(x, known), ScanFrame
        PROVE  HeldFor(q, f)'
    <3>1. PICK t, n : ScanPage(x, t, n, known)
      BY <2>1 DEF Scans
    <3> DEFINE page == Page(t, n)
    <3>2. covered'[x] = known \cup page
          /\ \A y \in Requests \ {x} : covered'[y] = covered[y]
      BY <2>0, <3>1 DEF ScanPage, DeletionTypeOK
    <3>3. /\ held[f] \subseteq held'[f] /\ claimHeld[f] \subseteq claimHeld'[f]
          /\ formation[f] = "open" /\ sources[f] \cap page # {} => x \in held'[f]
          /\ f \in claims /\ dataUse[f] \cap page # {} => x \in claimHeld'[f]
      BY <2>0, <3>1 DEF ScanPage, Associate, DeletionTypeOK
    <3>4. UNCHANGED <<formation, sources, claims, dataUse>>
      BY <2>1 DEF ScanFrame
    <3>5. CASE q # x
      <4>1. q \in Unfinished
        BY <2>0, <2>1, <3>5 DEF Scans, Unfinished, DeletionTypeOK
      <4>2. covered'[q] = covered[q]
        BY <3>2, <3>5 DEF Unfinished
      <4>3. HeldFor(q, f)
        BY <1>2, <4>1 DEF CoveredUsesHeld
      <4> QED
        BY <3>3, <3>4, <4>2, <4>3
    <3>6. CASE q = x
      <4>1. known = {} \/ (known = covered[q] /\ q \in Unfinished)
        BY <2>1, <3>6, Zenon DEF Scans
      <4>2. known # {} => HeldFor(q, f) /\ known = covered[q]
        BY <1>2, <4>1 DEF CoveredUsesHeld
      <4>3. covered'[q] = known \cup page
        BY <3>2, <3>6
      <4> QED
        BY <3>3, <3>4, <3>6, <4>2, <4>3
    <3> QED
      BY <3>5, <3>6
  <2>2. ASSUME q \in Unfinished, covered'[q] = covered[q],
               ContentOrUse \/ UNCHANGED <<contentVars, useVars>>
        PROVE  HeldFor(q, f)'
    <3>1. HeldFor(q, f)
      BY <1>2, <2>2 DEF CoveredUsesHeld
    <3>2. CASE UNCHANGED useVars
      BY <2>2, <3>1, <3>2 DEF useVars
    <3>3. CASE ContentStep
      BY <2>2, <3>1, <3>3 DEF ContentStep, StoreRow, StoreResult, ChangeSurface, EraseRow, useVars
    <3>4. ASSUME NEW g \in Uses, NEW S \in SUBSET Rows, BeginFormation(g, S)
          PROVE  HeldFor(q, f)'
      BY <2>0, <2>2, <3>1, <3>4 DEF BeginFormation, Holders, DeletionTypeOK
    <3>5. ASSUME NEW g \in Uses, CheckFormation(g) \/ SettleFormation(g)
          PROVE  HeldFor(q, f)'
      BY <2>0, <2>2, <3>1, <3>5 DEF CheckFormation, SettleFormation, DeletionTypeOK
    <3>6. ASSUME NEW g \in Uses, NEW S \in SUBSET Rows, BeginClaim(g, S)
          PROVE  HeldFor(q, f)'
      BY <2>0, <2>2, <3>1, <3>6 DEF BeginClaim, MayClaim, SourceCovered,
         DeletionTypeOK
    <3>7. ASSUME NEW g \in Uses, HoldClaim(g) PROVE HeldFor(q, f)'
      BY <2>0, <2>2, <3>1, <3>7 DEF HoldClaim, DeletionTypeOK
    <3>8. ASSUME NEW g \in Uses, NEW ends, NEW said, CommitMemory(g, ends, said)
          PROVE  HeldFor(q, f)'
      BY <2>2, <3>1, <3>8 DEF CommitMemory, useVars
    <3> QED
      BY <2>2, <3>2, <3>3, <3>4, <3>5, <3>6, <3>7, <3>8, Zenon
         DEF ContentOrUse, UseStep
  <2> QED
    BY <1>2, <2>1, <2>2, StepOrScan
<1>3. ASSUME RowsInv, CoveredUsesHeld, [DeletionNext]_deletionVars
      PROVE  CoveredUsesHeld'
  BY <1>2, <1>3 DEF CoveredUsesHeld
<1> QED
  BY <1>1, <1>3, RowsInvariant, PTL DEF DeletionSpec

(* No transaction stores a covered text.                                   *)
LEMMA NoCoveredTextStored ==
    ASSUME DeletionTypeOK, NEW m \in Rows,
           ContentOrUse \/ UNCHANGED <<contentVars, useVars>>
    PROVE  \/ body'[m] = body[m]
           \/ body'[m] \in {"gone", "clear"}
           \/ ~TextCovered(body'[m])
<1> DEFINE Goal == \/ body'[m] = body[m]
                   \/ body'[m] \in {"gone", "clear"}
                   \/ ~TextCovered(body'[m])
<1>1. ASSUME UNCHANGED contentVars PROVE Goal
  BY <1>1 DEF contentVars
<1>2. ASSUME NEW k \in Rows, NEW t, body' = [body EXCEPT ![k] = t],
             t \in {"gone", "clear"} \/ ~TextCovered(t)
      PROVE  Goal
  <2>1. body'[m] = body[m] \/ body'[m] = t
    BY <1>2 DEF DeletionTypeOK
  <2> QED
    BY <1>2, <2>1
<1>3. CASE ContentStep
  <2>1. ASSUME NEW k \in Rows, NEW t \in Bodies, StoreRow(k, t) PROVE Goal
    BY <1>2, <2>1, Zenon DEF StoreRow
  <2>2. ASSUME NEW k \in Rows, NEW t \in Bodies, NEW h \in BOOLEAN, StoreResult(k, t, h)
        PROVE  Goal
    <3>1. CASE h \/ TextCovered(t)
      BY <1>2, <2>2, <3>1 DEF StoreResult
    <3>2. CASE ~(h \/ TextCovered(t))
      BY <1>2, <2>2, <3>2 DEF StoreResult
    <3> QED
      BY <3>1, <3>2
  <2>3. ASSUME NEW t \in Texts, ChangeSurface(t) PROVE Goal
    BY <2>3 DEF ChangeSurface
  <2>4. ASSUME NEW q \in Requests, NEW k \in Rows, NEW left \in {"gone", "clear"},
               EraseRow(q, k, left)
        PROVE  Goal
    BY <1>2, <2>4, Zenon DEF EraseRow
  <2> QED
    BY <1>3, <2>1, <2>2, <2>3, <2>4, Zenon DEF ContentStep
<1>4. ASSUME NEW f \in Uses, UseStep(f) PROVE Goal
  <2>1. ASSUME NEW ends, NEW said, CommitMemory(f, ends, said) PROVE Goal
    BY <2>1 DEF CommitMemory
  <2>2. ASSUME ~UNCHANGED contentVars
        PROVE  \E ends, said : CommitMemory(f, ends, said)
    BY <1>4, <2>2, Zenon DEF UseStep, BeginFormation, CheckFormation,
       SettleFormation, BeginClaim, HoldClaim
  <2> QED
    BY <1>1, <2>1, <2>2
<1> QED
  BY <1>1, <1>3, <1>4, Zenon DEF ContentOrUse

(* The rows up to the cursor that carry the text are covered sources, and  *)
(* all rows that carry it once the reconciliation is complete.             *)
ScannedCovered ==
    \A q \in Unfinished, m \in Rows :
        Carries(m, q) /\ (m <= cursor[q] \/ q \in complete) => m \in covered[q]

LEMMA ScannedCoveredInductive ==
    ASSUME RowsInv, ScannedCovered, [DeletionNext]_deletionVars
    PROVE  ScannedCovered'
<1>0. DeletionTypeOK
  BY DEF RowsInv
<1> SUFFICES ASSUME NEW q \in Unfinished', NEW m \in Rows, Carries(m, q)',
                    m <= cursor'[q] \/ q \in complete'
             PROVE  m \in covered'[q]
  BY DEF ScannedCovered
<1>1. ASSUME NEW x \in Requests, NEW known \in SUBSET Rows, Scans(x, known), ScanFrame
      PROVE  m \in covered'[q]
  <2>1. UNCHANGED body
    BY <1>1 DEF ScanFrame, contentVars
  <2>2. CASE q # x
    <3>1. /\ q \in Unfinished /\ material'[q] = material[q]
          /\ cursor'[q] = cursor[q] /\ covered'[q] = covered[q]
          /\ q \in complete' <=> q \in complete
      BY <1>0, <1>1, <2>2 DEF Scans, ScanPage, Unfinished, DeletionTypeOK
    <3> QED
      BY <2>1, <3>1 DEF ScannedCovered, Carries
  <2>3. CASE q = x
    <3>1. PICK n \in Rows \cup {0} :
            /\ ScanPage(q, material'[q], n, known)
            /\ n # 0 => known = covered[q] /\ n = cursor[q]
                        /\ q \in Unfinished /\ material'[q] = material[q]
      <4>1. CASE /\ ScanPage(q, exactText[q], 0, {}) /\ known = {}
                 /\ material' = [material EXCEPT ![q] = exactText[q]]
        <5>1. material'[q] = exactText[q]
          BY <1>0, <2>3, <4>1 DEF DeletionTypeOK
        <5> QED
          BY <4>1, <5>1
      <4>2. CASE /\ q \in Unfinished /\ known = covered[q] /\ UNCHANGED material
                 /\ ScanPage(q, material[q], cursor[q], covered[q])
        <5>1. cursor[q] \in Rows \cup {0}
          BY <1>0, <4>2 DEF Unfinished, DeletionTypeOK
        <5> QED
          BY <4>2, <5>1
      <4> QED
        BY <1>1, <2>3, <4>1, <4>2, Zenon DEF Scans
    <3> DEFINE page == Page(material'[q], n)
    <3>2. /\ covered'[q] = known \cup page /\ cursor'[q] = LastOf(page, n)
          /\ q \in complete' => Cardinality(page) < PageSize
      <4>1. /\ covered' = [covered EXCEPT ![q] = known \cup page]
            /\ cursor' = [cursor EXCEPT ![q] = LastOf(page, n)]
            /\ complete' = IF Cardinality(page) < PageSize
                           THEN complete \cup {q} ELSE complete \ {q}
        BY <3>1, Zenon DEF ScanPage
      <4> HIDE DEF page
      <4> QED
        BY <1>0, <4>1 DEF DeletionTypeOK, Unfinished
    <3>3. body[m] = material'[q]
      BY <2>1 DEF Carries
    <3>4. CASE m > n
      BY <3>2, <3>3, <3>4, PageSkipsNoRow
    <3>5. CASE m <= n
      BY <3>1, <3>2, <3>3, <3>5, RowsAreOrdered DEF ScannedCovered, Carries
    <3> QED
      BY <3>4, <3>5, RowsAreOrdered
  <2> QED
    BY <2>2, <2>3
<1>2. ASSUME q \in Unfinished, material'[q] = material[q], covered'[q] = covered[q],
             OpensSweep \/ (\E x \in Requests : CompleteFinalizing(x))
                        \/ UNCHANGED <<cursor, complete, covered>>,
             ContentOrUse \/ UNCHANGED <<contentVars, useVars>>
      PROVE  m \in covered'[q]
  <2>1. body[m] = material[q]
    <3>0. material[q] \in Texts
      <4>1. q \in Requests /\ phase[q] \notin {"none", "completed"}
        BY <1>2 DEF Unfinished
      <4>2. material[q] # None
        BY <4>1 DEF RowsInv, Row, ValidOperation
      <4> QED
        BY <1>0, <4>1, <4>2 DEF DeletionTypeOK
    <3>1. body'[m] = material[q]
      BY <1>2 DEF Carries
    <3>2. TextCovered(material[q])
      BY <1>2 DEF TextCovered
    <3>3. \/ body'[m] = body[m]
          \/ body'[m] \in {"gone", "clear"}
          \/ ~TextCovered(body'[m])
      BY <1>2, NoCoveredTextStored, <1>0
    <3> QED
      BY <3>0, <3>1, <3>2, <3>3, TextsAreNoMarks
  <2>2. m <= cursor[q] \/ q \in complete
    <3>1. CASE OpensSweep
      <4>1. PICK Q \in SUBSET Unfinished : OpenNext(Q)
        BY <3>1, OpensUnfinished
      <4>2. ~(m <= 0)
        BY RowsAreOrdered
      <4> QED
        BY <1>0, <4>1, <4>2 DEF OpenNext, Unfinished, DeletionTypeOK
    <3>2. ASSUME NEW x \in Requests, CompleteFinalizing(x)
          PROVE  m <= cursor[q] \/ q \in complete
      BY <1>0, <3>2 DEF CompleteFinalizing, Unfinished, DeletionTypeOK
    <3>3. CASE UNCHANGED <<cursor, complete, covered>>
      BY <3>3
    <3> QED
      BY <1>2, <3>1, <3>2, <3>3
  <2> QED
    BY <1>2, <2>1, <2>2 DEF ScannedCovered, Carries
<1> QED
  BY <1>1, <1>2, StepOrScan

(* When the reconciliation of an unfinished operation is complete, every   *)
(* row that carries its text is covered: a page skips none, and none is    *)
(* stored behind the cursor.                                               *)
THEOREM RowsCovered == DeletionSpec => []ReconciledRowsCovered
<1>1. DeletionInit => ScannedCovered
  BY DEF DeletionInit, ScannedCovered, Unfinished
<1>2. ScannedCovered => ReconciledRowsCovered
  BY DEF ScannedCovered, ReconciledRowsCovered
<1> QED
  BY <1>1, <1>2, ScannedCoveredInductive, RowsInvariant, PTL DEF DeletionSpec

=============================================================================
