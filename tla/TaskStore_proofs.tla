-------------------------- MODULE TaskStore_proofs --------------------------
(***************************************************************************)
(* Proofs about TaskStore: typing, the inductive invariant behind          *)
(* AdoptionConsistent, CompletionConfirmed and StampExact, the outbox kind *)
(* by kind, and the refinement of TaskLifecycle step by step.              *)
(***************************************************************************)
EXTENDS TaskStore, TLAPS

(* Typing is inductive: every transaction keeps each column in its domain.  *)
LEMMA TypingInductive ==
    ASSUME StoreTypeOK, [StoreNext]_storeVars PROVE StoreTypeOK'
<1>1. ASSUME NEW t \in Tasks, CreateTask(t)
      PROVE  StoreTypeOK'
  BY <1>1, NoneAssumption, RevisionAssumption
     DEF CreateTask, StoreTypeOK, Facts, RevisionFact, Revisions, Open
<1>2. ASSUME NEW t \in Tasks, NEW e \in Revisions, ForwardSteering(t, e)
      PROVE  StoreTypeOK'
  BY <1>2, NoneAssumption, RevisionAssumption
     DEF ForwardSteering, StoreTypeOK, Facts, RevisionFact, Revisions
<1>3. ASSUME NEW t \in Tasks, CancelTask(t)
      PROVE  StoreTypeOK'
  BY <1>3, NoneAssumption, RevisionAssumption
     DEF CancelTask, StoreTypeOK, Facts, TerminalFact, Terminal
<1>4. ASSUME NEW t \in Tasks, NEW e \in Revisions, NEW k \in Delegations \cup {None}, FailTask(t, e, k)
      PROVE  StoreTypeOK'
  BY <1>4, NoneAssumption, RevisionAssumption
     DEF FailTask, StoreTypeOK, Facts, TerminalFact, Terminal
<1>5. ASSUME NEW t \in Tasks, NEW e \in Revisions, NEW d \in Delegations, CreateDelegation(d, t, e)
      PROVE  StoreTypeOK'
  BY <1>5, NoneAssumption, RevisionAssumption
     DEF CreateDelegation, StoreTypeOK, Facts, DelegationFact, Revisions, Open
<1>6. ASSUME NEW t \in Tasks, NEW e \in Revisions, NEW d \in Delegations, NEW f \in BOOLEAN, CommitResume(t, e, d, f)
      PROVE  StoreTypeOK'
  BY <1>6, NoneAssumption, RevisionAssumption
     DEF CommitResume, StoreTypeOK, Resumable, Facts, DelegationFact, RevisionFact, Revisions, Open
<1>7. ASSUME NEW d \in Delegations, StartInference(d)
      PROVE  StoreTypeOK'
  BY <1>7, NoneAssumption, RevisionAssumption
     DEF StartInference, StoreTypeOK
<1>8. ASSUME NEW d \in Delegations, RecordResult(d)
      PROVE  StoreTypeOK'
  BY <1>8, NoneAssumption, RevisionAssumption
     DEF RecordResult, StoreTypeOK, Facts, RecordedFact
<1>9. ASSUME NEW d \in Delegations, NEW a \in Attempts, InsertAttempt(a, d)
      PROVE  StoreTypeOK'
  BY <1>9, NoneAssumption, RevisionAssumption
     DEF InsertAttempt, StoreTypeOK, Facts, AttemptFact, Certainties
<1>10. ASSUME NEW d \in Delegations, NEW k \in SUBSET Attempts, AdoptAsCompletion(d, k)
      PROVE  StoreTypeOK'
  <2>1. AdoptedFact(d) \in Facts
    BY DEF Facts
  <2>2. /\ progress' \in [Tasks -> {"absent"} \cup Open \cup Terminal]
        /\ undelivered' \in SUBSET Facts
    BY <1>10, <2>1 DEF AdoptAsCompletion, StoreTypeOK, Terminal
  <2>3. /\ stamped' \in [Delegations -> SUBSET Attempts]
        /\ adoptedRev' \in [Delegations -> 0..MaxRevision]
    BY <1>10 DEF AdoptAsCompletion, StampAttempts, AttemptsOf, StoreTypeOK
  <2> QED
    BY <1>10, <2>2, <2>3 DEF AdoptAsCompletion, StoreTypeOK
<1>11. ASSUME NEW d \in Delegations, NEW k \in SUBSET Attempts, StampOnly(d, k)
      PROVE  StoreTypeOK'
  BY <1>11, NoneAssumption, RevisionAssumption
     DEF StampOnly, StoreTypeOK, StampAttempts, AttemptsOf
<1>12. ASSUME NEW a \in Attempts, NEW c \in Certainties, SetCertainty(a, c)
      PROVE  StoreTypeOK'
  BY <1>12, NoneAssumption, RevisionAssumption
     DEF SetCertainty, StoreTypeOK, Facts, AttemptFact
<1>13. CASE UNCHANGED storeVars
  BY <1>13 DEF storeVars, StoreTypeOK
<1> QED
  BY Zenon, <1>1, <1>2, <1>3, <1>4, <1>5, <1>6, <1>7, <1>8, <1>9, <1>10, <1>11, <1>12, <1>13
     DEF StoreNext, TaskStep, WorkStep, SettleStep, AdoptResult

(* The tables never leave their domains, whatever calls arrive in whatever  *)
(* order (crates/ene-store/src/task.rs, action.rs, inference.rs).           *)
THEOREM Typing == StoreSpec => []StoreTypeOK
<1>1. StoreInit => StoreTypeOK
  BY RevisionAssumption DEF StoreInit, StoreTypeOK, Certainties
<1> QED
  BY <1>1, TypingInductive, PTL DEF StoreSpec

-----------------------------------------------------------------------------
(* The rows a delegation's existence and an adoption leave behind.  Each    *)
(* part is about one delegation, or one attempt, so that a step has to be    *)
(* examined only for the rows it writes.                                     *)
RowsBound ==
    /\ \A d \in Delegations : delegTask[d] = None =>
         /\ d \notin sealed
         /\ \A a \in Attempts : attemptOf[a] # d
    /\ \A d \in Delegations : delegTask[d] # None =>
         /\ delegRev[d] \in 1..revision[delegTask[d]]
         /\ progress[delegTask[d]] # "absent"

AdoptedRow(d) ==
    /\ d \in sealed
    /\ delegTask[d] # None
    /\ adoptedRev[d] = delegRev[d]
    /\ delegRev[d] = revision[delegTask[d]]
    /\ progress[delegTask[d]] = "completed"
    /\ stamped[d] = AttemptsOf(d)
    /\ AllConfirmed(d)
    /\ NoneUnknown(delegTask[d])

AdoptionInv ==
    /\ StoreTypeOK
    /\ RowsBound
    /\ \A d \in Delegations : adoptedRev[d] # 0 => AdoptedRow(d)
    /\ \A d, e \in Delegations :
         adoptedRev[d] # 0 /\ adoptedRev[e] # 0 /\ delegTask[d] = delegTask[e] => d = e
    /\ \A t \in Tasks : progress[t] = "completed" =>
         \E d \in Delegations : delegTask[d] = t /\ adoptedRev[d] # 0
    /\ \A d \in Delegations : stamped[d] # {} =>
         d \in sealed /\ stamped[d] = AttemptsOf(d)

LEMMA AdoptionInductive ==
    ASSUME AdoptionInv, [StoreNext]_storeVars PROVE AdoptionInv'
<1>0. StoreTypeOK'
  BY TypingInductive DEF AdoptionInv
<1>1. ASSUME NEW t \in Tasks, CreateTask(t)
      PROVE  AdoptionInv'
  BY <1>0, <1>1, NoneAssumption, RevisionAssumption, SMTT(20)
     DEF CreateTask, AdoptionInv, RowsBound, AdoptedRow, AllConfirmed, NoneUnknown,
         TaskAttempts, DelegsOf, AttemptsOf, StoreTypeOK, Revisions, Open, Terminal
<1>2. ASSUME NEW t \in Tasks, NEW e \in Revisions, ForwardSteering(t, e)
      PROVE  AdoptionInv'
  BY <1>0, <1>2, NoneAssumption, RevisionAssumption, SMTT(20)
     DEF ForwardSteering, ExpectedCurrent, AdoptionInv, RowsBound, AdoptedRow, AllConfirmed, NoneUnknown,
         TaskAttempts, DelegsOf, AttemptsOf, StoreTypeOK, Revisions, Open, Terminal
<1>3. ASSUME NEW t \in Tasks, CancelTask(t)
      PROVE  AdoptionInv'
  BY <1>0, <1>3, NoneAssumption, RevisionAssumption, SMTT(20)
     DEF CancelTask, AdoptionInv, RowsBound, AdoptedRow, AllConfirmed, NoneUnknown,
         TaskAttempts, DelegsOf, AttemptsOf, StoreTypeOK, Revisions, Open, Terminal
<1>4. ASSUME NEW t \in Tasks, NEW e \in Revisions, NEW k \in Delegations \cup {None}, FailTask(t, e, k)
      PROVE  AdoptionInv'
  BY <1>0, <1>4, NoneAssumption, RevisionAssumption, SMTT(20)
     DEF FailTask, ExpectedCurrent, AdoptionInv, RowsBound, AdoptedRow, AllConfirmed, NoneUnknown,
         TaskAttempts, DelegsOf, AttemptsOf, StoreTypeOK, Revisions, Open, Terminal
<1>5. ASSUME NEW t \in Tasks, NEW e \in Revisions, NEW d \in Delegations, CreateDelegation(d, t, e)
      PROVE  AdoptionInv'
  BY <1>0, <1>5, NoneAssumption, RevisionAssumption, SMTT(20)
     DEF CreateDelegation, ExpectedCurrent, AdoptionInv, RowsBound, AdoptedRow, AllConfirmed, NoneUnknown,
         TaskAttempts, DelegsOf, AttemptsOf, StoreTypeOK, Revisions, Open, Terminal
<1>6. ASSUME NEW t \in Tasks, NEW e \in Revisions, NEW d \in Delegations, NEW f \in BOOLEAN, CommitResume(t, e, d, f)
      PROVE  AdoptionInv'
  BY <1>0, <1>6, NoneAssumption, RevisionAssumption, SMTT(20)
     DEF CommitResume, Resumable, ExpectedCurrent, AdoptionInv, RowsBound, AdoptedRow, AllConfirmed, NoneUnknown,
         TaskAttempts, DelegsOf, AttemptsOf, StoreTypeOK, Revisions, Open, Terminal
<1>7. ASSUME NEW d \in Delegations, StartInference(d)
      PROVE  AdoptionInv'
  BY <1>0, <1>7, NoneAssumption, RevisionAssumption, SMTT(20)
     DEF StartInference, AdoptionInv, RowsBound, AdoptedRow, AllConfirmed, NoneUnknown,
         TaskAttempts, DelegsOf, AttemptsOf, StoreTypeOK, Revisions, Open, Terminal
<1>8. ASSUME NEW d \in Delegations, RecordResult(d)
      PROVE  AdoptionInv'
  BY <1>0, <1>8, NoneAssumption, RevisionAssumption, SMTT(20)
     DEF RecordResult, AdoptionInv, RowsBound, AdoptedRow, AllConfirmed, NoneUnknown,
         TaskAttempts, DelegsOf, AttemptsOf, StoreTypeOK, Revisions, Open, Terminal
<1>9. ASSUME NEW d \in Delegations, NEW a \in Attempts, InsertAttempt(a, d)
      PROVE  AdoptionInv'
  BY <1>0, <1>9, NoneAssumption, RevisionAssumption, SMTT(20)
     DEF InsertAttempt, CanStart, PremiseCurrent, AdoptionInv, RowsBound, AdoptedRow, AllConfirmed, NoneUnknown,
         TaskAttempts, DelegsOf, AttemptsOf, StoreTypeOK, Revisions, Open, Terminal
<1>10. ASSUME NEW d \in Delegations, NEW k \in SUBSET Attempts, AdoptAsCompletion(d, k)
      PROVE  AdoptionInv'
  BY <1>0, <1>10, NoneAssumption, RevisionAssumption, SMTT(20)
     DEF AdoptAsCompletion, Adoptable, PremiseCurrent, StampAttempts, AdoptionInv, RowsBound, AdoptedRow, AllConfirmed, NoneUnknown,
         TaskAttempts, DelegsOf, AttemptsOf, StoreTypeOK, Revisions, Open, Terminal
<1>11. ASSUME NEW d \in Delegations, NEW k \in SUBSET Attempts, StampOnly(d, k)
      PROVE  AdoptionInv'
  BY <1>0, <1>11, NoneAssumption, RevisionAssumption, SMTT(20)
     DEF StampOnly, StampAttempts, Adoptable, AdoptionInv, RowsBound, AdoptedRow, AllConfirmed, NoneUnknown,
         TaskAttempts, DelegsOf, AttemptsOf, StoreTypeOK, Revisions, Open, Terminal
<1>12. ASSUME NEW a \in Attempts, NEW c \in Certainties, SetCertainty(a, c)
      PROVE  AdoptionInv'
  BY <1>0, <1>12, NoneAssumption, RevisionAssumption, SMTT(20)
     DEF SetCertainty, AdoptionInv, RowsBound, AdoptedRow, AllConfirmed, NoneUnknown,
         TaskAttempts, DelegsOf, AttemptsOf, StoreTypeOK, Revisions, Open, Terminal
<1>13. CASE UNCHANGED storeVars
  BY <1>0, <1>13 DEF storeVars, AdoptionInv, RowsBound, AdoptedRow, AllConfirmed, NoneUnknown,
         TaskAttempts, DelegsOf, AttemptsOf, StoreTypeOK, Revisions, Open, Terminal
<1> QED
  BY Zenon, <1>1, <1>2, <1>3, <1>4, <1>5, <1>6, <1>7, <1>8, <1>9, <1>10, <1>11, <1>12, <1>13
     DEF StoreNext, TaskStep, WorkStep, SettleStep, AdoptResult

LEMMA AdoptionInvariant == StoreSpec => []AdoptionInv
<1>1. StoreInit => AdoptionInv
  BY NoneAssumption, RevisionAssumption
     DEF StoreInit, AdoptionInv, RowsBound, StoreTypeOK, Certainties
<1> QED
  BY <1>1, AdoptionInductive, PTL DEF StoreSpec

(* A task is completed exactly when one result of it is adopted, under the  *)
(* revision the task still has (adopt_result).                              *)
THEOREM CompletedOnce == StoreSpec => []AdoptionConsistent
<1>1. AdoptionInv => AdoptionConsistent
  <2> SUFFICES ASSUME AdoptionInv PROVE AdoptionConsistent
    OBVIOUS
  <2>1. ASSUME NEW t \in Tasks, progress[t] # "completed" PROVE Adopted(t) = {}
    BY <2>1 DEF AdoptionInv, AdoptedRow, Adopted, DelegsOf
  <2>2. ASSUME NEW t \in Tasks, progress[t] = "completed"
        PROVE  \E d \in DelegsOf(t) : /\ Adopted(t) = {d}
                                      /\ d \in sealed
                                      /\ adoptedRev[d] = delegRev[d]
                                      /\ delegRev[d] = revision[t]
    <3>1. PICK d \in Delegations : delegTask[d] = t /\ adoptedRev[d] # 0
      BY <2>2 DEF AdoptionInv
    <3>2. Adopted(t) = {d}
      BY <3>1 DEF AdoptionInv, Adopted, DelegsOf
    <3> QED
      BY <3>1, <3>2 DEF AdoptionInv, AdoptedRow, DelegsOf
  <2> QED
    BY <2>1, <2>2 DEF AdoptionConsistent
<1> QED
  BY <1>1, AdoptionInvariant, PTL

(* Once completed, a task never owns an effect that is still unknown, and   *)
(* every effect of the adopted delegation is a confirmed success.           *)
THEOREM CompletedConfirmed == StoreSpec => []CompletionConfirmed
<1>1. AdoptionInv => CompletionConfirmed
  <2> SUFFICES ASSUME AdoptionInv, NEW t \in Tasks, progress[t] = "completed"
               PROVE  NoneUnknown(t) /\ \A d \in Adopted(t) : AllConfirmed(d)
    BY DEF CompletionConfirmed
  <2>1. PICK d \in Delegations : delegTask[d] = t /\ adoptedRev[d] # 0
    BY DEF AdoptionInv
  <2> QED
    BY <2>1 DEF AdoptionInv, AdoptedRow, Adopted, DelegsOf
<1> QED
  BY <1>1, AdoptionInvariant, PTL

(* The attempts a result is stamped with are, for ever, all the attempts of *)
(* its delegation (stamp_result_attempts, insert_attempt_sync).             *)
THEOREM StampedForGood == StoreSpec => []StampExact
<1>1. AdoptionInv => StampExact
  BY DEF AdoptionInv, AdoptedRow, StampExact
<1> QED
  BY <1>1, AdoptionInvariant, PTL

-----------------------------------------------------------------------------
(* The outbox, kind by kind: which facts of a kind the rows have produced.   *)
RevisionsTold == \A t \in Tasks, r \in Revisions :
    RevisionFact(t, r) \in undelivered <=> r \in 1..revision[t]
DelegationsTold == \A d \in Delegations :
    DelegationFact(d) \in undelivered <=> delegTask[d] # None
AttemptsTold == \A a \in Attempts, c \in Certainties :
    AttemptFact(a, c) \in undelivered <=>
        attemptOf[a] # None /\ c \in {"unknown", certainty[a]}
RecordedTold == \A d \in Delegations : RecordedFact(d) \in undelivered <=> d \in sealed
AdoptedTold == \A d \in Delegations : AdoptedFact(d) \in undelivered <=> adoptedRev[d] # 0
EndsTold == \A t \in Tasks, p \in Terminal :
    TerminalFact(t, p) \in undelivered <=>
        p \in {"failed", "cancelled"} /\ progress[t] = p

OutboxInv ==
    /\ \A t \in Tasks : progress[t] = "absent" => revision[t] = 0
    /\ RevisionsTold
    /\ DelegationsTold
    /\ AttemptsTold
    /\ RecordedTold
    /\ AdoptedTold
    /\ EndsTold

(* Facts of two kinds differ, and a fact names its subject.                  *)
LEMMA KindsDiffer ==
    /\ \A t, r, d : RevisionFact(t, r) # DelegationFact(d)
    /\ \A t, r, a, c : RevisionFact(t, r) # AttemptFact(a, c)
    /\ \A t, r, e : RevisionFact(t, r) # RecordedFact(e)
    /\ \A t, r, k : RevisionFact(t, r) # AdoptedFact(k)
    /\ \A t, r, u, p : RevisionFact(t, r) # TerminalFact(u, p)
    /\ \A d, a, c : DelegationFact(d) # AttemptFact(a, c)
    /\ \A d, e : DelegationFact(d) # RecordedFact(e)
    /\ \A d, k : DelegationFact(d) # AdoptedFact(k)
    /\ \A d, u, p : DelegationFact(d) # TerminalFact(u, p)
    /\ \A a, c, e : AttemptFact(a, c) # RecordedFact(e)
    /\ \A a, c, k : AttemptFact(a, c) # AdoptedFact(k)
    /\ \A a, c, u, p : AttemptFact(a, c) # TerminalFact(u, p)
    /\ \A e, k : RecordedFact(e) # AdoptedFact(k)
    /\ \A e, u, p : RecordedFact(e) # TerminalFact(u, p)
    /\ \A k, u, p : AdoptedFact(k) # TerminalFact(u, p)
  BY DEF RevisionFact, DelegationFact, AttemptFact, RecordedFact, AdoptedFact, TerminalFact

LEMMA SubjectsNamed ==
    /\ \A x, u, y, v : RevisionFact(x, u) = RevisionFact(y, v) => x = y /\ u = v
    /\ \A x, y : DelegationFact(x) = DelegationFact(y) => x = y
    /\ \A x, u, y, v : AttemptFact(x, u) = AttemptFact(y, v) => x = y /\ u = v
    /\ \A x, y : RecordedFact(x) = RecordedFact(y) => x = y
    /\ \A x, y : AdoptedFact(x) = AdoptedFact(y) => x = y
    /\ \A x, u, y, v : TerminalFact(x, u) = TerminalFact(y, v) => x = y /\ u = v
  BY DEF RevisionFact, DelegationFact, AttemptFact, RecordedFact, AdoptedFact, TerminalFact

LEMMA OutboxInductive ==
    ASSUME AdoptionInv, OutboxInv, [StoreNext]_storeVars PROVE OutboxInv'
<1>1. ASSUME NEW t \in Tasks, CreateTask(t)
      PROVE  OutboxInv'
  BY <1>1, RevisionAssumption, KindsDiffer, SubjectsNamed
     DEF Certainties, Terminal, CreateTask, OutboxInv, RevisionsTold, DelegationsTold, AttemptsTold, RecordedTold, AdoptedTold, EndsTold,
         AdoptionInv, StoreTypeOK, Revisions, Open
<1>2. ASSUME NEW t \in Tasks, NEW e \in Revisions, ForwardSteering(t, e)
      PROVE  OutboxInv'
  BY <1>2, RevisionAssumption, KindsDiffer, SubjectsNamed
     DEF Certainties, Terminal, ForwardSteering, ExpectedCurrent, OutboxInv, RevisionsTold, DelegationsTold, AttemptsTold, RecordedTold, AdoptedTold, EndsTold,
         AdoptionInv, StoreTypeOK, Revisions, Open
<1>3. ASSUME NEW t \in Tasks, CancelTask(t)
      PROVE  OutboxInv'
  BY <1>3, KindsDiffer, SubjectsNamed
     DEF Certainties, Terminal, CancelTask, OutboxInv, RevisionsTold, DelegationsTold, AttemptsTold, RecordedTold, AdoptedTold, EndsTold,
         AdoptionInv, StoreTypeOK, Revisions, Open
<1>4. ASSUME NEW t \in Tasks, NEW e \in Revisions, NEW k \in Delegations \cup {None}, FailTask(t, e, k)
      PROVE  OutboxInv'
  BY <1>4, KindsDiffer, SubjectsNamed
     DEF Certainties, Terminal, FailTask, ExpectedCurrent, OutboxInv, RevisionsTold, DelegationsTold, AttemptsTold, RecordedTold, AdoptedTold, EndsTold,
         AdoptionInv, StoreTypeOK, Revisions, Open
<1>5. ASSUME NEW t \in Tasks, NEW e \in Revisions, NEW d \in Delegations, CreateDelegation(d, t, e)
      PROVE  OutboxInv'
  BY <1>5, NoneAssumption, KindsDiffer, SubjectsNamed
     DEF Certainties, Terminal, CreateDelegation, ExpectedCurrent, OutboxInv, RevisionsTold, DelegationsTold, AttemptsTold, RecordedTold, AdoptedTold, EndsTold,
         AdoptionInv, StoreTypeOK, Revisions, Open
<1>6. ASSUME NEW t \in Tasks, NEW e \in Revisions, NEW d \in Delegations, NEW f \in BOOLEAN, CommitResume(t, e, d, f)
      PROVE  OutboxInv'
  BY <1>6, NoneAssumption, RevisionAssumption, KindsDiffer, SubjectsNamed
     DEF Certainties, Terminal, CommitResume, Resumable, ExpectedCurrent, OutboxInv, RevisionsTold, DelegationsTold, AttemptsTold, RecordedTold, AdoptedTold, EndsTold,
         AdoptionInv, StoreTypeOK, Revisions, Open
<1>7. ASSUME NEW d \in Delegations, StartInference(d)
      PROVE  OutboxInv'
  BY <1>7
     DEF Certainties, Terminal, StartInference, OutboxInv, RevisionsTold, DelegationsTold, AttemptsTold, RecordedTold, AdoptedTold, EndsTold
<1>8. ASSUME NEW d \in Delegations, RecordResult(d)
      PROVE  OutboxInv'
  BY <1>8, KindsDiffer, SubjectsNamed
     DEF Certainties, Terminal, RecordResult, OutboxInv, RevisionsTold, DelegationsTold, AttemptsTold, RecordedTold, AdoptedTold, EndsTold
<1>9. ASSUME NEW d \in Delegations, NEW a \in Attempts, InsertAttempt(a, d)
      PROVE  OutboxInv'
  BY <1>9, NoneAssumption, KindsDiffer, SubjectsNamed
     DEF Certainties, Terminal, InsertAttempt, OutboxInv, RevisionsTold, DelegationsTold, AttemptsTold, RecordedTold, AdoptedTold, EndsTold,
         AdoptionInv, StoreTypeOK
<1>10. ASSUME NEW d \in Delegations, NEW k \in SUBSET Attempts, AdoptAsCompletion(d, k)
      PROVE  OutboxInv'
  <2>1. /\ delegTask[d] \in Tasks
        /\ adoptedRev[d] = 0
        /\ delegRev[d] \in Nat /\ delegRev[d] # 0
        /\ progress[delegTask[d]] \in Open
    BY <1>10, RevisionAssumption, KindsDiffer, SubjectsNamed
       DEF Certainties, Terminal, AdoptAsCompletion, Adoptable, PremiseCurrent, AdoptionInv, RowsBound, StoreTypeOK
  <2>2. /\ undelivered' = undelivered \cup {AdoptedFact(d)}
        /\ progress' = [progress EXCEPT ![delegTask[d]] = "completed"]
        /\ adoptedRev' = [adoptedRev EXCEPT ![d] = delegRev[d]]
        /\ UNCHANGED <<revision, delegTask, attemptOf, certainty, sealed>>
    BY <1>10 DEF AdoptAsCompletion
  <2>3. EndsTold' /\ \A t \in Tasks : progress'[t] = "absent" => revision'[t] = 0
    BY <2>1, <2>2, KindsDiffer, SubjectsNamed DEF OutboxInv, EndsTold, AdoptionInv, StoreTypeOK, Open
  <2> QED
    BY <2>1, <2>2, <2>3, KindsDiffer, SubjectsNamed
       DEF Certainties, Terminal, OutboxInv, RevisionsTold, DelegationsTold, AttemptsTold, RecordedTold, AdoptedTold,
           AdoptionInv, StoreTypeOK
<1>11. ASSUME NEW d \in Delegations, NEW k \in SUBSET Attempts, StampOnly(d, k)
      PROVE  OutboxInv'
  BY <1>11
     DEF Certainties, Terminal, StampOnly, OutboxInv, RevisionsTold, DelegationsTold, AttemptsTold, RecordedTold, AdoptedTold, EndsTold
<1>12. ASSUME NEW a \in Attempts, NEW c \in Certainties, SetCertainty(a, c)
      PROVE  OutboxInv'
  BY <1>12, KindsDiffer, SubjectsNamed
     DEF Certainties, Terminal, SetCertainty, OutboxInv, RevisionsTold, DelegationsTold, AttemptsTold, RecordedTold, AdoptedTold, EndsTold,
         AdoptionInv, StoreTypeOK
<1>13. CASE UNCHANGED storeVars
  BY <1>13 DEF storeVars, OutboxInv, RevisionsTold, DelegationsTold, AttemptsTold, RecordedTold, AdoptedTold, EndsTold
<1> QED
  BY Zenon, <1>1, <1>2, <1>3, <1>4, <1>5, <1>6, <1>7, <1>8, <1>9, <1>10, <1>11, <1>12, <1>13
     DEF StoreNext, TaskStep, WorkStep, SettleStep, AdoptResult

(* What it means for a fact to be one of the rows'.                          *)
LEMMA FactsOfRows ==
    ASSUME NEW f
    PROVE  f \in TableFacts <=>
        \/ \E t \in Tasks : \E r \in 1..revision[t] : f = RevisionFact(t, r)
        \/ \E d \in Delegations : delegTask[d] # None /\ f = DelegationFact(d)
        \/ \E a \in Attempts : attemptOf[a] # None /\ f = AttemptFact(a, "unknown")
        \/ \E a \in Attempts : attemptOf[a] # None /\ f = AttemptFact(a, certainty[a])
        \/ \E d \in sealed : f = RecordedFact(d)
        \/ \E d \in Delegations : adoptedRev[d] # 0 /\ f = AdoptedFact(d)
        \/ \E t \in Tasks : /\ progress[t] \in {"failed", "cancelled"}
                            /\ f = TerminalFact(t, progress[t])
<1> DEFINE R == UNION {{RevisionFact(t, r) : r \in 1..revision[t]} : t \in Tasks}
           D == {DelegationFact(d) : d \in {x \in Delegations : delegTask[x] # None}}
           U == {AttemptFact(a, "unknown") : a \in {x \in Attempts : attemptOf[x] # None}}
           C == {AttemptFact(a, certainty[a]) : a \in {x \in Attempts : attemptOf[x] # None}}
           S == {RecordedFact(d) : d \in sealed}
           A == {AdoptedFact(d) : d \in {x \in Delegations : adoptedRev[x] # 0}}
           T == {TerminalFact(t, progress[t]) :
                   t \in {x \in Tasks : progress[x] \in {"failed", "cancelled"}}}
<1>0. TableFacts = R \cup D \cup U \cup C \cup S \cup A \cup T
  BY Zenon DEF TableFacts
<1>1. f \in R <=> \E t \in Tasks : \E r \in 1..revision[t] : f = RevisionFact(t, r)
  OBVIOUS
<1>2. f \in D <=> \E d \in Delegations : delegTask[d] # None /\ f = DelegationFact(d)
  OBVIOUS
<1>3. f \in U <=> \E a \in Attempts : attemptOf[a] # None /\ f = AttemptFact(a, "unknown")
  OBVIOUS
<1>4. f \in C <=> \E a \in Attempts : attemptOf[a] # None /\ f = AttemptFact(a, certainty[a])
  OBVIOUS
<1>5. f \in S <=> \E d \in sealed : f = RecordedFact(d)
  OBVIOUS
<1>6. f \in A <=> \E d \in Delegations : adoptedRev[d] # 0 /\ f = AdoptedFact(d)
  OBVIOUS
<1>7. f \in T <=> \E t \in Tasks : /\ progress[t] \in {"failed", "cancelled"}
                                  /\ f = TerminalFact(t, progress[t])
  OBVIOUS
<1> HIDE DEF R, D, U, C, S, A, T
<1>8. f \in TableFacts <=>
        f \in R \/ f \in D \/ f \in U \/ f \in C \/ f \in S \/ f \in A \/ f \in T
  BY <1>0
<1> QED
  BY <1>1, <1>2, <1>3, <1>4, <1>5, <1>6, <1>7, <1>8

LEMMA OutboxInvariant == StoreSpec => []OutboxInv
<1>1. StoreInit => OutboxInv
  BY NoneAssumption, RevisionAssumption
     DEF StoreInit, OutboxInv, RevisionsTold, DelegationsTold, AttemptsTold, RecordedTold, AdoptedTold, EndsTold
<1> QED
  BY <1>1, AdoptionInvariant, OutboxInductive, PTL DEF StoreSpec

(* Exactly the facts of the rows are in the outbox, whatever transactions    *)
(* ran in whatever order: nothing the owner must be told is forgotten and    *)
(* nothing is told that did not happen (register_undelivered_tx).            *)
THEOREM OutboxTold == StoreSpec => []OutboxComplete
<1>1. AdoptionInv /\ OutboxInv => OutboxComplete
  <2> SUFFICES ASSUME AdoptionInv, OutboxInv PROVE OutboxComplete
    OBVIOUS
  <2>1. ASSUME NEW f \in undelivered PROVE f \in TableFacts
    <3>0. f \in Facts
      BY DEF AdoptionInv, StoreTypeOK
    <3>1. CASE \E t \in Tasks, r \in Revisions : f = RevisionFact(t, r)
      BY <3>1, FactsOfRows DEF OutboxInv, RevisionsTold
    <3>2. CASE \E d \in Delegations : f = DelegationFact(d)
      BY <3>2, FactsOfRows DEF OutboxInv, DelegationsTold
    <3>3. CASE \E a \in Attempts, c \in Certainties : f = AttemptFact(a, c)
      BY <3>3, FactsOfRows DEF OutboxInv, AttemptsTold
    <3>4. CASE \E d \in Delegations : f = RecordedFact(d)
      BY <3>4, FactsOfRows DEF OutboxInv, RecordedTold
    <3>5. CASE \E d \in Delegations : f = AdoptedFact(d)
      BY <3>5, FactsOfRows DEF OutboxInv, AdoptedTold
    <3>6. CASE \E t \in Tasks, p \in Terminal : f = TerminalFact(t, p)
      BY <3>6, FactsOfRows DEF OutboxInv, EndsTold
    <3> QED
      BY <3>0, <3>1, <3>2, <3>3, <3>4, <3>5, <3>6 DEF Facts
  <2>2. ASSUME NEW f \in TableFacts PROVE f \in undelivered
    <3>1. CASE \E t \in Tasks : \E r \in 1..revision[t] : f = RevisionFact(t, r)
      <4>1. PICK t \in Tasks : \E r \in 1..revision[t] : f = RevisionFact(t, r)
        BY <3>1
      <4>2. PICK r \in 1..revision[t] : f = RevisionFact(t, r)
        BY <4>1
      <4>3. r \in Revisions
        BY <4>1, RevisionAssumption DEF Revisions, AdoptionInv, StoreTypeOK
      <4> QED
        BY <4>1, <4>2, <4>3 DEF OutboxInv, RevisionsTold
    <3>2. CASE \E d \in Delegations : delegTask[d] # None /\ f = DelegationFact(d)
      BY <3>2 DEF OutboxInv, DelegationsTold
    <3>3. CASE \E a \in Attempts : attemptOf[a] # None
                 /\ (f = AttemptFact(a, "unknown") \/ f = AttemptFact(a, certainty[a]))
      BY <3>3 DEF OutboxInv, AttemptsTold, AdoptionInv, StoreTypeOK, Certainties
    <3>4. CASE \E d \in sealed : f = RecordedFact(d)
      BY <3>4 DEF OutboxInv, RecordedTold, AdoptionInv, StoreTypeOK
    <3>5. CASE \E d \in Delegations : adoptedRev[d] # 0 /\ f = AdoptedFact(d)
      BY <3>5 DEF OutboxInv, AdoptedTold
    <3>6. CASE \E t \in Tasks : progress[t] \in {"failed", "cancelled"}
                 /\ f = TerminalFact(t, progress[t])
      BY <3>6 DEF OutboxInv, EndsTold, Terminal
    <3> QED
      BY <3>1, <3>2, <3>3, <3>4, <3>5, <3>6, FactsOfRows
  <2> QED
    BY <2>1, <2>2 DEF OutboxComplete
<1> QED
  BY <1>1, AdoptionInvariant, OutboxInvariant, PTL

-----------------------------------------------------------------------------
(* The refinement of TaskLifecycle, step by step.  A transaction moves the   *)
(* images of the tables (StageOf, CrewOf, DoubtOf, AnswerOf) as one action   *)
(* of the lifecycle does, or leaves them all as they are.                    *)
LEMMA CreateMaps ==
    ASSUME AdoptionInv, OutboxInv, NEW t \in Tasks, CreateTask(t)
    PROVE  Lifecycle!Create(t)
<1>1. \A d \in Delegations : delegTask[d] # t
  BY NoneAssumption DEF AdoptionInv, RowsBound, CreateTask
<1>2. StageOf[t] = "absent" /\ StageOf' = [StageOf EXCEPT ![t] = "open"]
  BY DEF CreateTask, StageOf, Open, AdoptionInv, StoreTypeOK
<1>3. revision' = [revision EXCEPT ![t] = 1]
  BY DEF CreateTask
<1>4. CrewOf' = CrewOf
  BY <1>1 DEF CreateTask, CrewOf, DelegsOf, AdoptionInv, StoreTypeOK
<1>5. DoubtOf' = DoubtOf /\ AnswerOf' = AnswerOf
  BY DEF CreateTask, DoubtOf, AnswerOf, TaskAttempts, Adopted, DelegsOf
<1> QED
  BY <1>2, <1>3, <1>4, <1>5 DEF Lifecycle!Create

LEMMA SteerMaps ==
    ASSUME AdoptionInv, NEW t \in Tasks, NEW e \in Revisions, ForwardSteering(t, e)
    PROVE  Lifecycle!Steer(t)
<1>1. \A d \in Delegations : delegTask[d] = t => delegRev[d] # revision[t] + 1
  BY NoneAssumption, RevisionAssumption DEF AdoptionInv, RowsBound, StoreTypeOK
<1>2. StageOf[t] = "open" /\ StageOf' = StageOf
  BY DEF ForwardSteering, ExpectedCurrent, StageOf
<1>3. revision[t] + 1 \in Revisions /\ revision' = [revision EXCEPT ![t] = @ + 1]
  BY RevisionAssumption DEF ForwardSteering, Revisions, AdoptionInv, StoreTypeOK
<1>4. \A s \in Tasks : CrewOf'[s] = IF s = t THEN {} ELSE CrewOf[s]
  BY <1>1, <1>3 DEF ForwardSteering, CrewOf, DelegsOf, AdoptionInv, StoreTypeOK
<1>5. CrewOf' = [CrewOf EXCEPT ![t] = {}]
  BY <1>4 DEF CrewOf
<1>6. DoubtOf' = DoubtOf /\ AnswerOf' = AnswerOf
  BY DEF ForwardSteering, DoubtOf, AnswerOf, TaskAttempts, Adopted, DelegsOf
<1> QED
  BY <1>2, <1>3, <1>5, <1>6 DEF Lifecycle!Steer

LEMMA StopMaps ==
    ASSUME AdoptionInv, NEW t \in Tasks, NEW how \in {"failed", "cancelled"},
           progress[t] \in Open, progress' = [progress EXCEPT ![t] = how],
           UNCHANGED <<revision, delegTask, delegRev, attemptOf, certainty, adoptedRev>>
    PROVE  Lifecycle!Stop(t, how)
<1>1. StageOf[t] = "open" /\ StageOf' = [StageOf EXCEPT ![t] = how]
  BY DEF StageOf, Open, AdoptionInv, StoreTypeOK
<1>2. CrewOf' = CrewOf /\ DoubtOf' = DoubtOf /\ AnswerOf' = AnswerOf
  BY DEF CrewOf, DoubtOf, AnswerOf, TaskAttempts, Adopted, DelegsOf
<1> QED
  BY <1>1, <1>2 DEF Lifecycle!Stop

(* A delegation is handed out: what it has no rows of, its task has none of. *)
LEMMA DelegationAdds ==
    ASSUME AdoptionInv, NEW t \in Tasks, NEW d \in Delegations,
           delegTask[d] = None, delegTask' = [delegTask EXCEPT ![d] = t],
           UNCHANGED <<attemptOf, certainty, adoptedRev>>
    PROVE  DoubtOf' = DoubtOf /\ AnswerOf' = AnswerOf
<1>1. adoptedRev[d] = 0 /\ \A a \in Attempts : attemptOf[a] # d
  BY DEF AdoptionInv, RowsBound, AdoptedRow
<1>2. \A s \in Tasks : TaskAttempts(s)' = TaskAttempts(s) /\ Adopted(s)' = Adopted(s)
  BY <1>1, NoneAssumption DEF TaskAttempts, Adopted, DelegsOf, AdoptionInv, StoreTypeOK
<1> QED
  BY <1>2 DEF DoubtOf, AnswerOf

LEMMA HandOutMaps ==
    ASSUME AdoptionInv, NEW t \in Tasks, NEW e \in Revisions, NEW d \in Delegations,
           CreateDelegation(d, t, e)
    PROVE  Lifecycle!HandOut(t, d)
<1>1. StageOf[t] = "open" /\ StageOf' = StageOf
  BY DEF CreateDelegation, ExpectedCurrent, StageOf, Open, AdoptionInv, StoreTypeOK
<1>2. \A s \in Tasks : d \notin CrewOf[s]
  BY NoneAssumption DEF CreateDelegation, CrewOf, DelegsOf
<1>3. \A s \in Tasks : CrewOf'[s] = IF s = t THEN CrewOf[t] \cup {d} ELSE CrewOf[s]
  BY NoneAssumption
     DEF CreateDelegation, ExpectedCurrent, CrewOf, DelegsOf, AdoptionInv, StoreTypeOK
<1>4. CrewOf' = [CrewOf EXCEPT ![t] = @ \cup {d}]
  BY <1>3 DEF CrewOf
<1>5. DoubtOf' = DoubtOf /\ AnswerOf' = AnswerOf
  BY DelegationAdds DEF CreateDelegation
<1>6. revision' = revision
  BY DEF CreateDelegation
<1> QED
  BY <1>1, <1>2, <1>4, <1>5, <1>6 DEF Lifecycle!HandOut

LEMMA RestartMaps ==
    ASSUME AdoptionInv, NEW t \in Tasks, NEW e \in Revisions, NEW d \in Delegations,
           NEW f \in BOOLEAN, CommitResume(t, e, d, f)
    PROVE  Lifecycle!Restart(t, d)
<1>1. StageOf[t] = "open" /\ StageOf' = StageOf
  BY DEF CommitResume, Resumable, ExpectedCurrent, StageOf, Open, AdoptionInv, StoreTypeOK
<1>2. DoubtOf[t] = {}
  BY DEF CommitResume, Resumable, NoneUnknown, DoubtOf
<1>3. revision[t] + 1 \in Revisions /\ revision' = [revision EXCEPT ![t] = @ + 1]
  BY RevisionAssumption DEF CommitResume, Resumable, Revisions, AdoptionInv, StoreTypeOK
<1>4. \A x \in Delegations : delegTask[x] = t => delegRev[x] # revision[t] + 1
  BY NoneAssumption, RevisionAssumption DEF AdoptionInv, RowsBound, StoreTypeOK
<1>5. \A s \in Tasks : CrewOf'[s] = IF s = t THEN {d} ELSE CrewOf[s]
  BY <1>4, NoneAssumption
     DEF CommitResume, CrewOf, DelegsOf, AdoptionInv, StoreTypeOK
<1>6. CrewOf' = [CrewOf EXCEPT ![t] = {d}]
  BY <1>5 DEF CrewOf
<1>7. DoubtOf' = DoubtOf /\ AnswerOf' = AnswerOf
  BY DelegationAdds DEF CommitResume
<1> QED
  BY <1>1, <1>2, <1>3, <1>6, <1>7 DEF Lifecycle!Restart

LEMMA AttemptMaps ==
    ASSUME AdoptionInv, NEW d \in Delegations, NEW a \in Attempts, InsertAttempt(a, d)
    PROVE  delegTask[d] \in Tasks /\ Lifecycle!Attempt(delegTask[d], a)
<1> DEFINE t == delegTask[d]
<1>0. t \in Tasks
  BY DEF InsertAttempt, CanStart, PremiseCurrent, AdoptionInv, StoreTypeOK
<1>1. StageOf[t] = "open" /\ StageOf' = StageOf
  BY <1>0 DEF InsertAttempt, CanStart, PremiseCurrent, StageOf
<1>2. CrewOf[t] # {} /\ CrewOf' = CrewOf
  BY <1>0 DEF InsertAttempt, CanStart, PremiseCurrent, CrewOf, DelegsOf
<1>3. \A s \in Tasks : a \notin DoubtOf[s]
  BY NoneAssumption DEF InsertAttempt, DoubtOf, TaskAttempts, DelegsOf
<1>4. \A s \in Tasks : TaskAttempts(s)' = IF s = t THEN TaskAttempts(t) \cup {a} ELSE TaskAttempts(s)
  BY <1>0, NoneAssumption DEF InsertAttempt, TaskAttempts, DelegsOf, AdoptionInv, StoreTypeOK
<1>5. \A s \in Tasks : DoubtOf'[s] = IF s = t THEN DoubtOf[t] \cup {a} ELSE DoubtOf[s]
  <2>1. certainty' = [certainty EXCEPT ![a] = "unknown"] /\ certainty \in [Attempts -> Certainties]
    BY DEF InsertAttempt, AdoptionInv, StoreTypeOK
  <2>2. \A s \in Tasks : a \notin TaskAttempts(s) /\ TaskAttempts(s) \subseteq Attempts
    BY NoneAssumption DEF InsertAttempt, TaskAttempts, DelegsOf
  <2>3. \A s \in Tasks : DoubtOf'[s] = {x \in TaskAttempts(s)' : certainty'[x] = "unknown"}
    BY DEF DoubtOf
  <2> QED
    BY <1>0, <1>4, <2>1, <2>2, <2>3 DEF DoubtOf
<1>6. DoubtOf' = [DoubtOf EXCEPT ![t] = @ \cup {a}]
  BY <1>0, <1>5 DEF DoubtOf
<1>7. AnswerOf' = AnswerOf /\ revision' = revision
  BY DEF InsertAttempt, AnswerOf, Adopted, DelegsOf
<1> QED
  BY <1>0, <1>1, <1>2, <1>3, <1>6, <1>7 DEF Lifecycle!Attempt

LEMMA ResolveMaps ==
    ASSUME AdoptionInv, NEW a \in Attempts, NEW c \in Certainties, SetCertainty(a, c)
    PROVE  \E t \in Tasks : Lifecycle!Resolve(t, a)
<1> DEFINE t == delegTask[attemptOf[a]]
<1>0. t \in Tasks /\ attemptOf[a] \in Delegations
  BY DEF SetCertainty, AdoptionInv, RowsBound, StoreTypeOK
<1>1. a \in DoubtOf[t]
  BY <1>0 DEF SetCertainty, DoubtOf, TaskAttempts, DelegsOf
<1>2. \A s \in Tasks : TaskAttempts(s)' = TaskAttempts(s)
  BY DEF SetCertainty, TaskAttempts, DelegsOf
<1>3. \A s \in Tasks : a \in TaskAttempts(s) => s = t
  BY <1>0 DEF TaskAttempts, DelegsOf
<1>4. \A s \in Tasks : DoubtOf'[s] = IF s = t THEN DoubtOf[t] \ {a} ELSE DoubtOf[s]
  BY <1>0, <1>2, <1>3 DEF SetCertainty, DoubtOf, TaskAttempts, AdoptionInv, StoreTypeOK
<1>5. DoubtOf' = [DoubtOf EXCEPT ![t] = @ \ {a}]
  BY <1>0, <1>4 DEF DoubtOf
<1>6. StageOf' = StageOf /\ CrewOf' = CrewOf /\ AnswerOf' = AnswerOf /\ revision' = revision
  BY DEF SetCertainty, StageOf, CrewOf, AnswerOf, Adopted, DelegsOf
<1>7. Lifecycle!Resolve(t, a)
  BY <1>1, <1>5, <1>6 DEF Lifecycle!Resolve
<1> QED
  BY <1>0, <1>7

LEMMA FinishMaps ==
    ASSUME AdoptionInv, NEW d \in Delegations, NEW k \in SUBSET Attempts,
           AdoptAsCompletion(d, k)
    PROVE  delegTask[d] \in Tasks /\ Lifecycle!Finish(delegTask[d], d)
<1> DEFINE t == delegTask[d]
<1>0. t \in Tasks /\ progress[t] \in Open /\ delegRev[d] = revision[t] /\ delegRev[d] # 0
  BY RevisionAssumption
     DEF AdoptAsCompletion, Adoptable, PremiseCurrent, AdoptionInv, RowsBound, StoreTypeOK
<1>1. StageOf[t] = "open" /\ StageOf' = [StageOf EXCEPT ![t] = "completed"]
  BY <1>0 DEF AdoptAsCompletion, StageOf, Open, AdoptionInv, StoreTypeOK
<1>2. d \in CrewOf[t]
  BY <1>0 DEF CrewOf, DelegsOf
<1>3. DoubtOf[t] = {}
  BY <1>0 DEF AdoptAsCompletion, Adoptable, NoneUnknown, DoubtOf
<1>4. \A x \in Delegations : delegTask[x] = t => adoptedRev[x] = 0
  BY <1>0 DEF AdoptionInv, AdoptedRow, Open
<1>5. \A s \in Tasks : Adopted(s)' = IF s = t THEN {d} ELSE Adopted(s)
  BY <1>0, <1>4 DEF AdoptAsCompletion, Adopted, DelegsOf, AdoptionInv, StoreTypeOK
<1>6. AnswerOf' = [AnswerOf EXCEPT ![t] = {d}]
  BY <1>0, <1>5 DEF AnswerOf
<1>7. revision' = revision /\ CrewOf' = CrewOf /\ DoubtOf' = DoubtOf
  BY DEF AdoptAsCompletion, CrewOf, DoubtOf, TaskAttempts, DelegsOf
<1> QED
  BY <1>0, <1>1, <1>2, <1>3, <1>6, <1>7 DEF Lifecycle!Finish

(* What the lifecycle does not see: the start of an inference, the arrival   *)
(* of a result, the stamp of a result that is not adopted.                   *)
LEMMA Unseen ==
    ASSUME UNCHANGED <<progress, revision, delegTask, delegRev, attemptOf, certainty, adoptedRev>>
    PROVE  UNCHANGED Lifecycle!vars
  BY DEF Lifecycle!vars, StageOf, CrewOf, DoubtOf, AnswerOf, TaskAttempts, Adopted, DelegsOf

LEMMA StepMaps ==
    ASSUME AdoptionInv, OutboxInv, [StoreNext]_storeVars
    PROVE  [Lifecycle!Next]_(Lifecycle!vars)
<1>1. ASSUME NEW t \in Tasks, CreateTask(t)
      PROVE  Lifecycle!Next
  BY <1>1, CreateMaps DEF Lifecycle!Next
<1>2. ASSUME NEW t \in Tasks, NEW e \in Revisions, ForwardSteering(t, e)
      PROVE  Lifecycle!Next
  BY <1>2, SteerMaps DEF Lifecycle!Next
<1>3. ASSUME NEW t \in Tasks, CancelTask(t)
      PROVE  Lifecycle!Next
  <2>1. Lifecycle!Stop(t, "cancelled")
    BY <1>3, StopMaps DEF CancelTask
  <2> QED
    BY <2>1 DEF Lifecycle!Next
<1>4. ASSUME NEW t \in Tasks, NEW e \in Revisions, NEW k \in Delegations \cup {None}, FailTask(t, e, k)
      PROVE  Lifecycle!Next
  <2>1. Lifecycle!Stop(t, "failed")
    BY <1>4, StopMaps DEF FailTask, ExpectedCurrent
  <2> QED
    BY <2>1 DEF Lifecycle!Next
<1>5. ASSUME NEW t \in Tasks, NEW e \in Revisions, NEW d \in Delegations, CreateDelegation(d, t, e)
      PROVE  Lifecycle!Next
  BY <1>5, HandOutMaps DEF Lifecycle!Next
<1>6. ASSUME NEW t \in Tasks, NEW e \in Revisions, NEW d \in Delegations, NEW f \in BOOLEAN, CommitResume(t, e, d, f)
      PROVE  Lifecycle!Next
  BY <1>6, RestartMaps DEF Lifecycle!Next
<1>7. ASSUME NEW d \in Delegations, StartInference(d)
      PROVE  UNCHANGED Lifecycle!vars
  BY <1>7, Unseen DEF StartInference
<1>8. ASSUME NEW d \in Delegations, RecordResult(d)
      PROVE  UNCHANGED Lifecycle!vars
  BY <1>8, Unseen DEF RecordResult
<1>9. ASSUME NEW d \in Delegations, NEW a \in Attempts, InsertAttempt(a, d)
      PROVE  Lifecycle!Next
  BY <1>9, AttemptMaps DEF Lifecycle!Next
<1>10. ASSUME NEW d \in Delegations, NEW k \in SUBSET Attempts, AdoptAsCompletion(d, k)
      PROVE  Lifecycle!Next
  BY <1>10, FinishMaps DEF Lifecycle!Next
<1>11. ASSUME NEW d \in Delegations, NEW k \in SUBSET Attempts, StampOnly(d, k)
      PROVE  UNCHANGED Lifecycle!vars
  BY <1>11, Unseen DEF StampOnly
<1>12. ASSUME NEW a \in Attempts, NEW c \in Certainties, SetCertainty(a, c)
      PROVE  Lifecycle!Next
  BY <1>12, ResolveMaps DEF Lifecycle!Next
<1>13. CASE UNCHANGED storeVars
  BY <1>13, Unseen DEF storeVars
<1> QED
  BY Zenon, <1>1, <1>2, <1>3, <1>4, <1>5, <1>6, <1>7, <1>8, <1>9, <1>10, <1>11, <1>12, <1>13
     DEF StoreNext, TaskStep, WorkStep, SettleStep, AdoptResult

(* The tables keep the promise of the lifecycle: every behaviour of the      *)
(* transactions is, seen through StageOf, CrewOf, DoubtOf and AnswerOf, a    *)
(* behaviour of TaskLifecycle (crates/ene-store/src/task.rs).                *)
THEOREM TablesImplementLifecycle == StoreSpec => LifecycleSpec
<1>1. StoreInit => Lifecycle!Init
  BY NoneAssumption
     DEF StoreInit, Lifecycle!Init, StageOf, CrewOf, DoubtOf, AnswerOf, TaskAttempts,
         Adopted, DelegsOf, Open
<1> QED
  BY <1>1, AdoptionInvariant, OutboxInvariant, StepMaps, PTL DEF StoreSpec, LifecycleSpec, Lifecycle!Spec

=============================================================================
