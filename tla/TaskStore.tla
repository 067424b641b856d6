----------------------------- MODULE TaskStore -----------------------------
(***************************************************************************)
(* The durable tables behind a Task of ene: `task`, `delegation`,          *)
(* `action_attempt`, `inference_attempt`, `task_result`,                   *)
(* `task_result_attempt` and the `undelivered` outbox, with the SQLite     *)
(* transactions of ene-store that write them.                              *)
(*                                                                         *)
(* Every operation of ene-store runs as one IMMEDIATE transaction under a  *)
(* single connection mutex, so each is one action here.  An operation is   *)
(* described for an arbitrary caller: StoreNext lets any argument arrive   *)
(* at any time.  A refusal (a domain outcome that writes nothing) is a     *)
(* stuttering step and needs no action; what a caller learns from it is    *)
(* read off the guard operators (Steerable, Delegable, ...).               *)
(*                                                                         *)
(* Abstracted data: texts, paths, companions, clocks and generated ids.    *)
(* purpose_adopted_revision is written by the statement that writes the    *)
(* revision and is compared only next to it, so equal revisions have equal *)
(* purposes and the column is left out.  A result is named by its          *)
(* delegation: a delegation has at most one (record_task_result_arrival    *)
(* refuses a second).  Rows refused because a targeted deletion holds      *)
(* them are refusals like any other.                                       *)
(***************************************************************************)
EXTENDS Naturals, FiniteSets

CONSTANTS
    Tasks,        \* ids a Task may be given
    Delegations,  \* ids a delegation (one delegated execution) may be given
    Attempts,     \* ids an action attempt may be given
    MaxRevision,  \* the last TaskRevision; checked_next fails on it
    None          \* the absent reference

ASSUME NoneAssumption == None \notin Tasks \cup Delegations \cup Attempts
ASSUME RevisionAssumption == MaxRevision \in Nat \ {0}

VARIABLES
    progress,    \* task.progress, "absent" before the row exists
    revision,    \* task.revision, 0 before the row exists
    delegTask,   \* delegation.task_id, None before the row exists
    delegRev,    \* delegation.task_revision
    inferred,    \* delegations with an inference_attempt row
    attemptOf,   \* action_attempt.delegation_id, None before the row exists
    certainty,   \* action_attempt.certainty
    sealed,      \* delegations with a task_result row
    stamped,     \* task_result_attempt: the attempts stamped on the result
    adoptedRev,  \* task_result.adopted_revision, 0 for NULL
    undelivered  \* the facts registered in the undelivered outbox

storeVars == <<progress, revision, delegTask, delegRev, inferred, attemptOf,
               certainty, sealed, stamped, adoptedRev, undelivered>>

-----------------------------------------------------------------------------
Certainties == {"unknown", "confirmed_success", "confirmed_failure"}
Terminal    == {"completed", "failed", "cancelled"}
Open        == {"started", "in_progress"}
Revisions   == 1..MaxRevision

\* What an undelivered row points at (UndeliveredSource::TaskRecord).
RevisionFact(t, r)    == <<"task_revision", t, r>>
DelegationFact(d)     == <<"delegation", d>>
AttemptFact(a, c)     == <<"action_attempt", a, c>>
RecordedFact(d)       == <<"result_recorded", d>>
AdoptedFact(d)        == <<"result_adopted", d>>
TerminalFact(t, p)    == <<"terminal", t, p>>

Facts == {RevisionFact(t, r) : t \in Tasks, r \in Revisions}
         \cup {DelegationFact(d) : d \in Delegations}
         \cup {AttemptFact(a, c) : a \in Attempts, c \in Certainties}
         \cup {RecordedFact(d) : d \in Delegations}
         \cup {AdoptedFact(d) : d \in Delegations}
         \cup {TerminalFact(t, p) : t \in Tasks, p \in Terminal}

StoreTypeOK ==
    /\ progress \in [Tasks -> {"absent"} \cup Open \cup Terminal]
    /\ revision \in [Tasks -> 0..MaxRevision]
    /\ delegTask \in [Delegations -> Tasks \cup {None}]
    /\ delegRev \in [Delegations -> 0..MaxRevision]
    /\ inferred \in SUBSET Delegations
    /\ attemptOf \in [Attempts -> Delegations \cup {None}]
    /\ certainty \in [Attempts -> Certainties]
    /\ sealed \in SUBSET Delegations
    /\ stamped \in [Delegations -> SUBSET Attempts]
    /\ adoptedRev \in [Delegations -> 0..MaxRevision]
    /\ undelivered \in SUBSET Facts

StoreInit ==
    /\ progress = [t \in Tasks |-> "absent"]
    /\ revision = [t \in Tasks |-> 0]
    /\ delegTask = [d \in Delegations |-> None]
    /\ delegRev = [d \in Delegations |-> 0]
    /\ inferred = {}
    /\ attemptOf = [a \in Attempts |-> None]
    /\ certainty = [a \in Attempts |-> "unknown"]
    /\ sealed = {}
    /\ stamped = [d \in Delegations |-> {}]
    /\ adoptedRev = [d \in Delegations |-> 0]
    /\ undelivered = {}

-----------------------------------------------------------------------------
\* enumerate_delegation_attempts and enumerate_task_attempts.
AttemptsOf(d)   == {a \in Attempts : attemptOf[a] = d}
DelegsOf(t)     == {d \in Delegations : delegTask[d] = t}
TaskAttempts(t) == {a \in Attempts : \E d \in DelegsOf(t) : attemptOf[a] = d}

\* Mutated: the revision the work was delegated at is not compared.
PremiseCurrentAnyRevision(d) ==
    /\ delegTask[d] # None
    /\ progress[delegTask[d]] \in Open

\* The delegation's row exists, its Task is still at the delegated revision
\* and not terminal: the premise every start of work compares.
PremiseCurrent(d) ==
    /\ delegTask[d] # None
    /\ revision[delegTask[d]] = delegRev[d]
    /\ progress[delegTask[d]] \in Open

AllConfirmed(d) == \A a \in AttemptsOf(d) : certainty[a] = "confirmed_success"
NoneUnknown(t)  == \A a \in TaskAttempts(t) : certainty[a] # "unknown"

\* Mutated: only the result's own attempts are looked at.
AdoptableOwnAttempts(d) ==
    /\ d \in sealed
    /\ adoptedRev[d] = 0
    /\ PremiseCurrent(d)
    /\ AllConfirmed(d)

\* A recorded, unadopted result that adopt_result would adopt now.
Adoptable(d) ==
    /\ d \in sealed
    /\ adoptedRev[d] = 0
    /\ PremiseCurrent(d)
    /\ AllConfirmed(d)
    /\ NoneUnknown(delegTask[d])

\* has_adoptable_sealed_result: only the result's own attempts are looked at.
ResultAvailable(t) ==
    \E d \in DelegsOf(t) : /\ d \in sealed
                           /\ adoptedRev[d] = 0
                           /\ delegRev[d] = revision[t]
                           /\ AllConfirmed(d)

\* expected is the TaskRef a caller relied on.
ExpectedCurrent(t, expected) ==
    progress[t] \in Open /\ revision[t] = expected

-----------------------------------------------------------------------------
(* create_task: progress Started at the initial revision.                  *)
CreateTask(t) ==
    /\ progress[t] = "absent"
    /\ progress' = [progress EXCEPT ![t] = "started"]
    /\ revision' = [revision EXCEPT ![t] = 1]
    /\ undelivered' = undelivered \cup {RevisionFact(t, 1)}
    /\ UNCHANGED <<delegTask, delegRev, inferred, attemptOf, certainty,
                   sealed, stamped, adoptedRev>>

\* Mutated: the revision is raised without checked_next.
ForwardSteeringUnchecked(t, expected) ==
    /\ ExpectedCurrent(t, expected)
    /\ revision' = [revision EXCEPT ![t] = @ + 1]
    /\ undelivered' = undelivered \cup {RevisionFact(t, revision[t] + 1)}
    /\ UNCHANGED <<progress, delegTask, delegRev, inferred, attemptOf,
                   certainty, sealed, stamped, adoptedRev>>

(* forward_steering: a compare-and-set on (task, revision) of a task that  *)
(* is not terminal.  Progress is kept; the work at the old revision lapses *)
(* because its premise no longer holds.                                    *)
ForwardSteering(t, expected) ==
    /\ ExpectedCurrent(t, expected)
    /\ revision[t] < MaxRevision
    /\ revision' = [revision EXCEPT ![t] = @ + 1]
    /\ undelivered' = undelivered \cup {RevisionFact(t, revision[t] + 1)}
    /\ UNCHANGED <<progress, delegTask, delegRev, inferred, attemptOf,
                   certainty, sealed, stamped, adoptedRev>>

\* Mutated: the cancellation is not registered for delivery.
CancelTaskUnreported(t) ==
    /\ progress[t] \in Open
    /\ progress' = [progress EXCEPT ![t] = "cancelled"]
    /\ UNCHANGED <<revision, delegTask, delegRev, inferred, attemptOf,
                   certainty, sealed, stamped, adoptedRev, undelivered>>

(* cancel_task: needs no revision, only that the task is not terminal.     *)
CancelTask(t) ==
    /\ progress[t] \in Open
    /\ progress' = [progress EXCEPT ![t] = "cancelled"]
    /\ undelivered' = undelivered \cup {TerminalFact(t, "cancelled")}
    /\ UNCHANGED <<revision, delegTask, delegRev, inferred, attemptOf,
                   certainty, sealed, stamped, adoptedRev>>

(* fail_task, with the delegation the failure is attributed to, or None.   *)
FailTask(t, expected, cause) ==
    /\ ExpectedCurrent(t, expected)
    /\ cause # None => delegTask[cause] = t /\ delegRev[cause] = expected
    /\ progress' = [progress EXCEPT ![t] = "failed"]
    /\ undelivered' = undelivered \cup {TerminalFact(t, "failed")}
    /\ UNCHANGED <<revision, delegTask, delegRev, inferred, attemptOf,
                   certainty, sealed, stamped, adoptedRev>>

(* create_delegation: freezes the task's revision into the new row and     *)
(* moves the task to InProgress.                                           *)
CreateDelegation(d, t, expected) ==
    /\ delegTask[d] = None
    /\ ExpectedCurrent(t, expected)
    /\ delegTask' = [delegTask EXCEPT ![d] = t]
    /\ delegRev' = [delegRev EXCEPT ![d] = expected]
    /\ progress' = [progress EXCEPT ![t] = "in_progress"]
    /\ undelivered' = undelivered \cup {DelegationFact(d)}
    /\ UNCHANGED <<revision, inferred, attemptOf, certainty, sealed, stamped,
                   adoptedRev>>

\* Mutated: a sealed delegation may go on.
CanStartSealed(d) == PremiseCurrent(d)

(* begin_inference_attempt for a task agent (check_task_agent_premise).    *)
CanStart(d) == PremiseCurrent(d) /\ d \notin sealed

StartInference(d) ==
    /\ CanStart(d)
    /\ inferred' = inferred \cup {d}
    /\ UNCHANGED <<progress, revision, delegTask, delegRev, attemptOf,
                   certainty, sealed, stamped, adoptedRev, undelivered>>

(* insert_attempt_sync: the claim of an external effect, before the effect. *)
InsertAttempt(a, d) ==
    /\ attemptOf[a] = None
    /\ CanStart(d)
    /\ attemptOf' = [attemptOf EXCEPT ![a] = d]
    /\ certainty' = [certainty EXCEPT ![a] = "unknown"]
    /\ undelivered' = undelivered \cup {AttemptFact(a, "unknown")}
    /\ UNCHANGED <<progress, revision, delegTask, delegRev, inferred, sealed,
                   stamped, adoptedRev>>

(* compare_and_set_certainty: Unknown is the only certainty that moves.    *)
SetCertainty(a, c) ==
    /\ attemptOf[a] # None
    /\ certainty[a] = "unknown"
    /\ c # "unknown"
    /\ certainty' = [certainty EXCEPT ![a] = c]
    /\ undelivered' = undelivered \cup {AttemptFact(a, c)}
    /\ UNCHANGED <<progress, revision, delegTask, delegRev, inferred,
                   attemptOf, sealed, stamped, adoptedRev>>

(* record_task_result_arrival: seals the delegation.  It asks neither for  *)
(* the current revision nor for an open task: a late result is kept.       *)
RecordResult(d) ==
    /\ delegTask[d] # None
    /\ d \notin sealed
    /\ sealed' = sealed \cup {d}
    /\ undelivered' = undelivered \cup {RecordedFact(d)}
    /\ UNCHANGED <<progress, revision, delegTask, delegRev, inferred,
                   attemptOf, certainty, stamped, adoptedRev>>

-----------------------------------------------------------------------------
(* adopt_result.  The claim must be exactly the delegation's attempts,     *)
(* else the transaction fails.  An already adopted result only reports     *)
(* again what was decided (no action).                                     *)
ClaimMatches(d, claim) == claim = AttemptsOf(d)

\* stamp_result_attempts: a second stamp must repeat the first.
StampAttempts(d) ==
    /\ stamped[d] = {} \/ stamped[d] = AttemptsOf(d)
    /\ stamped' = [stamped EXCEPT ![d] = AttemptsOf(d)]

AdoptAsCompletion(d, claim) ==
    /\ Adoptable(d)
    /\ ClaimMatches(d, claim)
    /\ StampAttempts(d)
    /\ adoptedRev' = [adoptedRev EXCEPT ![d] = delegRev[d]]
    /\ progress' = [progress EXCEPT ![delegTask[d]] = "completed"]
    /\ undelivered' = undelivered \cup {AdoptedFact(d)}
    /\ UNCHANGED <<revision, delegTask, delegRev, inferred, attemptOf,
                   certainty, sealed>>

\* RecordedToOriginalOnly or WithheldByEffectFacts.
StampOnly(d, claim) ==
    /\ d \in sealed
    /\ adoptedRev[d] = 0
    /\ ~Adoptable(d)
    /\ ClaimMatches(d, claim)
    /\ StampAttempts(d)
    /\ UNCHANGED <<progress, revision, delegTask, delegRev, inferred,
                   attemptOf, certainty, sealed, adoptedRev, undelivered>>

AdoptResult(d, claim) == AdoptAsCompletion(d, claim) \/ StampOnly(d, claim)

-----------------------------------------------------------------------------
\* Mutated: attempts with an unknown effect do not hold a resume.
ResumableInDoubt(t, expected, free) ==
    /\ ExpectedCurrent(t, expected)
    /\ free
    /\ ~ResultAvailable(t)
    /\ revision[t] < MaxRevision

(* commit_task_resume: free is the caller's word that no execution of the  *)
(* task is reserved or running.  One transaction raises the revision and   *)
(* delegates the task again at the new one.  The holds of                  *)
(* NeedsRevalidation are refusals.                                         *)
Resumable(t, expected, free) ==
    /\ ExpectedCurrent(t, expected)
    /\ free
    /\ NoneUnknown(t)
    /\ ~ResultAvailable(t)
    /\ revision[t] < MaxRevision

\* Mutated: the delegation freezes the revision that was read.
CommitResumeOldRevision(t, expected, d, free) ==
    /\ Resumable(t, expected, free)
    /\ delegTask[d] = None
    /\ revision' = [revision EXCEPT ![t] = @ + 1]
    /\ delegTask' = [delegTask EXCEPT ![d] = t]
    /\ delegRev' = [delegRev EXCEPT ![d] = revision[t]]
    /\ progress' = [progress EXCEPT ![t] = "in_progress"]
    /\ undelivered' = undelivered \cup {RevisionFact(t, revision[t] + 1),
                                        DelegationFact(d)}
    /\ UNCHANGED <<inferred, attemptOf, certainty, sealed, stamped,
                   adoptedRev>>

CommitResume(t, expected, d, free) ==
    /\ Resumable(t, expected, free)
    /\ delegTask[d] = None
    /\ revision' = [revision EXCEPT ![t] = @ + 1]
    /\ delegTask' = [delegTask EXCEPT ![d] = t]
    /\ delegRev' = [delegRev EXCEPT ![d] = revision[t] + 1]
    /\ progress' = [progress EXCEPT ![t] = "in_progress"]
    /\ undelivered' = undelivered \cup {RevisionFact(t, revision[t] + 1),
                                        DelegationFact(d)}
    /\ UNCHANGED <<inferred, attemptOf, certainty, sealed, stamped,
                   adoptedRev>>

-----------------------------------------------------------------------------
TaskStep(t) ==
    \/ CreateTask(t)
    \/ CancelTask(t)
    \/ \E expected \in Revisions :
         \/ ForwardSteering(t, expected)
         \/ \E cause \in Delegations \cup {None} : FailTask(t, expected, cause)
         \/ \E d \in Delegations :
              \/ CreateDelegation(d, t, expected)
              \/ \E free \in BOOLEAN : CommitResume(t, expected, d, free)

WorkStep(d) ==
    \/ StartInference(d)
    \/ RecordResult(d)
    \/ \E a \in Attempts : InsertAttempt(a, d)
    \/ \E claim \in SUBSET Attempts : AdoptResult(d, claim)

SettleStep == \E a \in Attempts, c \in Certainties : SetCertainty(a, c)

StoreNext == \/ \E t \in Tasks : TaskStep(t)
             \/ \E d \in Delegations : WorkStep(d)
             \/ SettleStep

StoreSpec == StoreInit /\ [][StoreNext]_storeVars

-----------------------------------------------------------------------------
(* A task is completed exactly when one result of it is adopted, and that  *)
(* result was produced under the revision the task still has: no            *)
(* interleaving of steering, cancel, resume, a second delegation's result   *)
(* and a repeated adoption completes it twice or for an outdated purpose.   *)
Adopted(t) == {d \in DelegsOf(t) : adoptedRev[d] # 0}

AdoptionConsistent ==
    /\ \A t \in Tasks : progress[t] # "completed" => Adopted(t) = {}
    /\ \A t \in Tasks : progress[t] = "completed" =>
         \E d \in DelegsOf(t) : /\ Adopted(t) = {d}
                                /\ d \in sealed
                                /\ adoptedRev[d] = delegRev[d]
                                /\ delegRev[d] = revision[t]

(* Completion rests on confirmed effects for good: at no time after the     *)
(* adoption does the completed task own an attempt whose effect is unknown, *)
(* and every attempt of the adopted delegation succeeded.                   *)
CompletionConfirmed ==
    \A t \in Tasks : progress[t] = "completed" =>
        /\ NoneUnknown(t)
        /\ \A d \in Adopted(t) : AllConfirmed(d)

(* What a result was stamped with stays the complete list of the attempts   *)
(* of its delegation: no attempt slips in between the stamp and later.      *)
StampExact ==
    \A d \in Delegations :
        /\ stamped[d] # {} => stamped[d] = AttemptsOf(d)
        /\ adoptedRev[d] # 0 => stamped[d] = AttemptsOf(d)
        /\ stamped[d] # {} \/ adoptedRev[d] # 0 => d \in sealed

(* Every fact of the task tables the owner must be told is in the outbox,   *)
(* and the outbox reports nothing else (register_undelivered_tx,             *)
(* in the transaction of the row it reports).                                *)
TableFacts ==
    (UNION {{RevisionFact(t, r) : r \in 1..revision[t]} : t \in Tasks})
    \cup {DelegationFact(d) : d \in {x \in Delegations : delegTask[x] # None}}
    \cup {AttemptFact(a, "unknown") : a \in {x \in Attempts : attemptOf[x] # None}}
    \cup {AttemptFact(a, certainty[a]) : a \in {x \in Attempts : attemptOf[x] # None}}
    \cup {RecordedFact(d) : d \in sealed}
    \cup {AdoptedFact(d) : d \in {x \in Delegations : adoptedRev[x] # 0}}
    \cup {TerminalFact(t, progress[t]) :
              t \in {x \in Tasks : progress[x] \in {"failed", "cancelled"}}}

OutboxComplete == undelivered = TableFacts

(* The promise of the tables to the rest of the host, as a specification of *)
(* its own: see TaskLifecycle.                                              *)
StageOf  == [t \in Tasks |-> IF progress[t] \in Open THEN "open" ELSE progress[t]]
CrewOf   == [t \in Tasks |-> {d \in DelegsOf(t) : delegRev[d] = revision[t]}]
DoubtOf  == [t \in Tasks |-> {a \in TaskAttempts(t) : certainty[a] = "unknown"}]
AnswerOf == [t \in Tasks |-> Adopted(t)]

Lifecycle == INSTANCE TaskLifecycle WITH
    Units <- Delegations, Epochs <- Revisions, stage <- StageOf,
    epoch <- revision, crew <- CrewOf, doubt <- DoubtOf, answer <- AnswerOf

(* The tables implement the lifecycle: work starts only for the current     *)
(* epoch, the one answer comes from the current crew while nothing is in    *)
(* doubt, a restart waits for every doubt to be resolved, the end is final. *)
LifecycleSpec == Lifecycle!Spec
=============================================================================
