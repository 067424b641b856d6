--------------------------- MODULE DeletionStore ---------------------------
(***************************************************************************)
(* The durable side of a targeted deletion: the rows of                    *)
(* `deletion_request`, `deletion_confirmation`, `deletion_operation`,      *)
(* `deletion_participant`, `deletion_reconciliation`,                      *)
(* `erasure_condition_source`, `erasure_use_hold` and the completion       *)
(* audit, the content they are about, and the transactions of ene-store    *)
(* that write them.                                                        *)
(*                                                                         *)
(* Each transaction is one action, for an arbitrary caller; a refusal that *)
(* writes nothing is a stuttering step.  A stale condition (another sweep  *)
(* than the operation's) is a refusal, so an action takes no sweep: what   *)
(* may happen is what may happen to a caller who names the current one.    *)
(*                                                                         *)
(* Abstracted data.  An operation is named by its request (request_id is   *)
(* UNIQUE).  A row of content carries one text.  Rows stands for the six   *)
(* tables of KNOWN_SOURCE_IDENTITIES, walked in the order of their random  *)
(* ids; surfaces stands for the tables whose rows come and go through their *)
(* own participants without being covered sources (permissions,            *)
(* credentials, presence), which system_remainder reads too.               *)
(* Semantic hints, counts of erased rows and times are left out, and of    *)
(* the uses a deletion can hold the task delegations.                      *)
(***************************************************************************)
EXTENDS Naturals, FiniteSets

CONSTANTS
    Requests,       \* ids of deletion requests
    Texts,          \* exact texts an owner may want deleted
    Purposes,       \* DeletionPurpose
    Local,          \* the participants every operation requires
    Clients,        \* client incarnations, required when evidence is durable
    HostTransient,  \* ParticipantOwnerRef::HostTransient
    Rows,           \* ids of rows of content
    Uses,           \* ids of learning formations, and of inference attempts
    PageSize,       \* rows of one page of reconciliation
    MaxSweep,       \* the last sweep; checked_add fails on it
    None            \* NULL, or no row

ASSUME NoneIsNoValue == None \notin Texts \cup Purposes
ASSUME TextsAreNoMarks == {"fresh", "gone", "clear"} \cap Texts = {}
ASSUME HostTransientIsLocal == HostTransient \in Local
ASSUME ClientsAreNotLocal == Local \cap Clients = {}
ASSUME RowsAreOrdered == Rows \subseteq Nat \ {0} /\ IsFiniteSet(Rows)
ASSUME PageSizePositive == PageSize \in Nat \ {0}
ASSUME MaxSweepPositive == MaxSweep \in Nat \ {0}

VARIABLES
    purpose,    \* deletion_request.purpose, None before the row exists
    exactText,  \* deletion_request.exact_text
    confirmed,  \* requests with a deletion_confirmation
    phase,      \* deletion_operation.phase, "none" before the row exists
    sweep,      \* deletion_operation.sweep
    hold,       \* deletion_operation.hold_reason
    material,   \* deletion_search_material.exact_text
    progress,   \* deletion_participant.state, "absent" without a row
    seenSweep,  \* deletion_participant.sweep
    cursor,     \* deletion_reconciliation.cursor
    complete,   \* operations whose deletion_reconciliation is complete
    covered,    \* erasure_condition_source of the current sweep
    audit,      \* deletion_completion_audit, None without a row
    body,       \* the text in a row; "fresh" before and "gone" after it
    surfaces,   \* texts found in tables without covered sources
    formation,  \* learning_formation: "none", "open" or "settled"
    sources,    \* learning_formation_source
    claims,     \* attempts with a row in inference_attempt
    dataUse,    \* inference_attempt_data_use
    held,       \* erasure_use_hold of formations
    claimHeld   \* erasure_use_hold of attempts

requestVars == <<purpose, exactText, confirmed>>
operationVars == <<phase, sweep, hold, material, audit>>
participantVars == <<progress, seenSweep>>
scanVars == <<cursor, complete, covered>>
contentVars == <<body, surfaces>>
useVars == <<formation, sources, claims, dataUse, held, claimHeld>>
deletionVars == <<requestVars, operationVars, participantVars, scanVars,
                  contentVars, useVars>>

-----------------------------------------------------------------------------
\* What a row may say: one of Texts, or none of them.
Bodies == Texts \cup {"clear"}

Owners == Local \cup Clients
Phases == {"active", "held", "finalizing", "completed"}
States == {"pending", "running", "local_complete", "verified", "held"}
Audits == [purpose : Purposes, sweeps : 1..MaxSweep,
           required : SUBSET Owners, verified : SUBSET Owners]

ASSUME NoneIsNoAudit == None \notin Audits

DeletionTypeOK ==
    /\ purpose \in [Requests -> Purposes \cup {None}]
    /\ exactText \in [Requests -> Texts \cup {None}]
    /\ confirmed \in SUBSET Requests
    /\ phase \in [Requests -> Phases \cup {"none"}]
    /\ sweep \in [Requests -> 0..MaxSweep]
    /\ hold \in [Requests -> {"no", "unavailable", "generation_exhausted"}]
    /\ material \in [Requests -> Texts \cup {None}]
    /\ progress \in [Requests -> [Owners -> States \cup {"absent"}]]
    /\ seenSweep \in [Requests -> [Owners -> 0..MaxSweep]]
    /\ cursor \in [Requests -> Rows \cup {0}]
    /\ complete \in SUBSET Requests
    /\ covered \in [Requests -> SUBSET Rows]
    /\ audit \in [Requests -> Audits \cup {None}]
    /\ body \in [Rows -> Bodies \cup {"fresh", "gone"}]
    /\ surfaces \in SUBSET Texts
    /\ formation \in [Uses -> {"none", "open", "settled"}]
    /\ sources \in [Uses -> SUBSET Rows]
    /\ claims \in SUBSET Uses
    /\ dataUse \in [Uses -> SUBSET Rows]
    /\ held \in [Uses -> SUBSET Requests]
    /\ claimHeld \in [Uses -> SUBSET Requests]

DeletionInit ==
    /\ purpose = [q \in Requests |-> None]
    /\ exactText = [q \in Requests |-> None]
    /\ confirmed = {}
    /\ phase = [q \in Requests |-> "none"]
    /\ sweep = [q \in Requests |-> 0]
    /\ hold = [q \in Requests |-> "no"]
    /\ material = [q \in Requests |-> None]
    /\ progress = [q \in Requests |-> [p \in Owners |-> "absent"]]
    /\ seenSweep = [q \in Requests |-> [p \in Owners |-> 0]]
    /\ cursor = [q \in Requests |-> 0]
    /\ complete = {}
    /\ covered = [q \in Requests |-> {}]
    /\ audit = [q \in Requests |-> None]
    /\ body = [m \in Rows |-> "fresh"]
    /\ surfaces = {}
    /\ formation = [f \in Uses |-> "none"]
    /\ sources = [f \in Uses |-> {}]
    /\ claims = {}
    /\ dataUse = [f \in Uses |-> {}]
    /\ held = [f \in Uses |-> {}]
    /\ claimHeld = [f \in Uses |-> {}]

-----------------------------------------------------------------------------
Unfinished == {q \in Requests : phase[q] \in {"active", "held", "finalizing"}}

\* unreconciled_operations: those whose covered sources are not all known.
Unreconciled == {q \in Requests : phase[q] \in {"active", "held"}} \ complete

Required(q) == {p \in Owners : progress[q][p] # "absent"}
Verified(q) == {p \in Owners : progress[q][p] = "verified"}

\* Mutated: an operation that is being finalised no longer covers its text.
TextCoveredUntilFinalizing(t) ==
    \E q \in Unfinished : phase[q] # "finalizing" /\ material[q] = t

\* covering_text: some unfinished operation is about the text.
TextCovered(t) == \E q \in Unfinished : material[q] = t

\* source_identity_carries and source_identity_exists.
Carries(m, q) == body[m] = material[q]
Exists(m)     == body[m] \notin {"fresh", "gone"}

\* covering_condition for one source of a use.
SourceCovered(m) ==
    \/ \E q \in Unfinished : m \in covered[q]
    \/ \E q \in Unreconciled : Carries(m, q)

\* claimed_formation_covers and claimed_attempt_covers, for every operation
\* whose sources are not all known yet.
CoversFormation(S) ==
    {q \in Unreconciled : S = {} \/ \E m \in S : Carries(m, q) \/ ~Exists(m)}
CoversClaim(S) == {q \in Unreconciled : \E m \in S : Carries(m, q)}

\* inflight_learning_formation_held: another execution over one of the
\* sources is held.
FormationHeld(S) ==
    \E f \in Uses : formation[f] = "open" /\ held[f] # {} /\ sources[f] \cap S # {}

\* system_remainder.
Remainder(t) == t \in surfaces \/ \E m \in Rows : body[m] = t

-----------------------------------------------------------------------------
\* The next page of rows that carry t, in the order of their ids.
Page(t, after) ==
    LET rest == {m \in Rows : m > after /\ body[m] = t}
    IN  {m \in rest : Cardinality({n \in rest : n < m}) < PageSize}

LastOf(page, after) ==
    IF page = {} THEN after ELSE CHOOSE m \in page : \A n \in page : n <= m

\* associate_reconciled_page, and mark_inflight_uses at admission: whoever
\* uses one of the sources is held for the operation.
Associate(q, page) ==
    /\ claimHeld' = [f \in Uses |->
            IF f \in claims /\ dataUse[f] \cap page # {}
            THEN claimHeld[f] \cup {q} ELSE claimHeld[f]]
    /\ held' = [f \in Uses |->
            IF formation[f] = "open" /\ sources[f] \cap page # {}
            THEN held[f] \cup {q} ELSE held[f]]

\* reconcile_table_page from a cursor, over the sources known before.
ScanPage(q, t, after, known) ==
    LET page == Page(t, after) IN
    /\ covered' = [covered EXCEPT ![q] = known \cup page]
    /\ cursor' = [cursor EXCEPT ![q] = LastOf(page, after)]
    /\ complete' = IF Cardinality(page) < PageSize
                   THEN complete \cup {q} ELSE complete \ {q}
    /\ Associate(q, page)

-----------------------------------------------------------------------------
(* stage_targeted_deletion: a new request, unless an unfinished operation  *)
(* or a request for the same text and purpose exists.                      *)
Stage(q, t, u) ==
    /\ purpose[q] = None
    /\ ~TextCovered(t)
    /\ \A x \in Requests : ~(exactText[x] = t /\ purpose[x] = u)
    /\ purpose' = [purpose EXCEPT ![q] = u]
    /\ exactText' = [exactText EXCEPT ![q] = t]
    /\ UNCHANGED <<confirmed, operationVars, participantVars, scanVars,
                   contentVars, useVars>>

(* confirm_targeted_deletion, its first transaction.                       *)
Confirm(q) ==
    /\ purpose[q] # None
    /\ confirmed' = confirmed \cup {q}
    /\ UNCHANGED <<purpose, exactText, operationVars, participantVars,
                   scanVars, contentVars, useVars>>

\* Mutated: nobody looks for an unfinished operation on the same text.
StartableAnyway(q) ==
    phase[q] = "none" /\ q \in confirmed /\ exactText[q] # None

\* What start_confirmed_targeted_deletion and admit_deletion ask.
Startable(q) ==
    /\ phase[q] = "none"
    /\ q \in confirmed
    /\ exactText[q] # None
    /\ ~TextCovered(exactText[q])

(* start_confirmed_targeted_deletion and admit_deletion: the operation of  *)
(* a confirmed request, with its first page of sources.  clients are the   *)
(* incarnations with durable delivery evidence at that moment.             *)
Start(q, clients) ==
    /\ Startable(q)
    /\ phase' = [phase EXCEPT ![q] = "active"]
    /\ sweep' = [sweep EXCEPT ![q] = 1]
    /\ material' = [material EXCEPT ![q] = exactText[q]]
    /\ progress' = [progress EXCEPT ![q] =
            [p \in Owners |-> IF p \in Local \cup clients
                              THEN "pending" ELSE "absent"]]
    /\ seenSweep' = [seenSweep EXCEPT ![q] =
            [p \in Owners |-> IF p \in Local \cup clients THEN 1 ELSE 0]]
    /\ ScanPage(q, exactText[q], 0, {})
    /\ UNCHANGED <<requestVars, hold, audit, contentVars, formation, sources,
                   claims, dataUse>>

-----------------------------------------------------------------------------
\* Mutated: the comparison lets the last sweep be passed.
AdvancesPastLast(q) == sweep[q] <= MaxSweep

\* checked_add succeeds.
Advances(q) == sweep[q] < MaxSweep

\* What open_next_sweep leaves of a participant's report.
ResetReport(q, p) ==
    IF progress[q][p] = "absent" THEN "absent" ELSE "pending"

(* open_next_sweep, for every operation of Q: all participants and the     *)
(* reconciliation start again, the covered sources are carried over.  An   *)
(* operation without a next sweep is held for good.                        *)
OpenNext(Q) ==
    LET next == {q \in Q : Advances(q)} IN
    /\ phase' = [q \in Requests |->
            IF q \in next THEN "active" ELSE IF q \in Q THEN "held" ELSE phase[q]]
    /\ hold' = [q \in Requests |->
            IF q \in next THEN "no"
            ELSE IF q \in Q THEN "generation_exhausted" ELSE hold[q]]
    /\ sweep' = [q \in Requests |->
            IF q \in next THEN sweep[q] + 1 ELSE sweep[q]]
    /\ progress' = [q \in Requests |-> [p \in Owners |->
            IF q \in next THEN ResetReport(q, p) ELSE progress[q][p]]]
    /\ seenSweep' = [q \in Requests |-> [p \in Owners |->
            IF q \in next /\ progress[q][p] # "absent"
            THEN sweep[q] + 1 ELSE seenSweep[q][p]]]
    /\ cursor' = [q \in Requests |-> IF q \in next THEN 0 ELSE cursor[q]]
    /\ complete' = complete \ next
    /\ UNCHANGED <<requestVars, material, audit, covered, contentVars, useVars>>

\* What change_deletion_lifecycle asks of an operation before any change.
Changeable(q) == q \in Unfinished /\ hold[q] # "generation_exhausted"

(* DeletionLifecycleChange::Hold.                                          *)
HoldOperation(q) ==
    /\ Changeable(q)
    /\ phase[q] # "finalizing"
    /\ phase' = [phase EXCEPT ![q] = "held"]
    /\ hold' = [hold EXCEPT ![q] = "unavailable"]
    /\ UNCHANGED <<requestVars, sweep, material, audit, participantVars,
                   scanVars, contentVars, useVars>>

(* DeletionLifecycleChange::Resume.                                        *)
ResumeOperation(q) ==
    /\ Changeable(q)
    /\ phase[q] # "finalizing"
    /\ phase' = [phase EXCEPT ![q] = "active"]
    /\ hold' = [hold EXCEPT ![q] = "no"]
    /\ UNCHANGED <<requestVars, sweep, material, audit, participantVars,
                   scanVars, contentVars, useVars>>

(* DeletionLifecycleChange::NextSweep.                                     *)
NextSweep(q) ==
    /\ Changeable(q)
    /\ phase[q] # "held"
    /\ material[q] # None
    /\ OpenNext({q})

\* Mutated: an operation whose completion is already recorded is reopened.
ArrivalReopens(q) ==
    \/ phase[q] \in {"finalizing", "completed"}
    \/ q \in Unfinished /\ progress[q][HostTransient] = "verified"

\* Something arrived in the memory of the host after its participant said
\* that there was nothing.
ArrivalMatters(q) ==
    \/ phase[q] = "finalizing"
    \/ q \in Unfinished /\ progress[q][HostTransient] = "verified"

(* note_host_transient_learning_arrival for a page of operations.          *)
NoteArrival(Q) ==
    /\ \E q \in Q : ArrivalMatters(q)
    /\ OpenNext({q \in Q : ArrivalMatters(q)})

-----------------------------------------------------------------------------
(* begin_participant_demand.                                               *)
BeginDemand(q, p) ==
    /\ q \in Unfinished
    /\ progress[q][p] \notin {"absent", "verified"}
    /\ progress' = [progress EXCEPT ![q][p] = "running"]
    /\ UNCHANGED <<requestVars, operationVars, seenSweep, scanVars,
                   contentVars, useVars>>

(* record_participant_completion: MoreWork, LocalComplete, Verified, Held. *)
RecordCompletion(q, p, state) ==
    /\ q \in Unfinished
    /\ progress[q][p] \notin {"absent", "verified"}
    /\ progress' = [progress EXCEPT ![q][p] = state]
    /\ seenSweep' = IF state = "held" THEN seenSweep
                    ELSE [seenSweep EXCEPT ![q][p] = sweep[q]]
    /\ UNCHANGED <<requestVars, operationVars, scanVars, contentVars, useVars>>

(* reconcile_deletion_sources.                                             *)
Reconcile(q) ==
    /\ q \in Unreconciled
    /\ ScanPage(q, material[q], cursor[q], covered[q])
    /\ UNCHANGED <<requestVars, operationVars, participantVars, contentVars,
                   formation, sources, claims, dataUse>>

\* Mutated: begin_deletion_finalizing does not ask for the reconciliation.
ReadyUnreconciled(q) ==
    /\ phase[q] = "active"
    /\ Verified(q) = Required(q)

\* What begin_deletion_finalizing asks of the operation.
ReadyToFinalize(q) ==
    /\ phase[q] = "active"
    /\ Verified(q) = Required(q)
    /\ q \in complete

(* begin_deletion_finalizing.                                              *)
BeginFinalizing(q) ==
    /\ ReadyToFinalize(q)
    /\ ~Remainder(material[q])
    /\ phase' = [phase EXCEPT ![q] = "finalizing"]
    /\ hold' = [hold EXCEPT ![q] = "no"]
    /\ UNCHANGED <<requestVars, sweep, material, audit, participantVars,
                   scanVars, contentVars, useVars>>

(* return_to_active_for_remainder, from either finalising transaction.     *)
CollectRemainder(q) ==
    /\ ReadyToFinalize(q) \/ phase[q] = "finalizing"
    /\ Remainder(material[q])
    /\ OpenNext({q})

(* complete_deletion_finalizing: material, sources and the text of the     *)
(* request are destroyed with the commit that records the audit.           *)
CompleteFinalizing(q) ==
    /\ phase[q] = "finalizing"
    /\ material[q] # None
    /\ ~Remainder(material[q])
    /\ phase' = [phase EXCEPT ![q] = "completed"]
    /\ hold' = [hold EXCEPT ![q] = "no"]
    /\ material' = [material EXCEPT ![q] = None]
    /\ exactText' = [exactText EXCEPT ![q] = None]
    /\ covered' = [covered EXCEPT ![q] = {}]
    /\ cursor' = [cursor EXCEPT ![q] = 0]
    /\ complete' = complete \ {q}
    /\ audit' = [audit EXCEPT ![q] =
            [purpose |-> purpose[q], sweeps |-> sweep[q],
             required |-> Required(q), verified |-> Verified(q)]]
    /\ UNCHANGED <<purpose, confirmed, sweep, participantVars, contentVars,
                   useVars>>

-----------------------------------------------------------------------------
(* A row of content is stored (history, activity, action): refused when an *)
(* unfinished operation covers its text.                                   *)
StoreRow(m, t) ==
    /\ body[m] = "fresh"
    /\ ~TextCovered(t)
    /\ body' = [body EXCEPT ![m] = t]
    /\ UNCHANGED <<requestVars, operationVars, participantVars, scanVars,
                   surfaces, useVars>>

(* record_task_result_arrival: a covered text is redacted, and so is what  *)
(* the delegation says when it is held itself.                             *)
StoreResult(m, t, delegationHeld) ==
    /\ body[m] = "fresh"
    /\ body' = [body EXCEPT ![m] = IF delegationHeld \/ TextCovered(t)
                                  THEN "clear" ELSE t]
    /\ UNCHANGED <<requestVars, operationVars, participantVars, scanVars,
                   surfaces, useVars>>

(* A table whose rows are no covered sources takes up or loses a text.     *)
ChangeSurface(t) ==
    /\ surfaces' = IF t \in surfaces THEN surfaces \ {t} ELSE surfaces \cup {t}
    /\ UNCHANGED <<requestVars, operationVars, participantVars, scanVars,
                   body, useVars>>

(* bounded_step of a local participant, under a condition that is current: *)
(* the rows of companion and learning go, those of task and action stay    *)
(* without the text.                                                       *)
EraseRow(q, m, left) ==
    /\ q \in Unfinished
    /\ Carries(m, q)
    /\ body' = [body EXCEPT ![m] = left]
    /\ UNCHANGED <<requestVars, operationVars, participantVars, scanVars,
                   surfaces, useVars>>

-----------------------------------------------------------------------------
\* Mutated: only the operations that are still being reconciled are asked.
HoldersUnreconciled(S) == CoversFormation(S)

\* The operations that hold a formation over S the moment it is published.
Holders(S) ==
    CoversFormation(S)
    \cup {q \in Unfinished : S = {} \/ covered[q] \cap S # {}}

(* begin_learning_formation: publish_learning_formation.                   *)
BeginFormation(f, S) ==
    /\ formation[f] = "none"
    /\ formation' = [formation EXCEPT ![f] = "open"]
    /\ sources' = [sources EXCEPT ![f] = S]
    /\ held' = [held EXCEPT ![f] = Holders(S)]
    /\ UNCHANGED <<requestVars, operationVars, participantVars, scanVars,
                   contentVars, claims, dataUse, claimHeld>>

(* learning_formation_must_refuse writes what held_use finds.              *)
CheckFormation(f) ==
    /\ formation[f] = "open"
    /\ held' = [held EXCEPT ![f] = @ \cup CoversFormation(sources[f])]
    /\ UNCHANGED <<requestVars, operationVars, participantVars, scanVars,
                   contentVars, formation, sources, claims, dataUse, claimHeld>>

(* settle_learning_formation: the holds stay.                              *)
SettleFormation(f) ==
    /\ formation[f] = "open"
    /\ formation' = [formation EXCEPT ![f] = "settled"]
    /\ sources' = [sources EXCEPT ![f] = {}]
    /\ UNCHANGED <<requestVars, operationVars, participantVars, scanVars,
                   contentVars, claims, dataUse, held, claimHeld>>

\* What begin_inference_attempt asks about the data it is going to use.
MayClaim(S) == ~FormationHeld(S) /\ \A m \in S : ~SourceCovered(m)

(* begin_inference_attempt, as far as deletion is concerned.               *)
BeginClaim(f, S) ==
    /\ f \notin claims
    /\ MayClaim(S)
    /\ claims' = claims \cup {f}
    /\ dataUse' = [dataUse EXCEPT ![f] = S]
    /\ UNCHANGED <<requestVars, operationVars, participantVars, scanVars,
                   contentVars, formation, sources, held, claimHeld>>

\* held_use for an attempt.
ClaimIsHeld(f) == claimHeld[f] # {} \/ CoversClaim(dataUse[f]) # {}

(* inference_claim_held, and a commit it refuses: what is found is kept.   *)
HoldClaim(f) ==
    /\ f \in claims
    /\ CoversClaim(dataUse[f]) # {}
    /\ claimHeld' = [claimHeld EXCEPT ![f] = @ \cup CoversClaim(dataUse[f])]
    /\ UNCHANGED <<requestVars, operationVars, participantVars, scanVars,
                   contentVars, formation, sources, claims, dataUse, held>>

(* commit_change_sync: a memory, new or revised, and a summary over        *)
(* the ends of its source range or none.  A reply to the message of the    *)
(* owner (append_history) asks the same questions.                         *)
CommitMemory(f, ends, said) ==
    /\ f \in claims
    /\ ~ClaimIsHeld(f)
    /\ \A n \in ends : ~SourceCovered(n)
    /\ \A m \in DOMAIN said : body[m] # "gone" /\ ~TextCovered(said[m])
    /\ body' = [m \in Rows |-> IF m \in DOMAIN said THEN said[m] ELSE body[m]]
    /\ UNCHANGED <<requestVars, operationVars, participantVars, scanVars,
                   surfaces, useVars>>

-----------------------------------------------------------------------------
RequestStep(q) ==
    \/ \E t \in Texts, u \in Purposes : Stage(q, t, u)
    \/ Confirm(q)
    \/ \E clients \in SUBSET Clients : Start(q, clients)

OperationStep(q) ==
    \/ HoldOperation(q)
    \/ ResumeOperation(q)
    \/ NextSweep(q)
    \/ Reconcile(q)
    \/ BeginFinalizing(q)
    \/ CollectRemainder(q)
    \/ CompleteFinalizing(q)

ParticipantStep(q, p) ==
    \/ BeginDemand(q, p)
    \/ \E state \in States \ {"pending"} : RecordCompletion(q, p, state)

ContentStep ==
    \/ \E m \in Rows, t \in Bodies : StoreRow(m, t)
    \/ \E m \in Rows, t \in Bodies, h \in BOOLEAN : StoreResult(m, t, h)
    \/ \E t \in Texts : ChangeSurface(t)
    \/ \E q \in Requests, m \in Rows, left \in {"gone", "clear"} :
            EraseRow(q, m, left)

UseStep(f) ==
    \/ \E S \in SUBSET Rows : BeginFormation(f, S)
    \/ CheckFormation(f)
    \/ SettleFormation(f)
    \/ \E S \in SUBSET Rows : BeginClaim(f, S)
    \/ HoldClaim(f)
    \/ \E m \in Rows : \E said \in [{m} -> Bodies] : CommitMemory(f, {}, said)
    \/ \E m, n \in Rows : \E said \in [{m, n} -> Bodies] :
            CommitMemory(f, dataUse[f], said)

DeletionNext ==
    \/ \E q \in Requests : RequestStep(q)
    \/ \E q \in Requests : OperationStep(q)
    \/ \E q \in Requests, p \in Owners : ParticipantStep(q, p)
    \/ \E Q \in SUBSET Requests : NoteArrival(Q)
    \/ ContentStep
    \/ \E f \in Uses : UseStep(f)

DeletionSpec == DeletionInit /\ [][DeletionNext]_deletionVars

-----------------------------------------------------------------------------
\* What `validate` asks of the row of an operation.
ValidOperation(q) ==
    /\ sweep[q] > 0
    /\ phase[q] = "held" <=> hold[q] # "no"
    /\ q \in confirmed /\ purpose[q] # None
    /\ phase[q] # "completed" =>
            material[q] # None /\ exactText[q] = material[q]
    /\ phase[q] = "completed" =>
            /\ material[q] = None /\ exactText[q] = None
            /\ covered[q] = {} /\ q \notin complete

\* What `validate` asks of the participants of an operation.
ValidParticipants(q) ==
    /\ Required(q) # {}
    /\ \A p \in Required(q) : seenSweep[q][p] = sweep[q]
    /\ phase[q] \in {"finalizing", "completed"} => Verified(q) = Required(q)

\* What `validate_reconciliation` asks, and `validate` of the audit.
ValidRecords(q) ==
    /\ phase[q] = "finalizing" => q \in complete
    /\ phase[q] = "completed" <=> audit[q] # None
    /\ audit[q] # None =>
            /\ audit[q].purpose = purpose[q]
            /\ audit[q].sweeps = sweep[q]
            /\ audit[q].required = Required(q)
            /\ audit[q].verified = audit[q].required

(* No sequence of transactions, in whatever order they arrive, produces    *)
(* rows that ene-store itself calls corrupt: `validate` runs in most of    *)
(* them, so such a row would stop the deletion, and every write it covers, *)
(* for good.  In particular an operation is completed only with every      *)
(* required participant verified in its last sweep.                        *)
ValidRows ==
    \A q \in Requests :
        /\ phase[q] # "none" =>
                ValidOperation(q) /\ ValidParticipants(q) /\ ValidRecords(q)
        /\ phase[q] = "none" =>
                /\ material[q] = None /\ audit[q] = None
                /\ covered[q] = {} /\ Required(q) = {}

(* Two unfinished operations are never about the same text, although their *)
(* requests may have been staged side by side and are confirmed and        *)
(* started in transactions of their own.                                   *)
OneOperationPerText ==
    \A q, x \in Unfinished : q # x => material[q] # material[x]

(* A use of a source that an unfinished operation knows to be covered is   *)
(* held for that operation, whether the use was published before the       *)
(* source was found, after it, or in the middle of the reconciliation, and *)
(* through every later sweep.                                              *)
CoveredUsesHeld ==
    \A q \in Unfinished, f \in Uses :
        /\ formation[f] = "open" /\ sources[f] \cap covered[q] # {}
               => q \in held[f]
        /\ f \in claims /\ dataUse[f] \cap covered[q] # {}
               => q \in claimHeld[f]

(* When the reconciliation of an unfinished operation is complete, every   *)
(* row that carries its text is a covered source, although rows are stored *)
(* while the pages are read, some behind the cursor.                       *)
ReconciledRowsCovered ==
    \A q \in Unfinished \cap complete, m \in Rows :
        Carries(m, q) => m \in covered[q]

(* A completed deletion stays completed: its rows, its audit included, are *)
(* never written again, and no late arrival, demand or report reopens it.  *)
CompletedIsFinal ==
    [][\A q \in Requests : phase[q] = "completed" =>
          /\ phase'[q] = "completed"
          /\ sweep'[q] = sweep[q]
          /\ progress'[q] = progress[q]
          /\ audit'[q] = audit[q]]_deletionVars

(* What docs/design/critical-areas/targeted-deletion.md says of a          *)
(* completed deletion: the text is gone from every internal data area that *)
(* could restore it, documented or not.  A confirmed request for the same  *)
(* text, which was answered AlreadyCoveredBy, is such an area.             *)
=============================================================================
