--------------------------- MODULE HostTransient ---------------------------
(***************************************************************************)
(* What the host keeps in memory of conversations and a targeted deletion  *)
(* must not leave behind: the queue of experiences waiting to be learned   *)
(* (LearningFormationQueue), the copies dialogue rounds are about to queue *)
(* (LearningPinGuard), the arrivals that have still to be told to the      *)
(* deletions (HostTransientArrival), the participant that empties the      *)
(* queue (HostTransientParticipant) and the driver that asks it            *)
(* (targeted_deletion.rs).                                                 *)
(*                                                                         *)
(* What runs under the arrival gate is one action, except the two          *)
(* transactions that finish an operation: while the driver is at "complete" *)
(* or "finish" it keeps the gate.  The queue's own mutex is not the gate:   *)
(* the learning worker takes from the queue at any time.                   *)
(*                                                                         *)
(* Abstracted data.  A message says a set of deleted texts, one text per   *)
(* operation.  The other local participants and the reconciliation are     *)
(* detailed in DeletionStore: here Sweep covers and erases every row that  *)
(* carries the text.  Counts of erased items are left out.                 *)
(***************************************************************************)
EXTENDS Naturals, Sequences, SequencesExt, FiniteSets

CONSTANTS
    Rounds,       \* dialogue rounds that end with an answer
    Ops,          \* deletion operations, in the order of their ids
    MaxRows,      \* bound: messages written
    Window,       \* EXPERIENCE_SOURCE_MESSAGES
    QueueCap,     \* LEARNING_FORMATION_QUEUE_CAP
    QueuePage,    \* HOST_TRANSIENT_LEARNING_QUEUE_PAGE
    ArrivalPage,  \* HOST_TRANSIENT_ARRIVAL_PAGE
    MaxSweep,     \* bound: the last sweep of an operation
    MaxFails,     \* bound: store calls of this component that fail
    MaxCrashes,   \* bound: ends of the host process
    None          \* no value

HostTransientAssumption ==
    /\ Ops \subseteq Nat \ {0} /\ IsFiniteSet(Ops)
    /\ {MaxRows, Window, QueueCap, QueuePage, ArrivalPage, MaxSweep} \subseteq Nat \ {0}
    /\ {MaxFails, MaxCrashes} \subseteq Nat

VARIABLES
    rows,       \* history_message in order of time: the texts said, or None
    phase,      \* deletion_operation.phase
    sweep,      \* deletion_operation.sweep
    host,       \* deletion_participant.state of host_transient
    covered,    \* erasure_condition_source
    complete,   \* operations whose reconciliation is complete
    pending,    \* LearningFormationQueue.pending
    taken,      \* LearningFormationQueue.taken
    queueGen,   \* LearningFormationQueue.mutation_generation
    round,      \* what each round does about its experience
    copy,       \* the experience a pinned round has read
    worker,     \* where the learning worker is
    formed,     \* the experience of its formation and the holds on that
    scan,       \* ArrivalPublishState.scan_incomplete
    owed,       \* ArrivalPublishState.owed
    after,      \* ArrivalPublishState.after
    chain,      \* ArrivalPublishState.chain_generation
    verifiedGen,\* HostTransientArrival.verified_generation
    examined,   \* HostTransientParticipant.sweep, per operation
    driver,     \* where the driver of deletions is
    fails, crashes

rowVars     == <<rows, covered, complete>>
opVars      == <<phase, sweep, host>>
queueVars   == <<pending, taken, queueGen>>
roundVars   == <<round, copy>>
workerVars  == <<worker, formed>>
arrivalVars == <<scan, owed, after, chain>>
sweepVars   == <<verifiedGen, examined>>
boundVars   == <<fails, crashes>>
vars == <<rowVars, opVars, queueVars, roundVars, workerVars, arrivalVars,
          sweepVars, driver, boundVars>>

-----------------------------------------------------------------------------
Phases    == {"none", "active", "held", "finalizing", "completed"}
RoundPcs  == {"talking", "pinned", "read", "done"}
WorkerPcs == {"idle", "took", "begun", "forming"}
DriverPcs == {"idle", "sweep", "begin", "select", "apply", "check", "commit",
              "hold", "settle", "complete", "finish"}

NotExamined == [sweep |-> 0, gen |-> 0, sources |-> {}]
Resting     == [pc |-> "idle", op |-> None, sweep |-> 0, gen |-> 0, selected |-> {}]

Init ==
    /\ rows = <<>>
    /\ phase = [o \in Ops |-> "none"]
    /\ sweep = [o \in Ops |-> 0]
    /\ host = [o \in Ops |-> "pending"]
    /\ covered = [o \in Ops |-> {}]
    /\ complete = {}
    /\ pending = <<>> /\ taken = None /\ queueGen = 0
    /\ round = [r \in Rounds |-> "talking"]
    /\ copy = [r \in Rounds |-> None]
    /\ worker = "idle" /\ formed = None
    /\ scan = FALSE /\ owed = {} /\ after = None /\ chain = None
    /\ verifiedGen = 0
    /\ examined = [o \in Ops |-> NotExamined]
    /\ driver = Resting
    /\ fails = 0 /\ crashes = 0

Unfinished == {o \in Ops : phase[o] \in {"active", "held", "finalizing"}}

\* Nobody holds the arrival gate across an await.
GateFree == driver.pc \notin {"complete", "finish"}

\* Mutated: the guard of a pin is dropped as soon as it is made.
PinsDropped == {}

Pins == {r \in Rounds : round[r] \in {"pinned", "read"}}

\* snapshot_learning_remainder.
Remainder == ToSet(pending) \cup ({taken} \ {None})

\* SourceRangeRef: the first and the last message of an experience.
SourceOf(e) == <<CHOOSE m \in e.ids : \A n \in e.ids : m <= n,
                 CHOOSE m \in e.ids : \A n \in e.ids : n <= m>>

\* experience_covered, under the operation's current sweep.
Covers(o, e) == e.ids \cap covered[o] # {} \/ o \in e.says

\* experience_covers_operation.
CoversAny(o, E) == \E e \in E : Covers(o, e)

-----------------------------------------------------------------------------
\* open_next_sweep, for the operations of Q; the sources stay covered.
OpenNext(Q) ==
    LET next == {o \in Q : sweep[o] < MaxSweep} IN
    /\ phase' = [o \in Ops |-> IF o \in next THEN "active"
                               ELSE IF o \in Q THEN "held" ELSE phase[o]]
    /\ sweep' = [o \in Ops |-> IF o \in next THEN sweep[o] + 1 ELSE sweep[o]]
    /\ host' = [o \in Ops |-> IF o \in next THEN "pending" ELSE host[o]]
    /\ complete' = complete \ next

\* note_host_transient_learning_arrival: what it reopens of Q.
Noted(Q) == {o \in Q \cap Unfinished : phase[o] = "finalizing" \/ host[o] = "verified"}

\* The page unfinished_deletions returns after an operation.
UnfinishedPage(o) ==
    LET rest == {u \in Unfinished : o = None \/ u > o}
    IN  {u \in rest : Cardinality({v \in rest : v < u}) < ArrivalPage}

\* Did every page of this chain see the same queue?
OneRemainder(gen) == IF chain = None THEN after = None ELSE chain = gen

Clean == ~scan /\ owed = {}

\* The loop of publish_owed_learning_arrivals over one page, for the
\* experiences E at generation gen.  At operation f of the page the store
\* fails (None: it does not), looking the operation up or (noting) telling it.
PublishPage(E, gen, f, noting) ==
    LET page == UnfinishedPage(after)
        told == {o \in page : f = None \/ o < f}
    IN
    /\ OpenNext(Noted({o \in told : CoversAny(o, E)}))
    /\ owed' = (owed \ told) \cup (IF noting THEN {f} ELSE {})
    /\ \/ /\ f # None
          /\ scan' = TRUE
          /\ UNCHANGED <<after, chain>>
       \/ /\ f = None
          /\ Cardinality(page) < ArrivalPage
          /\ scan' = (owed' # {} \/ ~OneRemainder(gen))
          /\ after' = None /\ chain' = None
       \/ /\ f = None
          /\ Cardinality(page) = ArrivalPage
          /\ scan' = TRUE
          /\ after' = CHOOSE o \in page : \A p \in page : p <= o
          /\ chain' = IF after = None THEN gen ELSE chain

\* publish_owed_learning_arrivals once something is unpublished.
PublishUnclean(E, gen) ==
    \/ /\ E = {}
       /\ scan' = FALSE /\ owed' = {} /\ after' = None /\ chain' = None
       /\ UNCHANGED <<opVars, complete, fails>>
    \/ /\ E # {}
       /\ PublishPage(E, gen, None, FALSE)
       /\ UNCHANGED fails
    \/ /\ E # {} /\ fails < MaxFails
       /\ \E f \in UnfinishedPage(after) : \E noting \in {FALSE, CoversAny(f, E)} :
             PublishPage(E, gen, f, noting)
       /\ fails' = fails + 1
    \/ /\ fails < MaxFails
       /\ scan' = TRUE /\ fails' = fails + 1
       /\ UNCHANGED <<opVars, complete, owed, after, chain>>

\* publish_owed_learning_arrivals.
Publish(E, gen) ==
    IF Clean THEN UNCHANGED <<opVars, complete, arrivalVars, fails>>
             ELSE PublishUnclean(E, gen)

-----------------------------------------------------------------------------
(* A message is stored unless it says a text an operation deletes.         *)
Write(T) ==
    /\ Len(rows) < MaxRows
    /\ T \cap Unfinished = {}
    /\ rows' = Append(rows, T)
    /\ UNCHANGED <<covered, complete, opVars, queueVars, roundVars, workerVars,
                   arrivalVars, sweepVars, driver, boundVars>>

(* acquire_pin, at the end of a round.                                     *)
Pin(r) ==
    /\ round[r] = "talking" /\ GateFree
    /\ round' = [round EXCEPT ![r] = "pinned"]
    /\ UNCHANGED <<rowVars, opVars, queueVars, copy, workerVars, arrivalVars,
                   sweepVars, driver, boundVars>>

\* load_recent_timeline: the last messages, without those being deleted.
Timeline ==
    {m \in DOMAIN rows : /\ m + Window > Len(rows)
                         /\ rows[m] # None /\ rows[m] \cap Unfinished = {}}

(* pin_experience: the transcript is copied.                               *)
Read(r) ==
    /\ round[r] = "pinned"
    /\ Timeline # {}
    /\ round' = [round EXCEPT ![r] = "read"]
    /\ copy' = [copy EXCEPT ![r] =
            [ids |-> Timeline, says |-> UNION {rows[m] : m \in Timeline}]]
    /\ UNCHANGED <<rowVars, opVars, queueVars, workerVars, arrivalVars,
                   sweepVars, driver, boundVars>>

(* pin_experience finds nothing, or fails.                                 *)
ReadNothing(r) ==
    /\ round[r] = "pinned"
    /\ \/ Timeline = {} /\ UNCHANGED fails
       \/ fails < MaxFails /\ fails' = fails + 1
    /\ round' = [round EXCEPT ![r] = "done"]
    /\ UNCHANGED <<rowVars, opVars, queueVars, copy, workerVars, arrivalVars,
                   sweepVars, driver, crashes>>

\* LearningFormationQueue::push_back.
Pushed(e) ==
    Append(IF Len(pending) >= QueueCap THEN Tail(pending) ELSE pending, e)

(* queue_learning_formation, and the end of the pin: push_back,            *)
(* note_queued_arrival and publish_owed_learning_arrivals.                 *)
Queue(r) ==
    /\ round[r] = "read" /\ GateFree
    /\ pending' = Pushed(copy[r])
    /\ queueGen' = queueGen + 1
    /\ PublishUnclean(ToSet(pending') \cup ({taken} \ {None}), queueGen')
    /\ round' = [round EXCEPT ![r] = "done"]
    /\ copy' = [copy EXCEPT ![r] = None]
    /\ UNCHANGED <<rows, covered, taken, workerVars, sweepVars, driver, crashes>>

-----------------------------------------------------------------------------
(* take_pending, by run_pending_learning.                                  *)
Take ==
    /\ worker = "idle" /\ pending # <<>>
    /\ taken' = Head(pending)
    /\ pending' = Tail(pending)
    /\ queueGen' = queueGen + 1
    /\ worker' = "took"
    /\ UNCHANGED <<rowVars, opVars, roundVars, formed, arrivalVars, sweepVars,
                   driver, boundVars>>

\* claimed_formation_covers and covering_condition: the operations that hold
\* a formation over these sources.
Holding(ids) ==
    {o \in Unfinished :
        \/ ids \cap covered[o] # {}
        \/ o \notin complete /\ phase[o] # "finalizing"
           /\ \E m \in ids : rows[m] = None \/ o \in rows[m]}

(* begin_learning_formation.                                               *)
Begin ==
    /\ worker = "took"
    /\ worker' = "begun"
    /\ formed' = [experience |-> taken, held |-> Holding(taken.ids)]
    /\ UNCHANGED <<rowVars, opVars, queueVars, roundVars, arrivalVars, sweepVars,
                   driver, boundVars>>

(* clear_taken, once the formation is recorded.                            *)
ClearTaken ==
    /\ worker = "begun"
    /\ worker' = "forming"
    /\ taken' = None /\ queueGen' = queueGen + 1
    /\ UNCHANGED <<rowVars, opVars, pending, roundVars, formed, arrivalVars,
                   sweepVars, driver, boundVars>>

(* clear_taken without a formation: the store failed, or the host stops.   *)
GiveUp ==
    /\ worker = "took"
    /\ worker' = "idle"
    /\ taken' = None /\ queueGen' = queueGen + 1
    /\ UNCHANGED <<rowVars, opVars, pending, roundVars, formed, arrivalVars,
                   sweepVars, driver, boundVars>>

(* The formation is refused or settled.                                    *)
Settle ==
    /\ worker = "forming"
    /\ worker' = "idle" /\ formed' = None
    /\ UNCHANGED <<rowVars, opVars, queueVars, roundVars, arrivalVars, sweepVars,
                   driver, boundVars>>

-----------------------------------------------------------------------------
(* admit_deletion.                                                         *)
Start(o) ==
    /\ phase[o] = "none"
    /\ phase' = [phase EXCEPT ![o] = "active"]
    /\ sweep' = [sweep EXCEPT ![o] = 1]
    /\ UNCHANGED <<rowVars, host, queueVars, roundVars, workerVars, arrivalVars,
                   sweepVars, driver, boundVars>>

(* publish_owed_arrivals, at the start of a pass.                          *)
PassStart ==
    /\ driver.pc = "idle"
    /\ ~Clean
    /\ Publish(Remainder, queueGen)
    /\ UNCHANGED <<rows, covered, queueVars, roundVars, workerVars, sweepVars,
                   driver, crashes>>

\* The driver goes on with its operation, or leaves it.
DriverAt(pc) == driver.pc = pc
DriverTo(pc) == driver' = [driver EXCEPT !.pc = pc]
Leave        == driver' = Resting

\* Is the condition the driver works under still current?
Current == sweep[driver.op] = driver.sweep /\ driver.op \in Unfinished

(* The next operation of the page, by the phase its record shows.          *)
Visit(o) ==
    /\ DriverAt("idle")
    /\ phase[o] \in {"active", "finalizing"}
    /\ driver' = [Resting EXCEPT
            !.pc = IF phase[o] = "active" THEN "sweep" ELSE "settle",
            !.op = o, !.sweep = sweep[o]]
    /\ UNCHANGED <<rowVars, opVars, queueVars, roundVars, workerVars, arrivalVars,
                   sweepVars, boundVars>>

\* Rows that carry the operation's text.
Carrying(o) == {m \in DOMAIN rows : rows[m] # None /\ o \in rows[m]}

(* drive_operation up to the host's turn: the sources are reconciled, a    *)
(* formation that uses one is held, the other participants erase.          *)
Sweep ==
    LET o == driver.op IN
    /\ DriverAt("sweep")
    /\ IF Current
       THEN /\ covered' = [covered EXCEPT ![o] = @ \cup Carrying(o)]
            /\ complete' = complete \cup {o}
            /\ rows' = [m \in DOMAIN rows |->
                            IF m \in Carrying(o) THEN None ELSE rows[m]]
            /\ formed' = IF formed # None /\ formed.experience.ids \cap covered'[o] # {}
                         THEN [formed EXCEPT !.held = @ \cup {o}] ELSE formed
            /\ DriverTo("begin")
       ELSE Leave /\ UNCHANGED <<rowVars, formed>>
    /\ UNCHANGED <<opVars, queueVars, roundVars, worker, arrivalVars, sweepVars,
                   boundVars>>

(* begin_participant_demand for the host's memory.                         *)
BeginDemand ==
    LET o == driver.op IN
    /\ DriverAt("begin")
    /\ \/ /\ ~Current
          /\ Leave /\ UNCHANGED host
       \/ /\ Current /\ host[o] = "verified"
          /\ DriverTo("settle") /\ UNCHANGED host
       \/ /\ Current /\ host[o] # "verified"
          /\ host' = [host EXCEPT ![o] = "running"]
          /\ DriverTo("select")
    /\ UNCHANGED <<rowVars, phase, sweep, queueVars, roundVars, workerVars,
                   arrivalVars, sweepVars, boundVars>>

\* A report of the host that leaves its demand unverified, if still current;
\* the driver asks again within its budget or goes on.
Report(state) ==
    IF Current
    THEN /\ host' = [host EXCEPT ![driver.op] = state]
         /\ \E pc \in IF state = "held" THEN {"hold"} ELSE {"begin", "settle"} :
               DriverTo(pc)
    ELSE Leave /\ UNCHANGED host

(* demand_local_erasure fails to ask the store: Held, Unavailable.         *)
DemandFails ==
    /\ driver.pc \in {"select", "apply", "check"}
    /\ fails < MaxFails /\ fails' = fails + 1
    /\ Report("held")
    /\ UNCHANGED <<rowVars, phase, sweep, queueVars, roundVars, workerVars,
                   arrivalVars, sweepVars, crashes>>

\* What this sweep has examined of the queue as it is.
Examined(o) ==
    IF examined[o].sweep = driver.sweep /\ examined[o].gen = queueGen
    THEN examined[o].sources ELSE {}

\* The experiences of the queue that are still to be examined.
Unexamined(E) == SelectSeq(pending, LAMBDA e : SourceOf(e) \notin E)

(* demand_local_erasure: a page of the queue is selected.                  *)
Select ==
    LET o    == driver.op
        rest == Unexamined(Examined(o))
        page == SubSeq(rest, 1, IF Len(rest) < QueuePage THEN Len(rest) ELSE QueuePage)
    IN
    /\ DriverAt("select")
    /\ examined' = [examined EXCEPT ![o] =
            [sweep |-> driver.sweep, gen |-> queueGen, sources |-> Examined(o)]]
    /\ driver' = [driver EXCEPT !.pc = "apply", !.gen = queueGen,
                                !.selected = {SourceOf(e) : e \in ToSet(page)}]
    /\ UNCHANGED <<rowVars, opVars, queueVars, roundVars, workerVars, arrivalVars,
                   verifiedGen, boundVars>>

\* The sweep starts over on the queue as it is now.
Rebase(o) ==
    examined' = [examined EXCEPT ![o] =
        [sweep |-> driver.sweep, gen |-> queueGen, sources |-> {}]]

\* apply_examined_page: the selected experiences that are covered are dropped.
Kept(o) ==
    SelectSeq(pending, LAMBDA e : ~(SourceOf(e) \in driver.selected /\ Covers(o, e)))

\* Mutated: a covered experience in the worker's hands does not count.
UnfinishedPageOnly(o, left) == left # <<>>

\* Is something of the queue unexamined or in the worker's hands?
UnfinishedQueue(o, left) ==
    left # <<>> \/ (taken # None /\ Covers(o, taken))

(* demand_local_erasure: the page is applied to an unchanged queue.        *)
Apply ==
    LET o     == driver.op
        kept  == ToSet(Kept(o))
        known == examined[o].sources \cup
                    {SourceOf(e) : e \in {k \in kept : SourceOf(k) \in driver.selected}}
        left  == SelectSeq(Kept(o), LAMBDA e : SourceOf(e) \notin known)
    IN
    /\ DriverAt("apply")
    /\ \/ /\ queueGen # driver.gen
          /\ Rebase(o)
          /\ Report("pending")
          /\ UNCHANGED pending
       \/ /\ queueGen = driver.gen
          /\ pending' = Kept(o)
          /\ IF UnfinishedQueue(o, left)
             THEN /\ examined' = [examined EXCEPT ![o].sources = known]
                  /\ Report("pending")
             ELSE /\ examined' = [examined EXCEPT ![o] = NotExamined]
                  /\ DriverTo("check")
                  /\ UNCHANGED host
    /\ UNCHANGED <<rowVars, phase, sweep, taken, queueGen, roundVars, workerVars,
                   arrivalVars, verifiedGen, boundVars>>

\* Nothing came or went since the page was selected, and nothing is pinned.
Quiet == queueGen = driver.gen /\ Pins = {}

(* demand_local_erasure: verified, unless the queue has moved.             *)
Check ==
    LET o == driver.op IN
    /\ DriverAt("check")
    /\ \/ /\ ~Current
          /\ Leave /\ UNCHANGED <<host, sweepVars>>
       \/ /\ Current /\ Quiet
          /\ verifiedGen' = driver.gen
          /\ DriverTo("commit")
          /\ UNCHANGED <<host, examined>>
       \/ /\ Current /\ ~Quiet
          /\ IF queueGen # driver.gen THEN Rebase(o) ELSE UNCHANGED examined
          /\ Report("pending")
          /\ UNCHANGED verifiedGen
    /\ UNCHANGED <<rowVars, phase, sweep, queueVars, roundVars, workerVars,
                   arrivalVars, boundVars>>

-----------------------------------------------------------------------------
\* publish_current_related_arrival: what it leaves to be published.
Tell(o) ==
    \/ /\ owed' = owed \ {o}
       /\ UNCHANGED <<scan, after, chain, fails>>
    \/ /\ fails < MaxFails /\ fails' = fails + 1
       /\ owed' = owed \cup {o} /\ scan' = TRUE
       /\ UNCHANGED <<after, chain>>

\* Must unpublished_blocks_finalizing look at the queue?
MustLook == Remainder # {} /\ (scan \/ queueGen # verifiedGen)

\* The arrivals unpublished_blocks_finalizing tells the operation about.
Tells(o) == Pins = {} /\ (o \in owed \/ (MustLook /\ CoversAny(o, Remainder)))

\* unpublished_blocks_finalizing finds nothing.
Passes(o) ==
    /\ Pins = {}
    /\ o \notin owed
    /\ ~(MustLook /\ CoversAny(o, Remainder))

\* unpublished_blocks_finalizing cannot ask the store.
LookFails(o) ==
    /\ Pins = {} /\ o \notin owed /\ MustLook
    /\ fails < MaxFails /\ fails' = fails + 1
    /\ UNCHANGED arrivalVars

\* unpublished_blocks_finalizing holds the operation back.
Blocked(o) ==
    \/ /\ Pins # {}
       /\ UNCHANGED <<arrivalVars, fails>>
    \/ Tells(o) /\ Tell(o)
    \/ LookFails(o)

\* What commit_verified asks before it records the verification.
Commits(o) == Pins = {} /\ queueGen = verifiedGen /\ (Clean \/ Passes(o))

(* commit_verified: the verification is recorded.                          *)
Commit ==
    LET o == driver.op IN
    /\ DriverAt("commit")
    /\ Commits(o)
    /\ IF Current
       THEN host' = [host EXCEPT ![o] = "verified"] /\ DriverTo("settle")
       ELSE Leave /\ UNCHANGED host
    /\ UNCHANGED <<rowVars, phase, sweep, queueVars, roundVars, workerVars,
                   arrivalVars, sweepVars, boundVars>>

(* commit_verified: more work is recorded instead.  The host's demand is   *)
(* running, so what is told here reopens nothing.                          *)
CommitBlocked ==
    LET o == driver.op IN
    /\ DriverAt("commit")
    /\ \/ ~(Pins = {} /\ queueGen = verifiedGen) /\ UNCHANGED <<arrivalVars, fails>>
       \/ /\ Pins = {} /\ queueGen = verifiedGen /\ ~Clean
          /\ Blocked(o)
    /\ Report("pending")
    /\ UNCHANGED <<rowVars, phase, sweep, queueVars, roundVars, workerVars,
                   sweepVars, crashes>>

(* change_deletion_lifecycle Hold, after a participant was held.           *)
Hold ==
    LET o == driver.op IN
    /\ DriverAt("hold")
    /\ phase' = IF Current THEN [phase EXCEPT ![o] = "held"] ELSE phase
    /\ Leave
    /\ UNCHANGED <<rowVars, sweep, host, queueVars, roundVars, workerVars,
                   arrivalVars, sweepVars, boundVars>>

\* An operation without a next sweep is held for good.
Exhausted(o) == phase[o] = "held" /\ sweep[o] = MaxSweep

(* resume_hold_page, for an operation whose next try is due.               *)
Resume(o) ==
    /\ DriverAt("idle")
    /\ phase[o] = "held" /\ ~Exhausted(o)
    /\ phase' = [phase EXCEPT ![o] = "active"]
    /\ UNCHANGED <<rowVars, sweep, host, queueVars, roundVars, workerVars,
                   arrivalVars, sweepVars, driver, boundVars>>

(* settle_finalizing: the arrival gate is taken and what is unpublished is *)
(* published.                                                              *)
SettlePublish ==
    /\ DriverAt("settle")
    /\ Publish(Remainder, queueGen)
    /\ DriverTo("complete")
    /\ UNCHANGED <<rows, covered, queueVars, roundVars, workerVars, sweepVars,
                   crashes>>

(* settle_finalizing: something unpublished holds the operation back.      *)
SettleBlocked ==
    /\ DriverAt("complete")
    /\ Blocked(driver.op)
    /\ OpenNext(IF Tells(driver.op) /\ fails' = fails
                THEN Noted({driver.op}) ELSE {})
    /\ Leave
    /\ UNCHANGED <<rows, covered, queueVars, roundVars, workerVars, sweepVars,
                   crashes>>

(* settle_finalizing: begin_deletion_finalizing.                           *)
BeginFinalizing ==
    LET o == driver.op IN
    /\ DriverAt("complete")
    /\ Passes(o)
    /\ IF /\ Current
          /\ \/ phase[o] = "finalizing"
             \/ phase[o] = "active" /\ host[o] = "verified" /\ o \in complete
       THEN phase' = [phase EXCEPT ![o] = "finalizing"] /\ DriverTo("finish")
       ELSE Leave /\ UNCHANGED phase
    /\ UNCHANGED <<rowVars, sweep, host, queueVars, roundVars, workerVars,
                   arrivalVars, sweepVars, boundVars>>

(* settle_finalizing: complete_deletion_finalizing, still under the gate.  *)
(* (A remainder in the tables is DeletionStore's CollectRemainder.)        *)
Complete ==
    LET o == driver.op IN
    /\ DriverAt("finish")
    /\ phase' = [phase EXCEPT ![o] = "completed"]
    /\ covered' = [covered EXCEPT ![o] = {}]
    /\ complete' = complete \ {o}
    /\ Leave
    /\ UNCHANGED <<rows, sweep, host, queueVars, roundVars, workerVars,
                   arrivalVars, sweepVars, boundVars>>

(* The process ends: what is only in memory is lost.                       *)
Crash ==
    /\ crashes < MaxCrashes /\ crashes' = crashes + 1
    /\ pending' = <<>> /\ taken' = None /\ queueGen' = 0
    /\ round' = [r \in Rounds |-> IF round[r] = "talking" THEN "talking" ELSE "done"]
    /\ copy' = [r \in Rounds |-> None]
    /\ worker' = "idle" /\ formed' = None
    /\ scan' = FALSE /\ owed' = {} /\ after' = None /\ chain' = None
    /\ verifiedGen' = 0
    /\ examined' = [o \in Ops |-> NotExamined]
    /\ Leave
    /\ UNCHANGED <<rowVars, opVars, fails>>

-----------------------------------------------------------------------------
RoundStep(r) == Pin(r) \/ Read(r) \/ ReadNothing(r) \/ Queue(r)

WorkerEnds == Begin \/ ClearTaken \/ Settle

Drive ==
    \/ Sweep \/ BeginDemand \/ Select \/ Apply \/ Check \/ Commit
    \/ CommitBlocked \/ Hold \/ SettlePublish \/ SettleBlocked
    \/ BeginFinalizing \/ Complete

Next ==
    \/ \E T \in SUBSET Ops : Write(T)
    \/ \E r \in Rounds : RoundStep(r)
    \/ Take \/ GiveUp \/ WorkerEnds
    \/ \E o \in Ops : Start(o) \/ Visit(o) \/ Resume(o)
    \/ PassStart \/ DemandFails \/ Drive
    \/ Crash

Spec == Init /\ [][Next]_vars

-----------------------------------------------------------------------------
ValidExperience(e) ==
    /\ e.ids # {} /\ e.ids \subseteq DOMAIN rows
    /\ e.says \subseteq Ops

\* Types, and what the parts of the memory always agree on: the queue keeps
\* its bound, the worker's copy is there while its formation is recorded, a
\* chain of pages has a place to go on from, and the generation that was
\* verified is not ahead of the queue's.
TypeOK ==
    /\ Len(rows) <= MaxRows /\ \A m \in DOMAIN rows : rows[m] \in SUBSET Ops \cup {None}
    /\ phase \in [Ops -> Phases] /\ sweep \in [Ops -> 0..MaxSweep]
    /\ host \in [Ops -> {"pending", "running", "held", "verified"}]
    /\ Len(pending) <= QueueCap
    /\ \A e \in Remainder : ValidExperience(e)
    /\ round \in [Rounds -> RoundPcs] /\ worker \in WorkerPcs
    /\ driver.pc \in DriverPcs
    /\ verifiedGen <= queueGen
    /\ (taken # None) <=> (worker \in {"took", "begun"})
    /\ (formed # None) <=> (worker \in {"begun", "forming"})
    /\ chain # None => after # None
    /\ \A r \in Rounds : (copy[r] # None) <=> (round[r] = "read")

\* When a deletion completes, no experience in the memory of the host still
\* says its text: not the queue, not the worker's copy, not a copy a round
\* has read and not queued; a formation that does is one that is refused
\* (settle_finalizing, commit_verified, demand_local_erasure).
CompletesClean ==
    \A o \in Ops : phase[o] # "completed" /\ phase'[o] = "completed" =>
         /\ \A e \in Remainder : o \notin e.says
         /\ \A r \in Rounds : copy[r] # None => o \notin copy[r].says
         /\ worker = "forming" /\ o \in formed.experience.says => formed.held # {}
CompletedLeavesNoCopy == [][CompletesClean]_vars

\* Once the host's memory counts as erased for an operation, no experience
\* the operation covers is left in it or can still come: what was read before
\* the operation began is waited for, what is read later leaves its messages
\* out (acquire_pin, load_recent_timeline, commit_verified).
VerifiedMeansClean ==
    \A o \in Unfinished : phase[o] = "finalizing" \/ host[o] = "verified" =>
        /\ ~CoversAny(o, Remainder)
        /\ \A r \in Rounds : copy[r] # None => ~Covers(o, copy[r])

\* What the memory of the host and the record of its erasure agree on.
HostCopiesSafe == TypeOK /\ VerifiedMeansClean

=============================================================================
