-------------------------- MODULE LearningFormation --------------------------
(***************************************************************************)
(* How memories are formed from what was said, and how a targeted deletion *)
(* takes them back: the worker that takes one experience after another     *)
(* (run_pending_learning), one formation (ene-learning's form_experience), *)
(* the transaction that applies one change of a memory                     *)
(* (commit_change_sync), the registration of formations that are under way *)
(* (learning_formation), and the learning and the companion participants   *)
(* that erase summaries, memories, their revisions and messages page by    *)
(* page (erasure/companion_learning.rs).                                   *)
(*                                                                         *)
(* Between two awaits of the worker anything else may happen.  The worker  *)
(* mutex lets one formation run at a time, so there is one worker.         *)
(*                                                                         *)
(* Abstracted data.  A text says a set of texts somebody may want deleted, *)
(* one per operation, and possibly a secret.  The model may repeat what    *)
(* its prompt says and nothing else.  A page of a sweep is a whole table.  *)
(* Taking an experience and registering its formation are one step, and    *)
(* so is the reconciliation of an operation: HostTransient and             *)
(* DeletionStore have their details.  Importance, temporal meaning, times  *)
(* and the index of recall terms are left out.                             *)
(***************************************************************************)
EXTENDS Naturals, Sequences, SequencesExt, FiniteSets, FiniteSetsExt

CONSTANTS
    Messages,     \* ids of the messages that were written, in order of time
    Said,         \* what each of them says
    Passes,       \* 1..n: the experiences queued, oldest first
    Pinned,       \* the messages of each experience
    OldMemories,  \* ids of memories that exist at the beginning
    OldSays,      \* what those say
    NewMemories,  \* ids for new memories, above the old ones
    Ops,          \* deletion operations, each named by its text
    Secret,       \* a text that will be registered as a credential
    MaxEntries,   \* MAX_FORMATION_CHANGES
    MaxRendered,  \* memories that fit the prompt
    MaxCrashes,   \* bound: ends of the host process
    None          \* no row, no value

Memories == OldMemories \cup NewMemories
Sayings == Ops \cup {Secret}

LearningAssumption ==
    /\ Messages \cup Memories \subseteq Nat /\ IsFiniteSet(Messages \cup Memories)
    /\ Messages \cap Memories = {} /\ OldMemories \cap NewMemories = {}
    /\ Said \in [Messages -> SUBSET Sayings] /\ OldSays \in [OldMemories -> SUBSET Sayings]
    /\ Passes = 1..Cardinality(Passes)
    /\ Pinned \in [Passes -> SUBSET Messages \ {{}}]
    /\ Secret \notin Ops
    /\ {MaxEntries, MaxRendered, MaxCrashes} \subseteq Nat

VARIABLES
    history,    \* history_message: the rows left
    memory,     \* learning_memory: revision, content, recall_suppressed
    revisions,  \* learning_memory_revision, each with the pass that made it
    summary,    \* learning_summary, one per pass
    queue,      \* LearningFormationQueue.pending
    open,       \* learning_formation: passes with a row
    held,       \* erasure_use_hold: a use and an operation
    dataUse,    \* inference_attempt_data_use, per pass; None before the claim
    phase,      \* deletion_operation.phase
    covered,    \* erasure_condition_source
    reconciled, \* operations whose deletion_reconciliation is complete
    verified,   \* participants whose state is verified, per operation
    sweep,      \* SweepCursor of the learning participant
    set,        \* the revision of the credential set: 1 once Secret is in it
    worker,     \* the formation that is under way
    over,       \* history: the operations each pass came too late for
    crashes

storeVars == <<history, memory, revisions, summary>>
useVars == <<open, held, dataUse>>
opVars == <<phase, covered, reconciled, verified, sweep>>
vars == <<storeVars, queue, useVars, opVars, set, worker, over, crashes>>

-----------------------------------------------------------------------------
Idle == [pc |-> "idle", pass |-> None, known |-> <<>>, says |-> {}, premise |-> 0,
         says2 |-> {}, entries |-> <<>>]
At(pc) == worker' = [worker EXCEPT !.pc = pc]

SweepPhases == {"erase", "verify"}
Resting == [phase |-> "erase", table |-> 0]

Init ==
    /\ history = Messages
    /\ memory = [m \in Memories |-> IF m \in OldMemories
                                    THEN [rev |-> 1, says |-> OldSays[m], hidden |-> FALSE]
                                    ELSE None]
    /\ revisions = {[memory |-> m, rev |-> 1, says |-> OldSays[m], hidden |-> FALSE,
                     pass |-> None, set |-> 0] : m \in OldMemories}
    /\ summary = [p \in Passes |-> None]
    /\ queue = [p \in Passes |-> p]
    /\ open = {} /\ held = {} /\ dataUse = [p \in Passes |-> None]
    /\ phase = [o \in Ops |-> "none"]
    /\ covered = [o \in Ops |-> {}]
    /\ reconciled = {}
    /\ verified = [o \in Ops |-> {}]
    /\ sweep = [o \in Ops |-> Resting]
    /\ set = 0
    /\ worker = Idle
    /\ over = [p \in Passes |-> {}]
    /\ crashes = 0

Active == {o \in Ops : phase[o] = "active"}
Unreconciled == Active \ reconciled

\* What the scrubber leaves of a text, by the credential set as it is now.
Scrubbed(says) == IF set = 0 THEN says ELSE says \ {Secret}

\* source_identity_carries and source_identity_exists, of messages and of
\* memories: nothing names a summary as its source.
Says(s) == IF s \in Messages THEN IF s \in history THEN Said[s] ELSE {}
           ELSE IF memory[s] = None THEN {} ELSE memory[s].says
Exists(s) == IF s \in Messages THEN s \in history ELSE memory[s] # None

\* covering_condition: found by the reconciliation, or not reconciled yet.
Covered(s) == \/ \E o \in Active : s \in covered[o]
              \/ \E o \in Unreconciled : o \in Says(s)

\* covering_text.
TextCovered(says) == says \cap Active # {}

\* claimed_formation_covers and claimed_attempt_covers.
Formation(p) == <<"learning_formation", p>>
Attempt(p) == <<"inference_attempt", p>>
Finds(use, o) ==
    LET p == use[2] IN
    IF use = Formation(p)
    THEN \E s \in Pinned[p] : o \in Says(s) \/ ~Exists(s)
    ELSE \E s \in dataUse[p] : o \in Says(s)

\* directly_covered_uses, as the rows held_use inserts, and what it answers.
Found(use) == {<<use, o>> : o \in {q \in Unreconciled : Finds(use, q)}}
HeldUse(use) == Found(use) # {} \/ \E o \in Ops : <<use, o>> \in held

\* inflight_learning_formation_held.
FormationHeld(sources) ==
    \E p \in open : Pinned[p] \cap sources # {} /\ \E o \in Ops : <<Formation(p), o>> \in held

-----------------------------------------------------------------------------
(* The worker.                                                             *)

\* take_pending and begin_learning_formation: the row, and the holds of the
\* operations that cover one of its sources already.
Begin ==
    /\ worker.pc = "idle" /\ queue # <<>>
    /\ LET p == Head(queue) IN
       /\ worker' = [Idle EXCEPT !.pc = "begun", !.pass = p]
       /\ open' = open \cup {p}
       /\ held' = held \cup {<<Formation(p), o>> : o \in {q \in Active : Pinned[p] \cap covered[q] # {}}}
                       \cup Found(Formation(p))
    /\ queue' = Tail(queue)
    /\ UNCHANGED <<storeVars, dataUse, opVars, set, over, crashes>>

\* learning_formation_must_refuse.  A companion that is not running is
\* refused here too.
Check ==
    /\ worker.pc = "begun"
    /\ LET p == worker.pass IN
       /\ held' = held \cup Found(Formation(p))
       /\ At(IF HeldUse(Formation(p)) \/ \E s \in Pinned[p] : ~Exists(s) THEN "settle" ELSE "list")
    /\ UNCHANGED <<storeVars, queue, open, dataUse, opVars, set, over, crashes>>

\* list_current_memories, newest first, and build_prompt: the memories that
\* fit, then the transcript, which the experience has brought along.
Listed == SetToSortSeq({m \in Memories : memory[m] # None}, >)
Rendered == IF Len(Listed) <= MaxRendered THEN Listed ELSE SubSeq(Listed, 1, MaxRendered)

Prepare ==
    /\ worker.pc = "list"
    /\ LET known == [i \in DOMAIN Rendered |->
                        [id |-> Rendered[i], rev |-> memory[Rendered[i]].rev,
                         says |-> memory[Rendered[i]].says]]
           said == UNION {Said[s] : s \in Pinned[worker.pass]}
           old == UNION {known[i].says : i \in DOMAIN known}
       IN  worker' = [worker EXCEPT !.pc = "prepared", !.known = known, !.premise = set,
                                    !.says = Scrubbed(said \cup old)]
    /\ UNCHANGED <<storeVars, queue, useVars, opVars, set, over, crashes>>

DataUse == Pinned[worker.pass] \cup {worker.known[i].id : i \in DOMAIN worker.known}

MayClaim == /\ set = worker.premise
            /\ \A s \in DataUse : ~Covered(s)
            /\ ~FormationHeld(DataUse)

\* admit_learning and begin_inference_attempt: from here on the prompt is with the
\* provider.
Claim ==
    /\ worker.pc = "prepared"
    /\ IF MayClaim
       THEN /\ dataUse' = [dataUse EXCEPT ![worker.pass] = DataUse]
            /\ At("sent")
       ELSE At("settle") /\ UNCHANGED dataUse
    /\ UNCHANGED <<storeVars, queue, open, held, opVars, set, over, crashes>>

\* An entry of the answer: a new memory, a change of one by its number, with
\* a new content or without, or a memory to be forgotten.
Entries(says) ==
    LET some == {{}} \cup {{t} : t \in says} IN
    [action : {"create"}, target : {0}, says : some]
    \cup [action : {"update"}, target : DOMAIN worker.known, says : some \cup {None}]
    \cup [action : {"forget"}, target : DOMAIN worker.known, says : {None}]

\* The answer, adopted, and the summary scrubbed.  No entries: nothing is
\* worth keeping.
Answer ==
    /\ worker.pc = "sent"
    /\ \E text \in {{}, worker.says}, n \in 0..MaxEntries :
       \E entries \in [1..n -> Entries(worker.says)] :
          worker' = [worker EXCEPT !.pc = IF n = 0 THEN "settle" ELSE "scrub",
                                   !.says2 = Scrubbed(text), !.premise = set,
                                   !.entries = IF n = 0 THEN <<>> ELSE entries]
    /\ UNCHANGED <<storeVars, queue, useVars, opVars, set, over, crashes>>

\* The provider failed, the consent has moved, or the answer cannot be read.
NoAnswer ==
    /\ worker.pc = "sent"
    /\ At("settle")
    /\ UNCHANGED <<storeVars, queue, useVars, opVars, set, over, crashes>>

\* resolve_model_memory: what a change writes when the entry says nothing.
Content(e) == IF e.says = None THEN worker.known[e.target].says ELSE e.says

Contents == [i \in DOMAIN worker.entries |->
                [worker.entries[i] EXCEPT !.says = Scrubbed(Content(worker.entries[i]))]]

\* The contents scrubbed; the premise is the oldest, the summary's.
Scrub ==
    /\ worker.pc = "scrub"
    /\ worker' = [worker EXCEPT !.pc = "commit",
                     !.entries = Contents]
    /\ UNCHANGED <<storeVars, queue, useVars, opVars, set, over, crashes>>

-----------------------------------------------------------------------------
(* commit_change_sync: one change of one memory, in a transaction.         *)

\* source.start and source.end of a summary.
Ends(p) == {Min(Pinned[p]), Max(Pinned[p])}

\* Mutated: the hold of the claim is not looked up.
RefusedByText(e) ==
    \/ TextCovered(worker.says2)
    \/ \E s \in Ends(worker.pass) : Covered(s)
    \/ TextCovered(e.says)

\* HeldForErasure.
Refused(e) ==
    \/ HeldUse(Attempt(worker.pass))
    \/ TextCovered(worker.says2)
    \/ \E s \in Ends(worker.pass) : Covered(s)
    \/ TextCovered(e.says)

\* The memory a change is for and its revision there: None when there is no
\* such row, or another revision than the one the prompt showed.
Target(e) ==
    IF e.action = "create"
    THEN LET fresh == {m \in NewMemories : \A r \in revisions : r.memory # m} IN
         IF fresh = {} THEN None ELSE Min({m \in fresh : memory[m] = None})
    ELSE LET k == worker.known[e.target] IN
         IF memory[k.id] # None /\ memory[k.id].rev = k.rev THEN k.id ELSE None

\* The operations that had begun and covered what the experience was made of.
TooLate(p) == {o \in Ops : phase[o] # "none" /\ \E s \in Pinned[p] : o \in Said[s]}

Write(m, e) ==
    LET rev == IF e.action = "create" THEN 1 ELSE memory[m].rev + 1
        p == worker.pass
    IN  /\ memory' = [memory EXCEPT ![m] = [rev |-> rev, says |-> e.says, hidden |-> e.action = "forget"]]
        /\ revisions' = revisions \cup {[memory |-> m, rev |-> rev, says |-> e.says,
                                         hidden |-> e.action = "forget", pass |-> p, set |-> set]}
        /\ summary' = [summary EXCEPT ![p] = IF @ = None THEN [says |-> worker.says2, set |-> set] ELSE @]
        /\ over' = [over EXCEPT ![p] = @ \cup TooLate(p)]
        /\ UNCHANGED history

Commit ==
    /\ worker.pc = "commit"
    /\ LET e == Head(worker.entries)
           rest == Tail(worker.entries)
           stale == set # worker.premise
           m == Target(e)
       IN  /\ IF stale \/ Refused(e) \/ m = None
              THEN UNCHANGED <<storeVars, over>>
              ELSE Write(m, e)
           /\ held' = IF stale THEN held ELSE held \cup Found(Attempt(worker.pass))
           /\ worker' = [worker EXCEPT !.entries = rest,
                                       !.pc = IF stale \/ rest = <<>> THEN "settle" ELSE "commit"]
    /\ UNCHANGED <<queue, open, dataUse, opVars, set, crashes>>

\* settle_learning_formation: the holds stay.
Settle ==
    /\ worker.pc = "settle"
    /\ open' = open \ {worker.pass}
    /\ worker' = Idle
    /\ UNCHANGED <<storeVars, queue, held, dataUse, opVars, set, over, crashes>>

-----------------------------------------------------------------------------
(* A targeted deletion.                                                    *)

Start(o) ==
    /\ phase[o] = "none"
    /\ phase' = [phase EXCEPT ![o] = "active"]
    /\ UNCHANGED <<storeVars, queue, useVars, covered, reconciled, verified, sweep,
                   set, worker, over, crashes>>

\* Reconciliation: every source that says the text, and the uses that have
\* to do with one of them.
Reconcile(o) ==
    /\ o \in Unreconciled
    /\ LET found == {s \in Messages \cup Memories : o \in Says(s)} IN
       /\ covered' = [covered EXCEPT ![o] = found]
       /\ held' = held
            \cup {<<Formation(p), o>> : p \in {q \in open : Pinned[q] \cap found # {}}}
            \cup {<<Attempt(p), o>> :
                     p \in {q \in Passes : dataUse[q] # None /\ dataUse[q] \cap found # {}}}
    /\ reconciled' = reconciled \cup {o}
    /\ UNCHANGED <<storeVars, queue, open, dataUse, phase, verified, sweep,
                   set, worker, over, crashes>>

Sweeping(o, participant) == phase[o] = "active" /\ o \in reconciled /\ participant \notin verified[o]

\* companion_step: the messages that say the text.
EraseHistory(o) ==
    /\ Sweeping(o, "companion")
    /\ history' = {s \in history : o \notin Said[s]}
    /\ verified' = [verified EXCEPT ![o] = @ \cup {"companion"}]
    /\ UNCHANGED <<memory, revisions, summary, queue, useVars, phase, covered, reconciled,
                   sweep, set, worker, over, crashes>>

\* host_transient: the experiences that wait are dropped.
DropQueued(o) ==
    /\ Sweeping(o, "host_transient")
    /\ queue' = SelectSeq(queue, LAMBDA p : \A s \in Pinned[p] : o \notin Said[s] /\ s \notin covered[o])
    /\ verified' = [verified EXCEPT ![o] = @ \cup {"host_transient"}]
    /\ UNCHANGED <<storeVars, useVars, phase, covered, reconciled, sweep,
                   set, worker, over, crashes>>

\* summary_page.
SummaryHits(o) ==
    {p \in Passes : /\ summary[p] # None
                    /\ \/ o \in summary[p].says
                       \/ \E s \in Ends(p) : s \in covered[o] \/ o \in Says(s)}

\* revision_page.
RevisionHits(o) ==
    {r \in revisions : o \in r.says \/ (r.pass # None /\ summary[r.pass] = None)}

\* memory_page.
MemoryHits(o) == {m \in Memories : memory[m] # None /\ o \in memory[m].says}

Hits(o, table) == CASE table = 0 -> SummaryHits(o)
                    [] table = 1 -> RevisionHits(o)
                    [] table = 2 -> MemoryHits(o)

\* delete_memories.
Drop(M) == /\ memory' = [m \in Memories |-> IF m \in M THEN None ELSE memory[m]]
           /\ UNCHANGED summary

\* Mutated: the rows that hit, and nothing else.
EraseRows(o) ==
    /\ revisions' = revisions \ RevisionHits(o)
    /\ UNCHANGED <<memory, summary>>

\* A revision that is current takes its memory along.
EraseRevisions(o) ==
    LET hits == RevisionHits(o)
        whole == {r.memory : r \in {h \in hits : memory[h.memory] # None /\ memory[h.memory].rev = h.rev}}
    IN  /\ revisions' = {r \in revisions : r \notin hits /\ r.memory \notin whole}
        /\ Drop(whole)

ErasePage(o, table) ==
    CASE table = 0 -> /\ summary' = [p \in Passes |-> IF p \in SummaryHits(o) THEN None ELSE summary[p]]
                      /\ UNCHANGED <<memory, revisions>>
      [] table = 1 -> EraseRevisions(o)
      [] table = 2 -> /\ Drop(MemoryHits(o))
                      /\ revisions' = {r \in revisions : r.memory \notin MemoryHits(o)}

\* bounded_step, a table at a time: what the verification still finds in a
\* table is erased from there on, and all is verified anew.
LearningStep(o) ==
    /\ Sweeping(o, "learning")
    /\ LET c == sweep[o]
           remainder == c.phase = "verify" /\ Hits(o, c.table) # {}
       IN  /\ IF c.phase = "erase" THEN ErasePage(o, c.table)
                                   ELSE UNCHANGED <<memory, revisions, summary>>
           /\ sweep' = [sweep EXCEPT ![o] =
                 IF remainder THEN [phase |-> "erase", table |-> c.table]
                 ELSE IF c.table < 2 THEN [c EXCEPT !.table = @ + 1]
                 ELSE [phase |-> "verify", table |-> IF c.phase = "erase" THEN 0 ELSE 2]]
           /\ verified' = IF c.phase = "verify" /\ c.table = 2 /\ ~remainder
                          THEN [verified EXCEPT ![o] = @ \cup {"learning"}] ELSE verified
    /\ UNCHANGED <<history, queue, useVars, phase, covered, reconciled, set, worker, over, crashes>>

\* The completion destroys the text and the sources; the holds stay.
Complete(o) ==
    /\ phase[o] = "active" /\ verified[o] = {"companion", "learning", "host_transient"}
    /\ phase' = [phase EXCEPT ![o] = "completed"]
    /\ covered' = [covered EXCEPT ![o] = {}]
    /\ UNCHANGED <<storeVars, queue, useVars, reconciled, verified, sweep, set, worker,
                   over, crashes>>

\* A credential is published: the set moves.
Register ==
    /\ set = 0 /\ \E s \in Messages : Secret \in Said[s]
    /\ set' = 1
    /\ UNCHANGED <<storeVars, queue, useVars, opVars, worker, over, crashes>>

\* The process ends: the queue, the formation and the cursors are lost.
Crash ==
    /\ crashes < MaxCrashes
    /\ crashes' = crashes + 1
    /\ queue' = <<>>
    /\ worker' = Idle
    /\ sweep' = [o \in Ops |-> Resting]
    /\ UNCHANGED <<storeVars, useVars, phase, covered, reconciled, verified, set, over>>

-----------------------------------------------------------------------------
Next ==
    \/ Begin \/ Check \/ Prepare \/ Claim \/ Answer \/ NoAnswer \/ Scrub \/ Commit \/ Settle
    \/ \E o \in Ops : Start(o) \/ Reconcile(o) \/ EraseHistory(o) \/ DropQueued(o)
                      \/ LearningStep(o) \/ Complete(o)
    \/ Register \/ Crash

Spec == Init /\ [][Next]_vars

-----------------------------------------------------------------------------
Pcs == {"idle", "begun", "list", "prepared", "sent", "scrub", "commit", "settle"}
MemoryRows == [rev : Nat \ {0}, says : SUBSET Sayings, hidden : BOOLEAN]

\* The tables hold what their columns may, the worker is at one of its awaits.
TypeOK ==
    /\ history \subseteq Messages
    /\ \A m \in Memories : memory[m] = None \/ memory[m] \in MemoryRows
    /\ \A r \in revisions : r.memory \in Memories /\ r.pass \in Passes \cup {None} /\ r.set \in 0..1
    /\ \A p \in Passes : summary[p] = None \/ summary[p].says \subseteq Sayings
    /\ ToSet(queue) \subseteq Passes /\ open \subseteq Passes
    /\ \A p \in Passes : dataUse[p] = None \/ dataUse[p] \subseteq Messages \cup Memories
    /\ phase \in [Ops -> {"none", "active", "completed"}]
    /\ \A o \in Ops : sweep[o].phase \in SweepPhases /\ sweep[o].table \in 0..2
    /\ worker.pc \in Pcs /\ worker.pass \in Passes \cup {None}
    /\ worker.pc # "idle" => worker.pass \in open

\* A memory and its newest revision are one: every memory has the revision
\* row that says the same, and no revision is left of a memory that is gone,
\* whichever pages an erasure has done (insert_current, insert_revision,
\* revision_page, memory_page).
CurrentIsRevision ==
    /\ \A m \in Memories : memory[m] # None =>
          \E r \in revisions : /\ r.memory = m /\ r.rev = memory[m].rev
                               /\ r.says = memory[m].says /\ r.hidden = memory[m].hidden
    /\ \A r \in revisions : memory[r.memory] # None /\ r.rev <= memory[r.memory].rev

\* A formation changes no memory once a deletion has begun that covers what
\* its experience was made of, however late its answer comes
\* (critical-areas/targeted-deletion.md 6.2; ene-store learning.rs:80).
LateIsRefused == \A p \in Passes : over[p] = {}

\* A revision outlives the summary it rests on only while an operation's
\* sweep has still to come by (summary_page before revision_page).
OrphansAreOwed ==
    (\E r \in revisions : r.pass # None /\ summary[r.pass] = None)
    => \E o \in Active : "learning" \notin verified[o]

\* Nothing that is learned after a credential was registered says it, though
\* the prompt and the answer are older (secret_premise, learning.rs:77).
NoSecretLearned ==
    /\ \A r \in revisions : r.set = 1 => Secret \notin r.says
    /\ \A p \in Passes : (summary[p] # None /\ summary[p].set = 1) => Secret \notin summary[p].says

\* What is learned, refused and crashed leaves behind.
LearnedSafe == /\ TypeOK /\ CurrentIsRevision
               /\ OrphansAreOwed /\ NoSecretLearned

=============================================================================
