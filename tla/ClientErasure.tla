--------------------------- MODULE ClientErasure ---------------------------
(***************************************************************************)
(* A client that was sent conversation text and a targeted deletion of     *)
(* such a text: the evidence that something was delivered                  *)
(* (client_delivery_evidence), the demands waiting for the client          *)
(* (ClientTransientRegistry), the connection that delivers them, the       *)
(* client that wipes its buffers and answers, and the driver that waits    *)
(* for the answer (ClientIncarnationParticipant).                          *)
(*                                                                         *)
(* There is one incarnation of one client, which may connect again; the    *)
(* other participants are DeletionStore and HostTransient, here only the   *)
(* new sweeps they may open.  A message between the two sides is lost only *)
(* with its connection and keeps its order on it.                          *)
(*                                                                         *)
(* Abstracted data.  A body says a set of texts, one text per operation,   *)
(* and both classes of client memory are one.                              *)
(***************************************************************************)
EXTENDS Naturals, Sequences, SequencesExt, FiniteSets

CONSTANTS
    Conns,       \* ids of the client's connections, in the order of their use
    Ops,         \* deletion operations
    MaxBodies,   \* bound: bodies noted as delivered
    MaxSweep,    \* bound: the last sweep of an operation
    MaxFails,    \* bound: silent or partial answers
    MaxRestarts, \* bound: ends of the host process
    DemandIds,   \* bound: ids of demands on their way or waiting
    StashCap,    \* PENDING_ERASURE_CAP
    None         \* no value

ClientErasureAssumption ==
    /\ Conns \subseteq Nat \ {0} /\ DemandIds \subseteq Nat
    /\ IsFiniteSet(DemandIds) /\ IsFiniteSet(Conns)
    /\ {MaxBodies, MaxSweep, StashCap} \subseteq Nat \ {0}
    /\ {MaxFails, MaxRestarts} \subseteq Nat

VARIABLES
    evidence,    \* client_delivery_evidence.delivery_seq, 0 without a row
    phase,       \* deletion_operation.phase
    sweep,       \* deletion_operation.sweep
    client,      \* deletion_participant.state of the incarnation
    pending,     \* ClientTransientRegistry.inner of the incarnation
    driver,      \* where the driver of deletions is
    current,     \* the authenticated connection of the incarnation, or None
    link,        \* what has become of each connection
    task,        \* what the business task of each connection is doing
    down,        \* frames on their way to the client, per connection
    up,          \* answers on their way to the host, per connection
    dialled,     \* the connection the client uses
    memory,      \* texts the client keeps
    stash,       \* demands the client has taken up and not yet obeyed
    late,        \* whether a connection that was not current cleared evidence
    bodies, fails, restarts

opVars     == <<phase, sweep, client>>
linkVars   == <<current, link, dialled>>
wireVars   == <<down, up>>
clientVars == <<memory, stash>>
boundVars  == <<late, bodies, fails, restarts>>
vars == <<evidence, opVars, pending, driver, linkVars, task, wireVars,
          clientVars, boundVars>>

-----------------------------------------------------------------------------
Idle    == [pc |-> "idle", says |-> {}, seq |-> 0]
Resting == [pc |-> "idle", op |-> None, sweep |-> 0, conn |-> None]

Init ==
    /\ evidence = 0
    /\ phase = [o \in Ops |-> "none"]
    /\ sweep = [o \in Ops |-> 0]
    /\ client = [o \in Ops |-> "absent"]
    /\ pending = None
    /\ driver = Resting
    /\ current = None /\ dialled = None
    /\ link = [k \in Conns |-> "new"]
    /\ task = [k \in Conns |-> Idle]
    /\ down = [k \in Conns |-> <<>>] /\ up = [k \in Conns |-> <<>>]
    /\ memory = {} /\ stash = <<>>
    /\ late = FALSE /\ bodies = 0 /\ fails = 0 /\ restarts = 0

Unfinished == {o \in Ops : phase[o] \in {"active", "held"}}

\* Texts no deletion is about yet.
Sayable == {o \in Ops : phase[o] = "none"}

-----------------------------------------------------------------------------
(* The client connects, again perhaps: the host's newer connection of a    *)
(* device supersedes the older one, and the client reads only the newer.   *)
Connect(k) ==
    /\ link[k] = "new" /\ \A j \in Conns : j < k => link[j] # "new"
    /\ link' = [link EXCEPT ![k] = "open"]
    /\ current' = k /\ dialled' = k
    /\ down' = [j \in Conns |-> <<>>] /\ up' = [j \in Conns |-> <<>>]
    /\ stash' = <<>>
    /\ UNCHANGED <<evidence, opVars, pending, driver, task, memory, boundVars>>

(* The connection breaks; the host has not noticed yet.                    *)
Break ==
    /\ dialled # None
    /\ dialled' = None
    /\ down' = [j \in Conns |-> <<>>] /\ up' = [j \in Conns |-> <<>>]
    /\ stash' = <<>>
    /\ UNCHANGED <<evidence, opVars, pending, driver, current, link, task, memory,
                   boundVars>>

\* ClientTransientRegistry::note_connection_ended.
Forgets(k) == pending' = IF pending # None /\ pending.conn = k THEN None ELSE pending

(* The loop of a broken or superseded connection ends:                     *)
(* drop_connection_transient_state.  Its business task may go on.          *)
End(k) ==
    /\ link[k] = "open" /\ dialled # k /\ task[k].pc # "take"
    /\ link' = [link EXCEPT ![k] = "ended"]
    /\ current' = IF current = k THEN None ELSE current
    /\ Forgets(k)
    /\ UNCHANGED <<evidence, opVars, driver, dialled, task, wireVars, clientVars,
                   boundVars>>

-----------------------------------------------------------------------------
(* A request for history, a report, a page of memory or of what was not    *)
(* delivered: the body is read, without what is being deleted.             *)
ReadBody(k, T) ==
    /\ link[k] = "open" /\ current = k /\ dialled = k
    /\ task[k].pc = "idle"
    /\ bodies < MaxBodies /\ bodies' = bodies + 1
    /\ task' = [task EXCEPT ![k] = [pc |-> "read", says |-> T, seq |-> 0]]
    /\ UNCHANGED <<evidence, opVars, pending, driver, linkVars, wireVars,
                   clientVars, late, fails, restarts>>

(* note_client_body_delivery, before anything is sent.                     *)
Note(k) ==
    /\ task[k].pc = "read"
    /\ evidence' = evidence + 1
    /\ task' = [task EXCEPT ![k].pc = "noted"]
    /\ UNCHANGED <<opVars, pending, driver, linkVars, wireVars, clientVars, boundVars>>

\* Mutated: the body is not compared again.
SendUncompared(k) ==
    /\ task[k].pc = "noted"
    /\ task' = [task EXCEPT ![k] = Idle]
    /\ down' = IF dialled = k
               THEN [down EXCEPT ![k] = Append(@,
                        [kind |-> "body", says |-> task[k].says])]
               ELSE down
    /\ UNCHANGED <<evidence, opVars, pending, driver, linkVars, up, clientVars,
                   boundVars>>

(* The body is compared with the deletions once more and sent; what a      *)
(* connection that is no longer used is sent reaches nobody.               *)
Send(k) ==
    /\ task[k].pc = "noted"
    /\ task' = [task EXCEPT ![k] = Idle]
    /\ down' = IF dialled = k
               THEN [down EXCEPT ![k] = Append(@,
                        [kind |-> "body", says |-> task[k].says \ Unfinished])]
               ELSE down
    /\ UNCHANGED <<evidence, opVars, pending, driver, linkVars, up, clientVars,
                   boundVars>>

(* take_client_demand, in the connection's loop while its business task    *)
(* has nothing to do: the number of the evidence is read first.            *)
ReadEvidence(k) ==
    /\ link[k] = "open" /\ current = k
    /\ task[k].pc = "idle"
    /\ task' = [task EXCEPT ![k] = [Idle EXCEPT !.pc = "take", !.seq = evidence]]
    /\ UNCHANGED <<evidence, opVars, pending, driver, linkVars, wireVars, clientVars,
                   boundVars>>

\* What take_deliverable asks of a demand.
Deliverable(k) ==
    /\ pending # None /\ pending.conn = k
    /\ ~pending.delivered /\ pending.answer = None

(* Then the demand is taken, if there is one, and sent.                    *)
TakeDemand(k) ==
    /\ task[k].pc = "take"
    /\ task' = [task EXCEPT ![k] = Idle]
    /\ IF Deliverable(k)
       THEN /\ pending' = [pending EXCEPT !.delivered = TRUE, !.seq = task[k].seq]
            /\ down' = IF dialled = k
                       THEN [down EXCEPT ![k] = Append(@, [kind |-> "demand",
                           id |-> pending.id, op |-> pending.op, sweep |-> pending.sweep])]
                       ELSE down
       ELSE UNCHANGED <<pending, down>>
    /\ UNCHANGED <<evidence, opVars, driver, linkVars, up, clientVars, boundVars>>

-----------------------------------------------------------------------------
(* The client takes up the next frame: it keeps a body and stashes a       *)
(* demand (push_pending_erasure), over the bound instead of the oldest.    *)
Receive ==
    /\ dialled # None /\ down[dialled] # <<>>
    /\ LET frame == Head(down[dialled]) IN
       \/ /\ frame.kind = "body"
          /\ memory' = memory \cup frame.says
          /\ UNCHANGED stash
       \/ /\ frame.kind = "demand"
          /\ stash' = Append(IF Len(stash) >= StashCap THEN Tail(stash) ELSE stash, frame)
          /\ UNCHANGED memory
    /\ down' = [down EXCEPT ![dialled] = Tail(@)]
    /\ UNCHANGED <<evidence, opVars, pending, driver, linkVars, task, up, boundVars>>

\* LocalErasureResult.
AnswerTo(demand, full) ==
    [id |-> demand.id, op |-> demand.op, sweep |-> demand.sweep, full |-> full]

(* apply_pending_erasure: the classes are wiped and the demand answered.   *)
Wipe ==
    /\ dialled # None /\ stash # <<>>
    /\ memory' = {}
    /\ stash' = Tail(stash)
    /\ up' = [up EXCEPT ![dialled] = Append(@, AnswerTo(Head(stash), TRUE))]
    /\ UNCHANGED <<evidence, opVars, pending, driver, linkVars, task, down, boundVars>>

(* apply_pending_erasure when a surface cannot be wiped.                   *)
WipeFails ==
    /\ dialled # None /\ stash # <<>>
    /\ fails < MaxFails /\ fails' = fails + 1
    /\ stash' = Tail(stash)
    /\ up' = [up EXCEPT ![dialled] = Append(@, AnswerTo(Head(stash), FALSE))]
    /\ UNCHANGED <<evidence, opVars, pending, driver, linkVars, task, down, memory,
                   late, bodies, restarts>>

\* Mutated: the demand's own id is not compared.
MatchesCondition(k, answer) ==
    /\ pending # None /\ pending.conn = k /\ pending.answer = None
    /\ pending.op = answer.op /\ pending.sweep = answer.sweep

\* What accept_result asks of an answer.
Matches(k, answer) ==
    /\ pending # None /\ pending.conn = k /\ pending.answer = None
    /\ pending.id = answer.id
    /\ pending.op = answer.op /\ pending.sweep = answer.sweep

\* Mutated: the evidence of the moment the answer comes is cleared.
HandleByNow(k) ==
    /\ link[k] = "open" /\ dialled = k /\ current = k
    /\ task[k].pc = "idle" /\ up[k] # <<>>
    /\ LET answer == Head(up[k]) IN
       IF Matches(k, answer)
       THEN /\ pending' = [pending EXCEPT !.answer = answer.full]
            /\ task' = IF answer.full /\ evidence # 0
                       THEN [task EXCEPT ![k] = [Idle EXCEPT !.pc = "clear",
                                                             !.seq = evidence]]
                       ELSE task
       ELSE UNCHANGED <<pending, task>>
    /\ up' = [up EXCEPT ![k] = Tail(@)]
    /\ UNCHANGED <<evidence, opVars, driver, linkVars, down, clientVars, boundVars>>

(* accept_client_erasure_result: the registry takes the answer; a full     *)
(* wipe goes on to clear the evidence the demand was delivered with.       *)
Handle(k) ==
    /\ link[k] = "open" /\ dialled = k /\ current = k
    /\ task[k].pc = "idle" /\ up[k] # <<>>
    /\ LET answer == Head(up[k]) IN
       IF Matches(k, answer)
       THEN /\ pending' = [pending EXCEPT !.answer = answer.full]
            /\ task' = IF answer.full /\ pending.seq # 0
                       THEN [task EXCEPT ![k] = [Idle EXCEPT !.pc = "clear",
                                                             !.seq = pending.seq]]
                       ELSE task
       ELSE UNCHANGED <<pending, task>>
    /\ up' = [up EXCEPT ![k] = Tail(@)]
    /\ UNCHANGED <<evidence, opVars, driver, linkVars, down, clientVars, boundVars>>

\* Mutated: the number of the evidence is not compared.
ClearAny(k) ==
    /\ task[k].pc = "clear"
    /\ evidence' = 0
    /\ late' = (late \/ (current # k /\ evidence # 0))
    /\ task' = [task EXCEPT ![k] = Idle]
    /\ UNCHANGED <<opVars, pending, driver, linkVars, wireVars, clientVars, bodies, fails,
                   restarts>>

(* clear_client_delivery_evidence: a comparison and a deletion in one.     *)
(* The next body's row begins with 1 again.                                *)
Clear(k) ==
    LET matches == evidence = task[k].seq IN
    /\ task[k].pc = "clear"
    /\ evidence' = IF matches THEN 0 ELSE evidence
    /\ late' = (late \/ (current # k /\ matches))
    /\ task' = [task EXCEPT ![k] = Idle]
    /\ UNCHANGED <<opVars, pending, driver, linkVars, wireVars, clientVars, bodies, fails,
                   restarts>>

-----------------------------------------------------------------------------
(* admit_deletion: the incarnation takes part if evidence is durable.      *)
Start(o) ==
    /\ phase[o] = "none"
    /\ phase' = [phase EXCEPT ![o] = "active"]
    /\ sweep' = [sweep EXCEPT ![o] = 1]
    /\ client' = [client EXCEPT ![o] = IF evidence > 0 THEN "pending" ELSE "absent"]
    /\ UNCHANGED <<evidence, pending, driver, linkVars, task, wireVars, clientVars,
                   boundVars>>

(* Another participant, or a remainder, opens the next sweep.              *)
NextSweep(o) ==
    /\ phase[o] = "active" /\ sweep[o] < MaxSweep
    /\ sweep' = [sweep EXCEPT ![o] = @ + 1]
    /\ client' = [client EXCEPT ![o] = IF @ = "absent" THEN "absent" ELSE "pending"]
    /\ UNCHANGED <<evidence, phase, pending, driver, linkVars, task, wireVars,
                   clientVars, boundVars>>

(* The driver comes to an operation whose client is not verified.          *)
Visit(o) ==
    /\ driver.pc = "idle"
    /\ phase[o] = "active" /\ client[o] = "pending"
    /\ driver' = [Resting EXCEPT !.pc = "ask", !.op = o, !.sweep = sweep[o]]
    /\ UNCHANGED <<evidence, opVars, pending, linkVars, task, wireVars, clientVars,
                   boundVars>>

\* erasure_condition_is_current.
ConditionCurrent ==
    driver.op \in Unfinished /\ sweep[driver.op] = driver.sweep

\* The demand of this condition on this connection.
Same(k) ==
    /\ pending # None /\ pending.op = driver.op /\ pending.sweep = driver.sweep
    /\ pending.conn = k

FreshIds ==
    {i \in DemandIds :
        /\ pending # None => pending.id # i
        /\ \A k \in Conns : /\ \A f \in ToSet(down[k]) : f.kind = "demand" => f.id # i
                            /\ \A a \in ToSet(up[k]) : a.id # i
        /\ \A d \in ToSet(stash) : d.id # i}

\* Held, Unavailable: the operation is held until its next try.
HeldNow ==
    /\ phase' = IF ConditionCurrent /\ phase[driver.op] = "active"
                THEN [phase EXCEPT ![driver.op] = "held"] ELSE phase
    /\ driver' = Resting

(* demand_local_erasure without a connection of the incarnation.           *)
Unreachable ==
    /\ driver.pc = "ask" /\ current = None
    /\ HeldNow
    /\ UNCHANGED <<evidence, sweep, client, pending, linkVars, task, wireVars,
                   clientVars, boundVars>>

(* demand_local_erasure: a demand is placed for the connection and more    *)
(* work reported, for the driver to ask again within its budget.           *)
Ask ==
    /\ driver.pc = "ask" /\ current # None
    /\ ~(Same(current) /\ pending.delivered)
    /\ FreshIds # {}
    /\ pending' = IF ~ConditionCurrent \/ Same(current) THEN pending
                  ELSE [id |-> CHOOSE i \in FreshIds : TRUE, op |-> driver.op, sweep |-> driver.sweep,
                        conn |-> current, delivered |-> FALSE, seq |-> 0, answer |-> None]
    /\ \/ driver' = Resting
       \/ ConditionCurrent /\ UNCHANGED driver
    /\ UNCHANGED <<evidence, opVars, linkVars, task, wireVars, clientVars, boundVars>>

(* demand_local_erasure once the demand is delivered: it waits.            *)
Await ==
    /\ driver.pc = "ask" /\ current # None
    /\ Same(current) /\ pending.delivered
    /\ driver' = [driver EXCEPT !.pc = "wait", !.conn = current]
    /\ UNCHANGED <<evidence, opVars, pending, linkVars, task, wireVars, clientVars,
                   boundVars>>

\* The demand waited for is still there.
Waited ==
    pending # None /\ pending.op = driver.op /\ pending.sweep = driver.sweep

(* wait: answered, and recorded if the condition is still current.         *)
Answered ==
    /\ driver.pc = "wait" /\ Waited /\ pending.answer # None
    /\ pending' = None
    /\ client' = IF ConditionCurrent /\ pending.answer
                 THEN [client EXCEPT ![driver.op] = "verified"] ELSE client
    /\ driver' = Resting
    /\ UNCHANGED <<evidence, phase, sweep, linkVars, task, wireVars, clientVars,
                   boundVars>>

(* wait: abandoned, because the connection ended.                          *)
Abandoned ==
    /\ driver.pc = "wait" /\ ~Waited
    /\ HeldNow
    /\ UNCHANGED <<evidence, sweep, client, pending, linkVars, task, wireVars,
                   clientVars, boundVars>>

(* await_client_result: nothing came within CLIENT_ERASURE_WAIT.           *)
TimedOut ==
    /\ driver.pc = "wait" /\ Waited /\ pending.answer = None
    /\ fails < MaxFails /\ fails' = fails + 1
    /\ Forgets(driver.conn)
    /\ HeldNow
    /\ UNCHANGED <<evidence, sweep, client, linkVars, task, wireVars, clientVars,
                   late, bodies, restarts>>

(* resume_hold_page.                                                       *)
Resume(o) ==
    /\ driver.pc = "idle" /\ phase[o] = "held"
    /\ phase' = [phase EXCEPT ![o] = "active"]
    /\ UNCHANGED <<evidence, sweep, client, pending, driver, linkVars, task, wireVars,
                   clientVars, boundVars>>

(* settle_finalizing, once every participant is verified.                  *)
Complete(o) ==
    /\ driver.pc = "idle" /\ phase[o] = "active"
    /\ client[o] \in {"absent", "verified"}
    /\ phase' = [phase EXCEPT ![o] = "completed"]
    /\ UNCHANGED <<evidence, sweep, client, pending, driver, linkVars, task, wireVars,
                   clientVars, boundVars>>

(* The host process ends: the registry and the connections are lost.       *)
Restart ==
    /\ restarts < MaxRestarts /\ restarts' = restarts + 1
    /\ pending' = None /\ driver' = Resting
    /\ current' = None /\ dialled' = None
    /\ link' = [k \in Conns |-> IF link[k] = "new" THEN "new" ELSE "ended"]
    /\ task' = [k \in Conns |-> Idle]
    /\ down' = [k \in Conns |-> <<>>] /\ up' = [k \in Conns |-> <<>>]
    /\ stash' = <<>>
    /\ UNCHANGED <<evidence, opVars, memory, late, bodies, fails>>

-----------------------------------------------------------------------------
ConnStep(k)   == \/ End(k) \/ Note(k) \/ Send(k) \/ ReadEvidence(k) \/ TakeDemand(k)
                 \/ Handle(k) \/ Clear(k)
DriverAnswers == Ask \/ Await \/ Unreachable \/ Answered \/ Abandoned
OpStep(o)     == Visit(o) \/ Resume(o) \/ Complete(o)

Next ==
    \/ \E k \in Conns : \/ Connect(k) \/ ConnStep(k)
                        \/ \E T \in SUBSET Sayable : ReadBody(k, T)
    \/ Break \/ Receive \/ Wipe \/ WipeFails
    \/ \E o \in Ops : Start(o) \/ NextSweep(o) \/ OpStep(o)
    \/ DriverAnswers \/ TimedOut \/ Restart

Spec == Init /\ [][Next]_vars

-----------------------------------------------------------------------------
\* Texts that are with the client or on their way to it.
Delivered ==
    memory \cup (IF dialled = None THEN {}
                 ELSE UNION {f.says : f \in {g \in ToSet(down[dialled]) : g.kind = "body"}})

\* Types, and what the registry, the participant rows and the driver agree on:
\* only a demand that was delivered is answered, the driver waits for an
\* operation it knows, and an operation that has not begun has no participant.
TypeOK ==
    /\ evidence \in 0..MaxBodies
    /\ phase \in [Ops -> {"none", "active", "held", "completed"}]
    /\ client \in [Ops -> {"absent", "pending", "verified"}]
    /\ pending # None => /\ pending.id \in DemandIds /\ pending.op \in Ops
                         /\ pending.seq <= MaxBodies
                         /\ pending.answer # None => pending.delivered
    /\ driver.pc \in {"idle", "ask", "wait"}
    /\ driver.pc # "idle" => driver.op \in Ops
    /\ Len(stash) <= StashCap
    /\ \A o \in Ops : phase[o] = "none" => client[o] = "absent" /\ sweep[o] = 0

\* A client that was sent a text, and still has it, is on record: an operation
\* that begins now will ask it (note_client_body_delivery,
\* clear_client_delivery_evidence).
EvidenceOnRecord == Delivered \cap Sayable # {} => evidence > 0

\* So it is, whatever bodies, demands, answers and sweeps cross, unless a
\* connection that was no longer current cleared evidence late.
EvidenceKept == ~late => EvidenceOnRecord

\* What the host knows of a client's copies.
EvidenceSafe == TypeOK /\ EvidenceKept

\* When an operation that asked the client completes, or any if no evidence was
\* cleared late, the client neither has the text nor has it still to come on its
\* connection (ClientIncarnationParticipant).
CompletesWiped ==
    \A o \in Ops : /\ phase[o] # "completed" /\ phase'[o] = "completed"
                   /\ client[o] = "verified" \/ ~late
                  => o \notin Delivered
CompletedClientWiped == [][CompletesWiped]_vars

=============================================================================
