--------------------------- MODULE TaskExecution ---------------------------
(***************************************************************************)
(* How the host of ene executes delegated Tasks: owner commands, Task      *)
(* Agent runs, the worker processes that perform external effects, the     *)
(* startup reconciliation, graceful shutdown and crashes, all running over *)
(* the tables of TaskStore.                                                *)
(*                                                                         *)
(* Actors interleave at every await.  What orders them is the execution    *)
(* registry (reserved and running executions, their cancellation flags),   *)
(* the commit scope (one async mutex around every claim of work) and the   *)
(* transactions of the store.  In-memory state is lost in a crash; tables  *)
(* survive it, and so may a worker that already received its request.      *)
(*                                                                         *)
(* A run that fails for a reason that changes no state here (provider or   *)
(* storage error, consent gone, protocol violation, missing workspace)     *)
(* quits: the model lets it quit wherever the code can meet such a reason. *)
(***************************************************************************)
EXTENDS TaskStore

CONSTANTS
    Commands,     \* slots for owner commands being handled concurrently
    Host,         \* the actor that reconciles at startup
    MaxTurns,     \* DEFAULT_MAX_TURNS of a run
    MaxCommands,  \* bound: commands issued in a behaviour
    MaxRestarts,  \* bound: how often the host process ends
    StorageFails  \* whether the transaction of an adoption may fail technically

ASSUME ActorsAssumption ==
    /\ Host \notin Commands
    /\ None \notin Commands \cup {Host}
    /\ (Commands \cup {Host}) \cap Delegations = {}
ASSUME BoundsAssumption == {MaxTurns, MaxCommands, MaxRestarts} \subseteq Nat

VARIABLES
    host,       \* "down", "starting", "serving" or "closing"
    aborted,    \* host_shutdown is signalled
    scope,      \* who holds the commit scope, None if nobody
    reserved,   \* TaskExecutionRegistry.reservations
    running,    \* TaskExecutionRegistry.running
    cancelled,  \* running executions whose cancellation is signalled
    run,        \* the Task Agent run of each delegation
    live,       \* attempts whose worker holds the request and has not ended
    cmd,        \* what each command slot, and the startup, is doing
    declared,   \* attempts whose certainty a person settled
    issued,     \* commands issued so far
    restarts    \* ends of the host process so far

registryVars == <<scope, reserved, running, cancelled>>
boundVars    == <<issued, restarts>>
hostVars     == <<host, aborted>>
execVars == <<hostVars, registryVars, run, live, cmd, declared, boundVars>>
vars     == <<storeVars, execVars>>

-----------------------------------------------------------------------------
Actors == Commands \cup {Host}

\* refs is attempt_refs; att the attempt being executed.
RunPcs == {"none", "spawned", "begin", "turn", "infer", "inferTx", "await",
           "decide", "act", "actTx", "launch", "effect", "settle", "record",
           "adopt", "done"}
NoRun == [pc |-> "none", turn |-> 0, refs |-> {}, att |-> None]

CmdPcs == {"idle", "steer", "delegate", "launch", "signal", "lock", "running",
           "reserved", "commit", "list", "route", "lookup", "adopt"}
NoCmd == [pc |-> "idle", task |-> None, deleg |-> None, rev |-> 0,
          free |-> TRUE, todo |-> {}, claim |-> {}]

ExecTypeOK ==
    /\ StoreTypeOK
    /\ host \in {"down", "starting", "serving", "closing"}
    /\ aborted \in BOOLEAN
    /\ scope \in {None} \cup Actors \cup Delegations
    /\ reserved \in SUBSET Delegations
    /\ running \in SUBSET Delegations
    /\ cancelled \in SUBSET Delegations
    /\ run \in [Delegations ->
                  [pc : RunPcs, turn : 0..MaxTurns, refs : SUBSET Attempts,
                   att : Attempts \cup {None}]]
    /\ live \in SUBSET Attempts
    /\ cmd \in [Actors ->
                  [pc : CmdPcs, task : Tasks \cup {None},
                   deleg : Delegations \cup {None}, rev : 0..MaxRevision,
                   free : BOOLEAN, todo : SUBSET Delegations,
                   claim : SUBSET Attempts]]
    /\ declared \in SUBSET Attempts
    /\ issued \in 0..MaxCommands
    /\ restarts \in 0..MaxRestarts

\* A host that has never run over an empty store.
ExecInit ==
    /\ StoreInit
    /\ host = "down"
    /\ aborted = FALSE
    /\ scope = None
    /\ reserved = {} /\ running = {} /\ cancelled = {}
    /\ run = [d \in Delegations |-> NoRun]
    /\ live = {}
    /\ cmd = [c \in Actors |-> NoCmd]
    /\ declared = {}
    /\ issued = 0 /\ restarts = 0

Up == host # "down"

\* Pcs of a run that holds a registration (dropped when the run ends).
ActiveRun(d) == run[d].pc \notin {"none", "spawned", "done"}

\* stop_outcome, and dispatch_abort: cancellation linked to host_shutdown.
Stopped(d) == d \in cancelled \/ aborted

\* TaskEffectRuntime::is_closing and BackgroundTaskAgent without its tasks.
Closing == host = "closing"

-----------------------------------------------------------------------------
\* Steps of a run.
RunTo(d, pc) == run' = [run EXCEPT ![d].pc = pc]

\* The registration is dropped and the reservation released.
EndRun(d) ==
    /\ run' = [run EXCEPT ![d] = [NoRun EXCEPT !.pc = "done"]]
    /\ running' = running \ {d}
    /\ cancelled' = cancelled \ {d}
    /\ reserved' = reserved \ {d}

RunAt(d, pc) == Up /\ run[d].pc = pc

\* run_task_agent up to take_reservation.
RunTake(d) ==
    /\ RunAt(d, "spawned")
    /\ IF d \in reserved
       THEN /\ running' = running \cup {d}
            /\ reserved' = reserved \ {d}
            /\ RunTo(d, "begin")
            /\ UNCHANGED cancelled
       ELSE EndRun(d)
    /\ UNCHANGED <<storeVars, hostVars, scope, live, cmd, declared, boundVars>>

\* execution_already_started: an unsealed, current execution with rows.
AlreadyStarted(d) ==
    /\ CanStart(d)
    /\ d \in inferred \/ AttemptsOf(d) # {}

RunBegin(d) ==
    /\ RunAt(d, "begin")
    /\ IF Stopped(d) \/ AlreadyStarted(d)
       THEN EndRun(d)
       ELSE RunTo(d, "turn") /\ UNCHANGED <<reserved, running, cancelled>>
    /\ UNCHANGED <<storeVars, hostVars, scope, live, cmd, declared, boundVars>>

\* The head of the loop, with the premise orchestrate_task_agent_turn reads.
RunTurn(d) ==
    /\ RunAt(d, "turn")
    /\ IF Stopped(d) \/ run[d].turn >= MaxTurns \/ ~PremiseCurrent(d)
       THEN EndRun(d)
       ELSE /\ run' = [run EXCEPT ![d].pc = "infer", ![d].turn = @ + 1,
                                  ![d].att = None]
            /\ UNCHANGED <<reserved, running, cancelled>>
    /\ UNCHANGED <<storeVars, hostVars, scope, live, cmd, declared, boundVars>>

\* dispatch_authorized_inner: the claim scope, then the abort check.
RunInferLock(d) ==
    /\ RunAt(d, "infer")
    /\ scope = None
    /\ IF Stopped(d)
       THEN EndRun(d) /\ UNCHANGED scope
       ELSE /\ scope' = d
            /\ RunTo(d, "inferTx")
            /\ UNCHANGED <<reserved, running, cancelled>>
    /\ UNCHANGED <<storeVars, hostVars, live, cmd, declared, boundVars>>

\* Mutated: a refused inference keeps the scope.
RunInferTxKeepsScope(d) ==
    /\ RunAt(d, "inferTx")
    /\ \/ /\ StartInference(d)
          /\ scope' = None
          /\ RunTo(d, "await")
          /\ UNCHANGED <<reserved, running, cancelled>>
       \/ /\ ~CanStart(d)
          /\ EndRun(d)
          /\ UNCHANGED <<storeVars, scope>>
    /\ UNCHANGED <<hostVars, live, cmd, declared, boundVars>>

RunInferTx(d) ==
    /\ RunAt(d, "inferTx")
    /\ scope' = None
    /\ \/ /\ StartInference(d)
          /\ RunTo(d, "await")
          /\ UNCHANGED <<reserved, running, cancelled>>
       \/ /\ ~CanStart(d)
          /\ EndRun(d)
          /\ UNCHANGED storeVars
    /\ UNCHANGED <<hostVars, live, cmd, declared, boundVars>>

\* The provider answers in its own time, if ever; the select is biased, so an
\* answer that comes together with an abort is not looked at.
RunAnswer(d) ==
    /\ RunAt(d, "await")
    /\ ~Stopped(d)
    /\ RunTo(d, "decide")
    /\ UNCHANGED <<storeVars, hostVars, registryVars, live, cmd, declared,
                   boundVars>>

\* Mutated: only the shutdown interrupts the wait, not the cancellation.
RunAbortWaitShutdownOnly(d) ==
    /\ RunAt(d, "await")
    /\ aborted
    /\ EndRun(d)
    /\ UNCHANGED <<storeVars, hostVars, scope, live, cmd, declared, boundVars>>

\* The select on abort.aborted() while the provider is silent.
RunAbortWait(d) ==
    /\ RunAt(d, "await")
    /\ Stopped(d)
    /\ EndRun(d)
    /\ UNCHANGED <<storeVars, hostVars, scope, live, cmd, declared, boundVars>>

\* The answer asks for an action; the checks run_workspace_action repeats.
RunDecideAct(d) ==
    /\ RunAt(d, "decide")
    /\ IF Stopped(d) \/ Closing \/ ~CanStart(d)
       THEN EndRun(d)
       ELSE RunTo(d, "act") /\ UNCHANGED <<reserved, running, cancelled>>
    /\ UNCHANGED <<storeVars, hostVars, scope, live, cmd, declared, boundVars>>

\* The answer is final.
RunDecideFinish(d) ==
    /\ RunAt(d, "decide")
    /\ RunTo(d, "record")
    /\ UNCHANGED <<storeVars, hostVars, registryVars, live, cmd, declared,
                   boundVars>>

\* Under the claim scope, with a prepared worker that has no request yet.
RunActLock(d) ==
    /\ RunAt(d, "act")
    /\ scope = None
    /\ IF Stopped(d) \/ Closing
       THEN EndRun(d) /\ UNCHANGED scope
       ELSE /\ scope' = d
            /\ RunTo(d, "actTx")
            /\ UNCHANGED <<reserved, running, cancelled>>
    /\ UNCHANGED <<storeVars, hostVars, live, cmd, declared, boundVars>>

\* start_workspace_action: claimed, refused with an observation (rejected,
\* denied, stale premise), or refused for good (terminal, sealed).
RunActTx(d) ==
    /\ RunAt(d, "actTx")
    /\ scope' = None
    /\ \/ \E a \in Attempts :
            /\ InsertAttempt(a, d)
            /\ run' = [run EXCEPT ![d].pc = "launch", ![d].att = a]
            /\ UNCHANGED <<reserved, running, cancelled>>
       \/ /\ RunTo(d, "turn")
          /\ UNCHANGED <<storeVars, reserved, running, cancelled>>
       \/ /\ ~CanStart(d)
          /\ EndRun(d)
          /\ UNCHANGED storeVars
    /\ UNCHANGED <<hostVars, live, cmd, declared, boundVars>>

\* execute_prepared: the worker gets its request unless a stop came first.
RunLaunch(d) ==
    /\ RunAt(d, "launch")
    /\ IF Stopped(d) \/ Closing
       THEN EndRun(d) /\ UNCHANGED live
       ELSE /\ live' = live \cup {run[d].att}
            /\ RunTo(d, "effect")
            /\ UNCHANGED <<reserved, running, cancelled>>
    /\ UNCHANGED <<storeVars, hostVars, scope, cmd, declared, boundVars>>

\* The worker reports.
RunEffectDone(d) ==
    /\ RunAt(d, "effect")
    /\ live' = live \ {run[d].att}
    /\ RunTo(d, "settle")
    /\ UNCHANGED <<storeVars, hostVars, registryVars, cmd, declared, boundVars>>

\* The worker is killed because of a stop or fails: nothing is settled.
RunEffectStop(d) ==
    /\ RunAt(d, "effect")
    /\ live' = live \ {run[d].att}
    /\ EndRun(d)
    /\ UNCHANGED <<storeVars, hostVars, scope, cmd, declared, boundVars>>

RunEffectKill(d) == Stopped(d) /\ RunEffectStop(d)

\* Mutated: an attempt whose fact could not be recorded is forgotten.
RunSettleForgets(d) ==
    /\ RunAt(d, "settle")
    /\ \/ /\ \E c \in Certainties : SetCertainty(run[d].att, c)
          /\ run' = [run EXCEPT ![d].pc = "turn", ![d].refs = @ \cup {run[d].att}]
       \/ RunTo(d, "turn") /\ UNCHANGED storeVars
    /\ UNCHANGED <<hostVars, registryVars, live, cmd, declared, boundVars>>

\* settle_workspace_effect.  When the fact cannot be recorded the run still
\* goes on; when the effect itself is unknown the run ends (EffectUnresolved).
RunSettle(d) ==
    /\ RunAt(d, "settle")
    /\ \/ \E c \in Certainties : SetCertainty(run[d].att, c)
       \/ UNCHANGED storeVars
    /\ run' = [run EXCEPT ![d].pc = "turn", ![d].refs = @ \cup {run[d].att}]
    /\ UNCHANGED <<hostVars, registryVars, live, cmd, declared, boundVars>>

RunUnresolved(d) ==
    /\ RunAt(d, "settle")
    /\ EndRun(d)
    /\ UNCHANGED <<storeVars, hostVars, scope, live, cmd, declared, boundVars>>

\* A call of adopt_result ends in a decision (the one made earlier, when the
\* result is adopted already), or it fails without a trace.
AdoptDecides(d, claim) ==
    \/ AdoptResult(d, claim)
    \/ adoptedRev[d] # 0 /\ ClaimMatches(d, claim) /\ UNCHANGED storeVars

AdoptFails(d, claim) ==
    (StorageFails \/ ~ClaimMatches(d, claim)) /\ UNCHANGED storeVars

\* finalize_result_body, then adopt_result with the run's own attempts.
RunRecord(d) ==
    /\ RunAt(d, "record")
    /\ RecordResult(d)
    /\ RunTo(d, "adopt")
    /\ UNCHANGED <<hostVars, registryVars, live, cmd, declared, boundVars>>

RunAdopt(d) ==
    /\ RunAt(d, "adopt")
    /\ AdoptDecides(d, run[d].refs) \/ AdoptFails(d, run[d].refs)
    /\ EndRun(d)
    /\ UNCHANGED <<hostVars, scope, live, cmd, declared, boundVars>>

\* The run gives up without a trace: see the head of the module.
RunQuit(d) ==
    /\ Up
    /\ run[d].pc \in {"spawned", "begin", "turn", "infer", "await", "decide",
                      "act", "record"}
    /\ EndRun(d)
    /\ UNCHANGED <<storeVars, hostVars, scope, live, cmd, declared, boundVars>>

-----------------------------------------------------------------------------
\* Steps of a command.  A handler runs to its end even when its client is
\* gone; only the end of the host process interrupts it.
CmdAt(c, pc) == Up /\ cmd[c].pc = pc

CmdTo(c, pc)  == cmd' = [cmd EXCEPT ![c].pc = pc]
CmdEnd(c)     == cmd' = [cmd EXCEPT ![c] = NoCmd]
Release(c)    == scope' = IF scope = c THEN None ELSE scope

Issue(c) ==
    /\ host = "serving"
    /\ c \in Commands
    /\ cmd[c].pc = "idle"
    /\ issued < MaxCommands
    /\ issued' = issued + 1

\* HostTaskControl::propose, up to delegate_task.
CmdPropose(c, t) ==
    /\ Issue(c)
    /\ CreateTask(t)
    /\ cmd' = [cmd EXCEPT ![c] = [NoCmd EXCEPT !.pc = "delegate", !.task = t, !.rev = 1]]
    /\ UNCHANGED <<hostVars, registryVars, run, live, declared, restarts>>

\* steer and resume read the record first and rely on what they read.
CmdRead(c, t) ==
    /\ Issue(c)
    /\ progress[t] # "absent"
    /\ \/ /\ progress[t] \in Open
          /\ cmd' = [cmd EXCEPT ![c] = [NoCmd EXCEPT !.pc = "steer", !.task = t,
                                                    !.rev = revision[t]]]
       \/ cmd' = [cmd EXCEPT ![c] = [NoCmd EXCEPT !.pc = "lock", !.task = t,
                                                 !.rev = revision[t]]]
    /\ UNCHANGED <<storeVars, hostVars, registryVars, run, live, declared, restarts>>

\* forward_steering, or one of its refusals.
CmdSteer(c) ==
    /\ CmdAt(c, "steer")
    /\ \/ /\ ForwardSteering(cmd[c].task, cmd[c].rev)
          /\ cmd' = [cmd EXCEPT ![c].pc = "delegate", ![c].rev = @ + 1]
       \/ UNCHANGED storeVars /\ CmdEnd(c)
    /\ UNCHANGED <<hostVars, registryVars, run, live, declared, boundVars>>

\* delegate_task: the scope is held around load, create and reserve, and
\* nothing else reads the reservation in between; or it refuses or fails.
CmdDelegate(c) ==
    /\ CmdAt(c, "delegate")
    /\ scope = None
    /\ \/ \E d \in Delegations :
            /\ CreateDelegation(d, cmd[c].task, cmd[c].rev)
            /\ reserved' = reserved \cup {d}
            /\ cmd' = [cmd EXCEPT ![c].pc = "launch", ![c].deleg = d]
       \/ CmdEnd(c) /\ UNCHANGED <<storeVars, reserved>>
    /\ UNCHANGED <<hostVars, scope, running, cancelled, run, live, declared,
                   boundVars>>

\* Mutated: a launch refused by a closing runner keeps its reservation.
CmdLaunchKeepsReservation(c) ==
    /\ CmdAt(c, "launch")
    /\ IF Closing THEN UNCHANGED run ELSE RunTo(cmd[c].deleg, "spawned")
    /\ CmdEnd(c)
    /\ Release(c)
    /\ UNCHANGED <<storeVars, hostVars, reserved, running, cancelled, live,
                   declared, boundVars>>

\* launch_or_release; a resume still holds the scope here.
CmdLaunch(c) ==
    /\ CmdAt(c, "launch")
    /\ IF Closing
       THEN reserved' = reserved \ {cmd[c].deleg} /\ UNCHANGED run
       ELSE RunTo(cmd[c].deleg, "spawned") /\ UNCHANGED reserved
    /\ CmdEnd(c)
    /\ Release(c)
    /\ UNCHANGED <<storeVars, hostVars, running, cancelled, live, declared,
                   boundVars>>

\* cancel: the transaction, then the signal to what is running.
CmdCancel(c, t) ==
    /\ Issue(c)
    /\ CancelTask(t)
    /\ cmd' = [cmd EXCEPT ![c] = [NoCmd EXCEPT !.pc = "signal", !.task = t]]
    /\ UNCHANGED <<hostVars, registryVars, run, live, declared, restarts>>

CmdSignal(c) ==
    /\ CmdAt(c, "signal")
    /\ cancelled' = cancelled \cup (running \cap DelegsOf(cmd[c].task))
    /\ CmdEnd(c)
    /\ UNCHANGED <<storeVars, hostVars, scope, reserved, running, run, live,
                   declared, boundVars>>

-----------------------------------------------------------------------------
\* resume: under the scope, task_has_reservation_or_running reads the two
\* maps of the registry one after the other.
CmdResumeLock(c) ==
    /\ CmdAt(c, "lock")
    /\ scope = None
    /\ scope' = c
    /\ CmdTo(c, "running")
    /\ UNCHANGED <<storeVars, hostVars, reserved, running, cancelled, run, live,
                   declared, boundVars>>

CmdReadRunning(c) ==
    /\ CmdAt(c, "running")
    /\ IF running \cap DelegsOf(cmd[c].task) # {}
       THEN cmd' = [cmd EXCEPT ![c].pc = "commit", ![c].free = FALSE]
       ELSE CmdTo(c, "reserved")
    /\ UNCHANGED <<storeVars, hostVars, registryVars, run, live, declared,
                   boundVars>>

CmdReadReserved(c) ==
    /\ CmdAt(c, "reserved")
    /\ cmd' = [cmd EXCEPT ![c].pc = "commit",
                          ![c].free = reserved \cap DelegsOf(cmd[c].task) = {}]
    /\ UNCHANGED <<storeVars, hostVars, registryVars, run, live, declared,
                   boundVars>>

\* commit_task_resume, then the reservation, which nobody reads before the
\* scope is released; or route_available_result; or a refusal.
RoutesResult(c) ==
    /\ ExpectedCurrent(cmd[c].task, cmd[c].rev)
    /\ cmd[c].free
    /\ NoneUnknown(cmd[c].task)
    /\ ResultAvailable(cmd[c].task)

CmdResumeCommit(c) ==
    /\ CmdAt(c, "commit")
    /\ \/ \E d \in Delegations :
            /\ CommitResume(cmd[c].task, cmd[c].rev, d, cmd[c].free)
            /\ reserved' = reserved \cup {d}
            /\ cmd' = [cmd EXCEPT ![c].pc = "launch", ![c].deleg = d]
            /\ UNCHANGED scope
       \/ /\ RoutesResult(c)
          /\ CmdTo(c, "list")
          /\ UNCHANGED <<storeVars, reserved, scope>>
       \/ /\ ~RoutesResult(c)
          /\ CmdEnd(c)
          /\ Release(c)
          /\ UNCHANGED <<storeVars, reserved>>
    /\ UNCHANGED <<hostVars, running, cancelled, run, live, declared, boundVars>>

\* route_available_result: the sealed, unadopted results of the task at the
\* revision it has by now.
Unadopted(t) ==
    {d \in DelegsOf(t) \cap sealed : adoptedRev[d] = 0 /\ delegRev[d] = revision[t]}

CmdList(c) ==
    /\ CmdAt(c, "list")
    /\ cmd' = [cmd EXCEPT ![c].pc = "route", ![c].todo = Unadopted(cmd[c].task)]
    /\ UNCHANGED <<storeVars, hostVars, registryVars, run, live, declared,
                   boundVars>>

\* settle_action_certainty: an owner says what became of an attempt.  When
\* the certainty had moved already (StaleCurrent), the result of the
\* attempt's delegation is looked at again all the same.
CmdSettle(c, a) ==
    /\ Issue(c)
    /\ attemptOf[a] # None
    /\ \/ \E new \in Certainties : SetCertainty(a, new) /\ declared' = declared \cup {a}
       \/ certainty[a] # "unknown" /\ UNCHANGED <<storeVars, declared>>
    /\ cmd' = [cmd EXCEPT ![c] = [NoCmd EXCEPT !.pc = "lookup", !.deleg = attemptOf[a]]]
    /\ UNCHANGED <<hostVars, registryVars, run, live, restarts>>

\* reevaluate_sealed_result_for_attempt.
CmdLookup(c) ==
    /\ CmdAt(c, "lookup")
    /\ cmd' = [cmd EXCEPT ![c].pc = "route",
                          ![c].todo = {d \in sealed : d = cmd[c].deleg /\ adoptedRev[d] = 0}]
    /\ UNCHANGED <<storeVars, hostVars, registryVars, run, live, declared,
                   boundVars>>

-----------------------------------------------------------------------------
\* reevaluate_result_adoption for each listed result: the claim is loaded in
\* one transaction and adopted in another.  Used by resume, settlement and
\* the startup reconciliation.
RouteLoad(c) ==
    /\ CmdAt(c, "route")
    /\ \E d \in cmd[c].todo :
         cmd' = [cmd EXCEPT ![c].pc = "adopt", ![c].deleg = d,
                            ![c].todo = @ \ {d}, ![c].claim = AttemptsOf(d)]
    /\ UNCHANGED <<storeVars, hostVars, registryVars, run, live, declared,
                   boundVars>>

\* A command ends with a failure, the startup goes on to the next result.
RouteAdopt(c) ==
    /\ CmdAt(c, "adopt")
    /\ \/ /\ AdoptDecides(cmd[c].deleg, cmd[c].claim)
          /\ CmdTo(c, "route")
          /\ UNCHANGED scope
       \/ /\ AdoptFails(cmd[c].deleg, cmd[c].claim)
          /\ IF c = Host THEN CmdTo(c, "route") ELSE CmdEnd(c)
          /\ IF c = Host THEN UNCHANGED scope ELSE Release(c)
    /\ UNCHANGED <<hostVars, reserved, running, cancelled, run, live, declared,
                   boundVars>>

\* Mutated: a resume that only routed results keeps the scope.
RouteEndKeepsScope(c) ==
    /\ CmdAt(c, "route")
    /\ cmd[c].todo = {}
    /\ CmdEnd(c)
    /\ host' = IF c = Host THEN "serving" ELSE host
    /\ UNCHANGED <<storeVars, aborted, registryVars, run, live, declared,
                   boundVars>>

RouteEnd(c) ==
    /\ CmdAt(c, "route")
    /\ cmd[c].todo = {}
    /\ CmdEnd(c)
    /\ Release(c)
    /\ host' = IF c = Host THEN "serving" ELSE host
    /\ UNCHANGED <<storeVars, aborted, reserved, running, cancelled, run, live,
                   declared, boundVars>>

\* Mutated: the startup takes every effect still unknown for a failed one.
StartSweepsUnknown ==
    /\ host = "down"
    /\ host' = "starting"
    /\ cmd' = [cmd EXCEPT ![Host].pc = "route",
                          ![Host].todo = UNION {Unadopted(t) : t \in
                                                  {x \in Tasks : progress[x] \in Open}}]
    /\ certainty' = [a \in Attempts |->
                       IF attemptOf[a] # None /\ certainty[a] = "unknown"
                       THEN "confirmed_failure" ELSE certainty[a]]
    /\ UNCHANGED <<progress, revision, delegTask, delegRev, inferred, attemptOf,
                   sealed, stamped, adoptedRev, undelivered, aborted,
                   registryVars, run, live, declared, boundVars>>

\* run_startup_mutations, reconcile_sealed_results: the listing.
Start ==
    /\ host = "down"
    /\ host' = "starting"
    /\ cmd' = [cmd EXCEPT ![Host].pc = "route",
                          ![Host].todo = UNION {Unadopted(t) : t \in
                                                  {x \in Tasks : progress[x] \in Open}}]
    /\ UNCHANGED <<storeVars, aborted, registryVars, run, live, declared, boundVars>>

-----------------------------------------------------------------------------
\* ServingComposition::quiesce.  Admission of commands ends, the runner set
\* is taken and effect admission closed; the abort is raised under the commit
\* scope.  After the quiesce timeout workers are killed and runs aborted where
\* they stand.  The process exits when runs and handlers are joined.
ShutdownBegin ==
    /\ host = "serving"
    /\ restarts < MaxRestarts
    /\ host' = "closing"
    /\ UNCHANGED <<storeVars, aborted, registryVars, run, live, cmd, declared,
                   boundVars>>

\* Mutated: abort_for_host_shutdown_without_commit_scope on the quiesce path.
ShutdownAbortUnscoped ==
    /\ host = "closing"
    /\ ~aborted
    /\ aborted' = TRUE
    /\ UNCHANGED <<storeVars, host, registryVars, run, live, cmd, declared,
                   boundVars>>

ShutdownAbort ==
    /\ host = "closing"
    /\ ~aborted
    /\ scope = None
    /\ aborted' = TRUE
    /\ UNCHANGED <<storeVars, host, registryVars, run, live, cmd, declared,
                   boundVars>>

\* The process is gone: tables stay, memory does not.
LoseMemory ==
    /\ host' = "down"
    /\ aborted' = FALSE
    /\ scope' = None
    /\ reserved' = {} /\ running' = {} /\ cancelled' = {}
    /\ run' = [d \in Delegations |->
                 IF run[d].pc = "none" THEN NoRun ELSE [NoRun EXCEPT !.pc = "done"]]
    /\ cmd' = [c \in Actors |-> NoCmd]
    /\ restarts' = restarts + 1
    /\ UNCHANGED <<storeVars, declared, issued>>

InEffect == {d \in Delegations : run[d].pc = "effect"}

ShutdownKill ==
    /\ host = "closing"
    /\ aborted
    /\ \E d \in Delegations : run[d].pc \notin {"none", "done"}
    /\ live' = live \ {run[d].att : d \in InEffect}
    /\ run' = [d \in Delegations |->
                 IF run[d].pc = "none" THEN NoRun ELSE [NoRun EXCEPT !.pc = "done"]]
    /\ running' = {} /\ cancelled' = {}
    /\ scope' = IF scope \in Delegations THEN None ELSE scope
    /\ UNCHANGED <<storeVars, hostVars, reserved, cmd, declared, boundVars>>

ShutdownExit ==
    /\ host = "closing"
    /\ aborted
    /\ \A d \in Delegations : run[d].pc \in {"none", "done"}
    /\ \A c \in Actors : cmd[c].pc = "idle"
    /\ LoseMemory
    /\ UNCHANGED live

\* The host is killed.  A worker that has its request may outlive it.
Crash ==
    /\ Up
    /\ restarts < MaxRestarts
    /\ LoseMemory
    /\ UNCHANGED live

OrphanEnds ==
    /\ \E a \in live :
         /\ \A d \in InEffect : run[d].att # a
         /\ live' = live \ {a}
    /\ UNCHANGED <<storeVars, hostVars, registryVars, run, cmd, declared, boundVars>>

-----------------------------------------------------------------------------
RunWork(d) ==
    \/ RunTake(d) \/ RunBegin(d) \/ RunTurn(d)
    \/ RunInferTx(d) \/ RunAbortWait(d)
    \/ RunDecideAct(d) \/ RunDecideFinish(d)
    \/ RunActTx(d) \/ RunLaunch(d) \/ RunEffectKill(d)
    \/ RunSettle(d) \/ RunUnresolved(d) \/ RunRecord(d) \/ RunAdopt(d)

RunLock(d) == RunInferLock(d) \/ RunActLock(d)

RunStep(d) ==
    \/ RunWork(d) \/ RunLock(d) \/ RunAnswer(d)
    \/ RunEffectDone(d) \/ RunEffectStop(d) \/ RunQuit(d)

CmdWork(c) ==
    \/ CmdSteer(c) \/ CmdLaunch(c) \/ CmdSignal(c)
    \/ CmdReadRunning(c) \/ CmdReadReserved(c) \/ CmdResumeCommit(c)
    \/ CmdList(c) \/ CmdLookup(c) \/ RouteLoad(c) \/ RouteAdopt(c) \/ RouteEnd(c)

CmdLock(c) == CmdDelegate(c) \/ CmdResumeLock(c)

CmdIssue(c) ==
    \/ \E t \in Tasks : CmdPropose(c, t) \/ CmdRead(c, t) \/ CmdCancel(c, t)
    \/ \E a \in Attempts : CmdSettle(c, a)

HostStep == Start \/ ShutdownBegin \/ ShutdownAbort \/ ShutdownKill
            \/ ShutdownExit \/ Crash \/ OrphanEnds

ExecNext ==
    \/ \E d \in Delegations : RunStep(d)
    \/ \E c \in Actors : CmdWork(c) \/ CmdLock(c) \/ CmdIssue(c)
    \/ HostStep

ExecSpec == ExecInit /\ [][ExecNext]_vars

-----------------------------------------------------------------------------
(* What a run, a settlement, a resume or the startup hands to adopt_result  *)
(* is the complete set of the delegation's attempts, although it was put    *)
(* together turn by turn or read in an earlier transaction: otherwise the   *)
(* adoption fails and the finished task stays open.                         *)
ClaimsExact ==
    /\ \A d \in Delegations : run[d].pc = "adopt" => run[d].refs = AttemptsOf(d)
    /\ \A c \in Actors : cmd[c].pc = "adopt" => cmd[c].claim = AttemptsOf(cmd[c].deleg)

(* No revision of a task is handed out twice, whatever proposals, steerings *)
(* and resumes race: two executions never work for the same instruction.    *)
OneDelegationPerRevision ==
    \A d, e \in Delegations :
        /\ delegTask[d] # None
        /\ delegTask[d] = delegTask[e]
        /\ delegRev[d] = delegRev[e]
        => d = e

(* A reservation always has somebody who will take or release it, so a task *)
(* is never refused a resume (AlreadyRunning) for an execution that is not. *)
(* Only a host that is closing may abort a run that has not taken it yet.   *)
NoLeakedReservation ==
    /\ \A d \in reserved :
         \/ run[d].pc = "spawned"
         \/ aborted /\ run[d].pc = "done"
         \/ \E c \in Commands : cmd[c].pc = "launch" /\ cmd[c].deleg = d
    /\ running = {d \in Delegations : ActiveRun(d)}

(* What runs, settlements, resumes and the registry keep consistent between *)
(* the transactions they are made of.                                       *)
ExecInvariant == ExecTypeOK /\ ClaimsExact /\ NoLeakedReservation

(* While a worker may still change the world, its attempt stands as unknown *)
(* (unless a person declared otherwise), so the task is neither completed   *)
(* nor may it be resumed; this spans stops, crashes and orphaned workers.   *)
EffectsAccounted ==
    /\ \A a \in live : attemptOf[a] # None
    /\ \A a \in live \ declared :
         /\ certainty[a] = "unknown"
         /\ progress[delegTask[attemptOf[a]]] # "completed"

(* A new execution of a task is started for a resume only when no worker of *)
(* an earlier execution can still act, again unless a person declared it.   *)
ResumesTask(t) ==
    /\ revision'[t] # revision[t]
    /\ \E d \in Delegations : delegTask[d] = None /\ delegTask'[d] = t

ResumeQuiet ==
    \A t \in Tasks : ResumesTask(t) =>
         TaskAttempts(t) \cap (live \ declared) = {}

(* Once the host has signalled its shutdown, no execution claims an         *)
(* inference or an effect any more: the abort check and the claim happen    *)
(* under the scope the signal waits for.                                    *)
NoClaimAfterAbort == aborted => UNCHANGED <<inferred, attemptOf>>

(* No step starts work whose time is not there or is over.                  *)
NoWorkOutOfTurn == [][ResumeQuiet /\ NoClaimAfterAbort]_vars

(* A cancelled task's execution ends although the provider may be silent    *)
(* and the worker stuck.                                                    *)
CancelDrains ==
    \A d \in Delegations :
        (ActiveRun(d) /\ delegTask[d] # None /\ progress[delegTask[d]] = "cancelled")
            ~> ~ActiveRun(d)

(* Every command is answered and every reservation is taken or released:    *)
(* the commit scope never leaves anybody waiting.                           *)
CommandsEnd ==
    /\ \A c \in Commands : cmd[c].pc # "idle" ~> cmd[c].pc = "idle"
    /\ \A d \in Delegations : d \in reserved ~> d \notin reserved

(* A shutdown that was begun ends.                                          *)
ShutdownEnds == host = "closing" ~> host = "down"

(* What is asked of the host comes to an end.                               *)
WorkEnds == CancelDrains /\ CommandsEnd /\ ShutdownEnds

-----------------------------------------------------------------------------
(* docs/requirements/acceptance.md S5-20: a settlement re-evaluates, and    *)
(* when the conditions hold the task is completed.  A run about to adopt    *)
(* its own result is not the settlement's business.                         *)
SettlementCompletes ==
    [][\A c \in Commands :
         /\ cmd[c].pc = "route" /\ cmd[c].task = None /\ cmd'[c].pc = "idle"
         /\ host' # "down"
         => \A d \in DelegsOf(delegTask[cmd[c].deleg]) :
              Adoptable(d) => run[d].pc = "adopt"]_vars
=============================================================================
