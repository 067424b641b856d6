------------------------ MODULE TaskExecution_proofs ------------------------
(***************************************************************************)
(* Proofs about TaskExecution: every step of the host is a transaction of  *)
(* TaskStore or leaves the tables alone, so what is proved of the tables   *)
(* holds of the running host; and the inductive invariant behind           *)
(* ExecInvariant, EffectsAccounted, OneDelegationPerRevision and           *)
(* NoWorkOutOfTurn.                                                        *)
(***************************************************************************)
EXTENDS TaskExecution, TaskStore_proofs

(* What a command remembers between its transactions.  The revision it read *)
(* is not ahead of the task's, and a claim it loaded is still complete: the *)
(* delegation was sealed before.                                            *)
CmdShape(c) ==
    /\ cmd[c].pc \in {"steer", "delegate", "lock", "running", "reserved", "commit"} =>
         cmd[c].task \in Tasks /\ cmd[c].rev \in 1..revision[cmd[c].task]
    /\ cmd[c].pc \in {"signal", "list"} => cmd[c].task \in Tasks
    /\ cmd[c].pc \in {"launch", "lookup", "adopt"} => cmd[c].deleg \in Delegations
    /\ cmd[c].pc \in {"route", "adopt"} => cmd[c].todo \subseteq sealed
    /\ cmd[c].pc = "adopt" =>
         /\ cmd[c].deleg \in sealed
         /\ \A a \in Attempts : attemptOf[a] = cmd[c].deleg <=> a \in cmd[c].claim
    /\ cmd[c].pc = "launch" =>
         delegTask[cmd[c].deleg] # None /\ run[cmd[c].deleg].pc = "none"
    /\ c = Host => cmd[c].pc \in {"idle", "route", "adopt"}

(* A run counts its own attempts exactly: those it has settled and, between *)
(* the claim of an effect and its settlement, the one in hand.              *)
InHand == {"launch", "effect", "settle"}

RunShape(d) ==
    /\ run[d].pc # "none" => delegTask[d] # None
    /\ run[d].pc = "none" => run[d] = NoRun
    /\ run[d].pc \notin InHand \cup {"done"} =>
         \A a \in Attempts : attemptOf[a] = d <=> a \in run[d].refs
    /\ run[d].pc \in InHand =>
         /\ run[d].att \in Attempts
         /\ \A a \in Attempts : attemptOf[a] = d <=> a \in run[d].refs \cup {run[d].att}
    /\ run[d].pc = "adopt" => d \in sealed

(* The registry lists the active runs, and a reservation has somebody who   *)
(* will take or release it.                                                 *)
Registered ==
    /\ \A d \in Delegations : d \in running <=> ActiveRun(d)
    /\ \A d \in reserved :
         \/ run[d].pc = "spawned"
         \/ aborted /\ run[d].pc = "done"
         \/ \E c \in Commands : cmd[c].pc = "launch" /\ cmd[c].deleg = d
    /\ \A c, e \in Actors :
         cmd[c].pc = "launch" /\ cmd[e].pc = "launch" /\ cmd[c].deleg = cmd[e].deleg
         => c = e

(* A run that has passed the abort check and has not claimed yet holds the  *)
(* commit scope, which the signal of a shutdown waits for.                  *)
Scoped == \A d \in Delegations :
    run[d].pc \in {"inferTx", "actTx"} => scope = d /\ ~aborted

(* Nobody records what became of an effect while its worker is alive.       *)
Doubtful ==
    /\ live \subseteq Attempts
    /\ \A a \in live : attemptOf[a] # None
    /\ \A a \in live \ declared : certainty[a] = "unknown"
    /\ \A d \in Delegations :
         /\ run[d].pc \in {"launch", "effect"} =>
              run[d].att \in declared \/ certainty[run[d].att] = "unknown"
         /\ run[d].pc = "settle" => run[d].att \notin live

(* A command about to delegate is the only one for its revision, which no   *)
(* delegation has yet.                                                      *)
HandedOnce ==
    /\ OneDelegationPerRevision
    /\ \A c \in Actors, d \in Delegations : cmd[c].pc = "delegate" =>
         delegTask[d] # cmd[c].task \/ delegRev[d] # cmd[c].rev
    /\ \A c, e \in Actors :
         /\ cmd[c].pc = "delegate" /\ cmd[e].pc = "delegate"
         /\ cmd[c].task = cmd[e].task /\ cmd[c].rev = cmd[e].rev
         => c = e

(* A task row that exists has a revision, and a shutdown still has its one  *)
(* restart to come.                                                         *)
Begun ==
    /\ \A t \in Tasks : progress[t] = "absent" <=> revision[t] = 0
    /\ host = "closing" => restarts < MaxRestarts

(* The inductive invariant of the running host.                             *)
ExecInv ==
    /\ ExecTypeOK
    /\ AdoptionInv
    /\ Begun
    /\ \A c \in Actors : CmdShape(c)
    /\ \A d \in Delegations : RunShape(d)
    /\ Registered
    /\ Scoped
    /\ Doubtful
    /\ HandedOnce

-----------------------------------------------------------------------------
(* Every step of the host is one transaction of the tables or none.         *)
LEMMA StoreStep ==
    ASSUME ExecInv, [ExecNext]_vars PROVE [StoreNext]_storeVars
<1>1. ASSUME NEW d \in Delegations, RunStep(d)
      PROVE  [StoreNext]_storeVars
  <2>1. CASE RunInferTx(d)
    BY <2>1 DEF RunInferTx, StoreNext, WorkStep
  <2>2. CASE RunActTx(d)
    BY <2>2 DEF RunActTx, StoreNext, WorkStep
  <2>3. CASE RunSettle(d)
    <3>1. run[d].att \in Attempts
      BY <2>3 DEF RunSettle, RunAt, ExecInv, RunShape, InHand
    <3> QED
      BY <2>3, <3>1 DEF RunSettle, StoreNext, SettleStep
  <2>4. CASE RunRecord(d)
    BY <2>4 DEF RunRecord, StoreNext, WorkStep
  <2>5. CASE RunAdopt(d)
    <3>1. run[d].refs \in SUBSET Attempts
      BY DEF ExecInv, ExecTypeOK
    <3> QED
      BY <2>5, <3>1 DEF RunAdopt, AdoptDecides, AdoptFails, StoreNext, WorkStep
  <2>6. CASE \/ RunTake(d) \/ RunBegin(d) \/ RunTurn(d) \/ RunAbortWait(d)
             \/ RunDecideAct(d) \/ RunDecideFinish(d) \/ RunLaunch(d)
             \/ RunEffectKill(d) \/ RunUnresolved(d) \/ RunLock(d) \/ RunAnswer(d)
             \/ RunEffectDone(d) \/ RunEffectStop(d) \/ RunQuit(d)
    BY <2>6
       DEF RunTake, RunBegin, RunTurn, RunAbortWait, RunDecideAct, RunDecideFinish,
           RunLaunch, RunEffectKill, RunUnresolved, RunLock, RunInferLock, RunActLock,
           RunAnswer, RunEffectDone, RunEffectStop, RunQuit
  <2> QED
    BY <1>1, <2>1, <2>2, <2>3, <2>4, <2>5, <2>6 DEF RunStep, RunWork
<1>2. ASSUME NEW c \in Actors, CmdWork(c) \/ CmdLock(c) \/ CmdIssue(c)
      PROVE  [StoreNext]_storeVars
  <2>1. CASE CmdSteer(c)
    <3>1. cmd[c].task \in Tasks /\ cmd[c].rev \in Revisions
      BY <2>1, RevisionAssumption
         DEF CmdSteer, CmdAt, ExecInv, CmdShape, ExecTypeOK, StoreTypeOK, Revisions
    <3> QED
      BY <2>1, <3>1 DEF CmdSteer, StoreNext, TaskStep
  <2>2. CASE CmdDelegate(c)
    <3>1. cmd[c].task \in Tasks /\ cmd[c].rev \in Revisions
      BY <2>2, RevisionAssumption
         DEF CmdDelegate, CmdAt, ExecInv, CmdShape, ExecTypeOK, StoreTypeOK,
             Revisions
    <3> QED
      BY <2>2, <3>1 DEF CmdDelegate, StoreNext, TaskStep
  <2>3. CASE CmdResumeCommit(c)
    <3>1. /\ cmd[c].task \in Tasks /\ cmd[c].rev \in Revisions
          /\ cmd[c].free \in BOOLEAN
      BY <2>3, RevisionAssumption
         DEF CmdResumeCommit, CmdAt, ExecInv, CmdShape, ExecTypeOK, StoreTypeOK,
             Revisions
    <3> QED
      BY <2>3, <3>1 DEF CmdResumeCommit, StoreNext, TaskStep
  <2>4. CASE RouteAdopt(c)
    <3>1. cmd[c].deleg \in Delegations /\ cmd[c].claim \in SUBSET Attempts
      BY <2>4 DEF RouteAdopt, CmdAt, ExecInv, CmdShape, ExecTypeOK
    <3> QED
      BY <2>4, <3>1 DEF RouteAdopt, AdoptDecides, AdoptFails, StoreNext, WorkStep
  <2>5. CASE CmdIssue(c)
    BY <2>5
       DEF CmdIssue, CmdPropose, CmdRead, CmdCancel, CmdSettle, StoreNext,
           TaskStep, SettleStep
  <2>6. CASE \/ CmdLaunch(c) \/ CmdSignal(c) \/ CmdReadRunning(c) \/ CmdReadReserved(c)
             \/ CmdList(c) \/ CmdLookup(c) \/ RouteLoad(c) \/ RouteEnd(c) \/ CmdResumeLock(c)
    BY <2>6
       DEF CmdLaunch, CmdSignal, CmdReadRunning, CmdReadReserved, CmdList,
           CmdLookup,
           RouteLoad, RouteEnd, CmdResumeLock
  <2> QED
    BY <1>2, <2>1, <2>2, <2>3, <2>4, <2>5, <2>6 DEF CmdWork, CmdLock
<1>3. CASE HostStep
  BY <1>3
     DEF HostStep, Start, ShutdownBegin, ShutdownAbort, ShutdownKill,
         ShutdownExit,
              Crash, LoseMemory, OrphanEnds
<1>4. CASE UNCHANGED vars
  BY <1>4 DEF vars
<1> QED
  BY <1>1, <1>2, <1>3, <1>4 DEF ExecNext

(* The types of a command and of a run.                                     *)
CmdRow ==
    [pc : CmdPcs, task : Tasks \cup {None}, deleg : Delegations \cup {None},
     rev : 0..MaxRevision, free : BOOLEAN, todo : SUBSET Delegations,
     claim : SUBSET Attempts]

RunRow ==
    [pc : RunPcs, turn : 0..MaxTurns, refs : SUBSET Attempts, att : Attempts \cup {None}]

(* Each step keeps the types.                                               *)
LEMMA ExecTyping ==
    ASSUME ExecInv, [ExecNext]_vars PROVE ExecTypeOK'
<1>0. StoreTypeOK'
  BY StoreStep, TypingInductive DEF ExecInv, ExecTypeOK
<1>t. /\ cmd \in [Actors -> CmdRow]
      /\ run \in [Delegations -> RunRow]
      /\ NoCmd \in CmdRow
  BY RevisionAssumption DEF ExecInv, ExecTypeOK, CmdRow, RunRow, NoCmd, CmdPcs
<1>1. ASSUME NEW d \in Delegations, RunStep(d)
      PROVE  ExecTypeOK'
  <2>1. CASE RunTake(d)
    BY <2>1, <1>0, RevisionAssumption, BoundsAssumption
       DEF RunTake, RunAt, RunTo, EndRun, ExecTypeOK, RunPcs, CmdPcs, Actors,
           ExecInv, storeVars, hostVars, registryVars, boundVars, NoRun, NoCmd
  <2>2. CASE RunBegin(d)
    BY <2>2, <1>0, RevisionAssumption, BoundsAssumption
       DEF RunBegin, RunAt, RunTo, EndRun, ExecTypeOK, RunPcs, CmdPcs, Actors,
           ExecInv, storeVars, hostVars, registryVars, boundVars, NoRun, NoCmd
  <2>3. CASE RunTurn(d)
    BY <2>3, <1>0, RevisionAssumption, BoundsAssumption
       DEF RunTurn, RunAt, EndRun, ExecTypeOK, RunPcs, CmdPcs, Actors, ExecInv,
           storeVars, hostVars, registryVars, boundVars, NoRun, NoCmd
  <2>4. CASE RunInferLock(d)
    BY <2>4, <1>0, RevisionAssumption, BoundsAssumption
       DEF RunInferLock, RunAt, RunTo, EndRun, Stopped, ExecTypeOK, RunPcs, CmdPcs,
           Actors, ExecInv, storeVars, hostVars, registryVars, boundVars, NoRun,
           NoCmd
  <2>5. CASE RunInferTx(d)
    BY <2>5, <1>0, RevisionAssumption, BoundsAssumption
       DEF RunInferTx, RunAt, RunTo, EndRun, StartInference, ExecTypeOK, RunPcs,
           CmdPcs, Actors, ExecInv, storeVars, hostVars, registryVars, boundVars,
           NoRun, NoCmd
  <2>6. CASE RunAnswer(d)
    BY <2>6, <1>0, RevisionAssumption, BoundsAssumption
       DEF RunAnswer, RunAt, RunTo, ExecTypeOK, RunPcs, CmdPcs, Actors, ExecInv,
           storeVars, hostVars, registryVars, boundVars, NoRun, NoCmd
  <2>7. CASE RunAbortWait(d)
    BY <2>7, <1>0, RevisionAssumption, BoundsAssumption
       DEF RunAbortWait, RunAt, EndRun, ExecTypeOK, RunPcs, CmdPcs, Actors, ExecInv,
           storeVars, hostVars, registryVars, boundVars, NoRun, NoCmd
  <2>8. CASE RunDecideAct(d)
    BY <2>8, <1>0, RevisionAssumption, BoundsAssumption
       DEF RunDecideAct, RunAt, RunTo, EndRun, ExecTypeOK, RunPcs, CmdPcs, Actors,
           ExecInv, storeVars, hostVars, registryVars, boundVars, NoRun, NoCmd
  <2>9. CASE RunDecideFinish(d)
    BY <2>9, <1>0, RevisionAssumption, BoundsAssumption
       DEF RunDecideFinish, RunAt, RunTo, ExecTypeOK, RunPcs, CmdPcs, Actors,
           ExecInv, storeVars, hostVars, registryVars, boundVars, NoRun, NoCmd
  <2>10. CASE RunActLock(d)
    BY <2>10, <1>0, RevisionAssumption, BoundsAssumption
       DEF RunActLock, RunAt, RunTo, EndRun, Stopped, ExecTypeOK, RunPcs, CmdPcs,
           Actors, ExecInv, storeVars, hostVars, registryVars, boundVars, NoRun,
           NoCmd
  <2>11. CASE RunActTx(d)
    BY <2>11, <1>0, RevisionAssumption, BoundsAssumption
       DEF RunActTx, RunAt, RunTo, EndRun, InsertAttempt, CanStart, PremiseCurrent,
           ExecTypeOK, RunPcs, CmdPcs, Actors, ExecInv, storeVars, hostVars,
           registryVars, boundVars, NoRun, NoCmd
  <2>12. CASE RunLaunch(d)
    BY <2>12, <1>0, RevisionAssumption, BoundsAssumption
       DEF RunLaunch, RunAt, RunTo, EndRun, ExecTypeOK, RunPcs, CmdPcs, Actors,
           ExecInv, storeVars, hostVars, registryVars, boundVars, NoRun, NoCmd,
           RunShape, InHand
  <2>13. CASE RunEffectDone(d)
    BY <2>13, <1>0, RevisionAssumption, BoundsAssumption
       DEF RunEffectDone, RunAt, RunTo, ExecTypeOK, RunPcs, CmdPcs, Actors, ExecInv,
           storeVars, hostVars, registryVars, boundVars, NoRun, NoCmd, RunShape,
           InHand
  <2>14. CASE RunEffectStop(d)
    BY <2>14, <1>0, RevisionAssumption, BoundsAssumption
       DEF RunEffectStop, RunAt, EndRun, ExecTypeOK, RunPcs, CmdPcs, Actors,
           ExecInv, storeVars, hostVars, registryVars, boundVars, NoRun, NoCmd
  <2>15. CASE RunSettle(d)
    <3>1. "turn" \in RunPcs /\ run[d].refs \cup {run[d].att} \in SUBSET Attempts
      BY <2>15, <1>t DEF RunSettle, RunAt, ExecInv, RunShape, InHand, RunRow, RunPcs
    <3>2. run' \in [Delegations -> RunRow]
      <4>1. CASE run' = [run EXCEPT ![d].pc = "turn", ![d].refs = @ \cup {run[d].att}]
        <5>1. run'[d] = [run[d] EXCEPT !.pc = "turn", !.refs = run[d].refs \cup {run[d].att}]
          BY <4>1, <1>t
        <5>3. run[d] \in RunRow
          BY <1>t
        <5>2. run'[d] \in RunRow
          BY Zenon, <5>1, <5>3, <3>1 DEF RunRow
        <5> QED
          BY <4>1, <5>2, <1>t
      <4> QED
        BY <2>15, <4>1
           DEF RunSettle, CmdTo
    <3> QED
      BY <2>15, <1>0, RevisionAssumption, BoundsAssumption, <3>2
         DEF RunSettle, RunAt, SetCertainty, RunRow, ExecTypeOK, ExecInv, storeVars,
             hostVars, registryVars, boundVars, NoRun, NoCmd
  <2>16. CASE RunUnresolved(d)
    BY <2>16, <1>0, RevisionAssumption, BoundsAssumption
       DEF RunUnresolved, RunAt, EndRun, ExecTypeOK, RunPcs, CmdPcs, Actors,
           ExecInv, storeVars, hostVars, registryVars, boundVars, NoRun, NoCmd
  <2>17. CASE RunRecord(d)
    BY <2>17, <1>0, RevisionAssumption, BoundsAssumption
       DEF RunRecord, RunAt, RunTo, RecordResult, ExecTypeOK, RunPcs, CmdPcs,
           Actors, ExecInv, storeVars, hostVars, registryVars, boundVars, NoRun,
           NoCmd
  <2>18. CASE RunAdopt(d)
    BY <2>18, <1>0, RevisionAssumption, BoundsAssumption
       DEF RunAdopt, RunAt, EndRun, AdoptDecides, AdoptFails, AdoptResult,
           AdoptAsCompletion, StampOnly, StampAttempts, ExecTypeOK, RunPcs, CmdPcs,
           Actors, ExecInv, storeVars, hostVars, registryVars, boundVars, NoRun,
           NoCmd
  <2>19. CASE RunQuit(d)
    BY <2>19, <1>0, RevisionAssumption, BoundsAssumption
       DEF RunQuit, EndRun, ExecTypeOK, RunPcs, CmdPcs, Actors, ExecInv, storeVars,
           hostVars, registryVars, boundVars, NoRun, NoCmd
  <2> QED
    BY <1>1, <2>1, <2>2, <2>3, <2>4, <2>5, <2>6, <2>7, <2>8, <2>9, <2>10, <2>11,
        <2>12, <2>13, <2>14, <2>15, <2>16, <2>17, <2>18, <2>19
       DEF RunStep, RunWork, RunLock, RunEffectKill
<1>2. ASSUME NEW c \in Actors, CmdWork(c) \/ CmdLock(c)
      PROVE  ExecTypeOK'
  <2>1. CASE CmdSteer(c)
    <3>1. {"delegate"} \subseteq CmdPcs
      BY DEF CmdPcs
    <3>2. ForwardSteering(cmd[c].task, cmd[c].rev) => cmd[c].rev + 1 \in 0..MaxRevision
      BY <2>1, RevisionAssumption
         DEF CmdSteer, CmdAt, ForwardSteering, ExpectedCurrent,
          ExecInv, CmdShape, ExecTypeOK, StoreTypeOK
    <3>3. cmd' \in [Actors -> CmdRow]
      <4>1. CASE /\ ForwardSteering(cmd[c].task, cmd[c].rev)
                  /\ cmd' = [cmd EXCEPT ![c].pc = "delegate", ![c].rev = @ + 1]
        <5>1. cmd'[c] = [cmd[c] EXCEPT !.pc = "delegate", !.rev = cmd[c].rev + 1]
          BY <4>1, <1>t
        <5>3. cmd[c] \in CmdRow
          BY <1>t
        <5>4. cmd[c].rev + 1 \in 0..MaxRevision
          BY <4>1, <3>2
        <5>2. cmd'[c] \in CmdRow
          BY Zenon, <5>1, <5>3, <5>4, <3>1 DEF CmdRow
        <5> QED
          BY <4>1, <5>2, <1>t
      <4>2. CASE CmdEnd(c)
        BY <4>2, <1>t DEF CmdEnd
      <4> QED
        BY <2>1, <4>1, <4>2
           DEF CmdSteer, CmdTo
    <3> QED
      BY <2>1, <1>0, RevisionAssumption, BoundsAssumption, <3>3
         DEF CmdSteer, CmdAt, CmdEnd, ForwardSteering, ExpectedCurrent, CmdRow,
             ExecTypeOK, ExecInv, storeVars, hostVars, registryVars, boundVars,
             NoRun, NoCmd
  <2>2. CASE CmdDelegate(c)
    <3>1. {"launch", "list"} \subseteq CmdPcs
      BY DEF CmdPcs
    <3>2. cmd' \in [Actors -> CmdRow]
      <4>1. ASSUME NEW d \in Delegations,
                   cmd' = [cmd EXCEPT ![c].pc = "launch", ![c].deleg = d]
            PROVE  cmd' \in [Actors -> CmdRow]
        <5>1. cmd'[c] = [cmd[c] EXCEPT !.pc = "launch", !.deleg = d]
          BY <4>1, <1>t
        <5>3. cmd[c] \in CmdRow
          BY <1>t
        <5>2. cmd'[c] \in CmdRow
          BY Zenon, <5>1, <5>3, <3>1 DEF CmdRow
        <5> QED
          BY <4>1, <5>2, <1>t
      <4>2. CASE CmdEnd(c)
        BY <4>2, <1>t DEF CmdEnd
      <4> QED
        BY <2>2, <4>1, <4>2 DEF CmdDelegate
    <3> QED
      BY <2>2, <1>0, <3>2
         DEF CmdDelegate, CmdAt, CmdEnd, CreateDelegation, ExpectedCurrent, CmdRow,
             ExecTypeOK, ExecInv, storeVars, hostVars, registryVars, boundVars,
             NoRun, NoCmd
  <2>3. CASE CmdLaunch(c)
    BY <2>3, <1>0, RevisionAssumption, BoundsAssumption
       DEF CmdLaunch, CmdAt, CmdEnd, Release, RunTo, ExecTypeOK, RunPcs, CmdPcs,
           Actors, ExecInv, storeVars, hostVars, registryVars, boundVars, NoRun,
           NoCmd
  <2>4. CASE CmdSignal(c)
    BY <2>4, <1>0, RevisionAssumption, BoundsAssumption
       DEF CmdSignal, CmdAt, CmdEnd, ExecTypeOK, RunPcs, CmdPcs, Actors, ExecInv,
           storeVars, hostVars, registryVars, boundVars, NoRun, NoCmd
  <2>5. CASE CmdResumeLock(c)
    BY <2>5, <1>0, RevisionAssumption, BoundsAssumption
       DEF CmdResumeLock, CmdAt, CmdTo, ExecTypeOK, RunPcs, CmdPcs, Actors, ExecInv,
           storeVars, hostVars, registryVars, boundVars, NoRun, NoCmd
  <2>6. CASE CmdReadRunning(c)
    BY <2>6, <1>0, RevisionAssumption, BoundsAssumption
       DEF CmdReadRunning, CmdAt, CmdTo, ExecTypeOK, RunPcs, CmdPcs, Actors,
           ExecInv, storeVars, hostVars, registryVars, boundVars, NoRun, NoCmd
  <2>7. CASE CmdReadReserved(c)
    BY <2>7, <1>0, RevisionAssumption, BoundsAssumption
       DEF CmdReadReserved, CmdAt, ExecTypeOK, RunPcs, CmdPcs, Actors, ExecInv,
           storeVars, hostVars, registryVars, boundVars, NoRun, NoCmd
  <2>8. CASE CmdResumeCommit(c)
    <3>1. {"launch", "list"} \subseteq CmdPcs
      BY DEF CmdPcs
    <3>2. cmd' \in [Actors -> CmdRow]
      <4>1. ASSUME NEW d \in Delegations,
                   cmd' = [cmd EXCEPT ![c].pc = "launch", ![c].deleg = d]
            PROVE  cmd' \in [Actors -> CmdRow]
        <5>1. cmd'[c] = [cmd[c] EXCEPT !.pc = "launch", !.deleg = d]
          BY <4>1, <1>t
        <5>3. cmd[c] \in CmdRow
          BY <1>t
        <5>2. cmd'[c] \in CmdRow
          BY Zenon, <5>1, <5>3, <3>1 DEF CmdRow
        <5> QED
          BY <4>1, <5>2, <1>t
      <4>2. CASE CmdEnd(c)
        BY <4>2, <1>t DEF CmdEnd
      <4>3. CASE CmdTo(c, "list")
        BY <4>3, <1>t, <3>1 DEF CmdTo, CmdRow
      <4> QED
        BY <2>8, <4>1, <4>2, <4>3 DEF CmdResumeCommit
    <3> QED
      BY <2>8, <1>0, <3>2
         DEF CmdResumeCommit, CmdAt, CmdTo, CmdEnd, Release, CommitResume,
             Resumable, ExpectedCurrent, CmdRow, ExecTypeOK, ExecInv, storeVars,
             hostVars, registryVars, boundVars, NoRun, NoCmd
  <2>9. CASE CmdList(c)
    BY <2>9, <1>0, RevisionAssumption, BoundsAssumption
       DEF CmdList, CmdAt, Unadopted, ExecTypeOK, RunPcs, CmdPcs, Actors, ExecInv,
           storeVars, hostVars, registryVars, boundVars, NoRun, NoCmd
  <2>10. CASE CmdLookup(c)
    BY <2>10, <1>0, RevisionAssumption, BoundsAssumption
       DEF CmdLookup, CmdAt, ExecTypeOK, RunPcs, CmdPcs, Actors, ExecInv, storeVars,
           hostVars, registryVars, boundVars, NoRun, NoCmd
  <2>11. CASE RouteLoad(c)
    BY <2>11, <1>0, RevisionAssumption, BoundsAssumption
       DEF RouteLoad, CmdAt, AttemptsOf, ExecTypeOK, RunPcs, CmdPcs, Actors,
           ExecInv, storeVars, hostVars, registryVars, boundVars, NoRun, NoCmd
  <2>12. CASE RouteAdopt(c)
    <3>1. cmd' \in [Actors -> CmdRow]
      BY <2>12, <1>t DEF RouteAdopt, CmdTo, CmdEnd, CmdRow, CmdPcs
    <3> QED
      BY <2>12, <1>0, <3>1
         DEF RouteAdopt, Release, CmdRow, ExecTypeOK, ExecInv, hostVars,
             registryVars, boundVars
  <2>13. CASE RouteEnd(c)
    BY <2>13, <1>0, RevisionAssumption, BoundsAssumption
       DEF RouteEnd, CmdAt, CmdEnd, Release, ExecTypeOK, RunPcs, CmdPcs, Actors,
           ExecInv, storeVars, hostVars, registryVars, boundVars, NoRun, NoCmd
  <2> QED
    BY <1>2, <2>1, <2>2, <2>3, <2>4, <2>5, <2>6, <2>7, <2>8, <2>9, <2>10, <2>11,
        <2>12, <2>13
       DEF CmdWork, CmdLock
<1>3. ASSUME NEW c \in Actors, CmdIssue(c)
      PROVE  ExecTypeOK'
  <2>1. ASSUME NEW t \in Tasks, CmdPropose(c, t)
        PROVE  ExecTypeOK'
    <3>1. {"delegate"} \subseteq CmdPcs
      BY DEF CmdPcs
    <3>2. 1 \in 0..MaxRevision
      BY RevisionAssumption
    <3>3. cmd' \in [Actors -> CmdRow]
      <4>1. CASE cmd' =
                   [cmd EXCEPT ![c] = [NoCmd EXCEPT !.pc = "delegate", !.task = t, !.rev = 1]]
        <5>1. cmd'[c] = [NoCmd EXCEPT !.pc = "delegate", !.task = t, !.rev = 1]
          BY <4>1, <1>t
        <5>3. NoCmd \in CmdRow
          BY <1>t
        <5>2. cmd'[c] \in CmdRow
          BY Zenon, <5>1, <5>3, <3>1, <3>2 DEF CmdRow
        <5> QED
          BY <4>1, <5>2, <1>t
      <4> QED
        BY <2>1, <4>1
           DEF CmdPropose, CmdTo
    <3> QED
      BY <2>1, <1>0, RevisionAssumption, BoundsAssumption, <3>3
         DEF CmdPropose, Issue, CreateTask, CmdRow, ExecTypeOK, ExecInv, storeVars,
             hostVars, registryVars, boundVars, NoRun, NoCmd
  <2>2. ASSUME NEW t \in Tasks, CmdRead(c, t)
        PROVE  ExecTypeOK'
    <3>1. {"steer", "lock"} \subseteq CmdPcs
      BY DEF CmdPcs
    <3>2. revision[t] \in 0..MaxRevision
      BY DEF ExecInv, ExecTypeOK, StoreTypeOK
    <3>3. cmd' \in [Actors -> CmdRow]
      <4>1. CASE cmd' =
                   [cmd EXCEPT ![c] = [NoCmd EXCEPT !.pc = "steer", !.task = t, !.rev = revision[t]]]
        <5>1. cmd'[c] = [NoCmd EXCEPT !.pc = "steer", !.task = t, !.rev = revision[t]]
          BY <4>1, <1>t
        <5>3. NoCmd \in CmdRow
          BY <1>t
        <5>2. cmd'[c] \in CmdRow
          BY Zenon, <5>1, <5>3, <3>1, <3>2 DEF CmdRow
        <5> QED
          BY <4>1, <5>2, <1>t
      <4>2. CASE cmd' =
                   [cmd EXCEPT ![c] = [NoCmd EXCEPT !.pc = "lock", !.task = t, !.rev = revision[t]]]
        <5>1. cmd'[c] = [NoCmd EXCEPT !.pc = "lock", !.task = t, !.rev = revision[t]]
          BY <4>2, <1>t
        <5>3. NoCmd \in CmdRow
          BY <1>t
        <5>2. cmd'[c] \in CmdRow
          BY Zenon, <5>1, <5>3, <3>1, <3>2 DEF CmdRow
        <5> QED
          BY <4>2, <5>2, <1>t
      <4> QED
        BY <2>2, <4>1, <4>2
           DEF CmdRead, CmdTo
    <3> QED
      BY <2>2, <1>0, RevisionAssumption, BoundsAssumption, <3>3
         DEF CmdRead, Issue, CmdRow, ExecTypeOK, ExecInv, storeVars, hostVars,
             registryVars, boundVars, NoRun, NoCmd
  <2>3. ASSUME NEW t \in Tasks, CmdCancel(c, t)
        PROVE  ExecTypeOK'
    <3>1. {"signal"} \subseteq CmdPcs
      BY DEF CmdPcs
    <3>2. cmd' \in [Actors -> CmdRow]
      <4>1. CASE cmd' =
                   [cmd EXCEPT ![c] = [NoCmd EXCEPT !.pc = "signal", !.task = t]]
        <5>1. cmd'[c] = [NoCmd EXCEPT !.pc = "signal", !.task = t]
          BY <4>1, <1>t
        <5>3. NoCmd \in CmdRow
          BY <1>t
        <5>2. cmd'[c] \in CmdRow
          BY Zenon, <5>1, <5>3, <3>1 DEF CmdRow
        <5> QED
          BY <4>1, <5>2, <1>t
      <4> QED
        BY <2>3, <4>1
           DEF CmdCancel, CmdTo
    <3> QED
      BY <2>3, <1>0, RevisionAssumption, BoundsAssumption, <3>2
         DEF CmdCancel, Issue, CancelTask, CmdRow, ExecTypeOK, ExecInv, storeVars,
             hostVars, registryVars, boundVars, NoRun, NoCmd
  <2>4. ASSUME NEW a \in Attempts, CmdSettle(c, a)
        PROVE  ExecTypeOK'
    <3>1. {"lookup"} \subseteq CmdPcs
      BY DEF CmdPcs
    <3>2. attemptOf[a] \in Delegations \cup {None}
      BY DEF ExecInv, ExecTypeOK, StoreTypeOK
    <3>3. cmd' \in [Actors -> CmdRow]
      <4>1. CASE cmd' =
                   [cmd EXCEPT ![c] = [NoCmd EXCEPT !.pc = "lookup", !.deleg = attemptOf[a]]]
        <5>1. cmd'[c] = [NoCmd EXCEPT !.pc = "lookup", !.deleg = attemptOf[a]]
          BY <4>1, <1>t
        <5>3. NoCmd \in CmdRow
          BY <1>t
        <5>2. cmd'[c] \in CmdRow
          BY Zenon, <5>1, <5>3, <3>1, <3>2 DEF CmdRow
        <5> QED
          BY <4>1, <5>2, <1>t
      <4> QED
        BY <2>4, <4>1
           DEF CmdSettle, CmdTo
    <3> QED
      BY <2>4, <1>0, RevisionAssumption, BoundsAssumption, <3>3
         DEF CmdSettle, Issue, SetCertainty, CmdRow, ExecTypeOK, ExecInv, storeVars,
             hostVars, registryVars, boundVars, NoRun, NoCmd
  <2> QED
    BY <1>3, <2>1, <2>2, <2>3, <2>4
       DEF CmdIssue
<1>4. ASSUME HostStep
      PROVE  ExecTypeOK'
  <2>1. CASE Start
    <3>1. PICK s \in SUBSET Delegations :
            cmd' = [cmd EXCEPT ![Host].pc = "route", ![Host].todo = s]
      BY <2>1 DEF Start, Unadopted, DelegsOf
    <3>2. "route" \in CmdPcs /\ Host \in Actors
      BY DEF CmdPcs, Actors
    <3>3. cmd'[Host] = [cmd[Host] EXCEPT !.pc = "route", !.todo = s]
      BY <3>1, <3>2, <1>t
    <3>6. cmd[Host] \in CmdRow
      BY <3>2, <1>t
    <3>4. cmd'[Host] \in CmdRow
      BY Zenon, <3>2, <3>3, <3>6 DEF CmdRow
    <3>5. cmd' \in [Actors -> CmdRow]
      BY <3>1, <3>2, <3>4, <1>t
    <3> QED
      BY <2>1, <1>0, <3>5
         DEF Start, CmdRow, ExecTypeOK, ExecInv, registryVars, boundVars
  <2>2. CASE ShutdownBegin
    BY <2>2, <1>0, RevisionAssumption, BoundsAssumption
       DEF ShutdownBegin, ExecTypeOK, RunPcs, CmdPcs, Actors, ExecInv, storeVars,
           hostVars, registryVars, boundVars, NoRun, NoCmd
  <2>3. CASE ShutdownAbort
    BY <2>3, <1>0, RevisionAssumption, BoundsAssumption
       DEF ShutdownAbort, ExecTypeOK, RunPcs, CmdPcs, Actors, ExecInv, storeVars,
           hostVars, registryVars, boundVars, NoRun, NoCmd
  <2>4. CASE ShutdownKill
    BY <2>4, <1>0, RevisionAssumption, BoundsAssumption
       DEF ShutdownKill, InEffect, ExecTypeOK, RunPcs, CmdPcs, Actors, ExecInv,
           storeVars, hostVars, registryVars, boundVars, NoRun, NoCmd
  <2>5. CASE ShutdownExit
    <3>1. /\ cmd' \in [Actors -> CmdRow]
          /\ run' \in [Delegations -> RunRow]
      BY <2>5, <1>t, BoundsAssumption
         DEF ShutdownExit, LoseMemory, RunRow, RunPcs, NoRun
    <3>2. restarts < MaxRestarts
      BY <2>5 DEF ShutdownExit, Begun, ExecInv
    <3>3. /\ host' \in {"down", "starting", "serving", "closing"}
          /\ aborted' \in BOOLEAN
          /\ scope' \in {None} \cup Actors \cup Delegations
          /\ reserved' \in SUBSET Delegations
          /\ running' \in SUBSET Delegations
          /\ cancelled' \in SUBSET Delegations
          /\ live' \in SUBSET Attempts
          /\ declared' \in SUBSET Attempts
          /\ issued' \in 0..MaxCommands
      BY <2>5 DEF ShutdownExit, LoseMemory, ExecTypeOK, ExecInv
    <3>4. restarts' \in 0..MaxRestarts
      BY <2>5, <3>2, BoundsAssumption
         DEF ShutdownExit, LoseMemory, ExecTypeOK, ExecInv
    <3> QED
      BY <1>0, <3>1, <3>3, <3>4 DEF CmdRow, RunRow, ExecTypeOK
  <2>6. CASE Crash
    <3>1. /\ cmd' \in [Actors -> CmdRow]
          /\ run' \in [Delegations -> RunRow]
      BY <2>6, <1>t, BoundsAssumption DEF Crash, LoseMemory, RunRow, RunPcs, NoRun
    <3>2. restarts < MaxRestarts
      BY <2>6 DEF Crash, Begun, ExecInv
    <3>3. /\ host' \in {"down", "starting", "serving", "closing"}
          /\ aborted' \in BOOLEAN
          /\ scope' \in {None} \cup Actors \cup Delegations
          /\ reserved' \in SUBSET Delegations
          /\ running' \in SUBSET Delegations
          /\ cancelled' \in SUBSET Delegations
          /\ live' \in SUBSET Attempts
          /\ declared' \in SUBSET Attempts
          /\ issued' \in 0..MaxCommands
      BY <2>6 DEF Crash, LoseMemory, ExecTypeOK, ExecInv
    <3>4. restarts' \in 0..MaxRestarts
      BY <2>6, <3>2, BoundsAssumption DEF Crash, LoseMemory, ExecTypeOK, ExecInv
    <3> QED
      BY <1>0, <3>1, <3>3, <3>4 DEF CmdRow, RunRow, ExecTypeOK
  <2>7. CASE OrphanEnds
    BY <2>7, <1>0, RevisionAssumption, BoundsAssumption
       DEF OrphanEnds, InEffect, ExecTypeOK, RunPcs, CmdPcs, Actors, ExecInv,
           storeVars, hostVars, registryVars, boundVars, NoRun, NoCmd
  <2> QED
    BY <1>4, <2>1, <2>2, <2>3, <2>4, <2>5, <2>6, <2>7
       DEF HostStep
<1>5. CASE UNCHANGED vars
  BY <1>5, <1>0, RevisionAssumption, BoundsAssumption
     DEF vars, storeVars, execVars, hostVars, registryVars, boundVars, ExecTypeOK,
         RunPcs, CmdPcs, Actors, ExecInv, NoRun, NoCmd
<1> QED
  BY <1>1, <1>2, <1>3, <1>4, <1>5
     DEF ExecNext

-----------------------------------------------------------------------------
(* What a step of the run of d leaves alone.                                *)
OthersAlone(d) ==
    /\ run[d].pc \notin {"none", "done"} /\ run'[d].pc # "none"
    /\ \A e \in Delegations : e # d => run'[e] = run[e]
    /\ UNCHANGED <<cmd, host, aborted, declared, issued, restarts>>
    /\ UNCHANGED <<delegTask, delegRev, revision>>
    /\ \A a \in Attempts : attemptOf'[a] # attemptOf[a] =>
         attemptOf[a] = None /\ attemptOf'[a] = d /\ d \notin sealed
    /\ sealed \subseteq sealed'

(* A step of a run disturbs nothing of the commands or of the other runs.   *)
LEMMA RunFrame ==
    ASSUME ExecInv, NEW d \in Delegations, RunStep(d) PROVE OthersAlone(d)
<1>1. CASE RunTake(d)
  BY <1>1
     DEF RunTake, RunAt, RunTo, EndRun, OthersAlone, ExecTypeOK, StoreTypeOK,
         ExecInv, storeVars, hostVars, registryVars, boundVars, NoRun, NoCmd
<1>2. CASE RunBegin(d)
  BY <1>2
     DEF RunBegin, RunAt, RunTo, EndRun, OthersAlone, ExecTypeOK, StoreTypeOK,
         ExecInv, storeVars, hostVars, registryVars, boundVars, NoRun, NoCmd
<1>3. CASE RunTurn(d)
  BY <1>3
     DEF RunTurn, RunAt, EndRun, OthersAlone, ExecTypeOK, StoreTypeOK, ExecInv,
         storeVars, hostVars, registryVars, boundVars, NoRun, NoCmd
<1>4. CASE RunInferLock(d)
  BY <1>4
     DEF RunInferLock, RunAt, RunTo, EndRun, Stopped, OthersAlone, ExecTypeOK,
         StoreTypeOK, ExecInv, storeVars, hostVars, registryVars, boundVars, NoRun,
         NoCmd
<1>5. CASE RunInferTx(d)
  BY <1>5
     DEF RunInferTx, RunAt, RunTo, EndRun, StartInference, OthersAlone, ExecTypeOK,
         StoreTypeOK, ExecInv, storeVars, hostVars, registryVars, boundVars, NoRun,
         NoCmd
<1>6. CASE RunAnswer(d)
  BY <1>6
     DEF RunAnswer, RunAt, RunTo, OthersAlone, ExecTypeOK, StoreTypeOK, ExecInv,
         storeVars, hostVars, registryVars, boundVars, NoRun, NoCmd
<1>7. CASE RunAbortWait(d)
  BY <1>7
     DEF RunAbortWait, RunAt, EndRun, OthersAlone, ExecTypeOK, StoreTypeOK, ExecInv,
         storeVars, hostVars, registryVars, boundVars, NoRun, NoCmd
<1>8. CASE RunDecideAct(d)
  BY <1>8
     DEF RunDecideAct, RunAt, RunTo, EndRun, OthersAlone, ExecTypeOK, StoreTypeOK,
         ExecInv, storeVars, hostVars, registryVars, boundVars, NoRun, NoCmd
<1>9. CASE RunDecideFinish(d)
  BY <1>9
     DEF RunDecideFinish, RunAt, RunTo, OthersAlone, ExecTypeOK, StoreTypeOK,
         ExecInv, storeVars, hostVars, registryVars, boundVars, NoRun, NoCmd
<1>10. CASE RunActLock(d)
  BY <1>10
     DEF RunActLock, RunAt, RunTo, EndRun, Stopped, OthersAlone, ExecTypeOK,
         StoreTypeOK, ExecInv, storeVars, hostVars, registryVars, boundVars, NoRun,
         NoCmd
<1>11. CASE RunActTx(d)
  BY <1>11
     DEF RunActTx, RunAt, RunTo, EndRun, InsertAttempt, CanStart, PremiseCurrent,
         OthersAlone, ExecTypeOK, StoreTypeOK, ExecInv, storeVars, hostVars,
         registryVars, boundVars, NoRun, NoCmd
<1>12. CASE RunLaunch(d)
  BY <1>12
     DEF RunLaunch, RunAt, RunTo, EndRun, OthersAlone, ExecTypeOK, StoreTypeOK,
         ExecInv, storeVars, hostVars, registryVars, boundVars, NoRun, NoCmd
<1>13. CASE RunEffectDone(d)
  BY <1>13
     DEF RunEffectDone, RunAt, RunTo, OthersAlone, ExecTypeOK, StoreTypeOK, ExecInv,
         storeVars, hostVars, registryVars, boundVars, NoRun, NoCmd
<1>14. CASE RunEffectStop(d)
  BY <1>14
     DEF RunEffectStop, RunAt, EndRun, OthersAlone, ExecTypeOK, StoreTypeOK,
         ExecInv, storeVars, hostVars, registryVars, boundVars, NoRun, NoCmd
<1>15. CASE RunSettle(d)
  BY <1>15
     DEF RunSettle, RunAt, SetCertainty, OthersAlone, ExecTypeOK, StoreTypeOK,
         ExecInv, storeVars, hostVars, registryVars, boundVars, NoRun, NoCmd
<1>16. CASE RunUnresolved(d)
  BY <1>16
     DEF RunUnresolved, RunAt, EndRun, OthersAlone, ExecTypeOK, StoreTypeOK,
         ExecInv, storeVars, hostVars, registryVars, boundVars, NoRun, NoCmd
<1>17. CASE RunRecord(d)
  BY <1>17
     DEF RunRecord, RunAt, RunTo, RecordResult, OthersAlone, ExecTypeOK,
         StoreTypeOK, ExecInv, storeVars, hostVars, registryVars, boundVars, NoRun,
         NoCmd
<1>18. CASE RunAdopt(d)
  BY <1>18
     DEF RunAdopt, RunAt, EndRun, AdoptDecides, AdoptFails, AdoptResult,
         AdoptAsCompletion, StampOnly, StampAttempts, OthersAlone, ExecTypeOK,
         StoreTypeOK, ExecInv, storeVars, hostVars, registryVars, boundVars, NoRun,
         NoCmd
<1>19. CASE RunQuit(d)
  BY <1>19
     DEF RunQuit, EndRun, OthersAlone, ExecTypeOK, StoreTypeOK, ExecInv, storeVars,
         hostVars, registryVars, boundVars, NoRun, NoCmd
<1> QED
  BY <1>1, <1>2, <1>3, <1>4, <1>5, <1>6, <1>7, <1>8, <1>9, <1>10, <1>11, <1>12, <1>13,
      <1>14, <1>15, <1>16, <1>17, <1>18, <1>19
     DEF RunStep, RunWork, RunLock, RunEffectKill

(* What a step of the command c leaves alone.                               *)
WorkAlone(c) ==
    /\ \A e \in Actors : e # c => cmd'[e] = cmd[e]
    /\ UNCHANGED <<running, aborted, live, inferred, attemptOf, sealed, restarts>>
    /\ \A t \in Tasks : revision[t] <= revision'[t]
    /\ \A d \in Delegations : delegTask[d] # None =>
         delegTask'[d] = delegTask[d] /\ delegRev'[d] = delegRev[d]
    /\ declared \subseteq declared'
    /\ \A a \in Attempts : certainty'[a] = certainty[a] \/ a \in declared'
    /\ \A d \in Delegations : run'[d] # run[d] =>
         /\ cmd[c].pc = "launch" /\ cmd[c].deleg = d /\ cmd'[c].pc = "idle"
         /\ run'[d].pc = "spawned" /\ run'[d].refs = run[d].refs

(* A step of a command disturbs at most the one run it launches.            *)
LEMMA CmdFrame ==
    ASSUME ExecInv, NEW c \in Actors, CmdWork(c) \/ CmdLock(c) \/ CmdIssue(c)
    PROVE  WorkAlone(c)
<1>1. CASE CmdSteer(c)
  BY <1>1, RevisionAssumption
     DEF CmdSteer, CmdAt, CmdEnd, ForwardSteering, ExpectedCurrent, WorkAlone,
         ExecTypeOK, StoreTypeOK, ExecInv, storeVars, hostVars, registryVars,
         boundVars, NoRun, NoCmd
<1>2. CASE CmdDelegate(c)
  BY <1>2, RevisionAssumption
     DEF CmdDelegate, CmdAt, CmdEnd, CreateDelegation, ExpectedCurrent, WorkAlone,
         ExecTypeOK, StoreTypeOK, ExecInv, storeVars, hostVars, registryVars,
         boundVars, NoRun, NoCmd
<1>3. CASE CmdLaunch(c)
  BY <1>3, RevisionAssumption, NoneAssumption
     DEF CmdLaunch, CmdAt, CmdEnd, Release, RunTo, WorkAlone, ExecTypeOK,
         StoreTypeOK, ExecInv, storeVars, hostVars, registryVars, boundVars, NoRun,
         NoCmd, CmdShape
<1>4. CASE CmdSignal(c)
  BY <1>4, RevisionAssumption
     DEF CmdSignal, CmdAt, CmdEnd, WorkAlone, ExecTypeOK, StoreTypeOK, ExecInv,
         storeVars, hostVars, registryVars, boundVars, NoRun, NoCmd
<1>5. CASE CmdResumeLock(c)
  BY <1>5, RevisionAssumption
     DEF CmdResumeLock, CmdAt, CmdTo, WorkAlone, ExecTypeOK, StoreTypeOK, ExecInv,
         storeVars, hostVars, registryVars, boundVars, NoRun, NoCmd
<1>6. CASE CmdReadRunning(c)
  BY <1>6, RevisionAssumption
     DEF CmdReadRunning, CmdAt, CmdTo, WorkAlone, ExecTypeOK, StoreTypeOK, ExecInv,
         storeVars, hostVars, registryVars, boundVars, NoRun, NoCmd
<1>7. CASE CmdReadReserved(c)
  BY <1>7, RevisionAssumption
     DEF CmdReadReserved, CmdAt, WorkAlone, ExecTypeOK, StoreTypeOK, ExecInv,
         storeVars, hostVars, registryVars, boundVars, NoRun, NoCmd
<1>8. CASE CmdResumeCommit(c)
  <2>1. /\ UNCHANGED <<hostVars, running, cancelled, run, live, declared, boundVars>>
        /\ UNCHANGED <<inferred, attemptOf, certainty, sealed>>
    BY <1>8 DEF CmdResumeCommit, CommitResume, storeVars
  <2>2. \A e \in Actors : e # c => cmd'[e] = cmd[e]
    BY <1>8 DEF CmdResumeCommit, CmdTo, CmdEnd, ExecInv, ExecTypeOK
  <2>3. /\ \A t \in Tasks : revision[t] <= revision'[t]
        /\ \A d \in Delegations : delegTask[d] # None =>
             delegTask'[d] = delegTask[d] /\ delegRev'[d] = delegRev[d]
    <3>1. ASSUME NEW d \in Delegations,
                 CommitResume(cmd[c].task, cmd[c].rev, d, cmd[c].free)
          PROVE  /\ \A t \in Tasks : revision[t] <= revision'[t]
                 /\ \A e \in Delegations : delegTask[e] # None =>
                      delegTask'[e] = delegTask[e] /\ delegRev'[e] = delegRev[e]
      BY <3>1, RevisionAssumption DEF CommitResume, ExecInv, ExecTypeOK, StoreTypeOK
    <3>2. ASSUME UNCHANGED storeVars
          PROVE  /\ \A t \in Tasks : revision[t] <= revision'[t]
                 /\ \A e \in Delegations : delegTask[e] # None =>
                      delegTask'[e] = delegTask[e] /\ delegRev'[e] = delegRev[e]
      BY <3>2, RevisionAssumption DEF storeVars, ExecInv, ExecTypeOK, StoreTypeOK
    <3> QED
      BY <1>8, <3>1, <3>2 DEF CmdResumeCommit
  <2> QED
    BY <2>1, <2>2, <2>3 DEF WorkAlone, hostVars, boundVars
<1>9. CASE CmdList(c)
  BY <1>9, RevisionAssumption
     DEF CmdList, CmdAt, Unadopted, WorkAlone, ExecTypeOK, StoreTypeOK, ExecInv,
         storeVars, hostVars, registryVars, boundVars, NoRun, NoCmd
<1>10. CASE CmdLookup(c)
  BY <1>10, RevisionAssumption
     DEF CmdLookup, CmdAt, WorkAlone, ExecTypeOK, StoreTypeOK, ExecInv, storeVars,
         hostVars, registryVars, boundVars, NoRun, NoCmd
<1>11. CASE RouteLoad(c)
  BY <1>11, RevisionAssumption
     DEF RouteLoad, CmdAt, AttemptsOf, WorkAlone, ExecTypeOK, StoreTypeOK, ExecInv,
         storeVars, hostVars, registryVars, boundVars, NoRun, NoCmd
<1>12. CASE RouteAdopt(c)
  BY <1>12, RevisionAssumption
     DEF RouteAdopt, CmdAt, CmdTo, CmdEnd, Release, AdoptDecides, AdoptFails,
         AdoptResult, AdoptAsCompletion, StampOnly, StampAttempts, WorkAlone,
         ExecTypeOK, StoreTypeOK, ExecInv, storeVars, hostVars, registryVars,
         boundVars, NoRun, NoCmd
<1>13. CASE RouteEnd(c)
  BY <1>13, RevisionAssumption
     DEF RouteEnd, CmdAt, CmdEnd, Release, WorkAlone, ExecTypeOK, StoreTypeOK,
         ExecInv, storeVars, hostVars, registryVars, boundVars, NoRun, NoCmd
<1>14. ASSUME NEW t \in Tasks, CmdPropose(c, t)
      PROVE  WorkAlone(c)
  BY <1>14, RevisionAssumption
     DEF CmdPropose, Issue, CreateTask, WorkAlone, ExecTypeOK, StoreTypeOK, ExecInv,
         storeVars, hostVars, registryVars, boundVars, NoRun, NoCmd, Begun
<1>15. ASSUME NEW t \in Tasks, CmdRead(c, t)
      PROVE  WorkAlone(c)
  BY <1>15, RevisionAssumption
     DEF CmdRead, Issue, WorkAlone, ExecTypeOK, StoreTypeOK, ExecInv, storeVars,
         hostVars, registryVars, boundVars, NoRun, NoCmd
<1>16. ASSUME NEW t \in Tasks, CmdCancel(c, t)
      PROVE  WorkAlone(c)
  BY <1>16, RevisionAssumption
     DEF CmdCancel, Issue, CancelTask, WorkAlone, ExecTypeOK, StoreTypeOK, ExecInv,
         storeVars, hostVars, registryVars, boundVars, NoRun, NoCmd
<1>17. ASSUME NEW a \in Attempts, CmdSettle(c, a)
      PROVE  WorkAlone(c)
  BY <1>17, RevisionAssumption
     DEF CmdSettle, Issue, SetCertainty, WorkAlone, ExecTypeOK, StoreTypeOK,
         ExecInv, storeVars, hostVars, registryVars, boundVars, NoRun, NoCmd
<1> QED
  BY <1>1, <1>2, <1>3, <1>4, <1>5, <1>6, <1>7, <1>8, <1>9, <1>10, <1>11, <1>12, <1>13,
      <1>14, <1>15, <1>16, <1>17
     DEF CmdWork, CmdLock, CmdIssue

-----------------------------------------------------------------------------
(* Only a creation gives a task row its revision, and only a restart counts *)
(* one.                                                                     *)
LEMMA BegunKept ==
    ASSUME ExecInv, [ExecNext]_vars PROVE Begun'
<1>1. ASSUME NEW d \in Delegations, RunStep(d)
      PROVE  Begun'
  <2>1. CASE RunTake(d)
    BY <2>1
       DEF RunTake, RunAt, RunTo, EndRun, Begun, ExecInv, ExecTypeOK, StoreTypeOK,
           storeVars, hostVars, boundVars, ExpectedCurrent, Open, Up
  <2>2. CASE RunBegin(d)
    BY <2>2
       DEF RunBegin, RunAt, RunTo, EndRun, Begun, ExecInv, ExecTypeOK, StoreTypeOK,
           storeVars, hostVars, boundVars, ExpectedCurrent, Open, Up
  <2>3. CASE RunTurn(d)
    BY <2>3
       DEF RunTurn, RunAt, EndRun, Begun, ExecInv, ExecTypeOK, StoreTypeOK,
           storeVars, hostVars, boundVars, ExpectedCurrent, Open, Up
  <2>4. CASE RunInferLock(d)
    BY <2>4
       DEF RunInferLock, RunAt, RunTo, EndRun, Stopped, Begun, ExecInv, ExecTypeOK,
           StoreTypeOK, storeVars, hostVars, boundVars, ExpectedCurrent, Open, Up
  <2>5. CASE RunInferTx(d)
    BY <2>5
       DEF RunInferTx, RunAt, RunTo, EndRun, StartInference, Begun, ExecInv,
           ExecTypeOK, StoreTypeOK, storeVars, hostVars, boundVars, ExpectedCurrent,
           Open, Up
  <2>6. CASE RunAnswer(d)
    BY <2>6
       DEF RunAnswer, RunAt, RunTo, Begun, ExecInv, ExecTypeOK, StoreTypeOK,
           storeVars, hostVars, boundVars, ExpectedCurrent, Open, Up
  <2>7. CASE RunAbortWait(d)
    BY <2>7
       DEF RunAbortWait, RunAt, EndRun, Begun, ExecInv, ExecTypeOK, StoreTypeOK,
           storeVars, hostVars, boundVars, ExpectedCurrent, Open, Up
  <2>8. CASE RunDecideAct(d)
    BY <2>8
       DEF RunDecideAct, RunAt, RunTo, EndRun, Begun, ExecInv, ExecTypeOK,
           StoreTypeOK, storeVars, hostVars, boundVars, ExpectedCurrent, Open, Up
  <2>9. CASE RunDecideFinish(d)
    BY <2>9
       DEF RunDecideFinish, RunAt, RunTo, Begun, ExecInv, ExecTypeOK, StoreTypeOK,
           storeVars, hostVars, boundVars, ExpectedCurrent, Open, Up
  <2>10. CASE RunActLock(d)
    BY <2>10
       DEF RunActLock, RunAt, RunTo, EndRun, Stopped, Begun, ExecInv, ExecTypeOK,
           StoreTypeOK, storeVars, hostVars, boundVars, ExpectedCurrent, Open, Up
  <2>11. CASE RunActTx(d)
    BY <2>11
       DEF RunActTx, RunAt, RunTo, EndRun, InsertAttempt, CanStart, PremiseCurrent,
           Begun, ExecInv, ExecTypeOK, StoreTypeOK, storeVars, hostVars, boundVars,
           ExpectedCurrent, Open, Up
  <2>12. CASE RunLaunch(d)
    BY <2>12
       DEF RunLaunch, RunAt, RunTo, EndRun, Begun, ExecInv, ExecTypeOK, StoreTypeOK,
           storeVars, hostVars, boundVars, ExpectedCurrent, Open, Up
  <2>13. CASE RunEffectDone(d)
    BY <2>13
       DEF RunEffectDone, RunAt, RunTo, Begun, ExecInv, ExecTypeOK, StoreTypeOK,
           storeVars, hostVars, boundVars, ExpectedCurrent, Open, Up
  <2>14. CASE RunEffectStop(d)
    BY <2>14
       DEF RunEffectStop, RunAt, EndRun, Begun, ExecInv, ExecTypeOK, StoreTypeOK,
           storeVars, hostVars, boundVars, ExpectedCurrent, Open, Up
  <2>15. CASE RunSettle(d)
    BY <2>15
       DEF RunSettle, RunAt, SetCertainty, Begun, ExecInv, ExecTypeOK, StoreTypeOK,
           storeVars, hostVars, boundVars, ExpectedCurrent, Open, Up
  <2>16. CASE RunUnresolved(d)
    BY <2>16
       DEF RunUnresolved, RunAt, EndRun, Begun, ExecInv, ExecTypeOK, StoreTypeOK,
           storeVars, hostVars, boundVars, ExpectedCurrent, Open, Up
  <2>17. CASE RunRecord(d)
    BY <2>17
       DEF RunRecord, RunAt, RunTo, RecordResult, Begun, ExecInv, ExecTypeOK,
           StoreTypeOK, storeVars, hostVars, boundVars, ExpectedCurrent, Open, Up
  <2>18. CASE RunAdopt(d)
    BY <2>18
       DEF RunAdopt, RunAt, EndRun, AdoptDecides, AdoptFails, AdoptResult,
           AdoptAsCompletion, StampOnly, StampAttempts, Begun, ExecInv, ExecTypeOK,
           StoreTypeOK, storeVars, hostVars, boundVars, ExpectedCurrent, Open, Up,
           Adoptable, PremiseCurrent
  <2>19. CASE RunQuit(d)
    BY <2>19
       DEF RunQuit, EndRun, Begun, ExecInv, ExecTypeOK, StoreTypeOK, storeVars,
           hostVars, boundVars, ExpectedCurrent, Open, Up
  <2> QED
    BY <1>1, <2>1, <2>2, <2>3, <2>4, <2>5, <2>6, <2>7, <2>8, <2>9, <2>10, <2>11,
        <2>12, <2>13, <2>14, <2>15, <2>16, <2>17, <2>18, <2>19
       DEF RunStep, RunWork, RunLock, RunEffectKill
<1>2. ASSUME NEW c \in Actors, CmdWork(c) \/ CmdLock(c)
      PROVE  Begun'
  <2>1. CASE CmdSteer(c)
    BY <2>1
       DEF CmdSteer, CmdAt, CmdEnd, ForwardSteering, ExpectedCurrent, Begun,
           ExecInv, ExecTypeOK, StoreTypeOK, storeVars, hostVars, boundVars, Open,
           Up
  <2>2. CASE CmdDelegate(c)
    BY <2>2
       DEF CmdDelegate, CmdAt, CmdEnd, CreateDelegation, ExpectedCurrent, Begun,
           ExecInv, ExecTypeOK, StoreTypeOK, storeVars, hostVars, boundVars, Open,
           Up
  <2>3. CASE CmdLaunch(c)
    BY <2>3
       DEF CmdLaunch, CmdAt, CmdEnd, Release, RunTo, Begun, ExecInv, ExecTypeOK,
           StoreTypeOK, storeVars, hostVars, boundVars, ExpectedCurrent, Open, Up
  <2>4. CASE CmdSignal(c)
    BY <2>4
       DEF CmdSignal, CmdAt, CmdEnd, Begun, ExecInv, ExecTypeOK, StoreTypeOK,
           storeVars, hostVars, boundVars, ExpectedCurrent, Open, Up
  <2>5. CASE CmdResumeLock(c)
    BY <2>5
       DEF CmdResumeLock, CmdAt, CmdTo, Begun, ExecInv, ExecTypeOK, StoreTypeOK,
           storeVars, hostVars, boundVars, ExpectedCurrent, Open, Up
  <2>6. CASE CmdReadRunning(c)
    BY <2>6
       DEF CmdReadRunning, CmdAt, CmdTo, Begun, ExecInv, ExecTypeOK, StoreTypeOK,
           storeVars, hostVars, boundVars, ExpectedCurrent, Open, Up
  <2>7. CASE CmdReadReserved(c)
    BY <2>7
       DEF CmdReadReserved, CmdAt, Begun, ExecInv, ExecTypeOK, StoreTypeOK,
           storeVars, hostVars, boundVars, ExpectedCurrent, Open, Up
  <2>8. CASE CmdResumeCommit(c)
    BY <2>8
       DEF CmdResumeCommit, CmdAt, CmdTo, CmdEnd, Release, CommitResume, Resumable,
           ExpectedCurrent, Begun, ExecInv, ExecTypeOK, StoreTypeOK, storeVars,
           hostVars, boundVars, Open, Up
  <2>9. CASE CmdList(c)
    BY <2>9
       DEF CmdList, CmdAt, Unadopted, Begun, ExecInv, ExecTypeOK, StoreTypeOK,
           storeVars, hostVars, boundVars, ExpectedCurrent, Open, Up
  <2>10. CASE CmdLookup(c)
    BY <2>10
       DEF CmdLookup, CmdAt, Begun, ExecInv, ExecTypeOK, StoreTypeOK, storeVars,
           hostVars, boundVars, ExpectedCurrent, Open, Up
  <2>11. CASE RouteLoad(c)
    BY <2>11
       DEF RouteLoad, CmdAt, AttemptsOf, Begun, ExecInv, ExecTypeOK, StoreTypeOK,
           storeVars, hostVars, boundVars, ExpectedCurrent, Open, Up
  <2>12. CASE RouteAdopt(c)
    BY <2>12
       DEF RouteAdopt, CmdAt, CmdTo, CmdEnd, Release, AdoptDecides, AdoptFails,
           AdoptResult, AdoptAsCompletion, StampOnly, StampAttempts, Begun, ExecInv,
           ExecTypeOK, StoreTypeOK, storeVars, hostVars, boundVars, ExpectedCurrent,
           Open, Up, Adoptable, PremiseCurrent
  <2>13. CASE RouteEnd(c)
    BY <2>13
       DEF RouteEnd, CmdAt, CmdEnd, Release, Begun, ExecInv, ExecTypeOK,
           StoreTypeOK, storeVars, hostVars, boundVars, ExpectedCurrent, Open, Up
  <2> QED
    BY <1>2, <2>1, <2>2, <2>3, <2>4, <2>5, <2>6, <2>7, <2>8, <2>9, <2>10, <2>11,
        <2>12, <2>13
       DEF CmdWork, CmdLock
<1>3. ASSUME NEW c \in Actors, CmdIssue(c)
      PROVE  Begun'
  <2>1. ASSUME NEW t \in Tasks, CmdPropose(c, t)
        PROVE  Begun'
    BY <2>1
       DEF CmdPropose, Issue, CreateTask, Begun, ExecInv, ExecTypeOK, StoreTypeOK,
           storeVars, hostVars, boundVars, ExpectedCurrent, Open, Up
  <2>2. ASSUME NEW t \in Tasks, CmdRead(c, t)
        PROVE  Begun'
    BY <2>2
       DEF CmdRead, Issue, Begun, ExecInv, ExecTypeOK, StoreTypeOK, storeVars,
           hostVars, boundVars, ExpectedCurrent, Open, Up
  <2>3. ASSUME NEW t \in Tasks, CmdCancel(c, t)
        PROVE  Begun'
    BY <2>3
       DEF CmdCancel, Issue, CancelTask, Begun, ExecInv, ExecTypeOK, StoreTypeOK,
           storeVars, hostVars, boundVars, ExpectedCurrent, Open, Up
  <2>4. ASSUME NEW a \in Attempts, CmdSettle(c, a)
        PROVE  Begun'
    BY <2>4
       DEF CmdSettle, Issue, SetCertainty, Begun, ExecInv, ExecTypeOK, StoreTypeOK,
           storeVars, hostVars, boundVars, ExpectedCurrent, Open, Up
  <2> QED
    BY <1>3, <2>1, <2>2, <2>3, <2>4
       DEF CmdIssue
<1>4. ASSUME HostStep
      PROVE  Begun'
  <2>1. CASE Start
    BY <2>1
       DEF Start, Unadopted, Begun, ExecInv, ExecTypeOK, StoreTypeOK, storeVars,
           hostVars, boundVars, ExpectedCurrent, Open, Up
  <2>2. CASE ShutdownBegin
    BY <2>2
       DEF ShutdownBegin, Begun, ExecInv, ExecTypeOK, StoreTypeOK, storeVars,
           hostVars, boundVars, ExpectedCurrent, Open, Up
  <2>3. CASE ShutdownAbort
    BY <2>3
       DEF ShutdownAbort, Begun, ExecInv, ExecTypeOK, StoreTypeOK, storeVars,
           hostVars, boundVars, ExpectedCurrent, Open, Up
  <2>4. CASE ShutdownKill
    BY <2>4
       DEF ShutdownKill, InEffect, Begun, ExecInv, ExecTypeOK, StoreTypeOK,
           storeVars, hostVars, boundVars, ExpectedCurrent, Open, Up
  <2>5. CASE ShutdownExit
    BY <2>5
       DEF ShutdownExit, LoseMemory, Begun, ExecInv, ExecTypeOK, StoreTypeOK,
           storeVars, hostVars, boundVars, ExpectedCurrent, Open, Up
  <2>6. CASE Crash
    BY <2>6
       DEF Crash, LoseMemory, Begun, ExecInv, ExecTypeOK, StoreTypeOK, storeVars,
           hostVars, boundVars, ExpectedCurrent, Open, Up
  <2>7. CASE OrphanEnds
    BY <2>7
       DEF OrphanEnds, InEffect, Begun, ExecInv, ExecTypeOK, StoreTypeOK, storeVars,
           hostVars, boundVars, ExpectedCurrent, Open, Up
  <2> QED
    BY <1>4, <2>1, <2>2, <2>3, <2>4, <2>5, <2>6, <2>7
       DEF HostStep
<1>5. CASE UNCHANGED vars
  BY <1>5
     DEF vars, storeVars, execVars, hostVars, registryVars, boundVars, Begun,
         ExecInv, ExecTypeOK, StoreTypeOK, ExpectedCurrent, Open, Up
<1> QED
  BY <1>1, <1>2, <1>3, <1>4, <1>5
     DEF ExecNext

(* What a command holds stays true under the steps of all others: revisions *)
(* only grow, and a sealed delegation gets no attempt any more.             *)
LEMMA CmdsKept ==
    ASSUME ExecInv, [ExecNext]_vars PROVE (\A x \in Actors : CmdShape(x))'
<1>1. ASSUME NEW d \in Delegations, RunStep(d)
      PROVE  \A x \in Actors : CmdShape(x)'
  <2>1. OthersAlone(d)
    BY <1>1, RunFrame
  <2>2. \A e \in Delegations : run[e].pc = "none" => run'[e].pc = "none"
    BY <2>1 DEF OthersAlone
  <2>3. \A e \in sealed, a \in Attempts : attemptOf'[a] = e <=> attemptOf[a] = e
    BY <2>1, NoneAssumption DEF OthersAlone, ExecInv, ExecTypeOK, StoreTypeOK
  <2> QED
    BY <2>1, <2>2, <2>3 DEF OthersAlone, CmdShape, ExecInv
<1>2. ASSUME NEW c \in Actors, CmdWork(c) \/ CmdLock(c) \/ CmdIssue(c)
      PROVE  \A x \in Actors : CmdShape(x)'
  <2>1. WorkAlone(c)
    BY <1>2, CmdFrame
  <2>2. ASSUME NEW x \in Actors, x # c PROVE CmdShape(x)'
    <3>1. cmd'[x] = cmd[x] /\ CmdShape(x)
      BY <2>1, <2>2 DEF WorkAlone, ExecInv
    <3>2. cmd[x].pc = "launch" => run'[cmd[x].deleg].pc = "none"
      BY <2>1, <2>2, <3>1 DEF WorkAlone, CmdShape, Registered, ExecInv
    <3>3. \A t \in Tasks, r \in Nat : r \in 1..revision[t] => r \in 1..revision'[t]
      BY <2>1, TypingInductive, StoreStep, <1>2, RevisionAssumption
         DEF WorkAlone, ExecInv, ExecTypeOK, StoreTypeOK, ExecNext
    <3> QED
      BY <2>1, <3>1, <3>2, <3>3 DEF WorkAlone, CmdShape
  <2>3. CmdShape(c)'
    <3>1. CASE CmdSteer(c)
      BY <3>1, ActorsAssumption, NoneAssumption
         DEF CmdSteer, CmdAt, CmdEnd, ForwardSteering, ExpectedCurrent, CmdShape,
             ExecTypeOK, StoreTypeOK, ExecInv, storeVars, hostVars, registryVars,
             boundVars, NoRun, NoCmd
    <3>2. CASE CmdDelegate(c)
      <4>1. ASSUME NEW d \in Delegations,
                   cmd' = [cmd EXCEPT ![c].pc = "launch", ![c].deleg = d],
                   delegTask[d] = None, delegTask'[d] = cmd[c].task
            PROVE  CmdShape(c)'
        <5>1. cmd'[c].pc = "launch" /\ cmd'[c].deleg = d
          BY <4>1 DEF ExecInv, ExecTypeOK
        <5>2. cmd[c].task \in Tasks /\ c # Host /\ UNCHANGED run
          BY <3>2 DEF CmdDelegate, CmdAt, CmdShape, ExecInv
        <5>3. run[d].pc = "none"
          BY <4>1 DEF RunShape, ExecInv
        <5> QED
          BY <4>1, <5>1, <5>2, <5>3, NoneAssumption DEF CmdShape
      <4>2. ASSUME NEW d \in Delegations,
                   CreateDelegation(d, cmd[c].task, cmd[c].rev)
            PROVE  delegTask[d] = None /\ delegTask'[d] = cmd[c].task
        BY <4>2 DEF CreateDelegation, ExecInv, ExecTypeOK, StoreTypeOK
      <4>3. CASE CmdEnd(c)
        BY <4>3 DEF CmdEnd, NoCmd, CmdShape, ExecInv, ExecTypeOK
      <4> QED
        BY <3>2, <4>1, <4>2, <4>3 DEF CmdDelegate
    <3>3. CASE CmdLaunch(c)
      BY <3>3, ActorsAssumption, NoneAssumption
         DEF CmdLaunch, CmdAt, CmdEnd, Release, RunTo, CmdShape, ExecTypeOK,
             StoreTypeOK, ExecInv, storeVars, hostVars, registryVars, boundVars,
             NoRun, NoCmd
    <3>4. CASE CmdSignal(c)
      BY <3>4, ActorsAssumption, NoneAssumption
         DEF CmdSignal, CmdAt, CmdEnd, CmdShape, ExecTypeOK, StoreTypeOK, ExecInv,
             storeVars, hostVars, registryVars, boundVars, NoRun, NoCmd
    <3>5. CASE CmdResumeLock(c)
      BY <3>5, ActorsAssumption, NoneAssumption
         DEF CmdResumeLock, CmdAt, CmdTo, CmdShape, ExecTypeOK, StoreTypeOK,
             ExecInv, storeVars, hostVars, registryVars, boundVars, NoRun, NoCmd
    <3>6. CASE CmdReadRunning(c)
      <4>1. /\ cmd'[c].pc \in {"commit", "reserved"}
            /\ cmd'[c].task = cmd[c].task /\ cmd'[c].rev = cmd[c].rev
            /\ UNCHANGED revision
        BY <3>6 DEF CmdReadRunning, CmdTo, storeVars, ExecInv, ExecTypeOK
      <4>2. cmd[c].pc = "running"
        BY <3>6 DEF CmdReadRunning, CmdAt
      <4> QED
        BY <4>1, <4>2 DEF CmdShape, ExecInv
    <3>7. CASE CmdReadReserved(c)
      BY <3>7, ActorsAssumption, NoneAssumption
         DEF CmdReadReserved, CmdAt, CmdShape, ExecTypeOK, StoreTypeOK, ExecInv,
             storeVars, hostVars, registryVars, boundVars, NoRun, NoCmd
    <3>8. CASE CmdResumeCommit(c)
      <4>1. ASSUME NEW d \in Delegations,
                   cmd' = [cmd EXCEPT ![c].pc = "launch", ![c].deleg = d],
                   delegTask[d] = None, delegTask'[d] = cmd[c].task
            PROVE  CmdShape(c)'
        <5>1. cmd'[c].pc = "launch" /\ cmd'[c].deleg = d
          BY <4>1 DEF ExecInv, ExecTypeOK
        <5>2. cmd[c].task \in Tasks /\ c # Host /\ UNCHANGED run
          BY <3>8 DEF CmdResumeCommit, CmdAt, CmdShape, ExecInv
        <5>3. run[d].pc = "none"
          BY <4>1 DEF RunShape, ExecInv
        <5> QED
          BY <4>1, <5>1, <5>2, <5>3, NoneAssumption DEF CmdShape
      <4>2. ASSUME NEW d \in Delegations,
                   CommitResume(cmd[c].task, cmd[c].rev, d, cmd[c].free)
            PROVE  delegTask[d] = None /\ delegTask'[d] = cmd[c].task
        BY <4>2 DEF CommitResume, ExecInv, ExecTypeOK, StoreTypeOK
      <4>3. CASE CmdEnd(c)
        BY <4>3 DEF CmdEnd, NoCmd, CmdShape, ExecInv, ExecTypeOK
      <4>4. CASE CmdTo(c, "list")
        <5>1. cmd'[c].pc = "list" /\ cmd'[c].task = cmd[c].task
          BY <4>4 DEF CmdTo, ExecInv, ExecTypeOK
        <5>2. cmd[c].task \in Tasks /\ c # Host
          BY <3>8 DEF CmdResumeCommit, CmdAt, CmdShape, ExecInv
        <5> QED
          BY <5>1, <5>2 DEF CmdShape
      <4> QED
        BY <3>8, <4>1, <4>2, <4>3, <4>4 DEF CmdResumeCommit
    <3>9. CASE CmdList(c)
      BY <3>9, ActorsAssumption, NoneAssumption
         DEF CmdList, CmdAt, Unadopted, CmdShape, ExecTypeOK, StoreTypeOK, ExecInv,
             storeVars, hostVars, registryVars, boundVars, NoRun, NoCmd
    <3>10. CASE CmdLookup(c)
      BY <3>10, ActorsAssumption, NoneAssumption
         DEF CmdLookup, CmdAt, CmdShape, ExecTypeOK, StoreTypeOK, ExecInv,
             storeVars, hostVars, registryVars, boundVars, NoRun, NoCmd
    <3>11. CASE RouteLoad(c)
      BY <3>11, ActorsAssumption, NoneAssumption
         DEF RouteLoad, CmdAt, AttemptsOf, CmdShape, ExecTypeOK, StoreTypeOK,
             ExecInv, storeVars, hostVars, registryVars, boundVars, NoRun, NoCmd
    <3>12. CASE RouteAdopt(c)
      BY <3>12, ActorsAssumption, NoneAssumption
         DEF RouteAdopt, CmdAt, CmdTo, CmdEnd, Release, AdoptDecides, AdoptFails,
             AdoptResult, AdoptAsCompletion, StampOnly, StampAttempts, CmdShape,
             ExecTypeOK, StoreTypeOK, ExecInv, storeVars, hostVars, registryVars,
             boundVars, NoRun, NoCmd
    <3>13. CASE RouteEnd(c)
      BY <3>13, ActorsAssumption, NoneAssumption
         DEF RouteEnd, CmdAt, CmdEnd, Release, CmdShape, ExecTypeOK, StoreTypeOK,
             ExecInv, storeVars, hostVars, registryVars, boundVars, NoRun, NoCmd
    <3>14. ASSUME NEW t \in Tasks, CmdPropose(c, t) PROVE CmdShape(c)'
      BY <3>14, ActorsAssumption, NoneAssumption
         DEF CmdPropose, Issue, CreateTask, Begun, CmdShape, ExecTypeOK,
             StoreTypeOK, ExecInv, storeVars, hostVars, registryVars, boundVars,
             NoRun, NoCmd
    <3>15. ASSUME NEW t \in Tasks, CmdRead(c, t) PROVE CmdShape(c)'
      <4>1. c # Host /\ UNCHANGED revision
        BY <3>15, ActorsAssumption DEF CmdRead, Issue, storeVars
      <4>2. /\ cmd'[c].pc = "steer" \/ cmd'[c].pc = "lock"
            /\ cmd'[c].task = t /\ cmd'[c].rev = revision[t]
        <5>1. CASE cmd' =
                     [cmd EXCEPT ![c] = [NoCmd EXCEPT !.pc = "steer", !.task = t,
                                                         !.rev = revision[t]]]
          BY <5>1 DEF NoCmd, ExecInv, ExecTypeOK
        <5>2. CASE cmd' =
                     [cmd EXCEPT ![c] = [NoCmd EXCEPT !.pc = "lock", !.task = t,
                                                         !.rev = revision[t]]]
          BY <5>2 DEF NoCmd, ExecInv, ExecTypeOK
        <5> QED
          BY <3>15, <5>1, <5>2 DEF CmdRead
      <4>3. revision[t] \in 1..revision[t]
        BY <3>15 DEF CmdRead, Begun, ExecInv, ExecTypeOK, StoreTypeOK
      <4> QED
        BY <4>1, <4>2, <4>3 DEF CmdShape
    <3>16. ASSUME NEW t \in Tasks, CmdCancel(c, t) PROVE CmdShape(c)'
      BY <3>16, ActorsAssumption, NoneAssumption
         DEF CmdCancel, Issue, CancelTask, Begun, CmdShape, ExecTypeOK, StoreTypeOK,
             ExecInv, storeVars, hostVars, registryVars, boundVars, NoRun, NoCmd
    <3>17. ASSUME NEW a \in Attempts, CmdSettle(c, a) PROVE CmdShape(c)'
      BY <3>17, ActorsAssumption, NoneAssumption
         DEF CmdSettle, Issue, SetCertainty, Begun, CmdShape, ExecTypeOK,
             StoreTypeOK, ExecInv, storeVars, hostVars, registryVars, boundVars,
             NoRun, NoCmd
    <3> QED
      BY <1>2, <3>1, <3>2, <3>3, <3>4, <3>5, <3>6, <3>7, <3>8, <3>9, <3>10, <3>11,
          <3>12, <3>13, <3>14, <3>15, <3>16, <3>17
         DEF CmdWork, CmdLock, CmdIssue
  <2> QED
    BY <2>2, <2>3
<1>3. ASSUME HostStep PROVE \A x \in Actors : CmdShape(x)'

  <2>1. CASE Start
    BY <2>1, ActorsAssumption
       DEF Start, Unadopted, Actors, CmdShape, ExecTypeOK, StoreTypeOK, ExecInv,
           storeVars, hostVars, registryVars, boundVars, NoRun, NoCmd
  <2>2. CASE ShutdownBegin
    BY <2>2, ActorsAssumption
       DEF ShutdownBegin, Actors, CmdShape, ExecTypeOK, StoreTypeOK, ExecInv,
           storeVars, hostVars, registryVars, boundVars, NoRun, NoCmd
  <2>3. CASE ShutdownAbort
    BY <2>3, ActorsAssumption
       DEF ShutdownAbort, Actors, CmdShape, ExecTypeOK, StoreTypeOK, ExecInv,
           storeVars, hostVars, registryVars, boundVars, NoRun, NoCmd
  <2>4. CASE ShutdownKill
    BY <2>4, ActorsAssumption
       DEF ShutdownKill, InEffect, Actors, CmdShape, ExecTypeOK, StoreTypeOK,
           ExecInv, storeVars, hostVars, registryVars, boundVars, NoRun, NoCmd
  <2>5. CASE ShutdownExit
    BY <2>5, ActorsAssumption
       DEF ShutdownExit, LoseMemory, Actors, CmdShape, ExecTypeOK, StoreTypeOK,
           ExecInv, storeVars, hostVars, registryVars, boundVars, NoRun, NoCmd
  <2>6. CASE Crash
    BY <2>6, ActorsAssumption
       DEF Crash, LoseMemory, Actors, CmdShape, ExecTypeOK, StoreTypeOK, ExecInv,
           storeVars, hostVars, registryVars, boundVars, NoRun, NoCmd
  <2>7. CASE OrphanEnds
    BY <2>7, ActorsAssumption
       DEF OrphanEnds, InEffect, Actors, CmdShape, ExecTypeOK, StoreTypeOK, ExecInv,
           storeVars, hostVars, registryVars, boundVars, NoRun, NoCmd
  <2> QED
    BY <1>3, <2>1, <2>2, <2>3, <2>4, <2>5, <2>6, <2>7
       DEF HostStep
<1>4. CASE UNCHANGED vars
  BY <1>4
     DEF vars, execVars, CmdShape, ExecTypeOK, StoreTypeOK, ExecInv, storeVars,
         hostVars, registryVars, boundVars, NoRun, NoCmd
<1> QED
  BY <1>1, <1>2, <1>3, <1>4 DEF ExecNext

(* What a run counts stays exact: nobody else claims an effect for its      *)
(* delegation.                                                              *)
LEMMA RunsKept ==
    ASSUME ExecInv, [ExecNext]_vars PROVE (\A x \in Delegations : RunShape(x))'
<1>1. ASSUME NEW d \in Delegations, RunStep(d)
      PROVE  \A x \in Delegations : RunShape(x)'
  <2>1. OthersAlone(d)
    BY <1>1, RunFrame
  <2>2. ASSUME NEW x \in Delegations, x # d PROVE RunShape(x)'
    BY <2>1, <2>2, NoneAssumption
       DEF OthersAlone, RunShape, InHand, ExecInv, ExecTypeOK, StoreTypeOK
  <2>3. RunShape(d)'
    <3>1. CASE RunTake(d)
      <4>1. CASE EndRun(d)
        BY <4>1, <2>1
           DEF EndRun, NoRun, OthersAlone, RunShape, InHand, ExecInv, ExecTypeOK
      <4>2. CASE RunTo(d, "begin")
        <5>1. /\ run'[d].pc = "begin" /\ run'[d].refs = run[d].refs
              /\ UNCHANGED <<attemptOf, delegTask, sealed>>
          BY <3>1, <4>2 DEF RunTake, RunTo, storeVars, ExecInv, ExecTypeOK
        <5>2. run[d].pc \notin InHand \cup {"none", "done"}
          BY <3>1 DEF RunTake, RunAt, InHand
        <5> QED
          BY <5>1, <5>2 DEF RunShape, InHand, ExecInv
      <4> QED
        BY <3>1, <4>1, <4>2 DEF RunTake
    <3>2. CASE RunBegin(d)
      <4>1. CASE EndRun(d)
        BY <4>1, <2>1
           DEF EndRun, NoRun, OthersAlone, RunShape, InHand, ExecInv, ExecTypeOK
      <4>2. CASE RunTo(d, "turn")
        <5>1. /\ run'[d].pc = "turn" /\ run'[d].refs = run[d].refs
              /\ UNCHANGED <<attemptOf, delegTask, sealed>>
          BY <3>2, <4>2 DEF RunBegin, RunTo, storeVars, ExecInv, ExecTypeOK
        <5>2. run[d].pc \notin InHand \cup {"none", "done"}
          BY <3>2 DEF RunBegin, RunAt, InHand
        <5> QED
          BY <5>1, <5>2 DEF RunShape, InHand, ExecInv
      <4> QED
        BY <3>2, <4>1, <4>2 DEF RunBegin
    <3>3. CASE RunTurn(d)
      BY <3>3, <2>1, NoneAssumption
         DEF RunTurn, RunAt, EndRun, OthersAlone, RunShape, InHand, ExecTypeOK,
             StoreTypeOK, ExecInv, storeVars, hostVars, registryVars, boundVars,
             NoRun, NoCmd
    <3>4. CASE RunInferLock(d)
      <4>1. CASE EndRun(d)
        BY <4>1, <2>1
           DEF EndRun, NoRun, OthersAlone, RunShape, InHand, ExecInv, ExecTypeOK
      <4>2. CASE RunTo(d, "inferTx")
        <5>1. /\ run'[d].pc = "inferTx" /\ run'[d].refs = run[d].refs
              /\ UNCHANGED <<attemptOf, delegTask, sealed>>
          BY <3>4, <4>2 DEF RunInferLock, RunTo, storeVars, ExecInv, ExecTypeOK
        <5>2. run[d].pc \notin InHand \cup {"none", "done"}
          BY <3>4 DEF RunInferLock, RunAt, InHand
        <5> QED
          BY <5>1, <5>2 DEF RunShape, InHand, ExecInv
      <4> QED
        BY <3>4, <4>1, <4>2 DEF RunInferLock
    <3>5. CASE RunInferTx(d)
      <4>1. CASE EndRun(d)
        BY <4>1, <2>1
           DEF EndRun, NoRun, OthersAlone, RunShape, InHand, ExecInv, ExecTypeOK
      <4>2. CASE RunTo(d, "await")
        <5>1. /\ run'[d].pc = "await" /\ run'[d].refs = run[d].refs
              /\ UNCHANGED <<attemptOf, delegTask, sealed>>
          <6>1. run'[d].pc = "await" /\ run'[d].refs = run[d].refs
            BY <4>2 DEF RunTo, ExecInv, ExecTypeOK
          <6>2. UNCHANGED <<attemptOf, delegTask, sealed>>
            BY <3>5 DEF RunInferTx, StartInference, storeVars
          <6> QED
            BY <6>1, <6>2
        <5>2. run[d].pc \notin InHand \cup {"none", "done"}
          BY <3>5 DEF RunInferTx, RunAt, InHand
        <5> QED
          BY <5>1, <5>2 DEF RunShape, InHand, ExecInv
      <4> QED
        BY <3>5, <4>1, <4>2 DEF RunInferTx
    <3>6. CASE RunAnswer(d)
      BY <3>6, <2>1, NoneAssumption
         DEF RunAnswer, RunAt, RunTo, OthersAlone, RunShape, InHand, ExecTypeOK,
             StoreTypeOK, ExecInv, storeVars, hostVars, registryVars, boundVars,
             NoRun, NoCmd
    <3>7. CASE RunAbortWait(d)
      BY <3>7, <2>1, NoneAssumption
         DEF RunAbortWait, RunAt, EndRun, OthersAlone, RunShape, InHand, ExecTypeOK,
             StoreTypeOK, ExecInv, storeVars, hostVars, registryVars, boundVars,
             NoRun, NoCmd
    <3>8. CASE RunDecideAct(d)
      <4>1. CASE EndRun(d)
        BY <4>1, <2>1
           DEF EndRun, NoRun, OthersAlone, RunShape, InHand, ExecInv, ExecTypeOK
      <4>2. CASE RunTo(d, "act")
        <5>1. /\ run'[d].pc = "act" /\ run'[d].refs = run[d].refs
              /\ UNCHANGED <<attemptOf, delegTask, sealed>>
          BY <3>8, <4>2 DEF RunDecideAct, RunTo, storeVars, ExecInv, ExecTypeOK
        <5>2. run[d].pc \notin InHand \cup {"none", "done"}
          BY <3>8 DEF RunDecideAct, RunAt, InHand
        <5> QED
          BY <5>1, <5>2 DEF RunShape, InHand, ExecInv
      <4> QED
        BY <3>8, <4>1, <4>2 DEF RunDecideAct
    <3>9. CASE RunDecideFinish(d)
      BY <3>9, <2>1, NoneAssumption
         DEF RunDecideFinish, RunAt, RunTo, OthersAlone, RunShape, InHand,
             ExecTypeOK, StoreTypeOK, ExecInv, storeVars, hostVars, registryVars,
             boundVars, NoRun, NoCmd
    <3>10. CASE RunActLock(d)
      <4>1. CASE EndRun(d)
        BY <4>1, <2>1
           DEF EndRun, NoRun, OthersAlone, RunShape, InHand, ExecInv, ExecTypeOK
      <4>2. CASE RunTo(d, "actTx")
        <5>1. /\ run'[d].pc = "actTx" /\ run'[d].refs = run[d].refs
              /\ UNCHANGED <<attemptOf, delegTask, sealed>>
          BY <3>10, <4>2 DEF RunActLock, RunTo, storeVars, ExecInv, ExecTypeOK
        <5>2. run[d].pc \notin InHand \cup {"none", "done"}
          BY <3>10 DEF RunActLock, RunAt, InHand
        <5> QED
          BY <5>1, <5>2 DEF RunShape, InHand, ExecInv
      <4> QED
        BY <3>10, <4>1, <4>2 DEF RunActLock
    <3>11. CASE RunActTx(d)
      <4>1. run[d].pc = "actTx"
        BY <3>11 DEF RunActTx, RunAt
      <4>2. CASE EndRun(d)
        BY <4>2, <2>1
           DEF EndRun, NoRun, OthersAlone, RunShape, InHand, ExecInv, ExecTypeOK
      <4>3. CASE RunTo(d, "turn") /\ UNCHANGED storeVars
        <5>1. /\ run'[d].pc = "turn" /\ run'[d].refs = run[d].refs
              /\ UNCHANGED <<attemptOf, delegTask, sealed>>
          BY <4>3 DEF RunTo, storeVars, ExecInv, ExecTypeOK
        <5> QED
          BY <4>1, <5>1 DEF RunShape, InHand, ExecInv
      <4>4. ASSUME NEW a \in Attempts, InsertAttempt(a, d),
                   run' = [run EXCEPT ![d].pc = "launch", ![d].att = a]
            PROVE  RunShape(d)'
        <5>1. run'[d].pc = "launch" /\ run'[d].refs = run[d].refs /\ run'[d].att = a
          BY <4>4 DEF ExecInv, ExecTypeOK
        <5>2. delegTask' = delegTask /\ attemptOf' = [attemptOf EXCEPT ![a] = d]
          BY <4>4 DEF InsertAttempt
        <5>3. \A b \in Attempts : attemptOf[b] = d <=> b \in run[d].refs
          BY <4>1 DEF RunShape, InHand, ExecInv
        <5>4. \A b \in Attempts : attemptOf'[b] = d <=> b \in run[d].refs \cup {a}
          BY <5>2, <5>3 DEF ExecInv, ExecTypeOK, StoreTypeOK
        <5>5. delegTask[d] # None
          BY <4>1 DEF RunShape, ExecInv
        <5> QED
          BY <5>1, <5>2, <5>4, <5>5 DEF RunShape, InHand
      <4> QED
        BY <3>11, <4>2, <4>3, <4>4 DEF RunActTx
    <3>12. CASE RunLaunch(d)
      <4>1. CASE EndRun(d)
        BY <4>1, <2>1
           DEF EndRun, NoRun, OthersAlone, RunShape, InHand, ExecInv, ExecTypeOK
      <4>2. CASE RunTo(d, "effect")
        <5>1. /\ run'[d].pc = "effect" /\ run'[d].refs = run[d].refs
              /\ run'[d].att = run[d].att
              /\ UNCHANGED <<attemptOf, delegTask, sealed>>
          BY <3>12, <4>2 DEF RunLaunch, RunTo, storeVars, ExecInv, ExecTypeOK
        <5>2. run[d].pc = "launch"
          BY <3>12 DEF RunLaunch, RunAt
        <5> QED
          BY <5>1, <5>2 DEF RunShape, InHand, ExecInv
      <4> QED
        BY <3>12, <4>1, <4>2 DEF RunLaunch
    <3>13. CASE RunEffectDone(d)
      BY <3>13, <2>1, NoneAssumption
         DEF RunEffectDone, RunAt, RunTo, OthersAlone, RunShape, InHand, ExecTypeOK,
             StoreTypeOK, ExecInv, storeVars, hostVars, registryVars, boundVars,
             NoRun, NoCmd
    <3>14. CASE RunEffectStop(d)
      BY <3>14, <2>1, NoneAssumption
         DEF RunEffectStop, RunAt, EndRun, OthersAlone, RunShape, InHand,
             ExecTypeOK, StoreTypeOK, ExecInv, storeVars, hostVars, registryVars,
             boundVars, NoRun, NoCmd
    <3>15. CASE RunSettle(d)
      BY <3>15, <2>1, NoneAssumption
         DEF RunSettle, RunAt, SetCertainty, OthersAlone, RunShape, InHand,
             ExecTypeOK, StoreTypeOK, ExecInv, storeVars, hostVars, registryVars,
             boundVars, NoRun, NoCmd
    <3>16. CASE RunUnresolved(d)
      BY <3>16, <2>1, NoneAssumption
         DEF RunUnresolved, RunAt, EndRun, OthersAlone, RunShape, InHand,
             ExecTypeOK, StoreTypeOK, ExecInv, storeVars, hostVars, registryVars,
             boundVars, NoRun, NoCmd
    <3>17. CASE RunRecord(d)
      BY <3>17, <2>1, NoneAssumption
         DEF RunRecord, RunAt, RunTo, RecordResult, OthersAlone, RunShape, InHand,
             ExecTypeOK, StoreTypeOK, ExecInv, storeVars, hostVars, registryVars,
             boundVars, NoRun, NoCmd
    <3>18. CASE RunAdopt(d)
      BY <3>18, <2>1, NoneAssumption
         DEF RunAdopt, RunAt, EndRun, AdoptDecides, AdoptFails, AdoptResult,
             AdoptAsCompletion, StampOnly, StampAttempts, OthersAlone, RunShape,
             InHand, ExecTypeOK, StoreTypeOK, ExecInv, storeVars, hostVars,
             registryVars, boundVars, NoRun, NoCmd
    <3>19. CASE RunQuit(d)
      BY <3>19, <2>1, NoneAssumption
         DEF RunQuit, EndRun, OthersAlone, RunShape, InHand, ExecTypeOK,
             StoreTypeOK, ExecInv, storeVars, hostVars, registryVars, boundVars,
             NoRun, NoCmd
    <3> QED
      BY <1>1, <3>1, <3>2, <3>3, <3>4, <3>5, <3>6, <3>7, <3>8, <3>9, <3>10, <3>11,
          <3>12, <3>13, <3>14, <3>15, <3>16, <3>17, <3>18, <3>19
         DEF RunStep, RunWork, RunLock, RunEffectKill
  <2> QED
    BY <2>2, <2>3
<1>2. ASSUME NEW c \in Actors, CmdWork(c) \/ CmdLock(c) \/ CmdIssue(c)
      PROVE  \A x \in Delegations : RunShape(x)'
  <2>1. WorkAlone(c)
    BY <1>2, CmdFrame
  <2>2. CmdShape(c)
    BY DEF ExecInv
  <2> SUFFICES ASSUME NEW x \in Delegations PROVE RunShape(x)'
    OBVIOUS
  <2>3. CASE run'[x] = run[x]
    BY <2>1, <2>3, NoneAssumption
       DEF WorkAlone, RunShape, InHand, ExecInv, ExecTypeOK, StoreTypeOK
  <2>4. CASE run'[x] # run[x]
    <3>1. /\ run[x] = NoRun /\ delegTask[x] # None
          /\ run'[x].pc = "spawned" /\ run'[x].refs = run[x].refs
      BY <2>1, <2>2, <2>4 DEF WorkAlone, RunShape, CmdShape, ExecInv
    <3> QED
      BY <2>1, <3>1 DEF WorkAlone, RunShape, InHand, NoRun, ExecInv
  <2> QED
    BY <2>3, <2>4
<1>3. ASSUME HostStep PROVE \A x \in Delegations : RunShape(x)'

  <2>1. CASE Start
    BY <2>1
       DEF Start, Unadopted, RunShape, InHand, ExecTypeOK, StoreTypeOK, ExecInv,
           storeVars, hostVars, registryVars, boundVars, NoRun, NoCmd
  <2>2. CASE ShutdownBegin
    BY <2>2
       DEF ShutdownBegin, RunShape, InHand, ExecTypeOK, StoreTypeOK, ExecInv,
           storeVars, hostVars, registryVars, boundVars, NoRun, NoCmd
  <2>3. CASE ShutdownAbort
    BY <2>3
       DEF ShutdownAbort, RunShape, InHand, ExecTypeOK, StoreTypeOK, ExecInv,
           storeVars, hostVars, registryVars, boundVars, NoRun, NoCmd
  <2>4. CASE ShutdownKill
    BY <2>4
       DEF ShutdownKill, InEffect, RunShape, InHand, ExecTypeOK, StoreTypeOK,
           ExecInv, storeVars, hostVars, registryVars, boundVars, NoRun, NoCmd
  <2>5. CASE ShutdownExit
    BY <2>5
       DEF ShutdownExit, LoseMemory, RunShape, InHand, ExecTypeOK, StoreTypeOK,
           ExecInv, storeVars, hostVars, registryVars, boundVars, NoRun, NoCmd
  <2>6. CASE Crash
    BY <2>6
       DEF Crash, LoseMemory, RunShape, InHand, ExecTypeOK, StoreTypeOK, ExecInv,
           storeVars, hostVars, registryVars, boundVars, NoRun, NoCmd
  <2>7. CASE OrphanEnds
    BY <2>7
       DEF OrphanEnds, InEffect, RunShape, InHand, ExecTypeOK, StoreTypeOK, ExecInv,
           storeVars, hostVars, registryVars, boundVars, NoRun, NoCmd
  <2> QED
    BY <1>3, <2>1, <2>2, <2>3, <2>4, <2>5, <2>6, <2>7
       DEF HostStep
<1>4. CASE UNCHANGED vars
  BY <1>4
     DEF vars, execVars, RunShape, InHand, ExecTypeOK, StoreTypeOK, ExecInv,
         storeVars, hostVars, registryVars, boundVars, NoRun, NoCmd
<1> QED
  BY <1>1, <1>2, <1>3, <1>4 DEF ExecNext

(* The registry follows the runs through launch, take, end, abort and       *)
(* crash.                                                                   *)
LEMMA RegistryKept ==
    ASSUME ExecInv, [ExecNext]_vars PROVE Registered'
<1>1. ASSUME NEW d \in Delegations, RunStep(d)
      PROVE  Registered'
  <2>1. OthersAlone(d)
    BY <1>1, RunFrame
  <2>2. /\ d \in running' <=> ActiveRun(d)'
        /\ \A e \in Delegations : e # d => (e \in running' <=> e \in running)
        /\ \A e \in reserved' : e \in reserved
        /\ d \in reserved' => run'[d].pc = "spawned" \/ (d \in reserved /\ run[d].pc # "spawned")
    <3>1. CASE RunTake(d)
      BY <3>1
         DEF RunTake, RunAt, RunTo, EndRun, Registered, ActiveRun, ExecTypeOK,
             ExecInv, storeVars, hostVars, registryVars, boundVars, NoRun, NoCmd
    <3>2. CASE RunBegin(d)
      BY <3>2
         DEF RunBegin, RunAt, RunTo, EndRun, Registered, ActiveRun, ExecTypeOK,
             ExecInv, storeVars, hostVars, registryVars, boundVars, NoRun, NoCmd
    <3>3. CASE RunTurn(d)
      BY <3>3
         DEF RunTurn, RunAt, EndRun, Registered, ActiveRun, ExecTypeOK, ExecInv,
             storeVars, hostVars, registryVars, boundVars, NoRun, NoCmd
    <3>4. CASE RunInferLock(d)
      BY <3>4
         DEF RunInferLock, RunAt, RunTo, EndRun, Stopped, Registered, ActiveRun,
             ExecTypeOK, ExecInv, storeVars, hostVars, registryVars, boundVars,
             NoRun, NoCmd
    <3>5. CASE RunInferTx(d)
      BY <3>5
         DEF RunInferTx, RunAt, RunTo, EndRun, StartInference, Registered,
             ActiveRun, ExecTypeOK, ExecInv, storeVars, hostVars, registryVars,
             boundVars, NoRun, NoCmd
    <3>6. CASE RunAnswer(d)
      BY <3>6
         DEF RunAnswer, RunAt, RunTo, Registered, ActiveRun, ExecTypeOK, ExecInv,
             storeVars, hostVars, registryVars, boundVars, NoRun, NoCmd
    <3>7. CASE RunAbortWait(d)
      BY <3>7
         DEF RunAbortWait, RunAt, EndRun, Registered, ActiveRun, ExecTypeOK,
             ExecInv, storeVars, hostVars, registryVars, boundVars, NoRun, NoCmd
    <3>8. CASE RunDecideAct(d)
      BY <3>8
         DEF RunDecideAct, RunAt, RunTo, EndRun, Registered, ActiveRun, ExecTypeOK,
             ExecInv, storeVars, hostVars, registryVars, boundVars, NoRun, NoCmd
    <3>9. CASE RunDecideFinish(d)
      BY <3>9
         DEF RunDecideFinish, RunAt, RunTo, Registered, ActiveRun, ExecTypeOK,
             ExecInv, storeVars, hostVars, registryVars, boundVars, NoRun, NoCmd
    <3>10. CASE RunActLock(d)
      BY <3>10
         DEF RunActLock, RunAt, RunTo, EndRun, Stopped, Registered, ActiveRun,
             ExecTypeOK, ExecInv, storeVars, hostVars, registryVars, boundVars,
             NoRun, NoCmd
    <3>11. CASE RunActTx(d)
      BY <3>11
         DEF RunActTx, RunAt, RunTo, EndRun, InsertAttempt, CanStart,
             PremiseCurrent, Registered, ActiveRun, ExecTypeOK, ExecInv, storeVars,
             hostVars, registryVars, boundVars, NoRun, NoCmd
    <3>12. CASE RunLaunch(d)
      BY <3>12
         DEF RunLaunch, RunAt, RunTo, EndRun, Registered, ActiveRun, ExecTypeOK,
             ExecInv, storeVars, hostVars, registryVars, boundVars, NoRun, NoCmd
    <3>13. CASE RunEffectDone(d)
      BY <3>13
         DEF RunEffectDone, RunAt, RunTo, Registered, ActiveRun, ExecTypeOK,
             ExecInv, storeVars, hostVars, registryVars, boundVars, NoRun, NoCmd
    <3>14. CASE RunEffectStop(d)
      BY <3>14
         DEF RunEffectStop, RunAt, EndRun, Registered, ActiveRun, ExecTypeOK,
             ExecInv, storeVars, hostVars, registryVars, boundVars, NoRun, NoCmd
    <3>15. CASE RunSettle(d)
      BY <3>15
         DEF RunSettle, RunAt, SetCertainty, Registered, ActiveRun, ExecTypeOK,
             ExecInv, storeVars, hostVars, registryVars, boundVars, NoRun, NoCmd
    <3>16. CASE RunUnresolved(d)
      BY <3>16
         DEF RunUnresolved, RunAt, EndRun, Registered, ActiveRun, ExecTypeOK,
             ExecInv, storeVars, hostVars, registryVars, boundVars, NoRun, NoCmd
    <3>17. CASE RunRecord(d)
      BY <3>17
         DEF RunRecord, RunAt, RunTo, RecordResult, Registered, ActiveRun,
             ExecTypeOK, ExecInv, storeVars, hostVars, registryVars, boundVars,
             NoRun, NoCmd
    <3>18. CASE RunAdopt(d)
      BY <3>18
         DEF RunAdopt, RunAt, EndRun, AdoptDecides, AdoptFails, AdoptResult,
             AdoptAsCompletion, StampOnly, StampAttempts, Registered, ActiveRun,
             ExecTypeOK, ExecInv, storeVars, hostVars, registryVars, boundVars,
             NoRun, NoCmd
    <3>19. CASE RunQuit(d)
      BY <3>19
         DEF RunQuit, EndRun, Registered, ActiveRun, ExecTypeOK, ExecInv, storeVars,
             hostVars, registryVars, boundVars, NoRun, NoCmd
    <3> QED
      BY <1>1, <3>1, <3>2, <3>3, <3>4, <3>5, <3>6, <3>7, <3>8, <3>9, <3>10, <3>11,
          <3>12, <3>13, <3>14, <3>15, <3>16, <3>17, <3>18, <3>19
         DEF RunStep, RunWork, RunLock, RunEffectKill
  <2>3. \A e \in reserved : e # d \/ run[d].pc = "spawned"
    BY <2>1 DEF OthersAlone, Registered, CmdShape, Actors, ExecInv
  <2> QED
    BY <2>1, <2>2, <2>3 DEF OthersAlone, Registered, ActiveRun, ExecInv, ExecTypeOK
<1>2. ASSUME NEW c \in Actors, CmdWork(c) \/ CmdLock(c) \/ CmdIssue(c)
      PROVE  Registered'
  <2>1. WorkAlone(c)
    BY <1>2, CmdFrame

  <2>2. CASE CmdSteer(c)
    BY <2>2, <2>1, NoneAssumption, ActorsAssumption
       DEF CmdSteer, CmdAt, CmdEnd, ForwardSteering, ExpectedCurrent, WorkAlone,
           Registered, CmdShape, Actors, ActiveRun, ExecTypeOK, ExecInv, storeVars,
           hostVars, registryVars, boundVars, NoRun, NoCmd
  <2>3. CASE CmdDelegate(c)
    BY <2>3, <2>1, NoneAssumption, ActorsAssumption
       DEF CmdDelegate, CmdAt, CmdEnd, CreateDelegation, ExpectedCurrent, WorkAlone,
           Registered, CmdShape, Actors, ActiveRun, ExecTypeOK, ExecInv, storeVars,
           hostVars, registryVars, boundVars, NoRun, NoCmd
  <2>4. CASE CmdLaunch(c)
    BY <2>4, <2>1, NoneAssumption, ActorsAssumption
       DEF CmdLaunch, CmdAt, CmdEnd, Release, RunTo, WorkAlone, Registered,
           CmdShape, Actors, ActiveRun, ExecTypeOK, ExecInv, storeVars, hostVars,
           registryVars, boundVars, NoRun, NoCmd
  <2>5. CASE CmdSignal(c)
    BY <2>5, <2>1, NoneAssumption, ActorsAssumption
       DEF CmdSignal, CmdAt, CmdEnd, WorkAlone, Registered, CmdShape, Actors,
           ActiveRun, ExecTypeOK, ExecInv, storeVars, hostVars, registryVars,
           boundVars, NoRun, NoCmd
  <2>6. CASE CmdResumeLock(c)
    BY <2>6, <2>1, NoneAssumption, ActorsAssumption
       DEF CmdResumeLock, CmdAt, CmdTo, WorkAlone, Registered, CmdShape, Actors,
           ActiveRun, ExecTypeOK, ExecInv, storeVars, hostVars, registryVars,
           boundVars, NoRun, NoCmd
  <2>7. CASE CmdReadRunning(c)
    BY <2>7, <2>1, NoneAssumption, ActorsAssumption
       DEF CmdReadRunning, CmdAt, CmdTo, WorkAlone, Registered, CmdShape, Actors,
           ActiveRun, ExecTypeOK, ExecInv, storeVars, hostVars, registryVars,
           boundVars, NoRun, NoCmd
  <2>8. CASE CmdReadReserved(c)
    BY <2>8, <2>1, NoneAssumption, ActorsAssumption
       DEF CmdReadReserved, CmdAt, WorkAlone, Registered, CmdShape, Actors,
           ActiveRun, ExecTypeOK, ExecInv, storeVars, hostVars, registryVars,
           boundVars, NoRun, NoCmd
  <2>9. CASE CmdResumeCommit(c)
    BY <2>9, <2>1, NoneAssumption, ActorsAssumption
       DEF CmdResumeCommit, CmdAt, CmdTo, CmdEnd, Release, CommitResume, Resumable,
           ExpectedCurrent, WorkAlone, Registered, CmdShape, Actors, ActiveRun,
           ExecTypeOK, ExecInv, storeVars, hostVars, registryVars, boundVars, NoRun,
           NoCmd
  <2>10. CASE CmdList(c)
    BY <2>10, <2>1, NoneAssumption, ActorsAssumption
       DEF CmdList, CmdAt, Unadopted, WorkAlone, Registered, CmdShape, Actors,
           ActiveRun, ExecTypeOK, ExecInv, storeVars, hostVars, registryVars,
           boundVars, NoRun, NoCmd
  <2>11. CASE CmdLookup(c)
    BY <2>11, <2>1, NoneAssumption, ActorsAssumption
       DEF CmdLookup, CmdAt, WorkAlone, Registered, CmdShape, Actors, ActiveRun,
           ExecTypeOK, ExecInv, storeVars, hostVars, registryVars, boundVars, NoRun,
           NoCmd
  <2>12. CASE RouteLoad(c)
    BY <2>12, <2>1, NoneAssumption, ActorsAssumption
       DEF RouteLoad, CmdAt, AttemptsOf, WorkAlone, Registered, CmdShape, Actors,
           ActiveRun, ExecTypeOK, ExecInv, storeVars, hostVars, registryVars,
           boundVars, NoRun, NoCmd
  <2>13. CASE RouteAdopt(c)
    BY <2>13, <2>1, NoneAssumption, ActorsAssumption
       DEF RouteAdopt, CmdAt, CmdTo, CmdEnd, Release, AdoptDecides, AdoptFails,
           AdoptResult, AdoptAsCompletion, StampOnly, StampAttempts, WorkAlone,
           Registered, CmdShape, Actors, ActiveRun, ExecTypeOK, ExecInv, storeVars,
           hostVars, registryVars, boundVars, NoRun, NoCmd
  <2>14. CASE RouteEnd(c)
    BY <2>14, <2>1, NoneAssumption, ActorsAssumption
       DEF RouteEnd, CmdAt, CmdEnd, Release, WorkAlone, Registered, CmdShape,
           Actors, ActiveRun, ExecTypeOK, ExecInv, storeVars, hostVars,
           registryVars, boundVars, NoRun, NoCmd
  <2>15. ASSUME NEW t \in Tasks, CmdPropose(c, t) PROVE Registered'
    BY <2>15, <2>1, ActorsAssumption
       DEF CmdPropose, Issue, CreateTask, WorkAlone, Registered, Actors, ActiveRun,
           ExecTypeOK, ExecInv, storeVars, hostVars, registryVars, boundVars, NoRun,
           NoCmd
  <2>16. ASSUME NEW t \in Tasks, CmdRead(c, t) PROVE Registered'
    <3>1. cmd[c].pc = "idle" /\ UNCHANGED <<run, running, reserved, aborted>>
      BY <2>16 DEF CmdRead, Issue, registryVars, hostVars
    <3>2. cmd'[c].pc = "steer" \/ cmd'[c].pc = "lock"
      <4>1. CASE cmd' = [cmd EXCEPT ![c] = [NoCmd EXCEPT !.pc = "steer", !.task = t,
                                                       !.rev = revision[t]]]
        BY <4>1 DEF NoCmd, ExecInv, ExecTypeOK
      <4>2. CASE cmd' = [cmd EXCEPT ![c] = [NoCmd EXCEPT !.pc = "lock", !.task = t,
                                                       !.rev = revision[t]]]
        BY <4>2 DEF NoCmd, ExecInv, ExecTypeOK
      <4> QED
        BY <2>16, <4>1, <4>2 DEF CmdRead
    <3> QED
      BY <2>1, <3>1, <3>2 DEF WorkAlone, Registered, ActiveRun, Actors, ExecInv
  <2>17. ASSUME NEW t \in Tasks, CmdCancel(c, t) PROVE Registered'
    BY <2>17, <2>1, ActorsAssumption
       DEF CmdCancel, Issue, CancelTask, WorkAlone, Registered, Actors, ActiveRun,
           ExecTypeOK, ExecInv, storeVars, hostVars, registryVars, boundVars, NoRun,
           NoCmd
  <2>18. ASSUME NEW a \in Attempts, CmdSettle(c, a) PROVE Registered'
    BY <2>18, <2>1, ActorsAssumption
       DEF CmdSettle, Issue, SetCertainty, WorkAlone, Registered, Actors, ActiveRun,
           ExecTypeOK, ExecInv, storeVars, hostVars, registryVars, boundVars, NoRun,
           NoCmd
  <2> QED
    BY <1>2, <2>2, <2>3, <2>4, <2>5, <2>6, <2>7, <2>8, <2>9, <2>10, <2>11, <2>12,
        <2>13, <2>14, <2>15, <2>16, <2>17, <2>18
       DEF CmdWork, CmdLock, CmdIssue
<1>3. ASSUME HostStep PROVE Registered'
  <2>1. CASE Start
    BY <2>1, ActorsAssumption
       DEF Start, Unadopted, Registered, CmdShape, Actors, ActiveRun, ExecTypeOK,
           ExecInv, storeVars, hostVars, registryVars, boundVars, NoRun, NoCmd
  <2>2. CASE ShutdownBegin
    BY <2>2, ActorsAssumption
       DEF ShutdownBegin, Registered, CmdShape, Actors, ActiveRun, ExecTypeOK,
           ExecInv, storeVars, hostVars, registryVars, boundVars, NoRun, NoCmd
  <2>3. CASE ShutdownAbort
    BY <2>3, ActorsAssumption
       DEF ShutdownAbort, Registered, CmdShape, Actors, ActiveRun, ExecTypeOK,
           ExecInv, storeVars, hostVars, registryVars, boundVars, NoRun, NoCmd
  <2>4. CASE ShutdownKill
    BY <2>4, ActorsAssumption
       DEF ShutdownKill, InEffect, Registered, CmdShape, Actors, ActiveRun,
           ExecTypeOK, ExecInv, storeVars, hostVars, registryVars, boundVars, NoRun,
           NoCmd
  <2>5. CASE ShutdownExit
    BY <2>5, ActorsAssumption
       DEF ShutdownExit, LoseMemory, Registered, CmdShape, Actors, ActiveRun,
           ExecTypeOK, ExecInv, storeVars, hostVars, registryVars, boundVars, NoRun,
           NoCmd
  <2>6. CASE Crash
    BY <2>6, ActorsAssumption
       DEF Crash, LoseMemory, Registered, CmdShape, Actors, ActiveRun, ExecTypeOK,
           ExecInv, storeVars, hostVars, registryVars, boundVars, NoRun, NoCmd
  <2>7. CASE OrphanEnds
    BY <2>7, ActorsAssumption
       DEF OrphanEnds, InEffect, Registered, CmdShape, Actors, ActiveRun,
           ExecTypeOK, ExecInv, storeVars, hostVars, registryVars, boundVars, NoRun,
           NoCmd
  <2> QED
    BY <1>3, <2>1, <2>2, <2>3, <2>4, <2>5, <2>6, <2>7
       DEF HostStep
<1>4. CASE UNCHANGED vars
  BY <1>4
     DEF vars, execVars, Registered, ActiveRun, ExecTypeOK, ExecInv, storeVars,
         hostVars, registryVars, boundVars, NoRun, NoCmd
<1> QED
  BY <1>1, <1>2, <1>3, <1>4 DEF ExecNext

(* Whoever is between the abort check and the claim keeps the scope.        *)
LEMMA ScopedKept ==
    ASSUME ExecInv, [ExecNext]_vars PROVE Scoped'
<1>1. ASSUME NEW d \in Delegations, RunStep(d)
      PROVE  Scoped'
  <2>1. CASE RunTake(d)
    BY <2>1, NoneAssumption, ActorsAssumption
       DEF RunTake, RunAt, RunTo, EndRun, Scoped, ExecTypeOK, ExecInv, Actors,
           storeVars, hostVars, registryVars, boundVars, NoRun, NoCmd
  <2>2. CASE RunBegin(d)
    BY <2>2, NoneAssumption, ActorsAssumption
       DEF RunBegin, RunAt, RunTo, EndRun, Scoped, ExecTypeOK, ExecInv, Actors,
           storeVars, hostVars, registryVars, boundVars, NoRun, NoCmd
  <2>3. CASE RunTurn(d)
    BY <2>3, NoneAssumption, ActorsAssumption
       DEF RunTurn, RunAt, EndRun, Scoped, ExecTypeOK, ExecInv, Actors, storeVars,
           hostVars, registryVars, boundVars, NoRun, NoCmd
  <2>4. CASE RunInferLock(d)
    BY <2>4, NoneAssumption, ActorsAssumption
       DEF RunInferLock, RunAt, RunTo, EndRun, Stopped, Scoped, ExecTypeOK, ExecInv,
           Actors, storeVars, hostVars, registryVars, boundVars, NoRun, NoCmd
  <2>5. CASE RunInferTx(d)
    BY <2>5, NoneAssumption, ActorsAssumption
       DEF RunInferTx, RunAt, RunTo, EndRun, StartInference, Scoped, ExecTypeOK,
           ExecInv, Actors, storeVars, hostVars, registryVars, boundVars, NoRun,
           NoCmd
  <2>6. CASE RunAnswer(d)
    BY <2>6, NoneAssumption, ActorsAssumption
       DEF RunAnswer, RunAt, RunTo, Scoped, ExecTypeOK, ExecInv, Actors, storeVars,
           hostVars, registryVars, boundVars, NoRun, NoCmd
  <2>7. CASE RunAbortWait(d)
    BY <2>7, NoneAssumption, ActorsAssumption
       DEF RunAbortWait, RunAt, EndRun, Scoped, ExecTypeOK, ExecInv, Actors,
           storeVars, hostVars, registryVars, boundVars, NoRun, NoCmd
  <2>8. CASE RunDecideAct(d)
    BY <2>8, NoneAssumption, ActorsAssumption
       DEF RunDecideAct, RunAt, RunTo, EndRun, Scoped, ExecTypeOK, ExecInv, Actors,
           storeVars, hostVars, registryVars, boundVars, NoRun, NoCmd
  <2>9. CASE RunDecideFinish(d)
    BY <2>9, NoneAssumption, ActorsAssumption
       DEF RunDecideFinish, RunAt, RunTo, Scoped, ExecTypeOK, ExecInv, Actors,
           storeVars, hostVars, registryVars, boundVars, NoRun, NoCmd
  <2>10. CASE RunActLock(d)
    BY <2>10, NoneAssumption, ActorsAssumption
       DEF RunActLock, RunAt, RunTo, EndRun, Stopped, Scoped, ExecTypeOK, ExecInv,
           Actors, storeVars, hostVars, registryVars, boundVars, NoRun, NoCmd
  <2>11. CASE RunActTx(d)
    BY <2>11, NoneAssumption, ActorsAssumption
       DEF RunActTx, RunAt, RunTo, EndRun, InsertAttempt, CanStart, PremiseCurrent,
           Scoped, ExecTypeOK, ExecInv, Actors, storeVars, hostVars, registryVars,
           boundVars, NoRun, NoCmd
  <2>12. CASE RunLaunch(d)
    BY <2>12, NoneAssumption, ActorsAssumption
       DEF RunLaunch, RunAt, RunTo, EndRun, Scoped, ExecTypeOK, ExecInv, Actors,
           storeVars, hostVars, registryVars, boundVars, NoRun, NoCmd
  <2>13. CASE RunEffectDone(d)
    BY <2>13, NoneAssumption, ActorsAssumption
       DEF RunEffectDone, RunAt, RunTo, Scoped, ExecTypeOK, ExecInv, Actors,
           storeVars, hostVars, registryVars, boundVars, NoRun, NoCmd
  <2>14. CASE RunEffectStop(d)
    BY <2>14, NoneAssumption, ActorsAssumption
       DEF RunEffectStop, RunAt, EndRun, Scoped, ExecTypeOK, ExecInv, Actors,
           storeVars, hostVars, registryVars, boundVars, NoRun, NoCmd
  <2>15. CASE RunSettle(d)
    BY <2>15, NoneAssumption, ActorsAssumption
       DEF RunSettle, RunAt, SetCertainty, Scoped, ExecTypeOK, ExecInv, Actors,
           storeVars, hostVars, registryVars, boundVars, NoRun, NoCmd
  <2>16. CASE RunUnresolved(d)
    BY <2>16, NoneAssumption, ActorsAssumption
       DEF RunUnresolved, RunAt, EndRun, Scoped, ExecTypeOK, ExecInv, Actors,
           storeVars, hostVars, registryVars, boundVars, NoRun, NoCmd
  <2>17. CASE RunRecord(d)
    BY <2>17, NoneAssumption, ActorsAssumption
       DEF RunRecord, RunAt, RunTo, RecordResult, Scoped, ExecTypeOK, ExecInv,
           Actors, storeVars, hostVars, registryVars, boundVars, NoRun, NoCmd
  <2>18. CASE RunAdopt(d)
    BY <2>18, NoneAssumption, ActorsAssumption
       DEF RunAdopt, RunAt, EndRun, AdoptDecides, AdoptFails, AdoptResult,
           AdoptAsCompletion, StampOnly, StampAttempts, Scoped, ExecTypeOK, ExecInv,
           Actors, storeVars, hostVars, registryVars, boundVars, NoRun, NoCmd
  <2>19. CASE RunQuit(d)
    BY <2>19, NoneAssumption, ActorsAssumption
       DEF RunQuit, EndRun, Scoped, ExecTypeOK, ExecInv, Actors, storeVars,
           hostVars, registryVars, boundVars, NoRun, NoCmd
  <2> QED
    BY <1>1, <2>1, <2>2, <2>3, <2>4, <2>5, <2>6, <2>7, <2>8, <2>9, <2>10, <2>11,
        <2>12, <2>13, <2>14, <2>15, <2>16, <2>17, <2>18, <2>19
       DEF RunStep, RunWork, RunLock, RunEffectKill
<1>2. ASSUME NEW c \in Actors, CmdWork(c) \/ CmdLock(c)
      PROVE  Scoped'
  <2>1. CASE CmdSteer(c)
    BY <2>1, NoneAssumption, ActorsAssumption
       DEF CmdSteer, CmdAt, CmdEnd, ForwardSteering, ExpectedCurrent, Scoped,
           ExecTypeOK, ExecInv, Actors, storeVars, hostVars, registryVars,
           boundVars, NoRun, NoCmd
  <2>2. CASE CmdDelegate(c)
    BY <2>2, NoneAssumption, ActorsAssumption
       DEF CmdDelegate, CmdAt, CmdEnd, CreateDelegation, ExpectedCurrent, Scoped,
           ExecTypeOK, ExecInv, Actors, storeVars, hostVars, registryVars,
           boundVars, NoRun, NoCmd
  <2>3. CASE CmdLaunch(c)
    BY <2>3, NoneAssumption, ActorsAssumption
       DEF CmdLaunch, CmdAt, CmdEnd, Release, RunTo, Scoped, ExecTypeOK, ExecInv,
           Actors, storeVars, hostVars, registryVars, boundVars, NoRun, NoCmd
  <2>4. CASE CmdSignal(c)
    BY <2>4, NoneAssumption, ActorsAssumption
       DEF CmdSignal, CmdAt, CmdEnd, Scoped, ExecTypeOK, ExecInv, Actors, storeVars,
           hostVars, registryVars, boundVars, NoRun, NoCmd
  <2>5. CASE CmdResumeLock(c)
    BY <2>5, NoneAssumption, ActorsAssumption
       DEF CmdResumeLock, CmdAt, CmdTo, Scoped, ExecTypeOK, ExecInv, Actors,
           storeVars, hostVars, registryVars, boundVars, NoRun, NoCmd
  <2>6. CASE CmdReadRunning(c)
    BY <2>6, NoneAssumption, ActorsAssumption
       DEF CmdReadRunning, CmdAt, CmdTo, Scoped, ExecTypeOK, ExecInv, Actors,
           storeVars, hostVars, registryVars, boundVars, NoRun, NoCmd
  <2>7. CASE CmdReadReserved(c)
    BY <2>7, NoneAssumption, ActorsAssumption
       DEF CmdReadReserved, CmdAt, Scoped, ExecTypeOK, ExecInv, Actors, storeVars,
           hostVars, registryVars, boundVars, NoRun, NoCmd
  <2>8. CASE CmdResumeCommit(c)
    BY <2>8, NoneAssumption, ActorsAssumption
       DEF CmdResumeCommit, CmdAt, CmdTo, CmdEnd, Release, CommitResume, Resumable,
           ExpectedCurrent, Scoped, ExecTypeOK, ExecInv, Actors, storeVars,
           hostVars, registryVars, boundVars, NoRun, NoCmd
  <2>9. CASE CmdList(c)
    BY <2>9, NoneAssumption, ActorsAssumption
       DEF CmdList, CmdAt, Unadopted, Scoped, ExecTypeOK, ExecInv, Actors,
           storeVars, hostVars, registryVars, boundVars, NoRun, NoCmd
  <2>10. CASE CmdLookup(c)
    BY <2>10, NoneAssumption, ActorsAssumption
       DEF CmdLookup, CmdAt, Scoped, ExecTypeOK, ExecInv, Actors, storeVars,
           hostVars, registryVars, boundVars, NoRun, NoCmd
  <2>11. CASE RouteLoad(c)
    BY <2>11, NoneAssumption, ActorsAssumption
       DEF RouteLoad, CmdAt, AttemptsOf, Scoped, ExecTypeOK, ExecInv, Actors,
           storeVars, hostVars, registryVars, boundVars, NoRun, NoCmd
  <2>12. CASE RouteAdopt(c)
    BY <2>12, NoneAssumption, ActorsAssumption
       DEF RouteAdopt, CmdAt, CmdTo, CmdEnd, Release, AdoptDecides, AdoptFails,
           AdoptResult, AdoptAsCompletion, StampOnly, StampAttempts, Scoped,
           ExecTypeOK, ExecInv, Actors, storeVars, hostVars, registryVars,
           boundVars, NoRun, NoCmd
  <2>13. CASE RouteEnd(c)
    BY <2>13, NoneAssumption, ActorsAssumption
       DEF RouteEnd, CmdAt, CmdEnd, Release, Scoped, ExecTypeOK, ExecInv, Actors,
           storeVars, hostVars, registryVars, boundVars, NoRun, NoCmd
  <2> QED
    BY <1>2, <2>1, <2>2, <2>3, <2>4, <2>5, <2>6, <2>7, <2>8, <2>9, <2>10, <2>11,
        <2>12, <2>13
       DEF CmdWork, CmdLock
<1>3. ASSUME NEW c \in Actors, CmdIssue(c)
      PROVE  Scoped'
  <2>1. ASSUME NEW t \in Tasks, CmdPropose(c, t)
        PROVE  Scoped'
    BY <2>1, NoneAssumption, ActorsAssumption
       DEF CmdPropose, Issue, CreateTask, Scoped, ExecTypeOK, ExecInv, Actors,
           storeVars, hostVars, registryVars, boundVars, NoRun, NoCmd
  <2>2. ASSUME NEW t \in Tasks, CmdRead(c, t)
        PROVE  Scoped'
    BY <2>2, NoneAssumption, ActorsAssumption
       DEF CmdRead, Issue, Scoped, ExecTypeOK, ExecInv, Actors, storeVars, hostVars,
           registryVars, boundVars, NoRun, NoCmd
  <2>3. ASSUME NEW t \in Tasks, CmdCancel(c, t)
        PROVE  Scoped'
    BY <2>3, NoneAssumption, ActorsAssumption
       DEF CmdCancel, Issue, CancelTask, Scoped, ExecTypeOK, ExecInv, Actors,
           storeVars, hostVars, registryVars, boundVars, NoRun, NoCmd
  <2>4. ASSUME NEW a \in Attempts, CmdSettle(c, a)
        PROVE  Scoped'
    BY <2>4, NoneAssumption, ActorsAssumption
       DEF CmdSettle, Issue, SetCertainty, Scoped, ExecTypeOK, ExecInv, Actors,
           storeVars, hostVars, registryVars, boundVars, NoRun, NoCmd
  <2> QED
    BY <1>3, <2>1, <2>2, <2>3, <2>4
       DEF CmdIssue
<1>4. ASSUME HostStep
      PROVE  Scoped'
  <2>1. CASE Start
    BY <2>1, NoneAssumption, ActorsAssumption
       DEF Start, Unadopted, Scoped, ExecTypeOK, ExecInv, Actors, storeVars,
           hostVars, registryVars, boundVars, NoRun, NoCmd
  <2>2. CASE ShutdownBegin
    BY <2>2, NoneAssumption, ActorsAssumption
       DEF ShutdownBegin, Scoped, ExecTypeOK, ExecInv, Actors, storeVars, hostVars,
           registryVars, boundVars, NoRun, NoCmd
  <2>3. CASE ShutdownAbort
    BY <2>3, NoneAssumption, ActorsAssumption
       DEF ShutdownAbort, Scoped, ExecTypeOK, ExecInv, Actors, storeVars, hostVars,
           registryVars, boundVars, NoRun, NoCmd
  <2>4. CASE ShutdownKill
    BY <2>4, NoneAssumption, ActorsAssumption
       DEF ShutdownKill, InEffect, Scoped, ExecTypeOK, ExecInv, Actors, storeVars,
           hostVars, registryVars, boundVars, NoRun, NoCmd
  <2>5. CASE ShutdownExit
    BY <2>5, NoneAssumption, ActorsAssumption
       DEF ShutdownExit, LoseMemory, Scoped, ExecTypeOK, ExecInv, Actors, storeVars,
           hostVars, registryVars, boundVars, NoRun, NoCmd
  <2>6. CASE Crash
    BY <2>6, NoneAssumption, ActorsAssumption
       DEF Crash, LoseMemory, Scoped, ExecTypeOK, ExecInv, Actors, storeVars,
           hostVars, registryVars, boundVars, NoRun, NoCmd
  <2>7. CASE OrphanEnds
    BY <2>7, NoneAssumption, ActorsAssumption
       DEF OrphanEnds, InEffect, Scoped, ExecTypeOK, ExecInv, Actors, storeVars,
           hostVars, registryVars, boundVars, NoRun, NoCmd
  <2> QED
    BY <1>4, <2>1, <2>2, <2>3, <2>4, <2>5, <2>6, <2>7
       DEF HostStep
<1>5. CASE UNCHANGED vars
  BY <1>5, NoneAssumption, ActorsAssumption
     DEF vars, storeVars, execVars, hostVars, registryVars, boundVars, Scoped,
         ExecTypeOK, ExecInv, Actors, NoRun, NoCmd
<1> QED
  BY <1>1, <1>2, <1>3, <1>4, <1>5
     DEF ExecNext

(* An attempt whose worker lives stays unsettled, whoever settles           *)
(* meanwhile.                                                               *)
LEMMA DoubtKept ==
    ASSUME ExecInv, [ExecNext]_vars PROVE Doubtful'
<1>1. ASSUME NEW d \in Delegations, RunStep(d)
      PROVE  Doubtful'
  <2>1. OthersAlone(d)
    BY <1>1, RunFrame

  <2>2. ASSUME UNCHANGED <<live, certainty>>, run'[d].pc \notin InHand
        PROVE  Doubtful'
    BY <2>1, <2>2, NoneAssumption
       DEF OthersAlone, Doubtful, InHand, ExecInv, ExecTypeOK
  <2>3. CASE RunTake(d)
    BY <2>3, <2>2
       DEF RunTake, RunAt, RunTo, EndRun, InHand, ExecTypeOK, ExecInv, storeVars,
           hostVars, registryVars, boundVars, NoRun, NoCmd
  <2>4. CASE RunBegin(d)
    BY <2>4, <2>2
       DEF RunBegin, RunAt, RunTo, EndRun, InHand, ExecTypeOK, ExecInv, storeVars,
           hostVars, registryVars, boundVars, NoRun, NoCmd
  <2>5. CASE RunTurn(d)
    BY <2>5, <2>2
       DEF RunTurn, RunAt, EndRun, InHand, ExecTypeOK, ExecInv, storeVars, hostVars,
           registryVars, boundVars, NoRun, NoCmd
  <2>6. CASE RunInferLock(d)
    BY <2>6, <2>2
       DEF RunInferLock, RunAt, RunTo, EndRun, Stopped, InHand, ExecTypeOK, ExecInv,
           storeVars, hostVars, registryVars, boundVars, NoRun, NoCmd
  <2>7. CASE RunInferTx(d)
    BY <2>7, <2>2
       DEF RunInferTx, RunAt, RunTo, EndRun, StartInference, InHand, ExecTypeOK,
           ExecInv, storeVars, hostVars, registryVars, boundVars, NoRun, NoCmd
  <2>8. CASE RunAnswer(d)
    BY <2>8, <2>2
       DEF RunAnswer, RunAt, RunTo, InHand, ExecTypeOK, ExecInv, storeVars,
           hostVars, registryVars, boundVars, NoRun, NoCmd
  <2>9. CASE RunAbortWait(d)
    BY <2>9, <2>2
       DEF RunAbortWait, RunAt, EndRun, InHand, ExecTypeOK, ExecInv, storeVars,
           hostVars, registryVars, boundVars, NoRun, NoCmd
  <2>10. CASE RunDecideAct(d)
    BY <2>10, <2>2
       DEF RunDecideAct, RunAt, RunTo, EndRun, InHand, ExecTypeOK, ExecInv,
           storeVars, hostVars, registryVars, boundVars, NoRun, NoCmd
  <2>11. CASE RunDecideFinish(d)
    BY <2>11, <2>2
       DEF RunDecideFinish, RunAt, RunTo, InHand, ExecTypeOK, ExecInv, storeVars,
           hostVars, registryVars, boundVars, NoRun, NoCmd
  <2>12. CASE RunActLock(d)
    BY <2>12, <2>2
       DEF RunActLock, RunAt, RunTo, EndRun, Stopped, InHand, ExecTypeOK, ExecInv,
           storeVars, hostVars, registryVars, boundVars, NoRun, NoCmd
  <2>13. CASE RunActTx(d)
    <3>1. ASSUME NEW a \in Attempts, InsertAttempt(a, d),
                 run' = [run EXCEPT ![d].pc = "launch", ![d].att = a]
          PROVE  Doubtful'
      <4>1. /\ run'[d].pc = "launch" /\ run'[d].att = a /\ certainty'[a] = "unknown"
            /\ \A b \in Attempts : b # a => certainty'[b] = certainty[b]
            /\ attemptOf[a] = None
        BY <3>1 DEF InsertAttempt, ExecInv, ExecTypeOK, StoreTypeOK
      <4>2. UNCHANGED live
        BY <2>13 DEF RunActTx
      <4>3. \A e \in Delegations : run[e].pc \in InHand =>
              run[e].att \in Attempts /\ run[e].att # a
        BY <4>1, NoneAssumption DEF RunShape, ExecInv
      <4> QED
        BY <2>1, <4>1, <4>2, <4>3, NoneAssumption
           DEF OthersAlone, Doubtful, InHand, ExecInv
    <3>2. CASE RunTo(d, "turn") /\ UNCHANGED storeVars
      BY <2>2, <2>13, <3>2
         DEF RunActTx, RunTo, InHand, storeVars, ExecInv, ExecTypeOK
    <3>3. CASE EndRun(d) /\ UNCHANGED storeVars
      BY <2>2, <2>13, <3>3
         DEF RunActTx, EndRun, NoRun, InHand, storeVars, ExecInv, ExecTypeOK
    <3> QED
      BY <2>13, <3>1, <3>2, <3>3 DEF RunActTx
  <2>14. CASE RunLaunch(d)
    <3>1. UNCHANGED certainty /\ run[d].att \in Attempts /\ attemptOf[run[d].att] = d
      BY <2>14
         DEF RunLaunch, RunAt, RunShape, InHand, storeVars, ExecInv, ExecTypeOK
    <3>2. CASE EndRun(d) /\ UNCHANGED live
      BY <2>2, <3>1, <3>2 DEF EndRun, NoRun, InHand, ExecInv, ExecTypeOK
    <3>3. CASE RunTo(d, "effect") /\ live' = live \cup {run[d].att}
      <4>1. run'[d].pc = "effect" /\ run'[d].att = run[d].att
        BY <3>3 DEF RunTo, ExecInv, ExecTypeOK
      <4>2. run[d].pc = "launch"
        BY <2>14 DEF RunLaunch, RunAt
      <4>3. \A e \in Delegations \ {d} : run[e].pc = "settle" =>
              run[e].att # run[d].att
        BY <3>1 DEF RunShape, InHand, ExecInv
      <4> QED
        BY <2>1, <3>1, <3>3, <4>1, <4>2, <4>3, NoneAssumption
           DEF OthersAlone, Doubtful, ExecInv, ExecTypeOK
    <3> QED
      BY <2>14, <3>2, <3>3 DEF RunLaunch
  <2>15. CASE RunEffectDone(d)
    <3>1. UNCHANGED certainty /\ run[d].att \in Attempts /\ attemptOf[run[d].att] = d
      BY <2>15
         DEF RunEffectDone, RunAt, RunShape, InHand, storeVars, ExecInv, ExecTypeOK
    <3> QED
      BY <2>15, <2>1, <3>1
         DEF RunEffectDone, RunAt, RunTo, OthersAlone, Doubtful, ExecTypeOK,
             StoreTypeOK, ExecInv, storeVars, hostVars, registryVars, boundVars,
             NoRun, NoCmd
  <2>16. CASE RunEffectStop(d)
    <3>1. UNCHANGED certainty /\ run[d].att \in Attempts /\ attemptOf[run[d].att] = d
      BY <2>16
         DEF RunEffectStop, RunAt, RunShape, InHand, storeVars, ExecInv, ExecTypeOK
    <3> QED
      BY <2>16, <2>1, <3>1
         DEF RunEffectStop, RunAt, EndRun, OthersAlone, Doubtful, ExecTypeOK,
             StoreTypeOK, ExecInv, storeVars, hostVars, registryVars, boundVars,
             NoRun, NoCmd
  <2>17. CASE RunSettle(d)
    BY <2>17, <2>1, NoneAssumption
       DEF RunSettle, RunAt, SetCertainty, OthersAlone, RunShape, InHand, Doubtful,
           ExecTypeOK, StoreTypeOK, ExecInv, storeVars, hostVars, registryVars,
           boundVars, NoRun, NoCmd
  <2>18. CASE RunUnresolved(d)
    BY <2>18, <2>2
       DEF RunUnresolved, RunAt, EndRun, InHand, ExecTypeOK, ExecInv, storeVars,
           hostVars, registryVars, boundVars, NoRun, NoCmd
  <2>19. CASE RunRecord(d)
    BY <2>19, <2>2
       DEF RunRecord, RunAt, RunTo, RecordResult, InHand, ExecTypeOK, ExecInv,
           storeVars, hostVars, registryVars, boundVars, NoRun, NoCmd
  <2>20. CASE RunAdopt(d)
    BY <2>20, <2>2
       DEF RunAdopt, RunAt, EndRun, AdoptDecides, AdoptFails, AdoptResult,
           AdoptAsCompletion, StampOnly, StampAttempts, InHand, ExecTypeOK, ExecInv,
           storeVars, hostVars, registryVars, boundVars, NoRun, NoCmd
  <2>21. CASE RunQuit(d)
    BY <2>21, <2>2
       DEF RunQuit, EndRun, InHand, ExecTypeOK, ExecInv, storeVars, hostVars,
           registryVars, boundVars, NoRun, NoCmd
  <2> QED
    BY <1>1, <2>3, <2>4, <2>5, <2>6, <2>7, <2>8, <2>9, <2>10, <2>11, <2>12, <2>13,
        <2>14, <2>15, <2>16, <2>17, <2>18, <2>19, <2>20, <2>21
       DEF RunStep, RunWork, RunLock, RunEffectKill
<1>2. ASSUME NEW c \in Actors, CmdWork(c) \/ CmdLock(c) \/ CmdIssue(c)
      PROVE  Doubtful'
  <2>1. WorkAlone(c)
    BY <1>2, CmdFrame
  <2>2. \A d \in Delegations : run[d].pc \in InHand => run[d].att \in Attempts
    BY DEF RunShape, ExecInv
  <2> QED
    BY <2>1, <2>2 DEF WorkAlone, Doubtful, InHand, ExecInv, ExecTypeOK
<1>3. ASSUME HostStep PROVE Doubtful'
  <2>1. CASE Start
    BY <2>1
       DEF Start, Unadopted, Doubtful, ExecTypeOK, StoreTypeOK, ExecInv, storeVars,
           hostVars, registryVars, boundVars, NoRun, NoCmd
  <2>2. CASE ShutdownBegin
    BY <2>2
       DEF ShutdownBegin, Doubtful, ExecTypeOK, StoreTypeOK, ExecInv, storeVars,
           hostVars, registryVars, boundVars, NoRun, NoCmd
  <2>3. CASE ShutdownAbort
    BY <2>3
       DEF ShutdownAbort, Doubtful, ExecTypeOK, StoreTypeOK, ExecInv, storeVars,
           hostVars, registryVars, boundVars, NoRun, NoCmd
  <2>4. CASE ShutdownKill
    BY <2>4
       DEF ShutdownKill, InEffect, Doubtful, ExecTypeOK, StoreTypeOK, ExecInv,
           storeVars, hostVars, registryVars, boundVars, NoRun, NoCmd
  <2>5. CASE ShutdownExit
    BY <2>5
       DEF ShutdownExit, LoseMemory, Doubtful, ExecTypeOK, StoreTypeOK, ExecInv,
           storeVars, hostVars, registryVars, boundVars, NoRun, NoCmd
  <2>6. CASE Crash
    BY <2>6
       DEF Crash, LoseMemory, Doubtful, ExecTypeOK, StoreTypeOK, ExecInv, storeVars,
           hostVars, registryVars, boundVars, NoRun, NoCmd
  <2>7. CASE OrphanEnds
    BY <2>7
       DEF OrphanEnds, InEffect, Doubtful, ExecTypeOK, StoreTypeOK, ExecInv,
           storeVars, hostVars, registryVars, boundVars, NoRun, NoCmd
  <2> QED
    BY <1>3, <2>1, <2>2, <2>3, <2>4, <2>5, <2>6, <2>7
       DEF HostStep
<1>4. CASE UNCHANGED vars
  BY <1>4
     DEF vars, execVars, Doubtful, ExecTypeOK, StoreTypeOK, ExecInv, storeVars,
         hostVars, registryVars, boundVars, NoRun, NoCmd
<1> QED
  BY <1>1, <1>2, <1>3, <1>4 DEF ExecNext

(* A command in front of its delegation stays the only one of its revision. *)
LEMMA OnceKept ==
    ASSUME ExecInv, [ExecNext]_vars PROVE HandedOnce'
<1>1. ASSUME NEW d \in Delegations, RunStep(d)
      PROVE  HandedOnce'
  <2>1. OthersAlone(d)
    BY <1>1, RunFrame
  <2> QED
    BY <2>1 DEF OthersAlone, HandedOnce, OneDelegationPerRevision, ExecInv
<1>2. ASSUME NEW c \in Actors, CmdWork(c) \/ CmdLock(c) \/ CmdIssue(c)
      PROVE  HandedOnce'
  <2>1. WorkAlone(c)
    BY <1>2, CmdFrame
  <2>2. ASSUME UNCHANGED <<delegTask, delegRev>>, cmd'[c].pc # "delegate"
        PROVE  HandedOnce'
    BY <2>1, <2>2 DEF WorkAlone, HandedOnce, OneDelegationPerRevision, ExecInv
  <2>3. \A x \in Actors : cmd[x].pc = "delegate" =>
          cmd[x].task \in Tasks /\ cmd[x].rev \in 1..revision[cmd[x].task]
    BY DEF CmdShape, ExecInv
  <2>4. \A d \in Delegations : delegTask[d] # None =>
          /\ delegRev[d] \in 1..revision[delegTask[d]]
          /\ progress[delegTask[d]] # "absent"
    BY DEF AdoptionInv, RowsBound, ExecInv
  <2>5. ASSUME NEW t \in Tasks, CmdPropose(c, t) PROVE HandedOnce'
    <3>1. /\ cmd'[c].pc = "delegate" /\ cmd'[c].task = t /\ cmd'[c].rev = 1
          /\ UNCHANGED <<delegTask, delegRev>>
          /\ progress[t] = "absent" /\ revision[t] = 0
      BY <2>5 DEF CmdPropose, CreateTask, NoCmd, Begun, ExecInv, ExecTypeOK
    <3> QED
      BY <2>1, <2>3, <2>4, <3>1, NoneAssumption
         DEF WorkAlone, HandedOnce, OneDelegationPerRevision, ExecInv
  <2>6. CASE CmdSteer(c)
    <3>1. CASE CmdEnd(c) /\ UNCHANGED storeVars
      BY <2>2, <3>1 DEF CmdEnd, NoCmd, storeVars, ExecInv, ExecTypeOK
    <3>2. ASSUME ForwardSteering(cmd[c].task, cmd[c].rev),
                 cmd' = [cmd EXCEPT ![c].pc = "delegate", ![c].rev = @ + 1]
          PROVE  HandedOnce'
      <4>1. /\ cmd'[c].pc = "delegate" /\ cmd'[c].task = cmd[c].task
            /\ cmd'[c].rev = cmd[c].rev + 1 /\ cmd[c].rev = revision[cmd[c].task]
            /\ UNCHANGED <<delegTask, delegRev>>
        BY <3>2 DEF ForwardSteering, ExpectedCurrent, ExecInv, ExecTypeOK
      <4>2. /\ \A t \in Tasks : revision[t] \in Nat
            /\ \A d \in Delegations : delegTask[d] = cmd[c].task => cmd[c].task \in Tasks
        BY <2>6, RevisionAssumption
           DEF CmdSteer, CmdAt, CmdShape, ExecInv, ExecTypeOK, StoreTypeOK
      <4>3. \A d \in Delegations : delegTask[d] # cmd[c].task \/ delegRev[d] # cmd[c].rev + 1
        BY <2>4, <2>6, <4>1, <4>2, NoneAssumption
           DEF CmdSteer, CmdAt, CmdShape, ExecInv
      <4>4. \A x \in Actors : cmd[x].pc = "delegate" /\ cmd[x].task = cmd[c].task =>
              cmd[x].rev # cmd[c].rev + 1
        BY <2>3, <4>1, <4>2
      <4> QED
        BY <2>1, <4>1, <4>3, <4>4
           DEF WorkAlone, HandedOnce, OneDelegationPerRevision, ExecInv
    <3> QED
      BY <2>6, <3>1, <3>2 DEF CmdSteer
  <2>7. CASE CmdDelegate(c)
    <3>1. CASE CmdEnd(c) /\ UNCHANGED storeVars
      BY <2>2, <3>1 DEF CmdEnd, NoCmd, storeVars, ExecInv, ExecTypeOK
    <3>2. ASSUME NEW d \in Delegations,
                 CreateDelegation(d, cmd[c].task, cmd[c].rev),
                 cmd' = [cmd EXCEPT ![c].pc = "launch", ![c].deleg = d]
          PROVE  HandedOnce'
      <4>1. /\ cmd'[c].pc = "launch" /\ delegTask[d] = None
            /\ delegTask'[d] = cmd[c].task /\ delegRev'[d] = cmd[c].rev
            /\ \A e \in Delegations : e # d =>
                 delegTask'[e] = delegTask[e] /\ delegRev'[e] = delegRev[e]
        BY <3>2 DEF CreateDelegation, ExecInv, ExecTypeOK, StoreTypeOK
      <4>2. cmd[c].pc = "delegate"
        BY <2>7 DEF CmdDelegate, CmdAt
      <4> QED
        BY <2>1, <4>1, <4>2
           DEF WorkAlone, HandedOnce, OneDelegationPerRevision, ExecInv
    <3> QED
      BY <2>7, <3>1, <3>2 DEF CmdDelegate
  <2>8. CASE CmdResumeCommit(c)
    <3>1. CASE UNCHANGED storeVars /\ (CmdEnd(c) \/ CmdTo(c, "list"))
      BY <2>2, <3>1 DEF CmdEnd, CmdTo, NoCmd, storeVars, ExecInv, ExecTypeOK
    <3>2. ASSUME NEW d \in Delegations,
                 CommitResume(cmd[c].task, cmd[c].rev, d, cmd[c].free),
                 cmd' = [cmd EXCEPT ![c].pc = "launch", ![c].deleg = d]
          PROVE  HandedOnce'
      <4>1. /\ cmd'[c].pc = "launch" /\ delegTask[d] = None
            /\ delegTask'[d] = cmd[c].task /\ delegRev'[d] = revision[cmd[c].task] + 1
            /\ \A e \in Delegations : e # d =>
                 delegTask'[e] = delegTask[e] /\ delegRev'[e] = delegRev[e]
        BY <3>2 DEF CommitResume, ExecInv, ExecTypeOK, StoreTypeOK
      <4>2. cmd[c].task \in Tasks /\ \A t \in Tasks : revision[t] \in Nat
        BY <2>8, RevisionAssumption
           DEF CmdResumeCommit, CmdAt, CmdShape, ExecInv, ExecTypeOK, StoreTypeOK
      <4>3. \A e \in Delegations :
              delegTask[e] = cmd[c].task => delegRev[e] # revision[cmd[c].task] + 1
        BY <2>4, <4>2, NoneAssumption
      <4>4. \A x \in Actors : cmd[x].pc = "delegate" /\ cmd[x].task = cmd[c].task =>
              cmd[x].rev # revision[cmd[c].task] + 1
        BY <2>3, <4>2
      <4> QED
        BY <2>1, <4>1, <4>2, <4>3, <4>4
           DEF WorkAlone, HandedOnce, OneDelegationPerRevision, ExecInv
    <3> QED
      BY <2>8, <3>1, <3>2 DEF CmdResumeCommit
  <2>9. CASE CmdLaunch(c)
    BY <2>9, <2>2
       DEF CmdLaunch, CmdAt, CmdEnd, Release, RunTo, ExecTypeOK, StoreTypeOK,
           ExecInv, storeVars, hostVars, registryVars, boundVars, NoRun, NoCmd
  <2>10. CASE CmdSignal(c)
    BY <2>10, <2>2
       DEF CmdSignal, CmdAt, CmdEnd, ExecTypeOK, StoreTypeOK, ExecInv, storeVars,
           hostVars, registryVars, boundVars, NoRun, NoCmd
  <2>11. CASE CmdResumeLock(c)
    BY <2>11, <2>2
       DEF CmdResumeLock, CmdAt, CmdTo, ExecTypeOK, StoreTypeOK, ExecInv, storeVars,
           hostVars, registryVars, boundVars, NoRun, NoCmd
  <2>12. CASE CmdReadRunning(c)
    BY <2>12, <2>2
       DEF CmdReadRunning, CmdAt, CmdTo, ExecTypeOK, StoreTypeOK, ExecInv,
           storeVars, hostVars, registryVars, boundVars, NoRun, NoCmd
  <2>13. CASE CmdReadReserved(c)
    BY <2>13, <2>2
       DEF CmdReadReserved, CmdAt, ExecTypeOK, StoreTypeOK, ExecInv, storeVars,
           hostVars, registryVars, boundVars, NoRun, NoCmd
  <2>14. CASE CmdList(c)
    BY <2>14, <2>2
       DEF CmdList, CmdAt, Unadopted, ExecTypeOK, StoreTypeOK, ExecInv, storeVars,
           hostVars, registryVars, boundVars, NoRun, NoCmd
  <2>15. CASE CmdLookup(c)
    BY <2>15, <2>2
       DEF CmdLookup, CmdAt, ExecTypeOK, StoreTypeOK, ExecInv, storeVars, hostVars,
           registryVars, boundVars, NoRun, NoCmd
  <2>16. CASE RouteLoad(c)
    BY <2>16, <2>2
       DEF RouteLoad, CmdAt, AttemptsOf, ExecTypeOK, StoreTypeOK, ExecInv,
           storeVars, hostVars, registryVars, boundVars, NoRun, NoCmd
  <2>17. CASE RouteAdopt(c)
    BY <2>17, <2>2
       DEF RouteAdopt, CmdAt, CmdTo, CmdEnd, Release, AdoptDecides, AdoptFails,
           AdoptResult, AdoptAsCompletion, StampOnly, StampAttempts, ExecTypeOK,
           StoreTypeOK, ExecInv, storeVars, hostVars, registryVars, boundVars,
           NoRun, NoCmd
  <2>18. CASE RouteEnd(c)
    BY <2>18, <2>2
       DEF RouteEnd, CmdAt, CmdEnd, Release, ExecTypeOK, StoreTypeOK, ExecInv,
           storeVars, hostVars, registryVars, boundVars, NoRun, NoCmd
  <2>19. ASSUME NEW t \in Tasks, CmdRead(c, t) PROVE HandedOnce'
    <3>1. UNCHANGED <<delegTask, delegRev>>
      BY <2>19 DEF CmdRead, storeVars
    <3>2. CASE cmd' = [cmd EXCEPT ![c] = [NoCmd EXCEPT !.pc = "steer", !.task = t,
                                                     !.rev = revision[t]]]
      BY <2>2, <3>1, <3>2 DEF NoCmd, ExecInv, ExecTypeOK
    <3>3. CASE cmd' = [cmd EXCEPT ![c] = [NoCmd EXCEPT !.pc = "lock", !.task = t,
                                                     !.rev = revision[t]]]
      BY <2>2, <3>1, <3>3 DEF NoCmd, ExecInv, ExecTypeOK
    <3> QED
      BY <2>19, <3>2, <3>3 DEF CmdRead
  <2>20. ASSUME NEW t \in Tasks, CmdCancel(c, t) PROVE HandedOnce'
    BY <2>20, <2>2
       DEF CmdCancel, Issue, CancelTask, ExecTypeOK, StoreTypeOK, ExecInv,
           storeVars, hostVars, registryVars, boundVars, NoRun, NoCmd
  <2>21. ASSUME NEW a \in Attempts, CmdSettle(c, a) PROVE HandedOnce'
    BY <2>21, <2>2
       DEF CmdSettle, Issue, SetCertainty, ExecTypeOK, StoreTypeOK, ExecInv,
           storeVars, hostVars, registryVars, boundVars, NoRun, NoCmd
  <2> QED
    BY <1>2, <2>5, <2>6, <2>7, <2>8, <2>9, <2>10, <2>11, <2>12, <2>13, <2>14, <2>15,
        <2>16, <2>17, <2>18, <2>19, <2>20, <2>21
       DEF CmdWork, CmdLock, CmdIssue
<1>3. ASSUME HostStep PROVE HandedOnce'
  <2>1. CASE Start
    BY <2>1
       DEF Start, Unadopted, HandedOnce, OneDelegationPerRevision, Actors,
           ExecTypeOK, StoreTypeOK, ExecInv, storeVars, hostVars, registryVars,
           boundVars, NoRun, NoCmd
  <2>2. CASE ShutdownBegin
    BY <2>2
       DEF ShutdownBegin, HandedOnce, OneDelegationPerRevision, Actors, ExecTypeOK,
           StoreTypeOK, ExecInv, storeVars, hostVars, registryVars, boundVars,
           NoRun, NoCmd
  <2>3. CASE ShutdownAbort
    BY <2>3
       DEF ShutdownAbort, HandedOnce, OneDelegationPerRevision, Actors, ExecTypeOK,
           StoreTypeOK, ExecInv, storeVars, hostVars, registryVars, boundVars,
           NoRun, NoCmd
  <2>4. CASE ShutdownKill
    BY <2>4
       DEF ShutdownKill, InEffect, HandedOnce, OneDelegationPerRevision, Actors,
           ExecTypeOK, StoreTypeOK, ExecInv, storeVars, hostVars, registryVars,
           boundVars, NoRun, NoCmd
  <2>5. CASE ShutdownExit
    BY <2>5
       DEF ShutdownExit, LoseMemory, HandedOnce, OneDelegationPerRevision, Actors,
           ExecTypeOK, StoreTypeOK, ExecInv, storeVars, hostVars, registryVars,
           boundVars, NoRun, NoCmd
  <2>6. CASE Crash
    BY <2>6
       DEF Crash, LoseMemory, HandedOnce, OneDelegationPerRevision, Actors,
           ExecTypeOK, StoreTypeOK, ExecInv, storeVars, hostVars, registryVars,
           boundVars, NoRun, NoCmd
  <2>7. CASE OrphanEnds
    BY <2>7
       DEF OrphanEnds, InEffect, HandedOnce, OneDelegationPerRevision, Actors,
           ExecTypeOK, StoreTypeOK, ExecInv, storeVars, hostVars, registryVars,
           boundVars, NoRun, NoCmd
  <2> QED
    BY <1>3, <2>1, <2>2, <2>3, <2>4, <2>5, <2>6, <2>7
       DEF HostStep
<1>4. CASE UNCHANGED vars
  BY <1>4
     DEF vars, execVars, HandedOnce, OneDelegationPerRevision, ExecTypeOK,
         StoreTypeOK, ExecInv, storeVars, hostVars, registryVars, boundVars, NoRun,
         NoCmd
<1> QED
  BY <1>1, <1>2, <1>3, <1>4 DEF ExecNext

-----------------------------------------------------------------------------
(* Every part is kept, so the whole is.                                     *)
LEMMA ExecInductive ==
    ASSUME ExecInv, [ExecNext]_vars PROVE ExecInv'
<1>1. AdoptionInv'
  BY StoreStep, AdoptionInductive DEF ExecInv
<1> QED
  BY <1>1, ExecTyping, BegunKept, CmdsKept, RunsKept, RegistryKept, ScopedKept, DoubtKept,
     OnceKept
     DEF ExecInv

(* An empty store under a host that is down.                                *)
LEMMA ExecStart == ExecInit => ExecInv
<1> SUFFICES ASSUME ExecInit PROVE ExecInv
  OBVIOUS
<1>1. ExecTypeOK
  <2>1. StoreTypeOK
    BY RevisionAssumption DEF ExecInit, StoreInit, StoreTypeOK, Certainties
  <2>2. NoCmd \in CmdRow
    BY RevisionAssumption DEF CmdRow, NoCmd, CmdPcs
  <2>3. NoRun \in RunRow
    BY BoundsAssumption DEF RunRow, NoRun, RunPcs
  <2>4. cmd \in [Actors -> CmdRow]
    BY <2>2 DEF ExecInit
  <2>5. run \in [Delegations -> RunRow]
    BY <2>3 DEF ExecInit
  <2>6. /\ host \in {"down", "starting", "serving", "closing"}
        /\ aborted \in BOOLEAN
        /\ scope \in {None} \cup Actors \cup Delegations
        /\ reserved \in SUBSET Delegations
        /\ running \in SUBSET Delegations
        /\ cancelled \in SUBSET Delegations
        /\ live \in SUBSET Attempts
        /\ declared \in SUBSET Attempts
    BY DEF ExecInit
  <2>7. issued \in 0..MaxCommands /\ restarts \in 0..MaxRestarts
    <3>1. MaxCommands \in Nat /\ MaxRestarts \in Nat
      BY BoundsAssumption
    <3> QED
      BY <3>1 DEF ExecInit
  <2> QED
    BY <2>1, <2>4, <2>5, <2>6, <2>7 DEF ExecTypeOK, CmdRow, RunRow
<1>2. AdoptionInv
  BY NoneAssumption, RevisionAssumption
     DEF ExecInit, StoreInit, AdoptionInv, RowsBound, StoreTypeOK, Certainties
<1>3. (\A c \in Actors : CmdShape(c)) /\ (\A d \in Delegations : RunShape(d))
  BY NoneAssumption
     DEF ExecInit, StoreInit, CmdShape, RunShape, InHand, NoRun, NoCmd
<1>4. Begun /\ Registered /\ Scoped /\ Doubtful
  BY
     DEF ExecInit, StoreInit, Begun, Registered, ActiveRun, Scoped, Doubtful,
         NoRun, NoCmd
<1>5. HandedOnce
  BY DEF ExecInit, StoreInit, HandedOnce, OneDelegationPerRevision, NoCmd
<1> QED
  BY <1>1, <1>2, <1>3, <1>4, <1>5 DEF ExecInv

(* The invariant holds of every behaviour.                                  *)
LEMMA ExecInvHolds == ExecSpec => []ExecInv
BY ExecStart, ExecInductive, PTL DEF ExecSpec

(* What is proved of the tables for any caller holds of the running host:   *)
(* every step of a run, a command, the startup, a shutdown or a crash is    *)
(* one transaction of the tables or leaves them alone.                      *)
THEOREM ExecutionUsesTables == ExecSpec => StoreSpec
<1>1. ExecInit => StoreInit
  BY DEF ExecInit
<1> QED
  BY <1>1, StoreStep, ExecInvHolds, PTL DEF ExecSpec, StoreSpec

(* Claims handed to an adoption are complete, the registry lists the active *)
(* runs, and every reservation has somebody who takes or releases it.       *)
THEOREM ClaimsAndRegistry == ExecSpec => []ExecInvariant
<1>1. ExecInv => ExecInvariant
  <2> SUFFICES ASSUME ExecInv PROVE ExecInvariant
    OBVIOUS
  <2>1. ClaimsExact
    <3>1. ASSUME NEW d \in Delegations,
                 run[d].pc = "adopt" PROVE run[d].refs = AttemptsOf(d)
      <4>1. run[d].refs \subseteq Attempts
        BY DEF ExecInv, ExecTypeOK
      <4> QED
        BY <3>1, <4>1 DEF ExecInv, RunShape, InHand, AttemptsOf
    <3>2. ASSUME NEW c \in Actors, cmd[c].pc = "adopt"
          PROVE  cmd[c].claim = AttemptsOf(cmd[c].deleg)
      <4>1. cmd[c].claim \subseteq Attempts
        BY <3>2 DEF ExecInv, ExecTypeOK
      <4> QED
        BY <3>2, <4>1 DEF ExecInv, CmdShape, AttemptsOf
    <3> QED
      BY <3>1, <3>2 DEF ClaimsExact
  <2>2. NoLeakedReservation
    BY DEF ExecInv, ExecTypeOK, Registered, NoLeakedReservation
  <2> QED
    BY <2>1, <2>2 DEF ExecInv, ExecInvariant
<1> QED
  BY <1>1, ExecInvHolds, PTL

(* While a worker may still act, its attempt is in doubt, whatever stops,   *)
(* crashes and orphaned workers came before, so its task is not completed.  *)
THEOREM DoubtWhileAlive == ExecSpec => []EffectsAccounted
<1>1. ExecInv => EffectsAccounted
  <2> SUFFICES ASSUME ExecInv, NEW a \in live, a \notin declared
               PROVE  /\ certainty[a] = "unknown"
                      /\ progress[delegTask[attemptOf[a]]] # "completed"
    BY DEF EffectsAccounted, ExecInv, Doubtful
  <2>1. a \in Attempts /\ attemptOf[a] # None /\ certainty[a] = "unknown"
    BY DEF ExecInv, Doubtful
  <2>2. attemptOf[a] \in Delegations /\ delegTask[attemptOf[a]] # None
    BY <2>1 DEF ExecInv, AdoptionInv, RowsBound, StoreTypeOK
  <2>3. delegTask[attemptOf[a]] \in Tasks
    BY <2>2 DEF ExecInv, AdoptionInv, StoreTypeOK
  <2>4. ASSUME progress[delegTask[attemptOf[a]]] = "completed" PROVE FALSE
    <3>1. PICK e \in Delegations : delegTask[e] = delegTask[attemptOf[a]] /\ adoptedRev[e] # 0
      BY <2>3, <2>4 DEF ExecInv, AdoptionInv
    <3>2. NoneUnknown(delegTask[e])
      BY <3>1 DEF ExecInv, AdoptionInv, AdoptedRow
    <3> QED
      BY <2>1, <2>2, <3>1, <3>2 DEF NoneUnknown, TaskAttempts, DelegsOf
  <2> QED
    BY <2>1, <2>4
<1> QED
  BY <1>1, ExecInvHolds, PTL

(* No revision of a task is handed to two executions.                       *)
THEOREM RevisionHandedOnce == ExecSpec => []OneDelegationPerRevision
<1>1. ExecInv => OneDelegationPerRevision
  BY DEF ExecInv, HandedOnce
<1> QED
  BY <1>1, ExecInvHolds, PTL

(* A resume starts a task again only when no worker of an earlier execution *)
(* can still act.                                                           *)
LEMMA ResumesAreQuiet ==
    ASSUME ExecInv, [ExecNext]_vars PROVE ResumeQuiet
<1> SUFFICES ASSUME NEW t \in Tasks, ResumesTask(t), NEW a \in TaskAttempts(t), a \in live
             PROVE  a \in declared
  BY DEF ResumeQuiet
<1>1. [StoreNext]_storeVars
  BY StoreStep
<1>2. NoneUnknown(t)
  <2>1. PICK e \in Delegations : delegTask[e] = None /\ delegTask'[e] = t
    BY DEF ResumesTask
  <2>2. revision'[t] # revision[t] /\ delegTask'[e] # delegTask[e]
    BY <2>1, NoneAssumption DEF ResumesTask
  <2>3. PICK u \in Tasks : TaskStep(u)
    <3>1. ASSUME NEW d \in Delegations, WorkStep(d) PROVE UNCHANGED revision
      BY <3>1
         DEF WorkStep, StartInference, RecordResult, InsertAttempt, AdoptResult,
                  AdoptAsCompletion, StampOnly
    <3>2. ASSUME SettleStep PROVE UNCHANGED revision
      BY <3>2 DEF SettleStep, SetCertainty
    <3> QED
      BY <1>1, <2>2, <3>1, <3>2 DEF StoreNext, storeVars
  <2>4. PICK x \in Revisions : \/ \E d \in Delegations : CreateDelegation(d, u, x)
                               \/ \E d \in Delegations, f \in BOOLEAN : CommitResume(u, x, d, f)
    BY <2>2, <2>3 DEF TaskStep, CreateTask, CancelTask, ForwardSteering, FailTask
  <2>5. PICK d \in Delegations, f \in BOOLEAN : CommitResume(u, x, d, f)
    BY <2>2, <2>4 DEF CreateDelegation
  <2>6. u = t
    BY <2>2, <2>5 DEF CommitResume, ExecInv, ExecTypeOK, StoreTypeOK
  <2> QED
    BY <2>5, <2>6 DEF CommitResume, Resumable
<1> QED
  BY <1>2 DEF NoneUnknown, TaskAttempts, ExecInv, Doubtful

(* Once the shutdown is signalled nobody claims an inference or an effect.  *)
LEMMA NoClaims ==
    ASSUME ExecInv, [ExecNext]_vars PROVE NoClaimAfterAbort
<1> SUFFICES ASSUME aborted PROVE UNCHANGED <<inferred, attemptOf>>
  BY DEF NoClaimAfterAbort
<1>1. ASSUME NEW d \in Delegations, RunStep(d)
      PROVE  UNCHANGED <<inferred, attemptOf>>
  <2>1. CASE RunInferTx(d) \/ RunActTx(d)
    BY <2>1 DEF RunInferTx, RunActTx, RunAt, Scoped, ExecInv
  <2>2. CASE RunSettle(d) \/ RunRecord(d) \/ RunAdopt(d)
    BY <2>2
       DEF RunSettle, SetCertainty, RunRecord, RecordResult, RunAdopt,
           AdoptDecides,
                AdoptFails, AdoptResult, AdoptAsCompletion, StampOnly, storeVars
  <2>3. CASE \/ RunTake(d) \/ RunBegin(d) \/ RunTurn(d) \/ RunAbortWait(d)
             \/ RunDecideAct(d) \/ RunDecideFinish(d) \/ RunLaunch(d)
             \/ RunEffectKill(d) \/ RunUnresolved(d) \/ RunLock(d) \/ RunAnswer(d)
             \/ RunEffectDone(d) \/ RunEffectStop(d) \/ RunQuit(d)
    BY <2>3
       DEF storeVars, RunTake, RunBegin, RunTurn, RunAbortWait, RunDecideAct,
           RunDecideFinish, RunLaunch, RunEffectKill, RunUnresolved, RunLock, RunInferLock,
           RunActLock, RunAnswer, RunEffectDone, RunEffectStop, RunQuit
  <2> QED
    BY <1>1, <2>1, <2>2, <2>3 DEF RunStep, RunWork
<1>2. ASSUME NEW c \in Actors, CmdWork(c) \/ CmdLock(c) \/ CmdIssue(c)
      PROVE  UNCHANGED <<inferred, attemptOf>>
  BY <1>2, CmdFrame DEF WorkAlone
<1>3. CASE HostStep
  BY <1>3
     DEF HostStep, Start, ShutdownBegin, ShutdownAbort, ShutdownKill,
         ShutdownExit,
              Crash, LoseMemory, OrphanEnds, storeVars
<1>4. CASE UNCHANGED vars
  BY <1>4 DEF vars, storeVars
<1> QED
  BY <1>1, <1>2, <1>3, <1>4 DEF ExecNext

(* No step of the host starts work whose time is not there or is over.      *)
THEOREM WorkInTurn == ExecSpec => NoWorkOutOfTurn
<1>1. ExecInv /\ [ExecNext]_vars => [ResumeQuiet /\ NoClaimAfterAbort]_vars
  BY ResumesAreQuiet, NoClaims
<1> QED
  BY <1>1, ExecInvHolds, PTL DEF ExecSpec, NoWorkOutOfTurn

=============================================================================
