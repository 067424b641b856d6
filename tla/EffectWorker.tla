---------------------------- MODULE EffectWorker ----------------------------
(***************************************************************************)
(* The worker processes that carry out a task's effects in its workspace:  *)
(* run_workspace_action with TaskEffectRuntime, the helper process that    *)
(* leases and removes a staging directory (staging_cleanup), the worker    *)
(* that publishes a file (WorkspaceRoot::write_atomically), and the end of *)
(* the host that stops them all (terminate_and_join, verify_shutdown).     *)
(*                                                                         *)
(* A process that was killed may still take steps until it dies.  A file   *)
(* is published at most once, by its run's worker.  The directory of a run *)
(* may be moved by somebody who puts another, with content, in its place,  *)
(* once the helper holds it.                                               *)
(*                                                                         *)
(* TaskExecution has the runs' stop signals and the claim scope; here a    *)
(* run is one action.                                                      *)
(***************************************************************************)
EXTENDS Naturals, FiniteSets

CONSTANTS
    Creating,    \* actions that create a file
    Editing,     \* actions that replace one
    Reading,     \* actions that only read
    MaxFails,    \* bound: calls that fail or time out
    MaxMoves,    \* bound: directories moved by somebody else
    OpenMayFail, \* may a directory that was just made not be opened?
    CancelToo    \* are actions cancelled while the host goes on?

Runs   == Creating \cup Editing \cup Reading
Staged == Creating \cup Editing

EffectWorkerAssumption ==
    /\ IsFiniteSet(Runs)
    /\ Creating \cap Editing = {} /\ Reading \cap Staged = {}
    /\ {MaxFails, MaxMoves} \subseteq Nat
    /\ {OpenMayFail, CancelToo} \subseteq BOOLEAN

VARIABLES
    run,         \* the future of each run: where it is and what it knows
    abort,       \* DispatchAbort
    record,      \* action_attempt.certainty, "none" before it is claimed
    closing,     \* WorkerRegistry.closing
    workers,     \* WorkerRegistry.workers
    handle,      \* WorkerHandle, of the runs that have registered one
    wproc,       \* each worker process
    hproc,       \* each staging helper process
    dir,         \* each run's directory: where it is, its marker, a file in it
    foreign,     \* what is at the path of a moved directory
    published,   \* runs whose file is at its destination
    stop,        \* shutdown_and_join
    fails, moves

procVars  == <<wproc, hproc>>
fileVars  == <<dir, foreign, published>>
hostVars  == <<closing, workers, handle>>
boundVars == <<fails, moves>>
vars == <<run, abort, record, hostVars, procVars, fileVars, stop, boundVars>>

-----------------------------------------------------------------------------
Obligations == {"none", "fresh", "controlled", "prepared"}

NewHandle == [obligation |-> "none", stagingReaped |-> TRUE, finalizing |-> FALSE,
              reaped |-> FALSE, hardStopped |-> FALSE, helperReaped |-> FALSE]

NoProcess == [at |-> "none", dying |-> FALSE]

Init ==
    /\ run = [r \in Runs |-> [pc |-> "idle", then |-> "", ok |-> TRUE, took |-> "none"]]
    /\ abort = [r \in Runs |-> FALSE]
    /\ record = [r \in Runs |-> "none"]
    /\ closing = FALSE /\ workers = {}
    /\ handle = [r \in Runs |-> NewHandle]
    /\ wproc = [r \in Runs |-> NoProcess] /\ hproc = [r \in Runs |-> NoProcess]
    /\ dir = [r \in Runs |-> [place |-> "none", marker |-> FALSE, file |-> FALSE]]
    /\ foreign = [r \in Runs |-> "none"]
    /\ published = {}
    /\ stop = [pc |-> "serving", todo |-> {}, took |-> "none", late |-> FALSE,
               bad |-> FALSE]
    /\ fails = 0 /\ moves = 0

Fail == fails < MaxFails /\ fails' = fails + 1

To(r, pc)       == run' = [run EXCEPT ![r].pc = pc]
Halt(r, then)   == run' = [run EXCEPT ![r].pc = "halt", ![r].then = then]
Stopping(r)     == abort[r] \/ closing
Gone(process)   == process.at \in {"none", "dead", "left", "refused", "done", "unverified"}
Answered(r)     == wproc[r].at \in {"refused", "done", "unverified"}

-----------------------------------------------------------------------------
(* The worker process: it opens the staging directory of its request and   *)
(* writes the file there, publishes it, and answers.                       *)
WorkerOpens(r) ==
    /\ wproc[r].at = "asked"
    /\ IF r \in Reading
       THEN \E answer \in {"refused", "done"} :
                /\ wproc' = [wproc EXCEPT ![r].at = answer] /\ UNCHANGED dir
       ELSE IF dir[r].place = "path" /\ dir[r].marker
       THEN /\ wproc' = [wproc EXCEPT ![r].at = "written"]
            /\ dir' = [dir EXCEPT ![r].file = TRUE]
       ELSE wproc' = [wproc EXCEPT ![r].at = "refused"] /\ UNCHANGED dir
    /\ UNCHANGED <<run, abort, record, hostVars, hproc, foreign, published, stop, boundVars>>

\* An edit renames the file, a creation links it and removes the first name.
WorkerPublishes(r) ==
    /\ wproc[r].at = "written"
    /\ IF dir[r].file
       THEN /\ published' = published \cup {r}
            /\ wproc' = [wproc EXCEPT ![r].at = "published"]
            /\ dir' = [dir EXCEPT ![r].file = r \in Creating]
       ELSE /\ wproc' = [wproc EXCEPT ![r].at = "refused"]
            /\ UNCHANGED <<published, dir>>
    /\ UNCHANGED <<run, abort, record, hostVars, hproc, foreign, stop, boundVars>>

\* A file that is not published is discarded.
WorkerGivesUp(r) ==
    /\ wproc[r].at = "written" /\ Fail
    /\ wproc' = [wproc EXCEPT ![r].at = "refused"]
    /\ dir' = [dir EXCEPT ![r].file = FALSE]
    /\ UNCHANGED <<run, abort, record, hostVars, hproc, foreign, published, stop, moves>>

\* The destination is read back and the answer written.
WorkerAnswers(r) ==
    /\ wproc[r].at = "published"
    /\ dir' = [dir EXCEPT ![r].file = FALSE]
    /\ \/ wproc' = [wproc EXCEPT ![r].at = "done"] /\ UNCHANGED fails
       \/ wproc' = [wproc EXCEPT ![r].at = "unverified"] /\ Fail
    /\ UNCHANGED <<run, abort, record, hostVars, hproc, foreign, published, stop, moves>>

WorkerDies(r) ==
    /\ wproc[r].dying /\ ~Gone(wproc[r])
    /\ wproc' = [wproc EXCEPT ![r].at = "dead"]
    /\ UNCHANGED <<run, abort, record, hostVars, hproc, fileVars, stop, boundVars>>

-----------------------------------------------------------------------------
(* The helper process, prepare_staging_lease: the directory, then the      *)
(* marker in it.  "failed" is the answer that nothing has to be removed;   *)
(* a failure after the directory was opened cannot be cleaned without the  *)
(* marker, and the helper leaves without an answer.                        *)
HelperMakes(r) ==
    /\ hproc[r].at = "asked"
    /\ \/ /\ hproc' = [hproc EXCEPT ![r].at = "made"]
          /\ dir' = [dir EXCEPT ![r].place = "path"]
          /\ UNCHANGED fails
       \/ /\ hproc' = [hproc EXCEPT ![r].at = "failed"] /\ Fail
          /\ dir' \in {dir} \cup
                IF OpenMayFail THEN {[dir EXCEPT ![r].place = "path"]} ELSE {}
    /\ UNCHANGED <<run, abort, record, hostVars, wproc, foreign, published, stop, moves>>

HelperMarks(r) ==
    /\ hproc[r].at = "made"
    /\ \/ /\ hproc' = [hproc EXCEPT ![r].at = "ready"]
          /\ dir' = [dir EXCEPT ![r].marker = TRUE]
          /\ UNCHANGED fails
       \/ /\ hproc' = [hproc EXCEPT ![r].at = "left"] /\ Fail
          /\ UNCHANGED dir
    /\ UNCHANGED <<run, abort, record, hostVars, wproc, foreign, published, stop, moves>>

(* cleanup_staging_lease: only with the run's own marker at the path.      *)
HelperEmpties(r) ==
    /\ hproc[r].at = "cleaning"
    /\ IF dir[r].place = "path" /\ dir[r].marker
       THEN /\ hproc' = [hproc EXCEPT ![r].at = "emptied"]
            /\ dir' = [dir EXCEPT ![r].marker = FALSE, ![r].file = FALSE]
       ELSE hproc' = [hproc EXCEPT ![r].at = "left"] /\ UNCHANGED dir
    /\ UNCHANGED <<run, abort, record, hostVars, wproc, foreign, published, stop, boundVars>>

HelperRemoves(r) ==
    /\ hproc[r].at = "emptied"
    /\ IF ~dir[r].file
       THEN /\ hproc' = [hproc EXCEPT ![r].at = "removed"]
            /\ dir' = [dir EXCEPT ![r].place = "none"]
       ELSE hproc' = [hproc EXCEPT ![r].at = "left"] /\ UNCHANGED dir
    /\ UNCHANGED <<run, abort, record, hostVars, wproc, foreign, published, stop, boundVars>>

HelperDies(r) ==
    /\ hproc[r].dying /\ ~Gone(hproc[r])
    /\ hproc' = [hproc EXCEPT ![r].at = "dead"]
    /\ UNCHANGED <<run, abort, record, hostVars, wproc, fileVars, stop, boundVars>>

(* Somebody moves a directory and puts another one in its place.           *)
Move(r) ==
    /\ moves < MaxMoves /\ moves' = moves + 1
    /\ dir[r].place = "path" /\ dir[r].marker
    /\ dir' = [dir EXCEPT ![r].place = "away"]
    /\ foreign' \in {foreign, [foreign EXCEPT ![r] = "there"]}
    /\ UNCHANGED <<run, abort, record, hostVars, procVars, published, stop, fails>>

-----------------------------------------------------------------------------
(* cleanup_staging_directory_by_path, asked of a helper of its own, for an *)
(* obligation: what it may leave behind, what it may answer, and how many  *)
(* calls have failed.                                                      *)
Outcome(r, d, answer, cost) ==
    [dir |-> [dir EXCEPT ![r] = d], foreign |-> foreign, answer |-> answer, cost |-> cost]

Emptied(r) == [dir[r] EXCEPT !.marker = FALSE, !.file = FALSE]
Removed(r) == [Emptied(r) EXCEPT !.place = "none"]

\* Mutated: neither the directory's identity nor its marker is compared.
ByPathUnowned(r, obligation) ==
    IF dir[r].place = "path"
    THEN {Outcome(r, Removed(r), "removed", 0), Outcome(r, dir[r], "error", 1)}
    ELSE IF foreign[r] = "there"
    THEN {[Outcome(r, dir[r], "removed", 0) EXCEPT !.foreign[r] = "removed"]}
    ELSE {Outcome(r, dir[r], "absent", 0)}

ByPath(r, obligation) ==
    {Outcome(r, dir[r], "error", 1)} \cup
    IF dir[r].place = "path"
    THEN IF dir[r].marker \/ obligation = "prepared"
         THEN {Outcome(r, Removed(r), "removed", 0), Outcome(r, Removed(r), "error", 1),
               Outcome(r, Emptied(r), "error", 1)}
         ELSE {Outcome(r, dir[r], "error", 0)}
    ELSE IF foreign[r] = "there" THEN {Outcome(r, dir[r], "error", 0)}
    ELSE {Outcome(r, dir[r], "absent", 0)}

\* What settles an obligation.
Settled(answer, obligation) ==
    answer = "removed" \/ (answer = "absent" /\ obligation # "prepared")

\* The obligation that was taken is met, or put back.
Settles(r, obligation, outcome) ==
    /\ fails + outcome.cost <= MaxFails /\ fails' = fails + outcome.cost
    /\ dir' = outcome.dir /\ foreign' = outcome.foreign
    /\ handle' = [handle EXCEPT
            ![r].obligation = IF obligation # "none" /\ ~Settled(outcome.answer, obligation)
                              THEN obligation ELSE @,
            ![r].finalizing = FALSE]

\* Without an obligation nothing is asked.
Outcomes(r, obligation) ==
    IF obligation = "none" THEN {Outcome(r, dir[r], "removed", 0)}
    ELSE ByPath(r, obligation)

-----------------------------------------------------------------------------
(* prepare_worker: the worker process, its registration, its handshake.    *)
Spawn(r) ==
    /\ run[r].pc = "idle"
    /\ IF abort[r] \/ closing
       THEN To(r, "done") /\ UNCHANGED wproc
       ELSE To(r, "spawned") /\ wproc' = [wproc EXCEPT ![r].at = "up"]
    /\ UNCHANGED <<abort, record, hostVars, hproc, fileVars, stop, boundVars>>

Register(r) ==
    /\ run[r].pc = "spawned"
    /\ IF closing
       THEN /\ Halt(r, "done")
            /\ wproc' = [wproc EXCEPT ![r].dying = TRUE]
            /\ UNCHANGED <<workers, handle>>
       ELSE /\ To(r, "handshake")
            /\ workers' = workers \cup {r}
            /\ handle' = [handle EXCEPT ![r] = NewHandle]
            /\ UNCHANGED wproc
    /\ UNCHANGED <<abort, record, closing, hproc, fileVars, stop, boundVars>>

\* stop_child: the kill, and later the wait.
Kill(r, then) == Halt(r, then) /\ wproc' = [wproc EXCEPT ![r].dying = TRUE]

Handshake(r) ==
    /\ run[r].pc = "handshake"
    /\ \/ abort[r] /\ Kill(r, "finish") /\ UNCHANGED <<handle, fails>>
       \/ Gone(wproc[r]) /\ Kill(r, "finish") /\ UNCHANGED <<handle, fails>>
       \/ Fail /\ Kill(r, "finish") /\ UNCHANGED handle
       \/ /\ ~abort[r] /\ ~Gone(wproc[r])
          /\ r \in Reading /\ To(r, "claim") /\ UNCHANGED <<handle, wproc, fails>>
       \/ /\ ~abort[r] /\ ~Gone(wproc[r]) /\ r \in Staged
          /\ IF closing THEN Kill(r, "finish") /\ UNCHANGED handle
             ELSE /\ handle' = [handle EXCEPT ![r].obligation = "fresh"]
                  /\ To(r, "helper") /\ UNCHANGED wproc
          /\ UNCHANGED fails
    /\ UNCHANGED <<abort, record, closing, workers, hproc, fileVars, stop, moves>>

(* spawn_staging_helper.                                                   *)
SpawnHelper(r) ==
    /\ run[r].pc = "helper"
    /\ IF closing THEN Kill(r, "settle") /\ UNCHANGED hproc
       ELSE /\ hproc' = [hproc EXCEPT ![r].at = "up"]
            /\ To(r, "control") /\ UNCHANGED wproc
    /\ UNCHANGED <<abort, record, hostVars, fileVars, stop, boundVars>>

RegisterHelper(r) ==
    /\ run[r].pc = "control"
    /\ IF closing \/ handle[r].obligation = "none"
       THEN /\ To(r, "stopHelper")
            /\ hproc' = [hproc EXCEPT ![r].dying = TRUE] /\ UNCHANGED handle
       ELSE /\ To(r, "preparing")
            /\ hproc' = [hproc EXCEPT ![r].at = IF @ = "up" THEN "asked" ELSE @]
            /\ handle' = [handle EXCEPT ![r].obligation = "controlled",
                                        ![r].stagingReaped = FALSE]
    /\ UNCHANGED <<abort, record, closing, workers, wproc, fileVars, stop, boundVars>>

Prepared(r) ==
    /\ run[r].pc = "preparing" /\ hproc[r].at = "ready"
    /\ To(r, "claim")
    /\ handle' = [handle EXCEPT ![r].obligation = IF @ = "none" THEN @ ELSE "prepared"]
    /\ UNCHANGED <<abort, record, closing, workers, procVars, fileVars, stop, boundVars>>

\* The helper failed, left or did not answer in time.
NotPrepared(r) ==
    /\ run[r].pc = "preparing"
    /\ \/ hproc[r].at \in {"failed", "left", "dead"} /\ UNCHANGED fails
       \/ Fail
    /\ To(r, "stopHelper")
    /\ hproc' = [hproc EXCEPT ![r].dying = TRUE]
    /\ UNCHANGED <<abort, record, hostVars, wproc, fileVars, stop, moves>>

(* hard_stop_staging_control of a helper that has not prepared, reaped:    *)
(* the worker is stopped next and the obligation settled.                  *)
StoppedHelper(r) ==
    /\ run[r].pc = "stopHelper" /\ (Gone(hproc[r]) \/ hproc[r].at = "failed")
    /\ handle' = [handle EXCEPT ![r].stagingReaped = TRUE, ![r].helperReaped = TRUE,
            ![r].obligation = IF hproc[r].at = "failed" THEN "none" ELSE @]
    /\ hproc' = [hproc EXCEPT ![r].at = "dead"]
    /\ Kill(r, "settle")
    /\ UNCHANGED <<abort, record, closing, workers, fileVars, stop, boundVars>>

(* stop_registered_child, reaped.                                          *)
Halted(r) ==
    /\ run[r].pc = "halt" /\ Gone(wproc[r])
    /\ To(r, run[r].then)
    /\ handle' = [handle EXCEPT ![r].reaped = r \in workers]
    /\ UNCHANGED <<abort, record, closing, workers, procVars, fileVars, stop, boundVars>>

-----------------------------------------------------------------------------
(* run_workspace_action: the claim, under the claim scope.                 *)
Claim(r) ==
    /\ run[r].pc = "claim"
    /\ \/ /\ Stopping(r) /\ Kill(r, "staging") /\ UNCHANGED record
       \/ /\ ~Stopping(r)
          /\ \/ To(r, "exec") /\ UNCHANGED wproc
                /\ record' = [record EXCEPT ![r] = "unknown"]
             \/ Kill(r, "staging") /\ UNCHANGED record
    /\ UNCHANGED <<abort, hostVars, hproc, fileVars, stop, boundVars>>

(* execute_prepared: the request is written.  Without the identity of its  *)
(* directory the run ends at once, and its processes with it.              *)
Execute(r) ==
    /\ run[r].pc = "exec"
    /\ IF Stopping(r) THEN Kill(r, "staging") /\ UNCHANGED hproc
       ELSE IF r \in Staged /\ handle[r].obligation # "prepared"
       THEN /\ To(r, "done")
            /\ wproc' = [wproc EXCEPT ![r].dying = TRUE]
            /\ hproc' = [hproc EXCEPT ![r].dying = TRUE]
       ELSE /\ To(r, "wait")
            /\ wproc' = [wproc EXCEPT ![r].at = IF @ = "up" THEN "asked" ELSE @]
            /\ UNCHANGED hproc
    /\ UNCHANGED <<abort, record, hostVars, fileVars, stop, boundVars>>

WaitStops(r) ==
    /\ run[r].pc = "wait" /\ abort[r]
    /\ Kill(r, "staging")
    /\ UNCHANGED <<abort, record, hostVars, hproc, fileVars, stop, boundVars>>

WaitEnds(r) ==
    /\ run[r].pc = "wait" /\ Gone(wproc[r])
    /\ run' = [run EXCEPT ![r].pc = "staging", ![r].then = "report"]
    /\ handle' = [handle EXCEPT ![r].reaped = TRUE]
    /\ UNCHANGED <<abort, record, closing, workers, procVars, fileVars, stop, boundVars>>

(* finish_staging: the helper is asked to clean up and is stopped.         *)
FinishStaging(r) ==
    /\ run[r].pc = "staging"
    /\ IF r \in Reading THEN To(r, "finish") /\ UNCHANGED <<handle, hproc>>
       ELSE IF handle[r].helperReaped
       THEN /\ run' = [run EXCEPT ![r].pc = "finish", ![r].ok = FALSE]
            /\ handle' = [handle EXCEPT ![r].stagingReaped = TRUE] /\ UNCHANGED hproc
       ELSE /\ To(r, "cleaning") /\ UNCHANGED handle
            /\ hproc' = [hproc EXCEPT ![r].at = IF @ = "ready" THEN "cleaning" ELSE @]
    /\ UNCHANGED <<abort, record, closing, workers, wproc, fileVars, stop, boundVars>>

Cleaned(r) ==
    /\ run[r].pc = "cleaning"
    /\ \/ hproc[r].at = "removed" /\ UNCHANGED fails
          /\ To(r, "helperEnds")
       \/ hproc[r].at \in {"left", "dead"} /\ UNCHANGED fails
          /\ run' = [run EXCEPT ![r].pc = "helperEnds", ![r].ok = FALSE]
       \/ Fail
          /\ run' = [run EXCEPT ![r].pc = "helperEnds", ![r].ok = FALSE]
    /\ hproc' = [hproc EXCEPT ![r].dying = TRUE]
    /\ UNCHANGED <<abort, record, hostVars, wproc, fileVars, stop, moves>>

\* Mutated: the obligation is dropped whatever became of the cleanup.
HelperEndedForgets(r) ==
    /\ run[r].pc = "helperEnds" /\ Gone(hproc[r])
    /\ handle' = [handle EXCEPT ![r].stagingReaped = TRUE, ![r].helperReaped = TRUE,
                                ![r].obligation = "none"]
    /\ To(r, "finish")
    /\ UNCHANGED <<abort, record, closing, workers, procVars, fileVars, stop, boundVars>>

HelperEnded(r) ==
    /\ run[r].pc = "helperEnds" /\ Gone(hproc[r])
    /\ handle' = [handle EXCEPT ![r].stagingReaped = TRUE, ![r].helperReaped = TRUE,
            ![r].obligation = IF run[r].ok THEN "none" ELSE @]
    /\ To(r, "finish")
    /\ UNCHANGED <<abort, record, closing, workers, procVars, fileVars, stop, boundVars>>

-----------------------------------------------------------------------------
(* settle_worker_obligation, when the preparation failed.                  *)
Settle(r) ==
    /\ run[r].pc = "settle"
    /\ IF handle[r].finalizing
       THEN To(r, "done") /\ UNCHANGED handle
       ELSE /\ run' = [run EXCEPT ![r].pc = "settling", ![r].took = handle[r].obligation]
            /\ handle' = [handle EXCEPT ![r].finalizing = TRUE, ![r].obligation = "none"]
    /\ UNCHANGED <<abort, record, closing, workers, procVars, fileVars, stop, boundVars>>

SettleEnds(r) ==
    /\ run[r].pc = "settling"
    /\ \E outcome \in Outcomes(r, run[r].took) :
         /\ Settles(r, run[r].took, outcome)
         /\ run' = [run EXCEPT ![r].took = "none", ![r].then = "end",
                ![r].pc = IF run[r].took = "none" \/ Settled(outcome.answer, run[r].took)
                          THEN "finish" ELSE "done"]
    /\ UNCHANGED <<abort, record, closing, workers, procVars, published, stop, moves>>

(* finish_worker: first whether somebody settles the obligation, then the  *)
(* obligation and the processes.                                           *)
Finish(r) ==
    /\ run[r].pc = "finish"
    /\ run' = IF handle[r].finalizing
              THEN [run EXCEPT ![r].pc = "report", ![r].ok = FALSE]
              ELSE [run EXCEPT ![r].pc = "finishing"]
    /\ UNCHANGED <<abort, record, hostVars, procVars, fileVars, stop, boundVars>>

\* Mutated: an obligation does not keep the worker registered.
FreeAnyway(r) == handle[r].reaped /\ handle[r].stagingReaped

Free(r) == /\ handle[r].obligation = "none"
           /\ handle[r].reaped /\ handle[r].stagingReaped

Finished(r) ==
    /\ run[r].pc = "finishing"
    /\ workers' = IF Free(r) THEN workers \ {r} ELSE workers
    /\ run' = [run EXCEPT ![r].pc = "report", ![r].ok = @ /\ Free(r)]
    /\ UNCHANGED <<abort, record, closing, handle, procVars, fileVars, stop, boundVars>>

\* Mutated: an attempt that was stopped is recorded as failed.
ReportStopped(r) ==
    /\ run[r].pc = "report"
    /\ record' = [record EXCEPT ![r] =
            IF @ = "unknown" /\ ~Answered(r) THEN "failure"
            ELSE IF wproc[r].at = "done" /\ run[r].then = "report" THEN "success" ELSE @]
    /\ To(r, "done")
    /\ UNCHANGED <<abort, hostVars, procVars, fileVars, stop, boundVars>>

(* What execute_prepared returns, and settle_workspace_effect of it: a run *)
(* that was stopped or failed leaves its attempt unknown.                  *)
Report(r) ==
    /\ run[r].pc = "report"
    /\ LET told == /\ run[r].then = "report" /\ run[r].ok /\ Answered(r)
                   /\ ~handle[r].hardStopped
       IN \/ /\ record' = [record EXCEPT ![r] =
                    IF told /\ wproc[r].at = "done" THEN "success"
                    ELSE IF told /\ wproc[r].at = "refused" THEN "failure" ELSE @]
             /\ UNCHANGED fails
          \/ told /\ UNCHANGED record /\ Fail
    /\ To(r, "done")
    /\ UNCHANGED <<abort, hostVars, procVars, fileVars, stop, moves>>

(* The owner cancels the task of a run.                                    *)
Cancel(r) ==
    /\ CancelToo /\ ~abort[r]
    /\ abort' = [abort EXCEPT ![r] = TRUE]
    /\ UNCHANGED <<run, record, hostVars, procVars, fileVars, stop, boundVars>>

-----------------------------------------------------------------------------
(* shutdown_and_join.                                                      *)
StopAt(pc) == stop' = [stop EXCEPT !.pc = pc]

CloseAdmission ==
    /\ stop.pc = "serving"
    /\ closing' = TRUE /\ StopAt("closed")
    /\ UNCHANGED <<run, abort, record, workers, handle, procVars, fileVars, boundVars>>

SignalStop ==
    /\ stop.pc = "closed"
    /\ abort' = [r \in Runs |-> TRUE] /\ StopAt("joining")
    /\ UNCHANGED <<run, record, hostVars, procVars, fileVars, boundVars>>

Ended(r) == run[r].pc \in {"idle", "done", "dropped"}

\* All runs are joined, or the time to do so is over: terminate_and_join.
Join ==
    /\ stop.pc = "joining"
    /\ \E late \in BOOLEAN :
         /\ ~late => \A r \in Runs : Ended(r)
         /\ stop' = [stop EXCEPT !.pc = "kill", !.late = late, !.todo = workers]
    /\ UNCHANGED <<run, abort, record, hostVars, procVars, fileVars, boundVars>>

\* The helper of a worker is under control of its obligation and not reaped.
Controlled(r) ==
    handle[r].obligation \in {"controlled", "prepared"} /\ ~handle[r].helperReaped

KillWorker(r) ==
    /\ stop.pc = "kill" /\ r \in stop.todo
    /\ handle' = [handle EXCEPT ![r].hardStopped = TRUE]
    /\ wproc' = [wproc EXCEPT ![r].dying = TRUE]
    /\ hproc' = IF Controlled(r) THEN [hproc EXCEPT ![r].dying = TRUE] ELSE hproc
    /\ stop' = [stop EXCEPT !.pc = IF Controlled(r) THEN "reap" ELSE @,
                            !.todo = IF Controlled(r) THEN @ ELSE @ \ {r}]
    /\ UNCHANGED <<run, abort, record, closing, workers, fileVars, boundVars>>

ReapHelper(r) ==
    /\ stop.pc = "reap" /\ r \in stop.todo /\ handle[r].hardStopped
    /\ hproc[r].dying /\ (Gone(hproc[r]) \/ hproc[r].at = "failed")
    /\ handle' = [handle EXCEPT ![r].stagingReaped = TRUE, ![r].helperReaped = TRUE]
    /\ hproc' = [hproc EXCEPT ![r].at = "dead"]
    /\ stop' = [stop EXCEPT !.pc = "kill", !.todo = @ \ {r}]
    /\ UNCHANGED <<run, abort, record, closing, workers, wproc, fileVars, boundVars>>

\* One second later, or when no worker is left: finalize_shutdown_inner.
Finalize ==
    /\ stop.pc = "kill" /\ stop.todo = {}
    /\ stop' = [stop EXCEPT !.pc = "finalize", !.todo = workers]
    /\ UNCHANGED <<run, abort, record, hostVars, procVars, fileVars, boundVars>>

FinalizeTakes(r) ==
    /\ stop.pc = "finalize" /\ r \in stop.todo
    /\ IF handle[r].finalizing
       THEN stop' = [stop EXCEPT !.todo = @ \ {r}] /\ UNCHANGED handle
       ELSE /\ stop' = [stop EXCEPT !.pc = "finalizing", !.todo = @ \ {r},
                                    !.took = [run |-> r, obligation |-> handle[r].obligation]]
            /\ handle' = [handle EXCEPT ![r].finalizing = TRUE, ![r].obligation = "none"]
    /\ UNCHANGED <<run, abort, record, closing, workers, procVars, fileVars, boundVars>>

FinalizeSettles ==
    /\ stop.pc = "finalizing"
    /\ LET r == stop.took.run  taken == stop.took.obligation IN
       \E outcome \in Outcomes(r, taken) :
         /\ Settles(r, taken, outcome)
         /\ stop' = IF taken = "none" \/ Settled(outcome.answer, taken)
                    THEN [stop EXCEPT !.pc = "finish"]
                    ELSE [stop EXCEPT !.pc = "finalize", !.took = "none", !.bad = TRUE]
    /\ UNCHANGED <<run, abort, record, closing, workers, procVars, published, moves>>

\* finish_worker; a process that still lives is nothing to report.
FinalizeFinishes ==
    /\ stop.pc = "finish"
    /\ LET r == stop.took.run IN
       /\ workers' = IF ~handle[r].finalizing /\ Free(r) THEN workers \ {r} ELSE workers
       /\ stop' = [stop EXCEPT !.pc = "finalize", !.took = "none",
                    !.bad = @ \/ handle[r].finalizing \/ handle[r].obligation # "none"]
    /\ UNCHANGED <<run, abort, record, closing, handle, procVars, fileVars, boundVars>>

FinalizeEnds ==
    /\ stop.pc = "finalize" /\ stop.todo = {}
    /\ stop' = [stop EXCEPT !.pc = "abortAll",
            !.bad = @ \/ \E r \in workers : handle[r].obligation # "none"]
    /\ UNCHANGED <<run, abort, record, hostVars, procVars, fileVars, boundVars>>

\* abort_all: a run is dropped where it waits, and its processes are killed.
Waits(r) == run[r].pc \in {"handshake", "preparing", "stopHelper", "halt", "claim", "wait",
                           "cleaning", "helperEnds", "settling", "report"}

Drop(r) ==
    /\ stop.pc = "abortAll" /\ stop.late /\ Waits(r)
    /\ To(r, "dropped")
    /\ wproc' = [wproc EXCEPT ![r].dying = TRUE]
    /\ hproc' = [hproc EXCEPT ![r].dying = TRUE]
    /\ stop' = [stop EXCEPT !.bad = TRUE]
    /\ UNCHANGED <<abort, record, hostVars, fileVars, boundVars>>

(* verify_shutdown.                                                        *)
Verify ==
    /\ stop.pc = "abortAll" /\ \A r \in Runs : Ended(r)
    /\ StopAt(IF stop.bad \/ workers # {} THEN "failed" ELSE "ok")
    /\ UNCHANGED <<run, abort, record, hostVars, procVars, fileVars, boundVars>>

-----------------------------------------------------------------------------
WorkerStep(r) == \/ WorkerOpens(r) \/ WorkerPublishes(r) \/ WorkerGivesUp(r)
                 \/ WorkerAnswers(r) \/ WorkerDies(r)
HelperStep(r) == \/ HelperMakes(r) \/ HelperMarks(r) \/ HelperEmpties(r)
                 \/ HelperRemoves(r) \/ HelperDies(r)
RunStep(r) ==
    \/ Register(r) \/ Handshake(r) \/ SpawnHelper(r) \/ RegisterHelper(r)
    \/ Prepared(r) \/ NotPrepared(r) \/ StoppedHelper(r) \/ Halted(r)
    \/ Claim(r) \/ Execute(r) \/ WaitStops(r) \/ WaitEnds(r)
    \/ FinishStaging(r) \/ Cleaned(r) \/ HelperEnded(r)
    \/ Settle(r) \/ SettleEnds(r) \/ Finish(r) \/ Finished(r) \/ Report(r)
StopStep ==
    \/ SignalStop \/ Join \/ Finalize \/ FinalizeSettles \/ FinalizeFinishes
    \/ FinalizeEnds \/ Verify
    \/ \E r \in Runs : KillWorker(r) \/ ReapHelper(r) \/ FinalizeTakes(r) \/ Drop(r)

Next ==
    \/ CloseAdmission \/ StopStep
    \/ \E r \in Runs : \/ Spawn(r) \/ RunStep(r) \/ WorkerStep(r) \/ HelperStep(r)
                       \/ Move(r) \/ Cancel(r)

Spec == Init /\ [][Next]_vars

(* The operating system lets every process end that was killed and every   *)
(* helper answer; a worker may be stuck.                                   *)
FairSpec ==
    /\ Spec
    /\ WF_vars(StopStep)
    /\ \A r \in Runs : /\ WF_vars(RunStep(r)) /\ WF_vars(HelperStep(r))
                       /\ WF_vars(WorkerDies(r))

-----------------------------------------------------------------------------
\* Types, and what the handle of a worker says of its processes: one that is
\* reaped is gone, and a directory that is prepared has a helper or had one.
TypeOK ==
    /\ workers \subseteq Runs /\ published \subseteq Staged
    /\ \A r \in Runs :
         /\ handle[r].obligation \in Obligations
         /\ record[r] \in {"none", "unknown", "success", "failure"}
         /\ handle[r].reaped => Gone(wproc[r])
         /\ handle[r].helperReaped => Gone(hproc[r])
         /\ handle[r].obligation = "prepared" => hproc[r].at # "none"
    /\ stop.pc \in {"serving", "closed", "joining", "kill", "reap", "finalize",
                    "finalizing", "finish", "abortAll", "ok", "failed"}

\* Nothing is written to a destination before its attempt is on record, and
\* what the record says of it is true: a success is published, a failure is not
\* and cannot be any more (settle_workspace_effect).
RecordHonest ==
    /\ \A r \in published : record[r] # "none"
    /\ \A r \in Staged : /\ record[r] = "success" => r \in published
                         /\ record[r] = "failure" => r \notin published /\ Gone(wproc[r])

\* When the host reports that its effects have ended, no process of theirs
\* lives, no directory of theirs is left that was not moved, and none is
\* unaccounted for (terminate_and_join, verify_shutdown).
CleanStop ==
    stop.pc = "ok" =>
        \A r \in Runs : /\ Gone(wproc[r]) /\ (Gone(hproc[r]) \/ hproc[r].dying)
                        /\ dir[r].place # "path"

\* As long as the host serves, a directory whose run has returned is not at
\* its path any more or still owed by a registered worker (StagingCleanupObligation).
LeftoverIsOwed ==
    \A r \in Runs :
        run[r].pc = "done" /\ dir[r].place = "path" /\ Gone(hproc[r]) =>
            \/ r \in workers /\ handle[r].obligation # "none"
            \/ stop.pc = "finalizing" /\ stop.took.run = r
            \/ closing

\* What somebody else put at the path of a directory is not removed.
ForeignKept == \A r \in Runs : foreign[r] # "removed"

\* What holds of the effects, their processes and their directories.
EffectsSafe == TypeOK /\ RecordHonest /\ CleanStop /\ LeftoverIsOwed /\ ForeignKept

\* Once asked to, the host stops its effects and says how that went.
StopEnds == stop.pc = "closed" ~> stop.pc \in {"ok", "failed"}

=============================================================================
