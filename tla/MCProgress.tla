---------------------------- MODULE MCProgress ----------------------------
(***************************************************************************)
(* What has to come to an end, under the fairness the scheduling of the host*)
(* justifies: a connection, the stream of a reply, an effect, a reserved   *)
(* amount, and the runs and commands of a task.  A behaviour explores one  *)
(* scene.                                                                  *)
(***************************************************************************)
EXTENDS Naturals, TLC

CONSTANTS None, i1, d1, m1, c1, e1, t1, x1, a1, k1, k2, Host

VARIABLES
    scene,    \* which part is explored; never changes
    \* ConnectionLoop
    loop, reader, got, window, frames, pings, idle, loopHeld, suspected, busy,
    terminal, pushBlocked, template, wake, loopSeen, jobs, business, replies,
    relay, out, learning, gate, loopStop, loopAbort, read, handled, refused,
    brokenPipe, panicked, failure,
    \* DialogueRound
    history, unseen, presence, roundConsent, credset, tasks, op, roundHeld,
    fence, rounds, open, conn, wire, turn, roundSeen, sends, roundFails,
    \* UsageCap
    host, crashes, day, catalog, usageConsent, covered, caps, attempts, facts,
    reservations, calls,
    \* EffectWorker
    run, effectAbort, record, closing, workers, handle, wproc, hproc, dir,
    foreign, published, effectStop, effectFails, moves,
    \* TaskExecution
    progress, revision, delegTask, delegRev, inferred, attemptOf, certainty,
    sealed, stamped, adoptedRev, undelivered, workHost, aborted, scope, reserved,
    running, cancelled, workRun, live, cmd, declared, issued, restarts

OneDevice == [c \in {1} |-> d1]
OneCommand == [m \in {m1} |-> d1]

loopVars == <<loop, reader, got, window, frames, pings, idle, loopHeld,
    suspected, busy, terminal, pushBlocked, template, wake, loopSeen, jobs,
    business, replies, relay, out, learning, gate, loopStop, loopAbort, read,
    handled, refused, brokenPipe, panicked, failure>>
roundVars == <<history, unseen, presence, roundConsent, credset, tasks, op,
    roundHeld, fence, rounds, open, conn, wire, turn, roundSeen, sends,
    roundFails>>
usageVars == <<host, crashes, day, catalog, usageConsent, covered, caps,
    attempts, facts, reservations, calls>>
effectVars == <<run, effectAbort, record, closing, workers, handle, wproc,
    hproc, dir, foreign, published, effectStop, effectFails, moves>>
workVars == <<progress, revision, delegTask, delegRev, inferred, attemptOf,
    certainty, sealed, stamped, adoptedRev, undelivered, workHost, aborted, scope,
    reserved, running, cancelled, workRun, live, cmd, declared, issued, restarts>>
scenes == <<scene, loopVars, roundVars, usageVars, effectVars, workVars>>

Served == INSTANCE ConnectionLoop WITH
    Ids <- {i1}, MaxFrames <- 1, Buffer <- 1, ReadAhead <- 1, ControlCap <- 1,
    SeenCap <- 1, MaxReplies <- 1, WriteFails <- FALSE, Panics <- TRUE,
    held <- loopHeld, seen <- loopSeen, stop <- loopStop, abort <- loopAbort

Streamed == INSTANCE DialogueRound WITH
    Conns <- {1}, DeviceOf <- OneDevice, Commands <- {m1},
    CommandOf <- OneCommand, Erasable <- {m1}, OldViews <- {0}, MaxSends <- 1,
    MaxGen <- 1, MaxPieces <- 1, QueueCap <- 4, MaxChanges <- 0,
    MaxFails <- 1, consent <- roundConsent, held <- roundHeld,
    seen <- roundSeen, fails <- roundFails

Settling == INSTANCE UsageCap WITH
    Calls <- {c1}, Providers <- {"p1"}, Rates <- {1}, Denominator <- 1,
    MaxTokens <- 1, Limits <- {5}, CapScopes <- {"system"}, MaxRevision <- 1,
    MaxConsent <- 0, MaxDay <- 0, DaysPerMonth <- 1, MaxU64 <- 31,
    MaxI64 <- 15, Honest <- TRUE, StoreFails <- FALSE, MaxCrashes <- 2,
    consent <- usageConsent

Stopped == INSTANCE EffectWorker WITH
    Creating <- {e1}, Editing <- {}, Reading <- {}, MaxFails <- 1,
    MaxMoves <- 0, OpenMayFail <- FALSE, CancelToo <- FALSE,
    abort <- effectAbort, stop <- effectStop, fails <- effectFails

Worked == INSTANCE TaskExecution WITH
    Tasks <- {t1}, Delegations <- {x1}, Attempts <- {a1}, MaxRevision <- 2,
    Commands <- {k1, k2}, MaxTurns <- 1, MaxCommands <- 3, MaxRestarts <- 1,
    StorageFails <- TRUE, host <- workHost, run <- workRun

UsageRests == \A p \in DOMAIN catalog : catalog[p] = None

\* The parts a scene does not explore rest in their first state.
Init ==
    /\ scene \in {"loop", "stream", "calls", "effect", "work"}
    /\ Served!Init /\ Streamed!Init /\ Stopped!Init /\ Worked!ExecInit
    /\ Settling!Init
    /\ scene # "calls" => UsageRests

Next ==
    \/ /\ scene = "loop" /\ Served!Next
       /\ UNCHANGED <<scene, roundVars, usageVars, effectVars, workVars>>
    \/ /\ scene = "stream" /\ Streamed!Next
       /\ UNCHANGED <<scene, loopVars, usageVars, effectVars, workVars>>
    \/ /\ scene = "calls" /\ Settling!Next
       /\ UNCHANGED <<scene, loopVars, roundVars, effectVars, workVars>>
    \/ /\ scene = "effect" /\ Stopped!Next
       /\ UNCHANGED <<scene, loopVars, roundVars, usageVars, workVars>>
    \/ /\ scene = "work" /\ Worked!ExecNext
       /\ UNCHANGED <<scene, loopVars, roundVars, usageVars, effectVars>>

Spec == Init /\ [][Next]_scenes

\* Fairness of each part, in its scene: tasks that can run do, a client reads on,
\* a worker that was killed dies.  Nobody need send, issue a command or start a host
\* that is down, and no handler, provider or worker need answer.
LoopFair ==
    /\ WF_loopVars(scene = "loop" /\ Served!Upgrade)
    /\ WF_loopVars(scene = "loop" /\ Served!Reader)
    /\ WF_loopVars(scene = "loop" /\ Served!LoopEnds)
    /\ WF_loopVars(scene = "loop" /\ Served!Monitor)
    /\ WF_loopVars(scene = "loop" /\ ~loopStop /\ reader # "ended" /\ Served!Pong)
    /\ WF_loopVars(scene = "loop" /\ Served!DispatchInTurn)
    /\ WF_loopVars(scene = "loop" /\ Served!FrameInTurn)
    /\ WF_loopVars(scene = "loop" /\ Served!WokenInTurn)
    /\ WF_loopVars(scene = "loop" /\ Served!OutputInTurn)
    /\ WF_loopVars(scene = "loop" /\ Served!CloseConnection)
    /\ WF_loopVars(scene = "loop" /\ Served!JoinBusiness)
    /\ WF_loopVars(scene = "loop" /\ Served!Business)
    /\ WF_loopVars(scene = "loop" /\ loopAbort /\ Served!HandlerEnds)
    /\ WF_loopVars(scene = "loop" /\ loopAbort /\ Served!LearningEnds)
    /\ WF_loopVars(scene = "loop" /\ Served!StopHandlers)
    /\ WF_loopVars(scene = "loop" /\ Served!AbortDispatch)
StreamFair ==
    /\ WF_roundVars(scene = "stream" /\ Streamed!Work(1))
    /\ WF_roundVars(scene = "stream" /\ Streamed!Receive(1))
CallFair ==
    /\ WF_usageVars(scene = "calls" /\ Settling!Startup)
    /\ WF_usageVars(scene = "calls" /\ Settling!Send(c1))
    /\ WF_usageVars(scene = "calls" /\ Settling!Ending(c1))
    /\ WF_usageVars(scene = "calls" /\ Settling!Record(c1))
EffectFair ==
    /\ WF_effectVars(scene = "effect" /\ Stopped!StopStep)
    /\ WF_effectVars(scene = "effect" /\ Stopped!RunStep(e1))
    /\ WF_effectVars(scene = "effect" /\ Stopped!HelperStep(e1))
    /\ WF_effectVars(scene = "effect" /\ Stopped!WorkerDies(e1))
WorkFair ==
    /\ WF_workVars(scene = "work" /\ Worked!RunWork(x1))
    /\ \A c \in {k1, k2, Host} : WF_workVars(scene = "work" /\ Worked!CmdWork(c))
    /\ WF_workVars(scene = "work" /\ Worked!ShutdownKill)
    /\ WF_workVars(scene = "work" /\ Worked!ShutdownExit)
FairSpec == Spec /\ LoopFair /\ StreamFair /\ CallFair /\ EffectFair /\ WorkFair

\* The end of a socket ends its connection, and a shutdown joins its handler and
\* workers (serve_connection, run_business); a stream that was opened is closed as
\* long as its connection stays (StreamGate); the open reservations of calls are
\* settled, also across a restart (dispatch_authorized_inner); the end of the effects
\* ends (terminate_and_join).
EndsCome ==
    /\ scene = "loop" => Served!EndIsPrompt /\ Served!StopJoins /\ Served!FailureEnds
    /\ scene = "stream" => Streamed!StreamsClose
    /\ scene = "calls" => Settling!ReservationsSettle
    /\ scene = "effect" => Stopped!StopEnds

\* The commit scope is a queue that is served in turn, and nobody holds it for ever:
\* who waits for it gets it.
ScopeFair ==
    /\ SF_workVars(scene = "work" /\ Worked!RunLock(x1))
    /\ \A c \in {k1, k2, Host} : SF_workVars(scene = "work" /\ Worked!CmdLock(c))
    /\ SF_workVars(scene = "work" /\ Worked!ShutdownAbort)

\* A cancelled run, every command, every reservation and a shutdown of the host
\* come to their end, given the scope is fair (TaskExecutionRegistry, quiesce).
WorkEnds == ScopeFair => (scene = "work" => Worked!WorkEnds)

=============================================================================
