# A TLA+ verification of the ene host

`ene` is a host process for AI companions. An owner talks to a companion through
clients; the companion remembers, can be told to forget an exact text, calls paid
inference providers under usage caps, and can be given *Tasks*, which the host
executes in the background: a Task Agent asks a provider turn by turn what to do,
worker processes carry out effects on files, and the result is adopted when every
effect is known to have succeeded. Everything durable is in SQLite or in the
operating system's keystore; everything else is lost when the host ends.

This directory models what in that program is hard to get right and hard to test,
checks it with TLC on small instances, and proves part of it for all instances
with TLAPS. `PROJECT.json` lists components, runs, the code lines behind every
definition, seeded faults, hazards, the findings and the theorems in
machine-readable form.

## 1. Inventory

`core/` is `apps/ene-core/src/`; the crates are under `crates/`.

| Component | Code | State | Operations | Hard behaviour | What makes it correct | Module |
|---|---|---|---|---|---|---|
| Task tables, outbox | `ene-store/src/task.rs`, `action.rs`, `inference.rs`, `companion.rs` | rows of tasks, delegations, attempts, results, undelivered facts | create, steer, cancel, fail, delegate, record and adopt a result, resume, settle an attempt | any caller, any order, stale arguments | a task is completed once, by a current result, with every effect known, and the owner is told | `TaskStore`, `TaskLifecycle` |
| Task control, registry, runs | `core/task_control.rs`, `task_run.rs`, `task_agent.rs` | what each command read; reservations, cancellation flags, commit scope | propose, steer, cancel, resume, settle; reserve, take, release, abort, join | reads used after an await; threads; crash between effect and record | one delegation per revision; nothing starts out of turn; live effects stay in doubt | `TaskExecution` |
| Effect workers, staging | `core/action.rs`, `staging_cleanup.rs`, `ene-action` | processes, admission, leases, obligations | spawn, authorize, execute, publish, kill, clean, settle | processes that take steps after a kill | what is recorded happened; what is left behind is owed | `EffectWorker` |
| Inference, usage caps | `ene-inference`, `ene-store/src/usage_cap.rs`, `inference.rs` | attempts, reservations, caps | claim, send, record, reconcile, set a cap | concurrent claims, unreported usage, rounding, width | consumption rises only within the cap; no row makes the summary unreadable | `UsageCap` |
| Targeted deletion | `ene-store/src/preservation.rs`, `core/targeted_deletion.rs`, `transient_erasure.rs` | operations, sweeps, participants, holds; memory of host and clients | stage, confirm, start, reconcile, sweep, demand, report, finalise | rows and uses that appear between two pages; late answers; restarts | completion only when nothing covered is left, and then for good | `DeletionStore`, `HostTransient`, `ClientErasure` |
| Learning | `ene-learning`, `ene-store/src/learning.rs` | queue, memories, revisions, summaries | take, claim, form, commit, erase | a formation made of what is being erased | what came too late is refused; a memory is its last revision | `LearningFormation` |
| Dialogue rounds | `core/dialogue.rs`, `ene-companion` | turn of a connection, stream gate, history | submit, commit, stream, reply, confirm | premises read before the provider answers | a command is one row and one reply; what is streamed is stored, but for a credential in it | `DialogueRound`, `ControlSink` |
| Connections, presence | `core/conn.rs`, `presence.rs`, `serve.rs` | table, nonces, home and generation | pair, challenge, authenticate, supersede, attach, close | the business task of a connection outlives its loop | one current connection per device | `Connections` |
| Serving of one connection | `core/serve.rs`, `conn.rs` | bounded queues, pings, windows, join handles | read, dispatch, reply, push, close, join | full queues, panics, silent peers | every frame handled once, refused or on its way | `ConnectionLoop` |
| Presentation | `core/presentation.rs` | passes, receipts, cursors | open, page, push, acknowledge, confirm | a lost connection between page and acknowledgement | reported means shown | `Presentation` |
| Management intents | `core/setup.rs`, `usage.rs`, `deletion.rs`, `ene-permission` | journal of decisions, consent | stage, apply, record, replay | apply and record are two transactions | an intent has its effect once | `ManagementIntents` |
| Host control | `core/host_control.rs`, `ene-desktop/src/control.rs` | the seat, requests, sessions | accept, mint, confirm, reject, time out | desktops die with confirmations pending | a refused request is not applied | `ControlSeat` |
| Credentials | `ene-store/src/credential_publication.rs`, `ene-credential`, `core/serve.rs` | keystore items, rows, active copies, scrubbed texts | stage, activate, publish, retire, sweep, scrub | no transaction spans keystore, tables and memory | the active secret is readable and in no stored text | `CredentialPublication` |
| Client library, one connection | `ene-client/src/transport.rs`, `session.rs` | queues, frames read ahead, waiting demands, session | write, read, ping, request, take a frame, answer a demand, fail | a reader on a thread of its own; full queues; an end behind unread frames | what was accepted is taken, a request told as not sent was not, nothing older is shown after a demand was answered | `ClientTransport` |
| Client library, the way to it | `ene-client/src/incarnation.rs`, `host_pin.rs`, `device.rs`, `runtime_info.rs`, `transport.rs` | files all clients of a user share: counter and lock, pin, device, runtime file | boot, pin, trust, pair, authenticate, store | processes race and die between reading and writing; a host with another key | one incarnation each, only a trusted host, only an accepted device | `ClientConnect` |
| Desktop | `ene-desktop/src/shell.rs`, `ui/runtime.rs`, `control.rs`, `erasure.rs` | mailbox, windows, composer, challenge, selected task | press, take, execute, present, dismiss, erase | the event loop and the worker each have copies; a demand arrives in between | no copy outlives the report of its erasure; what is executed is what was pressed | `Desktop` |
| Codecs, configuration, primitives, body, `ene-ctl` | `ene-api`, `ene-config`, `ene-body`, `ene-ctl`, … | none, or display state | encoding, decisions over data, drawing, arguments | — | unit tests reach them | not modelled |

How they interact. A connection's loop reads frames and hands them one at a time
to its business task. A frame may be a turn of the dialogue (`DialogueRound`), a
management intent (`ManagementIntents`), an acknowledgement (`Presentation`) or
a report about erased memory (`ClientErasure`). A turn claims an inference
(`UsageCap`), is scrubbed of registered secrets (`CredentialPublication`), may
project a Task command (`TaskExecution`) and queues an experience for learning
(`LearningFormation`, `HostTransient`). A command writes the task tables,
reserves an execution and launches a run; a run claims inferences and effects in
the tables under the commit scope and waits outside it; an effect is a process
(`EffectWorker`). Facts about tasks enter the outbox that presentation passes
drain. A targeted deletion (`DeletionStore`) drives all holders of text as
participants. Owner confirmations come over the control seat (`ControlSeat`). On the
other end a client finds the host through files it shares with other clients
(`ClientConnect`), its library orders what it reads and writes (`ClientTransport`),
and the desktop puts a mailbox between windows and library (`Desktop`).

## 2. Modules

| Module | What it is |
|---|---|
| `TaskStore` | the durable tables; one action per transaction, for an arbitrary caller |
| `TaskLifecycle` | the abstract promise of a Task: epochs, crews, doubts, one answer |
| `TaskExecution` | extends `TaskStore` by the host: commands, runs, registry, scope, startup, shutdown, crash |
| `EffectWorker` | one run's effect with its helper and worker processes, and the stop of the host |
| `UsageCap` | claims, settlements, caps, days and the startup pass |
| `DeletionStore` | the tables of a targeted deletion and the uses it holds; one action per transaction |
| `HostTransient` | the host's memory as a participant of a deletion, and the driver |
| `ClientErasure` | a client's memory as a participant, over connections that break |
| `LearningFormation` | one formation from registration to its changes, against deletions |
| `DialogueRound`, `ControlSink` | a turn from the client's text to the stored reply; what of a reply may be shown while it is written |
| `Connections` | the connection table, handshake, pairing, presence |
| `ConnectionLoop` | reader, loop, business task and learning worker of one connection |
| `Presentation` | pages, receipts, acknowledgements and pushes over breaking connections |
| `ManagementIntents` | the intents of the owner and their journal |
| `ControlSeat` | the confirmation seat, its sessions, and the desktop |
| `CredentialPublication` | keystore, tables and memory around a registered secret |
| `ClientTransport` | writer, reader and application of one connection of a client |
| `ClientConnect` | processes of clients over one data directory, up to a connection |
| `Desktop` | event loop, mailbox, worker and runtime of the desktop |
| `*_proofs` | theorems about the module of that name |
| `MC*` | instances for TLC |

Several MC modules check more than one component. The variable `scene` names the
component and the instance that a behaviour explores and never changes; the other
components' variables rest in their initial state. So a run is the disjoint union
of several checks, a property of it is the conjunction over the scenes, and
nothing is composed by accident. A property of an MC module carries the name of
the component's property it lifts.

A definition preceded by `\* Mutated:` is a seeded fault: the definition after it
with one mistake a programmer could make. No specification uses it; put in place
of the original it must break the property named in `PROJECT.json`, which shows
that the property is about the code.

### TaskStore and TaskLifecycle

Each variable is a column: `progress`, `revision` (`task`), `delegTask`,
`delegRev` (`delegation`), `attemptOf`, `certainty` (`action_attempt`),
`inferred` (`inference_attempt`), `sealed`, `adoptedRev` (`task_result`),
`stamped` (`task_result_attempt`), `undelivered` (outbox). Every operation of
ene-store is one IMMEDIATE transaction under one connection mutex, so it is one
action; its guard is the chain of early returns, its effect the statements after
them, the registration in the outbox included. A refusal writes nothing and is a
stuttering step. `StoreNext` lets any operation arrive with any argument at any
time: what holds of it holds whatever the host above does.

- `RecordResult` has no currentness guard: a late result is kept. It *seals* the
  delegation, and a sealed delegation may claim nothing (`CanStart`).
- `Adoptable` looks at the delegation's attempts (all must be confirmed
  successes) and at all attempts of the task (none may be unknown).
- A resume is one transaction: revision raised *and* delegation written.

`TaskLifecycle` keeps per task an epoch, the crew that works in it, the doubts
(effects nobody can account for) and the answer; the refinement mapping at the
end of `TaskStore` computes them from the tables.

### TaskExecution

The actors are the runs (one per delegation), the command slots and `Host` (the
startup). An action is what a thread does between two points where another can
interleave: a transaction, a lock, a check of memory.

| Code | Model |
|---|---|
| `TaskExecutionRegistry` | `reserved`, `running`, `cancelled`, `scope`, `aborted` |
| `run_task_agent_execution` and what it calls | `RunTake … RunAdopt`, pc in `run[d]` |
| `dispatch_authorized_inner` | `RunInferLock`, `RunInferTx`, `RunAnswer`, `RunAbortWait` |
| `run_workspace_action`, `execute_prepared` | `RunDecideAct`, `RunActLock`, `RunActTx`, `RunLaunch`, `RunEffect*`, `RunSettle`, `RunUnresolved` |
| `propose`, `steer`, `cancel`, `resume`, `delegate_task` | `CmdPropose`, `CmdRead`, `CmdSteer`, `CmdDelegate`, `CmdLaunch`, `CmdCancel`, `CmdSignal`, `CmdResume*`, `CmdRead*` |
| `route_available_result`, `settle_action_certainty`, `reconcile_sealed_results` | `CmdList`, `CmdSettle`, `CmdLookup`, `RouteLoad`, `RouteAdopt`, `RouteEnd`, `Start` |
| `quiesce`, `shutdown_and_join`, `terminate_and_join` | `ShutdownBegin`, `ShutdownAbort`, `ShutdownKill`, `ShutdownExit` |
| the operating system | `Crash`, `OrphanEnds` (external) |

`live` is the set of attempts whose worker holds its request; it survives a crash
of the host. `declared` remembers the attempts whose certainty a person settled:
for those nobody can promise that the worker is done.

### EffectWorker and UsageCap

`EffectWorker` resolves the step that `TaskExecution` calls an effect: the helper
that leases a staging directory, the worker that writes and publishes one file,
authorization through the pipe, the kill, the obligations the host keeps about
processes and directories, and the end of the host. A killed process may take
steps until it dies. `UsageCap` keeps amounts as integers with the code's widths
(`MaxU64`, `MaxI64` scaled down); prices are rates over a denominator and are
rounded up as the code does; a claim computes the bound, admits it under every
cap that applies and reserves it in one transaction.

### DeletionStore, HostTransient, ClientErasure, LearningFormation

An owner stages a request for an exact text, confirms it, and the host starts an
operation. The operation is *reconciled*: page by page, every row that carries
the text becomes a covered source, and every learning formation or inference over
one is held, so that what it forms is refused. The participants erase and report;
when all are verified and nothing remains, it is finalised in two transactions
and its own material destroyed. A remainder or a late arrival opens the next
*sweep*, in which all participants and the reconciliation start again.

| Code | Model |
|---|---|
| `deletion_request`, `deletion_confirmation` | `purpose`, `exactText`, `confirmed` |
| `deletion_operation`, its material, the audit | `phase`, `sweep`, `hold`, `material`, `audit` |
| `deletion_participant` | `progress`, `seenSweep` |
| `deletion_reconciliation`, `erasure_condition_source` | `cursor`, `complete`, `covered` |
| the six tables of `KNOWN_SOURCE_IDENTITIES`; tables only `system_remainder` reads | `body`; `surfaces` |
| `learning_formation(_source)`, `inference_attempt(_data_use)`, `erasure_use_hold` | `formation`, `sources`, `claims`, `dataUse`, `held`, `claimHeld` |

Every command names the sweep it is about and is refused in another one, so an
action takes no sweep. `DeletionNext` lets every command arrive at any time.
`HostTransient` has the copies in the host's memory (queue, pins of rounds,
arrivals) and the driver that asks its participants; `ClientErasure` the evidence
of what was delivered, the demands and the client that wipes and answers. A
connection takes a demand in two steps: it reads the number of the evidence from
the tables (`ReadEvidence`) and then takes what is deliverable from the registry
(`TakeDemand`), and an answer that is accepted clears, in a third step, the evidence
with that number (`Handle`, `Clear`). The variable `late` remembers that a
connection which was no longer current cleared something; what that breaks is in
section 5.
`LearningFormation` the formation itself, its claim, its changes of memories and
the participants that erase summaries, revisions and messages. In these three an
operation is named by the text it deletes and a message says a set of texts.

### DialogueRound, ControlSink, Connections, ConnectionLoop, Presentation

`DialogueRound`: a turn reads its premises, commits the input, calls the provider,
streams, and compares its premises again whenever it commits or publishes; around
it connections are replaced, the presence moves, consents and credentials change
and deletions run. `ControlSink` is a pure stream transducer over symbols: what of
a reply may be shown before it is known not to be a control marker. At its end the
turn scrubs the whole text of the registered credential (`Scrubbed`), reads a
command from the scrubbed text and stores the scrubbed text (`SettleOrdinary`,
`SettleDirective`, `Store`); the deltas were shown as the provider sent them. A
credential is a sequence of symbols of the text, also one that touches the marker
or is cut by a delta. `Connections`
has the table, the nonces, pairing and the home of the companion (generation
compare-and-set, disconnect in two transactions, normalisation at start).
`ConnectionLoop` has the tasks of one accepted connection with their bounded
queues. `Presentation` has passes, pushes, receipts and marks per connection.

### ManagementIntents, ControlSeat, CredentialPublication

`ManagementIntents`: kinds that apply and record in one transaction and kinds that
do so in two; the journal is write-once. `ControlSeat`: requests from anybody,
one seat, sessions that end with the seat or by a deadline that is looked at when
somebody asks. `CredentialPublication`: one action per call to the keystore or
transaction of `publish_credential`, plus the scrubbers that run beside it.

### ClientTransport, ClientConnect, Desktop

`ClientTransport`: the reader drains its overflow into the inbound queue, reads the
socket while there is room (`MayRead`), fails with what it still holds; the
application asks and waits for an answer, puts by what is not the answer, and obeys
demands on the way, at once or, where it wipes for itself (`Defers`), when it is
done. `Parallel` tells whether application and reader run on two threads: then a
place in the queue may appear between two lines of the reader. `ClientConnect`: the
files are shared by all processes; each is replaced in one step; a process may end
between any two. The counter is read and written under a lock the operating system
releases with the process; the pin is read and, where there is none, written in a
step of its own (`TrustFirst`), over whatever another process has written meanwhile.
`Desktop`: a press is put into the mailbox with the marks of that moment (epoch,
generation, edit, task), and the worker executes it only if they still stand. An
erasure clears the runtime, asks the event loop for the windows, and reports.

| Code | Model |
|---|---|
| `read_half`, `fail_with` | `Drain`, `ReadFrame`, `HandOver`, `ReadPing`, `HandPing`, `ReadEnd`, `FailWith*`, `SeeWriterGone` |
| `write_half` | `Pong`, `Write`, `WriterEnds` |
| `request_classified`, `next_frame`, `Transport::read` | `Request`, `NotEnqueued`, `Await*`, `Take*`, `TellFailure` |
| `answer_deletion_demand_if_any`, `report_local_erasure` | `TakeDemand*`, `TakeUndelivered`, `ReportErasure` |
| `boot_incarnation`, `advance_counter` | `BeginBoot`, `Count`, `Advance`, `AdvanceFails` |
| `establish_host_pin`, `finish_connect`, pairing | `LoadRuntime`, `EstablishPin`, `Trust*`, `Dial`, `Provision`, `Denied`, `Authenticate`, `Store`, `First` |
| the host, the owner, the operating system | `StartHost`, `EndHost`, `Revoke`, `RemoveDevice`, `EndProcess` (external) |
| `Mailbox` | `Press*`, `Take`, `DropErased`, `DropDismissed`, `Complete` |
| `worker`, `execute`, `chat_output`, `await_challenge` | `Begin`, `SendReached`, `SendNot`, `Arrives`, `OtherArrives`, `*Ends` |
| `attach_erasure`, `apply_demand`, `apply_pending_erasure` | `Demanded`, `EraseRuntime`, `EraseSurface`, `Report`, `ReportSlow` |

## 3. Runs

| Run | Scenes and instances | What it shows |
|---|---|---|
| `store` | 2 tasks, 2 delegations, 2 attempts, 3 revisions; 316k states | adoption is unique and current, completion confirmed, stamps exact, the outbox is exactly the facts of the tables; the tables implement `TaskLifecycle` |
| `execution` | 1 task, 2 executions of 2 turns, 2 attempts, 3 commands in 2 slots, 1 restart; 501k | claims and registry agree, live effects are in doubt, one delegation per revision, nothing works out of turn |
| `effects` | `caps` two providers under a common cap; `rows`, `consents`, `lowered` unreported usage, failing stores, a crash, a lowered cap; `prices` four rates for one call; `create`, `replace`, `both` one or two effects; 1.2M | consumption rises only by a claim within the cap and falls only by a report, the summary stays readable, what is recorded of an effect happened, what it left is owed |
| `deletion` | `rows` two requests for one text; `memory`, `arrivals` the host's memory under two rounds or two operations; 617k | no order of transactions makes corrupt rows or two operations on one text; a completed one stays so and leaves no copy in the host |
| `erasure` | `uses` rows read in pages of one under a formation and an inference; `client` two connections of a client, one deletion of two sweeps and a restart, `twice` two deletions over one connection and an answer that fails, `again` two deletions over two connections; `wipes`, `beside`, `asks` what its library reads ahead and puts by, on one thread and on two; `learn`, `known`, `secret` formations of two messages; 1.5M | covered uses are held, reconciled rows known, what comes too late refused, a client that has a text is on record unless evidence was cleared late, it is wiped when the deletion completes, and nothing older shown after its library answered |
| `dialogue` | `overtake`, `again`, `moves`, `deleted`, `streams` turns of two devices; `sink` texts of symbols, with no credential or one of two; `race` two publications of one credential, `texts` publications in turn and a writer, `calls` publications in turn and a provider call; 1.4M | replies follow their input, a command is one row, nothing swept returns, what is shown is stored, scrubbed; one winner per revision, active items are kept, retired ones accounted for, stored texts clean |
| `connections` | `reconnect`, `pair`, `crowd` the table; `frames`, `replies` one connection; `reports`, `push`, `confirm` presentation; 1.0M | one current connection per device, handshakes are answered once, frames are not lost, reported means shown, a push repeats nothing |
| `owner` | `desktops` two desktops and two requests, `full` three requests of which two may wait, `restated` a desktop whose waits run out, a deletion stated again and a stop; `assign`, `setup`, `tasks`, `mixed` intents; `writes`, `confirms`, `cancels` the mailbox of a desktop; `reach` two processes, two keys and a host that starts twice; 1.4M | a settled request stays settled, a refused one is not applied, an intent has its effect once and its answers agree, what a desktop executes is what was pressed and what it reported wiped is gone, a client keeps to the host it trusts |
| `ends` | fair; `loop` a connection, `stream` a turn, `calls` a claim with two crashes, `effect` a stop, `work` the host with 1 execution and 1 effect; 68k | connections end promptly and join, streams close, reservations settle, a stop ends; cancel drains, commands end, the shutdown ends |
| `settlement` | expected violation, section 5 | a result stays withheld although its last doubt is settled |
| `evidence` | expected violation, section 5; two connections of a client, two deletions | a late clear and numbers that start again lose the record of a body that was sent |
| `client_order` | expected violation, section 5; one connection of a client beside an application on another thread | a demand overtakes a body that was sent before it |

Why the bounds are enough. *Tasks*: every property relates at most two
delegations of one task and the attempts of either; two turns let a claim be put
together from two attempts; two command slots give every pair of commands all
interleavings while a third command prepares the state they race in; a restart
forgets all that is not in the tables, and the tables are arbitrary in `store`.
*Deletion*: operations meet only over one text; two participants are the least
for one to be verified while the other is not; two rows and pages of one put a
row behind, at and before the cursor. Operations on different texts share the uses
they hold and, at a client, the row of evidence and the one pending demand: one
operation over two connections and two sweeps lets an old answer meet a new demand
of the same operation, two operations over one connection or two let it meet the
demand of the other; with two bodies one is noted before a demand is taken or its
answer cleared and one after, which is enough for the numbers to start again
(`evidence`). *Connections*: two connections of one device supersede each
other; a third meets them only one after the other. *Queues* have capacity one or
two, the least at which full, half full and empty differ. *Caps*: amounts are
scaled so that a bound, a cap and the width of a column are a few claims apart;
two days and a month of two days make a call straddle each boundary. *Intents*:
two handlers are the two business tasks that can hold one intent; three intents
give the kinds that race for one state. *Credentials*: three versions are the
active one, its rival and the next. *Clients*: two processes
race for one file, and each reads what the other left; the queues of a connection
have capacity one, so a frame is in every place in turn. *Desktop*: two texts are
the one that is erased and the one typed meanwhile. The theorems of section 4 need
no bound.

Named bounds scaled down from the code: `MaxRevision` (`TaskRevision`),
`MaxTurns` (`DEFAULT_MAX_TURNS`), `MaxSweep` (`checked_add`), `PageSize`,
`QueueCap`, `Buffer`, `ReadAhead`, `ControlCap`, `SeenCap`, `PageLimit`,
`MaxPendingPairings`, `MaxDeferred` (`DEFERRED_LIMIT`), `MaxGeneration`, `MaxPending`, `MaxEntries`
(`MAX_FORMATION_CHANGES`), `MaxU64`, `MaxI64`, `Queue` (`TRANSPORT_QUEUE`),
`DeferredCap` (`DEFERRED_CAP`), `StashCap` (`PENDING_ERASURE_CAP`), `MaxCounter`
(the counter's width), `Cap` (the mailbox). Bounds of behaviours: `MaxCommands`,
`MaxRestarts`, `MaxCrashes`, `MaxFails`,
`MaxFrames`, `MaxSends`, `MaxWorld`, `MaxErasures`, `MaxTexts`, `MaxLocked`,
`MaxWaits`, `MaxAsks`, `MaxMoves`, `MaxChanges`, `MaxConsent`, `MaxDay`,
`MaxReplies`, `MaxRequests`, `MaxSeats`, `MaxSettled`, `MaxPieces`, `MaxGen`,
`MaxRows`, `MaxBodies`, `MaxPings`, `MaxStarts`, `MaxBoots`, `MaxTyped`,
`MaxPressed`, `MaxDemands`, `MaxChallenges`, `MaxSlow`; ids run out with their sets. Deadlock is
not checked: when ids and bounds are used up the systems rest. `StorageFails` and
`StoreFails` let a write fail technically; `StorageFails` is off in `settlement`,
where a failed adoption would be an excuse.

Fairness. Runs, commands, handlers, loops and turns are tasks of a multi-threaded
tokio runtime, polled until they end: weak fairness of each one's steps. The commit
scope is a tokio mutex, a FIFO queue whose holders await only store transactions:
strong fairness of the steps that take it, which is the premise `ScopeFair` of
`WorkEnds`, because nothing else needs it. The `select!` of the connection loop is
`biased` (`conn.rs:1150-1159`): shutdown, the monitor's tick, the end of the socket,
pings, timer and pairing, dispatch, new frames, wakeups and last the output of the
business task. So a branch is weakly fair only while no branch above it is ready
(`Calm`, `DispatchInTurn`, `FrameInTurn`, `WokenInTurn`, `OutputInTurn`). Output has
no claim to a turn: pings or wakeups that come without end are served first, and
`FailureEnds` (a worker that failed on an idle connection ends it) says so by
its exception `Pressed`. Processes that were killed die: weak fairness. Neither the
provider's answer nor the end of a healthy worker nor any command, frame, owner's
decision or start of the host is fair; the startup pass of `UsageCap` is, once the
host starts, because it is a function that runs to its end.

## 4. Proofs

TLAPS checks every theorem for all values of the constants. A specification a
theorem is about needs no `RECURSIVE` operator; its constants carry only the
assumptions named below, and TLC evaluates each of them in a run. Every
inductive invariant was first checked by TLC on the instance of the run.

**`TaskStore_proofs`** assumes that `None` names no row (`NoneAssumption`) and
that there is a first revision (`RevisionAssumption`). The sets of tasks,
delegations and attempts are arbitrary, and any caller may call any transaction
with any arguments.
- `Typing`: the domains of the columns (`StoreTypeOK` is inductive by itself).
- `CompletedOnce`, `CompletedConfirmed`, `StampedForGood` follow from
  `AdoptionInv`. The three properties are not inductive: that no unknown effect
  appears under a completed task needs to know that a row of `action_attempt` is
  opened only under a working task, that an adopted delegation carries the
  task's revision, and that two adopted delegations of one task are one.
  `AdoptedRow(d)` collects what an adoption leaves behind, `RowsBound` what the
  existence of a delegation implies.
- `OutboxTold` (`OutboxComplete`): `OutboxInv` says for each kind of fact which
  ones are present. It needs that facts of two kinds differ and that a fact names
  its row (`KindsDiffer`, `SubjectsNamed`), and that an absent task has revision 0.
- `TablesImplementLifecycle` (`LifecycleSpec`): under the mapping of `TaskStore`
  every transaction is one action of `TaskLifecycle` or a stutter. One lemma per
  transaction (`CreateMaps` to `FinishMaps`); a resume and a new delegation map
  to handing out work, a row of the outbox to nothing.

**`TaskExecution_proofs`** additionally assumes that the actors have different
names and that the bounds are naturals.
- `ExecutionUsesTables`: each step of a run, a command, the startup pass, a
  shutdown or a crash is one transaction of `TaskStore` or leaves the tables
  alone (`StoreStep`), so `ExecSpec => StoreSpec` and what is proved of the
  tables for any caller holds of the running host.
- `ExecInv` is the inductive invariant of the host. Its parts are there because
  a step reads what an earlier one remembered: `CmdShape` (what a command read
  in one transaction and uses in another; a claim it loaded is still complete,
  because its delegation was sealed before), `RunShape` (a run counts its own
  attempts, the one in hand included), `Registered` (a reservation has somebody
  who takes or releases it), `Scoped` (a run between the abort check and its
  claim holds the commit scope), `Doubtful` (an attempt whose worker is alive is
  unknown, unless the owner declared it), `HandedOnce` (a command about to
  delegate is alone with its revision) and `Begun` (rows that exist have a
  revision). It includes `AdoptionInv`: what makes a completed task
  free of live effects is that an adoption saw none unknown.
- From it: `ClaimsAndRegistry` (`ExecInvariant`), `DoubtWhileAlive`
  (`EffectsAccounted`), `RevisionHandedOnce` (`OneDelegationPerRevision`) and the
  action property `WorkInTurn` (`NoWorkOutOfTurn`).

**`DeletionStore_proofs`** assumes that marks, texts and participants have
different names, that rows are a finite set of positive numbers, and that page
size and sweep bound are positive.
- `DeletionTyping` and `WellFormedRows` (`ValidRows`: what
  `validate_operation_rows` would reject is never written) from `RowsInv`, which
  adds that an operation not begun has no participant, cover or audit.
- `OneOperation`, and the action property `CompletionFinal`.
- `UsesHeld`: a use of a covered source is held, in whatever order the claim, the
  cover and the publication came.
- `RowsCovered`: a complete reconciliation knows every row that carries the text.
  The invariant is `ScannedCovered`: the rows up to the cursor are known. It
  rests on two lemmas: no transaction writes a covered text into a row
  (`NoCoveredTextStored`), and `PageSkipsNoRow`, the arithmetic of one page: for any page size, no row
  that carries the text is between the old cursor and the new one without being
  in the page; this is what a test with one page never sees.

**`CredentialPublication_proofs`** takes `CredentialPublicationAssumption` as its
only hypothesis: the bounds are naturals, and `None` names no credential,
mutation, secret, caller, phase or outcome. Sets of publications, texts and
provider calls are arbitrary. The inductive invariant `CredInv` has one part for
each thing a step relies on:
- `RowShape`: a row's outcome follows its phase, and an activation was drawn up
  under a revision that is over, so no later commit can win that revision again;
- `CallShape`, `Apart`: between its calls a publication's row is its own and
  undecided, the item it read back is still there, it holds the lock from the
  commit to the copy, and no other publication carries its mutation;
- `Kept`, `Listed`: an active version has its item and is in no removal list; a
  displaced one is listed until its item is gone. They need `ActiveForGood`: no
  step undoes an activation, so a list read before a refusal, a crash or another
  activation never names a version that becomes active afterwards;
- `Copied`: memory has the active version of a reference except between an
  activation and its copy, also across the three steps of the startup;
- `Scrubbing`: a text whose revision is still current was scrubbed of every
  secret that is active, unless it was scrubbed in that moment.

From it follow `OneWinnerPerRevision` (`OneWinner`) and `CredentialsKept`
(`CredentialsSafe`).

**`Connections_proofs`** takes `ConnectionsAssumption` as its only hypothesis: the
bounds are naturals, and `None` and `"before"` name no connection, device or
request. Any number of connections, devices and requests is allowed, storage may
fail, and a business task may go on after its loop has closed the connection. The
inductive invariant `ConnInv` adds to the properties:
- `RecordShape`: a connection has a device exactly from the pairing or challenge
  on, and one whose loop has closed has no record, so nothing its business task
  still does brings it back;
- `LockShape`: the table lock that spans two transactions belongs either to a close
  or to an attachment;
- `GenerationLeft`: a present home always has a generation left to be given up;
- `Handed`: who was handed a secret has left the phase in which another provision
  is taken;
- `Creating`, `RequestsBounded`: between counting the open requests and inserting
  one, the pairing lock is held and their number only falls.

From it follow `OneCurrentConnection` (`CurrentExact`) and `HandshakeKept`
(`HandshakeSafe`).

**`ControlSeat_proofs`** takes `ControlSeatAssumption` as its only hypothesis. Any
number of requests, desktops and sessions is allowed; a desktop may die, be
replaced or run out of patience between any two steps. The inductive invariant
`SeatInv` adds to the properties what the host, the seat and the desktop each rely
on:
- `SessionLive`: a session that is not spent belongs to the present seat and to a
  request that waits and that nobody works on; `Working`: a request has one task at
  most, and its session is spent by then;
- `Named`, `MintedReqs`: ids of sessions are used once;
- `Secured`, `Completing`: a registration completes, or is answered as staged, only
  for a request that carried its secret;
- `Talking`, `Talks`, `Heard`: a live desktop talks of one request, with one frame,
  one task or one answer under way, unless one of its waits ran out; this is what
  an answer it reads is about;
- `TaskOrigin` (a lemma): a task is about what the confirmed session was minted for.

From it follow `SeatKept` (`SeatSafe`) and the action property `ToldOnce`
(`SettledIsFinal`).

**`UsageCap_proofs`** takes `UsageCapAssumption` and `NoneIsNoRow` (`None` is no row,
price or count). Calls, providers, prices, limits and widths are arbitrary; any
transaction may fail and the process end anywhere. The inductive invariant
`UsageInv` adds to the properties:
- `Carried`: a call under way has the route and the estimate it was admitted with,
  and what was reported about it is consistent;
- `Accounted`: a claimed call has its attempt and no fact, and its reservation is
  open at the bound of its estimate, so the settlement compares a report with the
  bound of the same price and the same estimate;
- `Rowless`, `StartsQuiet`: a call without an attempt has no row, and no call is
  under way when the startup pass settles what is open.

From it follow `PageReadable` (`AccountsKept`) and, where reports keep to the
request (`Honest`), `CostWithinBound`: the lemmas `CeilOfParts`, `CeilGrows` and
`BoundCoversReport` show that rounding cached and fresh input up apart costs at most
one unit more than rounding their sum, for every price, denominator and count. The
other half of the caps, `RisesWithinCaps`, is a statement about a sum over all
calls, which is induction over a set, and stays with TLC.

**`ClientConnect_proofs`** takes `ClientConnectAssumption` as its only hypothesis. Any
number of processes share the directory, the host may start with any key, and a
process may end between any two steps. The inductive invariant `ConnectInv` is
`HostShape` and `FileShape` (the types), `LockShape` (who reads or writes the counter
has the lock), `Counted` (who writes it still has the value it read, plus one, and
nothing past the counter was handed out: this is what fails when the counter is read
outside the lock), `Pinned` (a process that talks to the host has a key that was
trusted, on its first use or by a confirmation; the file itself may meanwhile hold
another trusted key) and `DeviceKnown`. From it follows `ConnectKept` (`ConnectSafe`).

What stays with TLC, and why. *Liveness* (`WorkEnds`, `EndsCome`,
`SettlementCompletes`) and everything about ENABLED is beyond the prover.
*Induction over data*: that a parser or a queue treats every sequence right
(`ControlSink`) would need the induction theorems, whose operator parameter no
installed prover instantiates. *Not proved so far*, but within reach: the
properties of `ConnectionLoop` and `Presentation`, `HostTransient`,
`ClientErasure` and `LearningFormation`, `DialogueRound`,
`ManagementIntents`, `EffectWorker`, `ClientTransport` and `Desktop`. They hold on the bounds of section 3 and
nothing is claimed beyond them.

## 5. Where the code and its documents differ

Three disagreements are kept as runs. *A settlement looks only at its own
delegation* (`settlement`, `SettlementCompletes`):
`reevaluate_sealed_result_for_attempt` re-evaluates the result of the settled
attempt's delegation; the result of a later delegation, withheld by that very
attempt, is not looked at until a resume or a restart, although acceptance S5-20
(`docs/requirements/acceptance.md:109`) lets the settlement complete the task.

*A frame overtakes the frames read ahead of it* (`client_order`, `DemandOrderKept`):
`read_half` (`ene-client/src/transport.rs:502`) polls the queue for a place, takes a
frame from the socket while the queue is still full, and hands that frame to
`try_send` whether or not older ones wait in `read_ahead`. An application on another
thread (the desktop's runtime has several, `shell.rs:329`) may take a frame in
between; then the newest frame gets the place. A demand is answered as wiped and a
body sent before it is shown afterwards, although `host-client-ipc.md:663` promises
that demands and bodies keep their order on a connection. Where both take turns on
one thread the order holds, which `ClientSafe` checks.

*The record of a delivery is lost* (`evidence`, `EvidenceOnRecord`): the row of
`client_delivery_evidence` is told apart by its number only, and once deleted it
begins with 1 again (`client_delivery.rs:25`). The answer to a first demand is accepted
on one connection and its clear of number 1 delayed; the client connects again, and
the loop of the new connection reads number 1 for the next demand. Now the old clear
deletes the row, a body is noted as number 1 and sent behind the demand, and the answer
to the demand deletes that row too, although the client has since received the
body. `targeted-deletion-lifecycle.md:232` says the record is cleared by a verified
erasure only, whatever connections are replaced. Where no connection clears late,
`EvidenceSafe` and `CompletedClientWiped` hold in the run `erasure`.

The following statements were found false of the models, and with them of the
code, while the models were written. They are recorded for whoever edits the
documents or the code; properties above are stated so as not to depend on them.

| Document or comment | says | the code |
|---|---|---|
| `acceptance.md:106` (S5-17) | a registered execution blocks a resume | `task_has_reservation_or_running` reads `running`, then `reservations`; `take_reservation` moves an execution between the two without the scope, so a resume can see neither. The older run finds its premise outdated at its next check |
| `targeted-deletion.md:302` | the text is removed from every area that could restore it | a second request for it, staged under the other purpose and confirmed while the operation runs, keeps `exact_text` |
| `targeted-deletion.md:202` | what used the data is refused, even after the completion | a memory shown in a prompt is a use from the claim on; a deletion that begins and completes between the listing and the claim does not stop the formation |
| `targeted-deletion.md:75` | what cannot be separated from the data depends on it | a summary depends on the first and the last message of its range only |
| `migrate.rs:209` | a hold loses its force once its claim settles | nobody settles the row of a formation the process died in; its hold refuses inferences over its other messages for ever |
| `targeted-deletion-lifecycle.md:232` | body and condition are compared at the point of sending | an operation that began after the read and completed before the comparison is not compared with |
| `host_pin.rs:77` | only a confirmation replaces a differing pin | two clients that both found no pin write one after the other; when the host was started with another key in between, the second replaces the first's pin unasked |
| `context-assembly.md:236`, `concurrency-control.md:612` | nothing deleted returns from an old context; use and condition are compared where the use begins | the fence is read after the prompt is assembled; the message just submitted is no source of its own prompt |
| `interface-boundaries.md:508` | a technical failure interrupts the stream | when the note of the last delivery fails, the piece held back is not sent and the stream is closed as completed |
| `interface-boundaries.md:1236`, `credential-publication.md:45` | no raw chunk of a provider is handed to the client | the deltas are pushed as the provider sends them (`core/dialogue.rs:1234`); only the whole text is scrubbed, for the command read from it and for the row, so a credential in a reply is shown and not stored |
| `host-client-ipc.md:515` | partial display is no evidence | a confirmation marks every undelivered row of the round, whatever stream it is about |
| `host-client-ipc.md:997` | a failed presentation stays unknown | a second failed confirmation turns it back into pending |
| `concurrency-control.md:602` | new facts are announced to a connection | an erasure drops the subscriptions; later rows are not pushed until the client asks |
| `acceptance.md:102` (S5-13) | only the original client recovers the presence | whichever client submits a text attaches it |
| `host-client-ipc.md:446` | a disconnect falls back to a client on the host | the selection of a fallback has no caller |
| `conn.rs:910` | a write past the bound ends the connection | a push that fails blocks pushes, and the connection goes on |
| `usage-cost-cap.md:191` | a request is sent in the window it was reserved for | the clock is not compared again before the transport is called |
| `usage-cost-cap.md:303` | usage of a crashed call is unknown | a call without a cap has no reservation and gets no usage fact |
| `concurrency-control.md:493` | an unused reservation is released | an abort before the transport is polled commits it as unknown |
| `host-client-ipc.md:703` | "held" means not yet decided | registrations and deletions under way are journalled as held, and answered so later |
| `host-client-ipc.md:693` | "applied" means applied | a workspace is journalled before it is selected, and forgotten by a restart |
| `stage6_e2e.rs:2701` | a replayed intent observes the stored decision | a cap whose record was lost is answered as stale when repeated |
| `host-client-ipc.md:697` | a stale view is refused | a view's mark has the revision and not the identity of a consent; an erasure starts revisions again |
| `first-party-desktop.md:148`, `:201`, `:205` | the owner confirms what is shown, every request is shown, an outcome is its own | the desktop takes the next challenge or outcome of the kind on its channel, and reads it only while it waits |
| `first-party-desktop.md:150` | closing and committing are serialised | a session is spent under the lock of the seat and executed after it |
| `credential-publication.md:39`, `:56` | the scrubber takes secrets and revision together; old secrets are scrubbed too | it reads them one after the other, and knows the active ones only |
| `credential-publication.md:33`, `:41` | unused candidates are cleaned up; a call uses the secret it was claimed with | candidates that were never active are listed nowhere; the secret is read when the request is built |
| `PROGRESS.md:13` | a staging directory is cleaned after a hard stop | when it cannot be opened after it was made, nobody owes its removal |

## 6. Not modelled, and what could be next

In the modelled components: see the notes of `PROJECT.json`; in short, wording
and layout, relevance and ranking of memories, cursors of management views, agent
observations and reports, resolution of paths and links, process handles, TLS.
`ene-ctl` calls the client library and the same handlers of the host; the body, the
codecs and the configuration keep no state of their own. The rows each participant
rewrites are one step per participant; keyset paging is modelled where a property
depends on it (reconciliation, presentation, undelivered rows).

Possible next steps: the resolution and publication of files in `ene-action`
under changes by others; keyset paging of the management views; `ClientTransport`
and `Connections` as the two ends of one connection; proofs for the modules that
section 4 lists as only model-checked.
