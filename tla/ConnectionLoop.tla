--------------------------- MODULE ConnectionLoop ---------------------------
(***************************************************************************)
(* One accepted connection of the ene host: the task that reads its        *)
(* socket, the loop that owns its output, the business task that handles   *)
(* its frames one at a time, the learning worker the business task owns,   *)
(* and the shutdown that joins them all.                                   *)
(*                                                                         *)
(* What a frame does is left out: its handler answers some frames and      *)
(* ends, fails, or waits for a provider until the host aborts it.  Waiting *)
(* is told apart from time: a peer has been silent for a moment, long      *)
(* enough to be suspected, or for too long.                                *)
(***************************************************************************)
EXTENDS Naturals, Sequences, FiniteSets, SequencesExt

CONSTANTS
    Ids,          \* message ids of the peer's frames; a peer may repeat one
    MaxFrames,    \* bound: frames the peer sends
    Buffer,       \* STREAM_BUFFER_FRAMES: frames, held, business_out, replies
    ReadAhead,    \* READ_AHEAD_FRAMES
    ControlCap,   \* pings the reader hands over before it waits
    SeenCap,      \* SEEN_MESSAGE_CAP
    MaxReplies,   \* bound: replies of a handler
    WriteFails,   \* whether a write may pass its bound
    Panics        \* whether handlers and workers may panic

ConnectionLoopAssumption ==
    /\ MaxFrames \in Nat /\ MaxReplies \in Nat
    /\ {Buffer, ReadAhead, ControlCap, SeenCap} \subseteq Nat \ {0}
    /\ WriteFails \in BOOLEAN /\ Panics \in BOOLEAN

VARIABLES
    loop,        \* the serving task of the connection
    reader,      \* read_ws_frames
    got,         \* the frame the reader has decoded
    window,      \* read_ahead
    frames,      \* frames_tx .. frames_rx
    pings,       \* control_tx .. control_rx
    idle,        \* the peer's silence: 0, 1 = SUSPECT_AFTER, 2 = LIVENESS_LIMIT
    held,        \* frames the loop has taken and not dispatched
    suspected, busy, terminal, pushBlocked,
    template,    \* whether a frame was handled before: pushes answer it
    wake,        \* an undelivered or demand wakeup, or a receipt deadline
    seen,        \* seen_messages
    jobs,        \* jobs_tx .. jobs_rx, of capacity one
    business,    \* run_business
    replies,     \* frame_tx .. frame_rx of the frame that is handled
    relay,       \* the reply run_business_frame waits to hand over
    out,         \* business_out
    learning,    \* the learning worker
    gate,        \* admission_stopped
    stop,        \* the stop watch of the handlers
    abort,       \* the dispatch abort
    read,        \* how many frames the reader took from the socket
    handled,     \* frames that were handled, in order
    refused,     \* frames refused as repeated
    brokenPipe,  \* a write failed
    panicked,    \* a handler or worker panicked
    failure      \* the host was told of a panic

readVars  == <<reader, got, window, pings, idle>>
loopVars  == <<loop, held, suspected, terminal, template, pushBlocked, seen>>
businessVars == <<business, replies, relay, learning>>
hostVars  == <<gate, stop, abort>>
historyVars == <<read, handled, refused, panicked>>
vars == <<readVars, frames, loopVars, busy, wake, jobs, businessVars, out, hostVars,
          historyVars, brokenPipe, failure>>

-----------------------------------------------------------------------------
\* A frame with its place in the stream.
Frames == [n : 1..MaxFrames, id : Ids]
\* What the business task tells the loop.
Reply(n) == [kind |-> "reply", n |-> n]
Done == [kind |-> "done", n |-> 0]
Failed == [kind |-> "failed", n |-> 0]
\* The business task between two frames.
Without(pc) == [pc |-> pc, job |-> <<>>, answers |-> 0]
\* The frames of a queue, by their place in the stream.
Numbers(queue) == {queue[i].n : i \in DOMAIN queue}

TypeOK ==
    /\ loop \in {"upgrade", "run", "closing", "joining", "over"}
    /\ reader \in {"off", "poll", "got", "ping", "ended"}
    /\ got \in Seq(Frames) /\ Len(got) <= 1 /\ window \in Seq(Frames) /\ Len(window) <= ReadAhead
    /\ frames \in Seq(Frames) /\ Len(frames) <= Buffer /\ held \in Seq(Frames) /\ Len(held) <= Buffer
    /\ jobs \in Seq(Frames) /\ Len(jobs) <= 1
    /\ pings \in 0..ControlCap /\ idle \in 0..2
    /\ {suspected, busy, terminal, pushBlocked, template, wake} \subseteq BOOLEAN
    /\ seen \in Seq(Ids) /\ Len(seen) <= SeenCap
    /\ business.pc \in {"idle", "run", "send", "flush", "done", "drain", "over"}
    /\ business.answers \in 0..MaxReplies
    /\ Len(replies) <= Buffer /\ Len(out) <= Buffer
    /\ learning \in {"none", "running", "failed"}
    /\ {gate, stop, abort, brokenPipe, panicked, failure} \subseteq BOOLEAN
    /\ read \in 0..MaxFrames /\ handled \in Seq(Frames) /\ refused \in SUBSET (1..MaxFrames)

Init ==
    /\ loop = "upgrade" /\ reader = "off" /\ got = <<>> /\ window = <<>> /\ frames = <<>>
    /\ pings = 0 /\ idle = 0
    /\ held = <<>> /\ suspected = FALSE /\ busy = FALSE /\ terminal = FALSE
    /\ pushBlocked = FALSE /\ template = FALSE /\ wake = FALSE /\ seen = <<>>
    /\ jobs = <<>> /\ business = Without("over") /\ replies = <<>> /\ relay = <<>>
    /\ out = <<>> /\ learning = "none"
    /\ gate = FALSE /\ stop = FALSE /\ abort = FALSE
    /\ read = 0 /\ handled = <<>> /\ refused = {} /\ brokenPipe = FALSE
    /\ panicked = FALSE /\ failure = FALSE

-----------------------------------------------------------------------------
(* Accepting and reading                                                   *)

\* PendingUpgrade: the handshake ends, or runs into its timeout or the stop.
Upgrade ==
    /\ loop = "upgrade"
    /\ \/ ~stop /\ loop' = "run" /\ reader' = "poll" /\ business' = [business EXCEPT !.pc = "idle"]
       \/ loop' = "over" /\ UNCHANGED <<reader, business>>
    /\ UNCHANGED <<got, window, pings, idle, frames, held, suspected, terminal, template,
                   pushBlocked, seen, busy, wake, jobs, replies, relay, learning, out, hostVars,
                   historyVars, brokenPipe, failure>>

\* The reader drains its window first; only a full channel lets it read on.
MayRead == reader = "poll" /\ (window = <<>> \/ Len(frames) = Buffer)
Drain ==
    /\ reader = "poll" /\ window # <<>> /\ Len(frames) < Buffer
    /\ frames' = Append(frames, Head(window)) /\ window' = Tail(window)
    /\ UNCHANGED <<reader, got, pings, idle, loopVars, busy, wake, jobs, businessVars, out,
                   hostVars, historyVars, brokenPipe, failure>>

ReadFrame(id) ==
    /\ MayRead /\ read < MaxFrames
    /\ read' = read + 1 /\ got' = <<[n |-> read + 1, id |-> id]>> /\ reader' = "got" /\ idle' = 0
    /\ UNCHANGED <<window, pings, frames, loopVars, busy, wake, jobs, businessVars, out,
                   hostVars, handled, refused, panicked, brokenPipe, failure>>

\* Mutated: a frame that finds the channel full is dropped.
HandOverDropping ==
    /\ reader = "got"
    /\ got' = <<>> /\ reader' = "poll"
    /\ frames' = IF Len(frames) < Buffer THEN frames \o got ELSE frames
    /\ UNCHANGED <<window, pings, idle, loopVars, busy, wake, jobs, businessVars, out,
                   hostVars, historyVars, brokenPipe, failure>>
\* try_send: the loop may have taken a frame since the channel was polled, so
\* the frame can pass those in the window.  No room in either ends the reader.
HandOver ==
    /\ reader = "got"
    /\ got' = <<>>
    /\ \/ /\ Len(frames) < Buffer
          /\ frames' = frames \o got /\ reader' = "poll" /\ UNCHANGED window
       \/ /\ Len(frames) = Buffer /\ Len(window) < ReadAhead
          /\ window' = window \o got /\ reader' = "poll" /\ UNCHANGED frames
       \/ /\ Len(frames) = Buffer /\ Len(window) = ReadAhead
          /\ reader' = "ended" /\ UNCHANGED <<window, frames>>
    /\ UNCHANGED <<pings, idle, loopVars, busy, wake, jobs, businessVars, out, hostVars,
                   historyVars, brokenPipe, failure>>

\* A ping is handed to the loop; the reader waits while it has too many.
ReadPing ==
    /\ MayRead /\ reader' = "ping" /\ idle' = 0
    /\ UNCHANGED <<got, window, pings, frames, loopVars, busy, wake, jobs, businessVars, out,
                   hostVars, historyVars, brokenPipe, failure>>
HandPing ==
    /\ reader = "ping" /\ pings < ControlCap
    /\ pings' = pings + 1 /\ reader' = "poll"
    /\ UNCHANGED <<got, window, idle, frames, loopVars, busy, wake, jobs, businessVars, out,
                   hostVars, historyVars, brokenPipe, failure>>

\* Close, end of file, a broken frame.
ReadEnd ==
    /\ MayRead /\ reader' = "ended"
    /\ UNCHANGED <<got, window, pings, idle, frames, loopVars, busy, wake, jobs, businessVars,
                   out, hostVars, historyVars, brokenPipe, failure>>

\* The peer stays silent for longer.
Silence ==
    /\ loop = "run" /\ idle < 2 /\ idle' = idle + 1
    /\ UNCHANGED <<reader, got, window, pings, frames, loopVars, busy, wake, jobs,
                   businessVars, out, hostVars, historyVars, brokenPipe, failure>>

-----------------------------------------------------------------------------
(* The loop                                                                *)

loopRest == <<got, window, businessVars, hostVars, read, handled, panicked, failure>>
Break == loop' = "closing"
\* Held work that may be dispatched is ready at once; what the select lists
\* below it waits.
DispatchReady == ~busy /\ ~suspected /\ held # <<>>
\* A write that passes WRITE_WAIT or fails ends the loop.
WriteOrBreak ==
    \/ UNCHANGED <<loop, brokenPipe>>
    \/ WriteFails /\ Break /\ brokenPipe' = TRUE

\* Mutated: the end of the socket is seen between two frames only.
LoopEndsIdle ==
    /\ loop = "run" /\ Break
    /\ stop \/ (reader = "ended" /\ ~busy)
    /\ UNCHANGED <<loopRest, reader, pings, idle, frames, held, suspected, terminal, template,
                   pushBlocked, seen, busy, wake, jobs, out, refused, brokenPipe>>
\* wait_for_shutdown and ended_rx end the loop, whatever the business task does.
LoopEnds ==
    /\ loop = "run" /\ Break
    /\ stop \/ reader = "ended"
    /\ UNCHANGED <<loopRest, reader, pings, idle, frames, held, suspected, terminal, template,
                   pushBlocked, seen, busy, wake, jobs, out, refused, brokenPipe>>
\* The business task is over and its last message taken.
OutputCloses ==
    /\ loop = "run" /\ Break
    /\ ~DispatchReady /\ out = <<>> /\ business.pc = "over"
    /\ UNCHANGED <<loopRest, reader, pings, idle, frames, held, suspected, terminal, template,
                   pushBlocked, seen, busy, wake, jobs, out, refused, brokenPipe>>

\* The monitor's tick: a silent peer is suspected, then given up; the host
\* pings it.
Monitor ==
    /\ loop = "run"
    /\ IF idle = 2 THEN Break /\ UNCHANGED <<suspected, brokenPipe>>
                   ELSE suspected' = (idle >= 1) /\ WriteOrBreak
    /\ UNCHANGED <<loopRest, reader, pings, idle, frames, held, terminal, template,
                   pushBlocked, seen, busy, wake, jobs, out, refused>>

Pong ==
    /\ loop = "run" /\ pings > 0 /\ pings' = pings - 1
    /\ WriteOrBreak
    /\ UNCHANGED <<loopRest, reader, idle, frames, held, suspected, terminal, template,
                   pushBlocked, seen, busy, wake, jobs, out, refused>>

\* advance_output: a push or demand is written, or there is nothing; one that
\* cannot be written blocks those that follow, and the loop goes on.
AdvanceOutput ==
    \/ UNCHANGED <<pushBlocked, brokenPipe>>
    \/ /\ WriteFails /\ template /\ ~pushBlocked
       /\ pushBlocked' = TRUE /\ brokenPipe' = TRUE

Woken ==
    /\ loop = "run" /\ wake /\ ~busy /\ ~DispatchReady
    /\ wake' = FALSE /\ AdvanceOutput
    /\ UNCHANGED <<loopRest, reader, pings, idle, frames, loop, held, suspected, terminal,
                   template, seen, busy, jobs, out, refused>>

\* Mutated: a repeated frame is dispatched again.
DispatchRepeats ==
    /\ loop = "run" /\ DispatchReady
    /\ held' = Tail(held) /\ jobs' = <<Head(held)>> /\ busy' = TRUE
    /\ seen' = IF Len(seen) = SeenCap THEN Append(Tail(seen), Head(held).id)
                                      ELSE Append(seen, Head(held).id)
    /\ UNCHANGED <<loopRest, reader, pings, idle, frames, loop, suspected, terminal, template,
                   pushBlocked, wake, out, refused, brokenPipe>>
\* live_for: the table's gate, the ids it has seen lately, and the connection
\* itself decide what becomes of the first held frame.
Dispatch ==
    LET frame == Head(held)
    IN  /\ loop = "run" /\ DispatchReady
        /\ held' = Tail(held)
        /\ \/ /\ ~gate /\ Contains(seen, frame.id)
              /\ refused' = refused \cup {frame.n}
              /\ UNCHANGED <<loop, seen, busy, jobs>>
           \/ /\ ~gate /\ ~Contains(seen, frame.id) /\ business.pc # "over"
              /\ seen' = Append(IF Len(seen) = SeenCap THEN Tail(seen) ELSE seen, frame.id)
              /\ busy' = TRUE /\ jobs' = <<frame>>
              /\ UNCHANGED <<loop, refused>>
           \/ /\ gate \/ business.pc = "over"
              /\ Break /\ UNCHANGED <<seen, busy, jobs, refused>>
        /\ UNCHANGED <<loopRest, reader, pings, idle, frames, suspected, terminal, template,
                       pushBlocked, wake, out, brokenPipe>>

\* Application frames are taken while none is handled; a suspected connection
\* holds only so many.
TakeFrame ==
    /\ loop = "run" /\ ~busy /\ ~DispatchReady /\ frames # <<>>
    /\ frames' = Tail(frames)
    /\ IF Len(held) >= Buffer THEN Break /\ UNCHANGED held
                              ELSE held' = Append(held, Head(frames)) /\ UNCHANGED loop
    /\ UNCHANGED <<loopRest, reader, pings, idle, suspected, terminal, template, pushBlocked,
                   seen, busy, wake, jobs, out, refused, brokenPipe>>

TakeReply ==
    /\ loop = "run" /\ ~DispatchReady /\ out # <<>> /\ Head(out).kind = "reply"
    /\ out' = Tail(out)
    /\ \E refusal \in BOOLEAN : terminal' = (terminal \/ refusal)
    /\ WriteOrBreak
    /\ UNCHANGED <<loopRest, reader, pings, idle, frames, held, suspected, template,
                   pushBlocked, seen, busy, wake, jobs, refused>>

\* A worker of the business task failed: the connection ends with it.
TakeFailed ==
    /\ loop = "run" /\ ~DispatchReady /\ out # <<>> /\ Head(out).kind = "failed"
    /\ out' = Tail(out) /\ Break
    /\ failure' = TRUE
    /\ UNCHANGED <<got, window, businessVars, hostVars, read, handled, panicked, reader, pings,
                   idle, frames, held, suspected, terminal, template, pushBlocked, seen, busy,
                   wake, jobs, refused, brokenPipe>>

TakeDone ==
    /\ loop = "run" /\ ~DispatchReady /\ out # <<>> /\ Head(out).kind = "done"
    /\ out' = Tail(out)
    /\ IF terminal THEN Break /\ UNCHANGED <<template, busy, pushBlocked, brokenPipe>>
                   ELSE template' = TRUE /\ busy' = FALSE /\ AdvanceOutput /\ UNCHANGED loop
    /\ UNCHANGED <<loopRest, reader, pings, idle, frames, held, suspected, terminal, seen,
                   wake, jobs, refused>>

\* The reader is aborted, both business channels and the connection's record
\* are closed.
CloseConnection ==
    /\ loop = "closing" /\ loop' = "joining"
    /\ reader' = "off" /\ got' = <<>> /\ window' = <<>> /\ frames' = <<>> /\ pings' = 0
    /\ held' = <<>> /\ out' = <<>>
    /\ UNCHANGED <<idle, suspected, terminal, template, pushBlocked, seen, busy, wake, jobs,
                   businessVars, hostVars, historyVars, brokenPipe, failure>>

\* The serving task joins its business task and passes a panic on.
JoinBusiness ==
    /\ loop = "joining" /\ business.pc = "over"
    /\ loop' = "over" /\ failure' = (failure \/ business.job # <<>>)
    /\ UNCHANGED <<readVars, frames, held, suspected, terminal, template, pushBlocked, seen,
                   busy, wake, jobs, businessVars, out, hostVars, historyVars, brokenPipe>>

-----------------------------------------------------------------------------
(* The business task                                                       *)

businessRest == <<readVars, frames, loopVars, busy, wake, hostVars, read, refused, brokenPipe,
                  failure>>
OutOpen == loop \in {"run", "closing"}
Pc(pc) == business' = [business EXCEPT !.pc = pc]
\* A message for the loop, if the channel has room.
Tell(message) == OutOpen /\ Len(out) < Buffer /\ out' = Append(out, message)

\* The stop, or the end of the connection, ends the receive loop.
BusinessEnds ==
    /\ business.pc = "idle" /\ Pc("drain")
    /\ stop \/ (~OutOpen /\ jobs = <<>>)
    /\ UNCHANGED <<businessRest, replies, relay, learning, jobs, out, handled, panicked>>

\* Mutated: a failed worker is not reported.
ReportFailedSilently ==
    /\ business.pc = "idle" /\ learning = "failed" /\ learning' = "none"
    /\ UNCHANGED <<businessRest, business, replies, relay, jobs, out, handled, panicked>>
\* A failed worker is reported before the next job is taken.
ReportFailed ==
    /\ business.pc = "idle" /\ learning = "failed" /\ learning' = "none"
    /\ \/ Tell(Failed) /\ UNCHANGED business
       \/ ~OutOpen /\ Pc("drain") /\ UNCHANGED out
    /\ UNCHANGED <<businessRest, replies, relay, jobs, handled, panicked>>

TakeJob ==
    /\ business.pc = "idle" /\ learning # "failed" /\ jobs # <<>>
    /\ jobs' = <<>>
    /\ business' = IF stop THEN Without("drain") ELSE [Without("run") EXCEPT !.job = jobs]
    /\ UNCHANGED <<businessRest, replies, relay, learning, out, handled, panicked>>

\* The handler answers, if its channel has room.
Answer ==
    /\ business.pc = "run" /\ Len(replies) < Buffer
    /\ business.answers < MaxReplies
    /\ business' = [business EXCEPT !.answers = @ + 1]
    /\ replies' = Append(replies, Reply(business.job[1].n))
    /\ UNCHANGED <<businessRest, relay, learning, jobs, out, handled, panicked>>

\* An answer is relayed; the handler is not polled until it is handed over.
Relay ==
    /\ business.pc = "run" /\ replies # <<>>
    /\ relay' = <<Head(replies)>> /\ replies' = Tail(replies) /\ Pc("send")
    /\ UNCHANGED <<businessRest, learning, jobs, out, handled, panicked>>
RelaySend ==
    /\ business.pc = "send" /\ relay' = <<>> /\ Pc("run")
    /\ \/ Tell(relay[1]) /\ UNCHANGED replies
       \/ ~OutOpen /\ replies' = <<>> /\ UNCHANGED out
    /\ UNCHANGED <<businessRest, learning, jobs, handled, panicked>>

\* Mutated: the answers still queued are left behind.
HandlerEndsAtOnce ==
    /\ business.pc = "run" /\ Pc("done") /\ handled' = handled \o business.job
    /\ UNCHANGED <<businessRest, replies, relay, learning, jobs, out, panicked>>
HandlerEnds ==
    /\ business.pc = "run" /\ Pc("flush") /\ handled' = handled \o business.job
    /\ UNCHANGED <<businessRest, replies, relay, learning, jobs, out, panicked>>

\* The answers left in the channel are handed over before the frame is done.
Flush ==
    /\ business.pc = "flush"
    /\ \/ replies = <<>> /\ Pc("done") /\ UNCHANGED <<replies, out>>
       \/ replies # <<>> /\ Tell(Head(replies)) /\ replies' = Tail(replies) /\ UNCHANGED business
       \/ replies # <<>> /\ ~OutOpen /\ replies' = <<>> /\ Pc("done") /\ UNCHANGED out
    /\ UNCHANGED <<businessRest, relay, learning, jobs, handled, panicked>>

\* Material to learn from starts a worker; then the frame is done.
FrameDone ==
    /\ business.pc = "done"
    /\ learning' \in {learning, IF learning = "none" THEN "running" ELSE learning}
    /\ \/ Tell(Done) /\ business' = Without("idle")
       \/ ~OutOpen /\ business' = Without("drain") /\ UNCHANGED out
    /\ UNCHANGED <<businessRest, replies, relay, jobs, handled, panicked>>

\* A handler panics: the task ends with the workers it owns.
HandlerPanics ==
    /\ Panics /\ business.pc = "run" /\ Pc("over") /\ learning' = "none" /\ panicked' = TRUE
    /\ replies' = <<>>
    /\ UNCHANGED <<businessRest, relay, jobs, out, handled>>

LearningEnds ==
    /\ learning = "running"
    /\ \/ learning' = "none" /\ UNCHANGED panicked
       \/ Panics /\ learning' = "failed" /\ panicked' = TRUE
    /\ UNCHANGED <<businessRest, business, replies, relay, jobs, out, handled>>

\* Workers are joined before the task ends.
DrainWorkers ==
    /\ business.pc = "drain" /\ learning # "running"
    /\ learning' = "none"
    /\ \/ learning = "none" /\ business' = Without("over") /\ UNCHANGED out
       \/ learning = "failed" /\ UNCHANGED business /\ Tell(Failed)
       \/ learning = "failed" /\ UNCHANGED <<business, out>> /\ ~OutOpen
    /\ UNCHANGED <<businessRest, replies, relay, jobs, handled, panicked>>

-----------------------------------------------------------------------------
(* The host                                                                *)

hostRest == <<readVars, frames, loopVars, busy, jobs, businessVars, out, historyVars,
              brokenPipe, failure>>
Wakeup == ~wake /\ loop = "run" /\ wake' = TRUE /\ UNCHANGED <<hostRest, hostVars>>
\* quiesce: the table's gate, the stop of the handlers, the dispatch abort.
StopAdmission == ~gate /\ gate' = TRUE /\ UNCHANGED <<hostRest, wake, stop, abort>>
StopHandlers == gate /\ ~stop /\ stop' = TRUE /\ UNCHANGED <<hostRest, wake, gate, abort>>
\* Mutated: the connections are joined before dispatches are aborted.
AbortLast == stop /\ ~abort /\ loop = "over" /\ abort' = TRUE /\ UNCHANGED <<hostRest, wake, gate, stop>>
AbortDispatch == stop /\ ~abort /\ abort' = TRUE /\ UNCHANGED <<hostRest, wake, gate, stop>>

\* The end of a connection, if the system stops there.
Ended ==
    /\ loop = "over" /\ business.pc = "over" /\ abort
    /\ UNCHANGED vars

Reader == Drain \/ HandOver \/ HandPing
Output == TakeReply \/ TakeFailed \/ TakeDone \/ OutputCloses
Loop == LoopEnds \/ Monitor \/ Pong \/ Woken \/ Dispatch \/ TakeFrame \/ Output
            \/ CloseConnection \/ JoinBusiness
Business == BusinessEnds \/ ReportFailed \/ TakeJob \/ Relay \/ RelaySend \/ Flush \/ FrameDone
                \/ DrainWorkers
Peer == ReadPing \/ ReadEnd \/ Silence \/ (\E id \in Ids : ReadFrame(id))

Next ==
    \/ Peer \/ Upgrade \/ Reader \/ Loop
    \/ Business \/ Answer \/ HandlerEnds \/ HandlerPanics \/ LearningEnds
    \/ Wakeup \/ StopAdmission \/ StopHandlers \/ AbortDispatch
    \/ Ended

Spec == Init /\ [][Next]_vars

(* The select is biased: a branch is sure to be taken only if it stays     *)
(* ready while none above it is.  The actions above ask less, since the    *)
(* socket, the host or the business task may make a higher branch ready    *)
(* after it was polled.  A timer is ready only for a moment.               *)
Calm           == ~stop /\ reader # "ended" /\ pings = 0
DispatchInTurn == Calm /\ Dispatch
FrameInTurn    == Calm /\ TakeFrame
WokenInTurn    == Calm /\ frames = <<>> /\ Woken
OutputInTurn   == Calm /\ (busy \/ (frames = <<>> /\ ~wake)) /\ Output

\* The tasks run, each branch of the select in its turn; a peer need not send,
\* and a handler or a worker ends only once the host aborts it.
FairSpec ==
    /\ Spec
    /\ WF_vars(Upgrade) /\ WF_vars(Reader)
    /\ WF_vars(LoopEnds) /\ WF_vars(Monitor) /\ WF_vars(~stop /\ reader # "ended" /\ Pong)
    /\ WF_vars(DispatchInTurn) /\ WF_vars(FrameInTurn) /\ WF_vars(WokenInTurn)
    /\ WF_vars(OutputInTurn)
    /\ WF_vars(CloseConnection) /\ WF_vars(JoinBusiness)
    /\ WF_vars(Business)
    /\ WF_vars(abort /\ HandlerEnds) /\ WF_vars(abort /\ LearningEnds)
    /\ WF_vars(StopHandlers) /\ WF_vars(AbortDispatch)

-----------------------------------------------------------------------------
(* Properties                                                              *)

\* While a connection serves, every frame it read is in exactly one place: on
\* its way, refused as repeated, or handled; none is dropped in silence and
\* none is handled twice (read_ws_frames, the bounded queues, live_for).
FramesKept ==
    LET queues == <<got, window, frames, held, jobs, handled,
                    IF business.pc \in {"run", "send"} THEN business.job ELSE <<>>>>
    IN  loop = "run" /\ ~stop /\ reader # "ended" /\ business.pc # "over" =>
            /\ (UNION {Numbers(queues[i]) : i \in DOMAIN queues}) \cup refused = 1..read
            /\ Cardinality(refused) + Len(FlattenSeq(queues)) = read

\* A connection that counts as free has no frame, answer or end of a frame
\* left with its business task: a push never comes between the answers of a
\* frame, and the next job never waits for room.
FreeIsFree ==
    loop = "run" /\ ~busy =>
        /\ jobs = <<>> /\ replies = <<>> /\ relay = <<>>
        /\ business.pc \in {"idle", "drain", "over"}
        /\ \A i \in DOMAIN out : out[i].kind = "failed"

\* A message id is handled again only after as many others as the table
\* remembers.
RepeatsApart ==
    \A i, j \in DOMAIN handled : i < j /\ handled[i].id = handled[j].id => j - i > SeenCap

\* What the loop, its reader and its business task owe every frame.
FramesSafe == TypeOK /\ FramesKept /\ FreeIsFree /\ RepeatsApart

\* The end of the socket closes the connection although its handler may wait
\* for a provider for ever.
EndIsPrompt == (reader = "ended") ~> (loop \in {"joining", "over"})

\* A shutdown joins the connection, its handler and its workers.
StopJoins == stop ~> (loop = "over" /\ business.pc = "over" /\ learning = "none")

\* Work for the branches above the business output never stops coming.
Pressed == []<>(pings > 0 \/ (wake /\ ~busy))

\* A worker that fails while the connection is idle ends it, unless the peer's
\* pings or the host's wakeups never cease: they are served first.
FailureEnds ==
    ((learning = "failed" /\ business.pc = "idle") ~> (loop # "run")) \/ Pressed

=============================================================================
