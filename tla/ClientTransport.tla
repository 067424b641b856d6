--------------------------- MODULE ClientTransport ---------------------------
(***************************************************************************)
(* One connection of the client library: the task that writes the socket,  *)
(* the task that reads it ahead of the application, and the application,   *)
(* which asks for something and waits for the answer, or takes the next    *)
(* frame.  Demands of a targeted deletion are obeyed on the way, at once or*)
(* when the application has wiped what it shows.                           *)
(*                                                                         *)
(* A frame is its kind, its place in what the host sent and the request it *)
(* answers.  Waiting is told apart from time: a wait for a place in a queue*)
(* may run out while the queue is full, a write may run out at any time.   *)
(***************************************************************************)
EXTENDS Naturals, Sequences, SequencesExt

CONSTANTS
    Requests,    \* requests of the application, each made once
    Queue,       \* TRANSPORT_QUEUE, of both directions
    ControlCap,  \* CONTROL_QUEUE
    ReadAhead,   \* READ_AHEAD_FRAMES
    DeferredCap, \* DEFERRED_CAP
    StashCap,    \* PENDING_ERASURE_CAP
    Kinds,       \* kinds of unasked frames the host sends here
    MaxFrames,   \* bound: frames the host sends
    MaxPings,    \* bound: pings of the host
    Defers,      \* whether the application wipes for itself (defer_erasure)
    Parallel,    \* whether the application runs beside the reader (threads)
    WriteFails,  \* whether a write may fail
    None         \* no value

ClientTransportAssumption ==
    /\ {Queue, ControlCap, ReadAhead, DeferredCap, StashCap} \subseteq Nat \ {0}
    /\ MaxFrames \in Nat /\ MaxPings \in Nat
    /\ Kinds \subseteq {"body", "presence", "demand", "unknown"}
    /\ {Defers, Parallel, WriteFails} \subseteq BOOLEAN

VARIABLES
    reader,    \* read_half
    got,       \* the frame the reader decoded
    ahead,     \* read_ahead
    inbound,   \* the queue to the application
    pings,     \* the queue of pongs to write
    terminal,  \* the slot of the reader's end: <<>> or what was read ahead
    writer,    \* write_half
    outbound,  \* the queue from the application
    app,       \* what the application is doing
    asked,     \* what became of each request
    staged,    \* Transport.staged
    failing,   \* Transport.pending_failure
    deferred,  \* SessionState.deferred
    stash,     \* SessionState.pending_erasure
    generation,\* SessionState.generation, as the place of the frame that told it
    kept,      \* places of the bodies the application shows
    hostGot,   \* what reached the host
    sent,      \* frames the reader took from the socket
    pinged,
    taken,     \* frames the application took, in order
    errored    \* the application was told that the connection is over

readVars  == <<reader, got, ahead, terminal, sent, pinged>>
writeVars == <<writer, hostGot>>
sessionVars == <<deferred, stash, generation, kept>>
appVars   == <<app, asked, staged, failing, taken, errored>>
vars == <<readVars, inbound, pings, writeVars, outbound, sessionVars, appVars>>

-----------------------------------------------------------------------------
Frame(kind, to) == [kind |-> kind, n |-> sent + 1, to |-> to]
Places(frames) == {frames[i].n : i \in DOMAIN frames}
\* What the application writes: a request, a Reject, a LocalErasureResult.
Ask(r) == [kind |-> "request", of |-> r]
Reject(n) == [kind |-> "reject", of |-> n]
Wiped(n) == [kind |-> "wiped", of |-> n]

Init ==
    /\ reader = "poll" /\ got = <<>> /\ ahead = <<>> /\ inbound = <<>>
    /\ pings = 0 /\ terminal = <<>>
    /\ writer = "run" /\ outbound = <<>>
    /\ app = [pc |-> "idle", of |-> None]
    /\ asked = [r \in Requests |-> "no"]
    /\ staged = <<>> /\ failing = FALSE /\ deferred = <<>> /\ stash = <<>>
    /\ generation = 0 /\ kept = {}
    /\ hostGot = {} /\ sent = 0 /\ pinged = 0 /\ taken = <<>> /\ errored = FALSE

-----------------------------------------------------------------------------
(* The reader                                                              *)

\* The biased select: the end of the writer first, a place in the queue for
\* what was read ahead next, and only then the socket.
MayRead == reader = "poll" /\ writer = "run" /\ (ahead = <<>> \/ Len(inbound) = Queue)

Drain ==
    /\ reader = "poll" /\ writer = "run"
    /\ ahead # <<>> /\ Len(inbound) < Queue
    /\ inbound' = Append(inbound, Head(ahead)) /\ ahead' = Tail(ahead)
    /\ UNCHANGED <<reader, got, terminal, sent, pinged, pings, writeVars, outbound,
                   sessionVars, appVars>>

\* The host answers what reached it, or sends something of its own.
ReadFrame(kind, to) ==
    /\ MayRead /\ sent < MaxFrames
    /\ got' = <<Frame(kind, to)>> /\ sent' = sent + 1 /\ reader' = "got"
    /\ UNCHANGED <<ahead, terminal, pinged, inbound, pings, writeVars, outbound,
                   sessionVars, appVars>>

\* Mutated: the end of the writer takes the read-ahead with it.
FailWithout ==
    /\ reader' = "ended" /\ terminal' = <<[ahead |-> <<>>]>>
    /\ ahead' = <<>> /\ got' = <<>>
\* fail_with: the frames read ahead go with the reason, in one slot.
FailWith ==
    /\ reader' = "ended" /\ terminal' = <<[ahead |-> ahead]>>
    /\ ahead' = <<>> /\ got' = <<>>

\* try_send of a decoded frame: beside the reader the application may have made
\* a place since the queue was polled.  A frame too many ends the reader.
HandOver ==
    /\ reader = "got"
    /\ \/ /\ Len(inbound) < Queue
          /\ inbound' = inbound \o got /\ got' = <<>> /\ reader' = "poll"
          /\ UNCHANGED <<ahead, terminal>>
       \/ /\ Len(inbound) = Queue /\ Len(ahead) < ReadAhead
          /\ ahead' = ahead \o got /\ got' = <<>> /\ reader' = "poll"
          /\ UNCHANGED <<inbound, terminal>>
       \/ /\ Len(inbound) = Queue /\ Len(ahead) = ReadAhead
          /\ FailWith /\ UNCHANGED inbound
    /\ UNCHANGED <<sent, pinged, pings, writeVars, outbound, sessionVars, appVars>>

\* A ping is handed to the writer, which may be gone by then.
ReadPing ==
    /\ MayRead /\ pinged < MaxPings
    /\ pinged' = pinged + 1 /\ reader' = "ping"
    /\ UNCHANGED <<got, ahead, terminal, sent, inbound, pings, writeVars, outbound,
                   sessionVars, appVars>>
HandPing ==
    /\ reader = "ping"
    /\ \/ /\ writer = "run" /\ pings < ControlCap
          /\ pings' = pings + 1 /\ reader' = "poll"
          /\ UNCHANGED <<got, ahead, terminal>>
       \/ writer = "gone" /\ FailWith /\ UNCHANGED pings
    /\ UNCHANGED <<sent, pinged, inbound, writeVars, outbound, sessionVars, appVars>>

\* A close, the end of the file, a text frame, or a frame that does not decode.
ReadEnd ==
    /\ MayRead /\ FailWith
    /\ UNCHANGED <<sent, pinged, inbound, pings, writeVars, outbound, sessionVars, appVars>>

\* writer_gone.
SeeWriterGone ==
    /\ reader = "poll" /\ writer = "gone" /\ FailWith
    /\ UNCHANGED <<sent, pinged, inbound, pings, writeVars, outbound, sessionVars, appVars>>

-----------------------------------------------------------------------------
(* The writer                                                              *)

\* A write goes through, or passes its bound and ends the writer.  Pongs come
\* first; once the reader has ended and they are written, the writer ends too.
Pong ==
    /\ writer = "run" /\ pings > 0
    /\ pings' = pings - 1
    /\ \/ UNCHANGED writer
       \/ WriteFails /\ writer' = "gone"
    /\ UNCHANGED <<readVars, hostGot, inbound, outbound, sessionVars, appVars>>
Write ==
    /\ writer = "run" /\ pings = 0 /\ reader # "ended" /\ outbound # <<>>
    /\ outbound' = Tail(outbound)
    /\ \/ hostGot' = hostGot \cup {Head(outbound)} /\ UNCHANGED writer
       \/ WriteFails /\ writer' = "gone" /\ UNCHANGED hostGot
    /\ UNCHANGED <<readVars, inbound, pings, sessionVars, appVars>>
WriterEnds ==
    /\ writer = "run" /\ pings = 0 /\ reader = "ended"
    /\ writer' = "gone"
    /\ UNCHANGED <<readVars, hostGot, inbound, pings, outbound, sessionVars, appVars>>

-----------------------------------------------------------------------------
(* The application                                                         *)

\* Without threads of its own the application runs while the reader waits.
AppRuns == Parallel \/ reader # "got"

\* enqueue: a place in the queue and only then the frame; no place within
\* ENQUEUE_WAIT, or no writer, and nothing was sent.
Enqueued(frame) ==
    writer = "run" /\ Len(outbound) < Queue /\ outbound' = Append(outbound, frame)
NotEnqueued == (writer = "gone" \/ Len(outbound) = Queue) /\ UNCHANGED outbound

\* Mutated: a frame that was put in the queue of a writer that ends meanwhile is
\* told as not sent.
RequestMistold(r) ==
    /\ app.pc = "idle" /\ AppRuns /\ asked[r] = "no"
    /\ \/ /\ Enqueued(Ask(r))
          /\ app' = [pc |-> "wait", of |-> r] /\ asked' = [asked EXCEPT ![r] = "sent"]
       \/ /\ Enqueued(Ask(r))
          /\ asked' = [asked EXCEPT ![r] = "notSent"] /\ UNCHANGED app
       \/ /\ NotEnqueued
          /\ asked' = [asked EXCEPT ![r] = "notSent"] /\ UNCHANGED app
    /\ UNCHANGED <<readVars, inbound, pings, writeVars, sessionVars, staged, failing,
                   taken, errored>>
\* request_classified: enqueue_request, and what is not enqueued was NotSent.
Request(r) ==
    /\ app.pc = "idle" /\ AppRuns /\ asked[r] = "no"
    /\ \/ /\ Enqueued(Ask(r))
          /\ app' = [pc |-> "wait", of |-> r] /\ asked' = [asked EXCEPT ![r] = "sent"]
       \/ /\ NotEnqueued
          /\ asked' = [asked EXCEPT ![r] = "notSent"] /\ UNCHANGED app
    /\ UNCHANGED <<readVars, inbound, pings, writeVars, sessionVars, staged, failing,
                   taken, errored>>

\* next_frame is called.
AwaitFrame ==
    /\ app.pc = "idle" /\ AppRuns
    /\ app' = [pc |-> "next", of |-> None]
    /\ UNCHANGED <<readVars, inbound, pings, writeVars, outbound, sessionVars, asked,
                   staged, failing, taken, errored>>

\* Transport::read: what was staged at the end, then the queue.
HasFrame == staged # <<>> \/ (~failing /\ inbound # <<>>)
Incoming == IF staged # <<>> THEN Head(staged) ELSE Head(inbound)
TakeIncoming ==
    /\ taken' = Append(taken, Incoming)
    /\ IF staged # <<>> THEN staged' = Tail(staged) /\ UNCHANGED inbound
       ELSE inbound' = Tail(inbound) /\ UNCHANGED staged

\* The queue is closed and empty: the slot is taken, data first, reason last.
TakeTerminal ==
    /\ app.pc \in {"wait", "next"} /\ AppRuns
    /\ staged = <<>> /\ ~failing /\ inbound = <<>>
    /\ reader = "ended" /\ terminal # <<>>
    /\ staged' = Head(terminal).ahead /\ failing' = TRUE /\ terminal' = <<>>
    /\ UNCHANGED <<reader, got, ahead, sent, pinged, inbound, pings, writeVars, outbound,
                   sessionVars, app, asked, taken, errored>>

\* The call ends with an error; a request whose answer was awaited is
\* OutcomeUnknown.
Failing ==
    /\ app' = [pc |-> "idle", of |-> None]
    /\ asked' = IF app.pc = "wait" THEN [asked EXCEPT ![app.of] = "unknown"] ELSE asked

\* The reason is told, once by pending_failure and then by the empty slot.
TellFailure ==
    /\ app.pc \in {"wait", "next"} /\ AppRuns
    /\ staged = <<>>
    /\ failing \/ (reader = "ended" /\ inbound = <<>> /\ terminal = <<>>)
    /\ failing' = FALSE /\ errored' = TRUE /\ Failing
    /\ UNCHANGED <<readVars, inbound, pings, writeVars, outbound, sessionVars, staged, taken>>

\* Ends the step of a frame that the library answers itself: the write may fail.
AnsweredWith(frame) ==
    \/ Enqueued(frame) /\ UNCHANGED <<app, asked>>
    \/ NotEnqueued /\ Failing

\* A frame of an unknown type is rejected.
TakeUnknown ==
    /\ app.pc \in {"wait", "next"} /\ AppRuns /\ HasFrame
    /\ Incoming.kind = "unknown"
    /\ TakeIncoming /\ AnsweredWith(Reject(Incoming.n))
    /\ UNCHANGED <<readVars, pings, writeVars, sessionVars, failing, errored>>

\* Mutated: what was deferred outlives the demand.
TakeDemandKeeping ==
    /\ app.pc \in {"wait", "next"} /\ AppRuns /\ HasFrame
    /\ Incoming.kind = "demand"
    /\ TakeIncoming
    /\ \/ /\ Defers
          /\ stash' = Append(IF Len(stash) >= StashCap THEN Tail(stash) ELSE stash, Incoming)
          /\ UNCHANGED <<outbound, app, asked, deferred>>
       \/ /\ ~Defers /\ deferred' = <<>>
          /\ AnsweredWith(Wiped(Incoming.n)) /\ UNCHANGED stash
    /\ UNCHANGED <<readVars, pings, writeVars, failing, errored, generation, kept>>
\* answer_deletion_demand_if_any.
TakeDemand ==
    /\ app.pc \in {"wait", "next"} /\ AppRuns /\ HasFrame
    /\ Incoming.kind = "demand"
    /\ TakeIncoming
    /\ deferred' = <<>>
    /\ \/ /\ Defers
          /\ stash' = Append(IF Len(stash) >= StashCap THEN Tail(stash) ELSE stash, Incoming)
          /\ UNCHANGED <<outbound, app, asked>>
       \/ /\ ~Defers
          /\ AnsweredWith(Wiped(Incoming.n)) /\ UNCHANGED stash
    /\ UNCHANGED <<readVars, pings, writeVars, failing, errored, generation, kept>>

\* Presence is observed; next_frame returns it too.
TakePresence ==
    /\ app.pc \in {"wait", "next"} /\ AppRuns /\ HasFrame
    /\ Incoming.kind = "presence"
    /\ TakeIncoming
    /\ generation' = Incoming.n
    /\ app' = IF app.pc = "next" THEN [pc |-> "idle", of |-> None] ELSE app
    /\ UNCHANGED <<readVars, outbound, pings, writeVars, asked, failing, errored,
                   deferred, stash, kept>>

\* decide_frame in resolve_request: its own answer ends the wait, another frame
\* is deferred, over the bound instead of the oldest.
TakeWaiting ==
    /\ app.pc = "wait" /\ AppRuns /\ HasFrame
    /\ Incoming.kind \in {"body", "answer"}
    /\ TakeIncoming
    /\ IF Incoming.to = app.of
       THEN /\ app' = [pc |-> "idle", of |-> None]
            /\ asked' = [asked EXCEPT ![app.of] = "answered"]
            /\ UNCHANGED deferred
       ELSE /\ deferred' = Append(IF Len(deferred) >= DeferredCap
                                  THEN Tail(deferred) ELSE deferred, Incoming)
            /\ UNCHANGED <<app, asked>>
    /\ UNCHANGED <<readVars, pings, writeVars, outbound, failing, errored, stash,
                   generation, kept>>

\* next_frame returns any other frame, which the application shows.
TakeNext ==
    /\ app.pc = "next" /\ AppRuns /\ HasFrame
    /\ Incoming.kind \in {"body", "answer"}
    /\ TakeIncoming
    /\ app' = [pc |-> "idle", of |-> None]
    /\ kept' = IF Incoming.kind = "body" THEN kept \cup {Incoming.n} ELSE kept
    /\ UNCHANGED <<readVars, pings, writeVars, outbound, asked, failing, errored,
                   deferred, stash, generation>>

\* take_undelivered: what was deferred is shown.
TakeUndelivered ==
    /\ app.pc = "idle" /\ AppRuns /\ deferred # <<>>
    /\ kept' = kept \cup Places(SelectSeq(deferred, LAMBDA f : f.kind = "body"))
    /\ deferred' = SelectSeq(deferred, LAMBDA f : f.kind # "body")
    /\ UNCHANGED <<readVars, inbound, pings, writeVars, outbound, appVars, stash, generation>>

\* The application wipes what it shows and reports (report_local_erasure).
ReportErasure ==
    /\ app.pc = "idle" /\ AppRuns /\ stash # <<>>
    /\ stash' = Tail(stash) /\ kept' = {}
    /\ (Enqueued(Wiped(Head(stash).n)) \/ NotEnqueued)
    /\ UNCHANGED <<readVars, inbound, pings, writeVars, appVars, deferred, generation>>

-----------------------------------------------------------------------------
Next ==
    \/ Drain \/ HandOver \/ ReadPing \/ HandPing \/ ReadEnd \/ SeeWriterGone
    \/ \E k \in Kinds : ReadFrame(k, None)
    \/ \E r \in Requests : /\ Ask(r) \in hostGot
                           /\ ReadFrame("answer", r)
    \/ Pong \/ Write \/ WriterEnds
    \/ \E r \in Requests : Request(r)
    \/ AwaitFrame \/ TakeTerminal \/ TellFailure
    \/ TakeUnknown \/ TakeDemand \/ TakePresence \/ TakeWaiting \/ TakeNext
    \/ TakeUndelivered \/ ReportErasure

Spec == Init /\ [][Next]_vars

-----------------------------------------------------------------------------
TypeOK ==
    /\ reader \in {"poll", "got", "ping", "ended"} /\ writer \in {"run", "gone"}
    /\ Len(got) <= 1 /\ Len(ahead) <= ReadAhead /\ Len(inbound) <= Queue
    /\ Len(outbound) <= Queue /\ pings \in 0..ControlCap
    /\ Len(terminal) <= 1 /\ Len(staged) <= ReadAhead
    /\ Len(deferred) <= DeferredCap /\ Len(stash) <= StashCap
    /\ app.pc \in {"idle", "wait", "next"}
    /\ asked \in [Requests -> {"no", "sent", "notSent", "answered", "unknown"}]
    /\ \A r \in Requests : asked[r] = "sent" <=> app = [pc |-> "wait", of |-> r]

\* Frames on the client's side that were accepted and not taken.
Waiting == Places(inbound) \cup Places(ahead) \cup Places(staged)
           \cup UNION {Places(terminal[i].ahead) : i \in DOMAIN terminal}

\* Whatever the reader accepted is taken before the end is told: all but the one
\* frame that was too many (fail_with, Transport::read).
NothingLost ==
    /\ errored => Waiting = {}
    /\ LET lost == (1..sent) \ (Places(taken) \cup Waiting \cup Places(got))
       IN lost \subseteq (IF reader = "ended" THEN {sent} ELSE {})

\* A request that was told as not sent never reaches the host, and what was
\* answered did (request_classified).
ToldAsItWas ==
    \A r \in Requests :
       /\ asked[r] = "notSent" => Ask(r) \notin hostGot \cup ToSet(outbound)
       /\ asked[r] = "answered" => Ask(r) \in hostGot

\* Once a demand is answered, nothing that was sent before it is shown or
\* waiting to be shown (answer_deletion_demand_if_any).
KeptIsNewer ==
    \A w \in hostGot \cup ToSet(outbound) : w.kind = "wiped" =>
       \A n \in (IF Defers THEN kept ELSE {}) \cup Places(deferred) : n > w.of

\* docs/design/concrete/host-client-ipc.md:663: on one connection a demand and
\* the frames that bear bodies are handled in the order they were sent.
DemandOrderKept ==
    \A i, j \in DOMAIN taken :
       i < j /\ taken[i].kind = "demand" /\ taken[j].kind = "body" =>
           taken[i].n < taken[j].n

\* What holds of the library; the order only where the application and the
\* reader take turns on one thread, as in the command line client.
ClientSafe ==
    /\ TypeOK /\ NothingLost /\ ToldAsItWas
    /\ ~Parallel => KeptIsNewer /\ DemandOrderKept
=============================================================================
