------------------------------- MODULE Desktop -------------------------------
(***************************************************************************)
(* The desktop between its windows and its runtime: the event loop, which  *)
(* puts what the owner presses in a mailbox and shows what comes of it, and*)
(* one worker, which executes one command after the other and obeys the    *)
(* demands of a targeted deletion that arrive meanwhile.                   *)
(*                                                                         *)
(* A text is the place it was typed in.  Challenges are numbered as they   *)
(* arrive.  What goes over the connection and over the confirmation channel*)
(* is in ClientTransport, ClientErasure and ControlSeat; here a command has*)
(* the outcomes those leave it.                                            *)
(***************************************************************************)
EXTENDS Naturals, Sequences, SequencesExt

CONSTANTS
    Presses,       \* commands the owner may give
    Tasks,         \* tasks that can be selected
    Cap,           \* places in the mailbox
    MaxTyped,      \* bound: texts typed
    MaxPressed,    \* bound: commands given
    MaxDemands,    \* bound: demands that arrive
    MaxChallenges, \* bound: challenges that arrive
    MaxSlow,       \* bound: erasures the event loop is too slow for
    None           \* no value

DesktopAssumption ==
    /\ Presses \subseteq {"send", "secret", "confirm", "dismiss", "navigate", "select", "cancel"}
    /\ {MaxTyped, MaxPressed, MaxDemands, MaxChallenges, MaxSlow} \subseteq Nat
    /\ Cap \in Nat \ {0} /\ None \notin Tasks \cup Nat

VARIABLES
    queue,      \* Mailbox.queue
    marks,      \* Mailbox.epoch, .generation and .draft_edit
    pending,    \* Mailbox.pending, by lane
    worker,     \* the worker, and the request it has
    answer,     \* what the event loop told it about the erasure of the surfaces
    events,     \* what waits for the event loop
    ui,         \* the windows
    runtime,    \* DesktopRuntime
    demands,    \* demands the client library has deferred
    typed, pressed, challenges, slow, arrived,
    wiped,      \* texts up to here were reported as wiped
    reached,    \* texts whose sending may have reached the host
    cleared,    \* drafts that were cleared because they were sent
    completed,  \* challenges the desktop completed
    wanted,     \* challenges the owner confirmed and did not dismiss in time
    acted       \* [pressed, on]: a task that was cancelled, and on which press

mailVars == <<queue, marks, pending>>
boundVars == <<typed, pressed, challenges, slow, arrived>>
pastVars == <<wiped, reached, cleared, completed, wanted, acted>>
vars == <<mailVars, worker, answer, events, ui, runtime, demands, boundVars, pastVars>>

Lanes == 0..3
NoRequest == [cmd |-> None, lane |-> 0, epoch |-> 0, generation |-> 0, edit |-> 0, of |-> None]
NoText == 0
Connection == 6    \* its page; another one stands for all the others
NoAnswer == [told |-> "none", upTo |-> 0]

Init ==
    /\ queue = <<>> /\ marks = [epoch |-> 0, generation |-> 0, edit |-> 0]
    /\ pending = [l \in Lanes |-> 0]
    /\ worker = [pc |-> "pop", req |-> NoRequest, back |-> None, consume |-> FALSE]
    /\ answer = NoAnswer /\ events = <<>>
    /\ ui = [draft |-> NoText, shown |-> {}, key |-> None, can |-> FALSE, task |-> None]
    /\ runtime = [composer |-> {}, timeline |-> {}, challenge |-> None, deferred |-> <<>>,
                  task |-> None]
    /\ demands = 0
    /\ typed = 0 /\ pressed = 0 /\ challenges = 0 /\ slow = 0 /\ arrived = 0
    /\ wiped = 0 /\ reached = {} /\ cleared = {} /\ completed = {} /\ wanted = {}
    /\ acted = {}

-----------------------------------------------------------------------------
(* Mailbox                                                                 *)

\* push, under the lock, with the marks as they are.
Pushed(cmd, lane, of, generation) ==
    /\ Len(queue) < Cap
    /\ queue' = Append(queue, [cmd |-> cmd, lane |-> lane, epoch |-> marks.epoch,
                               generation |-> generation, edit |-> marks.edit, of |-> of])
    /\ pending' = [pending EXCEPT ![lane] = @ + 1]

\* Mutated: a command of an erased mailbox is counted off the new one.
CompletedAnyway(lane, of) == pending' = [pending EXCEPT ![lane] = IF @ > 0 THEN @ - 1 ELSE 0]
\* complete: the count belongs to an epoch.
CompletedIn(lane, of) ==
    pending' = IF of = marks.epoch THEN [pending EXCEPT ![lane] = @ - 1] ELSE pending

\* erase, on whichever thread.
Erased ==
    /\ queue' = <<>> /\ pending' = [l \in Lanes |-> 0]
    /\ marks' = [epoch |-> marks.epoch + 1, generation |-> marks.generation + 1,
                 edit |-> marks.edit + 1]

-----------------------------------------------------------------------------
(* The owner at the windows                                                *)

Open == worker.pc # "gone"
Type ==
    /\ Open /\ typed < MaxTyped /\ typed' = typed + 1
    /\ ui' = [ui EXCEPT !.draft = typed + 1]
    /\ marks' = [marks EXCEPT !.edit = @ + 1]
    /\ UNCHANGED <<queue, pending, worker, answer, events, runtime, demands, pressed,
                   challenges, slow, arrived, pastVars>>

\* submit: a lane that is busy or a full mailbox refuses, and nothing changes.
Press(cmd, lane, of) ==
    /\ Open /\ cmd \in Presses /\ pressed < MaxPressed /\ pressed' = pressed + 1
    /\ pending[lane] = 0 /\ Pushed(cmd, lane, of, marks.generation)
    /\ UNCHANGED <<marks, worker, answer, events, runtime, demands, typed, challenges, slow,
                   arrived, wiped, reached, cleared, completed, acted>>

PressSend ==
    /\ ui.draft # NoText /\ Press("send", 1, ui.draft) /\ UNCHANGED <<ui, wanted>>
PressSecret == Press("secret", 3, None) /\ UNCHANGED <<ui, wanted>>
PressSelect(t) == Press("select", 2, t) /\ UNCHANGED <<ui, wanted>>
PressCancel ==
    /\ ui.task # None /\ Press("cancel", 2, ui.task) /\ UNCHANGED <<ui, wanted>>
PressConfirm ==
    /\ ui.can /\ Press("confirm", 3, ui.key)
    /\ ui' = [ui EXCEPT !.can = FALSE]
    /\ wanted' = wanted \cup {ui.key}

\* Confirmations that were given and are not executed yet.
Given(requests) == {r.of : r \in {q \in requests : q.cmd = "confirm"}}
\* dismiss, also by closing the window: the generation moves on, the confirmation
\* goes from the window, and the worker is told unless the mailbox is full.
Dismiss ==
    /\ Open /\ pressed < MaxPressed /\ pressed' = pressed + 1
    /\ marks' = [marks EXCEPT !.generation = @ + 1]
    /\ ui' = [ui EXCEPT !.key = None, !.can = FALSE]
    /\ wanted' = wanted \ (Given(ToSet(queue) \cup IF worker.pc = "taken" THEN {worker.req}
                                               ELSE {}) \ completed)
    /\ UNCHANGED <<worker, answer, events, runtime, demands, typed, challenges, slow, arrived,
                   wiped, reached, cleared, completed, acted>>
PressDismiss ==
    /\ "dismiss" \in Presses /\ Dismiss
    /\ \/ Pushed("dismiss", 0, None, marks.generation + 1)
       \/ Len(queue) = Cap /\ UNCHANGED <<queue, pending>>
\* Going to another page dismisses, and asks for the page however busy its lane.
PressNavigate(page) ==
    /\ "navigate" \in Presses /\ Dismiss
    /\ LET mail(cmd, lane, of) == [cmd |-> cmd, lane |-> lane, epoch |-> marks.epoch,
               generation |-> marks.generation + 1, edit |-> marks.edit, of |-> of]
           both == <<mail("dismiss", 0, None), mail("refresh", 3, page)>>
           fit == SubSeq(both, 1, IF Len(queue) + 2 <= Cap THEN 2 ELSE Cap - Len(queue))
       IN /\ queue' = queue \o fit
          /\ pending' = [l \in Lanes |-> pending[l] + Len(SelectSeq(fit, LAMBDA q : q.lane = l))]

-----------------------------------------------------------------------------
(* The worker                                                              *)

Goes(pc) == worker' = [worker EXCEPT !.pc = pc]
Idle == [pc |-> "pop", req |-> NoRequest, back |-> None, consume |-> FALSE]

Take ==
    /\ worker.pc = "pop" /\ queue # <<>>
    /\ worker' = [worker EXCEPT !.pc = "taken", !.req = Head(queue)]
    /\ queue' = Tail(queue)
    /\ UNCHANGED <<marks, pending, answer, events, ui, runtime, demands, boundVars, pastVars>>

\* A request of an erased mailbox is dropped.
DropErased ==
    /\ worker.pc = "taken" /\ worker.req.epoch # marks.epoch
    /\ worker' = Idle
    /\ UNCHANGED <<mailVars, answer, events, ui, runtime, demands, boundVars, pastVars>>

Dismissed == worker.req.cmd \in {"confirm", "secret"} /\ worker.req.generation # marks.generation

\* A confirmation, or what leads to one, that was dismissed meanwhile is dropped.
DropDismissed ==
    /\ worker.pc = "taken" /\ worker.req.epoch = marks.epoch /\ Dismissed
    /\ CompletedIn(worker.req.lane, worker.req.epoch) /\ worker' = Idle
    /\ UNCHANGED <<queue, marks, answer, events, ui, runtime, demands, boundVars, pastVars>>

\* pending_challenge and take_challenge of the confirmation client.
Challenged == IF runtime.challenge # None THEN runtime.challenge
              ELSE IF runtime.deferred # <<>> THEN Head(runtime.deferred) ELSE None
Without == IF runtime.challenge # None THEN [runtime EXCEPT !.challenge = None]
           ELSE IF runtime.deferred # <<>> THEN [runtime EXCEPT !.deferred = Tail(@)]
           ELSE runtime

\* The confirmation channel is gone (close_after_confirmation_loss): a challenge
\* and the client go, and the event loop ends.
ConfirmationLost ==
    /\ worker.pc = "pop" /\ Goes("gone")
    /\ runtime' = Without
    /\ UNCHANGED <<mailVars, answer, events, ui, demands, boundVars, pastVars>>

\* What a command does before it waits: the composer has the text, the challenge
\* that was shown is completed, the one that is pending rejected (execute).
Starts ==
    \/ /\ worker.req.cmd = "send"
       /\ runtime' = [runtime EXCEPT !.composer = @ \cup {worker.req.of}]
       /\ Goes("run") /\ UNCHANGED completed
    \/ /\ worker.req.cmd = "confirm" /\ Challenged = worker.req.of
       /\ runtime' = Without /\ completed' = completed \cup {Challenged}
       /\ Goes("run")
    \/ /\ worker.req.cmd = "dismiss" /\ Challenged # None
       /\ runtime' = Without /\ Goes("run") /\ UNCHANGED completed
    \/ /\ worker.req.cmd = "confirm" /\ Challenged # worker.req.of
       /\ Goes("done") /\ UNCHANGED <<runtime, completed>>
    \/ /\ worker.req.cmd = "dismiss" /\ Challenged = None
       /\ Goes("done") /\ UNCHANGED <<runtime, completed>>
    \/ /\ worker.req.cmd = "cancel" /\ worker.req.of # runtime.task
       /\ Goes("done") /\ UNCHANGED <<runtime, completed>>
    \/ /\ \/ worker.req.cmd \in {"secret", "select", "refresh"}
          \/ worker.req.cmd = "cancel" /\ worker.req.of = runtime.task
       /\ Goes("run") /\ UNCHANGED <<runtime, completed>>

\* Mutated: the command is about whatever is pending or displayed by now.
BeginUnchecked ==
    /\ worker.pc = "taken" /\ worker.req.epoch = marks.epoch /\ ~Dismissed
    /\ CASE worker.req.cmd = "cancel" -> Goes("run") /\ UNCHANGED <<runtime, completed>>
         [] worker.req.cmd = "confirm" /\ Challenged # None ->
                Goes("run") /\ runtime' = Without /\ completed' = completed \cup {Challenged}
         [] OTHER -> Starts
    /\ UNCHANGED <<mailVars, answer, events, ui, demands, boundVars, wiped, reached, cleared,
                   wanted, acted>>
\* Mutated: what was dismissed meanwhile is executed.
BeginDismissed ==
    /\ worker.pc = "taken" /\ worker.req.epoch = marks.epoch /\ Starts
    /\ UNCHANGED <<mailVars, answer, events, ui, demands, boundVars, wiped, reached, cleared,
                   wanted, acted>>
Begin ==
    /\ worker.pc = "taken" /\ worker.req.epoch = marks.epoch /\ ~Dismissed /\ Starts
    /\ UNCHANGED <<mailVars, answer, events, ui, demands, boundVars, wiped, reached, cleared,
                   wanted, acted>>

\* A demand comes in while an answer of the host is awaited.
Demanded ==
    /\ worker.pc = "run" /\ worker.req.cmd # "dismiss" /\ arrived < MaxDemands
    /\ arrived' = arrived + 1 /\ demands' = demands + 1
    /\ UNCHANGED <<mailVars, worker, answer, events, ui, runtime, typed, pressed, challenges,
                   slow, pastVars>>

-----------------------------------------------------------------------------
(* What comes of a command.  It ends by flushing the demands, and without  *)
(* it where an error returns early.                                        *)

Flushes(consume) == worker' = [worker EXCEPT !.pc = "flush", !.consume = consume]
Fails == worker' = [worker EXCEPT !.pc = "done"]
Running(cmd) == worker.pc = "run" /\ worker.req.cmd = cmd
Others == <<mailVars, answer, events, ui, demands, typed, pressed, slow, arrived, wiped,
            cleared, wanted>>

\* send_text, when the sending may have reached the host: completed, ended or
\* failed afterwards the text is in the timeline, of unknown outcome it is
\* discarded.  The draft of the window is to be cleared.
SendReached ==
    /\ Running("send")
    /\ LET text == worker.req.of
       IN /\ reached' = reached \cup {text}
          /\ \/ runtime' = [runtime EXCEPT !.timeline = @ \cup {text}]
             \/ runtime' = [runtime EXCEPT !.composer = @ \ {text}]
    /\ Flushes(TRUE)
    /\ UNCHANGED <<Others, challenges, completed, acted>>

\* Refused, not sent, or no client: the draft stays.
SendNot ==
    /\ Running("send")
    /\ Flushes(FALSE) \/ Fails
    /\ UNCHANGED <<Others, runtime, challenges, reached, completed, acted>>

\* A challenge comes in and is presented; the one before it is kept
\* (retain_presented; MaxChallenges is less than DEFERRED_LIMIT).
Arrives ==
    /\ challenges < MaxChallenges /\ challenges' = challenges + 1
    /\ runtime' = [runtime EXCEPT !.challenge = challenges + 1,
                                  !.deferred = IF runtime.challenge = None THEN @
                                               ELSE Append(@, runtime.challenge)]

\* A challenge that is not the expected one is kept behind (await_challenge); when
\* an outcome is awaited any challenge is presented (await_outcome).
OtherArrives ==
    /\ \/ Running("confirm") /\ Arrives
       \/ Running("dismiss") /\ Arrives
       \/ /\ Running("secret")
          /\ challenges < MaxChallenges /\ challenges' = challenges + 1
          /\ runtime' = [runtime EXCEPT !.deferred = Append(@, challenges + 1)]
    /\ UNCHANGED <<Others, worker, reached, completed, acted>>

\* begin_credential_put and begin_deletion_confirm end with the challenge, and so
\* does connecting a device that is not paired (connect_or_begin_pairing).
ChallengeEnds ==
    /\ \/ Running("secret")
       \/ Running("refresh") /\ worker.req.of = Connection
    /\ Arrives /\ Fails
    /\ UNCHANGED <<Others, reached, completed, acted>>

\* The other ends, with an outcome or an error; a rejection flushes nothing.
CommandEnds ==
    /\ worker.pc = "run" /\ worker.req.cmd \in {"secret", "confirm", "dismiss", "refresh"}
    /\ Fails \/ (worker.req.cmd \in {"confirm", "refresh"} /\ Flushes(FALSE))
    /\ UNCHANGED <<Others, runtime, challenges, reached, completed, acted>>

SelectEnds ==
    /\ Running("select")
    /\ \/ runtime' = [runtime EXCEPT !.task = worker.req.of] /\ Flushes(FALSE)
       \/ runtime' = [runtime EXCEPT !.task = None] /\ Flushes(FALSE)
       \/ UNCHANGED runtime /\ Fails
    /\ UNCHANGED <<Others, challenges, reached, completed, acted>>

\* cancel_displayed: the task that is displayed now, if there still is one; the
\* list that is read afterwards may have it no more.
CancelEnds ==
    /\ Running("cancel")
    /\ \/ /\ runtime.task # None
          /\ acted' = acted \cup {[pressed |-> worker.req.of, on |-> runtime.task]}
          /\ runtime' \in {runtime, [runtime EXCEPT !.task = None]}
          /\ Flushes(FALSE)
       \/ Fails /\ UNCHANGED <<runtime, acted>>
    /\ UNCHANGED <<Others, challenges, reached, completed>>

-----------------------------------------------------------------------------
(* apply_pending_erasure                                                   *)

\* The copies of the runtime go at once, what waits in the mailbox with them, and
\* the event loop is asked to clear the windows.  Besides the end of a command it
\* happens on the way where a command asks the host more than once.
EraseRuntime ==
    /\ \/ worker.pc = "flush"
       \/ worker.pc = "run" /\ worker.req.cmd \in {"secret", "confirm", "refresh", "cancel"}
    /\ demands > 0 /\ demands' = demands - 1
    /\ runtime' = [runtime EXCEPT !.composer = {}, !.timeline = {}, !.task = None]
    /\ Erased
    /\ events' = Append(events, [what |-> "erase"])
    /\ worker' = [worker EXCEPT !.pc = "erasing", !.back = worker.pc]
    /\ answer' = NoAnswer
    /\ UNCHANGED <<ui, boundVars, pastVars>>

Blank == [draft |-> NoText, shown |-> {}, key |-> None, can |-> FALSE, task |-> None]

\* Mutated: what was given between the two erasures stays in the mailbox.
EraseSurfaceOnly ==
    /\ events # <<>> /\ Head(events).what = "erase"
    /\ events' = Tail(events)
    /\ ui' = Blank /\ marks' = [marks EXCEPT !.edit = @ + 1]
    /\ IF worker.pc = "erasing" /\ Len(events) = 1
       THEN answer' \in {[told |-> t, upTo |-> typed] : t \in {"yes", "no"}}
       ELSE UNCHANGED answer
    /\ UNCHANGED <<queue, pending, worker, runtime, demands, boundVars, pastVars>>
\* On the event loop: the mailbox is erased again, the windows are cleared, and
\* whether that can be told is answered.  Nobody waits for a late answer.
EraseSurface ==
    /\ events # <<>> /\ Head(events).what = "erase"
    /\ events' = Tail(events)
    /\ Erased /\ ui' = Blank
    /\ IF worker.pc = "erasing" /\ Len(events) = 1
       THEN answer' \in {[told |-> t, upTo |-> typed] : t \in {"yes", "no"}}
       ELSE UNCHANGED answer
    /\ UNCHANGED <<worker, runtime, demands, boundVars, pastVars>>

\* The demand is reported as wiped, or as unverified.
Report ==
    /\ worker.pc = "erasing" /\ answer # NoAnswer
    /\ wiped' = IF answer.told = "yes" THEN answer.upTo ELSE wiped
    /\ Goes(worker.back)
    /\ UNCHANGED <<mailVars, answer, events, ui, runtime, demands, boundVars, reached,
                   cleared, completed, wanted, acted>>
ReportSlow ==
    /\ worker.pc = "erasing" /\ answer = NoAnswer
    /\ slow < MaxSlow /\ slow' = slow + 1
    /\ Goes(worker.back)
    /\ UNCHANGED <<mailVars, answer, events, ui, runtime, demands, typed, pressed, challenges,
                   arrived, pastVars>>

Flushed ==
    /\ worker.pc = "flush" /\ demands = 0 /\ Goes("done")
    /\ UNCHANGED <<mailVars, answer, events, ui, runtime, demands, boundVars, pastVars>>

-----------------------------------------------------------------------------
(* The command is done, and shown                                          *)

Complete ==
    /\ worker.pc = "done" /\ Goes("snapshot")
    /\ CompletedIn(worker.req.lane, worker.req.epoch)
    /\ UNCHANGED <<queue, marks, answer, events, ui, runtime, demands, boundVars, pastVars>>

\* A generation that moved on takes the pending challenge with it (cancel_secret).
Snapshot ==
    /\ worker.pc = "snapshot" /\ Goes("apply")
    /\ LET rest == IF worker.req.generation = marks.generation THEN runtime ELSE Without
           left == IF rest.challenge # None THEN rest.challenge
                   ELSE IF rest.deferred # <<>> THEN Head(rest.deferred) ELSE None
       IN /\ runtime' = rest
          /\ events' = Append(events, [what |-> "apply", shown |-> rest.timeline,
                                       key |-> left, task |-> rest.task])
    /\ UNCHANGED <<mailVars, answer, ui, demands, boundVars, pastVars>>

Consumed == worker.req.cmd = "send" /\ worker.consume
\* A command that leads to a confirmation.
Leads == \/ worker.req.cmd = "secret"
         \/ worker.req.cmd = "refresh" /\ worker.req.of = Connection
\* The confirmation of the window after a command: one that leads to a
\* confirmation shows the challenge, another one takes away what is not pending.
Confirmation(snap) ==
    IF worker.req.generation # marks.generation THEN [key |-> ui.key, can |-> ui.can]
    ELSE IF snap.key = None THEN [key |-> None, can |-> FALSE]
    ELSE IF Leads THEN [key |-> snap.key, can |-> TRUE]
    ELSE [key |-> ui.key, can |-> ui.can]

Applied(clears) ==
    /\ worker.pc = "apply" /\ events # <<>> /\ Head(events).what = "apply"
    /\ events' = Tail(events)
    /\ LET snap == Head(events)
       IN ui' = [draft |-> IF clears THEN NoText ELSE ui.draft,
                 shown |-> snap.shown, task |-> snap.task,
                 key |-> Confirmation(snap).key, can |-> Confirmation(snap).can]
    /\ marks' = IF clears THEN [marks EXCEPT !.edit = @ + 1] ELSE marks
    /\ cleared' = IF clears THEN cleared \cup ({ui.draft} \ {NoText}) ELSE cleared
    /\ worker' = Idle
    /\ UNCHANGED <<queue, pending, answer, runtime, demands, boundVars, wiped, reached,
                   completed, wanted, acted>>
\* Mutated: the draft goes although it was edited meanwhile.
ApplyAnyway == Applied(Consumed)
\* The draft goes if it is still the one that was sent.
Apply == Applied(Consumed /\ worker.req.edit = marks.edit)

-----------------------------------------------------------------------------
Next ==
    \/ Type \/ PressSend \/ PressSecret \/ PressConfirm \/ PressDismiss \/ PressCancel
    \/ \E page \in {Connection, 0} : PressNavigate(page)
    \/ \E t \in Tasks : PressSelect(t)
    \/ Take \/ ConfirmationLost \/ DropErased \/ DropDismissed \/ Begin \/ Demanded
    \/ SendReached \/ SendNot \/ OtherArrives \/ ChallengeEnds \/ CommandEnds
    \/ SelectEnds \/ CancelEnds
    \/ EraseRuntime \/ EraseSurface \/ Report \/ ReportSlow \/ Flushed
    \/ Complete \/ Snapshot \/ Apply

Spec == Init /\ [][Next]_vars

-----------------------------------------------------------------------------
TypeOK ==
    /\ Len(queue) <= Cap /\ Len(events) <= 1 + MaxSlow
    /\ DOMAIN pending = Lanes /\ \A l \in Lanes : pending[l] \in 0..(Cap + 1)
    /\ worker.pc \in {"pop", "taken", "run", "flush", "erasing", "done", "snapshot", "apply",
                      "gone"}
    /\ ui.draft \in 0..MaxTyped /\ demands \in 0..MaxDemands
    /\ ui.can => ui.key # None

\* A lane counts what waits in it and what the worker has of it, in this epoch:
\* what was erased in the worker's hands is not counted off a new command
\* (Mailbox::complete).
LanesCounted ==
    \A l \in Lanes :
        pending[l] = Len(SelectSeq(queue, LAMBDA q : q.lane = l))
            + IF /\ worker.pc \in {"taken", "run", "flush", "erasing", "done"}
                 /\ worker.req.lane = l /\ worker.req.epoch = marks.epoch THEN 1 ELSE 0

\* Once a demand is reported as wiped, no text that was there before is left, in
\* the windows, the mailbox, the runtime or on the way between them
\* (attach_surface_erasure, apply_demand).
Copies ==
    {q.of : q \in {p \in ToSet(queue) \cup IF worker.pc = "taken" THEN {worker.req} ELSE {} :
                       p.cmd = "send"}}
    \cup ({ui.draft} \ {NoText}) \cup ui.shown
    \cup runtime.composer \cup runtime.timeline
    \cup UNION {e.shown : e \in {f \in ToSet(events) : f.what = "apply"}}
WipedIsGone == \A text \in Copies : text > wiped

\* A text that may have reached the host is not left in the draft to be sent once
\* more, and a draft is cleared only if it is that text (chat_output,
\* draft_is_current).
SentOnce ==
    /\ ui.draft \in reached => worker.req.cmd = "send" /\ worker.req.of = ui.draft
    /\ cleared \subseteq reached

\* What is completed is what the owner was shown and confirmed, and did not dismiss
\* before it was executed (the generation, confirm_key).
ConfirmedAsWanted == completed \subseteq wanted

\* A press cancels the task it was about, or none (check_task_key).
ActsAsPressed == \A a \in acted : a.on = a.pressed

DesktopSafe ==
    TypeOK /\ LanesCounted /\ WipedIsGone /\ SentOnce /\ ConfirmedAsWanted /\ ActsAsPressed
=============================================================================
