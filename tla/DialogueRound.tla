----------------------------- MODULE DialogueRound -----------------------------
(****************************************************************************)
(* A turn of a dialogue, from the text a client submits to the reply that is *)
(* stored and streamed (apps/ene-core/src/dialogue.rs submit_text and        *)
(* StreamGate, crates/ene-companion/src/dialogue.rs, the history tables of   *)
(* crates/ene-store/src/companion.rs, check_intake of ene-presentation).     *)
(*                                                                          *)
(* A connection works on one frame at a time, so it has at most one turn;    *)
(* turns of two connections interleave at every await.  Around them the      *)
(* connection is replaced or ends, the presence moves to another device, the *)
(* consent and the set of credentials change, and a deletion begins, sweeps  *)
(* and completes.  A turn reads its premises before it calls the provider    *)
(* and compares them again whenever it commits or publishes.                 *)
(*                                                                          *)
(* A text is known by the command that submitted it; what a reply repeats of *)
(* what it was given is one of those.  The pieces of a reply are counted.    *)
(****************************************************************************)
EXTENDS Naturals, Sequences, FiniteSets

CONSTANTS
  Conns,          \* connections, numbered; a later one of a device replaces an earlier one
  DeviceOf,       \* the device a connection is authenticated for
  Commands,       \* the commands of the clients
  CommandOf,      \* the device whose client issues a command
  Erasable,       \* the commands whose text an owner may have deleted
  OldViews,       \* bound: generations a client may still believe in
  MaxSends,       \* bound: texts submitted, repetitions included
  MaxGen,         \* bound: moves of the presence
  MaxPieces,      \* bound: pieces of a reply
  QueueCap,       \* frames the writer of a connection holds (STREAM_BUFFER_FRAMES)
  MaxChanges,     \* bound: changes of consent and credentials
  MaxFails,       \* bound: notes of a delivery that fail
  None

DialogueRoundAssumption ==
  /\ Conns \subseteq Nat /\ IsFiniteSet(Commands) /\ Erasable \subseteq Commands
  /\ OldViews \subseteq Nat /\ {MaxSends, MaxGen, MaxPieces, QueueCap, MaxChanges, MaxFails} \subseteq Nat
  /\ None \notin Commands

Devices == { DeviceOf[c] : c \in Conns }

VARIABLES
  history,        \* the rows of history_message, in the order of their rowid
  unseen,         \* the undelivered row of a reply, by the command it answers
  presence,       \* the presence_attribution row
  consent,        \* revision of the consent for dialogues
  credset,        \* revision of the set of credentials
  tasks,          \* how often the task command of a message was applied
  op,             \* the deletion: its phase, what it covers, what it has done
  held,           \* connections whose inference claim the deletion has held
  fence,          \* epoch of the transient fence
  rounds,         \* rounds minted
  open,           \* the open round of a connection
  conn,           \* Absent, Current, Replaced or Ended
  wire,           \* frames queued for a connection's client
  turn,           \* the turn of a connection
  seen,           \* what the client of a connection was told of a command
  sends, fails    \* counters of the bounds

tableVars == <<history, unseen, tasks>>
premiseVars == <<presence, consent, credset>>
erasureVars == <<op, held, fence>>
hostVars == <<rounds, open, conn>>
countVars == <<sends, fails>>
vars == <<tableVars, premiseVars, erasureVars, hostVars, wire, turn, seen, countVars>>

----------------------------------------------------------------------------
(* Rows, rounds and turns.                                                   *)

OwnerRow(m, i, r, g) == [role |-> "Owner", cmd |-> m, intent |-> i, round |-> r, gen |-> g, quotes |-> m, pieces |-> 0]
ReplyRow(m, r, g, q, n) ==
  [role |-> "Companion", cmd |-> m, intent |-> None, round |-> r, gen |-> g, quotes |-> q, pieces |-> n]

OwnerRows(m) == { i \in DOMAIN history : history[i].role = "Owner" /\ history[i].cmd = m }
Replies(m) == { i \in DOMAIN history : history[i].role = "Companion" /\ history[i].cmd = m }
Stored(m) == history[CHOOSE i \in OwnerRows(m) : TRUE]

\* expected_owner_message: the row is there and no owner row is younger.
NewestOwner(m) ==
  \E i \in OwnerRows(m) : \A j \in DOMAIN history : j > i => history[j].role # "Owner"

Covered == IF op.phase = "Covering" THEN op.covers ELSE {}

NoTurn == [pc |-> "Idle", cmd |-> None, intent |-> None, view |-> 0, at |-> [state |-> "NoActive", holder |-> None, gen |-> 0],
           cred |-> 0, consent |-> 0, round |-> 0, uses |-> {}, opened |-> FALSE, epoch |-> 0,
           said |-> 0, late |-> 0, quotes |-> None, back |-> None, installed |-> FALSE]
NoNews == [round |-> 0, streams |-> 0, pieces |-> 0, last |-> FALSE, close |-> None, confirmed |-> FALSE]

To(c, pc) == turn' = [turn EXCEPT ![c].pc = pc]
Done(c) == turn' = [turn EXCEPT ![c] = NoTurn]

Room(c) == conn[c] \in {"Current", "Replaced"} /\ Len(wire[c]) < QueueCap
Closed(c) == conn[c] = "Ended"

\* emit_end: a frame the queue has no room for is lost.
EmitEnd(c, f) == wire' = IF Room(c) THEN [wire EXCEPT ![c] = Append(@, f)] ELSE wire
Refuse(c) == EmitEnd(c, [kind |-> "Refused", cmd |-> turn[c].cmd]) /\ Done(c)
AcceptFrame(m, r) == [kind |-> "Accept", cmd |-> m, round |-> r]
CloseFrame(m, how) == [kind |-> "Close", cmd |-> m, how |-> how]
\* Mutated: a repeated command is told the round its client has open.
ReplayOpen(c) ==
  EmitEnd(c, AcceptFrame(turn[c].cmd, IF open[c] = None THEN rounds ELSE open[c].round)) /\ Done(c)

\* replay_frame: the acceptance is told again with the round that is stored.
Replay(c) == EmitEnd(c, AcceptFrame(turn[c].cmd, Stored(turn[c].cmd).round)) /\ Done(c)

----------------------------------------------------------------------------
(* submit_text, up to the commit of the owner's message.                     *)

Init ==
  /\ history = << >> /\ unseen = [m \in Commands |-> "None"] /\ tasks = [m \in Commands |-> 0]
  /\ presence = [state |-> "NoActive", holder |-> None, gen |-> 0]
  /\ consent = 1 /\ credset = 1
  /\ op = [phase |-> "None", covers |-> {}, bumped |-> FALSE, swept |-> FALSE]
  /\ held = {} /\ fence = 0
  /\ rounds = 0 /\ open = [c \in Conns |-> None] /\ conn = [c \in Conns |-> "Absent"]
  /\ wire = [c \in Conns |-> << >>] /\ turn = [c \in Conns |-> NoTurn]
  /\ seen = [c \in Conns |-> [m \in Commands |-> NoNews]]
  /\ sends = 0 /\ fails = 0

\* A text arrives, with the generation its client last saw; the attribution is
\* read and the text is scrubbed under the current set of credentials.
Submit(c, m, intent, view) ==
  /\ turn[c].pc = "Idle" /\ conn[c] = "Current" /\ CommandOf[m] = DeviceOf[c]
  /\ sends < MaxSends /\ sends' = sends + 1
  /\ turn' = [turn EXCEPT ![c] = [NoTurn EXCEPT !.pc = "Classify", !.cmd = m, !.intent = intent,
                !.view = view, !.at = presence, !.cred = credset]]
  /\ UNCHANGED <<tableVars, premiseVars, erasureVars, hostVars, wire, seen, fails>>

\* classify_replay: a command that is stored is answered with what is stored,
\* if it is the same request.
Classify(c) ==
  /\ turn[c].pc = "Classify"
  /\ \/ /\ OwnerRows(turn[c].cmd) = {}
        /\ To(c, IF turn[c].at.state \in {"NoActive", "RecoveryWait"} THEN "Attach" ELSE "Intake")
        /\ UNCHANGED wire
     \/ /\ OwnerRows(turn[c].cmd) # {}
        /\ IF Stored(turn[c].cmd).intent = turn[c].intent THEN Replay(c) ELSE Refuse(c)
  /\ UNCHANGED <<tableVars, premiseVars, erasureVars, hostVars, seen, countVars>>

\* attach_presence: a companion without a client comes to this one, if the
\* client saw the current generation and the attribution is still the one read.
Attach(c) ==
  /\ turn[c].pc = "Attach"
  /\ \/ /\ turn[c].view = turn[c].at.gen /\ conn[c] = "Current"
        /\ presence.state = turn[c].at.state /\ presence.gen = turn[c].at.gen /\ presence.gen < MaxGen
        /\ presence' = [state |-> "Active", holder |-> DeviceOf[c], gen |-> presence.gen + 1]
        /\ turn' = [turn EXCEPT ![c].pc = "Intake", ![c].at = presence', ![c].view = presence'.gen]
        /\ UNCHANGED wire
     \/ /\ \/ turn[c].view # turn[c].at.gen \/ conn[c] # "Current"
           \/ presence.state # turn[c].at.state \/ presence.gen # turn[c].at.gen
        /\ Refuse(c) /\ UNCHANGED presence
  /\ UNCHANGED <<tableVars, consent, credset, erasureVars, hostVars, seen, countVars>>

Matching(c) == open[c] # None /\ open[c].gen = turn[c].at.gen

\* check_intake: the client is the one the companion is with, at the
\* generation it saw, and an existing round is the connection's open one.
Admissible(c) ==
  /\ turn[c].at.state = "Active" /\ turn[c].view = turn[c].at.gen
  /\ turn[c].at.holder = DeviceOf[c]
  /\ turn[c].intent.target = "Existing" => Matching(c) /\ open[c].round = turn[c].intent.round

Intake(c) ==
  /\ turn[c].pc = "Intake"
  /\ \/ /\ Admissible(c)
        /\ LET kept == turn[c].intent.target # "New" /\ Matching(c)
           IN  /\ rounds' = IF kept THEN rounds ELSE rounds + 1
               /\ turn' = [turn EXCEPT ![c].pc = "Admit",
                             ![c].round = IF kept THEN open[c].round ELSE rounds + 1]
        /\ UNCHANGED wire
     \/ ~Admissible(c) /\ Refuse(c) /\ UNCHANGED rounds
  /\ UNCHANGED <<tableVars, premiseVars, erasureVars, open, conn, seen, countVars>>

\* The prompt is assembled from the rows nothing is deleting, and the use of
\* them is admitted under the consent there is, or declined.
Admit(c) ==
  /\ turn[c].pc = "Admit"
  /\ \/ /\ turn' = [turn EXCEPT ![c].pc = "Commit", ![c].consent = consent,
              ![c].uses = { history[i].quotes : i \in DOMAIN history } \ (Covered \union {None})]
        /\ UNCHANGED wire
     \/ Refuse(c)
  /\ UNCHANGED <<tableVars, premiseVars, erasureVars, hostVars, seen, countVars>>

\* The premises a row is appended under; the lifecycle is always Running.
Appendable(c, cred) ==
  presence.gen = turn[c].at.gen /\ consent = turn[c].consent /\ credset = cred

\* Mutated: what is being deleted is not compared with.
CommitUncovered(c) ==
  /\ turn[c].pc = "Commit"
  /\ LET m == turn[c].cmd IN
     \/ /\ conn[c] # "Current" \/ ~Appendable(c, turn[c].cred)
        /\ Refuse(c) /\ UNCHANGED history
     \/ /\ conn[c] = "Current" /\ Appendable(c, turn[c].cred) /\ OwnerRows(m) # {}
        /\ IF Stored(m).intent = turn[c].intent THEN Replay(c) ELSE Refuse(c)
        /\ UNCHANGED history
     \/ /\ conn[c] = "Current" /\ Appendable(c, turn[c].cred) /\ OwnerRows(m) = {}
        /\ history' = Append(history, OwnerRow(m, turn[c].intent, turn[c].round, turn[c].at.gen))
        /\ To(c, "Install") /\ UNCHANGED wire
  /\ UNCHANGED <<unseen, tasks, premiseVars, erasureVars, hostVars, seen, countVars>>

\* begin_turn_committed: under the authority of the connection and in one
\* transaction the premises are compared, a repeated command is answered with
\* what is stored, and a text being deleted is refused.
Commit(c) ==
  /\ turn[c].pc = "Commit"
  /\ LET m == turn[c].cmd IN
     \/ /\ conn[c] # "Current" \/ ~Appendable(c, turn[c].cred)
        /\ Refuse(c) /\ UNCHANGED history
     \/ /\ conn[c] = "Current" /\ Appendable(c, turn[c].cred) /\ OwnerRows(m) # {}
        /\ IF Stored(m).intent = turn[c].intent THEN Replay(c) ELSE Refuse(c)
        /\ UNCHANGED history
     \/ /\ conn[c] = "Current" /\ Appendable(c, turn[c].cred) /\ OwnerRows(m) = {}
        /\ IF m \in Covered
           THEN Refuse(c) /\ UNCHANGED history
           ELSE /\ history' = Append(history, OwnerRow(m, turn[c].intent, turn[c].round, turn[c].at.gen))
                /\ To(c, "Install") /\ UNCHANGED wire
  /\ UNCHANGED <<unseen, tasks, premiseVars, erasureVars, hostVars, seen, countVars>>

----------------------------------------------------------------------------
(* The stream is opened, the provider is called.                             *)

\* record_open_round.
Install(c) ==
  /\ turn[c].pc = "Install"
  /\ open' = IF conn[c] = "Current"
             THEN [open EXCEPT ![c] = [round |-> turn[c].round, gen |-> turn[c].at.gen]] ELSE open
  /\ turn' = [turn EXCEPT ![c].pc = "Publish", ![c].installed = (conn[c] = "Current")]
  /\ UNCHANGED <<tableVars, premiseVars, erasureVars, rounds, conn, wire, seen, countVars>>

\* The acceptance and the opening of the stream are queued under the authority
\* of the connection; a turn whose frames find no room ends here.
Publish(c) ==
  /\ turn[c].pc = "Publish"
  /\ LET accept == AcceptFrame(turn[c].cmd, turn[c].round)
         opening == [kind |-> "Open", cmd |-> turn[c].cmd]
         ready == turn[c].installed /\ conn[c] = "Current"
     IN \/ /\ ready /\ Len(wire[c]) + 2 <= QueueCap
           /\ wire' = [wire EXCEPT ![c] = @ \o <<accept, opening>>]
           /\ turn' = [turn EXCEPT ![c].pc = "Consult", ![c].opened = TRUE, ![c].epoch = fence]
        \/ /\ ready /\ Len(wire[c]) + 2 > QueueCap
           /\ EmitEnd(c, accept) /\ Done(c)
        \/ /\ ~ready
           /\ turn' = [turn EXCEPT ![c].pc = "Consult", ![c].epoch = fence] /\ UNCHANGED wire
  /\ UNCHANGED <<tableVars, premiseVars, erasureVars, hostVars, seen, countVars>>

\* A consent that changed ends the turn; the close is queued if there is room.
Consult(c) ==
  /\ turn[c].pc = "Consult"
  /\ \/ consent = turn[c].consent /\ To(c, "Dispatch") /\ UNCHANGED wire
     \/ /\ consent # turn[c].consent
        /\ IF turn[c].opened /\ conn[c] = "Current"
           THEN EmitEnd(c, CloseFrame(turn[c].cmd, "Interrupted")) ELSE UNCHANGED wire
        /\ Done(c)
  /\ UNCHANGED <<tableVars, premiseVars, erasureVars, hostVars, seen, countVars>>

\* begin_inference_attempt: the claim is taken only if nothing of what the
\* prompt was made of is being deleted.
Dispatch(c) ==
  /\ turn[c].pc = "Dispatch"
  /\ \/ /\ consent = turn[c].consent /\ credset = turn[c].cred /\ turn[c].uses \intersect Covered = {}
        /\ To(c, "Say")
     \/ To(c, "Interrupt")
  /\ UNCHANGED <<tableVars, premiseVars, erasureVars, hostVars, wire, seen, countVars>>

----------------------------------------------------------------------------
(* The stream (StreamGate).                                                  *)

\* Mutated: the fence is not read.
DurableUnfenced(c) ==
  /\ c \notin held
  /\ open[c] # None /\ open[c].round = turn[c].round
  /\ presence.gen = turn[c].at.gen /\ consent = turn[c].consent /\ credset = turn[c].cred

\* durable_current: each premise only ever breaks, so the reads one after the
\* other are a read at some moment among them.
Durable(c) ==
  /\ fence = turn[c].epoch /\ c \notin held
  /\ open[c] # None /\ open[c].round = turn[c].round
  /\ presence.gen = turn[c].at.gen /\ consent = turn[c].consent /\ credset = turn[c].cred

\* What the turn was admitted under is no longer so; late counts the pieces
\* that went out nevertheless.
Overtaken(c) ==
  fence # turn[c].epoch \/ presence.gen # turn[c].at.gen \/ consent # turn[c].consent

\* What a push answers: a turn that is not current aborts, one whose client
\* cannot be told goes on without telling it.
Aborts(c) == IF turn[c].back = "Append" THEN "Append" ELSE "Interrupt"

\* The provider says another piece.
Say(c) ==
  /\ turn[c].pc = "Say" /\ turn[c].said < MaxPieces
  /\ turn' = [turn EXCEPT ![c].pc = "Check", ![c].said = @ + 1, ![c].back = "Say"]
  /\ UNCHANGED <<tableVars, premiseVars, erasureVars, hostVars, wire, seen, countVars>>

Check(c) ==
  /\ turn[c].pc = "Check"
  /\ To(c, IF ~Durable(c) THEN Aborts(c)
           ELSE IF turn[c].opened /\ conn[c] = "Current" THEN "Reserve" ELSE turn[c].back)
  /\ UNCHANGED <<tableVars, premiseVars, erasureVars, hostVars, wire, seen, countVars>>

\* Mutated: a piece the queue has no room for is passed over.
ReserveOrSkip(c) ==
  /\ turn[c].pc = "Reserve"
  /\ To(c, IF Closed(c) \/ ~Durable(c) THEN Aborts(c)
           ELSE IF conn[c] = "Current" /\ Room(c) THEN "Note" ELSE turn[c].back)
  /\ UNCHANGED <<tableVars, premiseVars, erasureVars, hostVars, wire, seen, countVars>>

\* Room in the queue is waited for, then everything is compared again.
Reserve(c) ==
  /\ turn[c].pc = "Reserve" /\ (Room(c) \/ Closed(c))
  /\ To(c, IF Closed(c) \/ ~Durable(c) THEN Aborts(c)
           ELSE IF conn[c] = "Current" THEN "Note" ELSE turn[c].back)
  /\ UNCHANGED <<tableVars, premiseVars, erasureVars, hostVars, wire, seen, countVars>>

\* note_client_body_delivery is a write, after which everything is compared
\* once more.
Note(c) ==
  /\ turn[c].pc = "Note"
  /\ \/ /\ To(c, IF ~Durable(c) THEN Aborts(c)
                 ELSE IF conn[c] = "Current" THEN "Send" ELSE turn[c].back)
        /\ UNCHANGED fails
     \/ fails < MaxFails /\ fails' = fails + 1 /\ To(c, Aborts(c))
  /\ UNCHANGED <<tableVars, premiseVars, erasureVars, hostVars, wire, seen, sends>>

Send(c) ==
  /\ turn[c].pc = "Send"
  /\ \/ /\ conn[c] = "Current"
        /\ wire' = [wire EXCEPT ![c] = Append(@, [kind |-> "Piece", cmd |-> turn[c].cmd])]
        /\ turn' = [turn EXCEPT ![c].pc = turn[c].back, ![c].late = @ + IF Overtaken(c) THEN 1 ELSE 0]
     \/ conn[c] # "Current" /\ To(c, turn[c].back) /\ UNCHANGED wire
  /\ UNCHANGED <<tableVars, premiseVars, erasureVars, hostVars, seen, countVars>>

----------------------------------------------------------------------------
(* The answer is complete (finish_turn).                                     *)

\* is_current: an open round that is gone does not end the turn.
StillCurrent(c) ==
  /\ fence = turn[c].epoch /\ c \notin held
  /\ open[c] # None => open[c].round = turn[c].round

\* The answer is scrubbed; an ordinary one stores what it says of what it was
\* given, its last piece may still be held back; a task command was shown
\* nothing of.  Whatever else arrives interrupts the turn.
Arrive(c) ==
  /\ turn[c].pc = "Say"
  /\ \/ /\ StillCurrent(c)
        /\ \/ \E q \in turn[c].uses \union {turn[c].cmd} :
                turn' = [turn EXCEPT ![c].pc = "Append", ![c].quotes = q, ![c].cred = credset]
           \/ /\ turn[c].said < MaxPieces
              /\ \E q \in turn[c].uses \union {turn[c].cmd} :
                   turn' = [turn EXCEPT ![c].pc = "Check", ![c].quotes = q, ![c].said = @ + 1,
                              ![c].back = "Append"]
           \/ turn[c].said = 0 /\ To(c, "Apply")
     \/ To(c, "Interrupt")
  /\ UNCHANGED <<tableVars, premiseVars, erasureVars, hostVars, wire, seen, countVars>>

\* HostTaskControl: the task commits only for the newest message of the owner
\* and of nothing that is being deleted; the answer is pushed before it is stored.
Apply(c) ==
  /\ turn[c].pc = "Apply"
  /\ \/ /\ NewestOwner(turn[c].cmd) /\ turn[c].cmd \notin Covered
        /\ tasks' = [tasks EXCEPT ![turn[c].cmd] = @ + 1]
        /\ turn' = [turn EXCEPT ![c].pc = "Check", ![c].said = 1, ![c].back = "Told"]
     \/ To(c, "Interrupt") /\ UNCHANGED tasks
  /\ UNCHANGED <<history, unseen, premiseVars, erasureVars, hostVars, wire, seen, countVars>>

Told(c) == turn[c].pc = "Told" /\ To(c, "Append")
           /\ UNCHANGED <<tableVars, premiseVars, erasureVars, hostVars, wire, seen, countVars>>

\* Mutated: a younger message of the owner is not looked for.
AppendLate(c) ==
  /\ turn[c].pc = "Append"
  /\ LET m == turn[c].cmd IN
     \/ /\ Appendable(c, turn[c].cred)
        /\ {turn[c].quotes, m} \intersect Covered = {} /\ c \notin held
        /\ history' = Append(history, ReplyRow(m, turn[c].round, turn[c].at.gen, turn[c].quotes, turn[c].said))
        /\ unseen' = [unseen EXCEPT ![m] = "Pending"]
        /\ To(c, "Finish")
     \/ /\ \/ ~Appendable(c, turn[c].cred)
           \/ {turn[c].quotes, m} \intersect Covered # {} \/ c \in held
        /\ To(c, "Interrupt") /\ UNCHANGED <<history, unseen>>
  /\ UNCHANGED <<tasks, premiseVars, erasureVars, hostVars, wire, seen, countVars>>

\* append_reply_with_undelivered: the reply and its undelivered row are one
\* transaction that compares the premises, the owner's newest message, the
\* deletions and the claim.
AppendReply(c) ==
  /\ turn[c].pc = "Append"
  /\ LET m == turn[c].cmd IN
     \/ /\ Appendable(c, turn[c].cred) /\ NewestOwner(m)
        /\ {turn[c].quotes, m} \intersect Covered = {} /\ c \notin held
        /\ history' = Append(history, ReplyRow(m, turn[c].round, turn[c].at.gen, turn[c].quotes, turn[c].said))
        /\ unseen' = [unseen EXCEPT ![m] = "Pending"]
        /\ To(c, "Finish")
     \/ /\ \/ ~Appendable(c, turn[c].cred) \/ ~NewestOwner(m)
           \/ {turn[c].quotes, m} \intersect Covered # {} \/ c \in held
        /\ To(c, "Interrupt") /\ UNCHANGED <<history, unseen>>
  /\ UNCHANGED <<tasks, premiseVars, erasureVars, hostVars, wire, seen, countVars>>

\* StreamGate::finish: everything is compared, then the last frame and the
\* close each wait for room and are queued under the authority.
Finish(c) ==
  /\ turn[c].pc = "Finish"
  /\ To(c, IF conn[c] = "Current" /\ Durable(c) /\ turn[c].opened THEN "Last" ELSE "Interrupt")
  /\ UNCHANGED <<tableVars, premiseVars, erasureVars, hostVars, wire, seen, countVars>>

PublishLast(c) ==
  /\ turn[c].pc = "Last" /\ (Room(c) \/ Closed(c))
  /\ IF conn[c] = "Current"
     THEN wire' = [wire EXCEPT ![c] = Append(@, [kind |-> "Last", cmd |-> turn[c].cmd])] /\ To(c, "Close")
     ELSE To(c, "Interrupt") /\ UNCHANGED wire
  /\ UNCHANGED <<tableVars, premiseVars, erasureVars, hostVars, seen, countVars>>

Close(c) ==
  /\ turn[c].pc = "Close" /\ (Room(c) \/ Closed(c))
  /\ IF conn[c] = "Current"
     THEN wire' = [wire EXCEPT ![c] = Append(@, CloseFrame(turn[c].cmd, "Completed"))] /\ Done(c)
     ELSE To(c, "Interrupt") /\ UNCHANGED wire
  /\ UNCHANGED <<tableVars, premiseVars, erasureVars, hostVars, seen, countVars>>

\* Mutated: an opened stream is left as it is.
InterruptSilently(c) ==
  /\ turn[c].pc = "Interrupt" /\ (turn[c].opened => (Room(c) \/ Closed(c)))
  /\ Done(c)
  /\ UNCHANGED <<wire, tableVars, premiseVars, erasureVars, hostVars, seen, countVars>>

\* StreamGate::interrupt: an opened stream is closed, whoever has the authority.
Interrupt(c) ==
  /\ turn[c].pc = "Interrupt" /\ (turn[c].opened => (Room(c) \/ Closed(c)))
  /\ wire' = IF turn[c].opened /\ Room(c)
             THEN [wire EXCEPT ![c] = Append(@, CloseFrame(turn[c].cmd, "Interrupted"))] ELSE wire
  /\ Done(c)
  /\ UNCHANGED <<tableVars, premiseVars, erasureVars, hostVars, seen, countVars>>

----------------------------------------------------------------------------
(* The clients.                                                              *)

\* A client reads the next frame of its connection.
Receive(c) ==
  /\ wire[c] # << >>
  /\ LET f == Head(wire[c]) IN
     seen' = CASE f.kind = "Accept" -> [seen EXCEPT ![c][f.cmd].round = f.round]
               [] f.kind = "Open"   -> [seen EXCEPT ![c][f.cmd].streams = @ + 1]
               [] f.kind = "Piece"  -> [seen EXCEPT ![c][f.cmd].pieces = @ + 1]
               [] f.kind = "Last"   -> [seen EXCEPT ![c][f.cmd].last = TRUE]
               [] f.kind = "Close"  -> [seen EXCEPT ![c][f.cmd].close = f.how]
               [] OTHER             -> seen
  /\ wire' = [wire EXCEPT ![c] = Tail(@)]
  /\ UNCHANGED <<tableVars, premiseVars, erasureVars, hostVars, turn, countVars>>

\* What a confirmation of a round makes of an undelivered row.
Marked(status, presented) ==
  CASE presented              -> "Presented"
    [] status = "Pending"     -> "Unknown"
    [] OTHER                  -> "Pending"

\* A client confirms what it showed of a stream that was closed: the host marks
\* every row of the round that is not presented yet and not being deleted.
Confirm(c, m) ==
  /\ turn[c].pc = "Idle" /\ conn[c] = "Current"
  /\ seen[c][m].close # None /\ ~seen[c][m].confirmed
  /\ seen' = [seen EXCEPT ![c][m].confirmed = TRUE]
  /\ unseen' = [n \in Commands |->
        IF /\ unseen[n] \in {"Pending", "Unknown"}
           /\ \E i \in Replies(n) : history[i].round = seen[c][m].round /\ history[i].quotes \notin Covered
        THEN Marked(unseen[n], seen[c][m].close = "Completed") ELSE unseen[n]]
  /\ UNCHANGED <<history, tasks, premiseVars, erasureVars, hostVars, wire, turn, countVars>>

----------------------------------------------------------------------------
(* The world around the turns.                                               *)

\* install_authenticated: a connection becomes the current one of its device;
\* the open rounds of the one it replaces are dropped.
Connect(c) ==
  /\ conn[c] = "Absent" /\ \A d \in Conns : d < c => conn[d] # "Absent"
  /\ LET older == { d \in Conns : conn[d] = "Current" /\ DeviceOf[d] = DeviceOf[c] }
     IN  /\ conn' = [d \in Conns |-> IF d = c THEN "Current" ELSE IF d \in older THEN "Replaced" ELSE conn[d]]
         /\ open' = [d \in Conns |-> IF d \in older THEN None ELSE open[d]]
  /\ UNCHANGED <<tableVars, premiseVars, erasureVars, rounds, wire, turn, seen, countVars>>

\* A connection ends; what was queued for its client is lost.
End(c) ==
  /\ conn[c] \in {"Current", "Replaced"}
  /\ conn' = [conn EXCEPT ![c] = "Ended"]
  /\ open' = [open EXCEPT ![c] = None]
  /\ wire' = [wire EXCEPT ![c] = << >>]
  /\ UNCHANGED <<tableVars, premiseVars, erasureVars, rounds, turn, seen, countVars>>

\* The companion leaves its client: begin, then settle with another or with none.
Leave ==
  /\ presence.state = "Active" /\ presence.gen < MaxGen
  /\ presence' = [state |-> "InTransition", holder |-> None, gen |-> presence.gen + 1]
  /\ UNCHANGED <<tableVars, consent, credset, erasureVars, hostVars, wire, turn, seen, countVars>>

Settle ==
  /\ presence.state = "InTransition"
  /\ \/ presence' = [presence EXCEPT !.state = "NoActive"]
     \/ \E d \in Devices : presence' = [presence EXCEPT !.state = "Active", !.holder = d]
  /\ UNCHANGED <<tableVars, consent, credset, erasureVars, hostVars, wire, turn, seen, countVars>>

ChangeConsent ==
  /\ consent + credset < MaxChanges + 2 /\ consent' = consent + 1
  /\ UNCHANGED <<tableVars, presence, credset, erasureVars, hostVars, wire, turn, seen, countVars>>

ChangeCredentials ==
  /\ consent + credset < MaxChanges + 2 /\ credset' = credset + 1
  /\ UNCHANGED <<tableVars, presence, consent, erasureVars, hostVars, wire, turn, seen, countVars>>

\* A deletion begins: it covers texts, and holds the claims that use them.
Begun(c) == turn[c].pc \in {"Say", "Check", "Reserve", "Note", "Send", "Apply", "Told", "Append",
                            "Finish", "Last", "Close"}
Begin(S) ==
  /\ op.phase = "None"
  /\ op' = [op EXCEPT !.phase = "Covering", !.covers = S]
  /\ held' = { c \in Conns : Begun(c) /\ turn[c].uses \intersect S # {} }
  /\ UNCHANGED <<tableVars, premiseVars, fence, hostVars, wire, turn, seen, countVars>>

\* The host's memory is a participant: it raises the fence.
Bump ==
  /\ op.phase = "Covering" /\ ~op.bumped
  /\ op' = [op EXCEPT !.bumped = TRUE] /\ fence' = fence + 1
  /\ UNCHANGED <<tableVars, premiseVars, held, hostVars, wire, turn, seen, countVars>>

\* The history is another: the rows with the text go, and the undelivered rows
\* of the replies among them.
Sweep ==
  /\ op.phase = "Covering" /\ ~op.swept
  /\ op' = [op EXCEPT !.swept = TRUE]
  /\ history' = SelectSeq(history, LAMBDA r : r.quotes \notin op.covers)
  /\ unseen' = [m \in Commands |->
        IF \E i \in Replies(m) : history[i].quotes \in op.covers THEN "None" ELSE unseen[m]]
  /\ UNCHANGED <<tasks, premiseVars, held, fence, hostVars, wire, turn, seen, countVars>>

Complete ==
  /\ op.phase = "Covering" /\ op.bumped /\ op.swept
  /\ op' = [op EXCEPT !.phase = "Done"]
  /\ UNCHANGED <<tableVars, premiseVars, held, fence, hostVars, wire, turn, seen, countVars>>

----------------------------------------------------------------------------

Intents(c) ==
  [target : {"Auto", "New"}, round : {0}]
  \union [target : {"Existing"}, round : { seen[c][m].round : m \in Commands } \ {0}]

Request(c) == \E m \in Commands, i \in Intents(c), v \in {presence.gen} \union OldViews : Submit(c, m, i, v)
Work(c) ==
  \/ Classify(c) \/ Attach(c) \/ Intake(c) \/ Admit(c) \/ Commit(c)
  \/ Install(c) \/ Publish(c) \/ Consult(c) \/ Dispatch(c)
  \/ Say(c) \/ Check(c) \/ Reserve(c) \/ Note(c) \/ Send(c)
  \/ Arrive(c) \/ Apply(c) \/ Told(c) \/ AppendReply(c)
  \/ Finish(c) \/ PublishLast(c) \/ Close(c) \/ Interrupt(c)
Client(c) == Receive(c) \/ \E m \in Commands : Confirm(c, m)
World ==
  \/ \E c \in Conns : Connect(c) \/ End(c)
  \/ Leave \/ Settle \/ ChangeConsent \/ ChangeCredentials
  \/ (\E S \in SUBSET Erasable \ {{}} : Begin(S)) \/ Bump \/ Sweep \/ Complete

Next == (\E c \in Conns : Request(c) \/ Work(c) \/ Client(c)) \/ World
Spec == Init /\ [][Next]_vars

\* The provider answers or fails within its timeout, the host goes on with a
\* turn, a client reads its connection; nothing else need happen.
FairSpec == Spec /\ \A c \in Conns : WF_vars(Work(c)) /\ WF_vars(Receive(c))

----------------------------------------------------------------------------
(* Properties.                                                               *)

Pcs == {"Idle", "Classify", "Attach", "Intake", "Admit", "Commit", "Install", "Publish", "Consult",
        "Dispatch", "Say", "Check", "Reserve", "Note", "Send", "Apply", "Told", "Append", "Finish",
        "Last", "Close", "Interrupt"}

\* Every row, turn and queue is one the code can hold.
TypeOK ==
  /\ \A i \in DOMAIN history : /\ history[i].role \in {"Owner", "Companion"} /\ history[i].cmd \in Commands
                               /\ history[i].round \in 1 .. rounds /\ history[i].gen \in 0 .. presence.gen
  /\ unseen \in [Commands -> {"None", "Pending", "Unknown", "Presented"}]
  /\ presence.state \in {"NoActive", "Active", "InTransition"} /\ presence.gen \in 0 .. MaxGen
  /\ (presence.state = "Active") = (presence.holder # None)
  /\ op.phase \in {"None", "Covering", "Done"} /\ held \subseteq Conns
  /\ \A c \in Conns : /\ turn[c].pc \in Pcs /\ turn[c].cmd \in Commands \union {None}
                      /\ turn[c].epoch \in 0 .. fence /\ turn[c].round \in 0 .. rounds
                      /\ turn[c].said \in 0 .. MaxPieces + 1 /\ Len(wire[c]) <= QueueCap
                      /\ conn[c] \in {"Absent", "Current", "Replaced", "Ended"}

\* The timeline reads as a conversation: a reply stands after the message it
\* answers, in its round and generation, with no other message of the owner
\* between them; a message has one reply at most; and generations never fall.
\* A message whose text was deleted may be sent and answered again.
RepliesFollow ==
  /\ \A m \in Commands \ (IF op.swept THEN op.covers ELSE {}) :
       /\ Cardinality(Replies(m)) <= 1
       /\ \A i \in OwnerRows(m), j \in Replies(m) :
            /\ i < j /\ history[i].round = history[j].round /\ history[i].gen = history[j].gen
            /\ \A k \in (i + 1) .. (j - 1) : history[k].role # "Owner"
  /\ \A i, j \in DOMAIN history : i < j => history[i].gen <= history[j].gen

\* However often and over whichever connections a command is sent, it is
\* stored once, its task command is applied once, and every client that was
\* told of its acceptance was told the round it is stored in; until the text
\* is deleted, and the record of the command with it.
CommandOnce ==
  \A m \in Commands \ (IF op.swept THEN op.covers ELSE {}) :
    /\ Cardinality(OwnerRows(m)) <= 1 /\ tasks[m] <= 1
    /\ OwnerRows(m) # {} =>
         \A c \in Conns : seen[c][m].round \in {0, Stored(m).round}

\* A client is told Completed only of a reply that is stored (or was deleted
\* since), after every piece of it unless a delivery could not be noted; and a
\* command is streamed once on a connection, until its text is deleted.
CompletedIsStored ==
  \A c \in Conns, m \in Commands \ (IF op.swept THEN op.covers ELSE {}) :
    /\ seen[c][m].streams <= 1
    /\ seen[c][m].close = "Completed" =>
         /\ seen[c][m].last
         /\ unseen[m] # "None" \/ op.swept
         /\ \A i \in Replies(m) : fails = 0 => seen[c][m].pieces = history[i].pieces

\* As long as a deletion covers a text and its sweep of the history is done,
\* no row has the text.
SweptStaysClean ==
  (op.phase = "Covering" /\ op.swept) => \A i \in DOMAIN history : history[i].quotes \notin op.covers

\* Between the last comparison and the queue nothing holds the premises still;
\* but once a deletion has raised the fence, the presence has moved or the
\* consent has changed, a turn has at most one more piece queued.
OnePieceLate == \A c \in Conns : turn[c].late <= 1

\* What a client was told of its turns is what the host stored.
RoundsSafe == TypeOK /\ CompletedIsStored /\ OnePieceLate

\* A stream that was opened is closed as long as its connection stays.
StreamsClose ==
  \A c \in Conns, m \in Commands :
    (seen[c][m].streams > 0) ~> (seen[c][m].close # None \/ conn[c] # "Current")

=============================================================================
