---------------------------- MODULE MCDialogue ----------------------------
(***************************************************************************)
(* A turn of the dialogue, from the text of a client to the rows of the    *)
(* history and the stream of the reply, the sink the text of a reply goes  *)
(* through, and the credentials texts are scrubbed of and calls are made   *)
(* with.  The three share no variable here; a behaviour explores one scene.*)
(***************************************************************************)
EXTENDS CredentialPublication, TLC

CONSTANTS d1, m1, m2, m3, m4, lt, word, gt, space, other, masked, c1, s1, s2

VARIABLES
    scene,    \* which part is explored; never changes
    \* DialogueRound
    history, unseen, presence, consent, credset, tasks, op, held, fence,
    rounds, open, conn, wire, turn, seen, sends, fails,
    \* ControlSink
    text, pushed, buffer, mode, outcome, reply, secret

\* Two connections of one device.
OneDevice == [c \in {1, 2} |-> d1]
AllOfOne == [m \in {m1, m2, m3, m4} |-> d1]
\* The marker is three symbols long.
SinkMarker == <<lt, word, gt>>
SinkSymbols == {lt, word, gt, space, other}
\* No credential, one that deltas may cut, and one that begins as the marker ends.
SinkSecrets == {<<>>, <<other, other>>, <<gt, other>>}
SinkTails == {<<other>>, <<space, other, other>>}
\* Commands nobody asks to delete are interchangeable.
Symmetry == Permutations({m1, m2})

roundVars == <<history, unseen, presence, consent, credset, tasks, op, held,
    fence, rounds, open, conn, wire, turn, seen, sends, fails>>
sinkVars == <<text, pushed, buffer, mode, outcome, reply, secret>>
scenes == <<scene, roundVars, sinkVars, vars>>

Overtake == INSTANCE DialogueRound WITH
    Conns <- {1, 2}, DeviceOf <- OneDevice, Commands <- {m1, m2},
    CommandOf <- AllOfOne, Erasable <- {}, OldViews <- {}, MaxSends <- 2,
    MaxGen <- 1, MaxPieces <- 0, QueueCap <- 2, MaxChanges <- 0, MaxFails <- 0

Again == INSTANCE DialogueRound WITH
    Conns <- {1}, DeviceOf <- OneDevice, Commands <- {m1, m2},
    CommandOf <- AllOfOne, Erasable <- {}, OldViews <- {}, MaxSends <- 3,
    MaxGen <- 1, MaxPieces <- 0, QueueCap <- 2, MaxChanges <- 0, MaxFails <- 0

Moves == INSTANCE DialogueRound WITH
    Conns <- {1, 2}, DeviceOf <- OneDevice, Commands <- {m3},
    CommandOf <- AllOfOne, Erasable <- {}, OldViews <- {0}, MaxSends <- 2,
    MaxGen <- 2, MaxPieces <- 1, QueueCap <- 1, MaxChanges <- 0, MaxFails <- 0

Deleted == INSTANCE DialogueRound WITH
    Conns <- {1}, DeviceOf <- OneDevice, Commands <- {m3, m4},
    CommandOf <- AllOfOne, Erasable <- {m3}, OldViews <- {0}, MaxSends <- 2,
    MaxGen <- 1, MaxPieces <- 0, QueueCap <- 3, MaxChanges <- 0, MaxFails <- 0

Streams == INSTANCE DialogueRound WITH
    Conns <- {1}, DeviceOf <- OneDevice, Commands <- {m3},
    CommandOf <- AllOfOne, Erasable <- {m3}, OldViews <- {0}, MaxSends <- 1,
    MaxGen <- 2, MaxPieces <- 2, QueueCap <- 2, MaxChanges <- 1, MaxFails <- 0

Sink == INSTANCE ControlSink WITH
    Marker <- SinkMarker, Space <- space, Symbols <- SinkSymbols,
    Mask <- masked, Secrets <- SinkSecrets, Tails <- SinkTails,
    MaxText <- 6, MaxDelta <- 3, stored <- reply

ASSUME CredentialPublicationAssumption
ASSUME Overtake!DialogueRoundAssumption
ASSUME Sink!ControlSinkAssumption

\* The parts a scene does not explore rest in their first state.
SinkRests == Sink!Init /\ secret = <<>>
MCInit ==
    \/ scene = "overtake" /\ Overtake!Init /\ SinkRests /\ Init
    \/ scene = "again" /\ Again!Init /\ SinkRests /\ Init
    \/ scene = "moves" /\ Moves!Init /\ SinkRests /\ Init
    \/ scene = "deleted" /\ Deleted!Init /\ SinkRests /\ Init
    \/ scene = "streams" /\ Streams!Init /\ SinkRests /\ Init
    \/ scene \in {"race", "texts", "calls"} /\ SinkRests /\ Overtake!Init /\ Init
    \/ scene = "sink" /\ Sink!Init /\ Overtake!Init /\ Init

\* The publications are explored in three parts: they race for the revisions of
\* the set, or follow each other while a text is scrubbed, or during a call.
\* Mutations, publications and secrets are interchangeable, so that the least one
\* is taken of those that nothing names.
Drawn == { m \in Mutations : row[m] # NoRow \/ \E p \in Callers : call[p].mut = m }
InOrder ==
    /\ \A m \in Drawn' \ Drawn : 1..(m - 1) \subseteq Drawn'
    /\ call[2].pc = "idle" /\ call'[2].pc # "idle" => call[1].pc # "idle"
    /\ Drawn = {} /\ stored = {} /\ writer' = writer =>
           \A p \in Callers : call'[p].secret # s2
OneAtATime == Cardinality({ p \in Callers : call'[p].pc # "idle" }) <= 1

RoundNext ==
    \/ scene = "overtake" /\ Overtake!Next
    \/ scene = "again" /\ Again!Next
    \/ scene = "moves" /\ Moves!Next
    \/ scene = "deleted" /\ Deleted!Next
    \/ scene = "streams" /\ Streams!Next

MCNext ==
    \/ RoundNext /\ UNCHANGED <<scene, sinkVars, vars>>
    \/ scene = "sink" /\ Sink!Next /\ UNCHANGED <<scene, roundVars, vars>>
    \/ /\ scene = "race" /\ Next /\ InOrder /\ Drawn' \subseteq {1, 2}
       /\ UNCHANGED <<scene, roundVars, sinkVars, writer, request>>
    \/ /\ scene = "texts" /\ Next /\ InOrder /\ OneAtATime /\ count'.erasures = 0
       /\ UNCHANGED <<scene, roundVars, sinkVars, request>>
    \/ /\ scene = "calls" /\ Next /\ InOrder /\ OneAtATime
       /\ UNCHANGED <<scene, roundVars, sinkVars, writer>>

MCSpec == MCInit /\ [][MCNext]_scenes

\* The timeline reads as a conversation: a reply follows the message it answers
\* (append_history), a command that is sent again is stored, applied and answered once
\* (classify_replay), and a text whose deletion has swept the history is not
\* written again (append_message_sync).
ConversationKept ==
    /\ scene = "overtake" => Overtake!RepliesFollow /\ Overtake!CommandOnce /\ Overtake!SweptStaysClean
    /\ scene = "again" => Again!RepliesFollow /\ Again!CommandOnce /\ Again!SweptStaysClean
    /\ scene = "moves" => Moves!RepliesFollow /\ Moves!CommandOnce /\ Moves!SweptStaysClean
    /\ scene = "deleted" => Deleted!RepliesFollow /\ Deleted!CommandOnce /\ Deleted!SweptStaysClean
    /\ scene = "streams" => Streams!RepliesFollow /\ Streams!CommandOnce /\ Streams!SweptStaysClean

\* What a client is shown is what is stored, but for a credential: a reply told as
\* completed, the text of a reply that may be a command, and the answer to one
\* (close_frame, finish_turn).
ShownIsStored ==
    /\ scene = "overtake" => Overtake!RoundsSafe
    /\ scene = "again" => Again!RoundsSafe
    /\ scene = "moves" => Moves!RoundsSafe
    /\ scene = "deleted" => Deleted!RoundsSafe
    /\ scene = "streams" => Streams!RoundsSafe
    /\ scene = "sink" => Sink!SinkSafe

=============================================================================
