------------------------------ MODULE MCOwner ------------------------------
(***************************************************************************)
(* What the owner decides: the requests confirmed in front of the host, the*)
(* intents of the management frames, what is pressed in the windows of the *)
(* desktop, and which host a client trusts.  They share no variable here; a*)
(* behaviour explores one scene.                                           *)
(***************************************************************************)
EXTENDS ControlSeat, ClientConnect, TLC

CONSTANTS cli, desk, t1, k1, d1, i1, i2, i3, h1, h2, w1, w2, pin1, pin2, dev1

VARIABLES
    scene,    \* which part is explored; never changes
    \* ManagementIntents
    seen, journal, consent, births, credential, pending, cap, task, activity,
    workspace, intentDeletion, surface, handler, answers, done, basis, frames,
    world, erasures, crashes,
    \* Desktop
    queue, marks, lanes, worker, answer, loopEvents, ui, deskRuntime, demands, typed,
    pressed, shown, slow, arrived, wiped, reached, cleared, completed, wanted,
    acted

\* What each intent is about, and the body it was given.
AssignKinds == [i \in {i1, i2, i3} |-> "assign"]
SetUpKinds == (i1 :> "assign") @@ (i2 :> "register") @@ (i3 :> "complete")
TaskKinds == (i1 :> "cancel") @@ (i2 :> "resume") @@ (i3 :> "resume")
MixedKinds == (i1 :> "cap") @@ (i2 :> "deletion") @@ (i3 :> "workspace")
TwoBodies == (i1 :> "b1") @@ (i2 :> "b2") @@ (i3 :> "b1")
OneBody == [i \in {i1, i2, i3} |-> "b1"]

intentVars == <<seen, journal, consent, births, credential, pending, cap,
    task, activity, workspace, intentDeletion, surface, handler, answers,
    done, basis, frames, world, erasures, crashes>>
deskVars == <<queue, marks, lanes, worker, answer, loopEvents, ui, deskRuntime, demands,
    typed, pressed, shown, slow, arrived, wiped, reached, cleared, completed,
    wanted, acted>>
scenes == <<scene, vars, intentVars, deskVars, connectVars>>

AssignThree == INSTANCE ManagementIntents WITH
    Intents <- {i1, i2, i3}, Handlers <- {h1, h2}, Bodies <- {"b1", "b2"},
    MaxRev <- 2, MaxFrames <- 3, MaxWorld <- 1, MaxErasures <- 1,
    MaxCrashes <- 0, KindOf <- AssignKinds, BodyOf <- TwoBodies,
    Altered <- {i1}, deletion <- intentDeletion

SetUp == INSTANCE ManagementIntents WITH
    Intents <- {i1, i2, i3}, Handlers <- {h1, h2}, Bodies <- {"b1", "b2"},
    MaxRev <- 3, MaxFrames <- 3, MaxWorld <- 2, MaxErasures <- 0,
    MaxCrashes <- 1, KindOf <- SetUpKinds, BodyOf <- TwoBodies, Altered <- {},
    deletion <- intentDeletion

OfTasks == INSTANCE ManagementIntents WITH
    Intents <- {i1, i2, i3}, Handlers <- {h1, h2}, Bodies <- {"b1", "b2"},
    MaxRev <- 3, MaxFrames <- 3, MaxWorld <- 1, MaxErasures <- 0,
    MaxCrashes <- 1, KindOf <- TaskKinds, BodyOf <- OneBody, Altered <- {},
    deletion <- intentDeletion

Mixed == INSTANCE ManagementIntents WITH
    Intents <- {i1, i2, i3}, Handlers <- {h1, h2}, Bodies <- {"b1", "b2"},
    MaxRev <- 3, MaxFrames <- 3, MaxWorld <- 1, MaxErasures <- 0,
    MaxCrashes <- 1, KindOf <- MixedKinds, BodyOf <- OneBody, Altered <- {},
    deletion <- intentDeletion

\* Texts that are typed, sent and erased; confirmations that are given and
\* dismissed; tasks that are selected, cancelled and erased.
Writes == INSTANCE Desktop WITH
    Presses <- {"send"}, Tasks <- {}, Cap <- 2, MaxTyped <- 2, MaxPressed <- 4,
    MaxDemands <- 2, MaxChallenges <- 0, MaxSlow <- 1,
    pending <- lanes, challenges <- shown,
    events <- loopEvents, runtime <- deskRuntime

Confirms == INSTANCE Desktop WITH
    Presses <- {"secret", "confirm", "dismiss", "navigate"}, Tasks <- {}, Cap <- 3,
    MaxTyped <- 0, MaxPressed <- 5, MaxDemands <- 0, MaxChallenges <- 2,
    MaxSlow <- 0, pending <- lanes, challenges <- shown,
    events <- loopEvents, runtime <- deskRuntime

Cancels == INSTANCE Desktop WITH
    Presses <- {"select", "cancel", "send"}, Tasks <- {w1, w2}, Cap <- 2,
    MaxTyped <- 1, MaxPressed <- 4, MaxDemands <- 1, MaxChallenges <- 0,
    MaxSlow <- 1, pending <- lanes, challenges <- shown,
    events <- loopEvents, runtime <- deskRuntime

ASSUME ControlSeatAssumption
ASSUME AssignThree!IntentsAssumption
ASSUME Writes!DesktopAssumption
ASSUME ClientConnectAssumption

\* The parts a scene does not explore rest in their first state.
MCInit ==
    /\ scene \in {"desktops", "full", "restated", "assign", "setup", "tasks", "mixed",
                 "writes", "confirms", "cancels", "reach"}
    /\ Init /\ Writes!Init
    /\ CASE scene = "setup" -> SetUp!Init
         [] scene = "tasks" -> OfTasks!Init
         [] scene = "mixed" -> Mixed!Init
         [] OTHER -> AssignThree!Init
    /\ ConnectInit /\ (scene # "reach" => device = Nothing)

\* The seat is explored in three parts: two desktops and two requests, one of
\* them for a credential; three requests, of which two may wait; a desktop whose
\* waits run out, a deletion that is stated again, and a stop.
Asked(T, n) ==
    /\ \A p \in Requesters : requester'[p].target \in T \cup {None}
    /\ \A g \in Gens : gui'[g].expects \in T \cup {None}
    /\ LET taken == Cardinality({ r \in Reqs : request'[r] # NoRequest })
       IN /\ taken <= n
          /\ taken = n => \A p \in Requesters :
                requester'[p].pc = "open" => requester[p].pc = "open"
SeatNext ==
    \/ scene = "desktops" /\ Next /\ Asked({t1, k1}, 2) /\ waits' = 0 /\ stop' = "no"
          /\ \A r, q \in Reqs : r < q /\ request'[q] # NoRequest =>
                k1 \in {request'[r].target, request'[q].target}
    \/ scene = "full" /\ Next /\ Asked({d1}, 3) /\ waits' = 0 /\ stop' = "no" /\ served'[2] = "none"
    \/ scene = "restated" /\ Next /\ Asked({t1}, 2) /\ served'[2] = "none"

IntentNext ==
    \/ scene = "assign" /\ AssignThree!Next
    \/ scene = "setup" /\ SetUp!Next
    \/ scene = "tasks" /\ OfTasks!Next
    \/ scene = "mixed" /\ Mixed!Next

DeskNext ==
    \/ scene = "writes" /\ Writes!Next
    \/ scene = "confirms" /\ Confirms!Next
    \/ scene = "cancels" /\ Cancels!Next

\* Keys and processes are interchangeable: the first of each comes first.
ReachNext ==
    /\ scene = "reach" /\ ConnectNext
    /\ starts = 0 => runtime' \in {Nothing, [key |-> pin1, generation |-> 1]}
    /\ boots = 0 => call'[2].pc = "idle"

MCNext ==
    \/ SeatNext /\ UNCHANGED <<scene, intentVars, deskVars, connectVars>>
    \/ IntentNext /\ UNCHANGED <<scene, vars, deskVars, connectVars>>
    \/ DeskNext /\ UNCHANGED <<scene, vars, intentVars, connectVars>>
    \/ ReachNext /\ UNCHANGED <<scene, vars, intentVars, deskVars>>

MCSpec == MCInit /\ [][MCNext]_scenes

\* An intent has its effect once, and is answered as what it did
\* (record_intent_outcome, replayed_outcome).
IntentsSafe ==
    /\ scene = "assign" => AssignThree!IntentsSafe
    /\ scene = "setup" => SetUp!IntentsSafe
    /\ scene = "tasks" => OfTasks!IntentsSafe
    /\ scene = "mixed" => Mixed!IntentsSafe

\* No copy of a text outlives the report of its erasure, a text is not left to be
\* sent twice, and what is confirmed or cancelled is what the owner saw when it was
\* pressed (Mailbox, attach_surface_erasure, chat_output, confirm_key).
DesktopSafe ==
    /\ scene = "writes" => Writes!DesktopSafe
    /\ scene = "confirms" => Confirms!DesktopSafe
    /\ scene = "cancels" => Cancels!DesktopSafe

=============================================================================
