----------------------------- MODULE MCErasure -----------------------------
(***************************************************************************)
(* What a deletion has to reach beyond the rows it scans: the uses that hold*)
(* a covered text (DeletionStore), the copies of a client as the host knows *)
(* them (ClientErasure) and as they pass its connection (ClientTransport),  *)
(* and what an experience is made into (LearningFormation).  A behaviour   *)
(* explores one scene; the other parts rest in their first state.          *)
(***************************************************************************)
EXTENDS DeletionStore, TLC

CONSTANTS o1, o2, r1, r2

VARIABLES
    scene,    \* which part is explored; never changes
    \* ClientErasure
    evidence, clientPhase, clientSweep, client, pending, driver, current,
    link, task, down, up, dialled, clientMemory, stash, late, bodies, fails,
    restarts,
    \* LearningFormation
    history, learnMemory, revisions, summary, queue, open, learnHeld,
    learnDataUse, learnPhase, learnCovered, reconciled, verified, learnSweep,
    set, worker, over, crashes,
    \* ClientTransport
    reader, got, ahead, inbound, pings, terminal, writer, outbound, app, asked,
    staged, failing, deferred, deferredDemands, generation, kept, hostGot, sent,
    pinged, taken, errored

\* The first message says what will be deleted; both do; the first says a secret
\* that nobody has registered yet.
SaidFirst == [s \in {1, 2} |-> IF s = 1 THEN {"x"} ELSE {}]
SaidBoth == [s \in {1, 2} |-> IF s = 1 THEN {"x"} ELSE {"y"}]
SaidSecret == [s \in {1, 2} |-> IF s = 1 THEN {"key"} ELSE {}]
\* Experiences of one message and of two.
PinnedWindow == <<{1}, {1, 2}>>
PinnedTwo == <<{1, 2}>>
NoOld == [m \in {} |-> {}]
OldSaying == [m \in {10} |-> {"x"}]

clientVars == <<evidence, clientPhase, clientSweep, client, pending, driver,
    current, link, task, down, up, dialled, clientMemory, stash, late,
    bodies, fails, restarts>>
learnVars == <<history, learnMemory, revisions, summary, queue, open,
    learnHeld, learnDataUse, learnPhase, learnCovered, reconciled, verified,
    learnSweep, set, worker, over, crashes>>
wireVars == <<reader, got, ahead, inbound, pings, terminal, writer, outbound,
    app, asked, staged, failing, deferred, deferredDemands, generation, kept,
    hostGot, sent, pinged, taken, errored>>
scenes == <<scene, deletionVars, clientVars, learnVars, wireVars>>

\* The client connects again while sweeps of one deletion follow one another, and
\* the host may end between them.
Client == INSTANCE ClientErasure WITH
    Conns <- {1, 2}, Ops <- {o1}, MaxBodies <- 2, MaxSweep <- 2,
    MaxFails <- 0, MaxRestarts <- 1, DemandIds <- 1..2, StashCap <- 1,
    phase <- clientPhase, sweep <- clientSweep, memory <- clientMemory

\* One connection, and two texts that are deleted one after the other or beside;
\* an answer may fail to come.
Twice == INSTANCE ClientErasure WITH
    Conns <- {1}, Ops <- {o1, o2}, MaxBodies <- 2, MaxSweep <- 1,
    MaxFails <- 1, MaxRestarts <- 0, DemandIds <- 1..2, StashCap <- 1,
    phase <- clientPhase, sweep <- clientSweep, memory <- clientMemory

\* Two texts and two connections: what one connection began may be done after
\* the other has.
Again == INSTANCE ClientErasure WITH
    Conns <- {1, 2}, Ops <- {o1, o2}, MaxBodies <- 2, MaxSweep <- 1,
    MaxFails <- 0, MaxRestarts <- 0, DemandIds <- 1..2, StashCap <- 1,
    phase <- clientPhase, sweep <- clientSweep, memory <- clientMemory

\* The two texts are alike.
Alike == Permutations({o1, o2})

Learn == INSTANCE LearningFormation WITH
    Messages <- {1, 2}, Said <- SaidFirst, Passes <- {1, 2},
    Pinned <- PinnedWindow, OldMemories <- {}, OldSays <- NoOld,
    NewMemories <- {11, 12}, Ops <- {"x"}, Secret <- "key", MaxEntries <- 2,
    MaxRendered <- 2, MaxCrashes <- 1, memory <- learnMemory,
    held <- learnHeld, dataUse <- learnDataUse, phase <- learnPhase,
    covered <- learnCovered, sweep <- learnSweep

Known == INSTANCE LearningFormation WITH
    Messages <- {1, 2}, Said <- SaidBoth, Passes <- {1}, Pinned <- PinnedTwo,
    OldMemories <- {10}, OldSays <- OldSaying, NewMemories <- {11},
    Ops <- {"x", "y"}, Secret <- "key", MaxEntries <- 2, MaxRendered <- 2,
    MaxCrashes <- 0, memory <- learnMemory, held <- learnHeld,
    dataUse <- learnDataUse, phase <- learnPhase, covered <- learnCovered,
    sweep <- learnSweep

Registered == INSTANCE LearningFormation WITH
    Messages <- {1, 2}, Said <- SaidSecret, Passes <- {1, 2},
    Pinned <- PinnedWindow, OldMemories <- {}, OldSays <- NoOld,
    NewMemories <- {11, 12}, Ops <- {}, Secret <- "key", MaxEntries <- 2,
    MaxRendered <- 2, MaxCrashes <- 0, memory <- learnMemory,
    held <- learnHeld, dataUse <- learnDataUse, phase <- learnPhase,
    covered <- learnCovered, sweep <- learnSweep

\* An application that wipes for itself, between a demand and the bodies around it.
Wipes == INSTANCE ClientTransport WITH
    Requests <- {r1}, Queue <- 1, ControlCap <- 1, ReadAhead <- 1,
    DeferredCap <- 2, StashCap <- 1, Kinds <- {"body", "demand"},
    MaxFrames <- 4, MaxPings <- 1, Defers <- TRUE, Parallel <- FALSE,
    WriteFails <- TRUE, stash <- deferredDemands

\* Frames of every kind, beside an application on a thread of its own.
Beside == INSTANCE ClientTransport WITH
    Requests <- {r1}, Queue <- 1, ControlCap <- 1, ReadAhead <- 1,
    DeferredCap <- 1, StashCap <- 1, Kinds <- {"body", "unknown", "presence"},
    MaxFrames <- 3, MaxPings <- 1, Defers <- FALSE, Parallel <- TRUE,
    WriteFails <- TRUE, stash <- deferredDemands

\* Two requests, and demands that the library answers itself.
Asks == INSTANCE ClientTransport WITH
    Requests <- {r1, r2}, Queue <- 1, ControlCap <- 1, ReadAhead <- 1,
    DeferredCap <- 1, StashCap <- 1, Kinds <- {"body", "demand"},
    MaxFrames <- 4, MaxPings <- 0, Defers <- FALSE, Parallel <- FALSE,
    WriteFails <- TRUE, stash <- deferredDemands

ASSUME Client!ClientErasureAssumption /\ Twice!ClientErasureAssumption
ASSUME Again!ClientErasureAssumption
ASSUME Wipes!ClientTransportAssumption
ASSUME Learn!LearningAssumption

\* The parts a scene does not explore rest in their first state.
Init ==
    /\ scene \in {"uses", "client", "twice", "again", "learn", "known", "secret", "wipes",
                 "beside", "asks"}
    /\ DeletionInit
    /\ IF scene = "client" THEN Client!Init ELSE IF scene = "again" THEN Again!Init
       ELSE Twice!Init
    /\ CASE scene = "known" -> Known!Init
         [] scene = "secret" -> Registered!Init
         [] OTHER -> Learn!Init
    /\ IF scene = "asks" THEN Asks!Init ELSE Wipes!Init

ClientNext ==
    \/ scene = "client" /\ Client!Next
    \/ scene = "twice" /\ Twice!Next
    \/ scene = "again" /\ Again!Next

LearnNext ==
    \/ scene = "learn" /\ Learn!Next
    \/ scene = "known" /\ Known!Next
    \/ scene = "secret" /\ Registered!Next

WireNext ==
    \/ scene = "wipes" /\ Wipes!Next
    \/ scene = "beside" /\ Beside!Next
    \/ scene = "asks" /\ Asks!Next

Next ==
    \/ /\ scene = "uses" /\ DeletionNext
       /\ UNCHANGED <<scene, clientVars, learnVars, wireVars>>
    \/ ClientNext /\ UNCHANGED <<scene, deletionVars, learnVars, wireVars>>
    \/ LearnNext /\ UNCHANGED <<scene, deletionVars, clientVars, wireVars>>
    \/ WireNext /\ UNCHANGED <<scene, deletionVars, clientVars, learnVars>>

Spec == Init /\ [][Next]_scenes

\* A deletion that completes leaves no body of its text with a client that showed
\* one (accept_client_erasure_result, settle_finalizing).
CompletedClientWiped ==
    [][/\ scene = "client" => Client!CompletesWiped
       /\ scene = "twice" => Twice!CompletesWiped
       /\ scene = "again" => Again!CompletesWiped]_scenes

\* A body a client may hold is on record until the client said it is gone, also
\* beside the demands of another deletion (note_client_delivery_evidence,
\* clear_client_delivery_evidence).
EvidenceSafe ==
    /\ scene = "client" => Client!EvidenceSafe
    /\ scene = "twice" => Twice!EvidenceSafe
    /\ scene = "again" => Again!EvidenceSafe

\* A memory and its newest revision agree whatever pages an erasure has done, a
\* revision outlives its summary only while a sweep is still to come, no registered
\* secret is learned, and a formation whose experience a deletion covers changes no
\* memory once that has begun (insert_revision, revision_page, summary_page,
\* commit_change_sync).
LearnedSafe ==
    /\ scene = "learn" => Learn!LearnedSafe /\ Learn!LateIsRefused
    /\ scene = "known" => Known!LearnedSafe /\ Known!LateIsRefused
    /\ scene = "secret" => Registered!LearnedSafe /\ Registered!LateIsRefused

\* What a connection of a client accepted is taken before its end is told, a request
\* told as not sent never reaches the host, and after the answer to a demand nothing
\* older is shown (fail_with, request_classified, answer_deletion_demand_if_any).
ClientSafe ==
    /\ scene = "wipes" => Wipes!ClientSafe
    /\ scene = "beside" => Beside!ClientSafe
    /\ scene = "asks" => Asks!ClientSafe

=============================================================================
