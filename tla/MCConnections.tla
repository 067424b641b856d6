--------------------------- MODULE MCConnections ---------------------------
(***************************************************************************)
(* The connections of the clients: the table and the handshake, the serving*)
(* task of one connection, and the passes that present what a client missed.*)
(* The three parts share no variable here; a behaviour explores one scene. *)
(***************************************************************************)
EXTENDS Connections, TLC

CONSTANTS c1, c2, d1, d2, p1, p2

VARIABLES
    scene,    \* which part is explored; never changes
    \* ConnectionLoop
    loop, reader, got, window, frames, pings, idle, held, suspected, busy,
    terminal, pushBlocked, loopTemplate, loopWake, seen, jobs, business,
    loopReplies, relay, out, learning, loopGate, stop, abort, read, handled,
    refused, brokenPipe, panicked, failure,
    \* Presentation
    rows, shownReplies, covered, conn, shownDevice, shownHome, sub, cursors,
    receipt, receipts, refs, shownGate, shownJob, shownWake, blocked, inbox,
    shown, confirmed, asks, moves, erasures

\* Connections, devices and the ids of requests and frames are interchangeable.
Symmetry == Permutations({c1, c2}) \cup Permutations({d1, d2}) \cup Permutations({p1, p2})

servingVars == <<loop, reader, got, window, frames, pings, idle, held, suspected,
    busy, terminal, pushBlocked, loopTemplate, loopWake, seen, jobs, business,
    loopReplies, relay, out, learning, loopGate, stop, abort, read, handled,
    refused, brokenPipe, panicked, failure>>
shownVars == <<rows, shownReplies, covered, conn, shownDevice, shownHome, sub,
    cursors, receipt, receipts, refs, shownGate, shownJob, shownWake, blocked,
    inbox, shown, confirmed, asks, moves, erasures>>
scenes == <<scene, vars, servingVars, shownVars>>

Frames == INSTANCE ConnectionLoop WITH
    Ids <- {c1, c2}, MaxFrames <- 3, Buffer <- 1, ReadAhead <- 1,
    ControlCap <- 1, SeenCap <- 1, MaxReplies <- 0, WriteFails <- FALSE,
    Panics <- FALSE, template <- loopTemplate, wake <- loopWake,
    replies <- loopReplies, gate <- loopGate

Replies == INSTANCE ConnectionLoop WITH
    Ids <- {c1}, MaxFrames <- 2, Buffer <- 1, ReadAhead <- 1, ControlCap <- 1,
    SeenCap <- 1, MaxReplies <- 1, WriteFails <- TRUE, Panics <- TRUE,
    template <- loopTemplate, wake <- loopWake, replies <- loopReplies,
    gate <- loopGate

Reports == INSTANCE Presentation WITH
    Conns <- {c1, c2}, Devices <- {d1}, MaxRows <- 2, PageLimit <- 1,
    MaxAsks <- 0, MaxMoves <- 1, MaxErasures <- 0, Confirms <- FALSE,
    Failures <- FALSE, replies <- shownReplies, device <- shownDevice,
    home <- shownHome, gate <- shownGate, job <- shownJob, wake <- shownWake

Push == INSTANCE Presentation WITH
    Conns <- {c1}, Devices <- {d1}, MaxRows <- 2, PageLimit <- 1,
    MaxAsks <- 1, MaxMoves <- 1, MaxErasures <- 1, Confirms <- FALSE,
    Failures <- FALSE, replies <- shownReplies, device <- shownDevice,
    home <- shownHome, gate <- shownGate, job <- shownJob, wake <- shownWake

Confirmed == INSTANCE Presentation WITH
    Conns <- {c1}, Devices <- {d1}, MaxRows <- 2, PageLimit <- 1,
    MaxAsks <- 0, MaxMoves <- 1, MaxErasures <- 0, Confirms <- TRUE,
    Failures <- TRUE, replies <- shownReplies, device <- shownDevice,
    home <- shownHome, gate <- shownGate, job <- shownJob, wake <- shownWake

ASSUME ConnectionsAssumption
ASSUME Frames!ConnectionLoopAssumption
ASSUME Reports!PresentationAssumption

\* The parts a scene does not explore rest in their first state.
MCInit ==
    \/ scene = "reconnect" /\ Init /\ devices = Devices /\ Frames!Init /\ Reports!Init
    \/ scene \in {"pair", "crowd"} /\ Init /\ devices = {} /\ Frames!Init /\ Reports!Init
    \/ scene = "frames" /\ Frames!Init /\ Init /\ devices = {} /\ Reports!Init
    \/ scene = "replies" /\ Replies!Init /\ Init /\ devices = {} /\ Reports!Init
    \/ scene = "reports" /\ Reports!Init /\ Init /\ devices = {} /\ Frames!Init
    \/ scene = "push" /\ Push!Init /\ Init /\ devices = {} /\ Frames!Init
    \/ scene = "confirm" /\ Confirmed!Init /\ Init /\ devices = {} /\ Frames!Init

\* The table is explored in three parts: paired devices that come and go; one
\* request to pair up to its approval; requests of several connections.
Requests == { p \in Pendings : approval'[p].pc # "fresh" }
MCNext ==
    \/ /\ scene = "reconnect" /\ Next /\ UNCHANGED <<scene, servingVars, shownVars>>
       /\ Requests = {} /\ creation' = None
    \/ /\ scene = "pair" /\ Next /\ UNCHANGED <<scene, servingVars, shownVars>>
       /\ Cardinality(Requests) <= 1 /\ home'.gen = 0 /\ restarts' = 0
    \/ /\ scene = "crowd" /\ Next /\ UNCHANGED <<scene, servingVars, shownVars>>
       /\ devices' = {} /\ home'.gen = 0 /\ restarts' = 0
    \/ scene = "frames" /\ Frames!Next /\ UNCHANGED <<scene, vars, shownVars>>
    \/ scene = "replies" /\ Replies!Next /\ UNCHANGED <<scene, vars, shownVars>>
    \/ scene = "reports" /\ Reports!Next /\ UNCHANGED <<scene, vars, servingVars>>
    \/ scene = "push" /\ Push!Next /\ UNCHANGED <<scene, vars, servingVars>>
    \/ scene = "confirm" /\ Confirmed!Next /\ UNCHANGED <<scene, vars, servingVars>>

MCSpec == MCInit /\ [][MCNext]_scenes

\* Every frame that was read is handled once, refused or on its way (live_for), what
\* is reported was shown, and a connection that is gone keeps nothing (apply_ack).
DeliverySafe ==
    /\ scene = "frames" => Frames!FramesSafe
    /\ scene = "replies" => Replies!FramesSafe
    /\ scene = "reports" => Reports!ReportsSafe
    /\ scene = "push" => Push!ReportsSafe
    /\ scene = "confirm" => Confirmed!ReportsSafe

\* A push brings only what its connection was not shown yet (push_undelivered).
NoRepeatByPush ==
    [][/\ scene = "reports" => Reports!PushIsNew
       /\ scene = "push" => Push!PushIsNew
       /\ scene = "confirm" => Confirmed!PushIsNew]_scenes

=============================================================================
