-------------------------- MODULE MCDeletionStore --------------------------
(***************************************************************************)
(* Targeted deletions: the tables of DeletionStore, and the memory of the  *)
(* host that a deletion has to empty.  A behaviour explores one scene; the other*)
(* part rests in its first state.                                          *)
(***************************************************************************)
EXTENDS DeletionStore, TLC

CONSTANTS r1, r2

VARIABLES
    scene,    \* which part is explored; never changes
    \* HostTransient
    rows, hostPhase, hostSweep, host, hostCovered, hostComplete, pending,
    taken, queueGen, round, copy, worker, formed, scan, owed, after, chain,
    verifiedGen, examined, driver, fails, crashes

\* Requests, their purposes and rounds are interchangeable.  Rows are not: their
\* ids are the order in which pages are read.
Symmetric == Permutations(Requests) \cup Permutations(Purposes)
             \cup Permutations({r1, r2})

hostVars == <<rows, hostPhase, hostSweep, host, hostCovered, hostComplete,
    pending, taken, queueGen, round, copy, worker, formed, scan, owed, after,
    chain, verifiedGen, examined, driver, fails, crashes>>
scenes == <<scene, deletionVars, hostVars>>

Memory == INSTANCE HostTransient WITH
    Rounds <- {r1, r2}, Ops <- {1}, MaxRows <- 2, Window <- 2, QueueCap <- 2,
    QueuePage <- 1, ArrivalPage <- 2, MaxSweep <- 2, MaxFails <- 1,
    MaxCrashes <- 1, phase <- hostPhase, sweep <- hostSweep,
    covered <- hostCovered, complete <- hostComplete

Arrivals == INSTANCE HostTransient WITH
    Rounds <- {r1}, Ops <- {1, 2}, MaxRows <- 1, Window <- 1, QueueCap <- 1,
    QueuePage <- 1, ArrivalPage <- 1, MaxSweep <- 1, MaxFails <- 0,
    MaxCrashes <- 0, phase <- hostPhase, sweep <- hostSweep,
    covered <- hostCovered, complete <- hostComplete

ASSUME Memory!HostTransientAssumption

\* The parts a scene does not explore rest in their first state.
Init ==
    \/ scene = "rows" /\ DeletionInit /\ Memory!Init
    \/ scene = "memory" /\ Memory!Init /\ DeletionInit
    \/ scene = "arrivals" /\ Arrivals!Init /\ DeletionInit

Next ==
    \/ scene = "rows" /\ DeletionNext /\ UNCHANGED <<scene, hostVars>>
    \/ scene = "memory" /\ Memory!Next /\ UNCHANGED <<scene, deletionVars>>
    \/ scene = "arrivals" /\ Arrivals!Next /\ UNCHANGED <<scene, deletionVars>>

Spec == Init /\ [][Next]_scenes

\* When a deletion completes, nothing in the memory of the host says its text
\* (settle_finalizing, commit_verified, demand_local_erasure).
CompletedLeavesNoCopy ==
    [][/\ scene = "memory" => Memory!CompletesClean
       /\ scene = "arrivals" => Arrivals!CompletesClean]_scenes

\* What counts as erased from the memory of the host is not there and cannot come
\* back (acquire_pin, load_recent_timeline, commit_verified).
HostCopiesSafe ==
    /\ scene = "memory" => Memory!HostCopiesSafe
    /\ scene = "arrivals" => Arrivals!HostCopiesSafe

=============================================================================
