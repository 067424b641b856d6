----------------------------- MODULE MCEffects -----------------------------
(***************************************************************************)
(* What an action may cost and do outside: the calls to the providers and the*)
(* caps on their cost, and the effects on files with the processes they run in.*)
(* The two share no variable here; a behaviour explores one scene.         *)
(***************************************************************************)
EXTENDS UsageCap, TLC

CONSTANTS c1, c2, e1, e2

VARIABLES
    scene,    \* which part is explored; never changes
    \* EffectWorker
    run, abort, record, closing, workers, handle, wproc, hproc, dir, foreign,
    published, stop, fails, moves

\* Calls are interchangeable.
Symmetry == Permutations(Calls)

effectVars == <<run, abort, record, closing, workers, handle, wproc, hproc,
    dir, foreign, published, stop, fails, moves>>
scenes == <<scene, vars, effectVars>>

\* The configuration has two providers under a common cap, whose reports keep to
\* the bounds of their requests.  Beside it: prices that are rounded, reports that
\* do not, a store that fails and a crash; the same with a consent that changes;
\* a cap that is lowered; and every rounding of one call.
Pages == INSTANCE UsageCap WITH
    Providers <- {"p1"}, Rates <- {4}, MaxTokens <- 2, Limits <- {9},
    CapScopes <- {"system"}, MaxDay <- 0, MaxU64 <- 9, MaxI64 <- 5,
    Honest <- FALSE, StoreFails <- TRUE, MaxCrashes <- 1

Consents == INSTANCE UsageCap WITH
    Providers <- {"p1"}, Rates <- {4}, Limits <- {9}, CapScopes <- {"system"},
    MaxConsent <- 1, MaxDay <- 0, MaxU64 <- 5, MaxI64 <- 3,
    Honest <- FALSE, StoreFails <- TRUE, MaxCrashes <- 1

Lowered == INSTANCE UsageCap WITH
    Providers <- {"p1"}, Limits <- {3, 5}, CapScopes <- {"system"},
    MaxRevision <- 2, Honest <- FALSE, StoreFails <- TRUE, MaxCrashes <- 1

Rounded == INSTANCE UsageCap WITH
    Providers <- {"p1"}, Rates <- {0, 1, 2, 4}, MaxTokens <- 3, Limits <- {30},
    CapScopes <- {"p1"}, MaxDay <- 0, DaysPerMonth <- 1, MaxU64 <- 15, MaxI64 <- 12

Create == INSTANCE EffectWorker WITH
    Creating <- {e1}, Editing <- {}, Reading <- {}, MaxFails <- 3,
    MaxMoves <- 1, OpenMayFail <- FALSE, CancelToo <- TRUE

Replace == INSTANCE EffectWorker WITH
    Creating <- {}, Editing <- {e1}, Reading <- {}, MaxFails <- 1,
    MaxMoves <- 0, OpenMayFail <- FALSE, CancelToo <- FALSE

Both == INSTANCE EffectWorker WITH
    Creating <- {}, Editing <- {e1}, Reading <- {e2}, MaxFails <- 0,
    MaxMoves <- 0, OpenMayFail <- FALSE, CancelToo <- FALSE

ASSUME UsageCapAssumption
ASSUME Create!EffectWorkerAssumption

UsageRests == Init /\ \A p \in DOMAIN catalog : catalog[p] = None

\* The parts a scene does not explore rest in their first state.
MCInit ==
    \/ scene = "caps" /\ Init /\ Create!Init
    \/ scene = "rows" /\ Pages!Init /\ Create!Init
    \/ scene = "consents" /\ Consents!Init /\ Create!Init
    \/ scene = "lowered" /\ Lowered!Init /\ Create!Init
    \/ scene = "prices" /\ Rounded!Init /\ Create!Init
    \/ scene = "create" /\ Create!Init /\ UsageRests
    \/ scene = "replace" /\ Replace!Init /\ UsageRests
    \/ scene = "both" /\ Both!Init /\ UsageRests

UsageNext ==
    \/ scene = "caps" /\ Next
    \/ scene = "rows" /\ Pages!Next
    \/ scene = "consents" /\ Consents!Next
    \/ scene = "lowered" /\ Lowered!Next
    \/ scene = "prices" /\ Rounded!Next
          /\ \A c, d \in Calls : c = d \/ calls'[c].pc = "new" \/ calls'[d].pc = "new"

EffectNext ==
    \/ scene = "create" /\ Create!Next
    \/ scene = "replace" /\ Replace!Next
    \/ scene = "both" /\ Both!Next

MCNext ==
    \/ UsageNext /\ UNCHANGED <<scene, effectVars>>
    \/ EffectNext /\ UNCHANGED <<scene, vars>>

MCSpec == MCInit /\ [][MCNext]_scenes

\* The consumption of a scope rises only to what its caps allow, where reports are
\* honest and nothing fails (caps), and by a claim only (prices); with failures, a
\* restart and lowered caps it falls only by a report (lowered)
\* (admit_reservation, settle_reservation, upper_bound_cost).
RisesWithinCaps ==
    [][/\ scene = "caps" => RisesToCaps
       /\ scene = "lowered" => Lowered!FallsWhenReported
       /\ scene = "prices" => Rounded!RisesByClaims]_scenes

\* A recorded effect took place, a stop leaves no process and no directory behind,
\* and what others own is left alone (terminate_and_join, settle_workspace_effect).
EffectsSafe ==
    /\ scene = "create" => Create!EffectsSafe
    /\ scene = "replace" => Replace!EffectsSafe
    /\ scene = "both" => Both!EffectsSafe

=============================================================================
