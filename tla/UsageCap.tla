------------------------------ MODULE UsageCap ------------------------------
(***************************************************************************)
(* Paid inference of the ene host: a call claims its ticket and reserves   *)
(* an upper bound of its cost under every usage cap that applies, asks the *)
(* provider, and settles the reservation with the usage the provider       *)
(* reports; a restart settles what was left open.                          *)
(*                                                                         *)
(* A claim, a settlement, a cap change and the startup pass are one        *)
(* SQLite transaction each.  Time is counted in days.  There is one        *)
(* currency.  What a prompt or an answer says is left out.                 *)
(***************************************************************************)
EXTENDS Integers, FiniteSets, FiniteSetsExt

CONSTANTS
    Calls,          \* inference tickets
    Providers,      \* provider routes; each names one model
    Rates,          \* prices per Denominator tokens that the catalog may hold
    Denominator,    \* RATE_DENOMINATOR
    MaxTokens,      \* bound: tokens an estimate or a report counts
    Limits,         \* limits the owner sets
    CapScopes,      \* bound: scopes of the caps the owner sets
    MaxRevision,    \* bound: revisions of a cap
    MaxConsent,     \* bound: revisions of the consent
    MaxDay,         \* bound: days that pass
    DaysPerMonth,
    MaxU64, MaxI64, \* the largest amount in memory and in a column
    Honest,         \* whether a report stays within the request's bounds
    StoreFails,     \* whether a transaction of a call may fail
    MaxCrashes,     \* bound: ends of the host process
    None            \* no row, or no amount

System == "system"
Windows == {"daily", "monthly"}

UsageCapAssumption ==
    /\ IsFiniteSet(Calls) /\ System \notin Providers
    /\ None \notin Nat /\ None \notin Providers
    /\ Rates \subseteq Nat /\ Limits \subseteq Nat \ {0}
    /\ Denominator \in Nat \ {0} /\ DaysPerMonth \in Nat \ {0}
    /\ {MaxTokens, MaxConsent, MaxDay, MaxCrashes} \subseteq Nat /\ MaxRevision \in Nat \ {0}
    /\ CapScopes \subseteq Providers \cup {System}
    /\ MaxU64 \in Nat /\ MaxI64 \in Nat /\ MaxI64 <= MaxU64
    /\ Honest \in BOOLEAN /\ StoreFails \in BOOLEAN

VARIABLES
    host,          \* "up" or "starting": run_startup_mutations has not ended
    crashes,       \* how often the process ended
    day,           \* the wall clock
    catalog,       \* the reviewed price of every route, or None
    consent,       \* revision of the consent and of the credential set
    covered,       \* whether a deletion condition covers the data in use
    caps,          \* usage_cap: limit and revision
    attempts,      \* inference_attempt
    facts,         \* usage_fact
    reservations,  \* usage_reservation
    calls          \* dispatch_authorized of every ticket

tableVars == <<caps, attempts, facts, reservations>>
worldVars == <<catalog, consent, covered>>
vars == <<host, crashes, day, worldVars, tableVars, calls>>

CallPcs == {"new", "admitted", "claimed", "sent", "unsent", "settling",
           "done", "lost"}

Counts == [input : 0 .. MaxTokens, cached : 0 .. MaxTokens, output : 0 .. MaxTokens]
Prices == [input : Rates, cached : Rates, output : Rates]
Estimates == [input : 1 .. MaxTokens, output : 1 .. MaxTokens]
CapIds == CapScopes \X Windows

-----------------------------------------------------------------------------
(* Money.  An amount that does not fit is None.                            *)

\* TokenRate::checked_cost: rounded up, once for each component.
TokenCost(rate, tokens) ==
    LET micros == (rate * tokens + Denominator - 1) \div Denominator
    IN  IF micros > MaxU64 THEN None ELSE micros

Total(amounts) ==
    IF \E i \in DOMAIN amounts : amounts[i] = None THEN None
    ELSE LET sum == amounts[1] + amounts[2] + amounts[3]
         IN  IF sum > MaxU64 THEN None ELSE sum

\* project_cost of a report under the snapshot of its attempt.
ReportedCost(price, counts) ==
    Total(<<TokenCost(price.input, counts.input - counts.cached),
            TokenCost(price.cached, counts.cached),
            TokenCost(price.output, counts.output)>>)

\* Mutated: no allowance for the second rounding of the input.
UpperBoundOnce(price, estimate) ==
    LET rate == IF price.input >= price.cached THEN price.input ELSE price.cached
    IN  Total(<<TokenCost(rate, estimate.input), 0, TokenCost(price.output, estimate.output)>>)

\* UsageEstimate::upper_bound_cost: one more for the second rounding.
UpperBound(price, estimate) ==
    LET rate == IF price.input >= price.cached THEN price.input ELSE price.cached
    IN  Total(<<TokenCost(rate, estimate.input), 1, TokenCost(price.output, estimate.output)>>)

-----------------------------------------------------------------------------
(* What the caps count.                                                    *)

Period(window, d) == IF window = "daily" THEN d ELSE d \div DaysPerMonth

Counted(call) ==
    CASE reservations[call].state = "CommittedReported" -> reservations[call].amount
      [] reservations[call].state \in {"Reserved", "CommittedUnknown"} ->
             reservations[call].bound
      [] OTHER -> 0

\* consumption_breakdown, of every bucket together.
Consumption(scope, window, at) ==
    LET rows == {c \in Calls : /\ reservations[c] # None
                               /\ scope \in {System, attempts[c].provider}
                               /\ Period(window, reservations[c].day) = Period(window, at)}
    IN  MapThenSumSet(Counted, rows)

\* Mutated: a cap of the provider stands for the cap of the system.
ApplicableNearest(provider) ==
    LET own == {id \in CapIds : caps[id] # None /\ id[1] = provider}
    IN  IF own # {} THEN own ELSE {id \in CapIds : caps[id] # None /\ id[1] = System}

Applicable(provider) ==
    {id \in CapIds : caps[id] # None /\ id[1] \in {System, provider}}

\* admit_reservation
Admission(provider, bound) ==
    CASE Applicable(provider) = {} -> "NoCap"
      [] Applicable(provider) # {} /\ bound = None -> "Indeterminate"
      [] OTHER ->
            IF \A id \in Applicable(provider) :
                   Consumption(id[1], id[2], day) + bound <= caps[id].limit
            THEN "Reserved" ELSE "Held"

-----------------------------------------------------------------------------
(* A call.                                                                 *)

Idle == [pc |-> "new", provider |-> None, consent |-> 0, estimate |-> None, report |-> None]

\* prepare_admission and authorize: the consent names the route.
Admit(c, provider) ==
    /\ host = "up" /\ calls[c].pc = "new"
    /\ \E estimate \in Estimates :
          calls' = [calls EXCEPT ![c] = [pc |-> "admitted", provider |-> provider,
                                         consent |-> consent, estimate |-> estimate,
                                         report |-> None]]
    /\ UNCHANGED <<host, crashes, day, worldVars, tableVars>>

Ended(pc) == [Idle EXCEPT !.pc = pc]
Ends(c) == calls' = [calls EXCEPT ![c] = Ended("done")]

\* begin_inference_attempt, when it claims nothing: the call was aborted, its
\* premise is stale, its data is covered, a cap holds it, or the store fails.
ClaimNothing(c) ==
    /\ host = "up" /\ calls[c].pc = "admitted"
    /\ Ends(c)
    /\ UNCHANGED <<host, crashes, day, worldVars, tableVars>>

ClaimBound(c) ==
    LET price == catalog[calls[c].provider]
    IN  IF price = None THEN None ELSE UpperBound(price, calls[c].estimate)

\* begin_inference_attempt: the attempt and its reservation, together.
Claim(c) ==
    LET call == calls[c]
        admission == Admission(call.provider, ClaimBound(c))
    IN  /\ host = "up" /\ call.pc = "admitted"
        /\ attempts[c] = None
        /\ call.consent = consent /\ ~covered
        /\ admission \in {"NoCap", "Reserved"}
        /\ admission = "Reserved" => ClaimBound(c) <= MaxI64
        /\ attempts' = [attempts EXCEPT ![c] =
              [provider |-> call.provider, price |-> catalog[call.provider]]]
        /\ reservations' = [reservations EXCEPT ![c] =
              IF admission = "NoCap" THEN None
              ELSE [bound |-> ClaimBound(c), state |-> "Reserved", amount |-> None, day |-> day]]
        /\ calls' = [calls EXCEPT ![c].pc = "claimed"]
        /\ UNCHANGED <<host, crashes, day, worldVars, caps, facts>>

\* The transport writes the request.
Send(c) ==
    /\ host = "up" /\ calls[c].pc = "claimed"
    /\ calls' = [calls EXCEPT ![c].pc = "sent"]
    /\ UNCHANGED <<host, crashes, day, worldVars, tableVars>>

\* Mutated: an aborted call ends without accounting.
UnreportedForgotten(c) ==
    /\ host = "up" /\ calls[c].pc \in {"claimed", "sent"}
    /\ Ends(c)
    /\ UNCHANGED <<host, crashes, day, worldVars, tableVars>>

\* The abort, a failure of the transport or an answer without usable counts.
Unreported(c) ==
    /\ host = "up" /\ calls[c].pc \in {"claimed", "sent"}
    /\ calls' = [calls EXCEPT ![c].pc = IF @ = "claimed" THEN "unsent" ELSE "settling"]
    /\ UNCHANGED <<host, crashes, day, worldVars, tableVars>>

WithinBounds(estimate, counts) ==
    counts.input <= estimate.input /\ counts.output <= estimate.output

\* The provider's answer; counts that contradict each other are dropped.
Answer(c, counts) ==
    /\ host = "up" /\ calls[c].pc = "sent"
    /\ counts.cached <= counts.input
    /\ Honest => WithinBounds(calls[c].estimate, counts)
    /\ calls' = [calls EXCEPT ![c].pc = "settling", ![c].report = counts]
    /\ UNCHANGED <<host, crashes, day, worldVars, tableVars>>

\* Mutated: a settled reservation keeps counting its upper bound.
SettledAtBound(reservation, price, report) ==
    IF reservation = None \/ reservation.state # "Reserved" THEN reservation
    ELSE [reservation EXCEPT !.state = IF report = None THEN "CommittedUnknown"
                                       ELSE "CommittedReported",
                             !.amount = IF report = None THEN None ELSE reservation.bound]

\* settle_reservation: an open reservation becomes what the fact says.
Settled(reservation, price, report) ==
    IF reservation = None \/ reservation.state # "Reserved" THEN reservation
    ELSE LET cost == IF report = None \/ price = None THEN None
                     ELSE ReportedCost(price, report)
         IN  [reservation EXCEPT !.state = IF cost = None THEN "CommittedUnknown"
                                           ELSE "CommittedReported",
                                 !.amount = cost]

FactOf(report) ==
    [source |-> IF report = None THEN "Unknown" ELSE "Reported", counts |-> report]

\* record_usage: the fact and the settlement, together.
Record(c) ==
    LET settled == Settled(reservations[c], attempts[c].price, calls[c].report)
    IN  /\ host = "up" /\ calls[c].pc \in {"unsent", "settling"}
        /\ facts[c] = None
        /\ settled # None /\ settled.amount # None => settled.amount <= MaxI64
        /\ facts' = [facts EXCEPT ![c] = FactOf(calls[c].report)]
        /\ reservations' = [reservations EXCEPT ![c] = settled]
        /\ Ends(c)
        /\ UNCHANGED <<host, crashes, day, worldVars, caps, attempts>>

\* record_usage fails: the amount does not fit its column, or the store fails.
RecordFails(c) ==
    LET settled == Settled(reservations[c], attempts[c].price, calls[c].report)
    IN  /\ host = "up" /\ calls[c].pc \in {"unsent", "settling"}
        /\ \/ StoreFails
           \/ settled # None /\ settled.amount # None /\ settled.amount > MaxI64
        /\ calls' = [calls EXCEPT ![c] = Ended("lost")]
        /\ UNCHANGED <<host, crashes, day, worldVars, tableVars>>

-----------------------------------------------------------------------------
(* The owner, the clock and the host.                                      *)

\* set_usage_cap, of the revision the owner has seen.
SetCap(id, limit) ==
    /\ host = "up"
    /\ caps[id] # None => caps[id].revision < MaxRevision
    /\ caps' = [caps EXCEPT ![id] =
          [limit |-> limit,
           revision |-> IF caps[id] = None THEN 1 ELSE caps[id].revision + 1]]
    /\ UNCHANGED <<host, crashes, day, worldVars, attempts, facts, reservations, calls>>

ChangeConsent ==
    /\ host = "up" /\ consent < MaxConsent
    /\ consent' = consent + 1
    /\ UNCHANGED <<host, crashes, day, catalog, covered, tableVars, calls>>

Cover ==
    /\ host = "up" /\ ~covered /\ MaxConsent > 0
    /\ covered' = TRUE
    /\ UNCHANGED <<host, crashes, day, catalog, consent, tableVars, calls>>

\* The wall clock: midnight passes.
NextDay ==
    /\ day < MaxDay
    /\ day' = day + 1
    /\ UNCHANGED <<host, crashes, worldVars, tableVars, calls>>

Crash ==
    /\ crashes < MaxCrashes
    /\ crashes' = crashes + 1
    /\ host' = "starting"
    /\ calls' = [c \in Calls |-> IF calls[c].pc = "new" THEN calls[c]
                                 ELSE Ended("done")]
    /\ UNCHANGED <<day, worldVars, tableVars>>

\* reconcile_orphaned_usage_reservations
Orphans == {c \in Calls : reservations[c] # None /\ reservations[c].state = "Reserved"}

\* Mutated: the orphans are settled without a fact.
StartupFactless ==
    /\ host = "starting"
    /\ host' = "up"
    /\ reservations' = [c \in Calls |->
          IF c \in Orphans THEN [reservations[c] EXCEPT !.state = "CommittedUnknown"]
          ELSE reservations[c]]
    /\ UNCHANGED <<crashes, day, worldVars, caps, attempts, facts, calls>>

\* Mutated: the orphans are released.
StartupReleases ==
    /\ host = "starting"
    /\ host' = "up"
    /\ facts' = [c \in Calls |-> IF c \in Orphans THEN FactOf(None) ELSE facts[c]]
    /\ reservations' = [c \in Calls |->
          IF c \in Orphans THEN [reservations[c] EXCEPT !.state = "Released"]
          ELSE reservations[c]]
    /\ UNCHANGED <<crashes, day, worldVars, caps, attempts, calls>>

Startup ==
    /\ host = "starting"
    /\ host' = "up"
    /\ facts' = [c \in Calls |-> IF c \in Orphans THEN FactOf(None) ELSE facts[c]]
    /\ reservations' = [c \in Calls |->
          IF c \in Orphans THEN [reservations[c] EXCEPT !.state = "CommittedUnknown"]
          ELSE reservations[c]]
    /\ UNCHANGED <<crashes, day, worldVars, caps, attempts, calls>>

-----------------------------------------------------------------------------
Init ==
    /\ host = "up" /\ crashes = 0 /\ day = 0
    /\ catalog \in [Providers -> Prices \cup {None}]
    /\ consent = 0 /\ covered = FALSE
    /\ caps = [id \in CapIds |-> None]
    /\ attempts = [c \in Calls |-> None]
    /\ facts = [c \in Calls |-> None]
    /\ reservations = [c \in Calls |-> None]
    /\ calls = [c \in Calls |-> Idle]

Dispatch(c) ==
    \/ ClaimNothing(c) \/ Claim(c) \/ Send(c) \/ Unreported(c)
    \/ \E counts \in Counts : Answer(c, counts)
    \/ Record(c) \/ RecordFails(c)

Next ==
    \/ \E c \in Calls : Dispatch(c) \/ \E p \in Providers : Admit(c, p)
    \/ \E id \in CapIds, limit \in Limits : SetCap(id, limit)
    \/ ChangeConsent \/ Cover \/ NextDay \/ Crash \/ Startup

Spec == Init /\ [][Next]_vars

\* The transport ends within REQUEST_TIMEOUT, and what follows is awaited by
\* the task that called it; the startup pass runs before the host serves.
Ending(c) == Unreported(c) \/ \E counts \in Counts : Answer(c, counts)

FairSpec ==
    /\ Spec /\ WF_vars(Startup)
    /\ \A c \in Calls : WF_vars(Send(c)) /\ WF_vars(Ending(c)) /\ WF_vars(Record(c))

-----------------------------------------------------------------------------
Reservations == [bound : 0 .. MaxI64, state : {"Reserved", "CommittedReported",
                    "CommittedUnknown"}, amount : 0 .. MaxI64 \cup {None}, day : 0 .. MaxDay]

\* Every table holds rows of its type, and a reservation belongs to a priced attempt.
TypeOK ==
    /\ host \in {"up", "starting"} /\ crashes \in 0 .. MaxCrashes /\ day \in 0 .. MaxDay
    /\ catalog \in [Providers -> Prices \cup {None}]
    /\ consent \in 0 .. MaxConsent /\ covered \in BOOLEAN
    /\ caps \in [CapIds -> [limit : Limits, revision : 1 .. MaxRevision] \cup {None}]
    /\ attempts \in [Calls -> [provider : Providers, price : Prices \cup {None}] \cup {None}]
    /\ facts \in [Calls -> [source : {"Reported", "Unknown"}, counts : Counts \cup {None}]
                              \cup {None}]
    /\ reservations \in [Calls -> Reservations \cup {None}]
    /\ calls \in [Calls -> [pc : CallPcs, provider : Providers \cup {None},
                              consent : 0 .. MaxConsent, estimate : Estimates \cup {None},
                              report : Counts \cup {None}]]
    /\ \A c \in Calls : reservations[c] # None =>
          attempts[c] # None /\ attempts[c].price # None

\* What a scope consumed in a period only ever rises to what every cap of
\* that scope allows, whichever calls are claimed and settled in between
\* (usage_cap.rs, admit_reservation).  It needs reports that keep to their
\* bounds, and a run checks it with neither crashes nor failing stores; what
\* those may change is FallsWhenReported.
RisesToCaps ==
    \A id \in CapIds, d \in 0 .. MaxDay :
        LET before == Consumption(id[1], id[2], d)
            after == Consumption(id[1], id[2], d)'
        IN  caps[id] # None /\ after > before => after <= caps[id].limit

\* Nothing but a usage report of the provider gives an amount back: not an
\* abort, a failure, the end of the process or the startup pass (inference.rs,
\* settle_reservation and reconcile_orphaned_usage_reservations).
FallsWhenReported ==
    \A id \in CapIds, d \in 0 .. MaxDay :
        Consumption(id[1], id[2], d)' < Consumption(id[1], id[2], d) =>
            \E c \in Calls : /\ facts[c] = None /\ facts'[c] # None
                             /\ facts'[c].source = "Reported"

\* What a scope consumed rises by a claim only: a report settles at no more than
\* was reserved, as long as the provider keeps to the bounds of the request
\* (cost.rs, upper_bound_cost).
RisesByClaims ==
    \A id \in CapIds, d \in 0 .. MaxDay :
        Consumption(id[1], id[2], d)' > Consumption(id[1], id[2], d) =>
            \E c \in Calls : attempts[c] = None /\ attempts'[c] # None

\* A reported cost stays within the bound that was reserved, as long as the
\* provider keeps to the bounds of the request (cost.rs, upper_bound_cost).
BoundCovers ==
    \A c \in Calls :
        reservations[c] # None /\ reservations[c].state = "CommittedReported" =>
            reservations[c].amount <= reservations[c].bound

\* The row of a ticket, as decode_usage_summary demands it of the attempt, the
\* fact and the reservation together; one bad row makes the page unavailable.
RowReadable(c) ==
    LET fact == facts[c]
        reservation == reservations[c]
        cost == ReportedCost(attempts[c].price, fact.counts)
    IN  /\ reservation # None =>
              (reservation.amount # None) = (reservation.state = "CommittedReported")
        /\ fact = None => reservation = None \/ reservation.state = "Reserved"
        /\ fact # None /\ fact.source = "Unknown" =>
              /\ reservation = None \/ reservation.state = "CommittedUnknown"
              /\ fact.counts = None
        /\ fact # None /\ fact.source = "Reported" =>
              /\ reservation = None
                   \/ reservation.state \in {"CommittedReported", "CommittedUnknown"}
              /\ fact.counts # None /\ fact.counts.cached <= fact.counts.input
              /\ reservation # None /\ reservation.amount # None /\ cost # None =>
                    reservation.amount = cost

\* Whatever calls, settlements, failures and restarts happened, the owner's
\* usage page can be read (inference.rs, decode_usage_summary).
SummaryReadable == \A c \in Calls : attempts[c] # None => RowReadable(c)

\* A reservation is open only while its call is under way, or the store
\* refused its settlement since the host started.
OpenWhileCalled ==
    host = "up" =>
        \A c \in Orphans : calls[c].pc \in 
            {"claimed", "sent", "unsent", "settling", "lost"}

\* Every call is accounted for in rows that can be read together, and what is
\* open is under way or will be swept (decode_usage_summary, settle_reservation).
AccountsKept == SummaryReadable /\ OpenWhileCalled

\* What holds of the rows of every call.
UsageSafe == TypeOK /\ AccountsKept

\* Every reservation is settled in the end.
ReservationsSettle == \A c \in Calls : (c \in Orphans) ~> (c \notin Orphans)

=============================================================================
