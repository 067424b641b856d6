------------------------------ MODULE ControlSeat ------------------------------
(****************************************************************************)
(* The confirmation seat of the host and the desktop that sits on it         *)
(* (apps/ene-core/src/host_control.rs, apps/ene-desktop/src/control.rs).     *)
(*                                                                          *)
(* Anyone may ask for an operation: a device to be approved, a credential    *)
(* to be stored, a deletion to be started.  The host opens the desktop,      *)
(* takes the request down, and mints a session whose challenge goes to the   *)
(* desktop that holds the seat, over the channel it was spawned with.  The   *)
(* owner completes or rejects the session there; a frame of the desktop is   *)
(* dispatched in a task of its own.  Sessions end with the seat, or by       *)
(* their deadline, which is looked at when somebody asks.                    *)
(*                                                                          *)
(* A request has one session, named by the request.  A seat is named by its  *)
(* generation, and so are its desktop, its channel and its serving thread.   *)
(****************************************************************************)
EXTENDS Naturals, Sequences, FiniteSets

CONSTANTS
  Requesters,    \* connections of the requester listener
  Desk,          \* the one the desktop uses
  Targets,       \* what is asked for
  Credentials,   \* those that are credentials
  Deletions,     \* those that are staged deletions
  MaxRequests,   \* bound: requests taken down
  MaxSeats,      \* bound: desktops spawned
  MaxPending,    \* MAX_PENDING_REQUESTS
  MaxSettled,    \* MAX_SETTLED_REQUESTS
  MaxDeferred,   \* DEFERRED_LIMIT
  MaxWaits,      \* bound: waits of the desktop that time out
  Stops,         \* whether the host may stop
  None

ControlSeatAssumption ==
  /\ {MaxRequests, MaxSeats, MaxPending, MaxSettled, MaxDeferred, MaxWaits} \subseteq Nat
  /\ MaxPending > 0 /\ MaxSettled > 0 /\ MaxDeferred > 0 /\ Stops \in BOOLEAN
  /\ Desk \in Requesters /\ None \notin Requesters \cup Targets
  /\ Credentials \cup Deletions \subseteq Targets /\ Credentials \cap Deletions = {}

VARIABLES
  request,    \* the requests that were taken down, in their order
  session,    \* the confirmation session of each
  seat,       \* the generation that holds the seat, or 0
  child,      \* the desktop the host last spawned
  opener,     \* the requester that holds gui_open
  requester,  \* where each requester is
  gui,        \* the desktops
  served,     \* the serving thread of each channel
  events,     \* its queue
  incoming,   \* what a desktop has not read
  tasks,      \* confirmation tasks
  stop,       \* "no", "stopping" or "joined"
  effects,    \* the requests whose operation took place
  deletion,   \* the rows of the staged deletions
  waits       \* waits that timed out

seatVars == <<seat, child, opener>>
guiVars == <<gui, incoming, waits>>
vars == <<request, session, seat, child, opener, requester, gui, served, events,
          incoming, tasks, stop, effects, deletion, waits>>

Reqs == 1 .. MaxRequests
Gens == 1 .. MaxSeats
States == {"Awaiting", "Applied", "Rejected", "ConfirmationUnavailable", "OutcomeUnavailable"}

NoRequest == [state |-> "none", target |-> None]
NoSession == [gen |-> 0, late |-> FALSE, secret |-> FALSE]
NoGui == [alive |-> FALSE, wait |-> "idle", of |-> 0, expects |-> None, selected |-> None,
          challenge |-> 0, deferred |-> <<>>]
Asking == [pc |-> "idle", target |-> None, req |-> 0]

Init ==
  /\ request = [r \in Reqs |-> NoRequest]
  /\ session = [r \in Reqs |-> NoSession]
  /\ seat = 0 /\ child = 0 /\ opener = None
  /\ requester = [p \in Requesters |-> Asking]
  /\ gui = [g \in Gens |-> NoGui]
  /\ served = [g \in Gens |-> "none"]
  /\ events = [g \in Gens |-> <<>>]
  /\ incoming = [g \in Gens |-> <<>>]
  /\ tasks = {} /\ stop = "no" /\ effects = {} /\ waits = 0
  /\ deletion = [t \in Deletions |-> [row |-> "staged", starts |-> 0]]

Kind(t) == IF t \in Credentials THEN "credential" ELSE IF t \in Deletions THEN "deletion" ELSE "device"

----------------------------------------------------------------------------
(* The seat: each operator is what a method does under its lock.             *)

Live == { r \in Reqs : session[r].gen # 0 }
Late == { r \in Live : session[r].late }
Pending == { r \in Reqs : request[r].state = "Awaiting" }
Settled == { r \in Reqs : request[r].state \in States \ {"Awaiting"} }

Told(R, state) ==
  [r \in Reqs |-> IF r \in R THEN [state |-> state, target |-> request[r].target] ELSE request[r]]
Without(R) == [r \in Reqs |-> IF r \in R THEN NoSession ELSE session[r]]

\* settle_expired_sessions.
SettleExpired ==
  /\ request' = Told(Late, "Rejected")
  /\ session' = Without(Late)

\* Mutated: the requests of the sessions keep waiting.
DropSessions(R) ==
  /\ request' = request
  /\ session' = Without(R)

\* invalidate_sessions.
Invalidate(R) ==
  /\ request' = Told(R, "ConfirmationUnavailable")
  /\ session' = Without(R)

\* Mutated: whichever channel closes, the seat is free.
CloseAnySeat(g) ==
  /\ seat' = 0
  /\ Invalidate(Live)

\* seat_closed: a channel that was replaced does not free the seat.
CloseSeat(g) ==
  IF seat = g
  THEN seat' = 0 /\ Invalidate(Live)
  ELSE UNCHANGED <<seat, request, session>>

----------------------------------------------------------------------------
(* Requesters: admit_requester opens the desktop, takes the request down,    *)
(* and mints its session, in three steps.                                    *)

Goes(p, pc) == requester' = [requester EXCEPT ![p].pc = pc]

Ask(p, t) ==
  /\ stop = "no" /\ requester[p].pc = "idle"
  /\ p = Desk => \E g \in Gens : gui[g].wait = "asking" /\ gui[g].expects = t
  /\ \E r \in Reqs : request[r] = NoRequest
  /\ requester' = [requester EXCEPT ![p] = [pc |-> "open", target |-> t, req |-> 0]]
  /\ UNCHANGED <<request, session, seatVars, guiVars, served, events, tasks, stop, effects, deletion>>

\* gui_is_live under gui_open: a child that exited leaves the seat.
Open(p) ==
  /\ requester[p].pc = "open" /\ opener = None
  /\ IF child # 0 /\ gui[child].alive /\ seat # 0
     THEN Goes(p, "accept") /\ UNCHANGED <<opener, seat, child, request, session>>
     ELSE /\ Goes(p, "spawn") /\ opener' = p
          /\ IF child # 0 /\ ~gui[child].alive
             THEN /\ child' = 0
                  /\ IF seat # 0 THEN CloseSeat(seat) ELSE UNCHANGED <<seat, request, session>>
             ELSE UNCHANGED <<child, seat, request, session>>
  /\ UNCHANGED <<guiVars, served, events, tasks, stop, effects, deletion>>

\* open_desktop: the desktop is spawned and seated, or there is none to spawn.
Spawn(p) ==
  /\ requester[p].pc = "spawn"
  /\ Goes(p, "accept") /\ opener' = None
  /\ \/ \E g \in Gens :
          /\ served[g] = "none" /\ \A h \in Gens : h < g => served[h] # "none"
          /\ gui' = [gui EXCEPT ![g].alive = TRUE]
          /\ served' = [served EXCEPT ![g] = "run"]
          /\ child' = g /\ seat' = g
          /\ Invalidate(Live)
     \/ UNCHANGED <<gui, served, child, seat, request, session>>
  /\ UNCHANGED <<incoming, waits, events, tasks, stop, effects, deletion>>

\* retire_settled_requests: the oldest leave until there is room.
Retired(R) == { r \in R : Cardinality({ s \in R : s > r }) >= MaxSettled - 1 }

\* Mutated: sessions past their deadline keep their places.
AcceptUnsettled(p) ==
  /\ requester[p].pc = "accept"
  /\ IF Cardinality(Pending) >= MaxPending
     THEN Goes(p, "held") /\ UNCHANGED request
     ELSE \E r \in Reqs :
            /\ request[r] = NoRequest /\ \A s \in Reqs : s < r => request[s] # NoRequest
            /\ request' = [Told(Retired(Settled), "retired") EXCEPT ![r] =
                 [state |-> IF seat # 0 THEN "Awaiting" ELSE "ConfirmationUnavailable",
                  target |-> requester[p].target]]
            /\ requester' = [requester EXCEPT ![p].pc = IF seat # 0 THEN "mint" ELSE "accepted", ![p].req = r]
  /\ UNCHANGED <<session, seatVars, guiVars, served, events, tasks, stop, effects, deletion>>

\* accept_request.
Accept(p) ==
  LET settled == Told(Late, "Rejected")
  IN /\ requester[p].pc = "accept"
     /\ session' = Without(Late)
     /\ IF Cardinality(Pending \ Late) >= MaxPending
        THEN Goes(p, "held") /\ request' = settled
        ELSE \E r \in Reqs :
               /\ request[r] = NoRequest /\ \A s \in Reqs : s < r => request[s] # NoRequest
               /\ request' = [[s \in Reqs |-> IF s \in Retired(Settled \cup Late)
                                              THEN [settled[s] EXCEPT !.state = "retired"] ELSE settled[s]]
                    EXCEPT ![r] = [state |-> IF seat # 0 THEN "Awaiting" ELSE "ConfirmationUnavailable",
                                   target |-> requester[p].target]]
               /\ requester' = [requester EXCEPT ![p].pc = IF seat # 0 THEN "mint" ELSE "accepted",
                                                 ![p].req = r]
     /\ UNCHANGED <<seatVars, guiVars, served, events, tasks, stop, effects, deletion>>

\* mint: without a seat, or with a channel that no longer takes the
\* challenge, there is no confirmation.
Mint(p) ==
  LET r == requester[p].req
  IN /\ requester[p].pc = "mint" /\ Goes(p, "accepted")
     /\ IF seat # 0 /\ served[seat] = "run"
        THEN /\ session' = [session EXCEPT ![r] = [NoSession EXCEPT !.gen = seat]]
             /\ events' = [events EXCEPT ![seat] = Append(@, [t |-> "challenge", r |-> r])]
             /\ UNCHANGED request
        ELSE request' = Told({r}, "ConfirmationUnavailable") /\ UNCHANGED <<session, events>>
     /\ UNCHANGED <<seatVars, guiVars, served, tasks, stop, effects, deletion>>

\* request_state settles what is late; the requester leaves or asks again.
Status(p) ==
  /\ requester[p].pc \in {"accepted", "held"} /\ p # Desk
  /\ IF requester[p].pc = "accepted" THEN SettleExpired ELSE UNCHANGED <<request, session>>
  /\ requester' \in {requester, [requester EXCEPT ![p] = Asking]}
  /\ UNCHANGED <<seatVars, guiVars, served, events, tasks, stop, effects, deletion>>

\* The deadline of a session passes.
Expire(r) ==
  /\ r \in Live \ Late
  /\ session' = [session EXCEPT ![r].late = TRUE]
  /\ UNCHANGED <<request, seatVars, requester, guiVars, served, events, tasks, stop, effects, deletion>>

----------------------------------------------------------------------------
(* The serving thread of a channel.                                          *)

Frame(kind, r, g) == [kind |-> kind, r |-> r, g |-> g, pc |-> "new"]

\* Mutated: a frame is dispatched although the host stops.
DispatchAnyway(g, e) == tasks' = tasks \cup {Frame(e.kind, e.r, g)} /\ UNCHANGED events

\* An inbound frame: its task is registered under the lock of the stop.
Dispatch(g, e) ==
  IF stop # "no"
  THEN events' = [events EXCEPT ![g] = Append(Tail(@), [t |-> "denied", r |-> e.r])] /\ UNCHANGED tasks
  ELSE tasks' = tasks \cup {Frame(e.kind, e.r, g)} /\ events' = [events EXCEPT ![g] = Tail(@)]

Serve(g) ==
  LET e == Head(events[g])
  IN /\ served[g] = "run" /\ events[g] # <<>>
     /\ CASE e.t = "inbound" -> Dispatch(g, e) /\ UNCHANGED <<served, incoming>>
          [] e.t = "closed" -> served' = [served EXCEPT ![g] = "ending"] /\ UNCHANGED <<events, tasks, incoming>>
          [] OTHER -> /\ events' = [events EXCEPT ![g] = Tail(@)]
                      /\ IF gui[g].alive
                         THEN incoming' = [incoming EXCEPT ![g] = Append(@, e)] /\ UNCHANGED served
                         ELSE served' = [served EXCEPT ![g] = "ending"] /\ UNCHANGED incoming
                      /\ UNCHANGED tasks
     /\ UNCHANGED <<request, session, seatVars, requester, gui, waits, stop, effects, deletion>>

EndServing(g) ==
  /\ served[g] = "ending"
  /\ served' = [served EXCEPT ![g] = "done"]
  /\ events' = [events EXCEPT ![g] = <<>>]
  /\ CloseSeat(g)
  /\ UNCHANGED <<child, opener, requester, guiVars, tasks, stop, effects, deletion>>

----------------------------------------------------------------------------
(* Confirmation tasks: dispatch_confirmation and execute_pending.            *)

Step(k, pc) == tasks' = (tasks \ {k}) \cup {[kind |-> k.kind, r |-> k.r, g |-> k.g, pc |-> pc]}

\* The reply goes to the channel, if its thread still takes it.
Reply(k, t) ==
  /\ tasks' = tasks \ {k}
  /\ events' = IF served[k.g] = "run"
               THEN [events EXCEPT ![k.g] = Append(@, [t |-> t, r |-> k.r])] ELSE events

\* Mutated: the session stays behind.
TakeAndKeep(k) ==
  /\ k.kind = "complete" /\ k.pc = "new"
  /\ IF session[k.r].gen # 0 /\ session[k.r].gen = seat
     THEN Step(k, "execute") /\ UNCHANGED <<session, request, events>>
     ELSE Reply(k, "denied") /\ UNCHANGED <<session, request>>
  /\ UNCHANGED <<seatVars, requester, guiVars, served, stop, effects, deletion>>

\* take: the session is spent, whatever becomes of its operation.  What it
\* held of a secret goes with it.
Take(k) ==
  LET ok == session[k.r].gen # 0 /\ ~session[k.r].late /\ session[k.r].gen = seat
  IN /\ k.kind = "complete" /\ k.pc = "new"
     /\ session' = IF ok \/ k.r \in Late THEN Without({k.r}) ELSE session
     /\ request' = IF k.r \in Late THEN Told({k.r}, "Rejected") ELSE request
     /\ IF ok
        THEN /\ Step(k, IF Kind(request[k.r].target) = "credential" /\ ~session[k.r].secret
                        THEN "refuse" ELSE "execute")
             /\ UNCHANGED events
        ELSE Reply(k, "denied")
     /\ UNCHANGED <<seatVars, requester, guiVars, served, stop, effects, deletion>>

\* reject, and reject_request after it under the lock again.
Reject(k) ==
  /\ k.kind = "reject" /\ k.pc = "new"
  /\ IF k.r \in Live \ Late
     THEN session' = Without({k.r}) /\ Step(k, "rejected") /\ UNCHANGED <<request, events>>
     ELSE /\ session' = Without({k.r} \cap Late)
          /\ request' = Told({k.r} \cap Late, "Rejected")
          /\ Reply(k, "denied")
  /\ UNCHANGED <<seatVars, requester, guiVars, served, stop, effects, deletion>>

RejectRequest(k) ==
  /\ k.pc = "rejected"
  /\ request' = Told({k.r}, "Rejected")
  /\ Reply(k, "outcome")
  /\ UNCHANGED <<session, seatVars, requester, guiVars, served, stop, effects, deletion>>

\* stage_credential_secret.
StageSecret(k) ==
  /\ k.kind = "secret" /\ k.pc = "new"
  /\ IF k.r \in Live \ Late /\ session[k.r].gen = seat /\ Kind(request[k.r].target) = "credential"
     THEN session' = [session EXCEPT ![k.r].secret = TRUE] /\ Reply(k, "staged") /\ UNCHANGED request
     ELSE /\ session' = Without({k.r} \cap Late)
          /\ request' = Told({k.r} \cap Late, "Rejected")
          /\ Reply(k, "denied")
  /\ UNCHANGED <<seatVars, requester, guiVars, served, stop, effects, deletion>>

\* approve_device and publish_credential: done, refused, or not known.
Execute(k) ==
  /\ k.pc = "execute" /\ Kind(request[k.r].target) # "deletion"
  /\ \/ Step(k, "settle") /\ effects' = effects \cup {k.r}
     \/ Step(k, "settle") /\ UNCHANGED effects
     \/ Step(k, "unknown") /\ effects' \in {effects, effects \cup {k.r}}
  /\ UNCHANGED <<request, session, seatVars, requester, guiVars, served, events, stop, deletion>>

\* confirm_targeted_deletion, its first transaction; it may fail.
ConfirmDeletion(k) ==
  LET t == request[k.r].target
  IN /\ k.pc = "execute" /\ Kind(t) = "deletion"
     /\ \/ /\ Step(k, "start")
           /\ deletion' = [deletion EXCEPT ![t].row = IF @ = "staged" THEN "confirmed" ELSE @]
           /\ effects' = effects \cup {k.r}
        \/ Step(k, "unknown") /\ UNCHANGED <<deletion, effects>>
     /\ UNCHANGED <<request, session, seatVars, requester, guiVars, served, events, stop>>

\* Mutated: an operation of the request is not looked for.
StartAgain(t) == deletion' = [deletion EXCEPT ![t] = [row |-> "started", starts |-> @.starts + 1]]

\* start_confirmed_targeted_deletion: an operation of the request covers it.
StartDeletion(t) ==
  deletion' = IF deletion[t].row = "confirmed"
              THEN [deletion EXCEPT ![t] = [row |-> "started", starts |-> @.starts + 1]]
              ELSE deletion

StartConfirmed(k) ==
  /\ k.pc = "start"
  /\ \/ Step(k, "settle") /\ StartDeletion(request[k.r].target)
     \/ Step(k, "unknown") /\ UNCHANGED deletion
  /\ UNCHANGED <<request, session, seatVars, requester, guiVars, served, events, stop, effects>>

\* settle_request or mark_outcome_unavailable, and the reply.
Settle(k) ==
  /\ k.pc \in {"settle", "refuse", "unknown"}
  /\ request' = Told({k.r}, IF k.pc = "unknown" THEN "OutcomeUnavailable" ELSE "Applied")
  /\ Reply(k, IF k.pc = "unknown" THEN "unavailable" ELSE "outcome")
  /\ UNCHANGED <<session, seatVars, requester, guiVars, served, stop, effects, deletion>>

Task(k) ==
  \/ Take(k) \/ Reject(k) \/ RejectRequest(k) \/ StageSecret(k)
  \/ Execute(k) \/ ConfirmDeletion(k) \/ StartConfirmed(k) \/ Settle(k)

\* A client states a confirmed deletion again, and thereby starts it.
Restate(t) ==
  /\ stop = "no" /\ deletion[t].row \in {"confirmed", "started"}
  /\ StartDeletion(t)
  /\ UNCHANGED <<request, session, seatVars, requester, guiVars, served, events, tasks, stop, effects>>

----------------------------------------------------------------------------
(* join_confirmation_tasks, after the requesters are joined.                 *)

BeginJoin ==
  /\ Stops /\ stop = "no" /\ \A p \in Requesters : requester[p].pc \in {"idle", "accepted", "held"}
  /\ stop' = "stopping"
  /\ UNCHANGED <<request, session, seatVars, requester, guiVars, served, events, tasks, effects, deletion>>

Joined ==
  /\ stop = "stopping" /\ tasks = {}
  /\ stop' = "joined"
  /\ UNCHANGED <<request, session, seatVars, requester, guiVars, served, events, tasks, effects, deletion>>

----------------------------------------------------------------------------
(* The desktop: it reads its channel only while it awaits something.         *)

Sends(g, kind, r) == events' = [events EXCEPT ![g] = Append(@, [t |-> "inbound", kind |-> kind, r |-> r])]
Idle(g) == gui[g].alive /\ gui[g].wait = "idle"

\* pending_challenge, and what take_challenge leaves.
Shown(g) == IF gui[g].challenge # 0 THEN gui[g].challenge
            ELSE IF gui[g].deferred # <<>> THEN Head(gui[g].deferred) ELSE 0
Taken(g) == IF gui[g].challenge # 0 THEN [gui[g] EXCEPT !.challenge = 0]
            ELSE [gui[g] EXCEPT !.deferred = Tail(@)]

\* The owner selects a target and asks the host for it.
Begin(g, t) ==
  /\ Idle(g) /\ requester[Desk].pc = "idle"
  /\ gui' = [gui EXCEPT ![g].wait = "asking", ![g].expects = t, ![g].selected = t]
  /\ UNCHANGED <<request, session, seatVars, requester, served, events, incoming, tasks, stop, effects, deletion, waits>>

\* request_accepted, or the request was refused.
Answered(g) ==
  /\ gui[g].alive /\ gui[g].wait = "asking" /\ requester[Desk].pc \in {"accepted", "held"}
  /\ gui' = [gui EXCEPT ![g].wait = IF requester[Desk].pc = "accepted" THEN "challenge" ELSE "idle"]
  /\ requester' = [requester EXCEPT ![Desk] = Asking]
  /\ UNCHANGED <<request, session, seatVars, served, events, incoming, tasks, stop, effects, deletion, waits>>

\* The desktop that asked is gone.
Unheard ==
  /\ requester[Desk].pc \in {"accepted", "held"} /\ \A g \in Gens : ~(gui[g].alive /\ gui[g].wait = "asking")
  /\ requester' = [requester EXCEPT ![Desk] = Asking]
  /\ UNCHANGED <<request, session, seatVars, guiVars, served, events, tasks, stop, effects, deletion>>

\* The last ones that were not shown are kept.
Put(q, r) == Append(IF Len(q) >= MaxDeferred THEN Tail(q) ELSE q, r)

\* A challenge that was presented is put back before another is.
Presents(g, r) ==
  [gui[g] EXCEPT !.challenge = r,
                 !.deferred = IF gui[g].challenge # 0 THEN Put(@, gui[g].challenge) ELSE @]

\* A challenge of another kind waits its turn.
Deferring(g, r) == [gui[g] EXCEPT !.deferred = Put(@, r)]

\* await_challenge: any challenge of the expected kind is the answer.
ReadChallenge(g) ==
  LET f == Head(incoming[g])
  IN /\ gui[g].alive /\ gui[g].wait = "challenge" /\ incoming[g] # <<>>
     /\ incoming' = [incoming EXCEPT ![g] = Tail(@)]
     /\ gui' = [gui EXCEPT ![g] =
          IF f.t # "challenge" THEN [@ EXCEPT !.wait = "idle"]
          ELSE IF Kind(request[f.r].target) = Kind(gui[g].expects)
          THEN [Presents(g, f.r) EXCEPT !.wait = "idle"]
          ELSE Deferring(g, f.r)]
     /\ UNCHANGED <<request, session, seatVars, requester, served, events, tasks, stop, effects, deletion, waits>>

\* Mutated: the completion does not wait for the secret.
CompleteAtOnce(g) ==
  LET r == Shown(g)
  IN /\ Idle(g) /\ r # 0
     /\ gui' = [gui EXCEPT ![g] = [Taken(g) EXCEPT !.wait = "outcome", !.of = r]]
     /\ events' = [events EXCEPT ![g] = @ \o
          (IF Kind(request[r].target) = "credential"
           THEN <<[t |-> "inbound", kind |-> "secret", r |-> r]>> ELSE <<>>)
          \o <<[t |-> "inbound", kind |-> "complete", r |-> r]>>]
     /\ UNCHANGED <<request, session, seatVars, requester, served, incoming, tasks, stop, effects, deletion, waits>>

\* confirm_owner: a credential's secret is sent first, and its staging awaited.
Confirm(g) ==
  LET r == Shown(g)
      secret == Kind(request[r].target) = "credential"
  IN /\ Idle(g) /\ r # 0
     /\ gui' = [gui EXCEPT ![g] = [Taken(g) EXCEPT !.wait = IF secret THEN "staged" ELSE "outcome", !.of = r]]
     /\ Sends(g, IF secret THEN "secret" ELSE "complete", r)
     /\ UNCHANGED <<request, session, seatVars, requester, served, incoming, tasks, stop, effects, deletion, waits>>

\* reject_pending_challenge.
Dismiss(g) ==
  /\ Idle(g) /\ Shown(g) # 0
  /\ gui' = [gui EXCEPT ![g] = [Taken(g) EXCEPT !.wait = "outcome", !.of = Shown(g)]]
  /\ Sends(g, "reject", Shown(g))
  /\ UNCHANGED <<request, session, seatVars, requester, served, incoming, tasks, stop, effects, deletion, waits>>

\* await_outcome: the next frame that is no challenge is the answer.
ReadOutcome(g) ==
  LET f == Head(incoming[g])
      on == gui[g].wait = "staged" /\ f.t = "staged"
  IN /\ gui[g].alive /\ gui[g].wait \in {"outcome", "staged"} /\ incoming[g] # <<>>
     /\ incoming' = [incoming EXCEPT ![g] = Tail(@)]
     /\ gui' = [gui EXCEPT ![g] =
          IF f.t = "challenge" THEN Presents(g, f.r)
          ELSE IF on THEN [@ EXCEPT !.wait = "outcome"]
          ELSE [@ EXCEPT !.wait = "idle", !.of = 0]]
     /\ IF on THEN Sends(g, "complete", gui[g].of) ELSE UNCHANGED events
     /\ UNCHANGED <<request, session, seatVars, requester, served, tasks, stop, effects, deletion, waits>>

\* CONFIRMATION_WAIT: what is awaited may still come.
GiveUp(g) ==
  /\ gui[g].alive /\ gui[g].wait \in {"challenge", "outcome", "staged"} /\ waits < MaxWaits
  /\ waits' = waits + 1
  /\ gui' = [gui EXCEPT ![g].wait = "idle", ![g].of = 0]
  /\ UNCHANGED <<request, session, seatVars, requester, served, events, incoming, tasks, stop, effects, deletion>>

\* The desktop exits, or is killed once it was replaced.
Exit(g) ==
  /\ gui[g].alive
  /\ gui' = [gui EXCEPT ![g] = NoGui]
  /\ incoming' = [incoming EXCEPT ![g] = <<>>]
  /\ events' = IF served[g] = "run" THEN [events EXCEPT ![g] = Append(@, [t |-> "closed", r |-> 0])] ELSE events
  /\ UNCHANGED <<request, session, seatVars, requester, served, tasks, stop, effects, deletion, waits>>

----------------------------------------------------------------------------
Desktop(g) ==
  \/ \E t \in Targets : Begin(g, t)
  \/ Answered(g) \/ ReadChallenge(g) \/ Confirm(g) \/ Dismiss(g) \/ ReadOutcome(g) \/ GiveUp(g) \/ Exit(g)

Requester(p) == Open(p) \/ Spawn(p) \/ Accept(p) \/ Mint(p) \/ Status(p)

Next ==
  \/ \E p \in Requesters : Requester(p) \/ \E t \in Targets : Ask(p, t)
  \/ \E r \in Reqs : Expire(r)
  \/ \E g \in Gens : Serve(g) \/ EndServing(g) \/ Desktop(g)
  \/ \E k \in tasks : Task(k)
  \/ \E t \in Deletions : Restate(t)
  \/ Unheard \/ BeginJoin \/ Joined

Spec == Init /\ [][Next]_vars

----------------------------------------------------------------------------
(* The types of the variables.                                               *)
TypeOK ==
  /\ request \in [Reqs -> [state : States \cup {"none", "retired"}, target : Targets \cup {None}]]
  /\ session \in [Reqs -> [gen : 0 .. MaxSeats, late : BOOLEAN, secret : BOOLEAN]]
  /\ seat \in 0 .. MaxSeats /\ child \in 0 .. MaxSeats /\ opener \in Requesters \cup {None}
  /\ \A p \in Requesters :
       /\ requester[p].pc \in {"idle", "open", "spawn", "accept", "mint", "accepted", "held"}
       /\ requester[p].req \in 0 .. MaxRequests
       /\ (requester[p].pc = "spawn") = (opener = p)
  /\ \A g \in Gens :
       /\ gui[g].wait \in {"idle", "asking", "challenge", "outcome", "staged"}
       /\ gui[g].challenge \in 0 .. MaxRequests /\ gui[g].deferred \in Seq(Reqs)
       /\ served[g] \in {"none", "run", "ending", "done"}
       /\ served[g] = "none" => ~gui[g].alive
  /\ \A k \in tasks : k.kind \in {"complete", "reject", "secret"} /\ k.r \in Reqs
  /\ stop \in {"no", "stopping", "joined"} /\ effects \subseteq Reqs
  /\ \A t \in Deletions : deletion[t].row \in {"staged", "confirmed", "started"}

\* A request that waits for the owner can still be settled: it has a session
\* of the present seat, its session is about to be minted, or a task works on
\* it.  Otherwise its place among the pending would be lost for good
\* (host_control.rs:96, :223).
AwaitingIsServed ==
  \A r \in Pending :
    \/ session[r].gen # 0 /\ session[r].gen = seat
    \/ \E p \in Requesters : requester[p].pc = "mint" /\ requester[p].req = r
    \/ \E k \in tasks : k.r = r /\ k.pc # "new"

\* What a requester was once told of its request's end stays so, whatever
\* the deadline, the seat and the tasks of the session do later
\* (host_control.rs:358).
SettlesOnce ==
  \A r \in Reqs : r \in Settled => request'[r].state \in {request[r].state, "retired"}

\* An operation that was declined, ran out of time or found no confirmation
\* did not take place, nor will it (host_control.rs:290).
RefusedIsNotApplied ==
  \A r \in Reqs : request[r].state \in {"Rejected", "ConfirmationUnavailable"} =>
    /\ r \notin effects
    /\ ~ \E k \in tasks : k.r = r /\ k.pc \in {"execute", "start", "settle", "unknown"}

\* The desktop that was spawned last has the seat as long as it lives and its
\* thread serves; the late end of one that was replaced does not unseat it
\* (host_control.rs:122).
LiveDesktopIsSeated ==
  child # 0 /\ gui[child].alive /\ served[child] = "run" => seat = child

\* After the tasks were joined none runs (host_control.rs:879).
JoinedIsQuiet == stop = "joined" => tasks = {}

\* A requester is held off only by requests the owner can still answer
\* (host_control.rs:184).
HoldsOff ==
  \A p \in Requesters : requester[p].pc = "accept" /\ requester'[p].pc = "held" =>
    Cardinality({ r \in Reqs : request'[r].state = "Awaiting" /\ ~session'[r].late }) >= MaxPending

\* A requester is told the end of its request once, and is held off for good
\* reason only (host_control.rs:358, :184).
SettledIsFinal == [][SettlesOnce /\ HoldsOff]_vars

\* However often a deletion is confirmed and stated, one operation starts
\* (preservation.rs:2208).
StartsOnce == \A t \in Deletions : deletion[t].starts <= 1 /\ (deletion[t].starts = 1) = (deletion[t].row = "started")

\* A credential the owner completes has its secret, although the two frames
\* are dispatched in tasks of their own, as long as no wait of the desktop ran
\* out (host_control.rs:1032, control.rs:278).
SecretIsThere == waits = 0 => \A k \in tasks : k.pc # "refuse"

\* What holds of the requests, the seat and the tasks.
SeatSafe ==
  /\ TypeOK /\ AwaitingIsServed /\ RefusedIsNotApplied
  /\ LiveDesktopIsSeated /\ JoinedIsQuiet /\ StartsOnce /\ SecretIsThere

\* The join of the tasks comes to an end.
StopJoins == stop = "stopping" ~> stop = "joined"

===============================================================================
