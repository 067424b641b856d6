------------------------- MODULE ControlSeat_proofs -------------------------
(***************************************************************************)
(* Proofs about ControlSeat, for any number of requesters, requests and    *)
(* desktops: a request that waits can be settled, what was refused is not   *)
(* carried out, what a requester was told is final, and a credential is     *)
(* completed with its secret.                                              *)
(***************************************************************************)
EXTENDS ControlSeat, TLAPS

Kinds == {"complete", "reject", "secret"}
Pcs == {"idle", "open", "spawn", "accept", "mint", "accepted", "held"}
RequestSet == [state : States \cup {"none", "retired"}, target : Targets \cup {None}]
SessionSet == [gen : 0..MaxSeats, late : BOOLEAN, secret : BOOLEAN]
RequesterSet == [pc : Pcs, target : Targets \cup {None}, req : 0..MaxRequests]
Waits == {"idle", "asking", "challenge", "outcome", "staged"}
GuiSet == [alive : BOOLEAN, wait : Waits,
           of : 0..MaxRequests, expects : Targets \cup {None}, selected : Targets \cup {None},
           challenge : 0..MaxRequests, deferred : Seq(Reqs)]
Answers == {"denied", "staged", "outcome", "unavailable"}
Sent == [t : {"inbound"}, kind : Kinds, r : Reqs]
Answer == [t : Answers \cup {"challenge"}, r : Reqs] \cup [t : {"closed"}, r : {0}]
Messages == Sent \cup Answer
TaskPcs == {"new", "execute", "refuse", "rejected", "start", "settle", "unknown"}
TaskSet == [kind : Kinds, r : Reqs, g : Gens, pc : TaskPcs]

(* The types, of the messages and the tasks too.                             *)
SeatTypes ==
    /\ request \in [Reqs -> RequestSet] /\ session \in [Reqs -> SessionSet]
    /\ seat \in 0..MaxSeats /\ child \in 0..MaxSeats /\ opener \in Requesters \cup {None}
    /\ requester \in [Requesters -> RequesterSet]
    /\ gui \in [Gens -> GuiSet]
    /\ served \in [Gens -> {"none", "run", "ending", "done"}]
    /\ events \in [Gens -> Seq(Messages)] /\ incoming \in [Gens -> Seq(Messages)]
    /\ tasks \subseteq TaskSet /\ stop \in {"no", "stopping", "joined"} /\ effects \subseteq Reqs
    /\ deletion \in [Deletions -> [row : {"staged", "confirmed", "started"}, starts : Nat]]
    /\ waits \in Nat

(* A generation that was not spawned has left no trace.                      *)
Unspawned(g) ==
    served[g] = "none" => /\ ~gui[g].alive /\ events[g] = <<>> /\ incoming[g] = <<>>
                          /\ \A k \in tasks : k.g # g

(* The one that holds gui_open spawns.                                       *)
Opening(p) == requester[p].pc = "spawn" <=> opener = p

(* A request is named by others once its session was minted.                 *)
Minted(r) ==
    /\ r \in Reqs /\ request[r].state # "none"
    /\ \A p \in Requesters : requester[p].pc = "mint" => requester[p].req # r

(* One requester mints the session of a request that waits.                  *)
Minting(p) ==
    requester[p].pc = "mint" =>
        /\ requester[p].req \in Reqs /\ request[requester[p].req].state = "Awaiting"
        /\ \A q \in Requesters : requester[q].pc = "mint" /\ requester[q].req = requester[p].req => q = p

(* A session is one of the present seat, and of a request that waits and     *)
(* that nobody works on.                                                     *)
SessionLive(r) ==
    /\ session[r].gen # 0 => session[r].gen = seat /\ request[r].state = "Awaiting" /\ Minted(r)
    /\ session[r].gen = 0 => session[r] = NoSession

(* One task works on a request, and its session is spent.                    *)
Working(k) ==
    /\ Minted(k.r)
    /\ k.pc # "new" => /\ request[k.r].state = "Awaiting" /\ session[k.r].gen = 0
                       /\ \A l \in tasks : l.r = k.r /\ l.pc # "new" => l = k

(* What waits can still be settled.                                          *)
Served(r) ==
    request[r].state = "Awaiting" =>
        \/ session[r].gen # 0
        \/ \E p \in Requesters : requester[p].pc = "mint" /\ requester[p].req = r
        \/ \E k \in tasks : k.r = r /\ k.pc # "new"

(* What took place was settled so, or is about to be.                        *)
Effected(r) ==
    r \in effects => \/ request[r].state \in {"Applied", "OutcomeUnavailable", "retired"}
                     \/ \E k \in tasks : k.r = r /\ k.pc \in {"start", "settle", "unknown"}

(* The messages and the desktops name requests that were minted.             *)
MintedReqs == {r \in Reqs : Minted(r)}
Names(q, R) == \A i \in DOMAIN q : q[i].t # "closed" => q[i].r \in R
GuiNames(g) ==
    /\ gui[g].challenge # 0 => gui[g].challenge \in MintedReqs
    /\ \A i \in DOMAIN gui[g].deferred : gui[g].deferred[i] \in MintedReqs
    /\ gui[g].of # 0 => gui[g].of \in MintedReqs
    /\ gui[g].wait \in {"outcome", "staged"} => gui[g].of # 0
Named(g) == Names(events[g], MintedReqs) /\ Names(incoming[g], MintedReqs) /\ GuiNames(g)

(* A credential may be completed: its session has the secret, or is gone.  A *)
(* completion, and the answer that a secret was staged, are of such a one.    *)
Secured(r) ==
    session[r].gen # 0 /\ Kind(request[r].target) = "credential" => session[r].secret
SecuredReqs == {r \in Reqs : Minted(r) /\ Secured(r)}
Secures(q, R) ==
    \A i \in DOMAIN q :
        q[i].t = "staged" \/ (q[i].t = "inbound" /\ q[i].kind = "complete") => q[i].r \in R
Completing ==
    waits = 0 =>
        /\ \A g \in Gens : Secures(events[g], SecuredReqs) /\ Secures(incoming[g], SecuredReqs)
        /\ \A k \in tasks : k.pc # "refuse" /\ (k.kind = "complete" => k.r \in SecuredReqs)

(* A desktop that lives talks of one request, the one it awaits, and one      *)
(* frame, task or answer at a time carries it.                               *)
Talk(m) == m.t \notin {"challenge", "closed"}
NoTalk(q) == \A i \in DOMAIN q : ~Talk(q[i])
OneTalk(q, r) ==
    \A i \in DOMAIN q : Talk(q[i]) => q[i].r = r /\ \A j \in DOMAIN q : Talk(q[j]) => j = i
NoTask(g) == \A k \in tasks : k.g # g
OneTask(g) == \A k \in tasks : k.g = g => k.r = gui[g].of /\ \A l \in tasks : l.g = g => l = k
Talks(g) ==
    /\ OneTalk(events[g], gui[g].of) /\ OneTalk(incoming[g], gui[g].of) /\ OneTask(g)
    /\ NoTalk(events[g]) \/ NoTalk(incoming[g])
    /\ NoTalk(events[g]) \/ NoTask(g)
    /\ NoTalk(incoming[g]) \/ NoTask(g)
    /\ gui[g].wait \notin {"outcome", "staged"} =>
         NoTalk(events[g]) /\ NoTalk(incoming[g]) /\ NoTask(g)
Talking(g) == waits = 0 /\ gui[g].alive => Talks(g)

(* A channel that ends is not heard of.                                      *)
Heard(q) == \A i \in DOMAIN q : q[i].t # "closed"

SeatInv ==
    /\ SeatTypes
    /\ \A g \in Gens : Unspawned(g) /\ Named(g) /\ Talking(g) /\ Heard(incoming[g])
    /\ \A p \in Requesters : Opening(p) /\ Minting(p)
    /\ \A r \in Reqs : SessionLive(r) /\ Served(r) /\ Effected(r)
    /\ \A k \in tasks : Working(k)
    /\ LiveDesktopIsSeated /\ JoinedIsQuiet /\ StartsOnce
    /\ Completing

-----------------------------------------------------------------------------
(* What a channel holds after a message was put in or taken out.             *)
LEMMA AppendFacts ==
    ASSUME NEW S, NEW s \in Seq(S), NEW e \in S
    PROVE  /\ Append(s, e) \in Seq(S)
           /\ Len(s) \in Nat /\ DOMAIN s = 1..Len(s) /\ DOMAIN Append(s, e) = 1..(Len(s) + 1)
           /\ \A i \in DOMAIN s : s[i] \in S /\ Append(s, e)[i] = s[i]
           /\ Append(s, e)[Len(s) + 1] = e
  OBVIOUS

LEMMA TailFacts ==
    ASSUME NEW S, NEW s \in Seq(S), s # <<>>
    PROVE  /\ Tail(s) \in Seq(S) /\ Head(s) = s[1] /\ Head(s) \in S /\ 1 \in DOMAIN s
           /\ Len(s) \in Nat /\ DOMAIN s = 1..Len(s) /\ DOMAIN Tail(s) = 1..(Len(s) - 1)
           /\ \A i \in DOMAIN Tail(s) : i + 1 \in DOMAIN s /\ Tail(s)[i] = s[i + 1]
  OBVIOUS

(* The shape of the messages.                                                *)
LEMMA MessageShape ==
    ASSUME NEW m \in Messages
    PROVE  /\ m.t \in Answers \cup {"challenge", "closed", "inbound"}
           /\ m.t # "closed" => m.r \in Reqs
           /\ m.t = "inbound" => m.kind \in Kinds
BY DEF Messages, Sent, Answer, Answers

LEMMA MessageForms ==
    /\ \A t \in Answers \cup {"challenge"}, r \in Reqs : [t |-> t, r |-> r] \in Messages
    /\ \A kind \in Kinds, r \in Reqs : [t |-> "inbound", kind |-> kind, r |-> r] \in Messages
    /\ [t |-> "closed", r |-> 0] \in Messages
BY DEF Messages, Sent, Answer, Answers

(* What the operators of the seat make of the requests and the sessions.     *)
LEMMA ToldFacts ==
    ASSUME request \in [Reqs -> RequestSet], NEW R, NEW s \in States
    PROVE  /\ Told(R, s) \in [Reqs -> RequestSet]
           /\ \A r \in Reqs : Told(R, s)[r].target = request[r].target
           /\ \A r \in Reqs : r \in R => Told(R, s)[r].state = s
           /\ \A r \in Reqs : r \notin R => Told(R, s)[r] = request[r]
<1>1. \A r \in Reqs : request[r] \in RequestSet
                      /\ [state |-> s, target |-> request[r].target] \in RequestSet
  BY DEF RequestSet, States
<1> QED
  BY <1>1 DEF Told

LEMMA WithoutFacts ==
    ASSUME ControlSeatAssumption, session \in [Reqs -> SessionSet], NEW R
    PROVE  /\ Without(R) \in [Reqs -> SessionSet]
           /\ \A r \in Reqs : r \in R => Without(R)[r] = NoSession
           /\ \A r \in Reqs : r \notin R => Without(R)[r] = session[r]
           /\ NoSession.gen = 0 /\ NoSession.late = FALSE /\ NoSession.secret = FALSE
<1>1. NoSession \in SessionSet
  BY DEF NoSession, SessionSet, ControlSeatAssumption
<1> QED
  BY <1>1 DEF Without, NoSession

(* What a desktop puts back comes from what it had.                          *)
LEMMA PutFacts ==
    ASSUME ControlSeatAssumption, NEW q \in Seq(Reqs), NEW r \in Reqs
    PROVE  /\ Put(q, r) \in Seq(Reqs)
           /\ \A i \in DOMAIN Put(q, r) : Put(q, r)[i] = r \/ \E j \in DOMAIN q : Put(q, r)[i] = q[j]
<1>1. ASSUME NEW s \in Seq(Reqs), \A i \in DOMAIN s : \E j \in DOMAIN q : s[i] = q[j]
      PROVE  /\ Append(s, r) \in Seq(Reqs)
             /\ \A i \in DOMAIN Append(s, r) :
                  Append(s, r)[i] = r \/ \E j \in DOMAIN q : Append(s, r)[i] = q[j]
  BY <1>1, AppendFacts
<1>2. CASE Len(q) >= MaxDeferred
  <2>1. q # <<>>
    BY <1>2 DEF ControlSeatAssumption
  <2>2. /\ Tail(q) \in Seq(Reqs)
        /\ \A i \in DOMAIN Tail(q) : \E j \in DOMAIN q : Tail(q)[i] = q[j]
    BY <2>1, TailFacts
  <2> QED
    BY <1>1, <1>2, <2>2 DEF Put
<1>3. CASE ~(Len(q) >= MaxDeferred)
  BY <1>1, <1>3 DEF Put
<1> QED
  BY <1>2, <1>3

(* What the steps of a desktop make of it.                                   *)
LEMMA GuiForms ==
    ASSUME ControlSeatAssumption, NEW x \in GuiSet
    PROVE  /\ [x EXCEPT !.alive = TRUE] \in GuiSet
           /\ \A w \in Waits : [x EXCEPT !.wait = w] \in GuiSet
           /\ \A w \in Waits, r \in 0..MaxRequests : [x EXCEPT !.wait = w, !.of = r] \in GuiSet
           /\ \A t \in Targets : [x EXCEPT !.wait = "asking", !.expects = t, !.selected = t] \in GuiSet
           /\ [x EXCEPT !.challenge = 0] \in GuiSet
           /\ x.deferred # <<>> => [x EXCEPT !.deferred = Tail(@)] \in GuiSet
           /\ \A r \in Reqs : [x EXCEPT !.deferred = Put(@, r)] \in GuiSet
           /\ \A r \in Reqs : [x EXCEPT !.challenge = r] \in GuiSet
           /\ \A r, s \in Reqs : [x EXCEPT !.challenge = r, !.deferred = Put(@, s)] \in GuiSet
           /\ NoGui \in GuiSet
<1>1. 0 \in 0..MaxRequests /\ Reqs \subseteq 0..MaxRequests
  BY DEF ControlSeatAssumption, Reqs
<1>2. x.deferred \in Seq(Reqs)
  BY DEF GuiSet
<1>3. x.deferred # <<>> => Tail(x.deferred) \in Seq(Reqs)
  BY <1>2, TailFacts
<1>4. \A r \in Reqs : Put(x.deferred, r) \in Seq(Reqs)
  BY <1>2, PutFacts
<1>5. [x EXCEPT !.alive = TRUE] \in GuiSet
  BY DEF GuiSet
<1>6. \A w \in Waits : [x EXCEPT !.wait = w] \in GuiSet
  BY DEF GuiSet
<1>7. \A w \in Waits, r \in 0..MaxRequests : [x EXCEPT !.wait = w, !.of = r] \in GuiSet
  BY DEF GuiSet
<1>8. \A t \in Targets : [x EXCEPT !.wait = "asking", !.expects = t, !.selected = t] \in GuiSet
  BY DEF GuiSet, Waits
<1>9. [x EXCEPT !.challenge = 0] \in GuiSet
  BY <1>1 DEF GuiSet
<1>10. x.deferred # <<>> => [x EXCEPT !.deferred = Tail(@)] \in GuiSet
  BY <1>3 DEF GuiSet
<1>11. \A r \in Reqs : [x EXCEPT !.deferred = Put(@, r)] \in GuiSet
  BY <1>4 DEF GuiSet
<1>12. \A r \in Reqs : [x EXCEPT !.challenge = r] \in GuiSet
  BY <1>1 DEF GuiSet
<1>13. \A r, s \in Reqs : [x EXCEPT !.challenge = r, !.deferred = Put(@, s)] \in GuiSet
  BY <1>1, <1>4 DEF GuiSet
<1>14. NoGui \in GuiSet
  BY <1>1 DEF NoGui, GuiSet, Waits
<1> QED
  BY <1>5, <1>6, <1>7, <1>8, <1>9, <1>10, <1>11, <1>12, <1>13, <1>14

(* What a desktop shows, puts back and takes.                                *)
LEMMA DeskForms ==
    ASSUME ControlSeatAssumption, gui \in [Gens -> GuiSet], NEW g \in Gens
    PROVE  /\ Shown(g) # 0 => Shown(g) \in Reqs /\ Taken(g) \in GuiSet
           /\ \A r \in Reqs : Presents(g, r) \in GuiSet /\ Deferring(g, r) \in GuiSet
<1>0. gui[g] \in GuiSet
  OBVIOUS
<1>1. gui[g].challenge \in 0..MaxRequests /\ gui[g].deferred \in Seq(Reqs)
  BY <1>0 DEF GuiSet
<1>2. gui[g].deferred # <<>> => Head(gui[g].deferred) \in Reqs
  BY <1>1, TailFacts
<1>3. Shown(g) # 0 => Shown(g) \in Reqs
  BY <1>1, <1>2 DEF Shown, Reqs, ControlSeatAssumption
<1>4. Shown(g) # 0 => Taken(g) \in GuiSet
  BY <1>0, GuiForms DEF Shown, Taken
<1>5. gui[g].challenge # 0 => gui[g].challenge \in Reqs
  BY <1>1 DEF Reqs, ControlSeatAssumption
<1>7. \A r \in Reqs : Deferring(g, r) \in GuiSet
  BY <1>0, GuiForms DEF Deferring
<1>6. ASSUME NEW r \in Reqs PROVE Presents(g, r) \in GuiSet
  <2>1. CASE gui[g].challenge # 0
    <3>1. Presents(g, r) = [gui[g] EXCEPT !.challenge = r, !.deferred = Put(@, gui[g].challenge)]
      BY <2>1 DEF Presents
    <3>2. \A x \in Reqs, y \in Reqs : [gui[g] EXCEPT !.challenge = x, !.deferred = Put(@, y)] \in GuiSet
      BY <1>0, GuiForms
    <3> QED
      BY <3>1, <3>2, <2>1, <1>5
  <2>2. CASE gui[g].challenge = 0
    <3>1. Presents(g, r) = [gui[g] EXCEPT !.challenge = r]
      BY <2>2, <1>0 DEF Presents, GuiSet
    <3> QED
      BY <3>1, <1>0, GuiForms
  <2> QED
    BY <2>1, <2>2
<1> QED
  BY <1>3, <1>4, <1>6, <1>7

(* What a channel becomes.                                                   *)
LEMMA ChannelForms ==
    ASSUME NEW q \in [Gens -> Seq(Messages)], NEW g \in Gens
    PROVE  /\ \A m \in Messages : [q EXCEPT ![g] = Append(@, m)] \in [Gens -> Seq(Messages)]
           /\ q[g] # <<>> => /\ Head(q[g]) \in Messages
                             /\ [q EXCEPT ![g] = Tail(@)] \in [Gens -> Seq(Messages)]
                             /\ \A m \in Messages : [q EXCEPT ![g] = Append(Tail(@), m)] \in [Gens -> Seq(Messages)]
           /\ [q EXCEPT ![g] = <<>>] \in [Gens -> Seq(Messages)]
<1>0. q[g] \in Seq(Messages)
  OBVIOUS
<1>1. \A m \in Messages : Append(q[g], m) \in Seq(Messages)
  BY <1>0, AppendFacts
<1>2. q[g] # <<>> => Head(q[g]) \in Messages /\ Tail(q[g]) \in Seq(Messages)
  BY <1>0, TailFacts
<1>3. q[g] # <<>> => \A m \in Messages : Append(Tail(q[g]), m) \in Seq(Messages)
  BY <1>2, AppendFacts
<1>4. <<>> \in Seq(Messages)
  OBVIOUS
<1> QED
  BY <1>1, <1>2, <1>3, <1>4

(* What becomes of a task.                                                   *)
LEMMA TaskForms ==
    ASSUME tasks \subseteq TaskSet, NEW k \in tasks
    PROVE  /\ k \in TaskSet /\ k.kind \in Kinds /\ k.r \in Reqs /\ k.g \in Gens /\ k.pc \in TaskPcs
           /\ \A pc \in TaskPcs : [kind |-> k.kind, r |-> k.r, g |-> k.g, pc |-> pc] \in TaskSet
  BY DEF TaskSet

(* What taking a request down does to the others.                            *)
LEMMA AcceptFacts ==
    ASSUME ControlSeatAssumption, SeatTypes, NEW p \in Requesters, Accept(p)
    PROVE  /\ session' = Without(Late) /\ requester[p].pc = "accept"
           /\ \/ /\ request' = Told(Late, "Rejected")
                 /\ requester' = [requester EXCEPT ![p].pc = "held"]
                 /\ Cardinality(Pending \ Late) >= MaxPending
              \/ \E r \in Reqs :
                   /\ request[r] = NoRequest
                   /\ request'[r].state = IF seat # 0 THEN "Awaiting" ELSE "ConfirmationUnavailable"
                   /\ requester' = [requester EXCEPT ![p].pc = IF seat # 0 THEN "mint" ELSE "accepted",
                                                     ![p].req = r]
                   /\ \A s \in Reqs : s # r =>
                        /\ request'[s].target = request[s].target
                        /\ s \in Late => request'[s].state \in {"Rejected", "retired"}
                        /\ s \notin Late => \/ request'[s] = request[s]
                                            \/ s \in Settled /\ request'[s].state = "retired"
<1>1. CASE Cardinality(Pending \ Late) >= MaxPending
  BY <1>1 DEF Accept, Goes
<1>2. CASE ~(Cardinality(Pending \ Late) >= MaxPending)
  <2> DEFINE told == Told(Late, "Rejected")
             base == [s \in Reqs |-> IF s \in Retired(Settled \cup Late)
                                     THEN [told[s] EXCEPT !.state = "retired"] ELSE told[s]]
             new == [state |-> IF seat # 0 THEN "Awaiting" ELSE "ConfirmationUnavailable",
                     target |-> requester[p].target]
  <2>1. PICK r \in Reqs :
          /\ request[r] = NoRequest
          /\ request' = [base EXCEPT ![r] = new]
          /\ requester' = [requester EXCEPT ![p].pc = IF seat # 0 THEN "mint" ELSE "accepted",
                                            ![p].req = r]
    BY <1>2 DEF Accept
  <2>2. request'[r] = new
    BY <2>1
  <2>3. /\ request \in [Reqs -> RequestSet] /\ "Rejected" \in States
    BY DEF SeatTypes, States
  <2>4. ASSUME NEW s \in Reqs, s # r
        PROVE  /\ request'[s].target = request[s].target
               /\ s \in Late => request'[s].state \in {"Rejected", "retired"}
               /\ s \notin Late => \/ request'[s] = request[s]
                                   \/ s \in Settled /\ request'[s].state = "retired"
    <3>1. request'[s] = base[s]
      BY <2>1, <2>4
    <3>2. /\ told[s].target = request[s].target /\ told[s] \in RequestSet
          /\ s \in Late => told[s].state = "Rejected"
          /\ s \notin Late => told[s] = request[s]
      BY <2>3, ToldFacts
    <3>3. /\ [told[s] EXCEPT !.state = "retired"].target = told[s].target
          /\ [told[s] EXCEPT !.state = "retired"].state = "retired"
      BY <3>2 DEF RequestSet
    <3>4. s \in Retired(Settled \cup Late) => s \in Settled \cup Late
      BY DEF Retired
    <3> HIDE DEF told
    <3> QED
      BY <3>1, <3>2, <3>3, <3>4
  <2> QED
    BY <2>1, <2>2, <2>4 DEF Accept
<1> QED
  BY <1>1, <1>2 DEF Accept

(* The moves of a requester.                                                 *)
LEMMA RequesterMoves ==
    ASSUME requester \in [Requesters -> RequesterSet], NEW p \in Requesters
    PROVE  /\ \A pc \in Pcs : Goes(p, pc) =>
                /\ requester'[p].pc = pc /\ requester'[p].req = requester[p].req
                /\ \A q \in Requesters : q # p => requester'[q] = requester[q]
           /\ \A pc \in Pcs, r \in Reqs : requester' = [requester EXCEPT ![p].pc = pc, ![p].req = r] =>
                /\ requester'[p].pc = pc /\ requester'[p].req = r
                /\ \A q \in Requesters : q # p => requester'[q] = requester[q]
           /\ requester' = [requester EXCEPT ![p] = Asking] =>
                /\ requester'[p].pc = "idle"
                /\ \A q \in Requesters : q # p => requester'[q] = requester[q]
  BY DEF Goes, RequesterSet, Asking

(* What a message put in or taken out does to what a channel names, secures  *)
(* and talks of.                                                            *)
LEMMA ChannelNames ==
    ASSUME NEW q \in Seq(Messages), NEW R, Names(q, R)
    PROVE  /\ \A m \in Messages : m.t = "closed" \/ m.r \in R => Names(Append(q, m), R)
           /\ q # <<>> => /\ Names(Tail(q), R)
                          /\ Head(q).t # "closed" => Head(q).r \in R
                          /\ \A m \in Messages : m.t = "closed" \/ m.r \in R => Names(Append(Tail(q), m), R)
           /\ Names(<<>>, R)
           /\ \A S : R \subseteq S => Names(q, S)
<1>1. ASSUME NEW s \in Seq(Messages), Names(s, R), NEW m \in Messages, m.t = "closed" \/ m.r \in R
      PROVE  Names(Append(s, m), R)
  <2>1. /\ DOMAIN s = 1..Len(s) /\ DOMAIN Append(s, m) = 1..(Len(s) + 1) /\ Len(s) \in Nat
        /\ \A i \in DOMAIN s : Append(s, m)[i] = s[i]
        /\ Append(s, m)[Len(s) + 1] = m
    BY <1>1, AppendFacts
  <2> QED
    BY <1>1, <2>1 DEF Names
<1>2. ASSUME q # <<>>
      PROVE  Tail(q) \in Seq(Messages) /\ Names(Tail(q), R) /\ (Head(q).t # "closed" => Head(q).r \in R)
  BY <1>2, TailFacts DEF Names
<1> QED
  BY <1>1, <1>2 DEF Names

LEMMA ChannelSecures ==
    ASSUME NEW q \in Seq(Messages), NEW R, Secures(q, R)
    PROVE  /\ \A m \in Messages : ~(m.t = "staged" \/ (m.t = "inbound" /\ m.kind = "complete")) \/ m.r \in R =>
                Secures(Append(q, m), R)
           /\ q # <<>> =>
                /\ Secures(Tail(q), R)
                /\ Head(q).t = "staged" \/ (Head(q).t = "inbound" /\ Head(q).kind = "complete") => Head(q).r \in R
                /\ \A m \in Messages : ~(m.t = "staged" \/ (m.t = "inbound" /\ m.kind = "complete")) \/ m.r \in R =>
                     Secures(Append(Tail(q), m), R)
           /\ Secures(<<>>, R)
           /\ \A S : R \subseteq S => Secures(q, S)
<1>1. ASSUME NEW s \in Seq(Messages), Secures(s, R), NEW m \in Messages,
             ~(m.t = "staged" \/ (m.t = "inbound" /\ m.kind = "complete")) \/ m.r \in R
      PROVE  Secures(Append(s, m), R)
  <2>1. /\ DOMAIN s = 1..Len(s) /\ DOMAIN Append(s, m) = 1..(Len(s) + 1) /\ Len(s) \in Nat
        /\ \A i \in DOMAIN s : Append(s, m)[i] = s[i]
        /\ Append(s, m)[Len(s) + 1] = m
    BY <1>1, AppendFacts
  <2> QED
    BY <1>1, <2>1 DEF Secures
<1>2. ASSUME q # <<>>
      PROVE  /\ Tail(q) \in Seq(Messages) /\ Secures(Tail(q), R)
             /\ Head(q).t = "staged" \/ (Head(q).t = "inbound" /\ Head(q).kind = "complete") => Head(q).r \in R
  BY <1>2, TailFacts DEF Secures
<1> QED
  BY <1>1, <1>2 DEF Secures

LEMMA ChannelHeard ==
    ASSUME NEW q \in Seq(Messages), Heard(q)
    PROVE  /\ \A m \in Messages : m.t # "closed" => Heard(Append(q, m))
           /\ Heard(<<>>)
           /\ q # <<>> => Heard(Tail(q)) /\ Head(q).t # "closed"
<1>1. ASSUME NEW m \in Messages, m.t # "closed"
      PROVE  Heard(Append(q, m))
  <2>1. /\ DOMAIN q = 1..Len(q) /\ DOMAIN Append(q, m) = 1..(Len(q) + 1) /\ Len(q) \in Nat
        /\ \A i \in DOMAIN q : Append(q, m)[i] = q[i]
        /\ Append(q, m)[Len(q) + 1] = m
    BY AppendFacts
  <2> QED
    BY <1>1, <2>1 DEF Heard
<1>2. q # <<>> => Heard(Tail(q)) /\ Head(q).t # "closed"
  BY TailFacts DEF Heard
<1> QED
  BY <1>1, <1>2 DEF Heard

LEMMA ChannelTalk ==
    ASSUME NEW q \in Seq(Messages), NEW r
    PROVE  /\ NoTalk(<<>>) /\ (NoTalk(q) => OneTalk(q, r))
           /\ \A m \in Messages : ~Talk(m) =>
                (NoTalk(q) => NoTalk(Append(q, m))) /\ (OneTalk(q, r) => OneTalk(Append(q, m), r))
           /\ \A m \in Messages : NoTalk(q) /\ m.r = r => OneTalk(Append(q, m), r)
           /\ q # <<>> =>
                /\ Head(q) \in Messages /\ Tail(q) \in Seq(Messages)
                /\ NoTalk(q) => NoTalk(Tail(q)) /\ ~Talk(Head(q))
                /\ OneTalk(q, r) => OneTalk(Tail(q), r)
                /\ OneTalk(q, r) /\ Talk(Head(q)) => NoTalk(Tail(q)) /\ Head(q).r = r
<1>1. ASSUME NEW m \in Messages
      PROVE  /\ DOMAIN q = 1..Len(q) /\ DOMAIN Append(q, m) = 1..(Len(q) + 1) /\ Len(q) \in Nat
             /\ \A i \in DOMAIN q : Append(q, m)[i] = q[i]
             /\ Append(q, m)[Len(q) + 1] = m
  BY AppendFacts
<1>2. ASSUME NEW m \in Messages, ~Talk(m)
      PROVE  (NoTalk(q) => NoTalk(Append(q, m))) /\ (OneTalk(q, r) => OneTalk(Append(q, m), r))
  <2>1. ASSUME NEW i \in DOMAIN Append(q, m), Talk(Append(q, m)[i])
        PROVE  i \in DOMAIN q /\ Append(q, m)[i] = q[i]
    BY <1>1, <1>2, <2>1
  <2> QED
    BY <2>1 DEF NoTalk, OneTalk
<1>3. ASSUME NEW m \in Messages, NoTalk(q), m.r = r PROVE OneTalk(Append(q, m), r)
  <2>1. ASSUME NEW i \in DOMAIN Append(q, m), Talk(Append(q, m)[i])
        PROVE  i = Len(q) + 1
    BY <1>1, <1>3, <2>1 DEF NoTalk
  <2> QED
    BY <1>1, <1>3, <2>1 DEF OneTalk
<1>4. ASSUME q # <<>>
      PROVE  /\ Head(q) \in Messages /\ Tail(q) \in Seq(Messages) /\ Head(q) = q[1] /\ 1 \in DOMAIN q
             /\ \A i \in DOMAIN Tail(q) : /\ i + 1 \in DOMAIN q /\ Tail(q)[i] = q[i + 1]
                                          /\ i \in Nat /\ i + 1 # 1
             /\ DOMAIN Tail(q) \subseteq Nat
  BY <1>4, TailFacts
<1>5. ASSUME q # <<>>, NoTalk(q) PROVE NoTalk(Tail(q)) /\ ~Talk(Head(q))
  BY <1>4, <1>5 DEF NoTalk
<1>6. ASSUME q # <<>>, OneTalk(q, r) PROVE OneTalk(Tail(q), r)
  <2>1. ASSUME NEW i \in DOMAIN Tail(q), Talk(Tail(q)[i])
        PROVE  /\ Tail(q)[i].r = r
               /\ \A j \in DOMAIN Tail(q) : Talk(Tail(q)[j]) => j = i
    <3>1. Talk(q[i + 1]) /\ i + 1 \in DOMAIN q /\ i \in Nat
      BY <1>4, <1>6, <2>1
    <3>2. /\ q[i + 1].r = r /\ \A j \in DOMAIN q : Talk(q[j]) => j = i + 1
      BY <1>6, <3>1 DEF OneTalk
    <3>3. ASSUME NEW j \in DOMAIN Tail(q), Talk(Tail(q)[j]) PROVE j = i
      <4>1. j + 1 \in DOMAIN q /\ Talk(q[j + 1]) /\ j \in Nat
        BY <1>4, <1>6, <3>3
      <4> QED
        BY <3>1, <3>2, <4>1
    <3> QED
      BY <3>2, <3>3, <1>4, <1>6
  <2> QED
    BY <2>1 DEF OneTalk
<1>7. ASSUME q # <<>>, OneTalk(q, r), Talk(Head(q)) PROVE NoTalk(Tail(q)) /\ Head(q).r = r
  <2>1. q[1].r = r /\ \A j \in DOMAIN q : Talk(q[j]) => j = 1
    BY <1>4, <1>7 DEF OneTalk
  <2> QED
    BY <1>4, <1>7, <2>1 DEF NoTalk
<1>8. NoTalk(<<>>) /\ (NoTalk(q) => OneTalk(q, r))
  BY DEF NoTalk, OneTalk
<1> QED
  BY <1>2, <1>3, <1>4, <1>5, <1>6, <1>7, <1>8

-----------------------------------------------------------------------------
(* The types of the requests are kept.                                      *)
LEMMA RequestTyped ==
    ASSUME ControlSeatAssumption, SeatInv, [Next]_vars
    PROVE  request' \in [Reqs -> RequestSet]
<1>0. /\ request \in [Reqs -> RequestSet] /\ requester \in [Requesters -> RequesterSet]
  BY DEF SeatInv, SeatTypes
<1>f. \A R : \A s \in States : Told(R, s) \in [Reqs -> RequestSet]
  BY <1>0, ToldFacts
<1>s. {"Rejected", "ConfirmationUnavailable", "OutcomeUnavailable", "Applied", "Awaiting"} \subseteq States
  BY DEF States
<1>1. CASE UNCHANGED request
  BY <1>1, <1>0, <1>f, <1>s
<1>2. ASSUME NEW p \in Requesters, Requester(p) \/ (\E t \in Targets : Ask(p, t))
      PROVE  request' \in [Reqs -> RequestSet]
  <2>1. CASE Open(p)
    BY <2>1, <1>0, <1>f, <1>s DEF Open, CloseSeat, Invalidate
  <2>2. CASE Spawn(p)
    BY <2>2, <1>0, <1>f, <1>s DEF Spawn, Invalidate
  <2>3. CASE Accept(p)
    <3>1. CASE request' = Told(Late, "Rejected")
      BY <3>1, <1>f, <1>s
    <3>2. ASSUME NEW r \in Reqs,
                 request' = [[s \in Reqs |-> IF s \in Retired(Settled \cup Late)
                                             THEN [Told(Late, "Rejected")[s] EXCEPT !.state = "retired"]
                                             ELSE Told(Late, "Rejected")[s]]
                    EXCEPT ![r] = [state |-> IF seat # 0 THEN "Awaiting" ELSE "ConfirmationUnavailable",
                                   target |-> requester[p].target]]
          PROVE  request' \in [Reqs -> RequestSet]
      <4>1. requester[p].target \in Targets \cup {None}
        BY <1>0 DEF RequesterSet
      <4>2. [state |-> IF seat # 0 THEN "Awaiting" ELSE "ConfirmationUnavailable",
             target |-> requester[p].target] \in RequestSet
        BY <4>1, <1>s DEF RequestSet
      <4>3. \A s \in Reqs : Told(Late, "Rejected")[s] \in RequestSet
                            /\ [Told(Late, "Rejected")[s] EXCEPT !.state = "retired"] \in RequestSet
        <5>1. \A x \in RequestSet : [x EXCEPT !.state = "retired"] \in RequestSet
          BY DEF RequestSet
        <5>2. \A s \in Reqs : Told(Late, "Rejected")[s] \in RequestSet
          BY <1>f, <1>s
        <5> QED
          BY <5>1, <5>2
      <4> QED
        BY <3>2, <4>2, <4>3
    <3> QED
      BY <2>3, <3>1, <3>2 DEF Accept
  <2>4. CASE Mint(p)
    BY <2>4, <1>0, <1>f, <1>s DEF Mint
  <2>5. CASE Status(p)
    BY <2>5, <1>0, <1>f, <1>s DEF Status, SettleExpired
  <2>6. CASE (\E t \in Targets : Ask(p, t))
    BY <2>6, <1>1 DEF Ask
  <2> QED
    BY <1>2, <2>1, <2>2, <2>3, <2>4, <2>5, <2>6 DEF Requester
<1>3. ASSUME NEW g \in Gens, Serve(g) \/ EndServing(g) \/ Desktop(g)
      PROVE  request' \in [Reqs -> RequestSet]
  <2>1. CASE EndServing(g)
    BY <2>1, <1>0, <1>f, <1>s DEF EndServing, CloseSeat, Invalidate
  <2>2. CASE \/ Serve(g) \/ (\E t \in Targets : Begin(g, t)) \/ Answered(g)
             \/ ReadChallenge(g) \/ Confirm(g) \/ Dismiss(g) \/ ReadOutcome(g)
             \/ GiveUp(g) \/ Exit(g)
    BY <2>2, <1>1
       DEF Serve, Begin, Answered, ReadChallenge, Confirm, Dismiss, ReadOutcome,
           GiveUp, Exit
  <2> QED
    BY <1>3, <2>1, <2>2 DEF Desktop
<1>4. ASSUME NEW k \in tasks, Task(k)
      PROVE  request' \in [Reqs -> RequestSet]
  <2>1. CASE Take(k)
    BY <2>1, <1>0, <1>f, <1>s DEF Take
  <2>2. CASE Reject(k)
    BY <2>2, <1>0, <1>f, <1>s DEF Reject
  <2>3. CASE RejectRequest(k)
    BY <2>3, <1>0, <1>f, <1>s DEF RejectRequest
  <2>4. CASE StageSecret(k)
    BY <2>4, <1>0, <1>f, <1>s DEF StageSecret
  <2>5. CASE Settle(k)
    BY <2>5, <1>0, <1>f, <1>s DEF Settle, TaskSet
  <2>6. CASE \/ Execute(k) \/ ConfirmDeletion(k) \/ StartConfirmed(k)
    BY <2>6, <1>1 DEF Execute, ConfirmDeletion, StartConfirmed
  <2> QED
    BY <1>4, <2>1, <2>2, <2>3, <2>4, <2>5, <2>6 DEF Task
<1> QED
  BY <1>1, <1>2, <1>3, <1>4
     DEF Next, vars, Expire, Restate, Unheard, BeginJoin, Joined

(* The types of the sessions.                                               *)
LEMMA SessionTyped ==
    ASSUME ControlSeatAssumption, SeatInv, [Next]_vars
    PROVE  session' \in [Reqs -> SessionSet]
<1>0. /\ session \in [Reqs -> SessionSet] /\ seat \in 0..MaxSeats
  BY DEF SeatInv, SeatTypes
<1>f. \A R : Without(R) \in [Reqs -> SessionSet]
  BY <1>0, WithoutFacts
<1>1. CASE UNCHANGED session
  BY <1>1, <1>0, <1>f
<1>2. ASSUME NEW p \in Requesters, Requester(p) \/ (\E t \in Targets : Ask(p, t))
      PROVE  session' \in [Reqs -> SessionSet]
  <2>1. CASE Open(p)
    BY <2>1, <1>0, <1>f DEF Open, CloseSeat, Invalidate
  <2>2. CASE Spawn(p)
    BY <2>2, <1>0, <1>f DEF Spawn, Invalidate
  <2>3. CASE Accept(p)
    BY <2>3, <1>0, <1>f DEF Accept
  <2>4. CASE Mint(p)
    <3>1. ASSUME NEW r \in Reqs, NEW s \in 0..MaxSeats
          PROVE  [session EXCEPT ![r] = [NoSession EXCEPT !.gen = s]] \in [Reqs -> SessionSet]
      <4>1. [NoSession EXCEPT !.gen = s] \in SessionSet
        BY DEF NoSession, SessionSet
      <4> QED
        BY <4>1, <1>0
    <3> QED
      BY <2>4, <3>1, <1>0 DEF Mint
  <2>5. CASE Status(p)
    BY <2>5, <1>0, <1>f DEF Status, SettleExpired
  <2>6. CASE (\E t \in Targets : Ask(p, t))
    BY <2>6, <1>1 DEF Ask
  <2> QED
    BY <1>2, <2>1, <2>2, <2>3, <2>4, <2>5, <2>6 DEF Requester
<1>3. ASSUME NEW g \in Gens, Serve(g) \/ EndServing(g) \/ Desktop(g)
      PROVE  session' \in [Reqs -> SessionSet]
  <2>1. CASE EndServing(g)
    BY <2>1, <1>0, <1>f DEF EndServing, CloseSeat, Invalidate
  <2>2. CASE \/ Serve(g) \/ (\E t \in Targets : Begin(g, t)) \/ Answered(g)
             \/ ReadChallenge(g) \/ Confirm(g) \/ Dismiss(g) \/ ReadOutcome(g)
             \/ GiveUp(g) \/ Exit(g)
    BY <2>2, <1>1
       DEF Serve, Begin, Answered, ReadChallenge, Confirm, Dismiss, ReadOutcome,
           GiveUp, Exit
  <2> QED
    BY <1>3, <2>1, <2>2 DEF Desktop
<1>4. ASSUME NEW k \in tasks, Task(k)
      PROVE  session' \in [Reqs -> SessionSet]
  <2>1. CASE Take(k)
    BY <2>1, <1>0, <1>f DEF Take
  <2>2. CASE Reject(k)
    BY <2>2, <1>0, <1>f DEF Reject
  <2>3. CASE StageSecret(k)
    <3>1. k.r \in Reqs => [session[k.r] EXCEPT !.secret = TRUE] \in SessionSet
      BY <1>0 DEF SessionSet
    <3> QED
      BY <2>3, <3>1, <1>0, <1>f DEF StageSecret
  <2>4. CASE \/ RejectRequest(k) \/ Execute(k) \/ ConfirmDeletion(k)
             \/ StartConfirmed(k) \/ Settle(k)
    BY <2>4, <1>1
       DEF RejectRequest, Execute, ConfirmDeletion, StartConfirmed, Settle
  <2> QED
    BY <1>4, <2>1, <2>2, <2>3, <2>4 DEF Task
<1>5. ASSUME NEW r \in Reqs, Expire(r)
      PROVE  session' \in [Reqs -> SessionSet]
  <3>1. [session[r] EXCEPT !.late = TRUE] \in SessionSet
    BY <1>0 DEF SessionSet
  <3> QED
    BY <1>5, <3>1, <1>0 DEF Expire
<1> QED
  BY <1>1, <1>2, <1>3, <1>4, <1>5
     DEF Next, vars, Restate, Unheard, BeginJoin, Joined

(* The types of the requesters.                                             *)
LEMMA RequesterTyped ==
    ASSUME ControlSeatAssumption, SeatInv, [Next]_vars
    PROVE  requester' \in [Requesters -> RequesterSet]
<1>0. /\ requester \in [Requesters -> RequesterSet] /\ 0 \in 0..MaxRequests /\ Reqs \subseteq 0..MaxRequests
       /\ Desk \in Requesters
  BY DEF SeatInv, SeatTypes, ControlSeatAssumption, Reqs
<1>1. CASE UNCHANGED requester
  BY <1>1, <1>0 DEF RequesterSet, Pcs
<1>2. ASSUME NEW p \in Requesters, Requester(p) \/ (\E t \in Targets : Ask(p, t))
      PROVE  requester' \in [Requesters -> RequesterSet]
  <2>1. CASE Open(p)
    BY <2>1, <1>0 DEF Open, Goes, RequesterSet, Pcs
  <2>2. CASE Spawn(p)
    BY <2>2, <1>0 DEF Spawn, Goes, RequesterSet, Pcs
  <2>3. CASE Accept(p)
    BY <2>3, <1>0 DEF Accept, Goes, RequesterSet, Pcs
  <2>4. CASE Mint(p)
    BY <2>4, <1>0 DEF Mint, Goes, RequesterSet, Pcs
  <2>5. CASE Status(p)
    BY <2>5, <1>0 DEF Status, Asking, RequesterSet, Pcs
  <2>6. ASSUME NEW t \in Targets, Ask(p, t)
        PROVE  requester' \in [Requesters -> RequesterSet]
    BY <2>6, <1>0 DEF Ask, RequesterSet, Pcs
  <2> QED
    BY <1>2, <2>1, <2>2, <2>3, <2>4, <2>5, <2>6 DEF Requester
<1>3. ASSUME NEW g \in Gens, Serve(g) \/ EndServing(g) \/ Desktop(g)
      PROVE  requester' \in [Requesters -> RequesterSet]
  <2>1. CASE Answered(g)
    BY <2>1, <1>0 DEF Answered, Asking, RequesterSet, Pcs
  <2>2. CASE \/ Serve(g) \/ EndServing(g) \/ (\E t \in Targets : Begin(g, t))
             \/ ReadChallenge(g) \/ Confirm(g) \/ Dismiss(g) \/ ReadOutcome(g)
             \/ GiveUp(g) \/ Exit(g)
    BY <2>2, <1>1
       DEF Serve, EndServing, Begin, ReadChallenge, Confirm, Dismiss,
           ReadOutcome, GiveUp, Exit
  <2> QED
    BY <1>3, <2>1, <2>2 DEF Desktop
<1>4. ASSUME NEW k \in tasks, Task(k)
      PROVE  requester' \in [Requesters -> RequesterSet]
  BY <1>4, <1>1
     DEF Task, Take, Reject, RejectRequest, StageSecret, Execute,
         ConfirmDeletion, StartConfirmed, Settle
<1>5. CASE Unheard
  BY <1>5, <1>0 DEF Unheard, Asking, RequesterSet, Pcs
<1> QED
  BY <1>1, <1>2, <1>3, <1>4, <1>5
     DEF Next, vars, Expire, Restate, BeginJoin, Joined

(* The types of the seat, its desktop and its opener.                       *)
LEMMA SmallTyped ==
    ASSUME ControlSeatAssumption, SeatInv, [Next]_vars
    PROVE  /\ seat' \in 0..MaxSeats /\ child' \in 0..MaxSeats
           /\ opener' \in Requesters \cup {None} /\ waits' \in Nat
<1>0. /\ seat \in 0..MaxSeats /\ child \in 0..MaxSeats /\ opener \in Requesters \cup {None} /\ waits \in Nat
       /\ 0 \in 0..MaxSeats /\ Gens \subseteq 0..MaxSeats
  BY DEF SeatInv, SeatTypes, ControlSeatAssumption, Gens
<1>1. CASE UNCHANGED <<seat, child, opener, waits>>
  BY <1>1, <1>0
<1>2. ASSUME NEW p \in Requesters, Requester(p) \/ (\E t \in Targets : Ask(p, t))
      PROVE  /\ seat' \in 0..MaxSeats /\ child' \in 0..MaxSeats
           /\ opener' \in Requesters \cup {None} /\ waits' \in Nat
  <2>1. CASE Open(p)
    BY <2>1, <1>0 DEF Open, CloseSeat, guiVars
  <2>2. CASE Spawn(p)
    BY <2>2, <1>0 DEF Spawn
  <2>3. CASE \/ Accept(p) \/ Mint(p) \/ Status(p)
             \/ (\E t \in Targets : Ask(p, t))
    BY <2>3, <1>1 DEF Accept, Mint, Status, Ask, seatVars, guiVars
  <2> QED
    BY <1>2, <2>1, <2>2, <2>3 DEF Requester
<1>3. ASSUME NEW g \in Gens, Serve(g) \/ EndServing(g) \/ Desktop(g)
      PROVE  /\ seat' \in 0..MaxSeats /\ child' \in 0..MaxSeats
           /\ opener' \in Requesters \cup {None} /\ waits' \in Nat
  <2>1. CASE EndServing(g)
    BY <2>1, <1>0 DEF EndServing, CloseSeat, guiVars
  <2>2. CASE GiveUp(g)
    BY <2>2, <1>0 DEF GiveUp, seatVars
  <2>3. CASE \/ Serve(g) \/ (\E t \in Targets : Begin(g, t)) \/ Answered(g)
             \/ ReadChallenge(g) \/ Confirm(g) \/ Dismiss(g) \/ ReadOutcome(g)
             \/ Exit(g)
    BY <2>3, <1>1
       DEF Serve, Begin, Answered, ReadChallenge, Confirm, Dismiss, ReadOutcome,
           Exit, seatVars
  <2> QED
    BY <1>3, <2>1, <2>2, <2>3 DEF Desktop
<1>4. ASSUME NEW k \in tasks, Task(k)
      PROVE  /\ seat' \in 0..MaxSeats /\ child' \in 0..MaxSeats
           /\ opener' \in Requesters \cup {None} /\ waits' \in Nat
  BY <1>4, <1>1
     DEF Task, Take, Reject, RejectRequest, StageSecret, Execute,
         ConfirmDeletion, StartConfirmed, Settle, seatVars, guiVars
<1> QED
  BY <1>1, <1>2, <1>3, <1>4
     DEF Next, vars, Expire, Restate, Unheard, BeginJoin, Joined, seatVars,
         guiVars

(* The types of the stop, the effects and the deletions.                    *)
LEMMA StopTyped ==
    ASSUME ControlSeatAssumption, SeatInv, [Next]_vars
    PROVE  /\ stop' \in {"no", "stopping", "joined"} /\ effects' \subseteq Reqs
           /\ deletion' \in [Deletions -> [row : {"staged", "confirmed", "started"}, starts : Nat]]
<1>0. /\ stop \in {"no", "stopping", "joined"} /\ effects \subseteq Reqs /\ tasks \subseteq TaskSet
       /\ deletion \in [Deletions -> [row : {"staged", "confirmed", "started"}, starts : Nat]]
       /\ request \in [Reqs -> RequestSet]
  BY DEF SeatInv, SeatTypes
<1>1. CASE UNCHANGED <<stop, effects, deletion>>
  BY <1>1, <1>0
<1>2. ASSUME NEW p \in Requesters, Requester(p) \/ (\E t \in Targets : Ask(p, t))
      PROVE  /\ stop' \in {"no", "stopping", "joined"} /\ effects' \subseteq Reqs
           /\ deletion' \in [Deletions -> [row : {"staged", "confirmed", "started"}, starts : Nat]]
  BY <1>2, <1>1 DEF Requester, Open, Spawn, Accept, Mint, Status, Ask
<1>3. ASSUME NEW g \in Gens, Serve(g) \/ EndServing(g) \/ Desktop(g)
      PROVE  /\ stop' \in {"no", "stopping", "joined"} /\ effects' \subseteq Reqs
           /\ deletion' \in [Deletions -> [row : {"staged", "confirmed", "started"}, starts : Nat]]
  BY <1>3, <1>1
     DEF Desktop, Serve, EndServing, Begin, Answered, ReadChallenge, Confirm,
         Dismiss, ReadOutcome, GiveUp, Exit
<1>4. ASSUME NEW k \in tasks, Task(k)
      PROVE  /\ stop' \in {"no", "stopping", "joined"} /\ effects' \subseteq Reqs
           /\ deletion' \in [Deletions -> [row : {"staged", "confirmed", "started"}, starts : Nat]]
  <2>1. CASE Execute(k)
    BY <2>1, <1>0 DEF Execute, TaskSet
  <2>2. CASE ConfirmDeletion(k)
    BY <2>2, <1>0 DEF ConfirmDeletion, TaskSet
  <2>3. CASE StartConfirmed(k)
    BY <2>3, <1>0 DEF StartConfirmed, StartDeletion, TaskSet
  <2>4. CASE \/ Take(k) \/ Reject(k) \/ RejectRequest(k) \/ StageSecret(k)
             \/ Settle(k)
    BY <2>4, <1>1 DEF Take, Reject, RejectRequest, StageSecret, Settle
  <2> QED
    BY <1>4, <2>1, <2>2, <2>3, <2>4 DEF Task
<1>5. ASSUME NEW d \in Deletions, Restate(d)
      PROVE  /\ stop' \in {"no", "stopping", "joined"} /\ effects' \subseteq Reqs
           /\ deletion' \in [Deletions -> [row : {"staged", "confirmed", "started"}, starts : Nat]]
  BY <1>5, <1>0 DEF Restate, StartDeletion
<1>6. CASE BeginJoin
  BY <1>6, <1>0 DEF BeginJoin
<1>7. CASE Joined
  BY <1>7, <1>0 DEF Joined
<1> QED
  BY <1>1, <1>2, <1>3, <1>4, <1>5, <1>6, <1>7 DEF Next, vars, Expire, Unheard

(* The types of the threads.                                                *)
LEMMA ServedTyped ==
    ASSUME ControlSeatAssumption, SeatInv, [Next]_vars
    PROVE  served' \in [Gens -> {"none", "run", "ending", "done"}]
<1>0. served \in [Gens -> {"none", "run", "ending", "done"}]
  BY DEF SeatInv, SeatTypes
<1>1. CASE UNCHANGED served
  BY <1>1, <1>0
<1>2. ASSUME NEW p \in Requesters, Requester(p) \/ (\E t \in Targets : Ask(p, t))
      PROVE  served' \in [Gens -> {"none", "run", "ending", "done"}]
  <2>1. CASE Spawn(p)
    BY <2>1, <1>0 DEF Spawn
  <2>2. CASE \/ Open(p) \/ Accept(p) \/ Mint(p) \/ Status(p)
             \/ (\E t \in Targets : Ask(p, t))
    BY <2>2, <1>1 DEF Open, Accept, Mint, Status, Ask
  <2> QED
    BY <1>2, <2>1, <2>2 DEF Requester
<1>3. ASSUME NEW g \in Gens, Serve(g) \/ EndServing(g) \/ Desktop(g)
      PROVE  served' \in [Gens -> {"none", "run", "ending", "done"}]
  <2>1. CASE Serve(g)
    BY <2>1, <1>0 DEF Serve
  <2>2. CASE EndServing(g)
    BY <2>2, <1>0 DEF EndServing
  <2>3. CASE \/ (\E t \in Targets : Begin(g, t)) \/ Answered(g)
             \/ ReadChallenge(g) \/ Confirm(g) \/ Dismiss(g) \/ ReadOutcome(g)
             \/ GiveUp(g) \/ Exit(g)
    BY <2>3, <1>1
       DEF Begin, Answered, ReadChallenge, Confirm, Dismiss, ReadOutcome, GiveUp,
           Exit
  <2> QED
    BY <1>3, <2>1, <2>2, <2>3 DEF Desktop
<1>4. ASSUME NEW k \in tasks, Task(k)
      PROVE  served' \in [Gens -> {"none", "run", "ending", "done"}]
  BY <1>4, <1>1
     DEF Task, Take, Reject, RejectRequest, StageSecret, Execute,
         ConfirmDeletion, StartConfirmed, Settle
<1> QED
  BY <1>1, <1>2, <1>3, <1>4
     DEF Next, vars, Expire, Restate, Unheard, BeginJoin, Joined

(* The types of the desktops.                                               *)
LEMMA GuiTyped ==
    ASSUME ControlSeatAssumption, SeatInv, [Next]_vars
    PROVE  gui' \in [Gens -> GuiSet]
<1>0. gui \in [Gens -> GuiSet] /\ incoming \in [Gens -> Seq(Messages)]
  BY DEF SeatInv, SeatTypes
<1>a. \A g \in Gens : gui[g] \in GuiSet
  BY <1>0
<1>b. \A x \in GuiSet, g \in Gens : [gui EXCEPT ![g] = x] \in [Gens -> GuiSet]
  BY <1>0
<1>c. \A w \in {"idle", "asking", "challenge", "outcome", "staged"} : w \in Waits
  BY DEF Waits
<1>d. 0 \in 0..MaxRequests /\ Reqs \subseteq 0..MaxRequests
  BY DEF ControlSeatAssumption, Reqs
<1>1. CASE UNCHANGED gui
  BY <1>1, <1>0
<1>2. ASSUME NEW p \in Requesters, Requester(p) \/ (\E t \in Targets : Ask(p, t))
      PROVE  gui' \in [Gens -> GuiSet]
  <2>1. CASE Spawn(p)
    <3>1. \A h \in Gens : [gui EXCEPT ![h].alive = TRUE] \in [Gens -> GuiSet]
      BY <1>a, <1>b, GuiForms
    <3> QED
      BY <2>1, <3>1, <1>0 DEF Spawn
  <2>2. CASE \/ Open(p) \/ Accept(p) \/ Mint(p) \/ Status(p)
             \/ (\E t \in Targets : Ask(p, t))
    BY <2>2, <1>1 DEF Open, Accept, Mint, Status, Ask, guiVars
  <2> QED
    BY <1>2, <2>1, <2>2 DEF Requester
<1>3. ASSUME NEW g \in Gens, Serve(g) \/ EndServing(g) \/ Desktop(g)
      PROVE  gui' \in [Gens -> GuiSet]
  <2>1. ASSUME NEW t \in Targets, Begin(g, t)
        PROVE  gui' \in [Gens -> GuiSet]
    BY <2>1, <1>a, <1>b, GuiForms DEF Begin
  <2>2. CASE Answered(g)
    BY <2>2, <1>a, <1>b, <1>c, GuiForms DEF Answered
  <2>3. CASE ReadChallenge(g)
    <3>0. Head(incoming[g]) \in Messages
      BY <2>3, <1>0, ChannelForms DEF ReadChallenge
    <3>1. Head(incoming[g]).t = "challenge" => Head(incoming[g]).r \in Reqs
      BY <3>0, MessageShape
    <3>2. /\ [gui[g] EXCEPT !.wait = "idle"] \in GuiSet
          /\ \A r \in Reqs : [Presents(g, r) EXCEPT !.wait = "idle"] \in GuiSet
          /\ \A r \in Reqs : Deferring(g, r) \in GuiSet
      BY <1>0, <1>a, <1>c, GuiForms, DeskForms
    <3>3. \/ gui' = [gui EXCEPT ![g] = [gui[g] EXCEPT !.wait = "idle"]]
          \/ /\ Head(incoming[g]).t = "challenge"
             /\ \/ gui' = [gui EXCEPT ![g] = [Presents(g, Head(incoming[g]).r) EXCEPT !.wait = "idle"]]
                \/ gui' = [gui EXCEPT ![g] = Deferring(g, Head(incoming[g]).r)]
      <4>1. CASE Head(incoming[g]).t # "challenge"
        BY <2>3, <4>1 DEF ReadChallenge
      <4>2. CASE Head(incoming[g]).t = "challenge"
        <5>1. CASE Kind(request[Head(incoming[g]).r].target) = Kind(gui[g].expects)
          BY <2>3, <4>2, <5>1 DEF ReadChallenge
        <5>2. CASE Kind(request[Head(incoming[g]).r].target) # Kind(gui[g].expects)
          BY <2>3, <4>2, <5>2 DEF ReadChallenge
        <5> QED
          BY <5>1, <5>2
      <4> QED
        BY <4>1, <4>2
    <3> QED
      BY <3>1, <3>2, <3>3, <1>b
  <2>4. CASE Confirm(g)
    <3>1. Shown(g) \in Reqs /\ Taken(g) \in GuiSet
      BY <2>4, <1>0, DeskForms DEF Confirm
    <3>2. \A w \in Waits : [Taken(g) EXCEPT !.wait = w, !.of = Shown(g)] \in GuiSet
      BY <3>1, <1>d, GuiForms
    <3> QED
      BY <2>4, <3>2, <1>b, <1>c DEF Confirm
  <2>5. CASE Dismiss(g)
    <3>1. Shown(g) \in Reqs /\ Taken(g) \in GuiSet
      BY <2>5, <1>0, DeskForms DEF Dismiss
    <3>2. [Taken(g) EXCEPT !.wait = "outcome", !.of = Shown(g)] \in GuiSet
      BY <3>1, <1>c, <1>d, GuiForms
    <3> QED
      BY <2>5, <3>2, <1>b DEF Dismiss
  <2>6. CASE ReadOutcome(g)
    <3>0. Head(incoming[g]) \in Messages
      BY <2>6, <1>0, ChannelForms DEF ReadOutcome
    <3>1. Head(incoming[g]).t = "challenge" => Head(incoming[g]).r \in Reqs
      BY <3>0, MessageShape
    <3>2. /\ [gui[g] EXCEPT !.wait = "outcome"] \in GuiSet
          /\ [gui[g] EXCEPT !.wait = "idle", !.of = 0] \in GuiSet
          /\ \A r \in Reqs : Presents(g, r) \in GuiSet
      BY <1>0, <1>a, <1>c, <1>d, GuiForms, DeskForms
    <3> QED
      BY <2>6, <3>1, <3>2, <1>b DEF ReadOutcome
  <2>7. CASE GiveUp(g)
    <3>1. [gui[g] EXCEPT !.wait = "idle", !.of = 0] \in GuiSet
      BY <1>a, <1>c, <1>d, GuiForms
    <3>2. gui' = [gui EXCEPT ![g] = [gui[g] EXCEPT !.wait = "idle", !.of = 0]]
      BY <2>7, <1>0 DEF GiveUp, GuiSet
    <3> QED
      BY <3>1, <3>2, <1>b
  <2>8. CASE Exit(g)
    BY <2>8, <1>a, <1>b, GuiForms DEF Exit
  <2>9. CASE \/ Serve(g) \/ EndServing(g)
    BY <2>9, <1>1 DEF Serve, EndServing, guiVars
  <2> QED
    BY <1>3, <2>1, <2>2, <2>3, <2>4, <2>5, <2>6, <2>7, <2>8, <2>9 DEF Desktop
<1>4. ASSUME NEW k \in tasks, Task(k)
      PROVE  gui' \in [Gens -> GuiSet]
  BY <1>4, <1>1
     DEF Task, Take, Reject, RejectRequest, StageSecret, Execute,
         ConfirmDeletion, StartConfirmed, Settle, guiVars
<1> QED
  BY <1>1, <1>2, <1>3, <1>4
     DEF Next, vars, Expire, Restate, Unheard, BeginJoin, Joined, guiVars

(* The types of the tasks.                                                  *)
LEMMA TasksTyped ==
    ASSUME ControlSeatAssumption, SeatInv, [Next]_vars
    PROVE  tasks' \subseteq TaskSet
<1>0. /\ tasks \subseteq TaskSet /\ events \in [Gens -> Seq(Messages)]
  BY DEF SeatInv, SeatTypes
<1>a. \A k \in tasks, pc \in TaskPcs : [kind |-> k.kind, r |-> k.r, g |-> k.g, pc |-> pc] \in TaskSet
  BY <1>0, TaskForms
<1>b. \A pc \in {"execute", "refuse", "rejected", "start", "settle", "unknown"} : pc \in TaskPcs
  BY DEF TaskPcs
<1>1. CASE UNCHANGED tasks
  BY <1>1, <1>0, <1>a, <1>b
<1>2. ASSUME NEW p \in Requesters, Requester(p) \/ (\E t \in Targets : Ask(p, t))
      PROVE  tasks' \subseteq TaskSet
  BY <1>2, <1>1 DEF Requester, Open, Spawn, Accept, Mint, Status, Ask
<1>3. ASSUME NEW g \in Gens, Serve(g) \/ EndServing(g) \/ Desktop(g)
      PROVE  tasks' \subseteq TaskSet
  <2>1. CASE Serve(g)
    <3>0. events[g] # <<>> => Head(events[g]) \in Messages
      BY <1>0, ChannelForms
    <3>1. \A m \in Messages : m.t = "inbound" => m.r \in Reqs /\ m.kind \in Kinds
      BY MessageShape
    <3>2. \A kind \in Kinds, r \in Reqs : Frame(kind, r, g) \in TaskSet
      BY DEF Frame, TaskSet, TaskPcs
    <3> QED
      BY <2>1, <3>0, <3>1, <3>2, <1>0 DEF Serve, Dispatch
  <2>2. CASE \/ EndServing(g) \/ (\E t \in Targets : Begin(g, t))
             \/ Answered(g) \/ ReadChallenge(g) \/ Confirm(g) \/ Dismiss(g)
             \/ ReadOutcome(g) \/ GiveUp(g) \/ Exit(g)
    BY <2>2, <1>1
       DEF EndServing, Begin, Answered, ReadChallenge, Confirm, Dismiss,
           ReadOutcome, GiveUp, Exit
  <2> QED
    BY <1>3, <2>1, <2>2 DEF Desktop
<1>4. ASSUME NEW k \in tasks, Task(k)
      PROVE  tasks' \subseteq TaskSet
  <2>1. CASE Take(k)
    BY <2>1, <1>0, <1>a, <1>b DEF Take, Step, Reply
  <2>2. CASE Reject(k)
    BY <2>2, <1>0, <1>a, <1>b DEF Reject, Step, Reply
  <2>3. CASE RejectRequest(k)
    BY <2>3, <1>0, <1>a, <1>b DEF RejectRequest, Reply
  <2>4. CASE StageSecret(k)
    BY <2>4, <1>0, <1>a, <1>b DEF StageSecret, Reply
  <2>5. CASE Execute(k)
    BY <2>5, <1>0, <1>a, <1>b DEF Execute, Step
  <2>6. CASE ConfirmDeletion(k)
    BY <2>6, <1>0, <1>a, <1>b DEF ConfirmDeletion, Step
  <2>7. CASE StartConfirmed(k)
    BY <2>7, <1>0, <1>a, <1>b DEF StartConfirmed, Step
  <2>8. CASE Settle(k)
    BY <2>8, <1>0, <1>a, <1>b DEF Settle, Reply
  <2> QED
    BY <1>4, <2>1, <2>2, <2>3, <2>4, <2>5, <2>6, <2>7, <2>8 DEF Task
<1> QED
  BY <1>1, <1>2, <1>3, <1>4
     DEF Next, vars, Expire, Restate, Unheard, BeginJoin, Joined

(* The types of the queues.                                                 *)
LEMMA EventsTyped ==
    ASSUME ControlSeatAssumption, SeatInv, [Next]_vars
    PROVE  events' \in [Gens -> Seq(Messages)]
<1>0. /\ events \in [Gens -> Seq(Messages)] /\ requester \in [Requesters -> RequesterSet]
       /\ tasks \subseteq TaskSet /\ seat \in 0..MaxSeats /\ gui \in [Gens -> GuiSet]
  BY DEF SeatInv, SeatTypes
<1>a. \A g \in Gens, m \in Messages : [events EXCEPT ![g] = Append(@, m)] \in [Gens -> Seq(Messages)]
  BY <1>0, ChannelForms
<1>b. \A k \in tasks, t \in Answers :
        k.g \in Gens /\ k.r \in Reqs /\ [t |-> t, r |-> k.r] \in Messages
  BY <1>0, TaskForms, MessageForms
<1>c. \A k \in tasks, t \in Answers : Reply(k, t) => events' \in [Gens -> Seq(Messages)]
  BY <1>0, <1>a, <1>b DEF Reply
<1>d. {"denied", "staged", "outcome", "unavailable"} = Answers
  BY DEF Answers
<1>e. \A g \in Gens, kind \in Kinds, r \in Reqs :
        Sends(g, kind, r) => events' \in [Gens -> Seq(Messages)]
  BY <1>a, MessageForms DEF Sends
<1>g. "complete" \in Kinds /\ "reject" \in Kinds /\ "secret" \in Kinds
  BY DEF Kinds
<1>1. CASE UNCHANGED events
  BY <1>1, <1>0, <1>c, <1>d
<1>2. ASSUME NEW p \in Requesters, Requester(p) \/ (\E t \in Targets : Ask(p, t))
      PROVE  events' \in [Gens -> Seq(Messages)]
  <2>1. CASE Mint(p)
    <3>1. requester[p].req \in 0..MaxRequests
      BY <1>0 DEF RequesterSet
    <3>2. requester[p].req \in Reqs
      BY <2>1, <3>1 DEF SeatInv, Minting, Mint
    <3>3. seat # 0 => seat \in Gens
      BY <1>0 DEF Gens, ControlSeatAssumption
    <3>4. [t |-> "challenge", r |-> requester[p].req] \in Messages
      BY <3>2, MessageForms
    <3>5. \/ events' = events
          \/ /\ seat # 0
             /\ events' = [events EXCEPT ![seat] = Append(@, [t |-> "challenge", r |-> requester[p].req])]
      BY <2>1 DEF Mint
    <3>6. CASE seat # 0
      <4>1. [events EXCEPT ![seat] = Append(@, [t |-> "challenge", r |-> requester[p].req])]
              \in [Gens -> Seq(Messages)]
        BY <3>3, <3>4, <3>6, <1>a
      <4> QED
        BY <3>5, <4>1, <1>0
    <3> QED
      BY <3>5, <3>6, <1>0
  <2>2. CASE \/ Open(p) \/ Spawn(p) \/ Accept(p) \/ Status(p)
             \/ (\E t \in Targets : Ask(p, t))
    BY <2>2, <1>1 DEF Open, Spawn, Accept, Status, Ask
  <2> QED
    BY <1>2, <2>1, <2>2 DEF Requester
<1>3. ASSUME NEW g \in Gens, Serve(g) \/ EndServing(g) \/ Desktop(g)
      PROVE  events' \in [Gens -> Seq(Messages)]
  <2>1. CASE Serve(g)
    <3>1. events[g] # <<>>
      BY <2>1 DEF Serve
    <3>2. /\ Head(events[g]) \in Messages
          /\ [events EXCEPT ![g] = Tail(@)] \in [Gens -> Seq(Messages)]
          /\ \A m \in Messages : [events EXCEPT ![g] = Append(Tail(@), m)] \in [Gens -> Seq(Messages)]
      BY <3>1, <1>0, ChannelForms
    <3>3. Head(events[g]).t = "inbound" => [t |-> "denied", r |-> Head(events[g]).r] \in Messages
      BY <3>2, <1>d, MessageShape, MessageForms
    <3> QED
      BY <2>1, <3>2, <3>3, <1>0 DEF Serve, Dispatch
  <2>2. CASE EndServing(g)
    BY <2>2, <1>0, ChannelForms DEF EndServing
  <2>3. CASE Confirm(g)
    <3>1. Shown(g) \in Reqs
      BY <2>3, <1>0, DeskForms DEF Confirm
    <3> QED
      BY <2>3, <3>1, <1>e, <1>g DEF Confirm
  <2>4. CASE Dismiss(g)
    <3>1. Shown(g) \in Reqs
      BY <2>4, <1>0, DeskForms DEF Dismiss
    <3> QED
      BY <2>4, <3>1, <1>e, <1>g DEF Dismiss
  <2>5. CASE ReadOutcome(g)
    <3>1. gui[g].of \in 0..MaxRequests /\ (gui[g].wait = "staged" => gui[g].of # 0)
      BY <1>0 DEF SeatInv, Named, GuiNames, GuiSet
    <3>2. gui[g].wait = "staged" => gui[g].of \in Reqs
      BY <3>1 DEF Reqs, ControlSeatAssumption
    <3> QED
      BY <2>5, <3>2, <1>0, <1>e, <1>g DEF ReadOutcome
  <2>6. CASE Exit(g)
    <3>1. [t |-> "closed", r |-> 0] \in Messages
      BY MessageForms
    <3> QED
      BY <2>6, <3>1, <1>0, <1>a DEF Exit
  <2>7. CASE \/ (\E t \in Targets : Begin(g, t)) \/ Answered(g)
             \/ ReadChallenge(g) \/ GiveUp(g)
    BY <2>7, <1>1 DEF Begin, Answered, ReadChallenge, GiveUp
  <2> QED
    BY <1>3, <2>1, <2>2, <2>3, <2>4, <2>5, <2>6, <2>7 DEF Desktop
<1>4. ASSUME NEW k \in tasks, Task(k)
      PROVE  events' \in [Gens -> Seq(Messages)]
  <2>1. CASE Take(k)
    BY <2>1, <1>0, <1>c, <1>d DEF Take
  <2>2. CASE Reject(k)
    BY <2>2, <1>0, <1>c, <1>d DEF Reject
  <2>3. CASE RejectRequest(k)
    BY <2>3, <1>0, <1>c, <1>d DEF RejectRequest
  <2>4. CASE StageSecret(k)
    BY <2>4, <1>0, <1>c, <1>d DEF StageSecret
  <2>5. CASE Settle(k)
    BY <2>5, <1>0, <1>c, <1>d DEF Settle
  <2>6. CASE \/ Execute(k) \/ ConfirmDeletion(k) \/ StartConfirmed(k)
    BY <2>6, <1>1 DEF Execute, ConfirmDeletion, StartConfirmed
  <2> QED
    BY <1>4, <2>1, <2>2, <2>3, <2>4, <2>5, <2>6 DEF Task
<1> QED
  BY <1>1, <1>2, <1>3, <1>4
     DEF Next, vars, Expire, Restate, Unheard, BeginJoin, Joined

(* The types of what is not read yet.                                       *)
LEMMA IncomingTyped ==
    ASSUME ControlSeatAssumption, SeatInv, [Next]_vars
    PROVE  incoming' \in [Gens -> Seq(Messages)]
<1>0. /\ incoming \in [Gens -> Seq(Messages)] /\ events \in [Gens -> Seq(Messages)]
  BY DEF SeatInv, SeatTypes
<1>1. CASE UNCHANGED incoming
  BY <1>1, <1>0
<1>2. ASSUME NEW p \in Requesters, Requester(p) \/ (\E t \in Targets : Ask(p, t))
      PROVE  incoming' \in [Gens -> Seq(Messages)]
  BY <1>2, <1>1 DEF Requester, Open, Spawn, Accept, Mint, Status, Ask, guiVars
<1>3. ASSUME NEW g \in Gens, Serve(g) \/ EndServing(g) \/ Desktop(g)
      PROVE  incoming' \in [Gens -> Seq(Messages)]
  <2>1. CASE Serve(g)
    <3>1. events[g] # <<>> => Head(events[g]) \in Messages
      BY <1>0, ChannelForms
    <3>2. \A m \in Messages : [incoming EXCEPT ![g] = Append(@, m)] \in [Gens -> Seq(Messages)]
      BY <1>0, ChannelForms
    <3> QED
      BY <2>1, <3>1, <3>2, <1>0 DEF Serve
  <2>2. CASE ReadChallenge(g)
    BY <2>2, <1>0, ChannelForms DEF ReadChallenge
  <2>3. CASE ReadOutcome(g)
    BY <2>3, <1>0, ChannelForms DEF ReadOutcome
  <2>4. CASE Exit(g)
    BY <2>4, <1>0, ChannelForms DEF Exit
  <2>5. CASE \/ EndServing(g) \/ (\E t \in Targets : Begin(g, t))
             \/ Answered(g) \/ Confirm(g) \/ Dismiss(g) \/ GiveUp(g)
    BY <2>5, <1>1
       DEF EndServing, Begin, Answered, Confirm, Dismiss, GiveUp, guiVars
  <2> QED
    BY <1>3, <2>1, <2>2, <2>3, <2>4, <2>5 DEF Desktop
<1>4. ASSUME NEW k \in tasks, Task(k)
      PROVE  incoming' \in [Gens -> Seq(Messages)]
  BY <1>4, <1>1
     DEF Task, Take, Reject, RejectRequest, StageSecret, Execute,
         ConfirmDeletion, StartConfirmed, Settle, guiVars
<1> QED
  BY <1>1, <1>2, <1>3, <1>4
     DEF Next, vars, Expire, Restate, Unheard, BeginJoin, Joined, guiVars

-----------------------------------------------------------------------------
(* A request whose session was minted stays so, and keeps its target.       *)
LEMMA MintedStays ==
    ASSUME ControlSeatAssumption, SeatInv, [Next]_vars, NEW x \in Reqs
    PROVE  Minted(x) => Minted(x)' /\ request'[x].target = request[x].target
<1>0. /\ request \in [Reqs -> RequestSet] /\ requester \in [Requesters -> RequesterSet]
      /\ SeatTypes
  BY DEF SeatInv, SeatTypes
<1>f. \A R : \A s \in States : /\ Told(R, s)[x].target = request[x].target
                               /\ Told(R, s)[x].state # "none" \/ Told(R, s)[x] = request[x]
  <2>1. ASSUME NEW R, NEW s \in States
        PROVE  /\ Told(R, s)[x].target = request[x].target
               /\ Told(R, s)[x].state # "none" \/ Told(R, s)[x] = request[x]
    <3>1. "none" \notin States
      BY DEF States
    <3> QED
      BY <3>1, <1>0, ToldFacts
  <2> QED
    BY <2>1
<1>s. {"Rejected", "ConfirmationUnavailable", "OutcomeUnavailable", "Applied", "Awaiting"} \subseteq States
  BY DEF States
<1>1. CASE UNCHANGED <<request, requester>>
  BY <1>1, <1>0, <1>f, <1>s DEF Minted
<1>2. ASSUME NEW p \in Requesters, Requester(p) \/ (\E t \in Targets : Ask(p, t))
      PROVE  Minted(x) => Minted(x)' /\ request'[x].target = request[x].target
  <2>1. CASE Open(p)
    BY <2>1, <1>0, <1>f, <1>s
       DEF Open, CloseSeat, Invalidate, Goes, RequesterSet, Minted
  <2>2. CASE Spawn(p)
    BY <2>2, <1>0, <1>f, <1>s DEF Spawn, Invalidate, Goes, RequesterSet, Minted
  <2>3. CASE Accept(p)
    <3>1. ASSUME Minted(x) PROVE Minted(x)' /\ request'[x].target = request[x].target
      <4>1. Minted(x) => request[x] # NoRequest
        BY DEF Minted, NoRequest
      <4>2. CASE request' = Told(Late, "Rejected") /\ requester' = [requester EXCEPT ![p].pc = "held"]
        BY <4>2, <3>1, <1>0, <1>f, <1>s DEF Minted, RequesterSet
      <4>3. ASSUME NEW r \in Reqs, request[r] = NoRequest,
                   requester' = [requester EXCEPT ![p].pc = IF seat # 0 THEN "mint" ELSE "accepted", ![p].req = r],
                   \A s \in Reqs : s # r =>
                            /\ request'[s].target = request[s].target
                            /\ s \in Late => request'[s].state \in {"Rejected", "retired"}
                            /\ s \notin Late => \/ request'[s] = request[s]
                                                \/ s \in Settled /\ request'[s].state = "retired"
            PROVE  Minted(x)' /\ request'[x].target = request[x].target
        BY <4>1, <4>3, <3>1, <1>0 DEF Minted, RequesterSet
      <4> QED
        BY <2>3, <4>2, <4>3, <1>0, AcceptFacts
    <3> QED
      BY <3>1
  <2>4. CASE Mint(p)
    BY <2>4, <1>0, <1>f, <1>s DEF Mint, Goes, RequesterSet, Minted
  <2>5. CASE Status(p)
    BY <2>5, <1>0, <1>f, <1>s
       DEF Status, SettleExpired, Asking, RequesterSet, Minted
  <2>6. ASSUME NEW t \in Targets, Ask(p, t)
        PROVE  Minted(x) => Minted(x)' /\ request'[x].target = request[x].target
    BY <2>6, <1>0, <1>f, <1>s DEF Ask, RequesterSet, Minted
  <2> QED
    BY <1>2, <2>1, <2>2, <2>3, <2>4, <2>5, <2>6 DEF Requester
<1>3. ASSUME NEW g \in Gens, Serve(g) \/ EndServing(g) \/ Desktop(g)
      PROVE  Minted(x) => Minted(x)' /\ request'[x].target = request[x].target
  <2>1. CASE EndServing(g)
    BY <2>1, <1>0, <1>f, <1>s DEF EndServing, CloseSeat, Invalidate, Minted
  <2>2. CASE Answered(g)
    BY <2>2, <1>0, <1>f, <1>s DEF Answered, Asking, RequesterSet, Minted
  <2>3. CASE \/ Serve(g) \/ (\E t \in Targets : Begin(g, t))
             \/ ReadChallenge(g) \/ Confirm(g) \/ Dismiss(g) \/ ReadOutcome(g)
             \/ GiveUp(g) \/ Exit(g)
    BY <2>3, <1>1
       DEF Serve, Begin, ReadChallenge, Confirm, Dismiss, ReadOutcome, GiveUp,
           Exit
  <2> QED
    BY <1>3, <2>1, <2>2, <2>3 DEF Desktop
<1>4. ASSUME NEW k \in tasks, Task(k)
      PROVE  Minted(x) => Minted(x)' /\ request'[x].target = request[x].target
  <2>1. CASE Take(k)
    BY <2>1, <1>0, <1>f, <1>s DEF Take, Minted
  <2>2. CASE Reject(k)
    BY <2>2, <1>0, <1>f, <1>s DEF Reject, Minted
  <2>3. CASE RejectRequest(k)
    BY <2>3, <1>0, <1>f, <1>s DEF RejectRequest, Minted
  <2>4. CASE StageSecret(k)
    BY <2>4, <1>0, <1>f, <1>s DEF StageSecret, Minted
  <2>5. CASE Settle(k)
    BY <2>5, <1>0, <1>f, <1>s DEF Settle, Minted
  <2>6. CASE \/ Execute(k) \/ ConfirmDeletion(k) \/ StartConfirmed(k)
    BY <2>6, <1>1 DEF Execute, ConfirmDeletion, StartConfirmed
  <2> QED
    BY <1>4, <2>1, <2>2, <2>3, <2>4, <2>5, <2>6 DEF Task
<1>5. CASE Unheard
  BY <1>5, <1>0, <1>f, <1>s DEF Unheard, Asking, RequesterSet, Minted
<1> QED
  BY <1>1, <1>2, <1>3, <1>4, <1>5
     DEF Next, vars, Expire, Restate, BeginJoin, Joined

(* A request that may be completed stays so: no second session is minted    *)
(* for it, and no secret is taken from a session that stays.                *)
LEMMA SecuredStays ==
    ASSUME ControlSeatAssumption, SeatInv, [Next]_vars, NEW x \in Reqs, Minted(x), Secured(x)
    PROVE  Secured(x)'
<1>0. /\ session \in [Reqs -> SessionSet] /\ SeatTypes /\ Secured(x)
      /\ Minted(x) /\ request'[x].target = request[x].target
  BY MintedStays DEF SeatInv, SeatTypes
<1>f. \A R : Without(R)[x] \in {NoSession, session[x]}
  BY <1>0, WithoutFacts
<1>n. NoSession.gen = 0
  BY DEF NoSession
<1>1. CASE UNCHANGED session
  BY <1>1, <1>0, <1>f, <1>n DEF Secured
<1>2. ASSUME NEW p \in Requesters, Requester(p) \/ (\E t \in Targets : Ask(p, t))
      PROVE  Secured(x)'
  <2>1. CASE Open(p)
    BY <2>1, <1>0, <1>f, <1>n DEF Open, CloseSeat, Invalidate, Secured
  <2>2. CASE Spawn(p)
    BY <2>2, <1>0, <1>f, <1>n DEF Spawn, Invalidate, Secured
  <2>3. CASE Accept(p)
    BY <2>3, <1>0, <1>f, <1>n DEF Accept, Secured
  <2>4. CASE Mint(p)
    <3>1. requester[p].req # x
      BY <2>4, <1>0 DEF Mint, Minted
    <3> QED
      BY <2>4, <3>1, <1>0 DEF Mint, Secured
  <2>5. CASE Status(p)
    BY <2>5, <1>0, <1>f, <1>n DEF Status, SettleExpired, Secured
  <2>6. CASE (\E t \in Targets : Ask(p, t))
    BY <2>6, <1>1 DEF Ask
  <2> QED
    BY <1>2, <2>1, <2>2, <2>3, <2>4, <2>5, <2>6 DEF Requester
<1>3. ASSUME NEW g \in Gens, Serve(g) \/ EndServing(g) \/ Desktop(g)
      PROVE  Secured(x)'
  <2>1. CASE EndServing(g)
    BY <2>1, <1>0, <1>f, <1>n DEF EndServing, CloseSeat, Invalidate, Secured
  <2>2. CASE \/ Serve(g) \/ (\E t \in Targets : Begin(g, t)) \/ Answered(g)
             \/ ReadChallenge(g) \/ Confirm(g) \/ Dismiss(g) \/ ReadOutcome(g)
             \/ GiveUp(g) \/ Exit(g)
    BY <2>2, <1>1
       DEF Serve, Begin, Answered, ReadChallenge, Confirm, Dismiss, ReadOutcome,
           GiveUp, Exit
  <2> QED
    BY <1>3, <2>1, <2>2 DEF Desktop
<1>4. ASSUME NEW k \in tasks, Task(k)
      PROVE  Secured(x)'
  <2>1. CASE Take(k)
    BY <2>1, <1>0, <1>f, <1>n DEF Take, Secured
  <2>2. CASE Reject(k)
    BY <2>2, <1>0, <1>f, <1>n DEF Reject, Secured
  <2>3. CASE StageSecret(k)
    BY <2>3, <1>0, <1>f, <1>n DEF StageSecret, Secured, SessionSet
  <2>4. CASE \/ RejectRequest(k) \/ Execute(k) \/ ConfirmDeletion(k)
             \/ StartConfirmed(k) \/ Settle(k)
    BY <2>4, <1>1
       DEF RejectRequest, Execute, ConfirmDeletion, StartConfirmed, Settle
  <2> QED
    BY <1>4, <2>1, <2>2, <2>3, <2>4 DEF Task
<1>5. ASSUME NEW r \in Reqs, Expire(r)
      PROVE  Secured(x)'
  BY <1>5, <1>0 DEF Expire, Secured, SessionSet
<1> QED
  BY <1>1, <1>2, <1>3, <1>4, <1>5
     DEF Next, vars, Restate, Unheard, BeginJoin, Joined

(* A session is one of the present seat and of a request that waits.        *)
LEMMA SessionKept ==
    ASSUME ControlSeatAssumption, SeatInv, [Next]_vars, NEW x \in Reqs
    PROVE  SessionLive(x)'
<1>0. /\ SeatTypes /\ session \in [Reqs -> SessionSet] /\ request \in [Reqs -> RequestSet]
      /\ SessionLive(x) /\ (Minted(x) => Minted(x)')
  BY MintedStays DEF SeatInv, SeatTypes
<1>a. \A k \in tasks : Working(k) /\ k.r \in Reqs
  BY TaskForms DEF SeatInv, SeatTypes
<1>n. NoSession.gen = 0
  BY DEF NoSession
<1>e. request[x] \in RequestSet /\ session[x] \in SessionSet
  BY <1>0
<1>1. CASE UNCHANGED <<request, session, seat>>
  BY <1>1, <1>0, <1>a, <1>n, <1>e DEF SessionLive
<1>2. ASSUME NEW p \in Requesters, Requester(p) \/ (\E t \in Targets : Ask(p, t))
      PROVE  SessionLive(x)'
  <2>1. CASE Open(p)
    BY <2>1, <1>0, <1>a, <1>n, <1>e
       DEF Open, CloseSeat, Invalidate, Live, Told, Without, SessionLive
  <2>2. CASE Spawn(p)
    BY <2>2, <1>0, <1>a, <1>n, <1>e
       DEF Spawn, Invalidate, Live, Told, Without, SessionLive
  <2>3. CASE Accept(p)
    <3>1. session' = Without(Late) /\ seat' = seat
      BY <2>3, <1>0, AcceptFacts DEF Accept, seatVars
    <3>2. CASE request' = Told(Late, "Rejected")
      BY <3>1, <3>2, <1>0, <1>n, <1>e DEF SessionLive, Late, Live, Told, Without
    <3>3. ASSUME NEW r \in Reqs, request[r] = NoRequest,
                 \A s \in Reqs : s # r =>
                    /\ s \in Late => request'[s].state \in {"Rejected", "retired"}
                    /\ s \notin Late => \/ request'[s] = request[s]
                                        \/ s \in Settled /\ request'[s].state = "retired"
          PROVE  SessionLive(x)'
      BY <3>1, <3>3, <1>0, <1>n, <1>e DEF SessionLive, NoRequest, Settled, Without, Late, Live
    <3> QED
      BY <2>3, <3>2, <3>3, <1>0, AcceptFacts
  <2>4. CASE Mint(p)
    <3>1. CASE requester[p].req = x
      <4>1. /\ request[x].state = "Awaiting" /\ x \in Reqs
            /\ \A q \in Requesters : requester[q].pc = "mint" /\ requester[q].req = x => q = p
        BY <2>4, <3>1 DEF Mint, SeatInv, Minting
      <4>2. \/ session'[x] = [NoSession EXCEPT !.gen = seat] /\ request'[x] = request[x]
            \/ session'[x] = session[x] /\ session[x].gen = 0
        BY <2>4, <3>1, <1>0 DEF Mint, SessionLive, Minted, Told
      <4>3. seat' = seat /\ requester'[p].pc = "accepted"
            /\ \A q \in Requesters : q # p => requester'[q] = requester[q]
        BY <2>4, RequesterMoves DEF Mint, seatVars, SeatInv, SeatTypes, Pcs
      <4>4. request'[x] = request[x] => Minted(x)'
        BY <4>1, <4>3 DEF Minted
      <4> QED
        BY <4>1, <4>2, <4>3, <4>4, <1>0, <1>n DEF SessionLive, NoSession
    <3>2. CASE requester[p].req # x
      BY <2>4, <3>2, <1>0, <1>e DEF Mint, SessionLive, seatVars, Told
    <3> QED
      BY <3>1, <3>2
  <2>5. CASE Status(p)
    BY <2>5, <1>0, <1>a, <1>n, <1>e
       DEF Status, SettleExpired, Told, Without, Late, Live, seatVars,
           SessionLive
  <2>6. CASE (\E t \in Targets : Ask(p, t))
    BY <2>6, <1>1 DEF Ask, seatVars
  <2> QED
    BY <1>2, <2>1, <2>2, <2>3, <2>4, <2>5, <2>6 DEF Requester
<1>3. ASSUME NEW g \in Gens, Serve(g) \/ EndServing(g) \/ Desktop(g)
      PROVE  SessionLive(x)'
  <2>1. CASE EndServing(g)
    BY <2>1, <1>0, <1>a, <1>n, <1>e
       DEF EndServing, CloseSeat, Invalidate, Live, Told, Without, SessionLive
  <2>2. CASE \/ Serve(g) \/ (\E t \in Targets : Begin(g, t)) \/ Answered(g)
             \/ ReadChallenge(g) \/ Confirm(g) \/ Dismiss(g) \/ ReadOutcome(g)
             \/ GiveUp(g) \/ Exit(g)
    BY <2>2, <1>1
       DEF Serve, Begin, Answered, ReadChallenge, Confirm, Dismiss, ReadOutcome,
           GiveUp, Exit, seatVars
  <2> QED
    BY <1>3, <2>1, <2>2 DEF Desktop
<1>4. ASSUME NEW k \in tasks, Task(k)
      PROVE  SessionLive(x)'
  <2>1. CASE Take(k)
    BY <2>1, <1>0, <1>a, <1>n, <1>e
       DEF Take, Late, Live, Told, Without, seatVars, SessionLive
  <2>2. CASE Reject(k)
    BY <2>2, <1>0, <1>a, <1>n, <1>e
       DEF Reject, Late, Live, Told, Without, seatVars, SessionLive
  <2>3. CASE RejectRequest(k)
    BY <2>3, <1>0, <1>a, <1>e DEF RejectRequest, SessionLive, Working, seatVars, Told
  <2>4. CASE StageSecret(k)
    <3>1. CASE session' = [session EXCEPT ![k.r].secret = TRUE] /\ k.r \in Live /\ UNCHANGED request
      BY <2>4, <3>1, <1>0 DEF StageSecret, SessionLive, SessionSet, seatVars, Live
    <3>2. CASE session' = Without({k.r} \cap Late) /\ request' = Told({k.r} \cap Late, "Rejected")
      BY <2>4, <3>2, <1>0, <1>n, <1>e DEF StageSecret, SessionLive, seatVars, Told, Without, Late, Live
    <3> QED
      BY <2>4, <3>1, <3>2 DEF StageSecret, Late, Live
  <2>5. CASE Settle(k)
    BY <2>5, <1>0, <1>a, <1>e DEF Settle, SessionLive, Working, seatVars, Told
  <2>6. CASE \/ Execute(k) \/ ConfirmDeletion(k) \/ StartConfirmed(k)
    BY <2>6, <1>1 DEF Execute, ConfirmDeletion, StartConfirmed, seatVars
  <2> QED
    BY <1>4, <2>1, <2>2, <2>3, <2>4, <2>5, <2>6 DEF Task
<1>5. ASSUME NEW r \in Reqs, Expire(r)
      PROVE  SessionLive(x)'
  BY <1>5, <1>0 DEF Expire, SessionLive, SessionSet, seatVars, Live, Late
<1> QED
  BY <1>1, <1>2, <1>3, <1>4, <1>5
     DEF Next, vars, Restate, Unheard, BeginJoin, Joined, seatVars

(* One requester mints the session of a request that waits.                 *)
LEMMA MintingKept ==
    ASSUME ControlSeatAssumption, SeatInv, [Next]_vars, NEW q \in Requesters
    PROVE  Minting(q)'
<1>0. /\ SeatTypes /\ requester \in [Requesters -> RequesterSet] /\ request \in [Reqs -> RequestSet]
      /\ \A o \in Requesters : Minting(o)
  BY DEF SeatInv, SeatTypes
<1>a. \A k \in tasks : Minted(k.r)
  BY DEF SeatInv, Working
<1>l. \A r \in Reqs : session[r].gen # 0 => Minted(r)
  BY DEF SeatInv, SessionLive
<1>e. \A r \in Reqs : request[r] \in RequestSet
  BY <1>0
<1>m. requester[q].pc = "mint" => requester[q].req \in Reqs /\ ~Minted(requester[q].req)
  BY <1>0 DEF Minting, Minted
<1>1. CASE UNCHANGED <<request, requester>>
  BY <1>1, <1>0, <1>a, <1>l, <1>e, <1>m DEF Minting
<1>2. ASSUME NEW p \in Requesters, Requester(p) \/ (\E t \in Targets : Ask(p, t))
      PROVE  Minting(q)'
  <2>1. CASE Open(p)
    BY <2>1, <1>0, <1>a, <1>l, <1>e, <1>m
       DEF Open, Goes, CloseSeat, Invalidate, Live, Told, RequesterSet, Minting
  <2>2. CASE Spawn(p)
    BY <2>2, <1>0, <1>a, <1>l, <1>e, <1>m
       DEF Spawn, Goes, Invalidate, Live, Told, RequesterSet, Minting
  <2>3. CASE Accept(p)
    <3>1. CASE request' = Told(Late, "Rejected") /\ requester' = [requester EXCEPT ![p].pc = "held"]
      BY <3>1, <1>0, <1>l, <1>e, <1>m DEF Told, Late, Live, RequesterSet, Minting
    <3>2. ASSUME NEW r \in Reqs, request[r] = NoRequest, requester[p].pc = "accept",
                 request'[r].state = IF seat # 0 THEN "Awaiting" ELSE "ConfirmationUnavailable",
                 requester' = [requester EXCEPT ![p].pc = IF seat # 0 THEN "mint" ELSE "accepted", ![p].req = r],
                 \A s \in Reqs : s # r =>
                    /\ s \in Late => request'[s].state \in {"Rejected", "retired"}
                    /\ s \notin Late => \/ request'[s] = request[s]
                                        \/ s \in Settled /\ request'[s].state = "retired"
          PROVE  Minting(q)'
      <4>1. \A o \in Requesters : requester[o].pc = "mint" => requester[o].req # r
        BY <3>2, <1>0 DEF Minting, NoRequest
      <4>2. /\ \A o \in Requesters : o # p => requester'[o] = requester[o]
            /\ requester'[p].req = r /\ (requester'[p].pc = "mint" => request'[r].state = "Awaiting")
        BY <3>2, <1>0 DEF RequesterSet
      <4>3. CASE q = p
        BY <4>1, <4>2, <4>3, <3>2 DEF Minting
      <4>4. CASE q # p
        <5>1. requester[q].pc = "mint" => requester[q].req \notin Late /\ requester[q].req \notin Settled
          BY <1>0, <1>l, <1>m DEF Late, Live, Settled, States, Minting
        <5> QED
          BY <4>1, <4>2, <4>4, <5>1, <3>2, <1>0 DEF Minting
      <4> QED
        BY <4>3, <4>4
    <3> QED
      BY <2>3, <3>1, <3>2, <1>0, AcceptFacts
  <2>4. CASE Mint(p)
    BY <2>4, <1>0, <1>a, <1>l, <1>e, <1>m
       DEF Mint, Goes, Told, RequesterSet, Minting
  <2>5. CASE Status(p)
    <3>1. requester'[q].pc = "mint" => requester'[q] = requester[q]
      BY <2>5, <1>0 DEF Status, Asking
    <3>2. /\ \A o \in Requesters : requester'[o].pc = "mint" => requester'[o] = requester[o]
      BY <2>5, <1>0 DEF Status, Asking
    <3>3. request' = request \/ request' = Told(Late, "Rejected")
      BY <2>5 DEF Status, SettleExpired
    <3> QED
      BY <3>1, <3>2, <3>3, <1>0, <1>l, <1>m DEF Told, Late, Live, Minting
  <2>6. ASSUME NEW t \in Targets, Ask(p, t)
        PROVE  Minting(q)'
    BY <2>6, <1>0, <1>a, <1>l, <1>e, <1>m DEF Ask, RequesterSet, Minting
  <2> QED
    BY <1>2, <2>1, <2>2, <2>3, <2>4, <2>5, <2>6 DEF Requester
<1>3. ASSUME NEW g \in Gens, Serve(g) \/ EndServing(g) \/ Desktop(g)
      PROVE  Minting(q)'
  <2>1. CASE EndServing(g)
    BY <2>1, <1>0, <1>a, <1>l, <1>e, <1>m
       DEF EndServing, CloseSeat, Invalidate, Live, Told, Minting
  <2>2. CASE Answered(g)
    BY <2>2, <1>0, <1>a, <1>l, <1>e, <1>m
       DEF Answered, Asking, RequesterSet, Minting
  <2>3. CASE \/ Serve(g) \/ (\E t \in Targets : Begin(g, t))
             \/ ReadChallenge(g) \/ Confirm(g) \/ Dismiss(g) \/ ReadOutcome(g)
             \/ GiveUp(g) \/ Exit(g)
    BY <2>3, <1>1
       DEF Serve, Begin, ReadChallenge, Confirm, Dismiss, ReadOutcome, GiveUp,
           Exit
  <2> QED
    BY <1>3, <2>1, <2>2, <2>3 DEF Desktop
<1>4. ASSUME NEW k \in tasks, Task(k)
      PROVE  Minting(q)'
  <2>1. CASE Take(k)
    BY <2>1, <1>0, <1>a, <1>l, <1>e, <1>m DEF Take, Late, Live, Told, Minting
  <2>2. CASE Reject(k)
    BY <2>2, <1>0, <1>a, <1>l, <1>e, <1>m DEF Reject, Late, Live, Told, Minting
  <2>3. CASE RejectRequest(k)
    BY <2>3, <1>0, <1>a, <1>l, <1>e, <1>m DEF RejectRequest, Told, Minting
  <2>4. CASE StageSecret(k)
    BY <2>4, <1>0, <1>a, <1>l, <1>e, <1>m
       DEF StageSecret, Late, Live, Told, Minting
  <2>5. CASE Settle(k)
    BY <2>5, <1>0, <1>a, <1>l, <1>e, <1>m DEF Settle, Told, Minting
  <2>6. CASE \/ Execute(k) \/ ConfirmDeletion(k) \/ StartConfirmed(k)
    BY <2>6, <1>1 DEF Execute, ConfirmDeletion, StartConfirmed
  <2> QED
    BY <1>4, <2>1, <2>2, <2>3, <2>4, <2>5, <2>6 DEF Task
<1>5. CASE Unheard
  BY <1>5, <1>0, <1>a, <1>l, <1>e, <1>m
     DEF Unheard, Asking, RequesterSet, Minting
<1> QED
  BY <1>1, <1>2, <1>3, <1>4, <1>5
     DEF Next, vars, Expire, Restate, BeginJoin, Joined

(* The one that holds gui_open spawns.                                      *)
LEMMA OpeningKept ==
    ASSUME ControlSeatAssumption, SeatInv, [Next]_vars, NEW q \in Requesters
    PROVE  Opening(q)'
<1>0. /\ requester \in [Requesters -> RequesterSet] /\ opener \in Requesters \cup {None}
      /\ \A o \in Requesters : Opening(o)
      /\ None \notin Requesters
  BY DEF SeatInv, SeatTypes, ControlSeatAssumption
<1>1. CASE UNCHANGED <<opener, requester>>
  BY <1>1, <1>0 DEF Opening
<1>2. ASSUME NEW p \in Requesters, Requester(p) \/ (\E t \in Targets : Ask(p, t))
      PROVE  Opening(q)'
  <2>1. CASE Open(p)
    BY <2>1, <1>0 DEF Open, Goes, RequesterSet, Opening
  <2>2. CASE Spawn(p)
    BY <2>2, <1>0 DEF Spawn, Goes, RequesterSet, Opening
  <2>3. CASE Accept(p)
    BY <2>3, <1>0 DEF Accept, Goes, RequesterSet, seatVars, Opening
  <2>4. CASE Mint(p)
    BY <2>4, <1>0 DEF Mint, Goes, RequesterSet, seatVars, Opening
  <2>5. CASE Status(p)
    BY <2>5, <1>0 DEF Status, Asking, RequesterSet, seatVars, Opening
  <2>6. ASSUME NEW t \in Targets, Ask(p, t)
        PROVE  Opening(q)'
    BY <2>6, <1>0 DEF Ask, RequesterSet, seatVars, Opening
  <2> QED
    BY <1>2, <2>1, <2>2, <2>3, <2>4, <2>5, <2>6 DEF Requester
<1>3. ASSUME NEW g \in Gens, Serve(g) \/ EndServing(g) \/ Desktop(g)
      PROVE  Opening(q)'
  <2>1. CASE Answered(g)
    BY <2>1, <1>0 DEF Answered, Asking, RequesterSet, seatVars, Opening
  <2>2. CASE \/ Serve(g) \/ EndServing(g) \/ (\E t \in Targets : Begin(g, t))
             \/ ReadChallenge(g) \/ Confirm(g) \/ Dismiss(g) \/ ReadOutcome(g)
             \/ GiveUp(g) \/ Exit(g)
    BY <2>2, <1>1
       DEF Serve, EndServing, Begin, ReadChallenge, Confirm, Dismiss,
           ReadOutcome, GiveUp, Exit, seatVars
  <2> QED
    BY <1>3, <2>1, <2>2 DEF Desktop
<1>4. ASSUME NEW k \in tasks, Task(k)
      PROVE  Opening(q)'
  BY <1>4, <1>1
     DEF Task, Take, Reject, RejectRequest, StageSecret, Execute,
         ConfirmDeletion, StartConfirmed, Settle, seatVars
<1>5. CASE Unheard
  BY <1>5, <1>0 DEF Unheard, Asking, RequesterSet, seatVars, Opening
<1> QED
  BY <1>1, <1>2, <1>3, <1>4, <1>5
     DEF Next, vars, Expire, Restate, BeginJoin, Joined, seatVars

(* A request that was settled changes no more, unless it is retired.        *)
LEMMA SettlesStep ==
    ASSUME ControlSeatAssumption, SeatInv, [Next]_vars, NEW x \in Reqs
    PROVE  x \in Settled \/ request[x].state = "retired" => request'[x].state \in {request[x].state, "retired"}
<1>0. /\ SeatTypes /\ request \in [Reqs -> RequestSet] /\ requester \in [Requesters -> RequesterSet]
      /\ SessionLive(x) /\ request[x] \in RequestSet
  BY DEF SeatInv, SeatTypes
<1>a. \A k \in tasks : Working(k)
  BY DEF SeatInv
<1>1. CASE UNCHANGED request
  BY <1>1, <1>0 DEF Settled, States
<1>2. ASSUME NEW p \in Requesters, Requester(p) \/ (\E t \in Targets : Ask(p, t))
      PROVE  x \in Settled \/ request[x].state = "retired" => request'[x].state \in {request[x].state, "retired"}
  <2>1. CASE Open(p)
    BY <2>1, <1>0
       DEF Open, CloseSeat, Invalidate, Live, Told, SessionLive, Settled, States
  <2>2. CASE Spawn(p)
    BY <2>2, <1>0
       DEF Spawn, Invalidate, Live, Told, SessionLive, Settled, States
  <2>3. CASE Accept(p)
    <3>1. CASE request' = Told(Late, "Rejected") /\ session' = Without(Late)
      BY <3>1, <1>0 DEF SessionLive, Told, Late, Live, Settled, States, NoRequest
    <3>2. ASSUME NEW r \in Reqs, request[r] = NoRequest, session' = Without(Late),
                 request'[r].state = IF seat # 0 THEN "Awaiting" ELSE "ConfirmationUnavailable",
                 requester' = [requester EXCEPT ![p].pc = IF seat # 0 THEN "mint" ELSE "accepted", ![p].req = r],
                 \A s \in Reqs : s # r =>
                    /\ s \in Late => request'[s].state \in {"Rejected", "retired"}
                    /\ s \notin Late => \/ request'[s] = request[s]
                                        \/ s \in Settled /\ request'[s].state = "retired"
          PROVE  x \in Settled \/ request[x].state = "retired" => request'[x].state \in {request[x].state, "retired"}
      <4>1. CASE x = r
        BY <3>2, <4>1, <1>0 DEF SessionLive, Told, Late, Live, Settled, States, NoRequest
      <4>2. CASE x # r
        BY <3>2, <4>2, <1>0 DEF SessionLive, Told, Late, Live, Settled, States, NoRequest
      <4> QED
        BY <4>1, <4>2
    <3> QED
      BY <2>3, <3>1, <3>2, <1>0, AcceptFacts
  <2>4. CASE Mint(p)
    BY <2>4, <1>0 DEF SeatInv, Minting, Mint, Told, Settled, States
  <2>5. CASE Status(p)
    BY <2>5, <1>0
       DEF Status, SettleExpired, Told, Late, Live, SessionLive, Settled, States
  <2>6. CASE (\E t \in Targets : Ask(p, t))
    BY <2>6, <1>1 DEF Ask
  <2> QED
    BY <1>2, <2>1, <2>2, <2>3, <2>4, <2>5, <2>6 DEF Requester
<1>3. ASSUME NEW g \in Gens, Serve(g) \/ EndServing(g) \/ Desktop(g)
      PROVE  x \in Settled \/ request[x].state = "retired" => request'[x].state \in {request[x].state, "retired"}
  <2>1. CASE EndServing(g)
    BY <2>1, <1>0
       DEF EndServing, CloseSeat, Invalidate, Live, Told, SessionLive, Settled,
           States
  <2>2. CASE \/ Serve(g) \/ (\E t \in Targets : Begin(g, t)) \/ Answered(g)
             \/ ReadChallenge(g) \/ Confirm(g) \/ Dismiss(g) \/ ReadOutcome(g)
             \/ GiveUp(g) \/ Exit(g)
    BY <2>2, <1>1
       DEF Serve, Begin, Answered, ReadChallenge, Confirm, Dismiss, ReadOutcome,
           GiveUp, Exit
  <2> QED
    BY <1>3, <2>1, <2>2 DEF Desktop
<1>4. ASSUME NEW k \in tasks, Task(k)
      PROVE  x \in Settled \/ request[x].state = "retired" => request'[x].state \in {request[x].state, "retired"}
  <2>1. CASE Take(k)
    BY <2>1, <1>0 DEF Take, Late, Live, Told, SessionLive, Settled, States
  <2>2. CASE Reject(k)
    BY <2>2, <1>0 DEF Reject, Late, Live, Told, SessionLive, Settled, States
  <2>3. CASE RejectRequest(k)
    BY <2>3, <1>0, <1>a DEF RejectRequest, Working, Told, Settled, States
  <2>4. CASE StageSecret(k)
    BY <2>4, <1>0
       DEF StageSecret, Late, Live, Told, SessionLive, Settled, States
  <2>5. CASE Settle(k)
    BY <2>5, <1>0, <1>a DEF Settle, Working, Told, Settled, States
  <2>6. CASE \/ Execute(k) \/ ConfirmDeletion(k) \/ StartConfirmed(k)
    BY <2>6, <1>1 DEF Execute, ConfirmDeletion, StartConfirmed
  <2> QED
    BY <1>4, <2>1, <2>2, <2>3, <2>4, <2>5, <2>6 DEF Task
<1> QED
  BY <1>1, <1>2, <1>3, <1>4
     DEF Next, vars, Expire, Restate, Unheard, BeginJoin, Joined

(* Where a task comes from: it was there, a frame was dispatched, or it is   *)
(* the next step of a task, the first of which spends the session.          *)
TaskOrigin(l) ==
    \/ l \in tasks
    \/ /\ stop = "no" /\ l.pc = "new"
       /\ \E g \in Gens : /\ events[g] # <<>> /\ Head(events[g]).t = "inbound"
                          /\ served[g] = "run"
                          /\ events' = [events EXCEPT ![g] = Tail(@)]
                          /\ UNCHANGED <<incoming, gui, waits>>
                          /\ l = Frame(Head(events[g]).kind, Head(events[g]).r, g)
                          /\ tasks' = tasks \cup {l}
    \/ \E k \in tasks :
         /\ tasks' = (tasks \ {k}) \cup {l} /\ UNCHANGED <<request, events, incoming, gui, waits>>
         /\ l.r = k.r /\ l.g = k.g /\ l.kind = k.kind /\ l.pc # "new"
         /\ \/ k.pc # "new" /\ UNCHANGED session
            \/ /\ k.pc = "new" /\ session[k.r].gen # 0 /\ session' = Without({k.r})
         /\ l.pc = "refuse" => k.kind = "complete" /\ ~Secured(k.r)

(* Where a task comes from: it was there, a frame was dispatched, or it is  *)
(* the next step of a task, the first of which spends the session.          *)
LEMMA TaskOrigins ==
    ASSUME ControlSeatAssumption, SeatInv, [Next]_vars, NEW l \in tasks'
    PROVE  TaskOrigin(l)
<1>0. tasks \subseteq TaskSet
  BY DEF SeatInv, SeatTypes
<1>1. CASE UNCHANGED tasks
  BY <1>1, <1>0 DEF TaskOrigin
<1>2. ASSUME NEW p \in Requesters, Requester(p) \/ (\E t \in Targets : Ask(p, t))
      PROVE  TaskOrigin(l)
  BY <1>2, <1>1 DEF Requester, Open, Spawn, Accept, Mint, Status, Ask
<1>3. ASSUME NEW g \in Gens, Serve(g) \/ EndServing(g) \/ Desktop(g)
      PROVE  TaskOrigin(l)
  <2>1. CASE Serve(g)
    BY <2>1, <1>0 DEF Serve, Dispatch, Frame, guiVars, TaskOrigin
  <2>2. CASE \/ EndServing(g) \/ (\E t \in Targets : Begin(g, t))
             \/ Answered(g) \/ ReadChallenge(g) \/ Confirm(g) \/ Dismiss(g)
             \/ ReadOutcome(g) \/ GiveUp(g) \/ Exit(g)
    BY <2>2, <1>1
       DEF EndServing, Begin, Answered, ReadChallenge, Confirm, Dismiss,
           ReadOutcome, GiveUp, Exit
  <2> QED
    BY <1>3, <2>1, <2>2 DEF Desktop
<1>4. ASSUME NEW k \in tasks, Task(k)
      PROVE  TaskOrigin(l)
  <2>1. CASE Take(k)
    <3>1. ASSUME ~Reply(k, "denied")
          PROVE  /\ \E pc \in {"execute", "refuse"} : Step(k, pc) /\ (pc = "refuse" => ~Secured(k.r))
                 /\ session[k.r].gen # 0 /\ session' = Without({k.r})
                 /\ UNCHANGED <<request, events, incoming, gui, waits>>
                 /\ k.kind = "complete" /\ k.pc = "new"
      BY <2>1, <3>1 DEF Take, Late, Secured, guiVars
    <3>2. CASE Reply(k, "denied")
      BY <3>2 DEF Reply, TaskOrigin
    <3>3. CASE ~Reply(k, "denied") /\ l \notin tasks
      <4>1. PICK pc \in {"execute", "refuse", "rejected"} :
              Step(k, pc) /\ (pc = "refuse" => k.kind = "complete" /\ ~Secured(k.r))
        BY <3>1, <3>3
      <4>2. /\ tasks' = (tasks \ {k}) \cup {l}
            /\ l.r = k.r /\ l.g = k.g /\ l.kind = k.kind /\ l.pc = pc
        BY <3>3, <4>1 DEF Step
      <4> QED
        BY <3>1, <3>3, <4>1, <4>2 DEF TaskOrigin
    <3> QED
      BY <3>2, <3>3 DEF TaskOrigin
  <2>2. CASE Reject(k)
    <3>1. ASSUME ~Reply(k, "denied")
          PROVE  /\ Step(k, "rejected") /\ session[k.r].gen # 0 /\ session' = Without({k.r})
                 /\ UNCHANGED <<request, events, incoming, gui, waits>> /\ k.pc = "new"
      BY <2>2, <3>1 DEF Reject, Late, Live, guiVars
    <3>2. CASE Reply(k, "denied")
      BY <3>2 DEF Reply, TaskOrigin
    <3>3. CASE ~Reply(k, "denied") /\ l \notin tasks
      <4>1. PICK pc \in {"execute", "refuse", "rejected"} :
              Step(k, pc) /\ (pc = "refuse" => k.kind = "complete" /\ ~Secured(k.r))
        BY <3>1, <3>3
      <4>2. /\ tasks' = (tasks \ {k}) \cup {l}
            /\ l.r = k.r /\ l.g = k.g /\ l.kind = k.kind /\ l.pc = pc
        BY <3>3, <4>1 DEF Step
      <4> QED
        BY <3>1, <3>3, <4>1, <4>2 DEF TaskOrigin
    <3> QED
      BY <3>2, <3>3 DEF TaskOrigin
  <2>3. CASE RejectRequest(k)
    BY <2>3, <1>0 DEF RejectRequest, Reply, TaskOrigin
  <2>4. CASE StageSecret(k)
    BY <2>4, <1>0 DEF StageSecret, Reply, TaskOrigin
  <2>5. CASE Execute(k)
    BY <2>5, <1>0 DEF Execute, Step, guiVars, TaskOrigin
  <2>6. CASE ConfirmDeletion(k)
    BY <2>6, <1>0 DEF ConfirmDeletion, Step, guiVars, TaskOrigin
  <2>7. CASE StartConfirmed(k)
    BY <2>7, <1>0 DEF StartConfirmed, Step, guiVars, TaskOrigin
  <2>8. CASE Settle(k)
    BY <2>8, <1>0 DEF Settle, Reply, TaskOrigin
  <2> QED
    BY <1>4, <2>1, <2>2, <2>3, <2>4, <2>5, <2>6, <2>7, <2>8 DEF Task
<1> QED
  BY <1>1, <1>2, <1>3, <1>4
     DEF Next, vars, Expire, Restate, Unheard, BeginJoin, Joined

(* Where a task goes: it goes on, it settles its request, or it was a       *)
(* frame that was denied.                                                   *)
LEMMA TaskMoves ==
    ASSUME ControlSeatAssumption, SeatInv, [Next]_vars, NEW m \in tasks
    PROVE
        \/ m \in tasks'
        \/ \E l \in tasks' : /\ l.r = m.r /\ l.pc # "new" /\ l.g = m.g
                             /\ m.pc = "start" => l.pc \in {"settle", "unknown"}
                             /\ m.pc \notin {"settle", "unknown"}
        \/ request'[m.r].state \in {"Applied", "OutcomeUnavailable"}
        \/ m.pc = "new" \/ (m.pc = "rejected" /\ request'[m.r].state # "Awaiting")
<1>0. /\ m \in TaskSet /\ m.r \in Reqs /\ request[m.r] \in RequestSet
  BY TaskForms DEF SeatInv, SeatTypes
<1>1. CASE UNCHANGED tasks
  BY <1>1, <1>0
<1>2. ASSUME NEW p \in Requesters, Requester(p) \/ (\E t \in Targets : Ask(p, t))
      PROVE
        \/ m \in tasks'
        \/ \E l \in tasks' : /\ l.r = m.r /\ l.pc # "new" /\ l.g = m.g
                             /\ m.pc = "start" => l.pc \in {"settle", "unknown"}
                             /\ m.pc \notin {"settle", "unknown"}
        \/ request'[m.r].state \in {"Applied", "OutcomeUnavailable"}
        \/ m.pc = "new" \/ (m.pc = "rejected" /\ request'[m.r].state # "Awaiting")
  BY <1>2, <1>1 DEF Requester, Open, Spawn, Accept, Mint, Status, Ask
<1>3. ASSUME NEW g \in Gens, Serve(g) \/ EndServing(g) \/ Desktop(g)
      PROVE
        \/ m \in tasks'
        \/ \E l \in tasks' : /\ l.r = m.r /\ l.pc # "new" /\ l.g = m.g
                             /\ m.pc = "start" => l.pc \in {"settle", "unknown"}
                             /\ m.pc \notin {"settle", "unknown"}
        \/ request'[m.r].state \in {"Applied", "OutcomeUnavailable"}
        \/ m.pc = "new" \/ (m.pc = "rejected" /\ request'[m.r].state # "Awaiting")
  <2>1. CASE Serve(g)
    BY <2>1, <1>0 DEF Serve, Dispatch, Frame
  <2>2. CASE \/ EndServing(g) \/ (\E t \in Targets : Begin(g, t))
             \/ Answered(g) \/ ReadChallenge(g) \/ Confirm(g) \/ Dismiss(g)
             \/ ReadOutcome(g) \/ GiveUp(g) \/ Exit(g)
    BY <2>2, <1>1
       DEF EndServing, Begin, Answered, ReadChallenge, Confirm, Dismiss,
           ReadOutcome, GiveUp, Exit
  <2> QED
    BY <1>3, <2>1, <2>2 DEF Desktop
<1>4. ASSUME NEW k \in tasks, Task(k)
      PROVE
        \/ m \in tasks'
        \/ \E l \in tasks' : /\ l.r = m.r /\ l.pc # "new" /\ l.g = m.g
                             /\ m.pc = "start" => l.pc \in {"settle", "unknown"}
                             /\ m.pc \notin {"settle", "unknown"}
        \/ request'[m.r].state \in {"Applied", "OutcomeUnavailable"}
        \/ m.pc = "new" \/ (m.pc = "rejected" /\ request'[m.r].state # "Awaiting")
  <2>1. CASE Take(k)
    BY <2>1, <1>0 DEF Take, Step, Reply
  <2>2. CASE Reject(k)
    BY <2>2, <1>0 DEF Reject, Step, Reply
  <2>3. CASE RejectRequest(k)
    BY <2>3, <1>0 DEF RejectRequest, Reply, Told
  <2>4. CASE StageSecret(k)
    BY <2>4, <1>0 DEF StageSecret, Reply
  <2>5. CASE Execute(k)
    <3>1. PICK pc \in {"settle", "unknown"} : Step(k, pc)
      BY <2>5 DEF Execute
    <3>2. k.pc = "execute"
      BY <2>5, <3>1 DEF Execute
    <3> DEFINE l == [kind |-> k.kind, r |-> k.r, g |-> k.g, pc |-> pc]
    <3>3. l \in tasks' /\ l.r = k.r /\ l.g = k.g /\ l.pc = pc
      BY <3>1 DEF Step
    <3> HIDE DEF l
    <3>4. CASE m = k
      BY <3>2, <3>3, <3>4
    <3>5. CASE m # k
      BY <3>1, <3>5 DEF Step
    <3> QED
      BY <3>4, <3>5
  <2>6. CASE ConfirmDeletion(k)
    <3>1. PICK pc \in {"start", "unknown"} : Step(k, pc)
      BY <2>6 DEF ConfirmDeletion
    <3>2. k.pc = "execute"
      BY <2>6, <3>1 DEF ConfirmDeletion
    <3> DEFINE l == [kind |-> k.kind, r |-> k.r, g |-> k.g, pc |-> pc]
    <3>3. l \in tasks' /\ l.r = k.r /\ l.g = k.g /\ l.pc = pc
      BY <3>1 DEF Step
    <3> HIDE DEF l
    <3>4. CASE m = k
      BY <3>2, <3>3, <3>4
    <3>5. CASE m # k
      BY <3>1, <3>5 DEF Step
    <3> QED
      BY <3>4, <3>5
  <2>7. CASE StartConfirmed(k)
    <3>1. PICK pc \in {"settle", "unknown"} : Step(k, pc)
      BY <2>7 DEF StartConfirmed
    <3>2. k.pc = "start"
      BY <2>7, <3>1 DEF StartConfirmed
    <3> DEFINE l == [kind |-> k.kind, r |-> k.r, g |-> k.g, pc |-> pc]
    <3>3. l \in tasks' /\ l.r = k.r /\ l.g = k.g /\ l.pc = pc
      BY <3>1 DEF Step
    <3> HIDE DEF l
    <3>4. CASE m = k
      BY <3>2, <3>3, <3>4
    <3>5. CASE m # k
      BY <3>1, <3>5 DEF Step
    <3> QED
      BY <3>4, <3>5
  <2>8. CASE Settle(k)
    BY <2>8, <1>0 DEF Settle, Reply, Told
  <2> QED
    BY <1>4, <2>1, <2>2, <2>3, <2>4, <2>5, <2>6, <2>7, <2>8 DEF Task
<1> QED
  BY <1>1, <1>2, <1>3, <1>4
     DEF Next, vars, Expire, Restate, Unheard, BeginJoin, Joined

(* Where a session goes.                                                    *)
LEMMA SessionMoves ==
    ASSUME ControlSeatAssumption, SeatInv, [Next]_vars, NEW x \in Reqs
    PROVE  session[x].gen # 0 =>
               \/ session'[x].gen # 0 \/ request'[x].state # "Awaiting"
               \/ \E l \in tasks' : l.r = x /\ l.pc # "new"
<1>0. /\ SeatTypes /\ session \in [Reqs -> SessionSet] /\ request \in [Reqs -> RequestSet]
      /\ requester \in [Requesters -> RequesterSet] /\ seat \in 0..MaxSeats
      /\ session[x] \in SessionSet /\ request[x] \in RequestSet /\ SessionLive(x)
  BY DEF SeatInv, SeatTypes
<1>1. CASE UNCHANGED session
  BY <1>1, <1>0
<1>2. ASSUME NEW p \in Requesters, Requester(p) \/ (\E t \in Targets : Ask(p, t))
      PROVE  session[x].gen # 0 =>
               \/ session'[x].gen # 0 \/ request'[x].state # "Awaiting"
               \/ \E l \in tasks' : l.r = x /\ l.pc # "new"
  <2>1. CASE Open(p)
    BY <2>1, <1>0 DEF Open, CloseSeat, Invalidate, Live, Without, Told
  <2>2. CASE Spawn(p)
    BY <2>2, <1>0 DEF Spawn, Invalidate, Live, Without, Told
  <2>3. CASE Accept(p)
    <3>1. CASE request' = Told(Late, "Rejected") /\ session' = Without(Late)
      BY <3>1, <1>0 DEF SessionLive, Without, Late, Live, NoRequest, NoSession, Told
    <3>2. ASSUME NEW r \in Reqs, request[r] = NoRequest, session' = Without(Late),
                 request'[r].state = IF seat # 0 THEN "Awaiting" ELSE "ConfirmationUnavailable",
                 requester' = [requester EXCEPT ![p].pc = IF seat # 0 THEN "mint" ELSE "accepted", ![p].req = r],
                 \A s \in Reqs : s # r =>
                    /\ s \in Late => request'[s].state \in {"Rejected", "retired"}
                    /\ s \notin Late => \/ request'[s] = request[s]
                                        \/ s \in Settled /\ request'[s].state = "retired"
          PROVE  session[x].gen # 0 =>
                   session'[x].gen # 0 \/ request'[x].state # "Awaiting"
      <4>1. CASE x = r
        BY <3>2, <4>1, <1>0 DEF SessionLive, Without, Late, Live, NoRequest, NoSession, Told
      <4>2. CASE x # r
        BY <3>2, <4>2, <1>0 DEF SessionLive, Without, Late, Live, NoRequest, NoSession, Told
      <4> QED
        BY <4>1, <4>2
    <3> QED
      BY <2>3, <3>1, <3>2, <1>0, AcceptFacts
  <2>4. CASE Mint(p)
    BY <2>4, <1>0 DEF Mint, NoSession
  <2>5. CASE Status(p)
    BY <2>5, <1>0 DEF Status, SettleExpired, Without, Late, Live, Told
  <2>6. CASE (\E t \in Targets : Ask(p, t))
    BY <2>6, <1>1 DEF Ask
  <2> QED
    BY <1>2, <2>1, <2>2, <2>3, <2>4, <2>5, <2>6 DEF Requester
<1>3. ASSUME NEW g \in Gens, Serve(g) \/ EndServing(g) \/ Desktop(g)
      PROVE  session[x].gen # 0 =>
               \/ session'[x].gen # 0 \/ request'[x].state # "Awaiting"
               \/ \E l \in tasks' : l.r = x /\ l.pc # "new"
  <2>1. CASE EndServing(g)
    BY <2>1, <1>0 DEF EndServing, CloseSeat, Invalidate, Live, Without, Told
  <2>2. CASE \/ Serve(g) \/ (\E t \in Targets : Begin(g, t)) \/ Answered(g)
             \/ ReadChallenge(g) \/ Confirm(g) \/ Dismiss(g) \/ ReadOutcome(g)
             \/ GiveUp(g) \/ Exit(g)
    BY <2>2, <1>1
       DEF Serve, Begin, Answered, ReadChallenge, Confirm, Dismiss, ReadOutcome,
           GiveUp, Exit
  <2> QED
    BY <1>3, <2>1, <2>2 DEF Desktop
<1>4. ASSUME NEW k \in tasks, Task(k)
      PROVE  session[x].gen # 0 =>
               \/ session'[x].gen # 0 \/ request'[x].state # "Awaiting"
               \/ \E l \in tasks' : l.r = x /\ l.pc # "new"
  <2>1. CASE Take(k)
    <3>1. ASSUME session[k.r].gen # 0 /\ ~session[k.r].late /\ session[k.r].gen = seat
          PROVE  /\ \E pc \in {"execute", "refuse"} : Step(k, pc) /\ (pc = "refuse" => ~Secured(k.r))
                 /\ session[k.r].gen # 0 /\ session' = Without({k.r})
                 /\ UNCHANGED <<request, events, incoming, gui, waits>>
                 /\ k.kind = "complete" /\ k.pc = "new"
      BY <2>1, <3>1 DEF Take, Late, Secured, guiVars
    <3>2. CASE ~(session[k.r].gen # 0 /\ ~session[k.r].late /\ session[k.r].gen = seat)
      BY <2>1, <3>2, <1>0 DEF Take, Late, Live, Without, Told, NoSession
    <3>3. CASE session[k.r].gen # 0 /\ ~session[k.r].late /\ session[k.r].gen = seat
      <4>1. CASE x # k.r
        BY <3>1, <3>3, <4>1, <1>0 DEF Without
      <4>2. CASE x = k.r
        <5>1. PICK pc \in {"execute", "refuse", "rejected"} : Step(k, pc)
          BY <3>1, <3>3
        <5>2. [kind |-> k.kind, r |-> k.r, g |-> k.g, pc |-> pc] \in tasks' /\ [kind |-> k.kind, r |-> k.r, g |-> k.g, pc |-> pc].r = x /\ [kind |-> k.kind, r |-> k.r, g |-> k.g, pc |-> pc].pc # "new"
          BY <5>1, <4>2 DEF Step
        <5> QED
          BY <5>2
      <4> QED
        BY <4>1, <4>2
    <3> QED
      BY <3>2, <3>3
  <2>2. CASE Reject(k)
    <3>1. ASSUME k.r \in Live \ Late
          PROVE  /\ Step(k, "rejected") /\ session[k.r].gen # 0 /\ session' = Without({k.r})
                 /\ UNCHANGED <<request, events, incoming, gui, waits>> /\ k.pc = "new"
      BY <2>2, <3>1 DEF Reject, Late, Live, guiVars
    <3>2. CASE ~(k.r \in Live \ Late)
      BY <2>2, <3>2, <1>0 DEF Reject, Late, Live, Without, Told, NoSession
    <3>3. CASE k.r \in Live \ Late
      <4>1. CASE x # k.r
        BY <3>1, <3>3, <4>1, <1>0 DEF Without
      <4>2. CASE x = k.r
        <5>1. PICK pc \in {"execute", "refuse", "rejected"} : Step(k, pc)
          BY <3>1, <3>3
        <5>2. [kind |-> k.kind, r |-> k.r, g |-> k.g, pc |-> pc] \in tasks' /\ [kind |-> k.kind, r |-> k.r, g |-> k.g, pc |-> pc].r = x /\ [kind |-> k.kind, r |-> k.r, g |-> k.g, pc |-> pc].pc # "new"
          BY <5>1, <4>2 DEF Step
        <5> QED
          BY <5>2
      <4> QED
        BY <4>1, <4>2
    <3> QED
      BY <3>2, <3>3
  <2>3. CASE StageSecret(k)
    <3>1. CASE k.r # x
      BY <2>3, <3>1, <1>0 DEF StageSecret, Without
    <3>2. CASE k.r = x
      <4>1. CASE session' = [session EXCEPT ![k.r].secret = TRUE]
        BY <3>2, <4>1, <1>0 DEF SessionSet
      <4>2. CASE session' = Without({x} \cap Late) /\ request' = Told({x} \cap Late, "Rejected")
        BY <4>2, <1>0 DEF Told, Without
      <4> QED
        BY <2>3, <3>2, <4>1, <4>2 DEF StageSecret
    <3> QED
      BY <3>1, <3>2
  <2>4. CASE \/ RejectRequest(k) \/ Execute(k) \/ ConfirmDeletion(k)
             \/ StartConfirmed(k) \/ Settle(k)
    BY <2>4, <1>1
       DEF RejectRequest, Execute, ConfirmDeletion, StartConfirmed, Settle
  <2> QED
    BY <1>4, <2>1, <2>2, <2>3, <2>4 DEF Task
<1>5. ASSUME NEW r \in Reqs, Expire(r)
      PROVE  session[x].gen # 0 =>
               \/ session'[x].gen # 0 \/ request'[x].state # "Awaiting"
               \/ \E l \in tasks' : l.r = x /\ l.pc # "new"
  BY <1>5, <1>0 DEF Expire, Live, Late, SessionSet
<1> QED
  BY <1>1, <1>2, <1>3, <1>4, <1>5
     DEF Next, vars, Restate, Unheard, BeginJoin, Joined

(* Where a request that is being minted goes.                               *)
LEMMA MintMoves ==
    ASSUME ControlSeatAssumption, SeatInv, [Next]_vars, NEW x \in Reqs, NEW q \in Requesters
    PROVE  requester[q].pc = "mint" /\ requester[q].req = x =>
               \/ requester'[q].pc = "mint" /\ requester'[q].req = x
               \/ session'[x].gen # 0 \/ request'[x].state # "Awaiting"
<1>0. /\ SeatTypes /\ session \in [Reqs -> SessionSet] /\ request \in [Reqs -> RequestSet]
      /\ requester \in [Requesters -> RequesterSet] /\ Desk \in Requesters /\ request[x] \in RequestSet
  BY DEF SeatInv, SeatTypes, ControlSeatAssumption
<1>1. CASE UNCHANGED requester
  BY <1>1, <1>0
<1>2. ASSUME NEW p \in Requesters, Requester(p) \/ (\E t \in Targets : Ask(p, t))
      PROVE  requester[q].pc = "mint" /\ requester[q].req = x =>
               \/ requester'[q].pc = "mint" /\ requester'[q].req = x
               \/ session'[x].gen # 0 \/ request'[x].state # "Awaiting"
  <2>1. CASE Open(p)
    BY <2>1, <1>0 DEF Open, Goes, RequesterSet
  <2>2. CASE Spawn(p)
    BY <2>2, <1>0 DEF Spawn, Goes, RequesterSet
  <2>3. CASE Accept(p)
    BY <2>3, <1>0, AcceptFacts DEF RequesterSet
  <2>4. CASE Mint(p)
    BY <2>4, <1>0 DEF Mint, Goes, Told, NoSession, RequesterSet
  <2>5. CASE Status(p)
    BY <2>5, <1>0 DEF Status
  <2>6. ASSUME NEW t \in Targets, Ask(p, t)
        PROVE  requester[q].pc = "mint" /\ requester[q].req = x =>
               \/ requester'[q].pc = "mint" /\ requester'[q].req = x
               \/ session'[x].gen # 0 \/ request'[x].state # "Awaiting"
    BY <2>6, <1>0 DEF Ask
  <2> QED
    BY <1>2, <2>1, <2>2, <2>3, <2>4, <2>5, <2>6 DEF Requester
<1>3. ASSUME NEW g \in Gens, Serve(g) \/ EndServing(g) \/ Desktop(g)
      PROVE  requester[q].pc = "mint" /\ requester[q].req = x =>
               \/ requester'[q].pc = "mint" /\ requester'[q].req = x
               \/ session'[x].gen # 0 \/ request'[x].state # "Awaiting"
  <2>1. CASE Answered(g)
    BY <2>1, <1>0 DEF Answered
  <2>2. CASE \/ Serve(g) \/ EndServing(g) \/ (\E t \in Targets : Begin(g, t))
             \/ ReadChallenge(g) \/ Confirm(g) \/ Dismiss(g) \/ ReadOutcome(g)
             \/ GiveUp(g) \/ Exit(g)
    BY <2>2, <1>1
       DEF Serve, EndServing, Begin, ReadChallenge, Confirm, Dismiss,
           ReadOutcome, GiveUp, Exit
  <2> QED
    BY <1>3, <2>1, <2>2 DEF Desktop
<1>4. ASSUME NEW k \in tasks, Task(k)
      PROVE  requester[q].pc = "mint" /\ requester[q].req = x =>
               \/ requester'[q].pc = "mint" /\ requester'[q].req = x
               \/ session'[x].gen # 0 \/ request'[x].state # "Awaiting"
  BY <1>4, <1>1
     DEF Task, Take, Reject, RejectRequest, StageSecret, Execute,
         ConfirmDeletion, StartConfirmed, Settle
<1>5. CASE Unheard
  BY <1>5, <1>0 DEF Unheard
<1> QED
  BY <1>1, <1>2, <1>3, <1>4, <1>5
     DEF Next, vars, Expire, Restate, BeginJoin, Joined

(* Where a request that waits comes from.                                   *)
LEMMA RequestMoves ==
    ASSUME ControlSeatAssumption, SeatInv, [Next]_vars, NEW x \in Reqs
    PROVE  request'[x].state = "Awaiting" =>
               \/ request[x].state = "Awaiting"
               \/ \E q \in Requesters : requester'[q].pc = "mint" /\ requester'[q].req = x
<1>0. /\ SeatTypes /\ request \in [Reqs -> RequestSet] /\ request[x] \in RequestSet
      /\ requester \in [Requesters -> RequesterSet]
  BY DEF SeatInv, SeatTypes
<1>1. CASE UNCHANGED request
  BY <1>1, <1>0
<1>2. ASSUME NEW p \in Requesters, Requester(p) \/ (\E t \in Targets : Ask(p, t))
      PROVE  request'[x].state = "Awaiting" =>
               \/ request[x].state = "Awaiting"
               \/ \E q \in Requesters : requester'[q].pc = "mint" /\ requester'[q].req = x
  <2>1. CASE Open(p)
    BY <2>1, <1>0 DEF Open, CloseSeat, Invalidate, Live, Told
  <2>2. CASE Spawn(p)
    <3>1. request' = request \/ request' = Told(Live, "ConfirmationUnavailable")
      BY <2>2 DEF Spawn, Invalidate
    <3> QED
      BY <3>1, <1>0 DEF Told
  <2>3. CASE Accept(p)
    <3>1. CASE request' = Told(Late, "Rejected") /\ session' = Without(Late)
      BY <3>1, <1>0 DEF Told, Late, Live, RequesterSet
    <3>2. ASSUME NEW r \in Reqs, request[r] = NoRequest, session' = Without(Late),
                 request'[r].state = IF seat # 0 THEN "Awaiting" ELSE "ConfirmationUnavailable",
                 requester' = [requester EXCEPT ![p].pc = IF seat # 0 THEN "mint" ELSE "accepted", ![p].req = r],
                 \A s \in Reqs : s # r =>
                    /\ s \in Late => request'[s].state \in {"Rejected", "retired"}
                    /\ s \notin Late => \/ request'[s] = request[s]
                                        \/ s \in Settled /\ request'[s].state = "retired"
          PROVE  request'[x].state = "Awaiting" =>
                   \/ request[x].state = "Awaiting"
                   \/ \E q \in Requesters : requester'[q].pc = "mint" /\ requester'[q].req = x
      <4>1. CASE x = r
        BY <3>2, <4>1, <1>0 DEF Told, Late, Live, RequesterSet
      <4>2. CASE x # r
        BY <3>2, <4>2, <1>0 DEF Told, Late, Live, RequesterSet
      <4> QED
        BY <4>1, <4>2
    <3> QED
      BY <2>3, <3>1, <3>2, <1>0, AcceptFacts
  <2>4. CASE Mint(p)
    BY <2>4, <1>0 DEF Mint, Told
  <2>5. CASE Status(p)
    BY <2>5, <1>0 DEF Status, SettleExpired, Told, Late, Live
  <2>6. CASE (\E t \in Targets : Ask(p, t))
    BY <2>6, <1>1 DEF Ask
  <2> QED
    BY <1>2, <2>1, <2>2, <2>3, <2>4, <2>5, <2>6 DEF Requester
<1>3. ASSUME NEW g \in Gens, Serve(g) \/ EndServing(g) \/ Desktop(g)
      PROVE  request'[x].state = "Awaiting" =>
               \/ request[x].state = "Awaiting"
               \/ \E q \in Requesters : requester'[q].pc = "mint" /\ requester'[q].req = x
  <2>1. CASE EndServing(g)
    BY <2>1, <1>0 DEF EndServing, CloseSeat, Invalidate, Live, Told
  <2>2. CASE \/ Serve(g) \/ (\E t \in Targets : Begin(g, t)) \/ Answered(g)
             \/ ReadChallenge(g) \/ Confirm(g) \/ Dismiss(g) \/ ReadOutcome(g)
             \/ GiveUp(g) \/ Exit(g)
    BY <2>2, <1>1
       DEF Serve, Begin, Answered, ReadChallenge, Confirm, Dismiss, ReadOutcome,
           GiveUp, Exit
  <2> QED
    BY <1>3, <2>1, <2>2 DEF Desktop
<1>4. ASSUME NEW k \in tasks, Task(k)
      PROVE  request'[x].state = "Awaiting" =>
               \/ request[x].state = "Awaiting"
               \/ \E q \in Requesters : requester'[q].pc = "mint" /\ requester'[q].req = x
  <2>1. CASE Take(k)
    BY <2>1, <1>0 DEF Take, Late, Live, Told
  <2>2. CASE Reject(k)
    BY <2>2, <1>0 DEF Reject, Late, Live, Told
  <2>3. CASE RejectRequest(k)
    BY <2>3, <1>0 DEF RejectRequest, Told
  <2>4. CASE StageSecret(k)
    BY <2>4, <1>0 DEF StageSecret, Late, Live, Told
  <2>5. CASE Settle(k)
    BY <2>5, <1>0 DEF Settle, Told
  <2>6. CASE \/ Execute(k) \/ ConfirmDeletion(k) \/ StartConfirmed(k)
    BY <2>6, <1>1 DEF Execute, ConfirmDeletion, StartConfirmed
  <2> QED
    BY <1>4, <2>1, <2>2, <2>3, <2>4, <2>5, <2>6 DEF Task
<1> QED
  BY <1>1, <1>2, <1>3, <1>4
     DEF Next, vars, Expire, Restate, Unheard, BeginJoin, Joined

(* Where an effect comes from.                                              *)
LEMMA EffectMoves ==
    ASSUME ControlSeatAssumption, SeatInv, [Next]_vars, NEW x \in Reqs
    PROVE  x \in effects' =>
               x \in effects \/ \E l \in tasks' : l.r = x /\ l.pc \in {"start", "settle", "unknown"}
<1>0. /\ tasks \subseteq TaskSet /\ x \in Reqs
  BY DEF SeatInv, SeatTypes
<1>1. CASE UNCHANGED effects
  BY <1>1, <1>0
<1>2. ASSUME NEW p \in Requesters, Requester(p) \/ (\E t \in Targets : Ask(p, t))
      PROVE  x \in effects' =>
               x \in effects \/ \E l \in tasks' : l.r = x /\ l.pc \in {"start", "settle", "unknown"}
  BY <1>2, <1>1 DEF Requester, Open, Spawn, Accept, Mint, Status, Ask
<1>3. ASSUME NEW g \in Gens, Serve(g) \/ EndServing(g) \/ Desktop(g)
      PROVE  x \in effects' =>
               x \in effects \/ \E l \in tasks' : l.r = x /\ l.pc \in {"start", "settle", "unknown"}
  BY <1>3, <1>1
     DEF Desktop, Serve, EndServing, Begin, Answered, ReadChallenge, Confirm,
         Dismiss, ReadOutcome, GiveUp, Exit
<1>4. ASSUME NEW k \in tasks, Task(k)
      PROVE  x \in effects' =>
               x \in effects \/ \E l \in tasks' : l.r = x /\ l.pc \in {"start", "settle", "unknown"}
  <2>1. CASE Execute(k)
    <3>1. PICK pc \in {"settle", "unknown"} : Step(k, pc) /\ effects' \in {effects, effects \cup {k.r}}
      BY <2>1 DEF Execute
    <3>2. [kind |-> k.kind, r |-> k.r, g |-> k.g, pc |-> pc] \in tasks' /\ [kind |-> k.kind, r |-> k.r, g |-> k.g, pc |-> pc].r = k.r /\ [kind |-> k.kind, r |-> k.r, g |-> k.g, pc |-> pc].pc = pc
      BY <3>1 DEF Step
    <3> QED
      BY <3>1, <3>2
  <2>2. CASE ConfirmDeletion(k)
    <3>1. PICK pc \in {"start", "unknown"} : Step(k, pc) /\ effects' \in {effects, effects \cup {k.r}}
      BY <2>2 DEF ConfirmDeletion
    <3>2. [kind |-> k.kind, r |-> k.r, g |-> k.g, pc |-> pc] \in tasks' /\ [kind |-> k.kind, r |-> k.r, g |-> k.g, pc |-> pc].r = k.r /\ [kind |-> k.kind, r |-> k.r, g |-> k.g, pc |-> pc].pc = pc
      BY <3>1 DEF Step
    <3> QED
      BY <3>1, <3>2
  <2>3. CASE \/ Take(k) \/ Reject(k) \/ RejectRequest(k) \/ StageSecret(k)
             \/ StartConfirmed(k) \/ Settle(k)
    BY <2>3, <1>1
       DEF Take, Reject, RejectRequest, StageSecret, StartConfirmed, Settle
  <2> QED
    BY <1>4, <2>1, <2>2, <2>3 DEF Task
<1> QED
  BY <1>1, <1>2, <1>3, <1>4
     DEF Next, vars, Expire, Restate, Unheard, BeginJoin, Joined

(* Nobody else settles a request a task works on.                           *)
LEMMA WorkingStays ==
    ASSUME ControlSeatAssumption, SeatInv, [Next]_vars, NEW l \in tasks, l.pc # "new", l \in tasks'
    PROVE  request'[l.r] = request[l.r] /\ session'[l.r].gen = 0
<1>0. /\ SeatTypes /\ session \in [Reqs -> SessionSet] /\ request \in [Reqs -> RequestSet]
      /\ requester \in [Requesters -> RequesterSet]
      /\ session[l.r] \in SessionSet /\ request[l.r] \in RequestSet /\ l.r \in Reqs
      /\ Minted(l.r) /\ request[l.r].state = "Awaiting" /\ session[l.r].gen = 0
      /\ NoSession.gen = 0
  BY TaskForms DEF SeatInv, SeatTypes, Working, NoSession
<1>u. \A k \in tasks : k.r = l.r /\ k.pc # "new" => k = l
  BY DEF SeatInv, Working
<1>1. CASE UNCHANGED <<request, session>>
  BY <1>1, <1>0, <1>u
<1>2. ASSUME NEW p \in Requesters, Requester(p) \/ (\E t \in Targets : Ask(p, t))
      PROVE  request'[l.r] = request[l.r] /\ session'[l.r].gen = 0
  <2>1. CASE Open(p)
    BY <2>1, <1>0, <1>u DEF Open, CloseSeat, Invalidate, Live, Told, Without
  <2>2. CASE Spawn(p)
    BY <2>2, <1>0, <1>u DEF Spawn, Invalidate, Live, Told, Without
  <2>3. CASE Accept(p)
    <3>1. CASE request' = Told(Late, "Rejected") /\ session' = Without(Late)
      BY <3>1, <1>0 DEF Without, Told, Late, Live, NoRequest, Settled
    <3>2. ASSUME NEW r \in Reqs, request[r] = NoRequest, session' = Without(Late),
                 request'[r].state = IF seat # 0 THEN "Awaiting" ELSE "ConfirmationUnavailable",
                 requester' = [requester EXCEPT ![p].pc = IF seat # 0 THEN "mint" ELSE "accepted", ![p].req = r],
                 \A s \in Reqs : s # r =>
                    /\ s \in Late => request'[s].state \in {"Rejected", "retired"}
                    /\ s \notin Late => \/ request'[s] = request[s]
                                        \/ s \in Settled /\ request'[s].state = "retired"
          PROVE  request'[l.r] = request[l.r] /\ session'[l.r].gen = 0
      <4>1. CASE l.r = r
        BY <3>2, <4>1, <1>0 DEF Without, Told, Late, Live, NoRequest, Settled
      <4>2. CASE l.r # r
        BY <3>2, <4>2, <1>0 DEF Without, Told, Late, Live, NoRequest, Settled
      <4> QED
        BY <4>1, <4>2
    <3> QED
      BY <2>3, <3>1, <3>2, <1>0, AcceptFacts
  <2>4. CASE Mint(p)
    BY <2>4, <1>0, <1>u DEF Mint, Told, Minted
  <2>5. CASE Status(p)
    BY <2>5, <1>0, <1>u DEF Status, SettleExpired, Told, Without, Late, Live
  <2>6. CASE (\E t \in Targets : Ask(p, t))
    BY <2>6, <1>1 DEF Ask
  <2> QED
    BY <1>2, <2>1, <2>2, <2>3, <2>4, <2>5, <2>6 DEF Requester
<1>3. ASSUME NEW g \in Gens, Serve(g) \/ EndServing(g) \/ Desktop(g)
      PROVE  request'[l.r] = request[l.r] /\ session'[l.r].gen = 0
  <2>1. CASE EndServing(g)
    BY <2>1, <1>0, <1>u
       DEF EndServing, CloseSeat, Invalidate, Live, Told, Without
  <2>2. CASE \/ Serve(g) \/ (\E t \in Targets : Begin(g, t)) \/ Answered(g)
             \/ ReadChallenge(g) \/ Confirm(g) \/ Dismiss(g) \/ ReadOutcome(g)
             \/ GiveUp(g) \/ Exit(g)
    BY <2>2, <1>1
       DEF Serve, Begin, Answered, ReadChallenge, Confirm, Dismiss, ReadOutcome,
           GiveUp, Exit
  <2> QED
    BY <1>3, <2>1, <2>2 DEF Desktop
<1>4. ASSUME NEW k \in tasks, Task(k)
      PROVE  request'[l.r] = request[l.r] /\ session'[l.r].gen = 0
  <2>1. CASE Take(k)
    BY <2>1, <1>0, <1>u DEF Take, Late, Live, Told, Without
  <2>2. CASE Reject(k)
    BY <2>2, <1>0, <1>u DEF Reject, Late, Live, Told, Without
  <2>3. CASE RejectRequest(k)
    BY <2>3, <1>0, <1>u DEF RejectRequest, Told, Reply
  <2>4. CASE StageSecret(k)
    BY <2>4, <1>0, <1>u DEF StageSecret, Late, Live, Told, Without
  <2>5. CASE Settle(k)
    BY <2>5, <1>0, <1>u DEF Settle, Told, Reply
  <2>6. CASE \/ Execute(k) \/ ConfirmDeletion(k) \/ StartConfirmed(k)
    BY <2>6, <1>1 DEF Execute, ConfirmDeletion, StartConfirmed
  <2> QED
    BY <1>4, <2>1, <2>2, <2>3, <2>4, <2>5, <2>6 DEF Task
<1>5. ASSUME NEW r \in Reqs, Expire(r)
      PROVE  request'[l.r] = request[l.r] /\ session'[l.r].gen = 0
  BY <1>5, <1>0, <1>u DEF Expire, Live, Late
<1> QED
  BY <1>1, <1>2, <1>3, <1>4, <1>5
     DEF Next, vars, Restate, Unheard, BeginJoin, Joined

(* A task works on a request alone.                                         *)
LEMMA WorkingKept ==
    ASSUME ControlSeatAssumption, SeatInv, [Next]_vars, NEW l \in tasks'
    PROVE  Working(l)'
<1>0. /\ \A k \in tasks : Working(k) /\ k.r \in Reqs
      /\ \A r \in Reqs : SessionLive(r) /\ (Minted(r) => Minted(r)')
      /\ request \in [Reqs -> RequestSet] /\ session \in [Reqs -> SessionSet]
      /\ events \in [Gens -> Seq(Messages)]
  BY TaskForms, MintedStays DEF SeatInv, SeatTypes
<1>1. Minted(l.r)'
  <2>1. CASE l \in tasks
    BY <2>1, <1>0 DEF Working
  <2>2. CASE \E k \in tasks : l.r = k.r
    BY <2>2, <1>0 DEF Working
  <2>3. CASE \E g \in Gens : /\ events[g] # <<>> /\ Head(events[g]).t = "inbound"
                             /\ l = Frame(Head(events[g]).kind, Head(events[g]).r, g)
    <3>1. PICK g \in Gens : /\ events[g] # <<>> /\ Head(events[g]).t = "inbound"
                            /\ l = Frame(Head(events[g]).kind, Head(events[g]).r, g)
      BY <2>3
    <3>2. Head(events[g]) = events[g][1] /\ 1 \in DOMAIN events[g]
      BY <3>1, <1>0, TailFacts
    <3>3. Minted(Head(events[g]).r)
      BY <3>1, <3>2 DEF SeatInv, Named, Names, MintedReqs
    <3>4. l.r = Head(events[g]).r /\ Head(events[g]).r \in Reqs
      BY <3>1, <3>3 DEF Frame, Minted
    <3> QED
      BY <3>3, <3>4, <1>0
  <2> QED
    BY <2>1, <2>2, <2>3, TaskOrigins DEF TaskOrigin
<1>2. ASSUME NEW k \in tasks', k.pc # "new", NEW m \in tasks', m.pc # "new", m.r = k.r, k \in tasks
      PROVE  m = k
  <2>1. CASE m \in tasks
    BY <1>2, <2>1, <1>0 DEF Working
  <2>2. CASE \E n \in tasks :
             /\ tasks' = (tasks \ {n}) \cup {m} /\ m.r = n.r
             /\ n.pc # "new" \/ session[n.r].gen # 0
    BY <1>2, <2>2, <1>0 DEF Working
  <2> QED
    BY <1>2, <2>1, <2>2, TaskOrigins DEF TaskOrigin
<1>3. CASE l \in tasks
  BY <1>1, <1>2, <1>3, <1>0, WorkingStays DEF Working
<1>4. ASSUME NEW n \in tasks, tasks' = (tasks \ {n}) \cup {l}, UNCHANGED request, l.r = n.r, l \notin tasks,
             \/ n.pc # "new" /\ UNCHANGED session
             \/ session[n.r].gen # 0 /\ session' = Without({n.r})
      PROVE  Working(l)'
  <2>1. request'[l.r].state = "Awaiting" /\ session'[l.r].gen = 0
    BY <1>4, <1>0 DEF Working, SessionLive, Without, NoSession
  <2>2. ASSUME NEW m \in tasks', m.r = l.r, m.pc # "new"
        PROVE  m = l
    <3>1. m \in tasks => m # n /\ session[n.r].gen = 0
      BY <1>4, <2>2, <1>0 DEF Working
    <3>2. m \in tasks => n.pc = "new"
      BY <1>4, <2>2, <3>1, <1>0 DEF Working
    <3> QED
      BY <1>4, <2>2, <3>1, <3>2
  <2> QED
    BY <1>1, <2>1, <2>2 DEF Working
<1> QED
  BY <1>1, <1>3, <1>4, TaskOrigins DEF TaskOrigin, Working

(* A request that waits goes on being served.                                *)
LEMMA ServedKept ==
    ASSUME ControlSeatAssumption, SeatInv, [Next]_vars, NEW x \in Reqs
    PROVE  Served(x)'
<1>1. SUFFICES ASSUME request'[x].state = "Awaiting",
                      \A q \in Requesters : ~(requester'[q].pc = "mint" /\ requester'[q].req = x)
               PROVE  session'[x].gen # 0 \/ \E l \in tasks' : l.r = x /\ l.pc # "new"
  BY DEF Served
<1>2. request[x].state = "Awaiting" /\ Served(x)
  BY <1>1, RequestMoves DEF SeatInv
<1>3. CASE session[x].gen # 0
  BY <1>1, <1>3, SessionMoves
<1>4. CASE \E p \in Requesters : requester[p].pc = "mint" /\ requester[p].req = x
  BY <1>1, <1>4, MintMoves
<1>5. ASSUME NEW k \in tasks, k.r = x, k.pc # "new"
      PROVE  \E l \in tasks' : l.r = x /\ l.pc # "new"
  BY <1>1, <1>5, TaskMoves
<1> QED
  BY <1>2, <1>3, <1>4, <1>5 DEF Served

(* What took place stays settled so, or about to be.                         *)
LEMMA EffectedKept ==
    ASSUME ControlSeatAssumption, SeatInv, [Next]_vars, NEW x \in Reqs
    PROVE  Effected(x)'
<1>1. CASE x \notin effects
  BY <1>1, EffectMoves DEF Effected
<1>2. CASE request[x].state \in {"Applied", "OutcomeUnavailable", "retired"}
  BY <1>2, SettlesStep DEF Effected, Settled, States
<1>3. ASSUME NEW k \in tasks, k.r = x, k.pc \in {"start", "settle", "unknown"}
      PROVE  Effected(x)'
  BY <1>3, TaskMoves DEF Effected
<1> QED
  BY <1>1, <1>2, <1>3 DEF SeatInv, Effected

-----------------------------------------------------------------------------
(* What was not spawned is not served, and nothing is sent to it.           *)
LEMMA UnspawnedStays ==
    ASSUME ControlSeatAssumption, SeatInv, [Next]_vars, NEW x \in Gens
    PROVE  served'[x] = "none" => served[x] = "none" /\ ~gui'[x].alive /\ events'[x] = <<>> /\ incoming'[x] = <<>>
<1>0. /\ served \in [Gens -> {"none", "run", "ending", "done"}] /\ gui \in [Gens -> GuiSet]
      /\ gui[x] \in GuiSet /\ NoGui.alive = FALSE
      /\ events \in [Gens -> Seq(Messages)] /\ incoming \in [Gens -> Seq(Messages)]
      /\ \A g \in Gens : Unspawned(g)
      /\ served[x] = "none" => ~gui[x].alive /\ events[x] = <<>> /\ incoming[x] = <<>>
  BY DEF SeatInv, SeatTypes, Unspawned, NoGui
<1>w. \A w : /\ [gui[x] EXCEPT !.wait = w].alive = gui[x].alive
  BY <1>0 DEF GuiSet
<1>1. CASE UNCHANGED <<gui, served, events, incoming>>
  BY <1>1, <1>0
<1>2. ASSUME NEW p \in Requesters, Requester(p) \/ (\E t \in Targets : Ask(p, t))
      PROVE  served'[x] = "none" => served[x] = "none" /\ ~gui'[x].alive /\ events'[x] = <<>> /\ incoming'[x] = <<>>
  <2>1. CASE Spawn(p)
    BY <2>1, <1>0 DEF Spawn, GuiSet
  <2>2. CASE Mint(p)
    BY <2>2, <1>0 DEF Mint, guiVars
  <2>3. CASE \/ Open(p) \/ Accept(p) \/ Status(p)
             \/ (\E t \in Targets : Ask(p, t))
    BY <2>3, <1>1 DEF Open, Accept, Status, Ask, guiVars
  <2> QED
    BY <1>2, <2>1, <2>2, <2>3 DEF Requester
<1>3. ASSUME NEW g \in Gens, Serve(g) \/ EndServing(g) \/ Desktop(g)
      PROVE  served'[x] = "none" => served[x] = "none" /\ ~gui'[x].alive /\ events'[x] = <<>> /\ incoming'[x] = <<>>
  <2>1. CASE Serve(g)
    BY <2>1, <1>0 DEF Serve, Dispatch
  <2>2. CASE EndServing(g)
    BY <2>2, <1>0 DEF EndServing, guiVars
  <2>3. ASSUME NEW t \in Targets, Begin(g, t)
        PROVE  served'[x] = "none" => served[x] = "none" /\ ~gui'[x].alive /\ events'[x] = <<>> /\ incoming'[x] = <<>>
    BY <2>3, <1>0 DEF Begin, Idle, GuiSet
  <2>4. CASE Answered(g)
    BY <2>4, <1>0 DEF Answered, GuiSet
  <2>5. CASE ReadChallenge(g)
    BY <2>5, <1>0 DEF ReadChallenge, Presents
  <2>6. CASE Confirm(g)
    BY <2>6, <1>0 DEF Confirm, Idle, Sends, Taken
  <2>7. CASE Dismiss(g)
    BY <2>7, <1>0 DEF Dismiss, Idle, Sends, Taken
  <2>8. CASE ReadOutcome(g)
    BY <2>8, <1>0 DEF ReadOutcome, Presents, Sends
  <2>9. CASE GiveUp(g)
    BY <2>9, <1>0 DEF GiveUp, GuiSet
  <2>10. CASE Exit(g)
    BY <2>10, <1>0 DEF Exit
  <2> QED
    BY <1>3, <2>1, <2>2, <2>3, <2>4, <2>5, <2>6, <2>7, <2>8, <2>9, <2>10
       DEF Desktop
<1>4. ASSUME NEW k \in tasks, Task(k)
      PROVE  served'[x] = "none" => served[x] = "none" /\ ~gui'[x].alive /\ events'[x] = <<>> /\ incoming'[x] = <<>>
  <2>1. CASE Take(k)
    BY <2>1, <1>0 DEF Take, Reply, guiVars
  <2>2. CASE Reject(k)
    BY <2>2, <1>0 DEF Reject, Reply, guiVars
  <2>3. CASE RejectRequest(k)
    BY <2>3, <1>0 DEF RejectRequest, Reply, guiVars
  <2>4. CASE StageSecret(k)
    BY <2>4, <1>0 DEF StageSecret, Reply, guiVars
  <2>5. CASE Settle(k)
    BY <2>5, <1>0 DEF Settle, Reply, guiVars
  <2>6. CASE \/ Execute(k) \/ ConfirmDeletion(k) \/ StartConfirmed(k)
    BY <2>6, <1>1 DEF Execute, ConfirmDeletion, StartConfirmed, guiVars
  <2> QED
    BY <1>4, <2>1, <2>2, <2>3, <2>4, <2>5, <2>6 DEF Task
<1> QED
  BY <1>1, <1>2, <1>3, <1>4
     DEF Next, vars, Expire, Restate, Unheard, BeginJoin, Joined, guiVars

(* The desktop that lives keeps the seat.                                   *)
LEMMA SeatedKept ==
    ASSUME ControlSeatAssumption, SeatInv, [Next]_vars
    PROVE  LiveDesktopIsSeated'
<1>a. /\ served \in [Gens -> {"none", "run", "ending", "done"}] /\ gui \in [Gens -> GuiSet]
      /\ seat \in 0..MaxSeats /\ child \in 0..MaxSeats /\ LiveDesktopIsSeated
  BY DEF SeatInv, SeatTypes
<1>b. child # 0 => child \in Gens
  BY <1>a DEF Gens, ControlSeatAssumption
<1>0. /\ served \in [Gens -> {"none", "run", "ending", "done"}] /\ gui \in [Gens -> GuiSet]
      /\ seat \in 0..MaxSeats /\ child \in 0..MaxSeats
      /\ child # 0 => child \in Gens /\ gui[child] \in GuiSet
      /\ LiveDesktopIsSeated
  BY <1>a, <1>b
<1>1. CASE UNCHANGED <<seat, child, gui, served>>
  BY <1>1, <1>0 DEF LiveDesktopIsSeated
<1>2. ASSUME NEW p \in Requesters, Requester(p) \/ (\E t \in Targets : Ask(p, t))
      PROVE  LiveDesktopIsSeated'
  <2>1. CASE Open(p)
    BY <2>1, <1>0 DEF Open, CloseSeat, guiVars, LiveDesktopIsSeated
  <2>2. CASE Spawn(p)
    BY <2>2, <1>0 DEF Spawn, LiveDesktopIsSeated
  <2>3. CASE \/ Accept(p) \/ Mint(p) \/ Status(p)
             \/ (\E t \in Targets : Ask(p, t))
    BY <2>3, <1>1 DEF Accept, Mint, Status, Ask, seatVars, guiVars
  <2> QED
    BY <1>2, <2>1, <2>2, <2>3 DEF Requester
<1>3. ASSUME NEW g \in Gens, Serve(g) \/ EndServing(g) \/ Desktop(g)
      PROVE  LiveDesktopIsSeated'
  <2>1. CASE Serve(g)
    BY <2>1, <1>0 DEF Serve, seatVars, LiveDesktopIsSeated
  <2>2. CASE EndServing(g)
    BY <2>2, <1>0 DEF EndServing, CloseSeat, guiVars, LiveDesktopIsSeated
  <2>3. ASSUME NEW t \in Targets, Begin(g, t)
        PROVE  LiveDesktopIsSeated'
    BY <2>3, <1>0 DEF Begin, Idle, seatVars, LiveDesktopIsSeated
  <2>4. CASE Answered(g)
    BY <2>4, <1>0 DEF Answered, seatVars, LiveDesktopIsSeated
  <2>5. CASE ReadChallenge(g)
    BY <2>5, <1>0 DEF ReadChallenge, Presents, seatVars, LiveDesktopIsSeated
  <2>6. CASE Confirm(g)
    BY <2>6, <1>0 DEF Confirm, Idle, Taken, seatVars, LiveDesktopIsSeated
  <2>7. CASE Dismiss(g)
    BY <2>7, <1>0 DEF Dismiss, Idle, Taken, seatVars, LiveDesktopIsSeated
  <2>8. CASE ReadOutcome(g)
    BY <2>8, <1>0 DEF ReadOutcome, Presents, seatVars, LiveDesktopIsSeated
  <2>9. CASE GiveUp(g)
    BY <2>9, <1>0 DEF GiveUp, seatVars, LiveDesktopIsSeated
  <2>10. CASE Exit(g)
    BY <2>10, <1>0 DEF Exit, seatVars, LiveDesktopIsSeated
  <2> QED
    BY <1>3, <2>1, <2>2, <2>3, <2>4, <2>5, <2>6, <2>7, <2>8, <2>9, <2>10
       DEF Desktop
<1>4. ASSUME NEW k \in tasks, Task(k)
      PROVE  LiveDesktopIsSeated'
  BY <1>4, <1>1
     DEF Task, Take, Reject, RejectRequest, StageSecret, Execute,
         ConfirmDeletion, StartConfirmed, Settle, seatVars, guiVars
<1> QED
  BY <1>1, <1>2, <1>3, <1>4
     DEF Next, vars, Expire, Restate, Unheard, BeginJoin, Joined, seatVars,
         guiVars

(* After the join no frame is dispatched.                                   *)
LEMMA JoinedKept ==
    ASSUME ControlSeatAssumption, SeatInv, [Next]_vars
    PROVE  JoinedIsQuiet'
<1>0. JoinedIsQuiet
  BY DEF SeatInv
<1>1. CASE UNCHANGED <<tasks, stop>>
  BY <1>1, <1>0 DEF JoinedIsQuiet
<1>2. ASSUME NEW p \in Requesters, Requester(p) \/ (\E t \in Targets : Ask(p, t))
      PROVE  JoinedIsQuiet'
  BY <1>2, <1>1 DEF Requester, Open, Spawn, Accept, Mint, Status, Ask
<1>3. ASSUME NEW g \in Gens, Serve(g) \/ EndServing(g) \/ Desktop(g)
      PROVE  JoinedIsQuiet'
  <2>1. CASE Serve(g)
    BY <2>1, <1>0 DEF Serve, Dispatch, Frame, JoinedIsQuiet
  <2>2. CASE \/ EndServing(g) \/ (\E t \in Targets : Begin(g, t))
             \/ Answered(g) \/ ReadChallenge(g) \/ Confirm(g) \/ Dismiss(g)
             \/ ReadOutcome(g) \/ GiveUp(g) \/ Exit(g)
    BY <2>2, <1>1
       DEF EndServing, Begin, Answered, ReadChallenge, Confirm, Dismiss,
           ReadOutcome, GiveUp, Exit
  <2> QED
    BY <1>3, <2>1, <2>2 DEF Desktop
<1>4. ASSUME NEW k \in tasks, Task(k)
      PROVE  JoinedIsQuiet'
  <2>1. CASE Take(k)
    BY <2>1, <1>0 DEF Take, Step, Reply, JoinedIsQuiet
  <2>2. CASE Reject(k)
    BY <2>2, <1>0 DEF Reject, Step, Reply, JoinedIsQuiet
  <2>3. CASE RejectRequest(k)
    BY <2>3, <1>0 DEF RejectRequest, Reply, JoinedIsQuiet
  <2>4. CASE StageSecret(k)
    BY <2>4, <1>0 DEF StageSecret, Reply, JoinedIsQuiet
  <2>5. CASE Execute(k)
    BY <2>5, <1>0 DEF Execute, Step, JoinedIsQuiet
  <2>6. CASE ConfirmDeletion(k)
    BY <2>6, <1>0 DEF ConfirmDeletion, Step, JoinedIsQuiet
  <2>7. CASE StartConfirmed(k)
    BY <2>7, <1>0 DEF StartConfirmed, Step, JoinedIsQuiet
  <2>8. CASE Settle(k)
    BY <2>8, <1>0 DEF Settle, Reply, JoinedIsQuiet
  <2> QED
    BY <1>4, <2>1, <2>2, <2>3, <2>4, <2>5, <2>6, <2>7, <2>8 DEF Task
<1>5. CASE BeginJoin
  BY <1>5, <1>0 DEF BeginJoin, JoinedIsQuiet
<1>6. CASE Joined
  BY <1>6, <1>0 DEF Joined, JoinedIsQuiet
<1> QED
  BY <1>1, <1>2, <1>3, <1>4, <1>5, <1>6 DEF Next, vars, Expire, Restate, Unheard

(* A deletion starts once.                                                  *)
LEMMA StartsKept ==
    ASSUME ControlSeatAssumption, SeatInv, [Next]_vars
    PROVE  StartsOnce'
<1>0. /\ StartsOnce
      /\ deletion \in [Deletions -> [row : {"staged", "confirmed", "started"}, starts : Nat]]
  BY DEF SeatInv, SeatTypes
<1>1. CASE UNCHANGED deletion
  BY <1>1, <1>0 DEF StartsOnce
<1>2. ASSUME NEW p \in Requesters, Requester(p) \/ (\E t \in Targets : Ask(p, t))
      PROVE  StartsOnce'
  BY <1>2, <1>1 DEF Requester, Open, Spawn, Accept, Mint, Status, Ask
<1>3. ASSUME NEW g \in Gens, Serve(g) \/ EndServing(g) \/ Desktop(g)
      PROVE  StartsOnce'
  BY <1>3, <1>1
     DEF Desktop, Serve, EndServing, Begin, Answered, ReadChallenge, Confirm,
         Dismiss, ReadOutcome, GiveUp, Exit
<1>4. ASSUME NEW k \in tasks, Task(k)
      PROVE  StartsOnce'
  <2>1. CASE ConfirmDeletion(k)
    BY <2>1, <1>0 DEF ConfirmDeletion, StartsOnce
  <2>2. CASE StartConfirmed(k)
    BY <2>2, <1>0 DEF StartConfirmed, StartDeletion, StartsOnce
  <2>3. CASE \/ Take(k) \/ Reject(k) \/ RejectRequest(k) \/ StageSecret(k)
             \/ Execute(k) \/ Settle(k)
    BY <2>3, <1>1 DEF Take, Reject, RejectRequest, StageSecret, Execute, Settle
  <2> QED
    BY <1>4, <2>1, <2>2, <2>3 DEF Task
<1>5. ASSUME NEW d \in Deletions, Restate(d)
      PROVE  StartsOnce'
  BY <1>5, <1>0 DEF Restate, StartDeletion, StartsOnce
<1> QED
  BY <1>1, <1>2, <1>3, <1>4, <1>5
     DEF Next, vars, Expire, Unheard, BeginJoin, Joined

(* What was not spawned leaves no trace.                                     *)
LEMMA UnspawnedKept ==
    ASSUME ControlSeatAssumption, SeatInv, [Next]_vars, NEW x \in Gens
    PROVE  Unspawned(x)'
<1>1. ASSUME served'[x] = "none", NEW l \in tasks'
      PROVE  l.g # x
  <2>1. served[x] = "none" /\ \A k \in tasks : k.g # x
    BY <1>1, UnspawnedStays DEF SeatInv, Unspawned
  <2>2. CASE \E g \in Gens : served[g] = "run" /\ l = Frame(Head(events[g]).kind, Head(events[g]).r, g)
    BY <2>1, <2>2 DEF Frame
  <2>3. CASE \E k \in tasks : l.g = k.g
    BY <2>1, <2>3
  <2> QED
    BY <2>1, <2>2, <2>3, TaskOrigins DEF TaskOrigin
<1> QED
  BY <1>1, UnspawnedStays DEF Unspawned

(* What a desktop presents, puts back or takes keeps its names.              *)
LEMMA PresentNames ==
    ASSUME ControlSeatAssumption, gui \in [Gens -> GuiSet], NEW x \in Gens, GuiNames(x),
           MintedReqs \subseteq MintedReqs', NEW r \in MintedReqs',
           \/ gui'[x] = Presents(x, r) \/ gui'[x] = [Presents(x, r) EXCEPT !.wait = "idle"]
           \/ gui'[x] = Deferring(x, r)
    PROVE  GuiNames(x)'
<1>1. /\ gui[x] \in GuiSet /\ gui[x].deferred \in Seq(Reqs) /\ r \in Reqs
      /\ MintedReqs \subseteq Reqs
  BY DEF GuiSet, MintedReqs
<1> DEFINE D == gui'[x].deferred
<1>2. /\ gui'[x].challenge \in {r, gui[x].challenge} /\ gui'[x].of = gui[x].of
      /\ gui'[x].wait \in {"idle", gui[x].wait}
      /\ \/ D = gui[x].deferred \/ D = Put(gui[x].deferred, r)
         \/ gui[x].challenge # 0 /\ D = Put(gui[x].deferred, gui[x].challenge)
  BY <1>1 DEF GuiSet, Presents, Deferring
<1>3. ASSUME NEW s \in MintedReqs', s \in Reqs, NEW i \in DOMAIN Put(gui[x].deferred, s)
      PROVE  Put(gui[x].deferred, s)[i] \in MintedReqs'
  BY <1>1, <1>3, PutFacts DEF GuiNames
<1>4. \A i \in DOMAIN D : D[i] \in MintedReqs'
  BY <1>1, <1>2, <1>3 DEF GuiNames
<1> QED
  BY <1>2, <1>4 DEF GuiNames

LEMMA TakenNames ==
    ASSUME ControlSeatAssumption, gui \in [Gens -> GuiSet], NEW x \in Gens, GuiNames(x),
           MintedReqs \subseteq MintedReqs', Shown(x) # 0, NEW w \in Waits,
           gui'[x] = [Taken(x) EXCEPT !.wait = w, !.of = Shown(x)]
    PROVE  GuiNames(x)' /\ Shown(x) \in MintedReqs
<1>1. gui[x] \in GuiSet /\ gui[x].deferred \in Seq(Reqs)
  BY DEF GuiSet
<1> DEFINE D == gui'[x].deferred
<1>2. /\ gui'[x].challenge \in {0, gui[x].challenge} /\ gui'[x].of = Shown(x) /\ gui'[x].wait = w
      /\ D = gui[x].deferred \/ (gui[x].deferred # <<>> /\ D = Tail(gui[x].deferred))
  BY <1>1 DEF GuiSet, Taken, Shown
<1>3. gui[x].deferred # <<>> =>
        /\ Head(gui[x].deferred) \in MintedReqs
        /\ \A i \in DOMAIN Tail(gui[x].deferred) : Tail(gui[x].deferred)[i] \in MintedReqs
  BY <1>1, TailFacts DEF GuiNames
<1>4. \A i \in DOMAIN D : D[i] \in MintedReqs'
  BY <1>2, <1>3 DEF GuiNames
<1>5. Shown(x) \in MintedReqs
  BY <1>3 DEF Shown, GuiNames
<1> QED
  BY <1>2, <1>4, <1>5 DEF GuiNames

(* The queues name requests that were minted.                               *)
LEMMA EventsNamed ==
    ASSUME ControlSeatAssumption, SeatInv, [Next]_vars, NEW x \in Gens
    PROVE  Names(events'[x], MintedReqs')
<1>0. /\ events \in [Gens -> Seq(Messages)] /\ requester \in [Requesters -> RequesterSet]
      /\ incoming \in [Gens -> Seq(Messages)] /\ gui \in [Gens -> GuiSet]
      /\ tasks \subseteq TaskSet /\ seat \in 0..MaxSeats /\ events[x] \in Seq(Messages)
      /\ \A g \in Gens : events[g] \in Seq(Messages) /\ incoming[g] \in Seq(Messages)
  BY DEF SeatInv, SeatTypes
<1>r. MintedReqs \subseteq MintedReqs'
  BY MintedStays DEF MintedReqs
<1>n. \A g \in Gens : Names(events[g], MintedReqs) /\ Names(incoming[g], MintedReqs) /\ GuiNames(g)
  BY DEF SeatInv, Named
<1>e. /\ Names(events[x], MintedReqs')
      /\ \A m \in Messages : m.t = "closed" \/ m.r \in MintedReqs' => Names(Append(events[x], m), MintedReqs')
      /\ Names(<<>>, MintedReqs')
      /\ events[x] # <<>> =>
           /\ Names(Tail(events[x]), MintedReqs') /\ (Head(events[x]).t # "closed" => Head(events[x]).r \in MintedReqs')
           /\ \A m \in Messages : m.t = "closed" \/ m.r \in MintedReqs' =>
                Names(Append(Tail(events[x]), m), MintedReqs')
  <2>1. Names(events[x], MintedReqs')
    BY <1>0, <1>r, <1>n, ChannelNames
  <2> QED
    BY <2>1, <1>0, ChannelNames
<1>k. \A k \in tasks, t \in Answers :
         [t |-> t, r |-> k.r] \in Messages /\ k.r \in MintedReqs' /\ k.g \in Gens
  <2>1. \A k \in tasks : k.r \in MintedReqs /\ k.r \in Reqs /\ k.g \in Gens
    BY <1>0, TaskForms DEF SeatInv, Working, MintedReqs
  <2> QED
    BY <2>1, <1>r, MessageForms
<1>p. \A k \in tasks, t \in Answers : Reply(k, t) => Names(events'[x], MintedReqs')
  BY <1>0, <1>e, <1>k DEF Reply
<1>d. {"denied", "staged", "outcome", "unavailable"} = Answers
  BY DEF Answers
<1>s. ASSUME NEW g \in Gens, NEW kind \in Kinds, NEW r \in MintedReqs, Sends(g, kind, r)
      PROVE  Names(events'[x], MintedReqs')
  <2>1. [t |-> "inbound", kind |-> kind, r |-> r] \in Messages
    BY MessageForms DEF MintedReqs
  <2> QED
    BY <2>1, <1>0, <1>e, <1>r, <1>s DEF Sends
<1>g. "complete" \in Kinds /\ "reject" \in Kinds /\ "secret" \in Kinds
  BY DEF Kinds
<1>h. \A g \in Gens : Shown(g) # 0 => Shown(g) \in MintedReqs
  <2>1. ASSUME NEW g \in Gens, Shown(g) # 0 PROVE Shown(g) \in MintedReqs
    <3>1. gui[g].deferred \in Seq(Reqs)
      BY <1>0 DEF GuiSet
    <3>2. gui[g].deferred # <<>> => Head(gui[g].deferred) = gui[g].deferred[1] /\ 1 \in DOMAIN gui[g].deferred
      BY <3>1, TailFacts
    <3> QED
      BY <2>1, <3>2, <1>n DEF Shown, GuiNames
  <2> QED
    BY <2>1
<1>1. CASE UNCHANGED events
  BY <1>1, <1>0, <1>e, <1>p, <1>d
<1>2. ASSUME NEW p \in Requesters, Requester(p) \/ (\E t \in Targets : Ask(p, t))
      PROVE  Names(events'[x], MintedReqs')
  <2>1. CASE Mint(p)
    <3>1. requester[p].req \in Reqs /\ request[requester[p].req].state = "Awaiting"
      BY <2>1 DEF SeatInv, Minting, Mint
    <3>2. \A q \in Requesters : requester[q].pc = "mint" /\ requester[q].req = requester[p].req => q = p
      BY <2>1 DEF SeatInv, Minting, Mint
    <3>3. seat # 0 => seat \in Gens
      BY <1>0 DEF Gens, ControlSeatAssumption
    <3>4. CASE events' = events
      BY <3>4, <1>e
    <3>5. CASE /\ seat # 0 /\ request' = request
               /\ events' = [events EXCEPT ![seat] = Append(@, [t |-> "challenge", r |-> requester[p].req])]
      <4>1. requester' = [requester EXCEPT ![p].pc = "accepted"]
        BY <2>1 DEF Mint, Goes
      <4>2. requester[p].req \in MintedReqs'
        BY <3>1, <3>2, <3>5, <4>1, <1>0 DEF MintedReqs, Minted, RequesterSet
      <4>3. [t |-> "challenge", r |-> requester[p].req] \in Messages
        BY <3>1, MessageForms
      <4>4. Names(Append(events[x], [t |-> "challenge", r |-> requester[p].req]), MintedReqs')
        BY <4>2, <4>3, <1>e
      <4> QED
        BY <3>3, <3>5, <4>4, <1>0, <1>e
    <3> QED
      BY <2>1, <3>4, <3>5 DEF Mint
  <2>2. CASE \/ Open(p) \/ Spawn(p) \/ Accept(p) \/ Status(p)
             \/ (\E t \in Targets : Ask(p, t))
    BY <2>2, <1>1 DEF Open, Spawn, Accept, Status, Ask
  <2> QED
    BY <1>2, <2>1, <2>2 DEF Requester
<1>3. ASSUME NEW g \in Gens, Serve(g) \/ EndServing(g) \/ Desktop(g)
      PROVE  Names(events'[x], MintedReqs')
  <2>1. CASE Serve(g)
    <3>1. events[g] # <<>>
      BY <2>1 DEF Serve
    <3>2. Head(events[g]) \in Messages
      BY <3>1, <1>0, TailFacts
    <3>3. Head(events[g]).t = "inbound" => [t |-> "denied", r |-> Head(events[g]).r] \in Messages
      BY <3>2, <1>d, MessageShape, MessageForms
    <3> QED
      BY <2>1, <3>1, <3>3, <1>0, <1>e DEF Serve, Dispatch
  <2>2. CASE EndServing(g)
    BY <2>2, <1>0, <1>e, <1>p, <1>d DEF EndServing
  <2>3. CASE Confirm(g)
    BY <2>3, <1>s, <1>g, <1>h DEF Confirm
  <2>4. CASE Dismiss(g)
    BY <2>4, <1>s, <1>g, <1>h DEF Dismiss
  <2>5. CASE ReadOutcome(g)
    <3>1. gui[g].wait = "staged" => gui[g].of \in MintedReqs
      BY <1>n DEF GuiNames
    <3> QED
      BY <2>5, <3>1, <1>s, <1>g, <1>e DEF ReadOutcome
  <2>6. CASE Exit(g)
    <3>1. [t |-> "closed", r |-> 0] \in Messages
      BY MessageForms
    <3> QED
      BY <2>6, <3>1, <1>0, <1>e DEF Exit
  <2>7. CASE \/ (\E t \in Targets : Begin(g, t)) \/ Answered(g)
             \/ ReadChallenge(g) \/ GiveUp(g)
    BY <2>7, <1>1 DEF Begin, Answered, ReadChallenge, GiveUp
  <2> QED
    BY <1>3, <2>1, <2>2, <2>3, <2>4, <2>5, <2>6, <2>7 DEF Desktop
<1>4. ASSUME NEW k \in tasks, Task(k)
      PROVE  Names(events'[x], MintedReqs')
  <2>1. CASE Take(k)
    BY <2>1, <1>0, <1>e, <1>p, <1>d DEF Take
  <2>2. CASE Reject(k)
    BY <2>2, <1>0, <1>e, <1>p, <1>d DEF Reject
  <2>3. CASE RejectRequest(k)
    BY <2>3, <1>0, <1>e, <1>p, <1>d DEF RejectRequest
  <2>4. CASE StageSecret(k)
    BY <2>4, <1>0, <1>e, <1>p, <1>d DEF StageSecret
  <2>5. CASE Settle(k)
    BY <2>5, <1>0, <1>e, <1>p, <1>d DEF Settle
  <2>6. CASE \/ Execute(k) \/ ConfirmDeletion(k) \/ StartConfirmed(k)
    BY <2>6, <1>1 DEF Execute, ConfirmDeletion, StartConfirmed
  <2> QED
    BY <1>4, <2>1, <2>2, <2>3, <2>4, <2>5, <2>6 DEF Task
<1> QED
  BY <1>1, <1>2, <1>3, <1>4
     DEF Next, vars, Expire, Restate, Unheard, BeginJoin, Joined

(* So does what is not read yet.                                            *)
LEMMA IncomingNamed ==
    ASSUME ControlSeatAssumption, SeatInv, [Next]_vars, NEW x \in Gens
    PROVE  Names(incoming'[x], MintedReqs')
<1>0. /\ events \in [Gens -> Seq(Messages)] /\ requester \in [Requesters -> RequesterSet]
      /\ incoming \in [Gens -> Seq(Messages)] /\ gui \in [Gens -> GuiSet]
      /\ tasks \subseteq TaskSet /\ seat \in 0..MaxSeats /\ events[x] \in Seq(Messages)
      /\ \A g \in Gens : events[g] \in Seq(Messages) /\ incoming[g] \in Seq(Messages)
  BY DEF SeatInv, SeatTypes
<1>r. MintedReqs \subseteq MintedReqs'
  BY MintedStays DEF MintedReqs
<1>n. \A g \in Gens : Names(events[g], MintedReqs) /\ Names(incoming[g], MintedReqs) /\ GuiNames(g)
  BY DEF SeatInv, Named
<1>i. /\ Names(incoming[x], MintedReqs') /\ Names(<<>>, MintedReqs')
      /\ \A m \in Messages : m.t = "closed" \/ m.r \in MintedReqs' => Names(Append(incoming[x], m), MintedReqs')
      /\ incoming[x] # <<>> => Names(Tail(incoming[x]), MintedReqs')
  <2>1. Names(incoming[x], MintedReqs')
    BY <1>0, <1>r, <1>n, ChannelNames
  <2> QED
    BY <2>1, <1>0, ChannelNames
<1>1. CASE UNCHANGED incoming
  BY <1>1, <1>0, <1>i
<1>2. ASSUME NEW p \in Requesters, Requester(p) \/ (\E t \in Targets : Ask(p, t))
      PROVE  Names(incoming'[x], MintedReqs')
  BY <1>2, <1>1 DEF Requester, Open, Spawn, Accept, Mint, Status, Ask, guiVars
<1>3. ASSUME NEW g \in Gens, Serve(g) \/ EndServing(g) \/ Desktop(g)
      PROVE  Names(incoming'[x], MintedReqs')
  <2>1. CASE Serve(g)
    <3>1. events[g] # <<>>
      BY <2>1 DEF Serve
    <3>2. Head(events[g]) \in Messages /\ (Head(events[g]).t # "closed" => Head(events[g]).r \in MintedReqs')
      BY <3>1, <1>0, <1>n, <1>r, TailFacts, ChannelNames
    <3>3. \/ incoming'[x] = incoming[x]
          \/ /\ Head(events[g]).t \notin {"closed", "inbound"}
             /\ incoming'[x] = Append(incoming[x], Head(events[g]))
      BY <2>1, <1>0 DEF Serve
    <3> QED
      BY <3>2, <3>3, <1>i
  <2>2. CASE ReadChallenge(g)
    BY <2>2, <1>0, <1>i DEF ReadChallenge
  <2>3. CASE ReadOutcome(g)
    BY <2>3, <1>0, <1>i DEF ReadOutcome
  <2>4. CASE Exit(g)
    BY <2>4, <1>0, <1>i DEF Exit
  <2>5. CASE \/ EndServing(g) \/ (\E t \in Targets : Begin(g, t))
             \/ Answered(g) \/ Confirm(g) \/ Dismiss(g) \/ GiveUp(g)
    BY <2>5, <1>1
       DEF EndServing, Begin, Answered, Confirm, Dismiss, GiveUp, guiVars
  <2> QED
    BY <1>3, <2>1, <2>2, <2>3, <2>4, <2>5 DEF Desktop
<1>4. ASSUME NEW k \in tasks, Task(k)
      PROVE  Names(incoming'[x], MintedReqs')
  BY <1>4, <1>1
     DEF Task, Take, Reject, RejectRequest, StageSecret, Execute,
         ConfirmDeletion, StartConfirmed, Settle, guiVars
<1> QED
  BY <1>1, <1>2, <1>3, <1>4
     DEF Next, vars, Expire, Restate, Unheard, BeginJoin, Joined, guiVars

(* So do the desktops.                                                      *)
LEMMA DesktopNames ==
    ASSUME ControlSeatAssumption, SeatInv, [Next]_vars, NEW x \in Gens
    PROVE  GuiNames(x)'
<1>0. /\ events \in [Gens -> Seq(Messages)] /\ requester \in [Requesters -> RequesterSet]
      /\ incoming \in [Gens -> Seq(Messages)] /\ gui \in [Gens -> GuiSet]
      /\ tasks \subseteq TaskSet /\ seat \in 0..MaxSeats /\ events[x] \in Seq(Messages)
      /\ \A g \in Gens : events[g] \in Seq(Messages) /\ incoming[g] \in Seq(Messages)
  BY DEF SeatInv, SeatTypes
<1>r. MintedReqs \subseteq MintedReqs'
  BY MintedStays DEF MintedReqs
<1>n. \A g \in Gens : Names(events[g], MintedReqs) /\ Names(incoming[g], MintedReqs) /\ GuiNames(g)
  BY DEF SeatInv, Named
<1>g. /\ gui[x] \in GuiSet /\ gui[x].deferred \in Seq(Reqs)
      /\ gui[x].challenge # 0 => gui[x].challenge \in MintedReqs'
      /\ \A i \in DOMAIN gui[x].deferred : gui[x].deferred[i] \in MintedReqs'
      /\ gui[x].of # 0 => gui[x].of \in MintedReqs'
      /\ gui[x].wait \in {"outcome", "staged"} => gui[x].of # 0
  BY <1>0, <1>n, <1>r DEF GuiSet, GuiNames
<1>y. gui' = gui \/ gui'[x] = gui[x] => GuiNames(x)'
  BY <1>g DEF GuiNames
<1>1. CASE UNCHANGED gui
  BY <1>1, <1>y
<1>2. ASSUME NEW p \in Requesters, Requester(p) \/ (\E t \in Targets : Ask(p, t))
      PROVE  GuiNames(x)'
  <2>1. CASE Spawn(p)
    <3>1. gui'[x] \in {gui[x], [gui[x] EXCEPT !.alive = TRUE]}
      BY <2>1, <1>0 DEF Spawn
    <3> QED
      BY <3>1, <1>g DEF GuiNames, GuiSet
  <2>2. CASE \/ Open(p) \/ Accept(p) \/ Mint(p) \/ Status(p)
             \/ (\E t \in Targets : Ask(p, t))
    BY <2>2, <1>1 DEF Open, Accept, Mint, Status, Ask, guiVars
  <2> QED
    BY <1>2, <2>1, <2>2 DEF Requester
<1>3. ASSUME NEW g \in Gens, Serve(g) \/ EndServing(g) \/ Desktop(g)
      PROVE  GuiNames(x)'
  <2>1. ASSUME NEW t \in Targets, Begin(g, t)
        PROVE  GuiNames(x)'
    BY <2>1, <1>0, <1>g DEF Begin, GuiNames, GuiSet
  <2>2. CASE Answered(g)
    BY <2>2, <1>0, <1>g DEF Answered, GuiNames, GuiSet
  <2>3. CASE ReadChallenge(g)
    <3>1. CASE g # x
      BY <2>3, <3>1, <1>0, <1>y DEF ReadChallenge
    <3>2. CASE g = x
      <4>0. Head(incoming[x]) \in Messages /\ (Head(incoming[x]).t = "challenge" => Head(incoming[x]).r \in MintedReqs')
        BY <2>3, <3>2, <1>0, <1>n, <1>r, TailFacts, ChannelNames DEF ReadChallenge
      <4>1. CASE Head(incoming[x]).t # "challenge"
        BY <2>3, <3>2, <4>1, <1>0, <1>g DEF ReadChallenge, GuiNames, GuiSet
      <4>2. CASE gui'[x] = [Presents(x, Head(incoming[x]).r) EXCEPT !.wait = "idle"] /\ Head(incoming[x]).t = "challenge"
        BY <4>0, <4>2, <1>0, <1>n, <1>r, PresentNames
      <4>3. CASE gui'[x] = Deferring(x, Head(incoming[x]).r) /\ Head(incoming[x]).t = "challenge"
        BY <4>0, <4>3, <1>0, <1>n, <1>r, PresentNames
      <4> QED
        BY <2>3, <3>2, <4>1, <4>2, <4>3, <1>0 DEF ReadChallenge
    <3> QED
      BY <3>1, <3>2
  <2>4. CASE Confirm(g)
    <3>1. CASE g # x
      BY <2>4, <3>1, <1>0, <1>y DEF Confirm
    <3>2. CASE g = x
      <4>1. \E w \in Waits : gui'[x] = [Taken(x) EXCEPT !.wait = w, !.of = Shown(x)]
        BY <2>4, <3>2, <1>0 DEF Confirm, Waits
      <4> QED
        BY <2>4, <3>2, <4>1, <1>0, <1>n, <1>r, TakenNames DEF Confirm
    <3> QED
      BY <3>1, <3>2
  <2>5. CASE Dismiss(g)
    <3>1. CASE g # x
      BY <2>5, <3>1, <1>0, <1>y DEF Dismiss
    <3>2. CASE g = x
      <4>1. \E w \in Waits : gui'[x] = [Taken(x) EXCEPT !.wait = w, !.of = Shown(x)]
        BY <2>5, <3>2, <1>0 DEF Dismiss, Waits
      <4> QED
        BY <2>5, <3>2, <4>1, <1>0, <1>n, <1>r, TakenNames DEF Dismiss
    <3> QED
      BY <3>1, <3>2
  <2>6. CASE ReadOutcome(g)
    <3>1. CASE g # x
      BY <2>6, <3>1, <1>0, <1>y DEF ReadOutcome
    <3>2. CASE g = x
      <4>0. Head(incoming[x]) \in Messages /\ (Head(incoming[x]).t = "challenge" => Head(incoming[x]).r \in MintedReqs')
        BY <2>6, <3>2, <1>0, <1>n, <1>r, TailFacts, ChannelNames DEF ReadOutcome
      <4>1. CASE gui'[x] = Presents(x, Head(incoming[x]).r) /\ Head(incoming[x]).t = "challenge"
        BY <4>0, <4>1, <1>0, <1>n, <1>r, PresentNames
      <4>2. CASE gui'[x] = [gui[x] EXCEPT !.wait = "outcome"] /\ gui[x].wait = "staged"
        BY <4>2, <1>g DEF GuiNames, GuiSet
      <4>3. CASE gui'[x] = [gui[x] EXCEPT !.wait = "idle", !.of = 0]
        BY <4>3, <1>g DEF GuiNames, GuiSet
      <4> QED
        BY <2>6, <3>2, <4>1, <4>2, <4>3, <1>0 DEF ReadOutcome
    <3> QED
      BY <3>1, <3>2
  <2>7. CASE GiveUp(g)
    BY <2>7, <1>0, <1>g DEF GiveUp, GuiNames, GuiSet
  <2>8. CASE Exit(g)
    BY <2>8, <1>0, <1>g DEF Exit, GuiNames, GuiSet, NoGui
  <2>9. CASE \/ Serve(g) \/ EndServing(g)
    BY <2>9, <1>1 DEF Serve, EndServing, guiVars
  <2> QED
    BY <1>3, <2>1, <2>2, <2>3, <2>4, <2>5, <2>6, <2>7, <2>8, <2>9 DEF Desktop
<1>4. ASSUME NEW k \in tasks, Task(k)
      PROVE  GuiNames(x)'
  BY <1>4, <1>1
     DEF Task, Take, Reject, RejectRequest, StageSecret, Execute,
         ConfirmDeletion, StartConfirmed, Settle, guiVars
<1> QED
  BY <1>1, <1>2, <1>3, <1>4
     DEF Next, vars, Expire, Restate, Unheard, BeginJoin, Joined, guiVars

(* The names that are in use stay those of requests that were minted.        *)
LEMMA NamedKept ==
    ASSUME ControlSeatAssumption, SeatInv, [Next]_vars, NEW x \in Gens
    PROVE  Named(x)'
BY EventsNamed, IncomingNamed, DesktopNames DEF Named

-----------------------------------------------------------------------------
(* A wait that ran out is not undone.                                       *)
LEMMA WaitsGrow ==
    ASSUME ControlSeatAssumption, SeatInv, [Next]_vars
    PROVE  waits' = 0 => waits = 0
<1>0. waits \in Nat
  BY DEF SeatInv, SeatTypes
<1>1. CASE UNCHANGED waits
  BY <1>1, <1>0
<1>2. ASSUME NEW p \in Requesters, Requester(p) \/ (\E t \in Targets : Ask(p, t))
      PROVE  waits' = 0 => waits = 0
  BY <1>2, <1>1 DEF Requester, Open, Spawn, Accept, Mint, Status, Ask, guiVars
<1>3. ASSUME NEW g \in Gens, Serve(g) \/ EndServing(g) \/ Desktop(g)
      PROVE  waits' = 0 => waits = 0
  <2>1. CASE GiveUp(g)
    BY <2>1, <1>0 DEF GiveUp
  <2>2. CASE \/ Serve(g) \/ EndServing(g) \/ (\E t \in Targets : Begin(g, t))
             \/ Answered(g) \/ ReadChallenge(g) \/ Confirm(g) \/ Dismiss(g)
             \/ ReadOutcome(g) \/ Exit(g)
    BY <2>2, <1>1
       DEF Serve, EndServing, Begin, Answered, ReadChallenge, Confirm, Dismiss,
           ReadOutcome, Exit, guiVars
  <2> QED
    BY <1>3, <2>1, <2>2 DEF Desktop
<1>4. ASSUME NEW k \in tasks, Task(k)
      PROVE  waits' = 0 => waits = 0
  BY <1>4, <1>1
     DEF Task, Take, Reject, RejectRequest, StageSecret, Execute,
         ConfirmDeletion, StartConfirmed, Settle, guiVars
<1> QED
  BY <1>1, <1>2, <1>3, <1>4
     DEF Next, vars, Expire, Restate, Unheard, BeginJoin, Joined, guiVars

(* A completion, and the answer that a secret was staged, are of a request  *)
(* that may be completed.                                                   *)
LEMMA EventsSecured ==
    ASSUME ControlSeatAssumption, SeatInv, [Next]_vars, NEW x \in Gens, waits' = 0
    PROVE  Secures(events'[x], SecuredReqs')
<1>0. /\ events \in [Gens -> Seq(Messages)] /\ requester \in [Requesters -> RequesterSet]
      /\ incoming \in [Gens -> Seq(Messages)] /\ gui \in [Gens -> GuiSet]
      /\ tasks \subseteq TaskSet /\ seat \in 0..MaxSeats /\ events[x] \in Seq(Messages)
      /\ \A g \in Gens : events[g] \in Seq(Messages) /\ incoming[g] \in Seq(Messages)
  BY DEF SeatInv, SeatTypes
<1>w. waits = 0
  BY WaitsGrow
<1>r. SecuredReqs \subseteq SecuredReqs'
  BY MintedStays, SecuredStays DEF SecuredReqs
<1>n. \A g \in Gens : Secures(events[g], SecuredReqs) /\ Secures(incoming[g], SecuredReqs)
  BY <1>w DEF SeatInv, Completing
<1>e. /\ Secures(events[x], SecuredReqs') /\ Secures(<<>>, SecuredReqs')
      /\ \A m \in Messages : ~(m.t = "staged" \/ (m.t = "inbound" /\ m.kind = "complete")) => Secures(Append(events[x], m), SecuredReqs')
      /\ \A m \in Messages : m.r \in SecuredReqs' => Secures(Append(events[x], m), SecuredReqs')
      /\ events[x] # <<>> =>
           /\ Secures(Tail(events[x]), SecuredReqs')
           /\ \A m \in Messages : ~(m.t = "staged" \/ (m.t = "inbound" /\ m.kind = "complete")) => Secures(Append(Tail(events[x]), m), SecuredReqs')
  <2>1. Secures(events[x], SecuredReqs')
    BY <1>0, <1>r, <1>n, ChannelSecures
  <2> QED
    BY <2>1, <1>0, ChannelSecures
<1>k. \A k \in tasks, t \in Answers : [t |-> t, r |-> k.r] \in Messages /\ k.r \in MintedReqs /\ k.g \in Gens
  <2>1. \A k \in tasks : k.r \in MintedReqs /\ k.r \in Reqs /\ k.g \in Gens
    BY <1>0, TaskForms DEF SeatInv, Working, MintedReqs
  <2> QED
    BY <2>1, MessageForms
<1>p. \A k \in tasks, t \in {"denied", "outcome", "unavailable"} : Reply(k, t) => Secures(events'[x], SecuredReqs')
  <2>1. ASSUME NEW k \in tasks, NEW t \in {"denied", "outcome", "unavailable"}, Reply(k, t)
        PROVE  Secures(events'[x], SecuredReqs')
    <3>1. [t |-> t, r |-> k.r] \in Messages /\ k.g \in Gens
      BY <1>k DEF Answers
    <3>2. Secures(Append(events[x], [t |-> t, r |-> k.r]), SecuredReqs')
      BY <3>1, <1>e
    <3> QED
      BY <2>1, <3>1, <3>2, <1>0, <1>e DEF Reply
  <2> QED
    BY <2>1
<1>s. ASSUME NEW g \in Gens, NEW kind \in Kinds, NEW r \in MintedReqs, Sends(g, kind, r),
             kind = "complete" => r \in SecuredReqs
      PROVE  Secures(events'[x], SecuredReqs')
  <2>1. [t |-> "inbound", kind |-> kind, r |-> r] \in Messages
    BY MessageForms DEF MintedReqs
  <2>2. CASE kind = "complete"
    BY <2>1, <2>2, <1>0, <1>e, <1>r, <1>s DEF Sends
  <2>3. CASE kind # "complete"
    BY <2>1, <2>3, <1>0, <1>e, <1>s DEF Sends
  <2> QED
    BY <2>2, <2>3
<1>g. "complete" \in Kinds /\ "reject" \in Kinds /\ "secret" \in Kinds
  BY DEF Kinds
<1>h. \A g \in Gens : Shown(g) # 0 => Shown(g) \in MintedReqs
  <2>1. ASSUME NEW g \in Gens, Shown(g) # 0 PROVE Shown(g) \in MintedReqs
    <3>1. gui[g].deferred \in Seq(Reqs) /\ GuiNames(g)
      BY <1>0 DEF GuiSet, SeatInv, Named
    <3>2. gui[g].deferred # <<>> => Head(gui[g].deferred) = gui[g].deferred[1] /\ 1 \in DOMAIN gui[g].deferred
      BY <3>1, TailFacts
    <3> QED
      BY <2>1, <3>1, <3>2 DEF Shown, GuiNames
  <2> QED
    BY <2>1
<1>1. CASE UNCHANGED events
  BY <1>1, <1>0, <1>e, <1>p
<1>2. ASSUME NEW p \in Requesters, Requester(p) \/ (\E t \in Targets : Ask(p, t))
      PROVE  Secures(events'[x], SecuredReqs')
  <2>1. CASE Mint(p)
    <3>1. requester[p].req \in Reqs
      BY <2>1 DEF SeatInv, Minting, Mint
    <3>2. [t |-> "challenge", r |-> requester[p].req] \in Messages
      BY <3>1, MessageForms
    <3>3. Secures(Append(events[x], [t |-> "challenge", r |-> requester[p].req]), SecuredReqs')
      BY <3>2, <1>e
    <3>4. seat # 0 => seat \in Gens
      BY <1>0 DEF Gens, ControlSeatAssumption
    <3>5. \/ events' = events
          \/ /\ seat # 0
             /\ events' = [events EXCEPT ![seat] = Append(@, [t |-> "challenge", r |-> requester[p].req])]
      BY <2>1 DEF Mint
    <3> QED
      BY <3>3, <3>4, <3>5, <1>0, <1>e
  <2>2. CASE \/ Open(p) \/ Spawn(p) \/ Accept(p) \/ Status(p)
             \/ (\E t \in Targets : Ask(p, t))
    BY <2>2, <1>1 DEF Open, Spawn, Accept, Status, Ask
  <2> QED
    BY <1>2, <2>1, <2>2 DEF Requester
<1>3. ASSUME NEW g \in Gens, Serve(g) \/ EndServing(g) \/ Desktop(g)
      PROVE  Secures(events'[x], SecuredReqs')
  <2>1. CASE Serve(g)
    <3>1. events[g] # <<>>
      BY <2>1 DEF Serve
    <3>2. Head(events[g]) \in Messages
      BY <3>1, <1>0, TailFacts
    <3>3. Head(events[g]).t = "inbound" => [t |-> "denied", r |-> Head(events[g]).r] \in Messages
      BY <3>2, MessageShape, MessageForms DEF Answers
    <3> QED
      BY <2>1, <3>1, <3>3, <1>0, <1>e DEF Serve, Dispatch
  <2>2. CASE EndServing(g)
    BY <2>2, <1>0, <1>e, <1>p DEF EndServing
  <2>3. CASE Confirm(g)
    <3>1. Shown(g) \in MintedReqs
      BY <2>3, <1>h DEF Confirm
    <3>2. Kind(request[Shown(g)].target) # "credential" => Shown(g) \in SecuredReqs
      BY <3>1 DEF MintedReqs, SecuredReqs, Secured
    <3>3. CASE Kind(request[Shown(g)].target) = "credential"
      BY <2>3, <3>1, <3>3, <1>s, <1>g DEF Confirm
    <3>4. CASE Kind(request[Shown(g)].target) # "credential"
      BY <2>3, <3>1, <3>2, <3>4, <1>s, <1>g DEF Confirm
    <3> QED
      BY <3>3, <3>4
  <2>4. CASE Dismiss(g)
    BY <2>4, <1>s, <1>g, <1>h DEF Dismiss
  <2>5. CASE ReadOutcome(g)
    <3>1. CASE gui[g].wait = "staged" /\ Head(incoming[g]).t = "staged"
      <4>1. incoming[g] # <<>> /\ gui[g].alive /\ gui[g].of \in MintedReqs
        BY <2>5, <3>1 DEF ReadOutcome, SeatInv, Named, GuiNames
      <4>2. OneTalk(incoming[g], gui[g].of)
        BY <4>1, <1>w DEF SeatInv, Talking, Talks
      <4>3. Head(incoming[g]).r = gui[g].of
        <5>1. Talk(Head(incoming[g])) /\ incoming[g] \in Seq(Messages)
          BY <3>1, <1>0 DEF Talk
        <5> QED
          BY <4>1, <4>2, <5>1, ChannelTalk
      <4>4. gui[g].of \in SecuredReqs
        BY <3>1, <4>1, <4>3, <1>0, <1>n, ChannelSecures
      <4> QED
        BY <2>5, <3>1, <4>1, <4>4, <1>s, <1>g DEF ReadOutcome
    <3>2. CASE ~(gui[g].wait = "staged" /\ Head(incoming[g]).t = "staged")
      BY <2>5, <3>2, <1>e DEF ReadOutcome
    <3> QED
      BY <3>1, <3>2
  <2>6. CASE Exit(g)
    <3>1. [t |-> "closed", r |-> 0] \in Messages
      BY MessageForms
    <3> QED
      BY <2>6, <3>1, <1>0, <1>e DEF Exit
  <2>7. CASE \/ (\E t \in Targets : Begin(g, t)) \/ Answered(g)
             \/ ReadChallenge(g) \/ GiveUp(g)
    BY <2>7, <1>1 DEF Begin, Answered, ReadChallenge, GiveUp
  <2> QED
    BY <1>3, <2>1, <2>2, <2>3, <2>4, <2>5, <2>6, <2>7 DEF Desktop
<1>4. ASSUME NEW k \in tasks, Task(k)
      PROVE  Secures(events'[x], SecuredReqs')
  <2>1. CASE Take(k)
    BY <2>1, <1>0, <1>e, <1>p DEF Take
  <2>2. CASE Reject(k)
    BY <2>2, <1>0, <1>e, <1>p DEF Reject
  <2>3. CASE RejectRequest(k)
    BY <2>3, <1>0, <1>e, <1>p DEF RejectRequest
  <2>4. CASE StageSecret(k)
    <3>1. CASE Reply(k, "denied")
      BY <3>1, <1>p
    <3>2. CASE Reply(k, "staged") /\ session' = [session EXCEPT ![k.r].secret = TRUE] /\ request' = request
      <4>1. k.r \in MintedReqs /\ k.r \in Reqs /\ session \in [Reqs -> SessionSet]
        BY <1>k DEF MintedReqs, SeatInv, SeatTypes, Answers
      <4>2. Minted(k.r)' /\ session'[k.r].secret
        BY <3>2, <4>1, MintedStays DEF MintedReqs, SessionSet
      <4>3. k.r \in SecuredReqs'
        BY <4>1, <4>2 DEF SecuredReqs, Secured
      <4>4. [t |-> "staged", r |-> k.r] \in Messages /\ k.g \in Gens
        BY <1>k DEF Answers
      <4>5. Secures(Append(events[x], [t |-> "staged", r |-> k.r]), SecuredReqs')
        BY <4>3, <4>4, <1>e
      <4> QED
        BY <3>2, <4>4, <4>5, <1>0, <1>e DEF Reply
    <3> QED
      BY <2>4, <3>1, <3>2 DEF StageSecret
  <2>5. CASE Settle(k)
    BY <2>5, <1>0, <1>e, <1>p DEF Settle
  <2>6. CASE \/ Execute(k) \/ ConfirmDeletion(k) \/ StartConfirmed(k)
    BY <2>6, <1>1 DEF Execute, ConfirmDeletion, StartConfirmed
  <2> QED
    BY <1>4, <2>1, <2>2, <2>3, <2>4, <2>5, <2>6 DEF Task
<1> QED
  BY <1>1, <1>2, <1>3, <1>4
     DEF Next, vars, Expire, Restate, Unheard, BeginJoin, Joined

(* So they are when they are not read yet.                                  *)
LEMMA IncomingSecured ==
    ASSUME ControlSeatAssumption, SeatInv, [Next]_vars, NEW x \in Gens, waits' = 0
    PROVE  Secures(incoming'[x], SecuredReqs')
<1>0. /\ events \in [Gens -> Seq(Messages)] /\ requester \in [Requesters -> RequesterSet]
      /\ incoming \in [Gens -> Seq(Messages)] /\ gui \in [Gens -> GuiSet]
      /\ tasks \subseteq TaskSet /\ seat \in 0..MaxSeats /\ events[x] \in Seq(Messages)
      /\ \A g \in Gens : events[g] \in Seq(Messages) /\ incoming[g] \in Seq(Messages)
  BY DEF SeatInv, SeatTypes
<1>w. waits = 0
  BY WaitsGrow
<1>r. SecuredReqs \subseteq SecuredReqs'
  BY MintedStays, SecuredStays DEF SecuredReqs
<1>n. \A g \in Gens : Secures(events[g], SecuredReqs) /\ Secures(incoming[g], SecuredReqs)
  BY <1>w DEF SeatInv, Completing
<1>i. /\ Secures(incoming[x], SecuredReqs') /\ Secures(<<>>, SecuredReqs')
      /\ \A m \in Messages : ~(m.t = "staged" \/ (m.t = "inbound" /\ m.kind = "complete")) => Secures(Append(incoming[x], m), SecuredReqs')
      /\ \A m \in Messages : m.r \in SecuredReqs' => Secures(Append(incoming[x], m), SecuredReqs')
      /\ incoming[x] # <<>> =>
           /\ Secures(Tail(incoming[x]), SecuredReqs')
           /\ \A m \in Messages : ~(m.t = "staged" \/ (m.t = "inbound" /\ m.kind = "complete")) => Secures(Append(Tail(incoming[x]), m), SecuredReqs')
  <2>1. Secures(incoming[x], SecuredReqs')
    BY <1>0, <1>r, <1>n, ChannelSecures
  <2> QED
    BY <2>1, <1>0, ChannelSecures
<1>1. CASE UNCHANGED incoming
  BY <1>1, <1>0, <1>i
<1>2. ASSUME NEW p \in Requesters, Requester(p) \/ (\E t \in Targets : Ask(p, t))
      PROVE  Secures(incoming'[x], SecuredReqs')
  BY <1>2, <1>1 DEF Requester, Open, Spawn, Accept, Mint, Status, Ask, guiVars
<1>3. ASSUME NEW g \in Gens, Serve(g) \/ EndServing(g) \/ Desktop(g)
      PROVE  Secures(incoming'[x], SecuredReqs')
  <2>1. CASE Serve(g)
    <3>1. events[g] # <<>>
      BY <2>1 DEF Serve
    <3>2. /\ Head(events[g]) \in Messages
          /\ \/ ~(Head(events[g]).t = "staged" \/ (Head(events[g]).t = "inbound" /\ Head(events[g]).kind = "complete"))
             \/ Head(events[g]).r \in SecuredReqs'
      BY <3>1, <1>0, <1>n, <1>r, TailFacts, ChannelSecures
    <3>3. \/ incoming'[x] = incoming[x]
          \/ /\ Head(events[g]).t \notin {"closed", "inbound"}
             /\ incoming'[x] = Append(incoming[x], Head(events[g]))
      BY <2>1, <1>0 DEF Serve
    <3> QED
      BY <3>2, <3>3, <1>i
  <2>2. CASE ReadChallenge(g)
    BY <2>2, <1>0, <1>i DEF ReadChallenge
  <2>3. CASE ReadOutcome(g)
    BY <2>3, <1>0, <1>i DEF ReadOutcome
  <2>4. CASE Exit(g)
    BY <2>4, <1>0, <1>i DEF Exit
  <2>5. CASE \/ EndServing(g) \/ (\E t \in Targets : Begin(g, t))
             \/ Answered(g) \/ Confirm(g) \/ Dismiss(g) \/ GiveUp(g)
    BY <2>5, <1>1
       DEF EndServing, Begin, Answered, Confirm, Dismiss, GiveUp, guiVars
  <2> QED
    BY <1>3, <2>1, <2>2, <2>3, <2>4, <2>5 DEF Desktop
<1>4. ASSUME NEW k \in tasks, Task(k)
      PROVE  Secures(incoming'[x], SecuredReqs')
  BY <1>4, <1>1
     DEF Task, Take, Reject, RejectRequest, StageSecret, Execute,
         ConfirmDeletion, StartConfirmed, Settle, guiVars
<1> QED
  BY <1>1, <1>2, <1>3, <1>4
     DEF Next, vars, Expire, Restate, Unheard, BeginJoin, Joined, guiVars

(* A credential that is completed goes on having its secret.                 *)
LEMMA CompletingKept ==
    ASSUME ControlSeatAssumption, SeatInv, [Next]_vars
    PROVE  Completing'
<1>1. SUFFICES ASSUME waits' = 0
               PROVE  /\ \A g \in Gens : Secures(events'[g], SecuredReqs') /\ Secures(incoming'[g], SecuredReqs')
                      /\ \A k \in tasks' : k.pc # "refuse" /\ (k.kind = "complete" => k.r \in SecuredReqs')
  BY DEF Completing
<1>2. /\ SecuredReqs \subseteq SecuredReqs'
      /\ \A k \in tasks : k.pc # "refuse" /\ (k.kind = "complete" => k.r \in SecuredReqs)
      /\ \A g \in Gens : Secures(events[g], SecuredReqs) /\ events[g] \in Seq(Messages)
  BY <1>1, WaitsGrow, MintedStays, SecuredStays DEF SecuredReqs, SeatInv, SeatTypes, Completing
<1>3. ASSUME NEW l \in tasks'
      PROVE  l.pc # "refuse" /\ (l.kind = "complete" => l.r \in SecuredReqs')
  <2>1. CASE \E g \in Gens : /\ events[g] # <<>> /\ Head(events[g]).t = "inbound"
                             /\ l = Frame(Head(events[g]).kind, Head(events[g]).r, g)
    <3>1. PICK g \in Gens : /\ events[g] # <<>> /\ Head(events[g]).t = "inbound"
                            /\ l = Frame(Head(events[g]).kind, Head(events[g]).r, g)
      BY <2>1
    <3>2. Head(events[g]).kind = "complete" => Head(events[g]).r \in SecuredReqs
      BY <3>1, <1>2, ChannelSecures
    <3> QED
      BY <3>1, <3>2, <1>2 DEF Frame
  <2>2. CASE \E k \in tasks : /\ l.r = k.r /\ l.kind = k.kind
                              /\ l.pc = "refuse" => k.kind = "complete" /\ ~Secured(k.r)
    BY <2>2, <1>2 DEF SecuredReqs
  <2>3. CASE l \in tasks
    BY <2>3, <1>2
  <2> QED
    BY <2>1, <2>2, <2>3, TaskOrigins DEF TaskOrigin
<1> QED
  BY <1>1, <1>3, EventsSecured, IncomingSecured

(* The end of a channel is not sent on it.                                  *)
LEMMA HeardKept ==
    ASSUME ControlSeatAssumption, SeatInv, [Next]_vars, NEW x \in Gens
    PROVE  Heard(incoming'[x])
<1>0. /\ events \in [Gens -> Seq(Messages)] /\ incoming \in [Gens -> Seq(Messages)]
      /\ incoming[x] \in Seq(Messages) /\ \A g \in Gens : events[g] \in Seq(Messages)
  BY DEF SeatInv, SeatTypes
<1>i. /\ Heard(incoming[x]) /\ Heard(<<>>)
      /\ \A m \in Messages : m.t # "closed" => Heard(Append(incoming[x], m))
      /\ incoming[x] # <<>> => Heard(Tail(incoming[x]))
  BY <1>0, ChannelHeard DEF SeatInv
<1>1. CASE UNCHANGED incoming
  BY <1>1, <1>0, <1>i
<1>2. ASSUME NEW p \in Requesters, Requester(p) \/ (\E t \in Targets : Ask(p, t))
      PROVE  Heard(incoming'[x])
  BY <1>2, <1>1 DEF Requester, Open, Spawn, Accept, Mint, Status, Ask, guiVars
<1>3. ASSUME NEW g \in Gens, Serve(g) \/ EndServing(g) \/ Desktop(g)
      PROVE  Heard(incoming'[x])
  <2>1. CASE Serve(g)
    <3>1. events[g] # <<>>
      BY <2>1 DEF Serve
    <3>2. Head(events[g]) \in Messages
      BY <3>1, <1>0, TailFacts
    <3>3. \/ incoming'[x] = incoming[x]
          \/ /\ Head(events[g]).t \notin {"closed", "inbound"}
             /\ incoming'[x] = Append(incoming[x], Head(events[g]))
      BY <2>1, <1>0 DEF Serve
    <3> QED
      BY <3>2, <3>3, <1>i
  <2>2. CASE ReadChallenge(g)
    BY <2>2, <1>0, <1>i DEF ReadChallenge
  <2>3. CASE ReadOutcome(g)
    BY <2>3, <1>0, <1>i DEF ReadOutcome
  <2>4. CASE Exit(g)
    BY <2>4, <1>0, <1>i DEF Exit
  <2>5. CASE \/ EndServing(g) \/ (\E t \in Targets : Begin(g, t))
             \/ Answered(g) \/ Confirm(g) \/ Dismiss(g) \/ GiveUp(g)
    BY <2>5, <1>1
       DEF EndServing, Begin, Answered, Confirm, Dismiss, GiveUp, guiVars
  <2> QED
    BY <1>3, <2>1, <2>2, <2>3, <2>4, <2>5 DEF Desktop
<1>4. ASSUME NEW k \in tasks, Task(k)
      PROVE  Heard(incoming'[x])
  BY <1>4, <1>1
     DEF Task, Take, Reject, RejectRequest, StageSecret, Execute,
         ConfirmDeletion, StartConfirmed, Settle, guiVars
<1> QED
  BY <1>1, <1>2, <1>3, <1>4
     DEF Next, vars, Expire, Restate, Unheard, BeginJoin, Joined, guiVars

(* A frame or an answer put into a channel without one is its only one.      *)
LEMMA TalkPut ==
    ASSUME NEW q \in Seq(Messages), NoTalk(q), NEW m \in Messages, NEW r
    PROVE  /\ OneTalk(q, r) /\ (m.r = r => OneTalk(Append(q, m), r))
           /\ q # <<>> => NoTalk(Tail(q))
BY ChannelTalk

(* What a desktop talks of does not change when nothing of it does, when a    *)
(* task of it goes on, and when one answers.                                 *)
LEMMA TalksOn ==
    ASSUME SeatInv, NEW x \in Gens, Talks(x), events'[x] = events[x], incoming'[x] = incoming[x],
           gui'[x].of = gui[x].of, gui[x].wait \in {"outcome", "staged"} => gui'[x].wait \in {"outcome", "staged"},
           \A k \in tasks' : k.g = x => k \in tasks
    PROVE  Talks(x)'
<1>1. /\ NoTask(x) => NoTask(x)'
      /\ OneTask(x) => OneTask(x)'
  BY DEF NoTask, OneTask
<1> QED
  BY <1>1 DEF Talks

LEMMA TalkSteps ==
    ASSUME SeatInv, NEW x \in Gens, Talks(x), NEW k \in tasks, NEW pc, Step(k, pc),
           UNCHANGED <<events, incoming, gui>>
    PROVE  Talks(x)'
<1>1. CASE k.g # x
  BY <1>1, TalksOn DEF Step
<1>2. CASE k.g = x
  <2>1. ~NoTask(x) /\ OneTask(x)
    BY <1>2 DEF NoTask, Talks
  <2> DEFINE l == [kind |-> k.kind, r |-> k.r, g |-> k.g, pc |-> pc]
  <2>2. /\ tasks' = (tasks \ {k}) \cup {l} /\ l.r = k.r /\ l.g = x
        /\ k.r = gui[x].of /\ \A m \in tasks : m.g = x => m = k
    BY <1>2, <2>1 DEF Step, OneTask
  <2> HIDE DEF l
  <2>3. OneTask(x)'
    BY <2>2 DEF OneTask
  <2> QED
    BY <2>1, <2>3 DEF Talks
<1> QED
  BY <1>1, <1>2

LEMMA TalkReplies ==
    ASSUME SeatInv, NEW x \in Gens, Talks(x), NEW k \in tasks, NEW t \in Answers, Reply(k, t),
           UNCHANGED <<incoming, gui>>
    PROVE  Talks(x)'
<1>0. /\ events \in [Gens -> Seq(Messages)] /\ events[x] \in Seq(Messages)
      /\ [t |-> t, r |-> k.r] \in Messages /\ k.g \in Gens
  BY TaskForms, MessageForms DEF SeatInv, SeatTypes
<1>1. CASE k.g # x
  <2>1. events'[x] = events[x]
    BY <1>0, <1>1 DEF Reply
  <2> QED
    BY <1>1, <2>1, TalksOn DEF Reply
<1>2. CASE k.g = x
  <2>1. ~NoTask(x) /\ OneTask(x)
    BY <1>2 DEF NoTask, Talks
  <2>2. NoTask(x)' /\ OneTask(x)' /\ k.r = gui[x].of
    BY <1>2, <2>1 DEF Reply, NoTask, OneTask
  <2>3. NoTalk(events[x]) /\ NoTalk(incoming[x]) /\ OneTalk(incoming[x], gui[x].of)
        /\ gui[x].wait \in {"outcome", "staged"}
    BY <2>1 DEF Talks
  <2>4. OneTalk(events'[x], gui[x].of)
    <3>1. events'[x] \in {events[x], Append(events[x], [t |-> t, r |-> k.r])}
      BY <1>0, <1>2 DEF Reply
    <3>2. OneTalk(Append(events[x], [t |-> t, r |-> k.r]), gui[x].of) /\ OneTalk(events[x], gui[x].of)
      BY <1>0, <2>2, <2>3, ChannelTalk
    <3> QED
      BY <3>1, <3>2
  <2> QED
    BY <2>2, <2>3, <2>4 DEF Talks
<1> QED
  BY <1>1, <1>2

(* A desktop that lives goes on to talk of one request.                     *)
LEMMA TalkingStays ==
    ASSUME ControlSeatAssumption, SeatInv, [Next]_vars, NEW x \in Gens, waits' = 0, gui'[x].alive
    PROVE  Talks(x)'
<1>0. /\ events \in [Gens -> Seq(Messages)] /\ incoming \in [Gens -> Seq(Messages)]
      /\ gui \in [Gens -> GuiSet] /\ waits \in Nat /\ seat \in 0..MaxSeats
      /\ served \in [Gens -> {"none", "run", "ending", "done"}]
      /\ \A g \in Gens : events[g] \in Seq(Messages) /\ incoming[g] \in Seq(Messages)
  BY DEF SeatInv, SeatTypes
<1>w. waits = 0
  BY WaitsGrow
<1>t. gui[x].alive => Talks(x)
  BY <1>w DEF SeatInv, Talking
<1>a. gui[x] \in GuiSet /\ gui[x].alive \in BOOLEAN /\ gui[x].deferred \in Seq(Reqs)
  BY <1>0 DEF GuiSet
<1>p. \A k \in tasks, t \in {"denied", "staged", "outcome", "unavailable"} :
        Reply(k, t) /\ UNCHANGED <<incoming, gui>> => Talks(x)'
  BY <1>t, TalkReplies DEF Answers
<1>s. \A k \in tasks : \A pc : Step(k, pc) /\ UNCHANGED <<events, incoming, gui>> => Talks(x)'
  BY <1>t, TalkSteps
<1>1. CASE UNCHANGED <<gui, events, incoming, tasks>>
  BY <1>1, <1>0, <1>t, TalksOn
<1>2. ASSUME NEW p \in Requesters, Requester(p) \/ (\E t \in Targets : Ask(p, t))
      PROVE  Talks(x)'
  <2>1. CASE Spawn(p)
    <3>1. events' = events /\ incoming' = incoming /\ tasks' = tasks
      BY <2>1 DEF Spawn
    <3>2. CASE gui' = gui
      BY <3>1, <3>2, <1>t, TalksOn
    <3>3. ASSUME NEW g \in Gens, served[g] = "none", gui' = [gui EXCEPT ![g].alive = TRUE]
          PROVE  Talks(x)'
      <4>1. CASE g # x
        BY <3>1, <3>3, <4>1, <1>0, <1>t, TalksOn
      <4>2. CASE g = x
        <5>1. events[x] = <<>> /\ incoming[x] = <<>> /\ NoTask(x)
          BY <3>3, <4>2 DEF SeatInv, Unspawned, NoTask
        <5>2. NoTalk(<<>>) /\ \A r : OneTalk(<<>>, r)
          BY DEF NoTalk, OneTalk
        <5>3. NoTask(x)' /\ OneTask(x)'
          BY <5>1, <3>1 DEF NoTask, OneTask
        <5> QED
          BY <5>1, <5>2, <5>3, <3>1 DEF Talks
      <4> QED
        BY <4>1, <4>2
    <3> QED
      BY <2>1, <3>2, <3>3 DEF Spawn
  <2>2. CASE Mint(p)
    <3>1. incoming' = incoming /\ tasks' = tasks /\ gui' = gui
      BY <2>2 DEF Mint, guiVars
    <3>2. requester[p].req \in Reqs
      BY <2>2 DEF SeatInv, Minting, Mint
    <3>3. [t |-> "challenge", r |-> requester[p].req] \in Messages
      BY <3>2, MessageForms
    <3>4. seat # 0 => seat \in Gens
      BY <1>0 DEF Gens, ControlSeatAssumption
    <3>5. \/ events' = events
          \/ /\ seat # 0
             /\ events' = [events EXCEPT ![seat] = Append(@, [t |-> "challenge", r |-> requester[p].req])]
      BY <2>2 DEF Mint
    <3>6. CASE events'[x] = events[x]
      BY <3>1, <3>6, <1>t, TalksOn
    <3>7. CASE events'[x] = Append(events[x], [t |-> "challenge", r |-> requester[p].req])
      <4>1. Talks(x)
        BY <3>1, <1>t
      <4>2. /\ NoTalk(events[x]) => NoTalk(events'[x])
            /\ OneTalk(events'[x], gui[x].of)
        BY <3>3, <3>7, <4>1, <1>0, ChannelTalk DEF Talk, Talks
      <4>3. NoTask(x) => NoTask(x)'
        BY <3>1 DEF NoTask
      <4>4. OneTask(x) => OneTask(x)'
        BY <3>1 DEF OneTask
      <4> QED
        BY <3>1, <4>1, <4>2, <4>3, <4>4 DEF Talks
    <3> QED
      BY <3>4, <3>5, <3>6, <3>7, <1>0
  <2>3. CASE \/ Open(p) \/ Accept(p) \/ Status(p)
             \/ (\E t \in Targets : Ask(p, t))
    BY <2>3, <1>1 DEF Open, Accept, Status, Ask, guiVars
  <2> QED
    BY <1>2, <2>1, <2>2, <2>3 DEF Requester
<1>3. ASSUME NEW g \in Gens, Serve(g) \/ EndServing(g) \/ Desktop(g)
      PROVE  Talks(x)'
  <2>1. CASE Serve(g)
    <3>0. events[g] # <<>> /\ gui' = gui /\ Talks(x)
      BY <2>1, <1>t DEF Serve
    <3>1. CASE g # x
      <4>1. \A k \in tasks' : k.g = x => k \in tasks
        BY <2>1, <3>1 DEF Serve, Dispatch, Frame
      <4>2. events'[x] = events[x] /\ incoming'[x] = incoming[x]
        BY <2>1, <3>1, <1>0 DEF Serve, Dispatch
      <4> QED
        BY <3>0, <4>1, <4>2, TalksOn
    <3>2. CASE g = x
      <4> DEFINE e == Head(events[x])
      <4>0. /\ e \in Messages /\ Tail(events[x]) \in Seq(Messages) /\ events[x] # <<>>
            /\ events[x] \in Seq(Messages) /\ incoming[x] \in Seq(Messages)
        BY <3>0, <3>2, <1>0, TailFacts
      <4>1. CASE e.t = "inbound"
        <5>1. Talk(e)
          BY <4>1 DEF Talk
        <5>2. NoTalk(Tail(events[x])) /\ e.r = gui[x].of
          BY <3>0, <4>0, <5>1, ChannelTalk DEF Talks
        <5>3. NoTalk(incoming[x]) /\ NoTask(x) /\ gui[x].wait \in {"outcome", "staged"}
              /\ OneTalk(incoming[x], gui[x].of)
          BY <3>0, <4>0, <5>1, ChannelTalk DEF Talks
        <5>4. CASE /\ events'[x] = Append(Tail(events[x]), [t |-> "denied", r |-> e.r])
                   /\ tasks' = tasks /\ incoming' = incoming
          <6>1. [t |-> "denied", r |-> e.r] \in Messages
            BY <4>0, <4>1, MessageShape, MessageForms DEF Answers
          <6>2. OneTalk(events'[x], gui[x].of)
            <7>1. [t |-> "denied", r |-> e.r].r = gui[x].of
              BY <5>2
            <7> QED
              BY <4>0, <5>2, <5>4, <6>1, <7>1, TalkPut
          <6>3. NoTask(x)' /\ OneTask(x)'
            BY <5>3, <5>4 DEF NoTask, OneTask
          <6> QED
            BY <3>0, <5>3, <5>4, <6>2, <6>3 DEF Talks
        <5>5. CASE /\ events'[x] = Tail(events[x]) /\ incoming' = incoming
                   /\ tasks' = tasks \cup {Frame(e.kind, e.r, x)}
          <6>1. OneTalk(events'[x], gui[x].of)
            BY <5>2, <5>5 DEF NoTalk, OneTalk
          <6>2. OneTask(x)'
            BY <3>0, <5>2, <5>3, <5>5 DEF NoTask, OneTask, Frame
          <6> QED
            BY <3>0, <5>2, <5>3, <5>5, <6>1, <6>2 DEF Talks
        <5> QED
          BY <2>1, <3>2, <4>1, <5>4, <5>5, <1>0 DEF Serve, Dispatch
      <4>2. CASE e.t = "closed"
        BY <2>1, <3>0, <3>2, <4>2, TalksOn DEF Serve
      <4>3. CASE e.t \notin {"inbound", "closed"}
        <5>1. /\ events'[x] = Tail(events[x]) /\ incoming'[x] = Append(incoming[x], e) /\ tasks' = tasks
          BY <2>1, <3>0, <3>2, <4>3, <1>0 DEF Serve
        <5>2. /\ NoTask(x) => NoTask(x)'
              /\ OneTask(x) => OneTask(x)'
          BY <3>0, <5>1 DEF NoTask, OneTask
        <5>3. CASE Talk(e)
          <6>1. NoTalk(Tail(events[x])) /\ e.r = gui[x].of /\ NoTalk(incoming[x]) /\ NoTask(x)
                /\ gui[x].wait \in {"outcome", "staged"}
            BY <3>0, <4>0, <5>3, ChannelTalk DEF Talks
          <6>2. OneTalk(incoming'[x], gui[x].of) /\ OneTalk(events'[x], gui[x].of)
            BY <4>0, <5>1, <6>1, TalkPut
          <6> QED
            BY <3>0, <5>1, <5>2, <6>1, <6>2 DEF Talks
        <5>4. CASE ~Talk(e)
          <6>1. /\ NoTalk(events[x]) => NoTalk(events'[x])
                /\ NoTalk(incoming[x]) => NoTalk(incoming'[x])
            <7>1. NoTalk(events[x]) => NoTalk(Tail(events[x]))
              BY <4>0, ChannelTalk
            <7>2. NoTalk(incoming[x]) => NoTalk(Append(incoming[x], e))
              BY <4>0, <5>4, ChannelTalk
            <7> QED
              BY <5>1, <7>1, <7>2
          <6>2. OneTalk(incoming'[x], gui[x].of) /\ OneTalk(events'[x], gui[x].of)
            BY <3>0, <4>0, <5>1, <5>4, ChannelTalk DEF Talks
          <6> QED
            BY <3>0, <5>2, <6>1, <6>2 DEF Talks
        <5> QED
          BY <5>3, <5>4
      <4> QED
        BY <4>1, <4>2, <4>3
    <3> QED
      BY <3>1, <3>2
  <2>2. CASE EndServing(g)
    <3>1. incoming' = incoming /\ tasks' = tasks /\ gui' = gui /\ Talks(x)
      BY <2>2, <1>t DEF EndServing, guiVars
    <3>2. events'[x] = events[x] \/ events'[x] = <<>>
      BY <2>2, <1>0 DEF EndServing
    <3>3. CASE events'[x] = events[x]
      BY <3>1, <3>3, TalksOn
    <3>4. CASE events'[x] = <<>>
      <4>1. NoTalk(<<>>) /\ \A r : OneTalk(<<>>, r)
        BY DEF NoTalk, OneTalk
      <4>2. /\ NoTask(x) => NoTask(x)'
            /\ OneTask(x) => OneTask(x)'
        BY <3>1 DEF NoTask, OneTask
      <4> QED
        BY <3>1, <3>4, <4>1, <4>2 DEF Talks
    <3> QED
      BY <3>2, <3>3, <3>4
  <2>3. ASSUME NEW t \in Targets, Begin(g, t)
        PROVE  Talks(x)'
    <3>1. CASE g # x
      BY <2>3, <3>1, <1>0, <1>t, TalksOn DEF Begin, Sends, guiVars
    <3>2. CASE g = x
      BY <2>3, <3>2, <1>0, <1>a, <1>t, TalksOn DEF Begin, Idle, GuiSet
    <3> QED
      BY <3>1, <3>2
  <2>4. CASE Answered(g)
    <3>1. CASE g # x
      BY <2>4, <3>1, <1>0, <1>t, TalksOn DEF Answered, Sends, guiVars
    <3>2. CASE g = x
      BY <2>4, <3>2, <1>0, <1>a, <1>t, TalksOn DEF Answered, GuiSet
    <3> QED
      BY <3>1, <3>2
  <2>5. CASE ReadChallenge(g)
    <3>1. CASE g # x
      BY <2>5, <3>1, <1>0, <1>t, TalksOn DEF ReadChallenge, Sends, guiVars
    <3>2. CASE g = x
      <4>1. /\ gui[x].wait = "challenge" /\ Talks(x) /\ incoming[x] # <<>>
            /\ incoming'[x] = Tail(incoming[x]) /\ events' = events /\ tasks' = tasks
        BY <2>5, <3>2, <1>0, <1>t DEF ReadChallenge
      <4>2. gui'[x].of = gui[x].of /\ gui'[x].wait \in {"idle", "challenge"}
        BY <2>5, <3>2, <1>0, <1>a DEF ReadChallenge, Presents, Deferring, GuiSet
      <4>3. NoTalk(events[x]) /\ NoTalk(incoming[x]) /\ NoTask(x)
        BY <4>1 DEF Talks
      <4>4. NoTalk(incoming'[x])
        BY <4>1, <4>3, <1>0, TalkPut, MessageForms DEF Kinds
      <4>5. OneTalk(events[x], gui[x].of) /\ OneTalk(incoming'[x], gui[x].of)
        BY <4>1, <4>3, <1>0, ChannelTalk
      <4>6. NoTask(x)' /\ OneTask(x)'
        BY <4>1, <4>3 DEF NoTask, OneTask
      <4> QED
        BY <4>1, <4>2, <4>3, <4>4, <4>5, <4>6 DEF Talks
    <3> QED
      BY <3>1, <3>2
  <2>6. CASE Confirm(g)
    <3>1. CASE g # x
      BY <2>6, <3>1, <1>0, <1>t, TalksOn DEF Confirm, Sends, guiVars
    <3>2. CASE g = x
      <4>1. /\ gui[x].alive /\ gui[x].wait = "idle" /\ Shown(x) \in Reqs
            /\ gui'[x].of = Shown(x) /\ gui'[x].wait \in {"outcome", "staged"}
            /\ incoming' = incoming /\ tasks' = tasks
        BY <2>6, <3>2, <1>0, <1>a, DeskForms DEF Confirm, Idle
      <4>2. PICK kind \in Kinds : events'[x] = Append(events[x], [t |-> "inbound", kind |-> kind, r |-> Shown(x)])
        BY <2>6, <3>2, <1>0 DEF Confirm, Sends, Kinds
      <4>3. Talks(x) /\ NoTalk(events[x]) /\ NoTalk(incoming[x]) /\ NoTask(x)
        BY <4>1, <1>t DEF Talks
      <4>4. [t |-> "inbound", kind |-> kind, r |-> Shown(x)] \in Messages
        BY <4>1, MessageForms
      <4>5. OneTalk(events'[x], Shown(x)) /\ OneTalk(incoming[x], Shown(x))
        <5>1. [t |-> "inbound", kind |-> kind, r |-> Shown(x)].r = Shown(x)
          OBVIOUS
        <5> QED
          BY <4>1, <4>2, <4>3, <4>4, <5>1, <1>0, TalkPut
      <4> QED
        BY <4>1, <4>3, <4>5 DEF Talks, NoTask, OneTask
    <3> QED
      BY <3>1, <3>2
  <2>7. CASE Dismiss(g)
    <3>1. CASE g # x
      BY <2>7, <3>1, <1>0, <1>t, TalksOn DEF Dismiss, Sends, guiVars
    <3>2. CASE g = x
      <4>1. /\ gui[x].alive /\ gui[x].wait = "idle" /\ Shown(x) \in Reqs
            /\ gui'[x].of = Shown(x) /\ gui'[x].wait \in {"outcome", "staged"}
            /\ incoming' = incoming /\ tasks' = tasks
        BY <2>7, <3>2, <1>0, <1>a, DeskForms DEF Dismiss, Idle
      <4>2. PICK kind \in Kinds : events'[x] = Append(events[x], [t |-> "inbound", kind |-> kind, r |-> Shown(x)])
        BY <2>7, <3>2, <1>0 DEF Dismiss, Sends, Kinds
      <4>3. Talks(x) /\ NoTalk(events[x]) /\ NoTalk(incoming[x]) /\ NoTask(x)
        BY <4>1, <1>t DEF Talks
      <4>4. [t |-> "inbound", kind |-> kind, r |-> Shown(x)] \in Messages
        BY <4>1, MessageForms
      <4>5. OneTalk(events'[x], Shown(x)) /\ OneTalk(incoming[x], Shown(x))
        <5>1. [t |-> "inbound", kind |-> kind, r |-> Shown(x)].r = Shown(x)
          OBVIOUS
        <5> QED
          BY <4>1, <4>2, <4>3, <4>4, <5>1, <1>0, TalkPut
      <4> QED
        BY <4>1, <4>3, <4>5 DEF Talks, NoTask, OneTask
    <3> QED
      BY <3>1, <3>2
  <2>8. CASE ReadOutcome(g)
    <3>1. CASE g # x
      BY <2>8, <3>1, <1>0, <1>t, TalksOn DEF ReadOutcome, Sends, guiVars
    <3>2. CASE g = x
      <4> DEFINE f == Head(incoming[x])
      <4>1. /\ gui[x].wait \in {"outcome", "staged"} /\ Talks(x) /\ incoming[x] # <<>>
            /\ incoming'[x] = Tail(incoming[x]) /\ tasks' = tasks
        BY <2>8, <3>2, <1>0, <1>t DEF ReadOutcome
      <4>2. f \in Messages /\ f.t # "closed" /\ Tail(incoming[x]) \in Seq(Messages)
        BY <4>1, <1>0, TailFacts, ChannelHeard DEF SeatInv
      <4>3. /\ NoTask(x) => NoTask(x)'
            /\ NoTask(x) => OneTask(x)'
        BY <4>1 DEF NoTask, OneTask
      <4>4. CASE f.t = "challenge"
        <5>1. gui'[x] = Presents(x, f.r) /\ events' = events
          BY <2>8, <3>2, <4>4, <1>0 DEF ReadOutcome
        <5>2. gui'[x].of = gui[x].of /\ gui'[x].wait = gui[x].wait
          BY <5>1, <1>a DEF Presents, GuiSet
        <5>3. /\ NoTalk(incoming[x]) => NoTalk(incoming'[x])
              /\ OneTalk(incoming'[x], gui[x].of)
          BY <4>1, <1>0, ChannelTalk DEF Talks
        <5>4. OneTask(x)'
          BY <4>1, <5>2 DEF OneTask, Talks
        <5> QED
          BY <4>1, <4>3, <5>1, <5>2, <5>3, <5>4 DEF Talks
      <4>5. CASE f.t # "challenge"
        <5>1. Talk(f)
          BY <4>2, <4>5 DEF Talk
        <5>2. NoTalk(incoming'[x]) /\ f.r = gui[x].of
          BY <4>1, <5>1, <1>0, ChannelTalk DEF Talks
        <5>3. NoTalk(events[x]) /\ NoTask(x)
          BY <4>1, <5>1, <1>0, ChannelTalk DEF Talks
        <5>4. \A r : OneTalk(incoming'[x], r) /\ OneTalk(events[x], r)
          BY <5>2, <5>3 DEF NoTalk, OneTalk
        <5>5. CASE gui'[x].wait = "idle" /\ events' = events
          BY <4>3, <5>2, <5>3, <5>4, <5>5 DEF Talks
        <5>6. CASE /\ gui'[x] = [gui[x] EXCEPT !.wait = "outcome"] /\ gui[x].wait = "staged"
                   /\ events'[x] = Append(events[x], [t |-> "inbound", kind |-> "complete", r |-> gui[x].of])
          <6>1. gui[x].of \in Reqs
            BY <5>6 DEF SeatInv, Named, GuiNames, MintedReqs
          <6>2. [t |-> "inbound", kind |-> "complete", r |-> gui[x].of] \in Messages
            BY <6>1, MessageForms DEF Kinds
          <6>3. OneTalk(events'[x], gui[x].of)
            <7>1. [t |-> "inbound", kind |-> "complete", r |-> gui[x].of].r = gui[x].of
              OBVIOUS
            <7> DEFINE m == [t |-> "inbound", kind |-> "complete", r |-> gui[x].of]
            <7>2. m \in Messages /\ m.r = gui[x].of
              BY <6>2
            <7> HIDE DEF m
            <7>3. OneTalk(Append(events[x], m), gui[x].of)
              BY <5>3, <7>2, <1>0, TalkPut
            <7> QED
              BY <5>6, <7>3 DEF m
          <6>4. gui'[x].of = gui[x].of /\ gui'[x].wait = "outcome"
            BY <5>6, <1>a DEF GuiSet
          <6> QED
            BY <4>3, <5>2, <5>3, <5>4, <6>3, <6>4 DEF Talks
        <5> QED
          BY <2>8, <3>2, <4>5, <5>5, <5>6, <1>0, <1>a DEF ReadOutcome, Sends, GuiSet
      <4> QED
        BY <4>4, <4>5
    <3> QED
      BY <3>1, <3>2
  <2>9. CASE GiveUp(g)
    BY <2>9, <1>0 DEF GiveUp
  <2>10. CASE Exit(g)
    <3>1. g # x
      BY <2>10, <1>0 DEF Exit, NoGui
    <3> QED
      BY <2>10, <3>1, <1>0, <1>t, TalksOn DEF Exit
  <2> QED
    BY <1>3, <2>1, <2>2, <2>3, <2>4, <2>5, <2>6, <2>7, <2>8, <2>9, <2>10
       DEF Desktop
<1>4. ASSUME NEW k \in tasks, Task(k)
      PROVE  Talks(x)'
  <2>1. CASE Take(k)
    BY <2>1, <1>p, <1>s DEF Take, guiVars
  <2>2. CASE Reject(k)
    BY <2>2, <1>p, <1>s DEF Reject, guiVars
  <2>3. CASE RejectRequest(k)
    BY <2>3, <1>p, <1>s DEF RejectRequest, guiVars
  <2>4. CASE StageSecret(k)
    BY <2>4, <1>p, <1>s DEF StageSecret, guiVars
  <2>5. CASE Execute(k)
    BY <2>5, <1>p, <1>s DEF Execute, guiVars
  <2>6. CASE ConfirmDeletion(k)
    BY <2>6, <1>p, <1>s DEF ConfirmDeletion, guiVars
  <2>7. CASE StartConfirmed(k)
    BY <2>7, <1>p, <1>s DEF StartConfirmed, guiVars
  <2>8. CASE Settle(k)
    BY <2>8, <1>p, <1>s DEF Settle, guiVars
  <2> QED
    BY <1>4, <2>1, <2>2, <2>3, <2>4, <2>5, <2>6, <2>7, <2>8 DEF Task
<1> QED
  BY <1>1, <1>2, <1>3, <1>4
     DEF Next, vars, Expire, Restate, Unheard, BeginJoin, Joined, guiVars

(* A requester is held off when it is its turn, and as many requests wait   *)
(* as may.                                                                  *)
LEMMA HoldsStep ==
    ASSUME ControlSeatAssumption, SeatInv, [Next]_vars, NEW q \in Requesters
    PROVE  requester[q].pc = "accept" /\ requester'[q].pc = "held" =>
               /\ request' = Told(Late, "Rejected") /\ session' = Without(Late)
               /\ Cardinality(Pending \ Late) >= MaxPending
<1>0. /\ SeatTypes /\ requester \in [Requesters -> RequesterSet] /\ Desk \in Requesters
  BY DEF SeatInv, SeatTypes, ControlSeatAssumption
<1>1. CASE UNCHANGED requester
  BY <1>1, <1>0
<1>2. ASSUME NEW p \in Requesters, Requester(p) \/ (\E t \in Targets : Ask(p, t))
      PROVE  requester[q].pc = "accept" /\ requester'[q].pc = "held" =>
               /\ request' = Told(Late, "Rejected") /\ session' = Without(Late)
               /\ Cardinality(Pending \ Late) >= MaxPending
  <2>1. CASE Open(p)
    BY <2>1, <1>0 DEF Open, Goes, RequesterSet
  <2>2. CASE Spawn(p)
    BY <2>2, <1>0 DEF Spawn, Goes, RequesterSet
  <2>3. CASE Accept(p)
    <3>1. CASE q # p
      BY <2>3, <3>1, <1>0 DEF Accept, Goes, RequesterSet
    <3>2. CASE q = p
      <4>1. ASSUME NEW r \in Reqs,
                   requester' = [requester EXCEPT ![p].pc = IF seat # 0 THEN "mint" ELSE "accepted", ![p].req = r]
            PROVE  requester'[q].pc # "held"
        BY <3>2, <4>1, <1>0 DEF RequesterSet
      <4> QED
        BY <2>3, <4>1, <1>0, AcceptFacts
    <3> QED
      BY <3>1, <3>2
  <2>4. CASE Mint(p)
    BY <2>4, <1>0 DEF Mint, Goes, RequesterSet
  <2>5. CASE Status(p)
    BY <2>5, <1>0 DEF Status, RequesterSet
  <2>6. ASSUME NEW t \in Targets, Ask(p, t)
        PROVE  requester[q].pc = "accept" /\ requester'[q].pc = "held" =>
               /\ request' = Told(Late, "Rejected") /\ session' = Without(Late)
               /\ Cardinality(Pending \ Late) >= MaxPending
    BY <2>6, <1>0 DEF Ask, RequesterSet
  <2> QED
    BY <1>2, <2>1, <2>2, <2>3, <2>4, <2>5, <2>6 DEF Requester
<1>3. ASSUME NEW g \in Gens, Serve(g) \/ EndServing(g) \/ Desktop(g)
      PROVE  requester[q].pc = "accept" /\ requester'[q].pc = "held" =>
               /\ request' = Told(Late, "Rejected") /\ session' = Without(Late)
               /\ Cardinality(Pending \ Late) >= MaxPending
  <2>1. CASE Answered(g)
    BY <2>1, <1>0 DEF Answered, RequesterSet
  <2>2. CASE \/ Serve(g) \/ EndServing(g) \/ (\E t \in Targets : Begin(g, t))
             \/ ReadChallenge(g) \/ Confirm(g) \/ Dismiss(g) \/ ReadOutcome(g)
             \/ GiveUp(g) \/ Exit(g)
    BY <2>2, <1>1
       DEF Serve, EndServing, Begin, ReadChallenge, Confirm, Dismiss,
           ReadOutcome, GiveUp, Exit
  <2> QED
    BY <1>3, <2>1, <2>2 DEF Desktop
<1>4. ASSUME NEW k \in tasks, Task(k)
      PROVE  requester[q].pc = "accept" /\ requester'[q].pc = "held" =>
               /\ request' = Told(Late, "Rejected") /\ session' = Without(Late)
               /\ Cardinality(Pending \ Late) >= MaxPending
  BY <1>4, <1>1
     DEF Task, Take, Reject, RejectRequest, StageSecret, Execute,
         ConfirmDeletion, StartConfirmed, Settle
<1>5. CASE Unheard
  BY <1>5, <1>0 DEF Unheard, RequesterSet
<1> QED
  BY <1>1, <1>2, <1>3, <1>4, <1>5
     DEF Next, vars, Expire, Restate, BeginJoin, Joined

-----------------------------------------------------------------------------
(* The invariant holds at first, and every step keeps it.                    *)
LEMMA SeatStart ==
    ASSUME ControlSeatAssumption, Init PROVE SeatInv
<1>1. /\ NoRequest \in RequestSet /\ NoSession \in SessionSet /\ NoGui \in GuiSet
      /\ Asking \in RequesterSet /\ 0 \in 0..MaxSeats /\ <<>> \in Seq(Messages)
  <2>1. 0 \in 0..MaxSeats /\ 0 \in 0..MaxRequests
    BY DEF ControlSeatAssumption
  <2>2. <<>> \in Seq(Reqs) /\ <<>> \in Seq(Messages)
    OBVIOUS
  <2> QED
    BY <2>1, <2>2 DEF NoRequest, RequestSet, NoSession, SessionSet, NoGui, GuiSet, Waits, Asking,
       RequesterSet, Pcs
<1>2. SeatTypes
  BY <1>1 DEF Init, SeatTypes
<1>3. ASSUME NEW g \in Gens
      PROVE  Unspawned(g) /\ Named(g) /\ Talking(g) /\ Heard(incoming[g])
  <2>1. gui[g] = NoGui /\ events[g] = <<>> /\ incoming[g] = <<>> /\ tasks = {}
    BY DEF Init
  <2>2. DOMAIN <<>> = {}
    OBVIOUS
  <2> QED
    BY <2>1, <2>2 DEF Unspawned, Named, Names, GuiNames, Talking, Heard, NoGui
<1>4. ASSUME NEW p \in Requesters PROVE Opening(p) /\ Minting(p)
  BY <1>4 DEF Init, Opening, Minting, Asking, ControlSeatAssumption
<1>5. ASSUME NEW r \in Reqs PROVE SessionLive(r) /\ Served(r) /\ Effected(r)
  BY <1>5 DEF Init, SessionLive, Served, Effected, NoRequest, NoSession
<1>6. LiveDesktopIsSeated /\ JoinedIsQuiet /\ StartsOnce /\ \A k \in tasks : Working(k)
  BY DEF Init, LiveDesktopIsSeated, JoinedIsQuiet, StartsOnce
<1>7. Completing
  <2>1. DOMAIN <<>> = {}
    OBVIOUS
  <2> QED
    BY <2>1 DEF Init, Completing, Secures
<1> QED
  BY <1>2, <1>3, <1>4, <1>5, <1>6, <1>7 DEF SeatInv

LEMMA SeatKeepsTypes ==
    ASSUME ControlSeatAssumption, SeatInv, [Next]_vars PROVE SeatTypes'
BY RequestTyped, SessionTyped, RequesterTyped, SmallTyped, StopTyped, ServedTyped, GuiTyped,
   TasksTyped, EventsTyped, IncomingTyped DEF SeatTypes

LEMMA SeatInductive ==
    ASSUME ControlSeatAssumption, SeatInv, [Next]_vars PROVE SeatInv'
<1>1. ASSUME NEW g \in Gens
      PROVE  Unspawned(g)' /\ Named(g)' /\ Heard(incoming[g])'
  BY UnspawnedKept, NamedKept, HeardKept
<1>2. ASSUME NEW g \in Gens PROVE Talking(g)'
  BY TalkingStays DEF Talking
<1>3. ASSUME NEW p \in Requesters PROVE Opening(p)' /\ Minting(p)'
  BY OpeningKept, MintingKept
<1>4. ASSUME NEW r \in Reqs PROVE SessionLive(r)' /\ Served(r)' /\ Effected(r)'
  BY SessionKept, ServedKept, EffectedKept
<1>5. ASSUME NEW k \in tasks' PROVE Working(k)'
  BY WorkingKept
<1> QED
  BY <1>1, <1>2, <1>3, <1>4, <1>5, SeatKeepsTypes, SeatedKept, JoinedKept, StartsKept,
     CompletingKept DEF SeatInv

LEMMA SeatInvHolds ==
    ASSUME ControlSeatAssumption PROVE Spec => []SeatInv
<1>1. Init => SeatInv
  BY SeatStart
<1>2. SeatInv /\ [Next]_vars => SeatInv'
  BY SeatInductive
<1> QED
  BY <1>1, <1>2, PTL DEF Spec

(* A request that waits can be settled, what was refused is not carried out, *)
(* the desktop that lives has the seat, no task runs once they were joined,  *)
(* a deletion starts once, and, unless a wait of the desktop ran out, a      *)
(* credential is completed with its secret (mint, take, seat_closed,         *)
(* join_confirmation_tasks, stage_credential_secret).                        *)
THEOREM SeatKept ==
    ASSUME ControlSeatAssumption PROVE Spec => []SeatSafe
<1>1. ASSUME SeatInv PROVE SeatSafe
  <2>1. TypeOK
    <3>1. ASSUME NEW p \in Requesters
          PROVE  /\ requester[p].pc \in {"idle", "open", "spawn", "accept", "mint", "accepted", "held"}
                 /\ requester[p].req \in 0 .. MaxRequests
                 /\ (requester[p].pc = "spawn") = (opener = p)
      BY <1>1 DEF SeatInv, SeatTypes, RequesterSet, Pcs, Opening
    <3>2. ASSUME NEW g \in Gens
          PROVE  /\ gui[g].wait \in {"idle", "asking", "challenge", "outcome", "staged"}
                 /\ gui[g].challenge \in 0 .. MaxRequests /\ gui[g].deferred \in Seq(Reqs)
                 /\ served[g] \in {"none", "run", "ending", "done"}
                 /\ served[g] = "none" => ~gui[g].alive
      BY <1>1 DEF SeatInv, SeatTypes, GuiSet, Waits, Unspawned
    <3>3. /\ \A k \in tasks : k.kind \in {"complete", "reject", "secret"} /\ k.r \in Reqs
          /\ \A t \in Deletions : deletion[t].row \in {"staged", "confirmed", "started"}
      BY <1>1 DEF SeatInv, SeatTypes, TaskSet, Kinds
    <3> QED
      BY <1>1, <3>1, <3>2, <3>3 DEF TypeOK, SeatInv, SeatTypes, RequestSet, SessionSet
  <2>2. AwaitingIsServed
    BY <1>1 DEF SeatInv, AwaitingIsServed, Served, SessionLive, Pending
  <2>3. RefusedIsNotApplied
    BY <1>1 DEF SeatInv, RefusedIsNotApplied, Effected, Working
  <2>4. SecretIsThere
    BY <1>1 DEF SeatInv, SecretIsThere, Completing
  <2> QED
    BY <1>1, <2>1, <2>2, <2>3, <2>4 DEF SeatInv, SeatSafe
<1> QED
  BY <1>1, SeatInvHolds, PTL

(* A requester is told the end of its request once, and is held off only by  *)
(* as many requests as may wait, which the owner can still answer            *)
(* (settle_request, accept_request).                                         *)
THEOREM ToldOnce ==
    ASSUME ControlSeatAssumption PROVE Spec => SettledIsFinal
<1>1. ASSUME SeatInv, [Next]_vars PROVE SettlesOnce /\ HoldsOff
  <2>1. SettlesOnce
    BY <1>1, SettlesStep DEF SettlesOnce
  <2>2. ASSUME NEW p \in Requesters, requester[p].pc = "accept", requester'[p].pc = "held"
        PROVE  Cardinality({ r \in Reqs : request'[r].state = "Awaiting" /\ ~session'[r].late }) >= MaxPending
    <3>1. /\ request' = Told(Late, "Rejected") /\ session' = Without(Late)
          /\ Cardinality(Pending \ Late) >= MaxPending
      BY <1>1, <2>2, HoldsStep
    <3>2. ASSUME NEW r \in Reqs
          PROVE  (request'[r].state = "Awaiting" /\ ~session'[r].late) <=> r \in Pending \ Late
      BY <1>1, <3>1 DEF Told, Without, Pending, Late, Live, SeatInv, SessionLive, NoSession
    <3>3. { r \in Reqs : request'[r].state = "Awaiting" /\ ~session'[r].late } = Pending \ Late
      BY <3>2 DEF Pending
    <3> QED
      BY <3>1, <3>3
  <2> QED
    BY <2>1, <2>2 DEF HoldsOff
<1> QED
  BY <1>1, SeatInvHolds, PTL DEF Spec, SettledIsFinal

=============================================================================
