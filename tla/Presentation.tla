---------------------------- MODULE Presentation ----------------------------
(***************************************************************************)
(* Presentation passes of the ene host: how the rows of the undelivered    *)
(* table reach the client the companion is present at, page by page, each  *)
(* page under a receipt that the client acknowledges or lets expire.       *)
(*                                                                         *)
(* The connection table is reduced to what a pass depends on: whether a    *)
(* connection is the current one of its device, has lost that ("left") and *)
(* has had its memory dropped ("gone").  The business task of a connection *)
(* handles one frame at a time, and its loop pushes only while no frame is *)
(* handled, so a connection has one job at a time.                         *)
(***************************************************************************)
EXTENDS Naturals, FiniteSets, FiniteSetsExt

CONSTANTS
    Conns,         \* connection ids, each used once
    Devices,       \* paired devices, each a client
    None,
    MaxRows,       \* bound: rows ever registered
    PageLimit,     \* rows of a page, DEFAULT_PAGE_LIMIT
    MaxAsks,       \* bound: undelivered requests of all clients
    MaxMoves,      \* bound: changes of the home of the companion
    MaxErasures,   \* bound: erasure conditions
    Confirms,      \* whether clients send ConfirmPresentation
    Failures       \* whether writes of marks and of frames may fail

PresentationAssumption ==
    /\ None \notin Conns \cup Devices
    /\ MaxRows \in Nat /\ PageLimit \in Nat \ {0} /\ MaxAsks \in Nat
    /\ MaxMoves \in Nat /\ MaxErasures \in Nat
    /\ Confirms \in BOOLEAN /\ Failures \in BOOLEAN

VARIABLES
    rows,      \* table undelivered: the status of each row_seq
    replies,   \* the rows of the dialogue round the clients know of
    covered,   \* rows whose source an erasure condition covers
    conn,      \* a connection in the connection table
    device,    \* its paired device
    home,      \* presence_attribution.active_client
    sub,       \* PresentationState.subs
    cursors,   \* PresentationState.cursors, the undelivered ones of each connection
    receipt,   \* PresentationState.receipts: one for the companion
    receipts,  \* how many receipt ids were minted
    refs,      \* connections that own task, source or list references
    gate,      \* the job that holds presentation_lock
    job,       \* what a connection is doing
    wake,      \* the undelivered wakeup a connection's loop has not consumed
    blocked,   \* push_blocked
    inbox,     \* the summaries a client received
    shown,     \* rows carried to a client since its subscription last restarted
    confirmed, \* rows a ConfirmPresentation reported presented
    asks, moves, erasures

tableVars   == <<rows, replies>>
memoryVars  == <<sub, cursors, receipt, receipts, refs>>
connVars    == <<conn, device>>
historyVars == <<shown, confirmed>>
countVars   == <<asks, moves, erasures>>
vars == <<tableVars, covered, connVars, home, memoryVars, gate, job, wake,
          blocked, inbox, historyVars, countVars>>

-----------------------------------------------------------------------------
Seqs == 1..MaxRows
Statuses == {"none", "Pending", "PresentationUnknown", "Presented"}
\* An UndeliveredCursor with what StoredCursor keeps beside it.
Cursors == [after : 0..MaxRows, upper : 0..MaxRows, pendingOnly : BOOLEAN]
NoCursor == [after |-> 0, upper |-> 0, pendingOnly |-> FALSE]
NoSub == [held |-> FALSE, floor |-> 0, drained |-> FALSE, resume |-> NoCursor]
NewSub == [NoSub EXCEPT !.held = TRUE]
NoReceipt == [id |-> 0, conn |-> None, selected |-> {}, expired |-> FALSE]
Triggers == {"Request", "Redisplay", "Push"}
Acks == {"Presented", "Failed", "Unknown"}

\* One job: the frame or push, the plan of its pass, the page it has read.
NoJob == [op |-> "none", pc |-> "idle", trigger |-> "Request", plan |-> NoCursor,
          continued |-> FALSE, from |-> NoCursor, asked |-> NoCursor,
          fresh |-> {}, seen |-> {}, next |-> NoCursor, satisfied |-> {},
          frame |-> 0, items |-> {}, ack |-> "Unknown"]
Ops == {"none", "present", "push", "auto", "ack", "confirm", "query"}

Registered == {s \in Seqs : rows[s] # "none"}
\* undelivered_pass_bound: the last row_seq handed out.
PassBound == Cardinality(Registered)
Unpresented(s) == rows[s] \in {"Pending", "PresentationUnknown"}
Current(c) == conn[c] = "current"
\* presenting_client: the companion is present at the client of this connection.
PresentingClient(c) == home = device[c]
\* live_receipt: this connection's receipt, while it has not expired.
LiveReceipt(c) == receipt.conn = c /\ ~receipt.expired

TypeOK ==
    /\ rows \in [Seqs -> Statuses] /\ replies \in SUBSET Seqs /\ covered \in SUBSET Seqs
    /\ conn \in [Conns -> {"new", "current", "left", "gone"}]
    /\ device \in [Conns -> Devices \cup {None}] /\ home \in Devices \cup {None}
    /\ sub \in [Conns -> [held : BOOLEAN, floor : 0..MaxRows, drained : BOOLEAN, resume : Cursors]]
    /\ cursors \in [Conns -> SUBSET Cursors]
    /\ receipt \in [id : Nat, conn : Conns \cup {None}, selected : SUBSET Seqs, expired : BOOLEAN]
    /\ receipts \in Nat /\ refs \in SUBSET Conns
    /\ gate \in Conns \cup {None}
    /\ \A c \in Conns : /\ job[c].op \in Ops /\ job[c].trigger \in Triggers
                        /\ {job[c].plan, job[c].from, job[c].asked, job[c].next} \subseteq Cursors
                        /\ {job[c].fresh, job[c].seen, job[c].items, job[c].satisfied} \subseteq SUBSET Seqs
                        /\ job[c].ack \in Acks
    /\ wake \in [Conns -> BOOLEAN] /\ blocked \in [Conns -> BOOLEAN]
    /\ \A c \in Conns : \A f \in inbox[c] : f.id \in 0..receipts /\ f.items \subseteq Seqs
    /\ shown \in [Conns -> SUBSET Seqs] /\ confirmed \in SUBSET Seqs
    /\ asks \in 0..MaxAsks /\ moves \in 0..MaxMoves /\ erasures \in 0..MaxErasures

Init ==
    /\ rows = [s \in Seqs |-> "none"] /\ replies = {} /\ covered = {}
    /\ conn = [c \in Conns |-> "new"] /\ device = [c \in Conns |-> None] /\ home = None
    /\ sub = [c \in Conns |-> NoSub] /\ cursors = [c \in Conns |-> {}]
    /\ receipt = NoReceipt /\ receipts = 0 /\ refs = {}
    /\ gate = None /\ job = [c \in Conns |-> NoJob]
    /\ wake = [c \in Conns |-> FALSE] /\ blocked = [c \in Conns |-> FALSE]
    /\ inbox = [c \in Conns |-> {}]
    /\ shown = [c \in Conns |-> {}] /\ confirmed = {}
    /\ asks = 0 /\ moves = 0 /\ erasures = 0

-----------------------------------------------------------------------------
(* The undelivered table                                                   *)

\* A fact commits its row and bumps the wakeup of every connection's loop;
\* it may be the reply of a dialogue round.
Register(reply) ==
    /\ PassBound < MaxRows
    /\ rows' = [rows EXCEPT ![PassBound + 1] = "Pending"]
    /\ replies' = IF reply THEN replies \cup {PassBound + 1} ELSE replies
    /\ wake' = [c \in Conns |-> conn[c] = "current"]
    /\ UNCHANGED <<covered, connVars, home, memoryVars, gate, job, blocked, inbox,
                   historyVars, countVars>>

\* An erasure condition starts to cover the source of a row.
Cover(s) ==
    /\ erasures < MaxErasures /\ rows[s] # "none"
    /\ covered' = covered \cup {s} /\ erasures' = erasures + 1
    /\ UNCHANGED <<tableVars, connVars, home, memoryVars, gate, job, wake, blocked,
                   inbox, historyVars, asks, moves>>

\* invalidate_for_erasure: the host transient participant of a condition.
Invalidate ==
    /\ covered # {}
    /\ receipt' = NoReceipt
    /\ sub' = [c \in Conns |-> NoSub] /\ cursors' = [c \in Conns |-> {}] /\ refs' = {}
    /\ UNCHANGED <<tableVars, covered, connVars, home, receipts, gate, job, wake,
                   blocked, inbox, historyVars, countVars>>

\* The deletion operations complete: their conditions are gone.
Uncover ==
    /\ covered # {} /\ covered' = {}
    /\ UNCHANGED <<tableVars, connVars, home, memoryVars, gate, job, wake, blocked,
                   inbox, historyVars, countVars>>

\* compare_and_mark_reported of one row against an expected status.
Marked(s, expected, presented) ==
    IF s \in covered \/ rows[s] # expected THEN rows[s]
    ELSE IF presented THEN "Presented"
    ELSE IF rows[s] = "Pending" THEN "PresentationUnknown" ELSE "Pending"

\* The first rows of list_unpresented after a cursor, at most PageLimit.
PageAfter(plan) ==
    LET span == {s \in plan.after + 1 .. plan.upper : Unpresented(s)}
    IN  {s \in span : Cardinality({t \in span : t <= s}) <= PageLimit}
\* UndeliveredPage.next: a full page that ends before the bound of the pass.
NextAfter(plan) ==
    LET page == PageAfter(plan)
    IN  IF Cardinality(page) = PageLimit /\ Max(page) < plan.upper
        THEN [after |-> Max(page), upper |-> plan.upper, pendingOnly |-> plan.pendingOnly]
        ELSE NoCursor

-----------------------------------------------------------------------------
(* Connections                                                             *)

StartJob(c, op, pc) == job' = [job EXCEPT ![c] = [NoJob EXCEPT !.op = op, !.pc = pc]]
\* The next step of a job.
To(c, pc) == job' = [job EXCEPT ![c].pc = pc]

\* The handling of a frame ends: BusinessOut::Done lets the loop push.
\* A push that ends leaves the connection idle.
AfterJob(c) ==
    IF Current(c) /\ job[c].op # "push" /\ ~blocked[c]
    THEN [NoJob EXCEPT !.op = "push", !.pc = "gate", !.trigger = "Push"]
    ELSE NoJob
\* The job ends and lets go of the presentation gate.
Finish(c) ==
    /\ job' = [job EXCEPT ![c] = AfterJob(c)]
    /\ gate' = IF gate = c THEN None ELSE gate

\* A proof authenticates a connection as the current one of its device.
Authenticate(c, d) ==
    /\ conn[c] = "new"
    /\ conn' = [x \in Conns |-> IF x = c THEN "current"
                                ELSE IF device[x] = d /\ conn[x] = "current" THEN "left"
                                ELSE conn[x]]
    /\ device' = [device EXCEPT ![c] = d]
    /\ StartJob(c, "auto", "attribution")
    /\ UNCHANGED <<tableVars, covered, home, memoryVars, gate, wake, blocked, inbox,
                   historyVars, countVars>>

\* The connection ends: note_closed takes it from the table.
Leave(c) ==
    /\ Current(c)
    /\ conn' = [conn EXCEPT ![c] = "left"]
    /\ UNCHANGED <<tableVars, covered, device, home, memoryVars, gate, job, wake, blocked,
                   inbox, historyVars, countVars>>

\* drop_presentation_connection_state of a closed or superseded connection.
DropState(c) ==
    /\ conn[c] = "left"
    /\ conn' = [conn EXCEPT ![c] = "gone"]
    /\ sub' = [sub EXCEPT ![c] = NoSub] /\ cursors' = [cursors EXCEPT ![c] = {}]
    /\ refs' = refs \ {c}
    /\ receipt' = IF receipt.conn = c THEN NoReceipt ELSE receipt
    /\ UNCHANGED <<tableVars, covered, device, home, receipts, gate, job, wake, blocked,
                   inbox, historyVars, countVars>>

\* The owner's input on a connection moves the companion to its client, and
\* the new attribution is presented at once.
Attach(c) ==
    /\ Current(c) /\ job[c].op = "none" /\ ~PresentingClient(c) /\ moves < MaxMoves
    /\ home' = device[c] /\ moves' = moves + 1
    /\ StartJob(c, "auto", "gate")
    /\ UNCHANGED <<tableVars, covered, connVars, memoryVars, gate, wake, blocked, inbox,
                   historyVars, asks, erasures>>

\* The handshake reads the attribution after it has installed the connection.
AutoAttribution(c) ==
    /\ job[c].op = "auto" /\ job[c].pc = "attribution"
    /\ IF PresentingClient(c) THEN To(c, "gate") /\ UNCHANGED gate ELSE Finish(c)
    /\ UNCHANGED <<tableVars, covered, connVars, home, memoryVars, wake, blocked, inbox,
                   historyVars, countVars>>

\* auto_present_for restarts the subscription from the first row.
AutoEnter(c) ==
    /\ job[c].op = "auto" /\ job[c].pc = "gate" /\ gate = None
    /\ IF Current(c)
       THEN /\ gate' = c
            /\ sub' = [sub EXCEPT ![c] = NewSub]
            /\ cursors' = [cursors EXCEPT ![c] = @ \ {sub[c].resume}]
            /\ job' = [job EXCEPT ![c].pc = "plan", ![c].trigger = "Redisplay"]
            /\ shown' = [shown EXCEPT ![c] = {}]
       ELSE Finish(c) /\ UNCHANGED <<sub, cursors, shown>>
    /\ UNCHANGED <<tableVars, covered, connVars, home, receipt, receipts, refs, wake,
                   blocked, inbox, confirmed, countVars>>

-----------------------------------------------------------------------------
(* Requests and pushes                                                     *)

\* A client asks for the next page, for all rows again, or with a cursor.
Ask(c, redisplay, asked) ==
    /\ Current(c) /\ job[c].op = "none" /\ asks < MaxAsks
    /\ asks' = asks + 1
    /\ job' = [job EXCEPT ![c] = [NoJob EXCEPT !.op = "present", !.pc = "attribution",
                   !.trigger = IF redisplay THEN "Redisplay" ELSE "Request", !.asked = asked]]
    /\ UNCHANGED <<tableVars, covered, connVars, home, memoryVars, gate, wake, blocked,
                   inbox, historyVars, moves, erasures>>

\* present_page reads the attribution before it waits for the gate.
AskAttribution(c) ==
    /\ job[c].op = "present" /\ job[c].pc = "attribution"
    /\ IF PresentingClient(c) THEN To(c, "gate") /\ UNCHANGED gate ELSE Finish(c)
    /\ UNCHANGED <<tableVars, covered, connVars, home, memoryVars, wake, blocked, inbox,
                   historyVars, countVars>>

\* A request without a cursor shows the outstanding receipt again.
AskEnter(c) ==
    /\ job[c].op = "present" /\ job[c].pc = "gate" /\ gate = None
    /\ gate' = c
    /\ IF job[c].asked = NoCursor /\ LiveReceipt(c)
       THEN job' = [job EXCEPT ![c].pc = "reemit", ![c].frame = receipt.id,
                                ![c].items = receipt.selected]
       ELSE To(c, "plan")
    /\ UNCHANGED <<tableVars, covered, connVars, home, memoryVars, wake, blocked, inbox,
                   historyVars, countVars>>

\* has_plan: the subscription continues a pass or has new rows behind its floor.
HasPlan(c) ==
    sub[c].held /\ (sub[c].resume # NoCursor \/ (sub[c].drained /\ sub[c].floor < PassBound))

\* push_undelivered: nothing to push ends the job where it stands.
PushEnter(c) ==
    LET expired == receipt.conn = c /\ receipt.expired
    IN  /\ job[c].op = "push" /\ job[c].pc = "gate" /\ gate = None
        /\ receipt' = IF expired THEN NoReceipt ELSE receipt
        /\ IF Current(c) /\ PresentingClient(c) /\ ~LiveReceipt(c) /\ HasPlan(c)
           THEN gate' = c /\ To(c, "plan")
           ELSE Finish(c)
        /\ UNCHANGED <<tableVars, covered, connVars, home, sub, cursors, receipts, refs,
                       wake, blocked, inbox, historyVars, countVars>>

\* begin_pass with a cursor: it must be one this connection was given.
PlanAsked(c) ==
    /\ job[c].pc = "plan" /\ job[c].asked # NoCursor
    /\ IF job[c].asked \in cursors[c]
       THEN /\ job' = [job EXCEPT ![c].pc = "list", ![c].plan = job[c].asked,
                                  ![c].continued = TRUE, ![c].from = job[c].asked]
            /\ UNCHANGED gate
       ELSE Finish(c)
    /\ UNCHANGED <<tableVars, covered, connVars, home, memoryVars, wake, blocked, inbox,
                   historyVars, countVars>>

\* begin_pass without a cursor: continue the pass that is under way, scan the
\* arrivals behind the floor, or start again from the first row.  A receipt of
\* another connection, or an expired one, is dropped first.
Plan(c) ==
    LET s == IF sub[c].held THEN sub[c] ELSE NewSub
        redisplay == job[c].trigger = "Redisplay"
        continue == ~redisplay /\ s.resume # NoCursor
        arrivals == ~redisplay /\ ~continue /\ s.drained /\ s.floor < PassBound
        explicit == ~continue /\ ~arrivals /\ job[c].trigger # "Push"
        plan == IF continue THEN s.resume
                ELSE IF arrivals
                THEN [after |-> s.floor, upper |-> PassBound, pendingOnly |-> TRUE]
                ELSE [after |-> 0, upper |-> PassBound, pendingOnly |-> FALSE]
    IN  /\ job[c].pc = "plan" /\ job[c].asked = NoCursor
        /\ IF Current(c)
           THEN /\ receipt' = IF receipt.conn # c \/ receipt.expired THEN NoReceipt ELSE receipt
                /\ sub' = [sub EXCEPT ![c] = IF continue THEN s
                                             ELSE [s EXCEPT !.resume = NoCursor]]
                /\ cursors' = IF continue THEN cursors
                              ELSE [cursors EXCEPT ![c] = @ \ {s.resume}]
                /\ IF continue \/ arrivals \/ explicit
                   THEN /\ job' = [job EXCEPT ![c].pc = "list", ![c].plan = plan,
                                      ![c].continued = continue,
                                      ![c].from = IF continue THEN s.resume ELSE NoCursor]
                        /\ UNCHANGED gate
                   ELSE Finish(c)
                /\ shown' = IF explicit THEN [shown EXCEPT ![c] = {}] ELSE shown
           ELSE Finish(c) /\ UNCHANGED <<receipt, sub, cursors, shown>>
        /\ UNCHANGED <<tableVars, covered, connVars, home, receipts, refs, wake, blocked,
                       inbox, confirmed, countVars>>

\* carry_items hands out references to the sources of a page's items, to a
\* connection that is still current; otherwise the pass ends there.
CarryItems(c) == Current(c)

\* list_unpresented and carry_items: the page is read and made to carry.
List(c) ==
    LET page == PageAfter(job[c].plan)
    IN  /\ job[c].pc = "list"
        /\ IF CarryItems(c)
           THEN /\ job' = [job EXCEPT ![c].pc = "commit", ![c].next = NextAfter(job[c].plan),
                       ![c].fresh = {s \in page : rows[s] = "Pending"},
                       ![c].seen = IF job[c].plan.pendingOnly THEN {}
                                   ELSE {s \in page : rows[s] = "PresentationUnknown"}]
                /\ UNCHANGED gate
           ELSE Finish(c)
        /\ UNCHANGED <<tableVars, covered, connVars, home, memoryVars, wake, blocked, inbox,
                       historyVars, countVars>>

EmptyPage(c) == job[c].fresh = {} /\ job[c].seen = {}

\* Mutated: the floor stays behind.
DrainedBehind(s, upper) ==
    IF s.held THEN [s EXCEPT !.drained = TRUE, !.resume = NoCursor] ELSE s
\* drain_sub: everything up to the bound of the pass is scanned.
Drained(s, upper) ==
    IF s.held THEN [s EXCEPT !.floor = Max({s.floor, upper}), !.drained = TRUE, !.resume = NoCursor]
    ELSE s
\* What a page leaves of its connection's cursors and subscription.
Advance(c) ==
    LET next == job[c].next
    IN  /\ cursors' = [cursors EXCEPT ![c] = (@ \ {job[c].from})
                                              \cup (IF next = NoCursor THEN {} ELSE {next})]
        /\ sub' = [sub EXCEPT ![c] = IF next = NoCursor THEN Drained(@, job[c].plan.upper)
                                     ELSE IF @.held THEN [@ EXCEPT !.resume = next] ELSE @]

\* A pass that was under way has nothing left: the request starts over.
StartOver(c) ==
    /\ job[c].pc = "commit" /\ EmptyPage(c)
    /\ job[c].continued /\ job[c].asked = NoCursor /\ job[c].op = "present"
    /\ IF Current(c)
       THEN /\ cursors' = [cursors EXCEPT ![c] = @ \ {job[c].from}]
            /\ job' = [job EXCEPT ![c].pc = "plan", ![c].trigger = "Redisplay"]
            /\ UNCHANGED gate
       ELSE Finish(c) /\ UNCHANGED cursors
    /\ UNCHANGED <<tableVars, covered, connVars, home, sub, receipt, receipts, refs, wake,
                   blocked, inbox, historyVars, countVars>>

\* An empty page answers at once; a push sends nothing for it.
CommitEmpty(c) ==
    /\ job[c].pc = "commit" /\ EmptyPage(c)
    /\ ~(job[c].continued /\ job[c].asked = NoCursor /\ job[c].op = "present")
    /\ IF Current(c) THEN Advance(c) ELSE UNCHANGED <<cursors, sub>>
    /\ Finish(c)
    /\ UNCHANGED <<tableVars, covered, connVars, home, receipt, receipts, refs, wake,
                   blocked, inbox, historyVars, countVars>>

\* commit_install, while the connection is current: the marks of the page's
\* pending rows, the receipt over the rows it carries, the next cursor.  A
\* covered row is carried without its text; a row whose mark fails is left out.
Commit(c) ==
    \E failed \in SUBSET job[c].fresh :
        LET held == job[c].fresh \cap covered
            marked == {s \in job[c].fresh \ (covered \cup failed) : rows[s] = "Pending"}
            selected == job[c].seen \cup marked \cup (held \ failed)
        IN  /\ job[c].pc = "commit" /\ ~EmptyPage(c)
            /\ Failures \/ failed = {}
            /\ IF Current(c)
               THEN /\ rows' = [s \in Seqs |-> IF s \in marked THEN Marked(s, "Pending", FALSE)
                                               ELSE rows[s]]
                    /\ receipts' = receipts + 1
                    /\ receipt' = [id |-> receipts + 1, conn |-> c, selected |-> selected,
                                   expired |-> FALSE]
                    /\ Advance(c)
                    /\ job' = [job EXCEPT ![c].pc = "send", ![c].frame = receipts + 1,
                                          ![c].items = selected]
                    /\ UNCHANGED gate
               ELSE Finish(c) /\ UNCHANGED <<rows, receipt, receipts, cursors, sub>>
            /\ UNCHANGED <<replies, covered, connVars, home, refs, wake, blocked, inbox,
                           historyVars, countVars>>

\* reemit_receipt reads the rows of the receipt, and which are settled by now.
Reemit(c) ==
    /\ job[c].pc = "reemit"
    /\ job' = [job EXCEPT ![c].pc = "reinstall",
                   ![c].items = {s \in job[c].items : rows[s] # "Presented"},
                   ![c].satisfied = {s \in job[c].items : rows[s] = "Presented"}]
    /\ UNCHANGED <<tableVars, covered, connVars, home, memoryVars, gate, wake, blocked, inbox,
                   historyVars, countVars>>

\* It shows them again if the receipt is still there.
Reinstall(c) ==
    /\ job[c].pc = "reinstall"
    /\ IF Current(c) /\ receipt.id = job[c].frame
       THEN /\ receipt' = [receipt EXCEPT !.selected = @ \ job[c].satisfied]
            /\ To(c, "send") /\ UNCHANGED gate
       ELSE Finish(c) /\ UNCHANGED receipt
    /\ UNCHANGED <<tableVars, covered, connVars, home, sub, cursors, receipts, refs, wake,
                   blocked, inbox, historyVars, countVars>>

\* attach_reports hands out references to the tasks of a page, if it may.
AttachReports(c) == Current(c)

\* The references are handed out, the gate is released and the frame is
\* written.  The write may fail: a push then blocks later pushes, an
\* answer ends the connection.
Send(c) ==
    /\ job[c].pc = "send"
    /\ Finish(c)
    /\ refs' = IF AttachReports(c) THEN refs \cup {c} ELSE refs
    /\ \/ /\ Current(c) /\ job[c].items # {}
          /\ inbox' = [inbox EXCEPT ![c] = @ \cup {[id |-> job[c].frame, items |-> job[c].items]}]
          /\ shown' = [shown EXCEPT ![c] = @ \cup job[c].items]
          /\ UNCHANGED <<conn, blocked>>
       \/ /\ ~Current(c) \/ job[c].items = {}
          /\ UNCHANGED <<inbox, shown, conn, blocked>>
       \/ /\ Failures /\ Current(c)
          /\ blocked' = [blocked EXCEPT ![c] = @ \/ job[c].op = "push"]
          /\ conn' = IF job[c].op = "push" THEN conn ELSE [conn EXCEPT ![c] = "left"]
          /\ UNCHANGED <<inbox, shown>>
    /\ UNCHANGED <<tableVars, covered, device, home, sub, cursors, receipt, receipts, wake,
                   confirmed, countVars>>

-----------------------------------------------------------------------------
(* The connection's loop                                                   *)

\* The loop consumes the wakeup, between two frames.
Wake(c) ==
    /\ Current(c) /\ wake[c] /\ job[c].op = "none"
    /\ wake' = [wake EXCEPT ![c] = FALSE]
    /\ job' = [job EXCEPT ![c] = AfterJob(c)]
    /\ UNCHANGED <<tableVars, covered, connVars, home, memoryVars, gate, blocked, inbox,
                   historyVars, countVars>>

\* RECEIPT_TTL passes.
Expire ==
    /\ receipt # NoReceipt /\ ~receipt.expired
    /\ receipt' = [receipt EXCEPT !.expired = TRUE]
    /\ UNCHANGED <<tableVars, covered, connVars, home, sub, cursors, receipts, refs, gate, job,
                   wake, blocked, inbox, historyVars, countVars>>

\* The loop's receipt deadline: the receipt goes even while a frame is handled.
Deadline(c) ==
    /\ Current(c) /\ job[c].op # "push"
    /\ receipt.conn = c /\ receipt.expired
    /\ receipt' = NoReceipt
    /\ job' = IF job[c].op = "none" THEN [job EXCEPT ![c] = AfterJob(c)] ELSE job
    /\ UNCHANGED <<tableVars, covered, connVars, home, sub, cursors, receipts, refs, gate,
                   wake, blocked, inbox, historyVars, countVars>>

-----------------------------------------------------------------------------
(* Acknowledgements                                                        *)

\* The client of a device acknowledges a summary it received, late, again, or
\* on a later connection.
Acknowledge(c, frame, status) ==
    /\ Current(c) /\ job[c].op = "none"
    /\ \E x \in Conns : device[x] = device[c] /\ frame \in inbox[x]
    /\ job' = [job EXCEPT ![c] = [NoJob EXCEPT !.op = "ack", !.pc = "gate",
                                               !.frame = frame.id, !.ack = status]]
    /\ UNCHANGED <<tableVars, covered, connVars, home, memoryVars, gate, wake, blocked, inbox,
                   historyVars, countVars>>

\* The receipt an acknowledgement names, found by a connection that is current.
NamesReceipt(c) == Current(c) /\ receipt # NoReceipt /\ receipt.id = job[c].frame
AckAccepted(c) == NamesReceipt(c) /\ receipt.conn = c /\ ~receipt.expired
\* Mutated: only expiry releases a receipt.
AckKeepsReceipt(c) == NamesReceipt(c) /\ receipt.expired
\* An accepted acknowledgement consumes the receipt, one that is late drops it.
AckReleases(c) == NamesReceipt(c) /\ (receipt.expired \/ AckAccepted(c))
\* Mutated: an acknowledgement settles whatever is in doubt.
AckedRowsInDoubt == {s \in Seqs : rows[s] = "PresentationUnknown"}
AckedRows == receipt.selected

\* apply_ack, while the connection is current: the receipt goes, then its rows
\* are marked, each in a transaction of its own that may fail.
ApplyAck(c) ==
    \E failed \in SUBSET AckedRows :
        /\ job[c].op = "ack" /\ gate = None
        /\ failed # {} => Failures /\ AckAccepted(c)
        /\ receipt' = IF AckReleases(c) THEN NoReceipt ELSE receipt
        /\ rows' = [s \in Seqs |->
               IF AckAccepted(c) /\ job[c].ack # "Unknown" /\ s \in AckedRows \ failed
               THEN Marked(s, "PresentationUnknown", job[c].ack = "Presented")
               ELSE rows[s]]
        /\ Finish(c)
        /\ UNCHANGED <<replies, covered, connVars, home, sub, cursors, receipts, refs, wake,
                       blocked, inbox, historyVars, countVars>>

\* confirm_presentation reads the unpresented rows of the round first.
ConfirmRead(c, status) ==
    /\ Confirms /\ Current(c) /\ job[c].op = "none" /\ replies # {}
    /\ job' = [job EXCEPT ![c] = [NoJob EXCEPT !.op = "confirm", !.pc = "gate", !.ack = status,
                   !.fresh = {s \in replies : rows[s] = "Pending"},
                   !.seen = {s \in replies : rows[s] = "PresentationUnknown"}]]
    /\ UNCHANGED <<tableVars, covered, connVars, home, memoryVars, gate, wake, blocked, inbox,
                   historyVars, countVars>>

\* It marks them under the gate if their status is still the one it read.
ApplyConfirm(c) ==
    LET presented == job[c].ack = "Presented"
        after == [s \in Seqs |->
                     IF ~Current(c) THEN rows[s]
                     ELSE IF s \in job[c].fresh THEN Marked(s, "Pending", presented)
                     ELSE IF s \in job[c].seen THEN Marked(s, "PresentationUnknown", presented)
                     ELSE rows[s]]
    IN  /\ job[c].op = "confirm" /\ gate = None
        /\ rows' = after
        /\ confirmed' = confirmed \cup {s \in Seqs : after[s] = "Presented" /\ rows[s] # after[s]}
        /\ Finish(c)
        /\ UNCHANGED <<replies, covered, connVars, home, memoryVars, wake, blocked, inbox,
                       shown, countVars>>

\* list_tasks_wire, report_wire, usage_summary_wire: read, then hand out references.
Query(c) ==
    /\ Current(c) /\ job[c].op = "none" /\ c \notin refs
    /\ StartJob(c, "query", "read")
    /\ UNCHANGED <<tableVars, covered, connVars, home, memoryVars, gate, wake, blocked, inbox,
                   historyVars, countVars>>

\* Mutated: the references are installed whatever became of the connection.
AnswerQueryUnowned(c) ==
    /\ job[c].op = "query"
    /\ refs' = refs \cup {c}
    /\ Finish(c)
    /\ UNCHANGED <<tableVars, covered, connVars, home, sub, cursors, receipt, receipts, wake,
                   blocked, inbox, historyVars, countVars>>
AnswerQuery(c) ==
    /\ job[c].op = "query"
    /\ refs' = IF Current(c) THEN refs \cup {c} ELSE refs
    /\ Finish(c)
    /\ UNCHANGED <<tableVars, covered, connVars, home, sub, cursors, receipt, receipts, wake,
                   blocked, inbox, historyVars, countVars>>

-----------------------------------------------------------------------------
\* The steps of a job that is under way.
Work(c) ==
    \/ AutoAttribution(c) \/ AutoEnter(c)
    \/ AskAttribution(c) \/ AskEnter(c) \/ PushEnter(c)
    \/ PlanAsked(c) \/ Plan(c) \/ List(c)
    \/ StartOver(c) \/ CommitEmpty(c) \/ Commit(c)
    \/ Reemit(c) \/ Reinstall(c) \/ Send(c)
    \/ ApplyAck(c) \/ ApplyConfirm(c) \/ AnswerQuery(c)

\* What clients and the rest of the host do.
Environment ==
    \/ \E reply \in {FALSE, Confirms} : Register(reply)
    \/ \E s \in Seqs : Cover(s)
    \/ Invalidate \/ Uncover
    \/ \E c \in Conns :
        \/ \E d \in Devices : Authenticate(c, d)
        \/ Leave(c) \/ Attach(c) \/ Query(c)
        \/ \E redisplay \in BOOLEAN : Ask(c, redisplay, NoCursor)
        \/ \E cursor \in cursors[c] : Ask(c, FALSE, cursor)
        \/ \E x \in Conns : \E frame \in inbox[x], status \in Acks : Acknowledge(c, frame, status)
        \/ \E status \in Acks : ConfirmRead(c, status)

Next ==
    \/ Environment
    \/ Expire
    \/ \E c \in Conns : Work(c) \/ DropState(c) \/ Wake(c) \/ Deadline(c)

Spec == Init /\ [][Next]_vars

-----------------------------------------------------------------------------
(* Properties                                                              *)

\* Whatever a slow pass, query or acknowledgement was about to install, a
\* connection whose state was dropped keeps nothing: no subscription, cursor,
\* reference or receipt that nobody would clean up (with_current_connection
\* around every install, drop_presentation_connection_state).
DroppedHoldsNothing ==
    \A c \in Conns : conn[c] = "gone" =>
        sub[c] = NoSub /\ cursors[c] = {} /\ c \notin refs /\ receipt.conn # c

\* A row counts as reported only if a client was sent a summary that carried
\* it, or confirmed it as the reply of its round: never a row that a failed
\* mark, a lost frame or a stale receipt left out of what was shown.
ReportedWasShown ==
    \A s \in Seqs : rows[s] = "Presented" =>
        s \in confirmed \/ \E c \in Conns : \E f \in inbox[c] : s \in f.items

\* A push never repeats to a connection what it was shown since its
\* subscription last started from the first row, not even a row whose
\* presentation failed.
PushIsNew ==
    \A c \in Conns : job[c].op = "push" /\ inbox'[c] # inbox[c] =>
        job[c].items \cap shown[c] = {}
NoRepeatByPush == [][PushIsNew]_vars

\* An outstanding receipt names rows the table still holds as unreported, or
\* rows that another confirmation settled: an acknowledgement and its marks
\* are one step for every other pass.
ReceiptRowsUnreported ==
    \A s \in receipt.selected : rows[s] = "Presented" => s \in confirmed

\* What a pass, a query, an acknowledgement and a disconnect may leave behind.
ReportsSafe == /\ TypeOK /\ ReportedWasShown
               /\ ReceiptRowsUnreported /\ DroppedHoldsNothing

=============================================================================
