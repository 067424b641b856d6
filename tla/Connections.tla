----------------------------- MODULE Connections -----------------------------
(***************************************************************************)
(* Client connections of the ene host: the connection table, the handshake,*)
(* device pairing, and the one presence (the home of the companion) that   *)
(* an authenticated connection may take and that its end gives up.         *)
(*                                                                         *)
(* A connection has two tasks.  Its loop reads frames, asks the table for a *)
(* snapshot (LiveInput) and hands one frame at a time to its business task, *)
(* which handles it step by step.  When the loop ends it closes the        *)
(* connection while the business task may still be at work.                *)
(***************************************************************************)
EXTENDS Naturals, FiniteSets

CONSTANTS
    Conns,              \* connection ids, each used once
    Devices,            \* device ids
    Pendings,           \* ids of pairing requests, each used once
    None,
    MaxPendingPairings, \* MAX_PENDING_PAIRINGS
    MaxGeneration,      \* bound: last presence generation
    MaxRestarts,        \* bound: ends of the host process
    StorageFails,       \* whether a write of a disconnect or approval may fail
    Erasures            \* whether the identity of a client may be erased

ConnectionsAssumption ==
    /\ None \notin Conns \cup Devices \cup Pendings
    /\ "before" \notin Conns \cup {None}
    /\ MaxPendingPairings \in Nat /\ MaxGeneration \in Nat /\ MaxRestarts \in Nat
    /\ StorageFails \in BOOLEAN /\ Erasures \in BOOLEAN

VARIABLES
    host,      \* "up", "down", or "refused": the startup failed
    stopped,   \* admission_stopped
    lock,      \* the connection for which the table lock spans two transactions
    phase,     \* ConnectionRecord.phase, "none" when there is no record
    device,    \* ConnectionRecord.paired_device
    nonce,     \* ConnectionRecord.nonce is present
    current,   \* device_current
    link,      \* how far the serving task of a connection is
    job,       \* the frame its business task handles
    template,  \* whether the last frame the loop saw handled is a pairing request
    bound,     \* Slot.pending_id, and by_pending, its inverse
    slots,     \* PairingDeliveryRegistry.by_connection
    queued,    \* the provision waiting for the loop of a connection
    creation,  \* who holds pairing_creation
    approval,  \* the approval of each pending request
    pending,   \* table pairing_pending: the origin of each row
    devices,   \* table paired_device
    secrets,   \* devices whose secret is in auth_store
    holder,    \* the connection whose client received the secret of a device
    home,      \* table presence_attribution
    destination, \* relocation_hint.recovery_destination
    restarts

tableVars    == <<lock, phase, device, nonce, current, stopped>>
loopVars     == <<link, template>>
registryVars == <<bound, slots, queued>>
pairVars     == <<creation, approval, pending, devices, secrets, holder>>
homeVars     == <<home, destination>>
hostVars     == <<host, restarts>>
vars == <<tableVars, loopVars, job, registryVars, pairVars, homeVars, hostVars>>

-----------------------------------------------------------------------------
Phases == {"none", "Accepted", "Paired", "Challenged", "Authenticated",
           "Superseded", "Closed"}
Kinds == {"pair", "advertise", "proof", "submit"}
HomeStates == {"Present", "NoActive", "InTransition", "Stopped", "RecoveryWait"}
Homes == [state : HomeStates, active : Devices \cup {None}, gen : 0..MaxGeneration]

\* The frame with the LiveInput it was dispatched with, and what was read since;
\* ref is the pending request it made or the connection it superseded.
NoJob == [pc |-> "idle", kind |-> "pair", claim |-> None, good |-> FALSE,
          device |-> None, gen |-> 0, ref |-> None]
JobPcs == {"idle", "start", "row", "bind", "verify", "supersede", "attach",
           "confirm", "done"}
NoApproval == [pc |-> "fresh", conn |-> None, device |-> None]

TypeOK ==
    /\ host \in {"up", "down", "refused"} /\ stopped \in BOOLEAN
    /\ lock \in Conns \cup {None}
    /\ phase \in [Conns -> Phases]
    /\ device \in [Conns -> Devices \cup {None}]
    /\ nonce \in [Conns -> BOOLEAN]
    /\ current \in [Devices -> Conns \cup {None}]
    /\ link \in [Conns -> {"fresh", "open", "ended", "left", "closed", "dropped", "gone"}]
    /\ job \in [Conns -> [pc : JobPcs, kind : Kinds, claim : Devices \cup {None},
                          good : BOOLEAN, device : Devices \cup {None}, gen : 0..MaxGeneration,
                          ref : Pendings \cup Conns \cup {None}]]
    /\ template \in [Conns -> BOOLEAN]
    /\ bound \in [Conns -> Pendings \cup {None}]
    /\ slots \in SUBSET Conns
    /\ queued \in [Conns -> Devices \cup {None}]
    /\ creation \in Conns \cup {None}
    /\ approval \in [Pendings -> [pc : {"fresh", "open", "claimed", "committed", "saved", "granted", "ended"},
                                  conn : Conns \cup {None}, device : Devices \cup {None}]]
    /\ pending \in [Pendings -> Conns \cup {None}]
    /\ devices \in SUBSET Devices /\ secrets \in SUBSET Devices
    /\ holder \in [Devices -> Conns \cup {"before", None}]
    /\ home \in Homes
    /\ destination \in Devices \cup {None}
    /\ restarts \in 0..MaxRestarts

\* A new companion has no home; some devices were paired before and hold their secrets.
Init ==
    /\ host = "up" /\ stopped = FALSE /\ lock = None
    /\ phase = [c \in Conns |-> "none"]
    /\ device = [c \in Conns |-> None]
    /\ nonce = [c \in Conns |-> FALSE]
    /\ current = [d \in Devices |-> None]
    /\ link = [c \in Conns |-> "fresh"]
    /\ job = [c \in Conns |-> NoJob]
    /\ template = [c \in Conns |-> FALSE]
    /\ bound = [c \in Conns |-> None] /\ slots = {}
    /\ queued = [c \in Conns |-> None]
    /\ creation = None
    /\ approval = [p \in Pendings |-> NoApproval]
    /\ pending = [p \in Pendings |-> None]
    /\ devices \in SUBSET Devices /\ secrets = devices
    /\ holder = [d \in Devices |-> IF d \in devices THEN "before" ELSE None]
    /\ home = [state |-> "NoActive", active |-> None, gen |-> 0]
    /\ destination = None
    /\ restarts = 0

Up == host = "up"

\* The table is a mutex: nobody reads or writes it while a commit closure runs.
TableFree == Up /\ lock = None

\* current_authenticated.
Current(c) ==
    /\ ~stopped /\ phase[c] = "Authenticated"
    /\ device[c] # None /\ current[device[c]] = c

JobTo(c, pc) == job' = [job EXCEPT ![c].pc = pc]
Finish(c) == job' = [job EXCEPT ![c] = [NoJob EXCEPT !.pc = "done", !.kind = job[c].kind]]

\* A frame outside its phase is rejected by its snapshot alone.
OutOfPhase(kind, c) == CASE kind = "pair"      -> phase[c] # "Accepted"
                         [] kind = "advertise" -> phase[c] \notin {"Accepted", "Paired"}
                         [] kind = "proof"     -> phase[c] # "Challenged"
                         [] kind = "submit"    -> ~Current(c)

-----------------------------------------------------------------------------
\* The loop of a connection.

\* note_accept, and register at the start of serve_connection.
Accept(c) ==
    /\ TableFree /\ link[c] = "fresh"
    /\ link' = [link EXCEPT ![c] = "open"]
    /\ phase' = IF stopped THEN phase ELSE [phase EXCEPT ![c] = "Accepted"]
    /\ slots' = slots \cup {c}
    /\ UNCHANGED <<lock, device, nonce, current, stopped, template, job, bound,
                   queued, pairVars, homeVars, hostVars>>

\* EOF, Close, a liveness or handshake deadline, a failed write, the shutdown.
EndLoop(c) ==
    /\ Up /\ link[c] = "open"
    /\ link' = [link EXCEPT ![c] = "ended"] /\ template' = [template EXCEPT ![c] = FALSE]
    /\ UNCHANGED <<tableVars, job, registryVars, pairVars, homeVars, hostVars>>

\* live_for: a frame goes to the business task with a snapshot of its record.
\* A device claim that is not the device of the connection ends it (EndLoop).
Dispatch(c, kind, claim, good) ==
    /\ TableFree /\ link[c] = "open" /\ job[c].pc = "idle"
    /\ ~stopped /\ phase[c] # "none"
    /\ device[c] # None => claim = device[c]
    /\ IF OutOfPhase(kind, c)
         THEN template' = [template EXCEPT ![c] = kind = "pair"] /\ UNCHANGED job
         ELSE /\ job' = [job EXCEPT ![c] =
                    [pc |-> "start", kind |-> kind, claim |-> claim, good |-> good,
                     device |-> device[c], gen |-> 0, ref |-> None]]
              /\ UNCHANGED template
    /\ UNCHANGED <<tableVars, link, registryVars, pairVars, homeVars, hostVars>>

\* BusinessOut::Done: the frame becomes the template; without a loop the task ends.
JobDone(c) ==
    /\ Up /\ job[c].pc = "done"
    /\ job' = [job EXCEPT ![c] = NoJob]
    /\ template' = IF link[c] = "open" THEN [template EXCEPT ![c] = job[c].kind = "pair"]
                                       ELSE template
    /\ UNCHANGED <<tableVars, link, registryVars, pairVars, homeVars, hostVars>>

\* Mutated: a provision is accepted in a later phase too (note_paired).
ProvisionAnyPhase(c) ==
    /\ TableFree /\ link[c] = "open" /\ queued[c] # None
    /\ queued' = [queued EXCEPT ![c] = None]
    /\ IF template[c] /\ ~stopped /\ phase[c] # "none"
         THEN /\ phase' = [phase EXCEPT ![c] = "Paired"]
              /\ device' = [device EXCEPT ![c] = queued[c]]
              /\ \/ holder' = [holder EXCEPT ![queued[c]] = c] /\ link' = link
                 \/ link' = [link EXCEPT ![c] = "ended"] /\ holder' = holder
         ELSE /\ link' = [link EXCEPT ![c] = "ended"]
              /\ UNCHANGED <<phase, device, holder>>
    /\ UNCHANGED <<lock, nonce, current, stopped, template, job, bound, slots, creation,
                   approval, pending, devices, secrets, homeVars, hostVars>>

\* The provision of an approval reaches the loop, which hands the secret over
\* when its last frame was the pairing request and the table still agrees.
Provision(c) ==
    /\ TableFree /\ link[c] = "open" /\ queued[c] # None
    /\ queued' = [queued EXCEPT ![c] = None]
    /\ IF template[c] /\ ~stopped /\ phase[c] = "Accepted" /\ device[c] = None
         THEN /\ phase' = [phase EXCEPT ![c] = "Paired"]
              /\ device' = [device EXCEPT ![c] = queued[c]]
              /\ \/ holder' = [holder EXCEPT ![queued[c]] = c] /\ link' = link
                 \/ link' = [link EXCEPT ![c] = "ended"] /\ holder' = holder
         ELSE /\ link' = [link EXCEPT ![c] = "ended"]
              /\ UNCHANGED <<phase, device, holder>>
    /\ UNCHANGED <<lock, nonce, current, stopped, template, job, bound, slots, creation,
                   approval, pending, devices, secrets, homeVars, hostVars>>

-----------------------------------------------------------------------------
\* Closing a connection.

\* compare_and_begin_transition_sync: the new home is on its way to d.
Begin(d) ==
    /\ home' = [state |-> "InTransition", active |-> d, gen |-> home.gen + 1]
    /\ destination' = None

\* confirm_transition_sync, for a client that is reachable or not.
Confirm(live) ==
    /\ home' = IF home.state # "InTransition" THEN home
               ELSE IF live THEN [home EXCEPT !.state = "Present"]
               ELSE [home EXCEPT !.state = "NoActive", !.active = None]
    /\ UNCHANGED destination

HomeOf(d) == home.state = "Present" /\ home.active = d

\* note_closed with note_disconnect_sync as its fallback, under the table lock.
CloseRecord(c) ==
    /\ TableFree /\ link[c] = "ended"
    /\ phase' = [phase EXCEPT ![c] = "none"]
    /\ device' = [device EXCEPT ![c] = None]
    /\ nonce' = [nonce EXCEPT ![c] = FALSE]
    /\ IF device[c] # None /\ current[device[c]] = c
         THEN /\ current' = [current EXCEPT ![device[c]] = None]
              /\ \/ /\ HomeOf(device[c])
                    /\ Begin(None)
                    /\ lock' = c /\ link' = [link EXCEPT ![c] = "left"]
                 \/ /\ ~HomeOf(device[c]) \/ StorageFails
                    /\ link' = [link EXCEPT ![c] = "closed"]
                    /\ UNCHANGED <<lock, homeVars>>
         ELSE /\ link' = [link EXCEPT ![c] = "closed"]
              /\ UNCHANGED <<current, lock, homeVars>>
    /\ UNCHANGED <<stopped, template, job, registryVars, pairVars, hostVars>>

CloseConfirm(c) ==
    /\ Up /\ lock = c /\ link[c] = "left"
    /\ \/ Confirm(FALSE)
       \/ StorageFails /\ UNCHANGED homeVars
    /\ lock' = None
    /\ link' = [link EXCEPT ![c] = "closed"]
    /\ UNCHANGED <<phase, device, nonce, current, stopped, template, job, registryVars,
                   pairVars, hostVars>>

\* PairingDeliveryRegistry::remove, in drop_connection_transient_state.
DropSlot(c) ==
    /\ slots' = slots \ {c}
    /\ bound' = [bound EXCEPT ![c] = None]

CloseDrop(c) ==
    /\ Up /\ link[c] = "closed"
    /\ DropSlot(c)
    /\ link' = [link EXCEPT ![c] = "dropped"]
    /\ UNCHANGED <<tableVars, template, job, queued, pairVars, homeVars, hostVars>>

\* abandon_pending_by_origin, and the end of serve_connection.
CloseAbandon(c) ==
    /\ Up /\ link[c] = "dropped"
    /\ \/ pending' = [p \in Pendings |-> IF pending[p] = c THEN None ELSE pending[p]]
       \/ StorageFails /\ UNCHANGED pending
    /\ queued' = [queued EXCEPT ![c] = None]
    /\ link' = [link EXCEPT ![c] = "gone"]
    /\ UNCHANGED <<tableVars, template, job, bound, slots, creation, approval, devices,
                   secrets, holder, homeVars, hostVars>>

-----------------------------------------------------------------------------
\* The business task: pairing.

\* Mutated: counting and inserting are not under one lock.
PairBeginUnlocked(c) ==
    /\ Up /\ creation = None
    /\ job[c].pc = "start" /\ job[c].kind = "pair"
    /\ IF \/ c \in slots /\ bound[c] # None
          \/ Cardinality({p \in Pendings : pending[p] # None}) >= MaxPendingPairings
         THEN Finish(c) /\ UNCHANGED creation
         ELSE JobTo(c, "row") /\ UNCHANGED creation
    /\ UNCHANGED <<tableVars, loopVars, registryVars, approval, pending, devices, secrets,
                   holder, homeVars, hostVars>>

\* pair() up to list_pending: a resent request is answered from its slot, and
\* one too many is denied.
PairBegin(c) ==
    /\ Up /\ creation = None
    /\ job[c].pc = "start" /\ job[c].kind = "pair"
    /\ IF \/ c \in slots /\ bound[c] # None
          \/ Cardinality({p \in Pendings : pending[p] # None}) >= MaxPendingPairings
         THEN Finish(c) /\ UNCHANGED creation
         ELSE JobTo(c, "row") /\ creation' = c
    /\ UNCHANGED <<tableVars, loopVars, registryVars, approval, pending, devices, secrets,
                   holder, homeVars, hostVars>>

\* request_pairing: a row under a fresh id.
PairRow(c, p) ==
    /\ Up /\ job[c].pc = "row" /\ approval[p].pc = "fresh"
    /\ approval' = [approval EXCEPT ![p].pc = "open"]
    /\ pending' = [pending EXCEPT ![p] = c]
    /\ job' = [job EXCEPT ![c].pc = "bind", ![c].ref = p]
    /\ UNCHANGED <<tableVars, loopVars, registryVars, creation, devices, secrets, holder,
                   homeVars, hostVars>>

\* request_pairing failed, in particular when the ids of the model are used up.
PairFail(c) ==
    /\ Up /\ job[c].pc = "row"
    /\ StorageFails \/ \A p \in Pendings : approval[p].pc # "fresh"
    /\ creation' = None
    /\ Finish(c)
    /\ UNCHANGED <<tableVars, loopVars, registryVars, approval, pending, devices, secrets,
                   holder, homeVars, hostVars>>

\* note_awaiting_owner_confirmation and bind_pending; the lock is released.
PairBind(c) ==
    /\ TableFree /\ job[c].pc = "bind"
    /\ bound' = IF c \in slots /\ bound[c] = None
                  THEN [bound EXCEPT ![c] = job[c].ref] ELSE bound
    /\ creation' = None
    /\ job' = [job EXCEPT ![c].pc = "done", ![c].ref = None]
    /\ UNCHANGED <<tableVars, loopVars, slots, queued, approval, pending, devices, secrets,
                   holder, homeVars, hostVars>>

\* A gated frame of a connection that is not current any more is rejected.
Reject(c) ==
    /\ TableFree /\ job[c].pc = "start" /\ job[c].kind = "submit"
    /\ ~Current(c)
    /\ Finish(c)
    /\ UNCHANGED <<tableVars, loopVars, registryVars, pairVars, homeVars, hostVars>>

-----------------------------------------------------------------------------
\* The business task: handshake.

\* advertise: find_device_by_wire when the snapshot has no device; note_challenged.
Advertise(c) ==
    /\ TableFree /\ job[c].pc = "start" /\ job[c].kind = "advertise"
    /\ Finish(c)
    /\ LET bind == IF job[c].device = None THEN job[c].claim ELSE None
           known == job[c].device # None \/ bind \in devices
       IN  IF /\ known /\ ~stopped
              /\ \/ phase[c] = "Accepted" /\ bind # None
                 \/ phase[c] = "Paired" /\ bind \in {None, device[c]}
             THEN /\ phase' = [phase EXCEPT ![c] = "Challenged"]
                  /\ nonce' = [nonce EXCEPT ![c] = TRUE]
                  /\ device' = IF phase[c] = "Accepted" THEN [device EXCEPT ![c] = bind]
                                                        ELSE device
             ELSE UNCHANGED <<phase, nonce, device>>
    /\ UNCHANGED <<lock, current, stopped, loopVars, registryVars, pairVars, homeVars, hostVars>>

\* Mutated: the nonce is read, not taken.
TakeNonceKeeps(c) ==
    /\ TableFree /\ job[c].pc = "start" /\ job[c].kind = "proof"
    /\ IF ~stopped /\ phase[c] = "Challenged" /\ nonce[c]
         THEN UNCHANGED nonce /\ JobTo(c, "verify")
         ELSE Finish(c) /\ UNCHANGED nonce
    /\ UNCHANGED <<lock, phase, device, current, stopped, loopVars, registryVars, pairVars,
                   homeVars, hostVars>>

\* verify_proof up to take_nonce.
TakeNonce(c) ==
    /\ TableFree /\ job[c].pc = "start" /\ job[c].kind = "proof"
    /\ IF ~stopped /\ phase[c] = "Challenged" /\ nonce[c]
         THEN nonce' = [nonce EXCEPT ![c] = FALSE] /\ JobTo(c, "verify")
         ELSE Finish(c) /\ UNCHANGED nonce
    /\ UNCHANGED <<lock, phase, device, current, stopped, loopVars, registryVars, pairVars,
                   homeVars, hostVars>>

\* verify_device_proof: the proof was made with the secret of the device.
Verified(c) == job[c].good /\ job[c].device \in devices \cap secrets

\* Mutated: the connection replaced stays authenticated.
InstallBeside(c) ==
    /\ TableFree /\ job[c].pc = "verify"
    /\ LET d == device[c]
           previous == current[d]
       IN  IF ~Verified(c)
             THEN /\ phase' = IF phase[c] = "Challenged"
                                THEN [phase EXCEPT ![c] = "Closed"] ELSE phase
                  /\ Finish(c) /\ UNCHANGED <<current>>
             ELSE IF ~stopped /\ phase[c] = "Challenged"
               THEN /\ current' = [current EXCEPT ![d] = c]
                    /\ IF previous # None /\ phase[previous] = "Authenticated"
                         THEN /\ phase' = [phase EXCEPT ![c] = "Authenticated"]
                              /\ job' = [job EXCEPT ![c].pc = "supersede",
                                                     ![c].ref = previous]
                         ELSE /\ phase' = [phase EXCEPT ![c] = "Authenticated"]
                              /\ Finish(c)
               ELSE Finish(c) /\ UNCHANGED <<phase, current>>
    /\ UNCHANGED <<lock, device, nonce, stopped, loopVars, registryVars, pairVars, homeVars,
                   hostVars>>

\* install_authenticated, or note_auth_failed.
Install(c) ==
    /\ TableFree /\ job[c].pc = "verify"
    /\ LET d == device[c]
           previous == current[d]
       IN  IF ~Verified(c)
             THEN /\ phase' = IF phase[c] = "Challenged"
                                THEN [phase EXCEPT ![c] = "Closed"] ELSE phase
                  /\ Finish(c) /\ UNCHANGED <<current>>
             ELSE IF ~stopped /\ phase[c] = "Challenged"
               THEN /\ current' = [current EXCEPT ![d] = c]
                    /\ IF previous # None /\ phase[previous] = "Authenticated"
                         THEN /\ phase' = [phase EXCEPT ![c] = "Authenticated",
                                                        ![previous] = "Superseded"]
                              /\ job' = [job EXCEPT ![c].pc = "supersede",
                                                     ![c].ref = previous]
                         ELSE /\ phase' = [phase EXCEPT ![c] = "Authenticated"]
                              /\ Finish(c)
               ELSE Finish(c) /\ UNCHANGED <<phase, current>>
    /\ UNCHANGED <<lock, device, nonce, stopped, loopVars, registryVars, pairVars, homeVars,
                   hostVars>>

\* on_connection_superseded
Supersede(c) ==
    /\ Up /\ job[c].pc = "supersede"
    /\ DropSlot(job[c].ref)
    /\ job' = [job EXCEPT ![c].pc = "done", ![c].ref = None]
    /\ UNCHANGED <<tableVars, loopVars, queued, pairVars, homeVars, hostVars>>

-----------------------------------------------------------------------------
\* The business task: a submitted text attaches the presence.

\* submit_text up to attach_presence.  A text with another generation than the
\* one its sender saw is stale, one for a present home goes on elsewhere.
SubmitRead(c) ==
    /\ TableFree /\ job[c].pc = "start" /\ job[c].kind = "submit"
    /\ Current(c)
    /\ IF home.state \in {"NoActive", "RecoveryWait"}
         THEN job' = [job EXCEPT ![c].pc = "attach", ![c].gen = home.gen]
         ELSE Finish(c)
    /\ UNCHANGED <<tableVars, loopVars, registryVars, pairVars, homeVars, hostVars>>

\* attach_presence: with_current_connection holds the table for both transactions.
\* Generations stop short of the bound, so that a disconnect always has one left.
AttachBegin(c) ==
    /\ TableFree /\ job[c].pc = "attach"
    /\ IF /\ Current(c) /\ home.gen = job[c].gen /\ home.gen + 2 <= MaxGeneration
          /\ home.state \in {"NoActive", "RecoveryWait"}
         THEN Begin(job[c].device) /\ lock' = c /\ JobTo(c, "confirm")
         ELSE Finish(c) /\ UNCHANGED <<lock, homeVars>>
    /\ UNCHANGED <<phase, device, nonce, current, stopped, loopVars, registryVars, pairVars,
                   hostVars>>

AttachConfirm(c) ==
    /\ Up /\ lock = c /\ job[c].pc = "confirm"
    /\ Confirm(TRUE) \/ (StorageFails /\ UNCHANGED homeVars)
    /\ lock' = None
    /\ Finish(c)
    /\ UNCHANGED <<phase, device, nonce, current, stopped, loopVars, registryVars, pairVars,
                   hostVars>>

-----------------------------------------------------------------------------
\* approve_device, called by the owner on the host.

Approving(p, pc) == approval' = [approval EXCEPT ![p].pc = pc]

\* claim
ApproveClaim(p) ==
    /\ Up /\ approval[p].pc = "open"
    /\ \E c \in slots :
          /\ bound[c] = p
          /\ bound' = [bound EXCEPT ![c] = None]
          /\ approval' = [approval EXCEPT ![p].pc = "claimed", ![p].conn = c]
    /\ UNCHANGED <<tableVars, loopVars, job, slots, queued, creation, pending, devices,
                   secrets, holder, homeVars, hostVars>>

\* approve_pending: the row becomes a device; without it nothing is approved.
ApproveCommit(p, d) ==
    /\ Up /\ approval[p].pc = "claimed" /\ d \notin devices
    /\ IF pending[p] = approval[p].conn
         THEN /\ pending' = [pending EXCEPT ![p] = None]
              /\ devices' = devices \cup {d}
              /\ approval' = [approval EXCEPT ![p].pc = "committed", ![p].device = d]
         ELSE Approving(p, "ended") /\ UNCHANGED <<pending, devices>>
    /\ UNCHANGED <<tableVars, loopVars, job, registryVars, creation, secrets, holder,
                   homeVars, hostVars>>

\* approve_pending failed (or no device id is left): release puts the claim back.
ApproveRelease(p) ==
    /\ Up /\ approval[p].pc = "claimed" /\ (StorageFails \/ devices = Devices)
    /\ LET c == approval[p].conn
       IN  bound' = IF c \in slots /\ bound[c] = None THEN [bound EXCEPT ![c] = p] ELSE bound
    /\ Approving(p, "open")
    /\ UNCHANGED <<tableVars, loopVars, job, slots, queued, creation, pending, devices,
                   secrets, holder, homeVars, hostVars>>

\* save_secret
ApproveSave(p) ==
    /\ Up /\ approval[p].pc = "committed"
    /\ \/ secrets' = secrets \cup {approval[p].device} /\ Approving(p, "saved")
       \/ StorageFails /\ Approving(p, "ended") /\ UNCHANGED secrets
    /\ UNCHANGED <<tableVars, loopVars, job, registryVars, creation, pending, devices,
                   holder, homeVars, hostVars>>

\* claim.queue: the channel of the serving task takes one provision.
ApproveQueue(p) ==
    /\ Up /\ approval[p].pc = "saved"
    /\ LET c == approval[p].conn
       IN  IF link[c] # "gone" /\ queued[c] = None
             THEN /\ queued' = [queued EXCEPT ![c] = approval[p].device]
                  /\ Approving(p, "granted")
             ELSE Approving(p, "ended") /\ UNCHANGED queued
    /\ UNCHANGED <<tableVars, loopVars, job, bound, slots, creation, pending, devices,
                   secrets, holder, homeVars, hostVars>>

-----------------------------------------------------------------------------
\* The host process and the deletion of a client's identity.

\* stop_admission
StopAdmission ==
    /\ TableFree /\ ~stopped
    /\ stopped' = TRUE
    /\ UNCHANGED <<lock, phase, device, nonce, current, loopVars, job, registryVars,
                   pairVars, homeVars, hostVars>>

\* The process ends, by itself or not: what is in memory is gone.
Crash ==
    /\ host = "up" /\ restarts < MaxRestarts
    /\ host' = "down" /\ restarts' = restarts + 1
    /\ stopped' = FALSE /\ lock' = None
    /\ phase' = [c \in Conns |-> "none"]
    /\ device' = [c \in Conns |-> None]
    /\ nonce' = [c \in Conns |-> FALSE]
    /\ current' = [d \in Devices |-> None]
    /\ link' = [c \in Conns |-> IF link[c] = "fresh" THEN "fresh" ELSE "gone"]
    /\ job' = [c \in Conns |-> NoJob]
    /\ template' = [c \in Conns |-> FALSE]
    /\ bound' = [c \in Conns |-> None] /\ slots' = {}
    /\ queued' = [c \in Conns |-> None]
    /\ creation' = None
    /\ approval' = [p \in Pendings |-> IF approval[p].pc \in {"fresh", "granted"}
                                         THEN approval[p]
                                         ELSE [approval[p] EXCEPT !.pc = "ended"]]
    /\ UNCHANGED <<pending, devices, secrets, holder, homeVars>>

\* plan_startup: a present home waits for its client, a transition is undone.
StartupHome ==
    CASE home.state = "Stopped" -> [home EXCEPT !.active = None]
      [] home.state \in {"Present", "RecoveryWait"} ->
            [state |-> "RecoveryWait", active |-> None, gen |-> home.gen + 1]
      [] OTHER -> [state |-> "NoActive", active |-> None, gen |-> home.gen + 1]
StartupDestination ==
    CASE home.state = "Present"      -> home.active
      [] home.state = "RecoveryWait" -> destination
      [] OTHER                       -> None
StartupRefused == home.state = "RecoveryWait" /\ destination = None

\* normalize_on_startup and clear_unapproved_pendings.
Startup ==
    /\ host = "down" /\ home.gen < MaxGeneration
    /\ IF StartupRefused
         THEN host' = "refused" /\ UNCHANGED <<homeVars, pending>>
         ELSE /\ host' = "up"
              /\ pending' = [p \in Pendings |-> None]
              /\ home' = StartupHome /\ destination' = StartupDestination
    /\ UNCHANGED <<tableVars, loopVars, job, registryVars, creation, approval, devices,
                   secrets, holder, restarts>>

\* erase_target_text for the identity of a client.
EraseClient(d) ==
    /\ Up /\ Erasures /\ d \in {home.active, destination}
    /\ home' = IF home.active = d THEN [home EXCEPT !.state = "Stopped", !.active = None]
                                  ELSE home
    /\ destination' = IF destination = d THEN None ELSE destination
    /\ UNCHANGED <<tableVars, loopVars, job, registryVars, pairVars, hostVars>>

-----------------------------------------------------------------------------
Close(c) == CloseRecord(c) \/ CloseConfirm(c) \/ CloseDrop(c) \/ CloseAbandon(c)
Handle(c) == \/ PairBegin(c) \/ (\E p \in Pendings : PairRow(c, p)) \/ PairFail(c)
             \/ PairBind(c)
             \/ Reject(c) \/ Advertise(c) \/ TakeNonce(c) \/ Install(c) \/ Supersede(c)
             \/ SubmitRead(c) \/ AttachBegin(c) \/ AttachConfirm(c)
Approve(p) == \/ (\E d \in Devices : ApproveCommit(p, d)) \/ ApproveRelease(p)
              \/ ApproveSave(p) \/ ApproveQueue(p)

\* A client proves a device only with a secret it received.
Client(c) == \/ Accept(c) \/ EndLoop(c)
             \/ \E kind \in Kinds, claim \in Devices \cup {None}, good \in BOOLEAN :
                   /\ good => kind = "proof" /\ claim # None /\ holder[claim] # None
                   /\ kind = "advertise" \/ claim = device[c]
                   /\ Dispatch(c, kind, claim, good)

Next == \/ \E c \in Conns : JobDone(c) \/ Provision(c) \/ Close(c) \/ Handle(c) \/ Client(c)
        \/ \E p \in Pendings : ApproveClaim(p) \/ Approve(p)
        \/ StopAdmission \/ Crash \/ Startup
        \/ \E d \in Devices : EraseClient(d)

Spec == Init /\ [][Next]_vars

-----------------------------------------------------------------------------
\* The current connection of a device is authenticated for it, and an
\* authenticated connection is the current one of its device: a reconnect and
\* the close of the old connection, in any order, leave exactly one
\* (install_authenticated, note_closed).
CurrentExact ==
    /\ \A d \in Devices : current[d] # None =>
          phase[current[d]] = "Authenticated" /\ device[current[d]] = d
    /\ \A c \in Conns : phase[c] = "Authenticated" =>
          device[c] # None /\ current[device[c]] = c

\* A challenge is answered once: the nonce is gone when a proof is verified and
\* in every phase after it (take_nonce).
NonceSpent ==
    \A c \in Conns : nonce[c] => phase[c] = "Challenged" /\ job[c].pc # "verify"

\* Never more open pairing requests than allowed, although counting and
\* inserting are two transactions and requests come from many connections (pair).
PendingBounded ==
    Cardinality({p \in Pendings : pending[p] # None}) <= MaxPendingPairings

\* A connection is given one device at most, and that is the device it is bound
\* to as long as it lives, whatever order approvals, provisions and a
\* capability exchange come in (note_paired, note_challenged).
OneDevicePerConnection ==
    \A c \in Conns, d \in Devices : holder[d] = c =>
        /\ device[c] \in {d, None}
        /\ \A e \in Devices : holder[e] = c => e = d

\* What a handshake may leave behind, whoever pairs, proves and is approved at
\* the same time.
HandshakeSafe == TypeOK /\ NonceSpent /\ PendingBounded /\ OneDevicePerConnection

=============================================================================
