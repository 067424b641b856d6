-------------------------- MODULE Connections_proofs --------------------------
(***************************************************************************)
(* Proofs about Connections, for any number of connections, devices and    *)
(* requests: the current connection of a device is exact, and a handshake   *)
(* leaves one device, a spent nonce and a bounded list of requests behind.  *)
(***************************************************************************)
EXTENDS Connections, FiniteSetTheorems, TLAPS

JobSet == [pc : JobPcs, kind : Kinds, claim : Devices \cup {None}, good : BOOLEAN,
           device : Devices \cup {None}, gen : 0..MaxGeneration,
           ref : Pendings \cup Conns \cup {None}]
ApprovalSet == [pc : {"fresh", "open", "claimed", "committed", "saved", "granted", "ended"},
                conn : Conns \cup {None}, device : Devices \cup {None}]
Links == {"fresh", "open", "ended", "left", "closed", "dropped", "gone"}

(* A connection has a device once its phase says so; a record that is gone  *)
(* is never authenticated again, whatever its business task still does.     *)
RecordShape(c) ==
    /\ device[c] = None <=> phase[c] \in {"none", "Accepted"}
    /\ link[c] \in {"open", "ended"} \/ phase[c] = "none"

(* The table lock spans two transactions of the connection that closes or   *)
(* of the business task that attaches, and never both.                      *)
LockShape(c) ==
    /\ job[c].pc = "confirm" => host = "up" /\ lock = c /\ link[c] # "left"
    /\ link[c] = "left" => lock = c

(* A home that a client has, or is about to have, can still be given up.    *)
GenerationLeft ==
    /\ home.state = "Present" => home.gen < MaxGeneration
    /\ \A c \in Conns : job[c].pc = "confirm" => home.gen < MaxGeneration

(* Who was handed a secret keeps its device and gets no other.              *)
Handed(c) ==
    \A d \in Devices : holder[d] = c =>
        /\ link[c] # "fresh" /\ phase[c] # "Accepted"
        /\ device[c] \in {d, None}
        /\ \A e \in Devices : holder[e] = c => e = d

(* Between counting the requests and inserting one, only their number falls. *)
Open == {p \in Pendings : pending[p] # None}
RequestsBounded ==
    /\ IsFiniteSet(Open) /\ Cardinality(Open) <= MaxPendingPairings
    /\ \A c \in Conns : job[c].pc = "row" => Cardinality(Open) < MaxPendingPairings
Creating(c) ==
    /\ job[c].pc \in {"row", "bind"} => creation = c
    /\ job[c].pc = "bind" => job[c].ref \in Pendings

(* An approval that committed names its device.                             *)
Granting(p) == approval[p].pc \in {"committed", "saved"} => approval[p].device \in Devices

(* The inductive invariant.                                                 *)
ConnInv ==
    /\ TypeOK
    /\ \A c \in Conns : RecordShape(c)
    /\ NonceSpent
    /\ CurrentExact
    /\ \A c \in Conns : LockShape(c)
    /\ GenerationLeft
    /\ \A c \in Conns : Handed(c)
    /\ \A c \in Conns : Creating(c)
    /\ \A p \in Pendings : Granting(p)
    /\ RequestsBounded

-----------------------------------------------------------------------------
(* A step keeps the types, one group of variables at a time.                 *)
(* What a handler does to its frame keeps the type of the frames.           *)
LEMMA FrameForms ==
    ASSUME ConnectionsAssumption, job \in [Conns -> JobSet], NEW c \in Conns
    PROVE  /\ Finish(c) => job' \in [Conns -> JobSet]
           /\ \A pc \in JobPcs : JobTo(c, pc) => job' \in [Conns -> JobSet]
           /\ \A pc \in JobPcs, r \in Pendings \cup Conns \cup {None} :
                job' = [job EXCEPT ![c].pc = pc, ![c].ref = r] => job' \in [Conns -> JobSet]
<1>0. job[c] \in JobSet
  OBVIOUS
<1>1. ASSUME NEW pc \in JobPcs PROVE [job[c] EXCEPT !.pc = pc] \in JobSet
  BY <1>0 DEF JobSet
<1>2. ASSUME NEW pc \in JobPcs, NEW r \in Pendings \cup Conns \cup {None}
      PROVE  [job[c] EXCEPT !.pc = pc, !.ref = r] \in JobSet
  BY <1>0 DEF JobSet
<1>3. [NoJob EXCEPT !.pc = "done", !.kind = job[c].kind] \in JobSet
  <2>1. 0 \in 0..MaxGeneration
    BY DEF ConnectionsAssumption
  <2> QED
    BY <2>1, <1>0 DEF NoJob, JobSet, JobPcs
<1>4. ASSUME NEW f \in JobSet, job' = [job EXCEPT ![c] = f]
      PROVE  job' \in [Conns -> JobSet]
  BY <1>4
<1>5. Finish(c) => job' \in [Conns -> JobSet]
  BY <1>3, <1>4 DEF Finish
<1>6. ASSUME NEW pc \in JobPcs, JobTo(c, pc) PROVE job' \in [Conns -> JobSet]
  BY <1>1, <1>4, <1>6 DEF JobTo
<1>7. ASSUME NEW pc \in JobPcs, NEW r \in Pendings \cup Conns \cup {None},
             job' = [job EXCEPT ![c].pc = pc, ![c].ref = r]
      PROVE  job' \in [Conns -> JobSet]
  BY <1>2, <1>4, <1>7
<1> QED
  BY <1>5, <1>6, <1>7

LEMMA PhaseTyped ==
    ASSUME ConnectionsAssumption, ConnInv, [Next]_vars
    PROVE  phase' \in [Conns -> Phases]
<1>0. /\ phase \in [Conns -> Phases] /\ current \in [Devices -> Conns \cup {None}]
  BY DEF ConnInv, TypeOK
<1>1. CASE UNCHANGED phase
  BY <1>1, <1>0 DEF Phases
<1>2. ASSUME NEW c \in Conns,
             JobDone(c) \/ Provision(c) \/ Close(c) \/ Handle(c) \/ Client(c)
      PROVE  phase' \in [Conns -> Phases]
  <2>1. CASE Provision(c)
    BY <2>1, <1>0 DEF Provision, TableFree, Phases
  <2>2. CASE CloseRecord(c)
    BY <2>2, <1>0 DEF CloseRecord, TableFree, Up, HomeOf, Begin, Phases
  <2>3. CASE Advertise(c)
    BY <2>3, <1>0 DEF Advertise, Finish, TableFree, Up, Phases
  <2>4. CASE Install(c)
    BY <2>4, <1>0 DEF Install, Finish, TableFree, Phases
  <2>5. CASE Accept(c)
    BY <2>5, <1>0 DEF Accept, TableFree, Phases
  <2>6. CASE \/ JobDone(c) \/ CloseConfirm(c) \/ CloseDrop(c)
             \/ CloseAbandon(c) \/ PairBegin(c)
             \/ (\E p \in Pendings : PairRow(c, p)) \/ PairFail(c)
             \/ PairBind(c) \/ Reject(c) \/ TakeNonce(c) \/ Supersede(c)
             \/ SubmitRead(c) \/ AttachBegin(c) \/ AttachConfirm(c)
             \/ EndLoop(c)
             \/ (\E kind \in Kinds, claim \in Devices \cup {None}, good \in BOOLEAN :
                    Dispatch(c, kind, claim, good))
    BY <2>6, <1>1
       DEF JobDone, CloseConfirm, CloseDrop, CloseAbandon, PairBegin, PairRow,
           PairFail, PairBind, Reject, TakeNonce, Supersede, SubmitRead,
           AttachBegin, AttachConfirm, EndLoop, Dispatch, tableVars
  <2> QED
    BY <1>2, <2>1, <2>2, <2>3, <2>4, <2>5, <2>6 DEF Close, Handle, Client
<1>3. ASSUME NEW p \in Pendings,
             ApproveClaim(p) \/ Approve(p)
      PROVE  phase' \in [Conns -> Phases]
  <2>1. CASE \/ ApproveClaim(p) \/ (\E d \in Devices : ApproveCommit(p, d))
             \/ ApproveRelease(p) \/ ApproveSave(p) \/ ApproveQueue(p)
    BY <2>1, <1>1
       DEF ApproveClaim, ApproveCommit, ApproveRelease, ApproveSave,
           ApproveQueue, tableVars
  <2> QED
    BY <1>3, <2>1 DEF Approve
<1>4. CASE Crash
  BY <1>4, <1>0 DEF Crash, Phases
<1> QED
  BY <1>1, <1>2, <1>3, <1>4
     DEF Next, vars, StopAdmission, Startup, EraseClient, tableVars

LEMMA DeviceTyped ==
    ASSUME ConnectionsAssumption, ConnInv, [Next]_vars
    PROVE  device' \in [Conns -> Devices \cup {None}]
<1>0. /\ device \in [Conns -> Devices \cup {None}]
      /\ queued \in [Conns -> Devices \cup {None}]
      /\ job \in [Conns -> JobSet]
  BY DEF ConnInv, TypeOK, JobSet
<1>1. CASE UNCHANGED device
  BY <1>1, <1>0
<1>2. ASSUME NEW c \in Conns,
             JobDone(c) \/ Provision(c) \/ Close(c) \/ Handle(c) \/ Client(c)
      PROVE  device' \in [Conns -> Devices \cup {None}]
  <2>1. CASE Provision(c)
    BY <2>1, <1>0 DEF Provision, TableFree
  <2>2. CASE CloseRecord(c)
    BY <2>2, <1>0 DEF CloseRecord, TableFree, Up, HomeOf, Begin
  <2>3. CASE Advertise(c)
    BY <2>3, <1>0 DEF Advertise, Finish, TableFree, Up, JobSet
  <2>4. CASE \/ JobDone(c) \/ CloseConfirm(c) \/ CloseDrop(c)
             \/ CloseAbandon(c) \/ PairBegin(c)
             \/ (\E p \in Pendings : PairRow(c, p)) \/ PairFail(c)
             \/ PairBind(c) \/ Reject(c) \/ TakeNonce(c) \/ Install(c)
             \/ Supersede(c) \/ SubmitRead(c) \/ AttachBegin(c)
             \/ AttachConfirm(c) \/ Accept(c) \/ EndLoop(c)
             \/ (\E kind \in Kinds, claim \in Devices \cup {None}, good \in BOOLEAN :
                    Dispatch(c, kind, claim, good))
    BY <2>4, <1>1
       DEF JobDone, CloseConfirm, CloseDrop, CloseAbandon, PairBegin, PairRow,
           PairFail, PairBind, Reject, TakeNonce, Install, Supersede, SubmitRead,
           AttachBegin, AttachConfirm, Accept, EndLoop, Dispatch, tableVars
  <2> QED
    BY <1>2, <2>1, <2>2, <2>3, <2>4 DEF Close, Handle, Client
<1>3. ASSUME NEW p \in Pendings,
             ApproveClaim(p) \/ Approve(p)
      PROVE  device' \in [Conns -> Devices \cup {None}]
  <2>1. CASE \/ ApproveClaim(p) \/ (\E d \in Devices : ApproveCommit(p, d))
             \/ ApproveRelease(p) \/ ApproveSave(p) \/ ApproveQueue(p)
    BY <2>1, <1>1
       DEF ApproveClaim, ApproveCommit, ApproveRelease, ApproveSave,
           ApproveQueue, tableVars
  <2> QED
    BY <1>3, <2>1 DEF Approve
<1>4. CASE Crash
  BY <1>4, <1>0 DEF Crash
<1> QED
  BY <1>1, <1>2, <1>3, <1>4
     DEF Next, vars, StopAdmission, Startup, EraseClient, tableVars

LEMMA NonceTyped ==
    ASSUME ConnectionsAssumption, ConnInv, [Next]_vars
    PROVE  nonce' \in [Conns -> BOOLEAN]
<1>0. nonce \in [Conns -> BOOLEAN]
  BY DEF ConnInv, TypeOK
<1>1. CASE UNCHANGED nonce
  BY <1>1, <1>0
<1>2. ASSUME NEW c \in Conns,
             JobDone(c) \/ Provision(c) \/ Close(c) \/ Handle(c) \/ Client(c)
      PROVE  nonce' \in [Conns -> BOOLEAN]
  <2>1. CASE CloseRecord(c)
    BY <2>1, <1>0 DEF CloseRecord, TableFree, Up, HomeOf, Begin
  <2>2. CASE Advertise(c)
    BY <2>2, <1>0 DEF Advertise, Finish, TableFree, Up
  <2>3. CASE TakeNonce(c)
    BY <2>3, <1>0 DEF TakeNonce, Finish, JobTo, TableFree
  <2>4. CASE \/ JobDone(c) \/ Provision(c) \/ CloseConfirm(c) \/ CloseDrop(c)
             \/ CloseAbandon(c) \/ PairBegin(c)
             \/ (\E p \in Pendings : PairRow(c, p)) \/ PairFail(c)
             \/ PairBind(c) \/ Reject(c) \/ Install(c) \/ Supersede(c)
             \/ SubmitRead(c) \/ AttachBegin(c) \/ AttachConfirm(c)
             \/ Accept(c) \/ EndLoop(c)
             \/ (\E kind \in Kinds, claim \in Devices \cup {None}, good \in BOOLEAN :
                    Dispatch(c, kind, claim, good))
    BY <2>4, <1>1
       DEF JobDone, Provision, CloseConfirm, CloseDrop, CloseAbandon, PairBegin,
           PairRow, PairFail, PairBind, Reject, Install, Supersede, SubmitRead,
           AttachBegin, AttachConfirm, Accept, EndLoop, Dispatch, tableVars
  <2> QED
    BY <1>2, <2>1, <2>2, <2>3, <2>4 DEF Close, Handle, Client
<1>3. ASSUME NEW p \in Pendings,
             ApproveClaim(p) \/ Approve(p)
      PROVE  nonce' \in [Conns -> BOOLEAN]
  <2>1. CASE \/ ApproveClaim(p) \/ (\E d \in Devices : ApproveCommit(p, d))
             \/ ApproveRelease(p) \/ ApproveSave(p) \/ ApproveQueue(p)
    BY <2>1, <1>1
       DEF ApproveClaim, ApproveCommit, ApproveRelease, ApproveSave,
           ApproveQueue, tableVars
  <2> QED
    BY <1>3, <2>1 DEF Approve
<1>4. CASE Crash
  BY <1>4, <1>0 DEF Crash
<1> QED
  BY <1>1, <1>2, <1>3, <1>4
     DEF Next, vars, StopAdmission, Startup, EraseClient, tableVars

LEMMA CurrentTyped ==
    ASSUME ConnectionsAssumption, ConnInv, [Next]_vars
    PROVE  current' \in [Devices -> Conns \cup {None}]
<1>0. current \in [Devices -> Conns \cup {None}]
  BY DEF ConnInv, TypeOK
<1>1. CASE UNCHANGED current
  BY <1>1, <1>0
<1>2. ASSUME NEW c \in Conns,
             JobDone(c) \/ Provision(c) \/ Close(c) \/ Handle(c) \/ Client(c)
      PROVE  current' \in [Devices -> Conns \cup {None}]
  <2>1. CASE CloseRecord(c)
    BY <2>1, <1>0 DEF CloseRecord, TableFree, Up, HomeOf, Begin
  <2>2. CASE Install(c)
    BY <2>2, <1>0 DEF Install, Finish, TableFree
  <2>3. CASE \/ JobDone(c) \/ Provision(c) \/ CloseConfirm(c) \/ CloseDrop(c)
             \/ CloseAbandon(c) \/ PairBegin(c)
             \/ (\E p \in Pendings : PairRow(c, p)) \/ PairFail(c)
             \/ PairBind(c) \/ Reject(c) \/ Advertise(c) \/ TakeNonce(c)
             \/ Supersede(c) \/ SubmitRead(c) \/ AttachBegin(c)
             \/ AttachConfirm(c) \/ Accept(c) \/ EndLoop(c)
             \/ (\E kind \in Kinds, claim \in Devices \cup {None}, good \in BOOLEAN :
                    Dispatch(c, kind, claim, good))
    BY <2>3, <1>1
       DEF JobDone, Provision, CloseConfirm, CloseDrop, CloseAbandon, PairBegin,
           PairRow, PairFail, PairBind, Reject, Advertise, TakeNonce, Supersede,
           SubmitRead, AttachBegin, AttachConfirm, Accept, EndLoop, Dispatch,
           tableVars
  <2> QED
    BY <1>2, <2>1, <2>2, <2>3 DEF Close, Handle, Client
<1>3. ASSUME NEW p \in Pendings,
             ApproveClaim(p) \/ Approve(p)
      PROVE  current' \in [Devices -> Conns \cup {None}]
  <2>1. CASE \/ ApproveClaim(p) \/ (\E d \in Devices : ApproveCommit(p, d))
             \/ ApproveRelease(p) \/ ApproveSave(p) \/ ApproveQueue(p)
    BY <2>1, <1>1
       DEF ApproveClaim, ApproveCommit, ApproveRelease, ApproveSave,
           ApproveQueue, tableVars
  <2> QED
    BY <1>3, <2>1 DEF Approve
<1>4. CASE Crash
  BY <1>4, <1>0 DEF Crash
<1> QED
  BY <1>1, <1>2, <1>3, <1>4
     DEF Next, vars, StopAdmission, Startup, EraseClient, tableVars

LEMMA JobTyped ==
    ASSUME ConnectionsAssumption, ConnInv, [Next]_vars
    PROVE  job' \in [Conns -> JobSet]
<1>0. /\ job \in [Conns -> JobSet]
      /\ \A c \in Conns : RecordShape(c)
      /\ device \in [Conns -> Devices \cup {None}] /\ home \in Homes
      /\ current \in [Devices -> Conns \cup {None}]
      /\ 0 \in 0..MaxGeneration
  BY DEF ConnInv, TypeOK, JobSet, ConnectionsAssumption
<1>1. CASE UNCHANGED job
  BY <1>1, <1>0 DEF JobSet, JobPcs, Kinds, NoJob
<1>2. ASSUME NEW c \in Conns,
             JobDone(c) \/ Provision(c) \/ Close(c) \/ Handle(c) \/ Client(c)
      PROVE  job' \in [Conns -> JobSet]
  <2>1. CASE JobDone(c)
    BY <2>1, <1>0 DEF JobDone, JobSet, JobPcs, Kinds, NoJob
  <2>2. CASE PairBegin(c)
    <3>1. "row" \in JobPcs
      BY DEF JobPcs
    <3> QED
      BY <2>2, <3>1, <1>0, FrameForms DEF PairBegin
  <2>3. ASSUME NEW p \in Pendings, PairRow(c, p)
        PROVE  job' \in [Conns -> JobSet]
    <3>1. "bind" \in JobPcs
      BY DEF JobPcs
    <3> QED
      BY <2>3, <3>1, <1>0, FrameForms DEF PairRow
  <2>4. CASE PairFail(c)
    BY <2>4, <1>0, FrameForms DEF PairFail
  <2>5. CASE PairBind(c)
    <3>1. "done" \in JobPcs
      BY DEF JobPcs
    <3> QED
      BY <2>5, <3>1, <1>0, FrameForms DEF PairBind
  <2>6. CASE Reject(c)
    BY <2>6, <1>0, FrameForms DEF Reject
  <2>7. CASE Advertise(c)
    BY <2>7, <1>0, FrameForms DEF Advertise
  <2>8. CASE TakeNonce(c)
    <3>1. "verify" \in JobPcs
      BY DEF JobPcs
    <3> QED
      BY <2>8, <3>1, <1>0, FrameForms DEF TakeNonce
  <2>9. CASE Install(c)
    <3>1. "supersede" \in JobPcs
      BY DEF JobPcs
    <3>2. CASE Finish(c)
      BY <3>2, <1>0, FrameForms
    <3>3. CASE ~Finish(c)
      <4>1. device[c] \in Devices \cup {None} /\ current[device[c]] # None
            /\ job' = [job EXCEPT ![c].pc = "supersede", ![c].ref = current[device[c]]]
        BY <2>9, <3>3, <1>0 DEF Install
      <4>2. current[device[c]] \in Conns
        <5>1. phase[c] = "Challenged" /\ device[c] # None
          BY <2>9, <3>3, <1>0 DEF Install, RecordShape
        <5> QED
          BY <4>1, <5>1, <1>0
      <4> QED
        BY <4>1, <4>2, <3>1, <1>0, FrameForms
    <3> QED
      BY <3>2, <3>3
  <2>10. CASE Supersede(c)
    <3>1. "done" \in JobPcs
      BY DEF JobPcs
    <3> QED
      BY <2>10, <3>1, <1>0, FrameForms DEF Supersede
  <2>11. CASE SubmitRead(c)
    <3>1. CASE Finish(c)
      BY <3>1, <1>0, FrameForms
    <3>2. CASE job' = [job EXCEPT ![c].pc = "attach", ![c].gen = home.gen]
      <4>0. job[c] \in JobSet /\ home.gen \in 0..MaxGeneration
        BY <1>0 DEF Homes
      <4>1. [job[c] EXCEPT !.pc = "attach", !.gen = home.gen] \in JobSet
        BY <4>0 DEF JobSet, JobPcs, Homes
      <4> QED
        BY <3>2, <4>1, <1>0
    <3> QED
      BY <2>11, <3>1, <3>2 DEF SubmitRead
  <2>12. CASE AttachBegin(c)
    <3>1. "confirm" \in JobPcs
      BY DEF JobPcs
    <3> QED
      BY <2>12, <3>1, <1>0, FrameForms DEF AttachBegin
  <2>13. CASE AttachConfirm(c)
    BY <2>13, <1>0, FrameForms DEF AttachConfirm
  <2>14. ASSUME NEW kind \in Kinds, NEW claim \in Devices \cup {None},
                NEW good \in BOOLEAN, Dispatch(c, kind, claim, good)
         PROVE  job' \in [Conns -> JobSet]
    BY <2>14, <1>0 DEF Dispatch, JobSet, JobPcs, Kinds, NoJob
  <2>15. CASE \/ Provision(c) \/ CloseRecord(c) \/ CloseConfirm(c)
              \/ CloseDrop(c) \/ CloseAbandon(c) \/ Accept(c) \/ EndLoop(c)
    BY <2>15, <1>1
       DEF Provision, CloseRecord, CloseConfirm, CloseDrop, CloseAbandon, Accept,
           EndLoop, Begin, Confirm
  <2> QED
    BY <1>2, <2>1, <2>2, <2>3, <2>4, <2>5, <2>6, <2>7, <2>8, <2>9, <2>10,
       <2>11, <2>12, <2>13, <2>14, <2>15
       DEF Close, Handle, Client
<1>3. ASSUME NEW p \in Pendings,
             ApproveClaim(p) \/ Approve(p)
      PROVE  job' \in [Conns -> JobSet]
  <2>1. CASE \/ ApproveClaim(p) \/ (\E d \in Devices : ApproveCommit(p, d))
             \/ ApproveRelease(p) \/ ApproveSave(p) \/ ApproveQueue(p)
    BY <2>1, <1>1
       DEF ApproveClaim, ApproveCommit, ApproveRelease, ApproveSave,
           ApproveQueue
  <2> QED
    BY <1>3, <2>1 DEF Approve
<1>4. CASE Crash
  BY <1>4, <1>0 DEF Crash, JobSet, JobPcs, Kinds, NoJob
<1> QED
  BY <1>1, <1>2, <1>3, <1>4 DEF Next, vars, StopAdmission, Startup, EraseClient

LEMMA SmallTyped ==
    ASSUME ConnectionsAssumption, ConnInv, [Next]_vars
    PROVE  /\ host' \in {"up", "down", "refused"} /\ stopped' \in BOOLEAN
           /\ lock' \in Conns \cup {None} /\ creation' \in Conns \cup {None}
           /\ slots' \in SUBSET Conns /\ restarts' \in 0..MaxRestarts
           /\ template' \in [Conns -> BOOLEAN]
<1>0. /\ host \in {"up", "down", "refused"} /\ stopped \in BOOLEAN
      /\ lock \in Conns \cup {None} /\ creation \in Conns \cup {None}
      /\ slots \in SUBSET Conns /\ restarts \in 0..MaxRestarts
      /\ template \in [Conns -> BOOLEAN] /\ MaxRestarts \in Nat
  BY DEF ConnInv, TypeOK, ConnectionsAssumption
<1>1. CASE UNCHANGED <<host, stopped, lock, template, slots, creation, restarts>>
  BY <1>1, <1>0
<1>2. ASSUME NEW c \in Conns,
             JobDone(c) \/ Provision(c) \/ Close(c) \/ Handle(c) \/ Client(c)
      PROVE  /\ host' \in {"up", "down", "refused"} /\ stopped' \in BOOLEAN
           /\ lock' \in Conns \cup {None} /\ creation' \in Conns \cup {None}
           /\ slots' \in SUBSET Conns /\ restarts' \in 0..MaxRestarts
           /\ template' \in [Conns -> BOOLEAN]
  <2>1. CASE JobDone(c)
    BY <2>1, <1>0 DEF JobDone, tableVars, registryVars, pairVars, hostVars
  <2>2. CASE CloseRecord(c)
    BY <2>2, <1>0
       DEF CloseRecord, TableFree, Up, HomeOf, Begin, registryVars, pairVars,
           hostVars
  <2>3. CASE CloseConfirm(c)
    BY <2>3, <1>0
       DEF CloseConfirm, Up, Confirm, registryVars, pairVars, hostVars
  <2>4. CASE CloseDrop(c)
    BY <2>4, <1>0 DEF CloseDrop, DropSlot, tableVars, pairVars, hostVars
  <2>5. CASE PairBegin(c)
    BY <2>5, <1>0
       DEF PairBegin, Finish, JobTo, tableVars, loopVars, registryVars, hostVars
  <2>6. CASE PairFail(c)
    BY <2>6, <1>0
       DEF PairFail, Finish, tableVars, loopVars, registryVars, hostVars
  <2>7. CASE PairBind(c)
    BY <2>7, <1>0 DEF PairBind, tableVars, loopVars, hostVars
  <2>8. CASE Supersede(c)
    BY <2>8, <1>0
       DEF Supersede, DropSlot, tableVars, loopVars, pairVars, hostVars
  <2>9. CASE AttachBegin(c)
    BY <2>9, <1>0
       DEF AttachBegin, TableFree, Up, Begin, JobTo, Finish, loopVars,
           registryVars, pairVars, hostVars
  <2>10. CASE AttachConfirm(c)
    BY <2>10, <1>0
       DEF AttachConfirm, Up, Confirm, Finish, loopVars, registryVars, pairVars,
           hostVars
  <2>11. CASE Accept(c)
    BY <2>11, <1>0 DEF Accept, TableFree, pairVars, hostVars
  <2>12. CASE EndLoop(c)
    BY <2>12, <1>0 DEF EndLoop, tableVars, registryVars, pairVars, hostVars
  <2>13. ASSUME NEW kind \in Kinds, NEW claim \in Devices \cup {None},
                NEW good \in BOOLEAN, Dispatch(c, kind, claim, good)
         PROVE  /\ host' \in {"up", "down", "refused"} /\ stopped' \in BOOLEAN
           /\ lock' \in Conns \cup {None} /\ creation' \in Conns \cup {None}
           /\ slots' \in SUBSET Conns /\ restarts' \in 0..MaxRestarts
           /\ template' \in [Conns -> BOOLEAN]
    BY <2>13, <1>0 DEF Dispatch, tableVars, registryVars, pairVars, hostVars
  <2>14. CASE \/ Provision(c) \/ CloseAbandon(c)
              \/ (\E p \in Pendings : PairRow(c, p)) \/ Reject(c)
              \/ Advertise(c) \/ TakeNonce(c) \/ Install(c) \/ SubmitRead(c)
    BY <2>14, <1>1
       DEF Provision, CloseAbandon, PairRow, Reject, Advertise, TakeNonce,
           Install, SubmitRead, hostVars, tableVars, loopVars, registryVars,
           pairVars
  <2> QED
    BY <1>2, <2>1, <2>2, <2>3, <2>4, <2>5, <2>6, <2>7, <2>8, <2>9, <2>10,
       <2>11, <2>12, <2>13, <2>14
       DEF Close, Handle, Client
<1>3. ASSUME NEW p \in Pendings,
             ApproveClaim(p) \/ Approve(p)
      PROVE  /\ host' \in {"up", "down", "refused"} /\ stopped' \in BOOLEAN
           /\ lock' \in Conns \cup {None} /\ creation' \in Conns \cup {None}
           /\ slots' \in SUBSET Conns /\ restarts' \in 0..MaxRestarts
           /\ template' \in [Conns -> BOOLEAN]
  <2>1. CASE \/ ApproveClaim(p) \/ (\E d \in Devices : ApproveCommit(p, d))
             \/ ApproveRelease(p) \/ ApproveSave(p) \/ ApproveQueue(p)
    BY <2>1, <1>1
       DEF ApproveClaim, ApproveCommit, ApproveRelease, ApproveSave,
           ApproveQueue, tableVars, loopVars, hostVars, registryVars
  <2> QED
    BY <1>3, <2>1 DEF Approve
<1>4. CASE StopAdmission
  BY <1>4, <1>0 DEF StopAdmission, loopVars, registryVars, pairVars, hostVars
<1>5. CASE Crash
  <3>1. restarts + 1 \in 0..MaxRestarts
    BY <1>5, <1>0 DEF Crash
  <3> QED
    BY <1>5, <3>1, <1>0 DEF Crash
<1>6. CASE Startup
  BY <1>6, <1>0
     DEF Startup, StartupHome, StartupDestination, tableVars, loopVars,
         registryVars
<1> QED
  BY <1>1, <1>2, <1>3, <1>4, <1>5, <1>6
     DEF Next, vars, EraseClient, tableVars, loopVars, registryVars, pairVars,
         hostVars

LEMMA LinkTyped ==
    ASSUME ConnectionsAssumption, ConnInv, [Next]_vars
    PROVE  link' \in [Conns -> Links]
<1>0. link \in [Conns -> Links]
  BY DEF ConnInv, TypeOK, Links
<1>1. CASE UNCHANGED link
  BY <1>1, <1>0 DEF Links
<1>2. ASSUME NEW c \in Conns,
             JobDone(c) \/ Provision(c) \/ Close(c) \/ Handle(c) \/ Client(c)
      PROVE  link' \in [Conns -> Links]
  <2>1. CASE Provision(c)
    BY <2>1, <1>0 DEF Provision, TableFree, Links
  <2>2. CASE CloseRecord(c)
    BY <2>2, <1>0 DEF CloseRecord, TableFree, Up, HomeOf, Begin, Links
  <2>3. CASE CloseConfirm(c)
    BY <2>3, <1>0 DEF CloseConfirm, Up, Confirm, Links
  <2>4. CASE CloseDrop(c)
    BY <2>4, <1>0 DEF CloseDrop, DropSlot, Links
  <2>5. CASE CloseAbandon(c)
    BY <2>5, <1>0 DEF CloseAbandon, Links
  <2>6. CASE Accept(c)
    BY <2>6, <1>0 DEF Accept, TableFree, Links
  <2>7. CASE EndLoop(c)
    BY <2>7, <1>0 DEF EndLoop, Links
  <2>8. CASE \/ JobDone(c) \/ PairBegin(c)
             \/ (\E p \in Pendings : PairRow(c, p)) \/ PairFail(c)
             \/ PairBind(c) \/ Reject(c) \/ Advertise(c) \/ TakeNonce(c)
             \/ Install(c) \/ Supersede(c) \/ SubmitRead(c) \/ AttachBegin(c)
             \/ AttachConfirm(c)
             \/ (\E kind \in Kinds, claim \in Devices \cup {None}, good \in BOOLEAN :
                    Dispatch(c, kind, claim, good))
    BY <2>8, <1>1
       DEF JobDone, PairBegin, PairRow, PairFail, PairBind, Reject, Advertise,
           TakeNonce, Install, Supersede, SubmitRead, AttachBegin, AttachConfirm,
           Dispatch, loopVars
  <2> QED
    BY <1>2, <2>1, <2>2, <2>3, <2>4, <2>5, <2>6, <2>7, <2>8
       DEF Close, Handle, Client
<1>3. ASSUME NEW p \in Pendings,
             ApproveClaim(p) \/ Approve(p)
      PROVE  link' \in [Conns -> Links]
  <2>1. CASE \/ ApproveClaim(p) \/ (\E d \in Devices : ApproveCommit(p, d))
             \/ ApproveRelease(p) \/ ApproveSave(p) \/ ApproveQueue(p)
    BY <2>1, <1>1
       DEF ApproveClaim, ApproveCommit, ApproveRelease, ApproveSave,
           ApproveQueue, loopVars
  <2> QED
    BY <1>3, <2>1 DEF Approve
<1>4. CASE Crash
  BY <1>4, <1>0 DEF Crash, Links
<1> QED
  BY <1>1, <1>2, <1>3, <1>4
     DEF Next, vars, StopAdmission, Startup, EraseClient, loopVars

LEMMA RegistryTyped ==
    ASSUME ConnectionsAssumption, ConnInv, [Next]_vars
    PROVE  /\ bound' \in [Conns -> Pendings \cup {None}]
           /\ queued' \in [Conns -> Devices \cup {None}]
           /\ holder' \in [Devices -> Conns \cup {"before", None}]
<1>0. /\ bound \in [Conns -> Pendings \cup {None}]
      /\ queued \in [Conns -> Devices \cup {None}]
      /\ holder \in [Devices -> Conns \cup {"before", None}]
      /\ \A c \in Conns : Creating(c)
      /\ job \in [Conns -> JobSet] /\ approval \in [Pendings -> ApprovalSet]
  BY DEF ConnInv, TypeOK, JobSet, ApprovalSet
<1>1. CASE UNCHANGED <<bound, queued, holder>>
  BY <1>1, <1>0
<1>2. ASSUME NEW c \in Conns,
             JobDone(c) \/ Provision(c) \/ Close(c) \/ Handle(c) \/ Client(c)
      PROVE  /\ bound' \in [Conns -> Pendings \cup {None}]
           /\ queued' \in [Conns -> Devices \cup {None}]
           /\ holder' \in [Devices -> Conns \cup {"before", None}]
  <2>1. CASE Provision(c)
    BY <2>1, <1>0 DEF Provision, TableFree
  <2>2. CASE CloseDrop(c)
    BY <2>2, <1>0 DEF CloseDrop, DropSlot, pairVars
  <2>3. CASE CloseAbandon(c)
    BY <2>3, <1>0 DEF CloseAbandon
  <2>4. CASE PairBind(c)
    <3>1. bound' = bound \/ bound' = [bound EXCEPT ![c] = job[c].ref]
      BY <2>4 DEF PairBind
    <3>2. job[c].ref \in Pendings
      BY <2>4, <1>0 DEF PairBind, Creating
    <3> QED
      BY <2>4, <1>0, <3>1, <3>2 DEF PairBind
  <2>5. CASE Supersede(c)
    BY <2>5, <1>0 DEF Supersede, DropSlot, pairVars
  <2>6. CASE \/ JobDone(c) \/ CloseRecord(c) \/ CloseConfirm(c) \/ PairBegin(c)
             \/ (\E p \in Pendings : PairRow(c, p)) \/ PairFail(c) \/ Reject(c)
             \/ Advertise(c) \/ TakeNonce(c) \/ Install(c) \/ SubmitRead(c)
             \/ AttachBegin(c) \/ AttachConfirm(c) \/ Accept(c) \/ EndLoop(c)
             \/ (\E kind \in Kinds, claim \in Devices \cup {None}, good \in BOOLEAN :
                    Dispatch(c, kind, claim, good))
    BY <2>6, <1>1
       DEF JobDone, CloseRecord, CloseConfirm, PairBegin, PairRow, PairFail,
           Reject, Advertise, TakeNonce, Install, SubmitRead, AttachBegin,
           AttachConfirm, Accept, EndLoop, Dispatch, registryVars, pairVars
  <2> QED
    BY <1>2, <2>1, <2>2, <2>3, <2>4, <2>5, <2>6 DEF Close, Handle, Client
<1>3. ASSUME NEW p \in Pendings,
             ApproveClaim(p) \/ Approve(p)
      PROVE  /\ bound' \in [Conns -> Pendings \cup {None}]
           /\ queued' \in [Conns -> Devices \cup {None}]
           /\ holder' \in [Devices -> Conns \cup {"before", None}]
  <2>1. CASE ApproveClaim(p)
    BY <2>1, <1>0 DEF ApproveClaim
  <2>2. CASE ApproveRelease(p)
    BY <2>2, <1>0 DEF ApproveRelease, Approving
  <2>3. CASE ApproveQueue(p)
    BY <2>3, <1>0 DEF ApproveQueue, Approving, ApprovalSet
  <2>4. CASE \/ (\E d \in Devices : ApproveCommit(p, d)) \/ ApproveSave(p)
    BY <2>4, <1>1 DEF ApproveCommit, ApproveSave, registryVars
  <2> QED
    BY <1>3, <2>1, <2>2, <2>3, <2>4 DEF Approve
<1>4. CASE Crash
  BY <1>4, <1>0 DEF Crash
<1> QED
  BY <1>1, <1>2, <1>3, <1>4
     DEF Next, vars, StopAdmission, Startup, EraseClient, registryVars, pairVars

LEMMA PairingTyped ==
    ASSUME ConnectionsAssumption, ConnInv, [Next]_vars
    PROVE  /\ approval' \in [Pendings -> ApprovalSet]
           /\ pending' \in [Pendings -> Conns \cup {None}]
           /\ devices' \in SUBSET Devices /\ secrets' \in SUBSET Devices
<1>0. /\ approval \in [Pendings -> ApprovalSet]
      /\ pending \in [Pendings -> Conns \cup {None}]
      /\ slots \in SUBSET Conns /\ \A p \in Pendings : Granting(p)
      /\ devices \in SUBSET Devices /\ secrets \in SUBSET Devices
  BY DEF ConnInv, TypeOK, ApprovalSet
<1>1. CASE UNCHANGED <<approval, pending, devices, secrets>>
  BY <1>1, <1>0
<1>2. ASSUME NEW c \in Conns,
             JobDone(c) \/ Provision(c) \/ Close(c) \/ Handle(c) \/ Client(c)
      PROVE  /\ approval' \in [Pendings -> ApprovalSet]
           /\ pending' \in [Pendings -> Conns \cup {None}]
           /\ devices' \in SUBSET Devices /\ secrets' \in SUBSET Devices
  <2>1. CASE CloseAbandon(c)
    BY <2>1, <1>0 DEF CloseAbandon
  <2>2. ASSUME NEW p \in Pendings, PairRow(c, p)
        PROVE  /\ approval' \in [Pendings -> ApprovalSet]
           /\ pending' \in [Pendings -> Conns \cup {None}]
           /\ devices' \in SUBSET Devices /\ secrets' \in SUBSET Devices
    BY <2>2, <1>0 DEF PairRow, ApprovalSet
  <2>3. CASE \/ JobDone(c) \/ Provision(c) \/ CloseRecord(c) \/ CloseConfirm(c)
             \/ CloseDrop(c) \/ PairBegin(c) \/ PairFail(c) \/ PairBind(c)
             \/ Reject(c) \/ Advertise(c) \/ TakeNonce(c) \/ Install(c)
             \/ Supersede(c) \/ SubmitRead(c) \/ AttachBegin(c)
             \/ AttachConfirm(c) \/ Accept(c) \/ EndLoop(c)
             \/ (\E kind \in Kinds, claim \in Devices \cup {None}, good \in BOOLEAN :
                    Dispatch(c, kind, claim, good))
    BY <2>3, <1>1
       DEF JobDone, Provision, CloseRecord, CloseConfirm, CloseDrop, PairBegin,
           PairFail, PairBind, Reject, Advertise, TakeNonce, Install, Supersede,
           SubmitRead, AttachBegin, AttachConfirm, Accept, EndLoop, Dispatch,
           pairVars
  <2> QED
    BY <1>2, <2>1, <2>2, <2>3 DEF Close, Handle, Client
<1>3. ASSUME NEW p \in Pendings,
             ApproveClaim(p) \/ Approve(p)
      PROVE  /\ approval' \in [Pendings -> ApprovalSet]
           /\ pending' \in [Pendings -> Conns \cup {None}]
           /\ devices' \in SUBSET Devices /\ secrets' \in SUBSET Devices
  <2>1. CASE ApproveClaim(p)
    <3>0. approval[p] \in ApprovalSet
      BY <1>0
    <3>1. \A x \in Conns : [approval[p] EXCEPT !.pc = "claimed", !.conn = x] \in ApprovalSet
      BY <3>0 DEF ApprovalSet
    <3>2. PICK x \in Conns :
            approval' = [approval EXCEPT ![p].pc = "claimed", ![p].conn = x]
      BY <2>1, <1>0 DEF ApproveClaim
    <3>3. UNCHANGED <<pending, devices, secrets>>
      BY <2>1 DEF ApproveClaim
    <3> QED
      BY <1>0, <3>1, <3>2, <3>3
  <2>2. ASSUME NEW d \in Devices, ApproveCommit(p, d)
        PROVE  /\ approval' \in [Pendings -> ApprovalSet]
           /\ pending' \in [Pendings -> Conns \cup {None}]
           /\ devices' \in SUBSET Devices /\ secrets' \in SUBSET Devices
    BY <2>2, <1>0 DEF ApproveCommit, Approving, ApprovalSet
  <2>3. CASE ApproveRelease(p)
    BY <2>3, <1>0 DEF ApproveRelease, Approving, ApprovalSet
  <2>4. CASE ApproveSave(p)
    <3>0. approval[p] \in ApprovalSet
      BY <1>0
    <3>1. [approval[p] EXCEPT !.pc = "saved"] \in ApprovalSet
          /\ [approval[p] EXCEPT !.pc = "ended"] \in ApprovalSet
      BY <3>0 DEF ApprovalSet
    <3>2. approval' \in [Pendings -> ApprovalSet]
      BY <2>4, <1>0, <3>1 DEF ApproveSave, Approving
    <3>3. secrets' \in SUBSET Devices
      <4>1. approval[p].device \in Devices
        BY <2>4, <1>0 DEF ApproveSave, Granting
      <4> QED
        BY <2>4, <4>1, <1>0 DEF ApproveSave
    <3>4. UNCHANGED <<pending, devices>>
      BY <2>4 DEF ApproveSave
    <3> QED
      BY <1>0, <3>2, <3>3, <3>4
  <2>5. CASE ApproveQueue(p)
    BY <2>5, <1>0 DEF ApproveQueue, Approving, ApprovalSet
  <2> QED
    BY <1>3, <2>1, <2>2, <2>3, <2>4, <2>5 DEF Approve
<1>4. CASE Crash
  BY <1>4, <1>0 DEF Crash, ApprovalSet
<1>5. CASE Startup
  BY <1>5, <1>0 DEF Startup, StartupHome, StartupDestination
<1> QED
  BY <1>1, <1>2, <1>3, <1>4, <1>5
     DEF Next, vars, StopAdmission, EraseClient, pairVars

LEMMA HomeTyped ==
    ASSUME ConnectionsAssumption, ConnInv, [Next]_vars
    PROVE  home' \in Homes /\ destination' \in Devices \cup {None}
<1>0. /\ home \in Homes /\ destination \in Devices \cup {None}
      /\ job \in [Conns -> JobSet] /\ device \in [Conns -> Devices \cup {None}]
      /\ MaxGeneration \in Nat /\ GenerationLeft
  BY DEF ConnInv, TypeOK, JobSet, ConnectionsAssumption
<1>1. CASE UNCHANGED <<home, destination>>
  BY <1>1, <1>0 DEF Homes, HomeStates
<1>2. ASSUME NEW c \in Conns,
             JobDone(c) \/ Provision(c) \/ Close(c) \/ Handle(c) \/ Client(c)
      PROVE  home' \in Homes /\ destination' \in Devices \cup {None}
  <2>1. CASE CloseRecord(c)
    BY <2>1, <1>0
       DEF CloseRecord, TableFree, Up, HomeOf, Begin, GenerationLeft, homeVars,
           Homes, HomeStates
  <2>2. CASE CloseConfirm(c)
    BY <2>2, <1>0 DEF CloseConfirm, Up, Confirm, homeVars, Homes, HomeStates
  <2>3. CASE AttachBegin(c)
    BY <2>3, <1>0
       DEF AttachBegin, TableFree, Up, Begin, JobTo, Finish, JobSet, homeVars,
           Homes, HomeStates
  <2>4. CASE AttachConfirm(c)
    BY <2>4, <1>0
       DEF AttachConfirm, Up, Confirm, Finish, homeVars, Homes, HomeStates
  <2>5. CASE \/ JobDone(c) \/ Provision(c) \/ CloseDrop(c) \/ CloseAbandon(c)
             \/ PairBegin(c) \/ (\E p \in Pendings : PairRow(c, p))
             \/ PairFail(c) \/ PairBind(c) \/ Reject(c) \/ Advertise(c)
             \/ TakeNonce(c) \/ Install(c) \/ Supersede(c) \/ SubmitRead(c)
             \/ Accept(c) \/ EndLoop(c)
             \/ (\E kind \in Kinds, claim \in Devices \cup {None}, good \in BOOLEAN :
                    Dispatch(c, kind, claim, good))
    BY <2>5, <1>1
       DEF JobDone, Provision, CloseDrop, CloseAbandon, PairBegin, PairRow,
           PairFail, PairBind, Reject, Advertise, TakeNonce, Install, Supersede,
           SubmitRead, Accept, EndLoop, Dispatch, Finish, JobTo, Begin, Confirm,
           homeVars
  <2> QED
    BY <1>2, <2>1, <2>2, <2>3, <2>4, <2>5 DEF Close, Handle, Client
<1>3. ASSUME NEW p \in Pendings,
             ApproveClaim(p) \/ Approve(p)
      PROVE  home' \in Homes /\ destination' \in Devices \cup {None}
  <2>1. CASE \/ ApproveClaim(p) \/ (\E d \in Devices : ApproveCommit(p, d))
             \/ ApproveRelease(p) \/ ApproveSave(p) \/ ApproveQueue(p)
    BY <2>1, <1>1
       DEF ApproveClaim, ApproveCommit, ApproveRelease, ApproveSave,
           ApproveQueue, Begin, Confirm, homeVars
  <2> QED
    BY <1>3, <2>1 DEF Approve
<1>4. CASE Startup
  BY <1>4, <1>0
     DEF Startup, StartupHome, StartupDestination, homeVars, Homes, HomeStates
<1>5. ASSUME NEW d \in Devices, EraseClient(d)
      PROVE  home' \in Homes /\ destination' \in Devices \cup {None}
  BY <1>5, <1>0 DEF EraseClient, Homes, HomeStates
<1> QED
  BY <1>1, <1>2, <1>3, <1>4, <1>5 DEF Next, vars, StopAdmission, Crash, homeVars

LEMMA TypesKept ==
    ASSUME ConnectionsAssumption, ConnInv, [Next]_vars
    PROVE  TypeOK'
BY PhaseTyped, DeviceTyped, NonceTyped, CurrentTyped, JobTyped, SmallTyped, LinkTyped,
   RegistryTyped, PairingTyped, HomeTyped
   DEF TypeOK, JobSet, ApprovalSet, Links

-----------------------------------------------------------------------------
(* What a handler does to its frame, seen from the others.                   *)
Moved(c, pcs) ==
    /\ job'[c].pc \in pcs
    /\ \A x \in Conns : x # c => job'[x] = job[x]

LEMMA FrameMoves ==
    ASSUME job \in [Conns -> JobSet], NEW c \in Conns
    PROVE  /\ Finish(c) => Moved(c, {"done"})
           /\ \A pc \in JobPcs : JobTo(c, pc) => Moved(c, {pc})
           /\ Install(c) => Moved(c, {"done", "supersede"})
           /\ SubmitRead(c) => Moved(c, {"done", "attach"})
<1>1. Finish(c) => Moved(c, {"done"})
  BY DEF Finish, NoJob, Moved
<1>2. ASSUME NEW pc \in JobPcs, JobTo(c, pc)
      PROVE  Moved(c, {pc})
  BY <1>2 DEF JobTo, JobSet, Moved
<1>3. ASSUME Install(c) PROVE Moved(c, {"done", "supersede"})
  <2>1. ASSUME NEW r, job' = [job EXCEPT ![c].pc = "supersede", ![c].ref = r]
        PROVE  Moved(c, {"supersede"})
    BY <2>1 DEF JobSet, Moved
  <2>2. \/ Finish(c)
        \/ job' = [job EXCEPT ![c].pc = "supersede", ![c].ref = current[device[c]]]
    BY <1>3 DEF Install
  <2> QED
    BY <2>1, <2>2, <1>1 DEF Moved
<1>4. ASSUME SubmitRead(c) PROVE Moved(c, {"done", "attach"})
  <2>1. ASSUME NEW g, job' = [job EXCEPT ![c].pc = "attach", ![c].gen = g]
        PROVE  Moved(c, {"attach"})
    BY <2>1 DEF JobSet, Moved
  <2>2. Finish(c) \/ job' = [job EXCEPT ![c].pc = "attach", ![c].gen = home.gen]
    BY <1>4 DEF SubmitRead
  <2> QED
    BY <2>1, <2>2, <1>1 DEF Moved
<1> QED
  BY <1>1, <1>2, <1>3, <1>4

-----------------------------------------------------------------------------
(* The record of a connection.                                               *)
LEMMA RecordKept ==
    ASSUME ConnectionsAssumption, ConnInv, [Next]_vars, NEW x \in Conns
    PROVE  RecordShape(x)'
<1>0. /\ phase \in [Conns -> Phases]
      /\ device \in [Conns -> Devices \cup {None}]
      /\ link \in [Conns -> Links]
      /\ job \in [Conns -> JobSet]
      /\ queued \in [Conns -> Devices \cup {None}]
      /\ current \in [Devices -> Conns \cup {None}]
      /\ None \notin Conns \cup Devices \cup Pendings
      /\ \A c \in Conns : RecordShape(c)
      /\ CurrentExact
      /\ \A c \in Conns : LockShape(c)
  BY DEF ConnInv, TypeOK, Links, JobSet, ConnectionsAssumption
<1>1. CASE UNCHANGED <<phase, device, link>>
  BY <1>1, <1>0 DEF RecordShape
<1>2. ASSUME NEW c \in Conns,
             JobDone(c) \/ Provision(c) \/ Close(c) \/ Handle(c) \/ Client(c)
      PROVE  RecordShape(x)'
  <2>1. CASE Provision(c)
    BY <2>1, <1>0 DEF Provision, TableFree, RecordShape
  <2>2. CASE CloseRecord(c)
    BY <2>2, <1>0 DEF CloseRecord, TableFree, Up, HomeOf, Begin, RecordShape
  <2>3. CASE CloseConfirm(c)
    BY <2>3, <1>0 DEF CloseConfirm, Up, Confirm, RecordShape
  <2>4. CASE CloseDrop(c)
    BY <2>4, <1>0 DEF CloseDrop, DropSlot, tableVars, RecordShape
  <2>5. CASE CloseAbandon(c)
    BY <2>5, <1>0 DEF CloseAbandon, tableVars, RecordShape
  <2>6. CASE Advertise(c)
    BY <2>6, <1>0
       DEF Advertise, Finish, TableFree, Up, JobSet, loopVars, RecordShape
  <2>7. CASE Install(c)
    BY <2>7, <1>0
       DEF Install, Finish, TableFree, CurrentExact, loopVars, RecordShape
  <2>8. CASE Accept(c)
    BY <2>8, <1>0 DEF Accept, TableFree, RecordShape
  <2>9. CASE EndLoop(c)
    BY <2>9, <1>0 DEF EndLoop, tableVars, RecordShape
  <2>10. CASE \/ JobDone(c) \/ PairBegin(c)
              \/ (\E p \in Pendings : PairRow(c, p)) \/ PairFail(c)
              \/ PairBind(c) \/ Reject(c) \/ TakeNonce(c) \/ Supersede(c)
              \/ SubmitRead(c) \/ AttachBegin(c) \/ AttachConfirm(c)
              \/ (\E kind \in Kinds, claim \in Devices \cup {None}, good \in BOOLEAN :
                     Dispatch(c, kind, claim, good))
    BY <2>10, <1>1
       DEF JobDone, PairBegin, PairRow, PairFail, PairBind, Reject, TakeNonce,
           Supersede, SubmitRead, AttachBegin, AttachConfirm, Dispatch,
           tableVars, loopVars
  <2> QED
    BY <1>2, <2>1, <2>2, <2>3, <2>4, <2>5, <2>6, <2>7, <2>8, <2>9, <2>10
       DEF Close, Handle, Client
<1>3. ASSUME NEW p \in Pendings,
             ApproveClaim(p) \/ Approve(p)
      PROVE  RecordShape(x)'
  <2>1. CASE \/ ApproveClaim(p) \/ (\E d \in Devices : ApproveCommit(p, d))
             \/ ApproveRelease(p) \/ ApproveSave(p) \/ ApproveQueue(p)
    BY <2>1, <1>1
       DEF ApproveClaim, ApproveCommit, ApproveRelease, ApproveSave,
           ApproveQueue, tableVars, loopVars
  <2> QED
    BY <1>3, <2>1 DEF Approve
<1>4. CASE Crash
  BY <1>4, <1>0 DEF Crash, RecordShape
<1> QED
  BY <1>1, <1>2, <1>3, <1>4
     DEF Next, vars, StopAdmission, Startup, EraseClient, tableVars, loopVars

LEMMA NonceKept ==
    ASSUME ConnectionsAssumption, ConnInv, [Next]_vars
    PROVE  NonceSpent'
<1>0. /\ phase \in [Conns -> Phases]
      /\ nonce \in [Conns -> BOOLEAN]
      /\ job \in [Conns -> JobSet]
      /\ None \notin Conns \cup Devices \cup Pendings
      /\ \A c \in Conns : RecordShape(c)
      /\ current \in [Devices -> Conns \cup {None}]
      /\ CurrentExact
      /\ NonceSpent
  BY DEF ConnInv, TypeOK, Links, JobSet, ConnectionsAssumption
<1>a. \A c \in Conns :
        /\ Finish(c) => Moved(c, {"done"})
        /\ \A pc \in {"row", "verify", "confirm"} : JobTo(c, pc) => Moved(c, {pc})
        /\ Install(c) => Moved(c, {"done", "supersede"})
        /\ SubmitRead(c) => Moved(c, {"done", "attach"})
  BY <1>0, FrameMoves DEF JobPcs
<1>1. CASE UNCHANGED <<phase, nonce, job>>
  BY <1>1, <1>0, <1>a DEF NonceSpent
<1>2. ASSUME NEW c \in Conns,
             JobDone(c) \/ Provision(c) \/ Close(c) \/ Handle(c) \/ Client(c)
      PROVE  NonceSpent'
  <2>1. CASE JobDone(c)
    BY <2>1, <1>0, <1>a DEF JobDone, NoJob, tableVars, NonceSpent
  <2>2. CASE Provision(c)
    BY <2>2, <1>0, <1>a DEF Provision, TableFree, NonceSpent
  <2>3. CASE CloseRecord(c)
    BY <2>3, <1>0, <1>a
       DEF CloseRecord, TableFree, Up, HomeOf, Begin, NonceSpent
  <2>4. CASE PairBegin(c)
    BY <2>4, <1>0, <1>a DEF PairBegin, Moved, tableVars, NonceSpent
  <2>5. ASSUME NEW p \in Pendings, PairRow(c, p)
        PROVE  NonceSpent'
    BY <2>5, <1>0, <1>a DEF PairRow, tableVars, NonceSpent
  <2>6. CASE PairFail(c)
    BY <2>6, <1>0, <1>a DEF PairFail, Moved, tableVars, NonceSpent
  <2>7. CASE PairBind(c)
    BY <2>7, <1>0, <1>a DEF PairBind, tableVars, NonceSpent
  <2>8. CASE Reject(c)
    BY <2>8, <1>0, <1>a DEF Reject, Moved, tableVars, NonceSpent
  <2>9. CASE Advertise(c)
    BY <2>9, <1>0, <1>a DEF Advertise, TableFree, Up, Moved, NonceSpent
  <2>10. CASE TakeNonce(c)
    BY <2>10, <1>0, <1>a DEF TakeNonce, TableFree, Moved, NonceSpent
  <2>11. CASE Install(c)
    BY <2>11, <1>0, <1>a
       DEF Install, TableFree, CurrentExact, RecordShape, Moved, NonceSpent
  <2>12. CASE Supersede(c)
    BY <2>12, <1>0, <1>a DEF Supersede, DropSlot, tableVars, NonceSpent
  <2>13. CASE SubmitRead(c)
    BY <2>13, <1>0, <1>a DEF SubmitRead, Moved, tableVars, NonceSpent
  <2>14. CASE AttachBegin(c)
    BY <2>14, <1>0, <1>a
       DEF AttachBegin, TableFree, Up, Begin, Moved, NonceSpent
  <2>15. CASE AttachConfirm(c)
    BY <2>15, <1>0, <1>a DEF AttachConfirm, Up, Confirm, Moved, NonceSpent
  <2>16. CASE Accept(c)
    BY <2>16, <1>0, <1>a DEF Accept, TableFree, RecordShape, NonceSpent
  <2>17. ASSUME NEW kind \in Kinds, NEW claim \in Devices \cup {None},
                NEW good \in BOOLEAN, Dispatch(c, kind, claim, good)
         PROVE  NonceSpent'
    BY <2>17, <1>0, <1>a DEF Dispatch, tableVars, NonceSpent
  <2>18. CASE \/ CloseConfirm(c) \/ CloseDrop(c) \/ CloseAbandon(c)
              \/ EndLoop(c)
    BY <2>18, <1>1
       DEF CloseConfirm, CloseDrop, CloseAbandon, EndLoop, Confirm, tableVars
  <2> QED
    BY <1>2, <2>1, <2>2, <2>3, <2>4, <2>5, <2>6, <2>7, <2>8, <2>9, <2>10,
       <2>11, <2>12, <2>13, <2>14, <2>15, <2>16, <2>17, <2>18
       DEF Close, Handle, Client
<1>3. ASSUME NEW p \in Pendings,
             ApproveClaim(p) \/ Approve(p)
      PROVE  NonceSpent'
  <2>1. CASE \/ ApproveClaim(p) \/ (\E d \in Devices : ApproveCommit(p, d))
             \/ ApproveRelease(p) \/ ApproveSave(p) \/ ApproveQueue(p)
    BY <2>1, <1>1
       DEF ApproveClaim, ApproveCommit, ApproveRelease, ApproveSave,
           ApproveQueue, tableVars
  <2> QED
    BY <1>3, <2>1 DEF Approve
<1>4. CASE Crash
  BY <1>4, <1>0, <1>a DEF Crash, NoJob, NonceSpent
<1> QED
  BY <1>1, <1>2, <1>3, <1>4
     DEF Next, vars, StopAdmission, Startup, EraseClient, tableVars

LEMMA CurrentKept ==
    ASSUME ConnectionsAssumption, ConnInv, [Next]_vars
    PROVE  CurrentExact'
<1>0. /\ phase \in [Conns -> Phases]
      /\ device \in [Conns -> Devices \cup {None}]
      /\ link \in [Conns -> Links]
      /\ queued \in [Conns -> Devices \cup {None}]
      /\ None \notin Conns \cup Devices \cup Pendings
      /\ job \in [Conns -> JobSet]
      /\ \A c \in Conns : RecordShape(c)
      /\ current \in [Devices -> Conns \cup {None}]
      /\ CurrentExact
  BY DEF ConnInv, TypeOK, Links, JobSet, ConnectionsAssumption
<1>1. CASE UNCHANGED <<phase, device, current>>
  BY <1>1, <1>0 DEF CurrentExact, RecordShape
<1>2. ASSUME NEW c \in Conns,
             JobDone(c) \/ Provision(c) \/ Close(c) \/ Handle(c) \/ Client(c)
      PROVE  CurrentExact'
  <2>1. CASE Provision(c)
    BY <2>1, <1>0 DEF Provision, TableFree, CurrentExact, RecordShape
  <2>2. CASE CloseRecord(c)
    BY <2>2, <1>0
       DEF CloseRecord, TableFree, Up, HomeOf, Begin, CurrentExact, RecordShape
  <2>3. CASE Advertise(c)
    BY <2>3, <1>0
       DEF Advertise, Finish, TableFree, Up, JobSet, CurrentExact, RecordShape
  <2>4. CASE Install(c)
    BY <2>4, <1>0 DEF Install, Finish, TableFree, CurrentExact, RecordShape
  <2>5. CASE Accept(c)
    BY <2>5, <1>0 DEF Accept, TableFree, CurrentExact, RecordShape
  <2>6. CASE \/ JobDone(c) \/ CloseConfirm(c) \/ CloseDrop(c)
             \/ CloseAbandon(c) \/ PairBegin(c)
             \/ (\E p \in Pendings : PairRow(c, p)) \/ PairFail(c)
             \/ PairBind(c) \/ Reject(c) \/ TakeNonce(c) \/ Supersede(c)
             \/ SubmitRead(c) \/ AttachBegin(c) \/ AttachConfirm(c)
             \/ EndLoop(c)
             \/ (\E kind \in Kinds, claim \in Devices \cup {None}, good \in BOOLEAN :
                    Dispatch(c, kind, claim, good))
    BY <2>6, <1>1
       DEF JobDone, CloseConfirm, CloseDrop, CloseAbandon, PairBegin, PairRow,
           PairFail, PairBind, Reject, TakeNonce, Supersede, SubmitRead,
           AttachBegin, AttachConfirm, EndLoop, Dispatch, tableVars
  <2> QED
    BY <1>2, <2>1, <2>2, <2>3, <2>4, <2>5, <2>6 DEF Close, Handle, Client
<1>3. ASSUME NEW p \in Pendings,
             ApproveClaim(p) \/ Approve(p)
      PROVE  CurrentExact'
  <2>1. CASE \/ ApproveClaim(p) \/ (\E d \in Devices : ApproveCommit(p, d))
             \/ ApproveRelease(p) \/ ApproveSave(p) \/ ApproveQueue(p)
    BY <2>1, <1>1
       DEF ApproveClaim, ApproveCommit, ApproveRelease, ApproveSave,
           ApproveQueue, tableVars
  <2> QED
    BY <1>3, <2>1 DEF Approve
<1>4. CASE Crash
  BY <1>4, <1>0 DEF Crash, CurrentExact, RecordShape
<1> QED
  BY <1>1, <1>2, <1>3, <1>4
     DEF Next, vars, StopAdmission, Startup, EraseClient, tableVars

-----------------------------------------------------------------------------
(* The lock of the table.                                                    *)
LEMMA LockKept ==
    ASSUME ConnectionsAssumption, ConnInv, [Next]_vars, NEW x \in Conns
    PROVE  LockShape(x)'
<1>0. /\ link \in [Conns -> Links]
      /\ job \in [Conns -> JobSet]
      /\ None \notin Conns \cup Devices \cup Pendings
      /\ lock \in Conns \cup {None}
      /\ \A c \in Conns : RecordShape(c)
      /\ \A c \in Conns : LockShape(c)
  BY DEF ConnInv, TypeOK, Links, JobSet, ConnectionsAssumption
<1>a. \A c \in Conns :
        /\ Finish(c) => Moved(c, {"done"})
        /\ \A pc \in {"row", "verify", "confirm"} : JobTo(c, pc) => Moved(c, {pc})
        /\ Install(c) => Moved(c, {"done", "supersede"})
        /\ SubmitRead(c) => Moved(c, {"done", "attach"})
  BY <1>0, FrameMoves DEF JobPcs
<1>1. CASE UNCHANGED <<host, lock, link, job>>
  BY <1>1, <1>0, <1>a DEF LockShape
<1>2. ASSUME NEW c \in Conns,
             JobDone(c) \/ Provision(c) \/ Close(c) \/ Handle(c) \/ Client(c)
      PROVE  LockShape(x)'
  <2>1. CASE JobDone(c)
    BY <2>1, <1>0, <1>a
       DEF JobDone, NoJob, TableFree, Up, tableVars, hostVars, LockShape
  <2>2. CASE Provision(c)
    BY <2>2, <1>0, <1>a DEF Provision, TableFree, hostVars, LockShape
  <2>3. CASE CloseRecord(c)
    BY <2>3, <1>0, <1>a
       DEF CloseRecord, TableFree, Up, HomeOf, Begin, hostVars, LockShape
  <2>4. CASE CloseConfirm(c)
    BY <2>4, <1>0, <1>a DEF CloseConfirm, Up, Confirm, hostVars, LockShape
  <2>5. CASE CloseDrop(c)
    BY <2>5, <1>0, <1>a DEF CloseDrop, DropSlot, tableVars, hostVars, LockShape
  <2>6. CASE CloseAbandon(c)
    BY <2>6, <1>0, <1>a DEF CloseAbandon, tableVars, hostVars, LockShape
  <2>7. CASE PairBegin(c)
    BY <2>7, <1>0, <1>a
       DEF PairBegin, TableFree, Up, Moved, tableVars, loopVars, hostVars,
           LockShape
  <2>8. ASSUME NEW p \in Pendings, PairRow(c, p)
        PROVE  LockShape(x)'
    BY <2>8, <1>0, <1>a DEF PairRow, tableVars, loopVars, hostVars, LockShape
  <2>9. CASE PairFail(c)
    BY <2>9, <1>0, <1>a
       DEF PairFail, TableFree, Up, Moved, tableVars, loopVars, hostVars,
           LockShape
  <2>10. CASE PairBind(c)
    BY <2>10, <1>0, <1>a DEF PairBind, tableVars, loopVars, hostVars, LockShape
  <2>11. CASE Reject(c)
    BY <2>11, <1>0, <1>a
       DEF Reject, TableFree, Up, Moved, tableVars, loopVars, hostVars,
           LockShape
  <2>12. CASE Advertise(c)
    BY <2>12, <1>0, <1>a
       DEF Advertise, TableFree, Up, Moved, loopVars, hostVars, LockShape
  <2>13. CASE TakeNonce(c)
    BY <2>13, <1>0, <1>a
       DEF TakeNonce, TableFree, Up, Moved, loopVars, hostVars, LockShape
  <2>14. CASE Install(c)
    BY <2>14, <1>0, <1>a
       DEF Install, TableFree, Up, Moved, loopVars, hostVars, LockShape
  <2>15. CASE Supersede(c)
    BY <2>15, <1>0, <1>a
       DEF Supersede, DropSlot, tableVars, loopVars, hostVars, LockShape
  <2>16. CASE SubmitRead(c)
    BY <2>16, <1>0, <1>a
       DEF SubmitRead, TableFree, Up, Moved, tableVars, loopVars, hostVars,
           LockShape
  <2>17. CASE AttachBegin(c)
    BY <2>17, <1>0, <1>a
       DEF AttachBegin, TableFree, Up, Begin, Moved, loopVars, hostVars,
           LockShape
  <2>18. CASE AttachConfirm(c)
    BY <2>18, <1>0, <1>a
       DEF AttachConfirm, Up, Confirm, TableFree, Moved, loopVars, hostVars,
           LockShape
  <2>19. CASE Accept(c)
    BY <2>19, <1>0, <1>a DEF Accept, TableFree, hostVars, LockShape
  <2>20. CASE EndLoop(c)
    BY <2>20, <1>0, <1>a DEF EndLoop, tableVars, hostVars, LockShape
  <2>21. ASSUME NEW kind \in Kinds, NEW claim \in Devices \cup {None},
                NEW good \in BOOLEAN, Dispatch(c, kind, claim, good)
         PROVE  LockShape(x)'
    BY <2>21, <1>0, <1>a DEF Dispatch, tableVars, hostVars, LockShape
  <2> QED
    BY <1>2, <2>1, <2>2, <2>3, <2>4, <2>5, <2>6, <2>7, <2>8, <2>9, <2>10,
       <2>11, <2>12, <2>13, <2>14, <2>15, <2>16, <2>17, <2>18, <2>19, <2>20,
       <2>21
       DEF Close, Handle, Client
<1>3. ASSUME NEW p \in Pendings,
             ApproveClaim(p) \/ Approve(p)
      PROVE  LockShape(x)'
  <2>1. CASE \/ ApproveClaim(p) \/ (\E d \in Devices : ApproveCommit(p, d))
             \/ ApproveRelease(p) \/ ApproveSave(p) \/ ApproveQueue(p)
    BY <2>1, <1>1
       DEF ApproveClaim, ApproveCommit, ApproveRelease, ApproveSave,
           ApproveQueue, tableVars, loopVars, hostVars
  <2> QED
    BY <1>3, <2>1 DEF Approve
<1>4. CASE Crash
  BY <1>4, <1>0, <1>a DEF Crash, NoJob, TableFree, Up, LockShape
<1>5. CASE Startup
  BY <1>5, <1>0, <1>a
     DEF Startup, StartupHome, StartupDestination, tableVars, loopVars,
         LockShape
<1> QED
  BY <1>1, <1>2, <1>3, <1>4, <1>5
     DEF Next, vars, StopAdmission, EraseClient, tableVars, loopVars, hostVars

-----------------------------------------------------------------------------
(* The home.                                                                 *)
LEMMA GenerationKept ==
    ASSUME ConnectionsAssumption, ConnInv, [Next]_vars
    PROVE  GenerationLeft'
<1>0. /\ job \in [Conns -> JobSet]
      /\ home \in Homes
      /\ None \notin Conns \cup Devices \cup Pendings
      /\ MaxGeneration \in Nat
      /\ \A c \in Conns : LockShape(c)
      /\ GenerationLeft
  BY DEF ConnInv, TypeOK, Links, JobSet, ConnectionsAssumption
<1>a. \A c \in Conns :
        /\ Finish(c) => Moved(c, {"done"})
        /\ \A pc \in {"row", "verify", "confirm"} : JobTo(c, pc) => Moved(c, {pc})
        /\ Install(c) => Moved(c, {"done", "supersede"})
        /\ SubmitRead(c) => Moved(c, {"done", "attach"})
  BY <1>0, FrameMoves DEF JobPcs
<1>1. CASE UNCHANGED <<job, home>>
  BY <1>1, <1>0, <1>a DEF GenerationLeft
<1>2. ASSUME NEW c \in Conns,
             JobDone(c) \/ Provision(c) \/ Close(c) \/ Handle(c) \/ Client(c)
      PROVE  GenerationLeft'
  <2>1. CASE JobDone(c)
    BY <2>1, <1>0, <1>a DEF JobDone, NoJob, homeVars, GenerationLeft
  <2>2. CASE CloseRecord(c)
    BY <2>2, <1>0, <1>a
       DEF CloseRecord, TableFree, Up, HomeOf, Begin, NoJob, Homes, HomeStates,
           LockShape, homeVars, GenerationLeft
  <2>3. CASE CloseConfirm(c)
    BY <2>3, <1>0, <1>a
       DEF CloseConfirm, Up, Confirm, NoJob, Homes, HomeStates, LockShape,
           homeVars, GenerationLeft
  <2>4. CASE PairBegin(c)
    BY <2>4, <1>0, <1>a DEF PairBegin, Moved, homeVars, GenerationLeft
  <2>5. ASSUME NEW p \in Pendings, PairRow(c, p)
        PROVE  GenerationLeft'
    BY <2>5, <1>0, <1>a DEF PairRow, homeVars, GenerationLeft
  <2>6. CASE PairFail(c)
    BY <2>6, <1>0, <1>a DEF PairFail, Moved, homeVars, GenerationLeft
  <2>7. CASE PairBind(c)
    BY <2>7, <1>0, <1>a DEF PairBind, homeVars, GenerationLeft
  <2>8. CASE Reject(c)
    BY <2>8, <1>0, <1>a DEF Reject, Moved, homeVars, GenerationLeft
  <2>9. CASE Advertise(c)
    BY <2>9, <1>0, <1>a
       DEF Advertise, TableFree, Up, Moved, homeVars, GenerationLeft
  <2>10. CASE TakeNonce(c)
    BY <2>10, <1>0, <1>a
       DEF TakeNonce, TableFree, Moved, homeVars, GenerationLeft
  <2>11. CASE Install(c)
    BY <2>11, <1>0, <1>a DEF Install, TableFree, Moved, homeVars, GenerationLeft
  <2>12. CASE Supersede(c)
    BY <2>12, <1>0, <1>a DEF Supersede, DropSlot, homeVars, GenerationLeft
  <2>13. CASE SubmitRead(c)
    BY <2>13, <1>0, <1>a DEF SubmitRead, Moved, homeVars, GenerationLeft
  <2>14. CASE AttachBegin(c)
    BY <2>14, <1>0, <1>a
       DEF AttachBegin, TableFree, Up, Begin, Homes, HomeStates, LockShape,
           Moved, homeVars, GenerationLeft
  <2>15. CASE AttachConfirm(c)
    BY <2>15, <1>0, <1>a
       DEF AttachConfirm, Up, Confirm, Homes, HomeStates, LockShape, Moved,
           homeVars, GenerationLeft
  <2>16. ASSUME NEW kind \in Kinds, NEW claim \in Devices \cup {None},
                NEW good \in BOOLEAN, Dispatch(c, kind, claim, good)
         PROVE  GenerationLeft'
    BY <2>16, <1>0, <1>a DEF Dispatch, homeVars, GenerationLeft
  <2>17. CASE \/ Provision(c) \/ CloseDrop(c) \/ CloseAbandon(c) \/ Accept(c)
              \/ EndLoop(c)
    BY <2>17, <1>1
       DEF Provision, CloseDrop, CloseAbandon, Accept, EndLoop, homeVars
  <2> QED
    BY <1>2, <2>1, <2>2, <2>3, <2>4, <2>5, <2>6, <2>7, <2>8, <2>9, <2>10,
       <2>11, <2>12, <2>13, <2>14, <2>15, <2>16, <2>17
       DEF Close, Handle, Client
<1>3. ASSUME NEW p \in Pendings,
             ApproveClaim(p) \/ Approve(p)
      PROVE  GenerationLeft'
  <2>1. CASE \/ ApproveClaim(p) \/ (\E d \in Devices : ApproveCommit(p, d))
             \/ ApproveRelease(p) \/ ApproveSave(p) \/ ApproveQueue(p)
    BY <2>1, <1>1
       DEF ApproveClaim, ApproveCommit, ApproveRelease, ApproveSave,
           ApproveQueue, homeVars
  <2> QED
    BY <1>3, <2>1 DEF Approve
<1>4. CASE Crash
  BY <1>4, <1>0, <1>a DEF Crash, NoJob, homeVars, GenerationLeft
<1>5. CASE Startup
  BY <1>5, <1>0, <1>a
     DEF Startup, StartupHome, StartupDestination, NoJob, Homes, HomeStates,
         LockShape, homeVars, GenerationLeft
<1>6. ASSUME NEW d \in Devices, EraseClient(d)
      PROVE  GenerationLeft'
  BY <1>6, <1>0, <1>a
     DEF EraseClient, NoJob, Homes, HomeStates, LockShape, GenerationLeft
<1> QED
  BY <1>1, <1>2, <1>3, <1>4, <1>5, <1>6 DEF Next, vars, StopAdmission, homeVars

-----------------------------------------------------------------------------
(* Pairing.                                                                  *)
LEMMA HandedKept ==
    ASSUME ConnectionsAssumption, ConnInv, [Next]_vars, NEW x \in Conns
    PROVE  Handed(x)'
<1>0. /\ phase \in [Conns -> Phases]
      /\ device \in [Conns -> Devices \cup {None}]
      /\ link \in [Conns -> Links]
      /\ job \in [Conns -> JobSet]
      /\ queued \in [Conns -> Devices \cup {None}]
      /\ holder \in [Devices -> Conns \cup {"before", None}]
      /\ current \in [Devices -> Conns \cup {None}]
      /\ None \notin Conns \cup Devices \cup Pendings
      /\ "before" \notin Conns \cup {None}
      /\ \A c \in Conns : RecordShape(c)
      /\ \A c \in Conns : Handed(c)
      /\ CurrentExact
  BY DEF ConnInv, TypeOK, Links, JobSet, ConnectionsAssumption
<1>1. CASE UNCHANGED <<phase, device, link, holder>>
  BY <1>1, <1>0 DEF Handed
<1>2. ASSUME NEW c \in Conns,
             JobDone(c) \/ Provision(c) \/ Close(c) \/ Handle(c) \/ Client(c)
      PROVE  Handed(x)'
  <2>1. CASE Provision(c)
    BY <2>1, <1>0 DEF Provision, TableFree, RecordShape, Handed
  <2>2. CASE CloseRecord(c)
    BY <2>2, <1>0
       DEF CloseRecord, TableFree, Up, HomeOf, Begin, pairVars, Handed
  <2>3. CASE CloseConfirm(c)
    BY <2>3, <1>0 DEF CloseConfirm, Up, Confirm, pairVars, Handed
  <2>4. CASE CloseDrop(c)
    BY <2>4, <1>0 DEF CloseDrop, DropSlot, tableVars, pairVars, Handed
  <2>5. CASE CloseAbandon(c)
    BY <2>5, <1>0 DEF CloseAbandon, tableVars, Handed
  <2>6. CASE Advertise(c)
    BY <2>6, <1>0
       DEF Advertise, Finish, TableFree, Up, RecordShape, loopVars, pairVars,
           Handed
  <2>7. CASE Install(c)
    BY <2>7, <1>0
       DEF Install, Finish, TableFree, CurrentExact, loopVars, pairVars, Handed
  <2>8. CASE Accept(c)
    BY <2>8, <1>0 DEF Accept, TableFree, pairVars, Handed
  <2>9. CASE EndLoop(c)
    BY <2>9, <1>0 DEF EndLoop, tableVars, pairVars, Handed
  <2>10. CASE \/ JobDone(c) \/ PairBegin(c)
              \/ (\E p \in Pendings : PairRow(c, p)) \/ PairFail(c)
              \/ PairBind(c) \/ Reject(c) \/ TakeNonce(c) \/ Supersede(c)
              \/ SubmitRead(c) \/ AttachBegin(c) \/ AttachConfirm(c)
              \/ (\E kind \in Kinds, claim \in Devices \cup {None}, good \in BOOLEAN :
                     Dispatch(c, kind, claim, good))
    BY <2>10, <1>1
       DEF JobDone, PairBegin, PairRow, PairFail, PairBind, Reject, TakeNonce,
           Supersede, SubmitRead, AttachBegin, AttachConfirm, Dispatch,
           tableVars, pairVars, loopVars
  <2> QED
    BY <1>2, <2>1, <2>2, <2>3, <2>4, <2>5, <2>6, <2>7, <2>8, <2>9, <2>10
       DEF Close, Handle, Client
<1>3. ASSUME NEW p \in Pendings,
             ApproveClaim(p) \/ Approve(p)
      PROVE  Handed(x)'
  <2>1. CASE \/ ApproveClaim(p) \/ (\E d \in Devices : ApproveCommit(p, d))
             \/ ApproveRelease(p) \/ ApproveSave(p) \/ ApproveQueue(p)
    BY <2>1, <1>1
       DEF ApproveClaim, ApproveCommit, ApproveRelease, ApproveSave,
           ApproveQueue, tableVars, loopVars
  <2> QED
    BY <1>3, <2>1 DEF Approve
<1>4. CASE Crash
  BY <1>4, <1>0 DEF Crash, Handed
<1> QED
  BY <1>1, <1>2, <1>3, <1>4
     DEF Next, vars, StopAdmission, Startup, EraseClient, tableVars, loopVars,
         pairVars

LEMMA CreatingKept ==
    ASSUME ConnectionsAssumption, ConnInv, [Next]_vars, NEW x \in Conns
    PROVE  Creating(x)'
<1>0. /\ job \in [Conns -> JobSet]
      /\ creation \in Conns \cup {None}
      /\ None \notin Conns \cup Devices \cup Pendings
      /\ \A c \in Conns : Creating(c)
  BY DEF ConnInv, TypeOK, Links, JobSet, ConnectionsAssumption
<1>a. \A c \in Conns :
        /\ Finish(c) => Moved(c, {"done"})
        /\ \A pc \in {"row", "verify", "confirm"} : JobTo(c, pc) => Moved(c, {pc})
        /\ Install(c) => Moved(c, {"done", "supersede"})
        /\ SubmitRead(c) => Moved(c, {"done", "attach"})
  BY <1>0, FrameMoves DEF JobPcs
<1>1. CASE UNCHANGED <<job, creation>>
  BY <1>1, <1>0, <1>a DEF Creating
<1>2. ASSUME NEW c \in Conns,
             JobDone(c) \/ Provision(c) \/ Close(c) \/ Handle(c) \/ Client(c)
      PROVE  Creating(x)'
  <2>1. CASE JobDone(c)
    BY <2>1, <1>0, <1>a DEF JobDone, NoJob, pairVars, Creating
  <2>2. CASE PairBegin(c)
    BY <2>2, <1>0, <1>a DEF PairBegin, Moved, Creating
  <2>3. ASSUME NEW p \in Pendings, PairRow(c, p)
        PROVE  Creating(x)'
    BY <2>3, <1>0, <1>a DEF PairRow, Creating
  <2>4. CASE PairFail(c)
    BY <2>4, <1>0, <1>a DEF PairFail, Moved, Creating
  <2>5. CASE PairBind(c)
    BY <2>5, <1>0, <1>a DEF PairBind, Creating
  <2>6. CASE Reject(c)
    BY <2>6, <1>0, <1>a DEF Reject, Moved, pairVars, Creating
  <2>7. CASE Advertise(c)
    BY <2>7, <1>0, <1>a DEF Advertise, TableFree, Up, Moved, pairVars, Creating
  <2>8. CASE TakeNonce(c)
    BY <2>8, <1>0, <1>a DEF TakeNonce, TableFree, Moved, pairVars, Creating
  <2>9. CASE Install(c)
    BY <2>9, <1>0, <1>a DEF Install, TableFree, Moved, pairVars, Creating
  <2>10. CASE Supersede(c)
    BY <2>10, <1>0, <1>a DEF Supersede, DropSlot, pairVars, Creating
  <2>11. CASE SubmitRead(c)
    BY <2>11, <1>0, <1>a DEF SubmitRead, Moved, pairVars, Creating
  <2>12. CASE AttachBegin(c)
    BY <2>12, <1>0, <1>a
       DEF AttachBegin, TableFree, Up, Begin, Moved, pairVars, Creating
  <2>13. CASE AttachConfirm(c)
    BY <2>13, <1>0, <1>a
       DEF AttachConfirm, Up, Confirm, Moved, pairVars, Creating
  <2>14. ASSUME NEW kind \in Kinds, NEW claim \in Devices \cup {None},
                NEW good \in BOOLEAN, Dispatch(c, kind, claim, good)
         PROVE  Creating(x)'
    BY <2>14, <1>0, <1>a DEF Dispatch, pairVars, Creating
  <2>15. CASE \/ Provision(c) \/ CloseRecord(c) \/ CloseConfirm(c)
              \/ CloseDrop(c) \/ CloseAbandon(c) \/ Accept(c) \/ EndLoop(c)
    BY <2>15, <1>1
       DEF Provision, CloseRecord, CloseConfirm, CloseDrop, CloseAbandon, Accept,
           EndLoop, Begin, Confirm, pairVars
  <2> QED
    BY <1>2, <2>1, <2>2, <2>3, <2>4, <2>5, <2>6, <2>7, <2>8, <2>9, <2>10,
       <2>11, <2>12, <2>13, <2>14, <2>15
       DEF Close, Handle, Client
<1>3. ASSUME NEW p \in Pendings,
             ApproveClaim(p) \/ Approve(p)
      PROVE  Creating(x)'
  <2>1. CASE \/ ApproveClaim(p) \/ (\E d \in Devices : ApproveCommit(p, d))
             \/ ApproveRelease(p) \/ ApproveSave(p) \/ ApproveQueue(p)
    BY <2>1, <1>1
       DEF ApproveClaim, ApproveCommit, ApproveRelease, ApproveSave,
           ApproveQueue
  <2> QED
    BY <1>3, <2>1 DEF Approve
<1>4. CASE Crash
  BY <1>4, <1>0, <1>a DEF Crash, NoJob, Creating
<1> QED
  BY <1>1, <1>2, <1>3, <1>4
     DEF Next, vars, StopAdmission, Startup, EraseClient, pairVars

LEMMA GrantingKept ==
    ASSUME ConnectionsAssumption, ConnInv, [Next]_vars, NEW r \in Pendings
    PROVE  Granting(r)'
<1>0. /\ approval \in [Pendings -> ApprovalSet]
      /\ \A p \in Pendings : Granting(p)
  BY DEF ConnInv, TypeOK, ApprovalSet
<1>1. CASE UNCHANGED approval
  BY <1>1, <1>0 DEF Granting
<1>2. ASSUME NEW c \in Conns,
             JobDone(c) \/ Provision(c) \/ Close(c) \/ Handle(c) \/ Client(c)
      PROVE  Granting(r)'
  <2>1. ASSUME NEW p \in Pendings, PairRow(c, p)
        PROVE  Granting(r)'
    BY <2>1, <1>0 DEF PairRow, ApprovalSet, Granting
  <2>2. CASE \/ JobDone(c) \/ Provision(c) \/ CloseRecord(c) \/ CloseConfirm(c)
             \/ CloseDrop(c) \/ CloseAbandon(c) \/ PairBegin(c) \/ PairFail(c)
             \/ PairBind(c) \/ Reject(c) \/ Advertise(c) \/ TakeNonce(c)
             \/ Install(c) \/ Supersede(c) \/ SubmitRead(c) \/ AttachBegin(c)
             \/ AttachConfirm(c) \/ Accept(c) \/ EndLoop(c)
             \/ (\E kind \in Kinds, claim \in Devices \cup {None}, good \in BOOLEAN :
                    Dispatch(c, kind, claim, good))
    BY <2>2, <1>1
       DEF JobDone, Provision, CloseRecord, CloseConfirm, CloseDrop,
           CloseAbandon, PairBegin, PairFail, PairBind, Reject, Advertise,
           TakeNonce, Install, Supersede, SubmitRead, AttachBegin, AttachConfirm,
           Accept, EndLoop, Dispatch, pairVars
  <2> QED
    BY <1>2, <2>1, <2>2 DEF Close, Handle, Client
<1>3. ASSUME NEW p \in Pendings,
             ApproveClaim(p) \/ Approve(p)
      PROVE  Granting(r)'
  <2>1. CASE ApproveClaim(p)
    BY <2>1, <1>0 DEF ApproveClaim, ApprovalSet, Granting
  <2>2. ASSUME NEW d \in Devices, ApproveCommit(p, d)
        PROVE  Granting(r)'
    BY <2>2, <1>0 DEF ApproveCommit, Approving, ApprovalSet, Granting
  <2>3. CASE ApproveRelease(p)
    BY <2>3, <1>0 DEF ApproveRelease, Approving, ApprovalSet, Granting
  <2>4. CASE ApproveSave(p)
    BY <2>4, <1>0 DEF ApproveSave, Approving, ApprovalSet, Granting
  <2>5. CASE ApproveQueue(p)
    BY <2>5, <1>0 DEF ApproveQueue, Approving, ApprovalSet, Granting
  <2> QED
    BY <1>3, <2>1, <2>2, <2>3, <2>4, <2>5 DEF Approve
<1>4. CASE Crash
  BY <1>4, <1>0 DEF Crash, ApprovalSet, Granting
<1> QED
  BY <1>1, <1>2, <1>3, <1>4
     DEF Next, vars, StopAdmission, Startup, EraseClient, pairVars

LEMMA RequestsKept ==
    ASSUME ConnectionsAssumption, ConnInv, [Next]_vars
    PROVE  RequestsBounded'
<1>0. /\ pending \in [Pendings -> Conns \cup {None}]
      /\ job \in [Conns -> JobSet]
      /\ None \notin Conns \cup Devices \cup Pendings
      /\ creation \in Conns \cup {None}
      /\ MaxPendingPairings \in Nat
      /\ \A c \in Conns : Creating(c)
      /\ IsFiniteSet(Open) /\ Cardinality(Open) <= MaxPendingPairings
      /\ \A c \in Conns : job[c].pc = "row" => Cardinality(Open) < MaxPendingPairings
  BY DEF ConnInv, TypeOK, Links, JobSet, ConnectionsAssumption, RequestsBounded
<1>a. \A c \in Conns :
        /\ Finish(c) => Moved(c, {"done"})
        /\ \A pc \in {"row", "verify", "confirm"} : JobTo(c, pc) => Moved(c, {pc})
        /\ Install(c) => Moved(c, {"done", "supersede"})
        /\ SubmitRead(c) => Moved(c, {"done", "attach"})
  BY <1>0, FrameMoves DEF JobPcs
<1>b. Cardinality(Open) \in Nat
  BY <1>0, FS_CardinalityType
<1>c. ASSUME Open' \subseteq Open,
             \A c \in Conns : job'[c].pc = "row" => Cardinality(Open) < MaxPendingPairings
      PROVE  RequestsBounded'
  <2>1. IsFiniteSet(Open') /\ Cardinality(Open') \in Nat
        /\ Cardinality(Open') <= Cardinality(Open)
    BY <1>0, <1>c, FS_Subset, FS_CardinalityType
  <2> QED
    BY <2>1, <1>0, <1>b, <1>c DEF RequestsBounded
<1>1. CASE UNCHANGED <<job, pending>>
  BY <1>1, <1>0, <1>a, <1>c DEF Open
<1>2. ASSUME NEW c \in Conns,
             JobDone(c) \/ Provision(c) \/ Close(c) \/ Handle(c) \/ Client(c)
      PROVE  RequestsBounded'
  <2>1. CASE JobDone(c)
    BY <2>1, <1>0, <1>a, <1>c DEF JobDone, NoJob, pairVars, Open
  <2>2. CASE CloseAbandon(c)
    BY <2>2, <1>0, <1>a, <1>c DEF CloseAbandon, Open
  <2>3. CASE PairBegin(c)
    <3>1. Open' = Open
      BY <2>3 DEF PairBegin, Open
    <3>2. CASE Cardinality(Open) >= MaxPendingPairings
      <4>1. Finish(c)
        BY <2>3, <3>2 DEF PairBegin, Open
      <4> QED
        BY <4>1, <3>1, <1>0, <1>a, <1>c DEF Moved
    <3>3. CASE Cardinality(Open) < MaxPendingPairings
      BY <3>1, <3>3, <1>c
    <3> QED
      BY <3>2, <3>3, <1>0, <1>b
  <2>4. ASSUME NEW p \in Pendings, PairRow(c, p)
        PROVE  RequestsBounded'
    <3>1. Open' = Open \cup {p}
      BY <2>4, <1>0 DEF PairRow, Open
    <3>2. IsFiniteSet(Open') /\ Cardinality(Open') <= Cardinality(Open) + 1
      <4>1. IsFiniteSet(Open \cup {p})
            /\ Cardinality(Open \cup {p}) =
                 IF p \in Open THEN Cardinality(Open) ELSE Cardinality(Open) + 1
        BY <1>0, FS_AddElement
      <4> QED
        BY <3>1, <4>1, <1>b
    <3>3. Cardinality(Open) < MaxPendingPairings /\ Cardinality(Open') \in Nat
      BY <2>4, <3>2, <1>0, FS_CardinalityType DEF PairRow
    <3>4. \A x \in Conns : job'[x].pc # "row"
      BY <2>4, <1>0 DEF PairRow, Creating, JobSet
    <3> QED
      BY <3>2, <3>3, <3>4, <1>0, <1>b DEF RequestsBounded
  <2>5. CASE PairFail(c)
    BY <2>5, <1>0, <1>a, <1>c DEF PairFail, Moved, Open
  <2>6. CASE PairBind(c)
    BY <2>6, <1>0, <1>a, <1>c DEF PairBind, Open
  <2>7. CASE Reject(c)
    BY <2>7, <1>0, <1>a, <1>c DEF Reject, Moved, pairVars, Open
  <2>8. CASE Advertise(c)
    BY <2>8, <1>0, <1>a, <1>c
       DEF Advertise, TableFree, Up, Moved, pairVars, Open
  <2>9. CASE TakeNonce(c)
    BY <2>9, <1>0, <1>a, <1>c DEF TakeNonce, TableFree, Moved, pairVars, Open
  <2>10. CASE Install(c)
    BY <2>10, <1>0, <1>a, <1>c DEF Install, TableFree, Moved, pairVars, Open
  <2>11. CASE Supersede(c)
    BY <2>11, <1>0, <1>a, <1>c DEF Supersede, DropSlot, pairVars, Open
  <2>12. CASE SubmitRead(c)
    BY <2>12, <1>0, <1>a, <1>c DEF SubmitRead, Moved, pairVars, Open
  <2>13. CASE AttachBegin(c)
    BY <2>13, <1>0, <1>a, <1>c
       DEF AttachBegin, TableFree, Up, Begin, Moved, pairVars, Open
  <2>14. CASE AttachConfirm(c)
    BY <2>14, <1>0, <1>a, <1>c
       DEF AttachConfirm, Up, Confirm, Moved, pairVars, Open
  <2>15. ASSUME NEW kind \in Kinds, NEW claim \in Devices \cup {None},
                NEW good \in BOOLEAN, Dispatch(c, kind, claim, good)
         PROVE  RequestsBounded'
    BY <2>15, <1>0, <1>a, <1>c DEF Dispatch, pairVars, Open
  <2>16. CASE \/ Provision(c) \/ CloseRecord(c) \/ CloseConfirm(c)
              \/ CloseDrop(c) \/ Accept(c) \/ EndLoop(c)
    BY <2>16, <1>1
       DEF Provision, CloseRecord, CloseConfirm, CloseDrop, Accept, EndLoop,
           Begin, Confirm, pairVars
  <2> QED
    BY <1>2, <2>1, <2>2, <2>3, <2>4, <2>5, <2>6, <2>7, <2>8, <2>9, <2>10,
       <2>11, <2>12, <2>13, <2>14, <2>15, <2>16
       DEF Close, Handle, Client
<1>3. ASSUME NEW p \in Pendings,
             ApproveClaim(p) \/ Approve(p)
      PROVE  RequestsBounded'
  <2>1. ASSUME NEW d \in Devices, ApproveCommit(p, d)
        PROVE  RequestsBounded'
    BY <2>1, <1>0, <1>a, <1>c DEF ApproveCommit, Approving, Open
  <2>2. CASE \/ ApproveClaim(p) \/ ApproveRelease(p) \/ ApproveSave(p)
             \/ ApproveQueue(p)
    BY <2>2, <1>1 DEF ApproveClaim, ApproveRelease, ApproveSave, ApproveQueue
  <2> QED
    BY <1>3, <2>1, <2>2 DEF Approve
<1>4. CASE Crash
  BY <1>4, <1>0, <1>a, <1>c DEF Crash, NoJob, Open
<1>5. CASE Startup
  BY <1>5, <1>0, <1>a, <1>c DEF Startup, StartupHome, StartupDestination, Open
<1> QED
  BY <1>1, <1>2, <1>3, <1>4, <1>5
     DEF Next, vars, StopAdmission, EraseClient, pairVars

-----------------------------------------------------------------------------
LEMMA ConnStart ==
    ASSUME ConnectionsAssumption, Init PROVE ConnInv
<1>1. TypeOK
  <2>1. NoJob \in JobSet
    <3>1. 0 \in 0..MaxGeneration
      BY DEF ConnectionsAssumption
    <3> QED
      BY <3>1 DEF NoJob, JobSet, JobPcs, Kinds
  <2>2. NoApproval \in ApprovalSet
    BY DEF NoApproval, ApprovalSet
  <2>3. home \in Homes /\ restarts \in 0..MaxRestarts
    BY DEF Init, Homes, HomeStates, ConnectionsAssumption
  <2> QED
    BY <2>1, <2>2, <2>3 DEF Init, TypeOK, JobSet, ApprovalSet, Phases, ConnectionsAssumption
<1>2. \A c \in Conns : RecordShape(c) /\ LockShape(c) /\ Creating(c)
  BY DEF Init, RecordShape, LockShape, Creating, NoJob, ConnectionsAssumption
<1>3. \A c \in Conns : Handed(c)
  BY DEF Init, Handed, ConnectionsAssumption
<1>4. NonceSpent /\ CurrentExact /\ GenerationLeft
  BY DEF Init, NonceSpent, CurrentExact, GenerationLeft, NoJob
<1>5. \A p \in Pendings : Granting(p)
  BY DEF Init, Granting, NoApproval
<1>6. RequestsBounded
  <2>1. Open = {}
    BY DEF Init, Open
  <2> QED
    BY <2>1, FS_EmptySet DEF Init, RequestsBounded, NoJob, ConnectionsAssumption
<1> QED
  BY <1>1, <1>2, <1>3, <1>4, <1>5, <1>6 DEF ConnInv

LEMMA ConnInductive ==
    ASSUME ConnectionsAssumption, ConnInv, [Next]_vars PROVE ConnInv'
BY TypesKept, RecordKept, NonceKept, CurrentKept, LockKept, GenerationKept, HandedKept,
   CreatingKept, GrantingKept, RequestsKept
   DEF ConnInv

LEMMA ConnInvHolds ==
    ASSUME ConnectionsAssumption PROVE Spec => []ConnInv
<1>1. Init => ConnInv
  BY ConnStart
<1>2. ConnInv /\ [Next]_vars => ConnInv'
  BY ConnInductive
<1> QED
  BY <1>1, <1>2, PTL DEF Spec

(* However many connections of a device are opened, proved, superseded and   *)
(* closed, and in whatever order the loops and the business tasks run, the   *)
(* current connection of a device is the one authenticated for it, and there *)
(* is no other (install_authenticated, note_closed).                         *)
THEOREM OneCurrentConnection ==
    ASSUME ConnectionsAssumption PROVE Spec => []CurrentExact
<1>1. ConnInv => CurrentExact
  BY DEF ConnInv
<1> QED
  BY <1>1, ConnInvHolds, PTL

(* A challenge is answered once, no more requests to pair are open than the  *)
(* host allows, and a connection is handed one device at most, the one it is *)
(* bound to (take_nonce, pair, note_paired).                                 *)
THEOREM HandshakeKept ==
    ASSUME ConnectionsAssumption PROVE Spec => []HandshakeSafe
<1>1. ASSUME ConnInv PROVE HandshakeSafe
  <2>1. PendingBounded
    BY <1>1 DEF ConnInv, RequestsBounded, Open, PendingBounded
  <2>2. OneDevicePerConnection
    BY <1>1 DEF ConnInv, Handed, OneDevicePerConnection
  <2> QED
    BY <1>1, <2>1, <2>2 DEF ConnInv, HandshakeSafe
<1> QED
  BY <1>1, ConnInvHolds, PTL

=============================================================================
