------------------------ MODULE ClientConnect_proofs ------------------------
(***************************************************************************)
(* Proofs about ClientConnect, for any number of processes, keys and       *)
(* devices: no incarnation is handed out twice, a process talks only to a  *)
(* host that was trusted, and the device it keeps was accepted.            *)
(***************************************************************************)
EXTENDS ClientConnect, TLAPS

Talking == {"dial", "pair", "auth", "store", "first", "connected"}
CallPcs == {"idle", "count", "advance", "runtime", "pin", "trust"} \cup Talking
CallSet == [pc : CallPcs, n : Nat, key : Keys \cup {Nothing}, generation : Nat,
            device : Devices \cup {Nothing}, fresh : BOOLEAN]

HostShape ==
    /\ starts \in Nat
    /\ runtime = Nothing \/ (runtime.key \in Keys /\ runtime.generation \in Nat)

FileShape ==
    /\ counter \in 0..MaxCounter /\ cache \in [Procs -> 0..MaxCounter]
    /\ pin \in Keys \cup {Nothing} /\ device \in Devices \cup {Nothing, "malformed"}
    /\ given \subseteq 1..MaxCounter /\ trusted \subseteq Keys
    /\ accepted \subseteq Devices

(* One process at a time reads and writes the counter, under the lock.      *)
LockShape ==
    /\ lock \in Procs \cup {Nothing}
    /\ \A p \in Procs : lock = p <=> call[p].pc \in {"count", "advance"}

(* Who writes the counter still has the one it read, plus one; what a        *)
(* process goes by was handed out, and nothing past the counter was.        *)
Counted ==
    /\ \A n \in given : n <= counter
    /\ \A p \in Procs : call[p].pc = "advance" =>
            call[p].n = counter + 1 /\ counter < MaxCounter
    /\ \A p \in Procs : cache[p] # 0 => cache[p] \in given
    /\ \A p, q \in Procs : p # q /\ cache[p] # 0 => cache[p] # cache[q]

(* The key of an attempt is a key of the host from the runtime file on, and *)
(* a trusted one once it was compared with the pin.                         *)
Pinned ==
    /\ pin # Nothing => pin \in trusted
    /\ \A p \in Procs : call[p].pc \in {"pin", "trust"} => call[p].key \in Keys
    /\ \A p \in Procs : call[p].pc \in Talking => call[p].key \in trusted

(* What is stored as the device was accepted before.                        *)
DeviceKnown ==
    /\ device \notin {Nothing, "malformed"} => device \in accepted
    /\ \A p \in Procs : call[p].pc = "auth" => call[p].device \in Devices
    /\ \A p \in Procs : call[p].pc = "store" => call[p].device \in accepted

(* The inductive invariant.                                                 *)
ConnectInv ==
    /\ call \in [Procs -> CallSet]
    /\ HostShape /\ FileShape /\ LockShape /\ Counted /\ Pinned /\ DeviceKnown

-----------------------------------------------------------------------------
(* What becomes of the attempts when one of them goes on.                   *)
LEMMA Goings ==
    ASSUME call \in [Procs -> CallSet], NEW p \in Procs, NEW next \in CallSet,
           CallGoes(p, next)
    PROVE  /\ call' \in [Procs -> CallSet] /\ call'[p] = next
           /\ \A q \in Procs : q # p => call'[q] = call[q]
  BY DEF CallGoes

LEMMA Idles ==
    /\ NoCall \in CallSet /\ NoCall.pc = "idle"
    /\ [NoCall EXCEPT !.pc = "count"] \in CallSet
    /\ [NoCall EXCEPT !.pc = "count"].pc = "count"
    /\ [NoCall EXCEPT !.pc = "runtime"] \in CallSet
    /\ [NoCall EXCEPT !.pc = "runtime"].pc = "runtime"
  BY DEF NoCall, CallSet, CallPcs, Talking

LEMMA InitConnect ==
    ASSUME ClientConnectAssumption, ConnectInit
    PROVE  ConnectInv
<1>1. /\ call \in [Procs -> CallSet] /\ \A p \in Procs : call[p].pc = "idle"
  BY Idles DEF ConnectInit
<1>2. MaxCounter \in Nat /\ Nothing \notin Procs
  BY DEF ClientConnectAssumption
<1>3. HostShape /\ FileShape /\ LockShape
  BY <1>1, <1>2 DEF ConnectInit, HostShape, FileShape, LockShape
<1>4. Counted /\ Pinned /\ DeviceKnown
  BY <1>1 DEF ConnectInit, Counted, Pinned, DeviceKnown, Talking
<1> QED
  BY <1>1, <1>3, <1>4 DEF ConnectInv

-----------------------------------------------------------------------------
(* Every step of an attempt keeps the invariant.                            *)
LEMMA BeginKeeps ==
    ASSUME ClientConnectAssumption, ConnectInv, NEW p \in Procs, BeginBoot(p)
    PROVE  ConnectInv'
<1>0. /\ call \in [Procs -> CallSet] /\ call[p] \in CallSet
      /\ HostShape /\ FileShape /\ LockShape /\ Counted /\ Pinned /\ DeviceKnown
  BY DEF ConnectInv
<1>1. PICK next \in CallSet :
         /\ CallGoes(p, next)
         /\ \/ cache[p] # 0 /\ next = [NoCall EXCEPT !.pc = "runtime"]
            \/ cache[p] = 0 /\ next = [NoCall EXCEPT !.pc = "count"]
  BY Idles DEF BeginBoot
<1>2. /\ call' \in [Procs -> CallSet] /\ call'[p] = next
      /\ \A q \in Procs : q # p => call'[q] = call[q]
  BY <1>0, <1>1, Goings
<1>3. IF cache[p] # 0 THEN call'[p].pc = "runtime" ELSE call'[p].pc = "count"
  BY <1>0, <1>1, <1>2, Idles DEF BeginBoot, CallSet
<1>4. HostShape'
  BY <1>0, <1>2, <1>3 DEF BeginBoot, hostVars, HostShape
<1>5. FileShape'
  BY <1>0, <1>2, <1>3 DEF BeginBoot, fileVars, pastVars, FileShape
<1>6. LockShape'
  BY <1>0, <1>2, <1>3 DEF BeginBoot, ClientConnectAssumption, LockShape
<1>7. Counted'
  BY <1>0, <1>2, <1>3 DEF BeginBoot, fileVars, pastVars, Counted
<1>8. Pinned'
  BY <1>0, <1>2, <1>3 DEF BeginBoot, fileVars, pastVars, Talking, Pinned
<1>9. DeviceKnown'
  BY <1>0, <1>2, <1>3 DEF BeginBoot, fileVars, pastVars, DeviceKnown
<1> QED
  BY <1>2, <1>4, <1>5, <1>6, <1>7, <1>8, <1>9 DEF ConnectInv

LEMMA CountKeeps ==
    ASSUME ClientConnectAssumption, ConnectInv, NEW p \in Procs, Count(p)
    PROVE  ConnectInv'
<1>0. /\ call \in [Procs -> CallSet] /\ call[p] \in CallSet
      /\ HostShape /\ FileShape /\ LockShape /\ Counted /\ Pinned /\ DeviceKnown
  BY DEF ConnectInv
<1>1. counter + 1 \in Nat /\ (counter # MaxCounter => counter < MaxCounter)
  BY <1>0 DEF FileShape, ClientConnectAssumption
<1>2. [call[p] EXCEPT !.pc = "advance", !.n = counter + 1] \in CallSet
  BY <1>0, <1>1 DEF CallSet, CallPcs, Talking
<1>3. PICK next \in CallSet :
         /\ CallGoes(p, next)
         /\ \/ counter = MaxCounter /\ next = NoCall
            \/ counter # MaxCounter /\ next = [call[p] EXCEPT !.pc = "advance", !.n = counter + 1]
  BY <1>1, <1>2, Idles DEF Count, GivesUp
<1>4. /\ call' \in [Procs -> CallSet] /\ call'[p] = next
      /\ \A q \in Procs : q # p => call'[q] = call[q]
  BY <1>0, <1>3, Goings
<1>5. IF counter = MaxCounter THEN call'[p].pc = "idle"
      ELSE call'[p].pc = "advance" /\ call'[p].n = counter + 1
  BY <1>0, <1>3, <1>4, Idles DEF Count, CallSet
<1>6. HostShape'
  BY <1>0, <1>4, <1>5 DEF Count, hostVars, HostShape
<1>7. FileShape'
  BY <1>0, <1>4, <1>5 DEF Count, fileVars, pastVars, FileShape
<1>8. LockShape'
  BY <1>0, <1>4, <1>5 DEF Count, ClientConnectAssumption, LockShape
<1>9. Counted'
  BY <1>0, <1>4, <1>5
     DEF Count, fileVars, pastVars, FileShape, ClientConnectAssumption,
         Counted
<1>10. Pinned'
  BY <1>0, <1>4, <1>5 DEF Count, fileVars, pastVars, Talking, Pinned
<1>11. DeviceKnown'
  BY <1>0, <1>4, <1>5 DEF Count, fileVars, pastVars, DeviceKnown
<1> QED
  BY <1>4, <1>6, <1>7, <1>8, <1>9, <1>10, <1>11 DEF ConnectInv

LEMMA AdvanceKeeps ==
    ASSUME ClientConnectAssumption, ConnectInv, NEW p \in Procs, Advance(p)
    PROVE  ConnectInv'
<1>0. /\ call \in [Procs -> CallSet] /\ call[p] \in CallSet
      /\ HostShape /\ FileShape /\ LockShape /\ Counted /\ Pinned /\ DeviceKnown
  BY DEF ConnectInv
<1>1. PICK next \in CallSet :
         /\ CallGoes(p, next)
         /\ next = [NoCall EXCEPT !.pc = "runtime"]
  BY Idles DEF Advance
<1>2. /\ call' \in [Procs -> CallSet] /\ call'[p] = next
      /\ \A q \in Procs : q # p => call'[q] = call[q]
  BY <1>0, <1>1, Goings
<1>3. call'[p].pc = "runtime"
  BY <1>0, <1>1, <1>2, Idles DEF Advance, CallSet
<1>4. HostShape'
  BY <1>0, <1>2, <1>3 DEF Advance, hostVars, HostShape
<1>5. FileShape'
  BY <1>0, <1>2, <1>3
     DEF Advance, fileVars, pastVars, Counted, ClientConnectAssumption,
         FileShape
<1>6. LockShape'
  BY <1>0, <1>2, <1>3 DEF Advance, ClientConnectAssumption, LockShape
<1>7. Counted'
  BY <1>0, <1>2, <1>3 DEF Advance, fileVars, pastVars, FileShape, LockShape, Counted
<1>8. Pinned'
  BY <1>0, <1>2, <1>3 DEF Advance, fileVars, pastVars, Talking, Pinned
<1>9. DeviceKnown'
  BY <1>0, <1>2, <1>3 DEF Advance, fileVars, pastVars, DeviceKnown
<1> QED
  BY <1>2, <1>4, <1>5, <1>6, <1>7, <1>8, <1>9 DEF ConnectInv

LEMMA AdvanceFailsKeeps ==
    ASSUME ClientConnectAssumption, ConnectInv, NEW p \in Procs, AdvanceFails(p)
    PROVE  ConnectInv'
<1>0. /\ call \in [Procs -> CallSet] /\ call[p] \in CallSet
      /\ HostShape /\ FileShape /\ LockShape /\ Counted /\ Pinned /\ DeviceKnown
  BY DEF ConnectInv
<1>1. PICK next \in CallSet :
         /\ CallGoes(p, next)
         /\ next = NoCall
  BY Idles DEF AdvanceFails, GivesUp
<1>2. /\ call' \in [Procs -> CallSet] /\ call'[p] = next
      /\ \A q \in Procs : q # p => call'[q] = call[q]
  BY <1>0, <1>1, Goings
<1>3. call'[p].pc = "idle"
  BY <1>0, <1>1, <1>2, Idles DEF AdvanceFails, CallSet
<1>4. HostShape'
  BY <1>0, <1>2, <1>3 DEF AdvanceFails, hostVars, HostShape
<1>5. FileShape'
  BY <1>0, <1>2, <1>3 DEF AdvanceFails, fileVars, pastVars, FileShape
<1>6. LockShape'
  BY <1>0, <1>2, <1>3 DEF AdvanceFails, ClientConnectAssumption, LockShape
<1>7. Counted'
  BY <1>0, <1>2, <1>3 DEF AdvanceFails, fileVars, pastVars, Counted
<1>8. Pinned'
  BY <1>0, <1>2, <1>3 DEF AdvanceFails, fileVars, pastVars, Talking, Pinned
<1>9. DeviceKnown'
  BY <1>0, <1>2, <1>3 DEF AdvanceFails, fileVars, pastVars, DeviceKnown
<1> QED
  BY <1>2, <1>4, <1>5, <1>6, <1>7, <1>8, <1>9 DEF ConnectInv

LEMMA LoadRuntimeKeeps ==
    ASSUME ClientConnectAssumption, ConnectInv, NEW p \in Procs, LoadRuntime(p)
    PROVE  ConnectInv'
<1>0. /\ call \in [Procs -> CallSet] /\ call[p] \in CallSet
      /\ HostShape /\ FileShape /\ LockShape /\ Counted /\ Pinned /\ DeviceKnown
  BY DEF ConnectInv
<1>1. runtime # Nothing => [call[p] EXCEPT !.pc = "pin", !.key = runtime.key,
                    !.generation = runtime.generation] \in CallSet
  BY <1>0 DEF CallSet, CallPcs, Talking, HostShape
<1>2. PICK next \in CallSet :
         /\ CallGoes(p, next)
         /\ \/ runtime = Nothing /\ next = NoCall
            \/ runtime # Nothing /\ next = [call[p] EXCEPT !.pc = "pin", !.key = runtime.key,
                    !.generation = runtime.generation]
  BY <1>1, Idles DEF LoadRuntime, GivesUp
<1>3. /\ call' \in [Procs -> CallSet] /\ call'[p] = next
      /\ \A q \in Procs : q # p => call'[q] = call[q]
  BY <1>0, <1>2, Goings
<1>4. IF runtime = Nothing THEN call'[p].pc = "idle"
      ELSE call'[p].pc = "pin" /\ call'[p].key = runtime.key
  BY <1>0, <1>2, <1>3, Idles DEF LoadRuntime, CallSet
<1>5. HostShape'
  BY <1>0, <1>3, <1>4 DEF LoadRuntime, hostVars, HostShape
<1>6. FileShape'
  BY <1>0, <1>3, <1>4 DEF LoadRuntime, fileVars, pastVars, FileShape
<1>7. LockShape'
  BY <1>0, <1>3, <1>4 DEF LoadRuntime, LockShape
<1>8. Counted'
  BY <1>0, <1>3, <1>4 DEF LoadRuntime, fileVars, pastVars, Counted
<1>9. Pinned'
  BY <1>0, <1>3, <1>4
     DEF LoadRuntime, fileVars, pastVars, Talking, HostShape, Pinned
<1>10. DeviceKnown'
  BY <1>0, <1>3, <1>4 DEF LoadRuntime, fileVars, pastVars, DeviceKnown
<1> QED
  BY <1>3, <1>5, <1>6, <1>7, <1>8, <1>9, <1>10 DEF ConnectInv

LEMMA EstablishPinKeeps ==
    ASSUME ClientConnectAssumption, ConnectInv, NEW p \in Procs, EstablishPin(p)
    PROVE  ConnectInv'
<1>0. /\ call \in [Procs -> CallSet] /\ call[p] \in CallSet
      /\ HostShape /\ FileShape /\ LockShape /\ Counted /\ Pinned /\ DeviceKnown
  BY DEF ConnectInv
<1>1. /\ [call[p] EXCEPT !.pc = "trust"] \in CallSet
      /\ [call[p] EXCEPT !.pc = "trust"].pc = "trust"
      /\ [call[p] EXCEPT !.pc = "trust"].key = call[p].key
  BY <1>0 DEF CallSet, CallPcs, Talking
<1>2. /\ [call[p] EXCEPT !.pc = "dial"] \in CallSet
      /\ [call[p] EXCEPT !.pc = "dial"].pc = "dial"
      /\ [call[p] EXCEPT !.pc = "dial"].key = call[p].key
  BY <1>0 DEF CallSet, CallPcs, Talking
<1>3. PICK next \in CallSet :
         /\ CallGoes(p, next)
         /\ \/ next = NoCall
            \/ next = [call[p] EXCEPT !.pc = "trust"]
            \/ pin = call[p].key /\ next = [call[p] EXCEPT !.pc = "dial"]
  BY <1>1, <1>2, Idles DEF EstablishPin, GivesUp
<1>4. /\ call' \in [Procs -> CallSet] /\ call'[p] = next
      /\ \A q \in Procs : q # p => call'[q] = call[q]
  BY <1>0, <1>3, Goings
<1>5. \/ call'[p].pc = "idle"
      \/ call'[p].pc = "trust" /\ call'[p].key = call[p].key
      \/ call'[p].pc = "dial" /\ call'[p].key = call[p].key /\ pin = call[p].key
  BY <1>0, <1>1, <1>2, <1>3, <1>4, Idles
<1>6. HostShape'
  BY <1>0, <1>4, <1>5 DEF EstablishPin, hostVars, HostShape
<1>7. FileShape'
  BY <1>0, <1>4, <1>5 DEF EstablishPin, fileVars, pastVars, FileShape
<1>8. LockShape'
  BY <1>0, <1>4, <1>5 DEF EstablishPin, LockShape
<1>9. Counted'
  BY <1>0, <1>4, <1>5 DEF EstablishPin, fileVars, pastVars, Counted
<1>10. Pinned'
  BY <1>0, <1>4, <1>5
     DEF EstablishPin, fileVars, pastVars, Talking, ClientConnectAssumption,
         Pinned
<1>11. DeviceKnown'
  BY <1>0, <1>4, <1>5 DEF EstablishPin, fileVars, pastVars, DeviceKnown
<1> QED
  BY <1>4, <1>6, <1>7, <1>8, <1>9, <1>10, <1>11 DEF ConnectInv

LEMMA TrustFirstKeeps ==
    ASSUME ClientConnectAssumption, ConnectInv, NEW p \in Procs, TrustFirst(p)
    PROVE  ConnectInv'
<1>0. /\ call \in [Procs -> CallSet] /\ call[p] \in CallSet
      /\ HostShape /\ FileShape /\ LockShape /\ Counted /\ Pinned /\ DeviceKnown
  BY DEF ConnectInv
<1>1. [call[p] EXCEPT !.pc = "dial"] \in CallSet
  BY <1>0 DEF CallSet, CallPcs, Talking
<1>2. PICK next \in CallSet :
         /\ CallGoes(p, next)
         /\ next = [call[p] EXCEPT !.pc = "dial"]
  BY <1>1, Idles DEF TrustFirst
<1>3. /\ call' \in [Procs -> CallSet] /\ call'[p] = next
      /\ \A q \in Procs : q # p => call'[q] = call[q]
  BY <1>0, <1>2, Goings
<1>4. call'[p].pc = "dial" /\ call'[p].key = call[p].key
  BY <1>0, <1>2, <1>3, Idles DEF TrustFirst, CallSet
<1>5. HostShape'
  BY <1>0, <1>3, <1>4 DEF TrustFirst, hostVars, HostShape
<1>6. FileShape'
  BY <1>0, <1>3, <1>4 DEF TrustFirst, fileVars, pastVars, Pinned, FileShape
<1>7. LockShape'
  BY <1>0, <1>3, <1>4 DEF TrustFirst, LockShape
<1>8. Counted'
  BY <1>0, <1>3, <1>4 DEF TrustFirst, fileVars, pastVars, Counted
<1>9. Pinned'
  BY <1>0, <1>3, <1>4 DEF TrustFirst, fileVars, pastVars, Talking, Pinned
<1>10. DeviceKnown'
  BY <1>0, <1>3, <1>4 DEF TrustFirst, fileVars, pastVars, DeviceKnown
<1> QED
  BY <1>3, <1>5, <1>6, <1>7, <1>8, <1>9, <1>10 DEF ConnectInv

LEMMA DialKeeps ==
    ASSUME ClientConnectAssumption, ConnectInv, NEW p \in Procs, Dial(p)
    PROVE  ConnectInv'
<1>0. /\ call \in [Procs -> CallSet] /\ call[p] \in CallSet
      /\ HostShape /\ FileShape /\ LockShape /\ Counted /\ Pinned /\ DeviceKnown
  BY DEF ConnectInv
<1>1. device \notin {Nothing, "malformed"} => device \in Devices
  BY <1>0 DEF FileShape
<1>2. /\ [call[p] EXCEPT !.pc = "pair"] \in CallSet
      /\ [call[p] EXCEPT !.pc = "pair"].pc = "pair"
      /\ [call[p] EXCEPT !.pc = "pair"].key = call[p].key
  BY <1>0 DEF CallSet, CallPcs, Talking
<1>3. device \notin {Nothing, "malformed"} =>
      /\ [call[p] EXCEPT !.pc = "auth", !.device = device] \in CallSet
      /\ [call[p] EXCEPT !.pc = "auth", !.device = device].pc = "auth"
      /\ [call[p] EXCEPT !.pc = "auth", !.device = device].key = call[p].key
      /\ [call[p] EXCEPT !.pc = "auth", !.device = device].device = device
  BY <1>0, <1>1 DEF CallSet, CallPcs, Talking
<1>4. PICK next \in CallSet :
         /\ CallGoes(p, next)
         /\ \/ next = NoCall
            \/ next = [call[p] EXCEPT !.pc = "pair"]
            \/ /\ device \notin {Nothing, "malformed"}
               /\ next = [call[p] EXCEPT !.pc = "auth", !.device = device]
  BY <1>1, <1>2, <1>3, Idles DEF Dial, GivesUp
<1>5. /\ call' \in [Procs -> CallSet] /\ call'[p] = next
      /\ \A q \in Procs : q # p => call'[q] = call[q]
  BY <1>0, <1>4, Goings
<1>6. \/ call'[p].pc = "idle"
      \/ call'[p].pc = "pair" /\ call'[p].key = call[p].key
      \/ call'[p].pc = "auth" /\ call'[p].key = call[p].key /\ call'[p].device \in Devices
  BY <1>0, <1>1, <1>2, <1>3, <1>4, <1>5, Idles
<1>7. HostShape'
  BY <1>0, <1>5, <1>6 DEF Dial, hostVars, HostShape
<1>8. FileShape'
  BY <1>0, <1>5, <1>6 DEF Dial, fileVars, pastVars, FileShape
<1>9. LockShape'
  BY <1>0, <1>5, <1>6 DEF Dial, LockShape
<1>10. Counted'
  BY <1>0, <1>5, <1>6 DEF Dial, fileVars, pastVars, Counted
<1>11. Pinned'
  BY <1>0, <1>5, <1>6 DEF Dial, fileVars, pastVars, Talking, Pinned
<1>12. DeviceKnown'
  BY <1>0, <1>5, <1>6 DEF Dial, fileVars, pastVars, DeviceKnown
<1> QED
  BY <1>5, <1>7, <1>8, <1>9, <1>10, <1>11, <1>12 DEF ConnectInv

LEMMA ProvisionKeeps ==
    ASSUME ClientConnectAssumption, ConnectInv, NEW p \in Procs,
           NEW d \in Devices, Provision(p, d)
    PROVE  ConnectInv'
<1>0. /\ call \in [Procs -> CallSet] /\ call[p] \in CallSet
      /\ HostShape /\ FileShape /\ LockShape /\ Counted /\ Pinned /\ DeviceKnown
  BY DEF ConnectInv
<1>1. [call[p] EXCEPT !.pc = "auth", !.device = d, !.fresh = TRUE] \in CallSet
  BY <1>0 DEF CallSet, CallPcs, Talking
<1>2. PICK next \in CallSet :
         /\ CallGoes(p, next)
         /\ next = [call[p] EXCEPT !.pc = "auth", !.device = d, !.fresh = TRUE]
  BY <1>1, Idles DEF Provision
<1>3. /\ call' \in [Procs -> CallSet] /\ call'[p] = next
      /\ \A q \in Procs : q # p => call'[q] = call[q]
  BY <1>0, <1>2, Goings
<1>4. call'[p].pc = "auth" /\ call'[p].key = call[p].key /\ call'[p].device = d
  BY <1>0, <1>2, <1>3, Idles DEF Provision, CallSet
<1>5. HostShape'
  BY <1>0, <1>3, <1>4 DEF Provision, hostVars, HostShape
<1>6. FileShape'
  BY <1>0, <1>3, <1>4 DEF Provision, fileVars, pastVars, FileShape
<1>7. LockShape'
  BY <1>0, <1>3, <1>4 DEF Provision, LockShape
<1>8. Counted'
  BY <1>0, <1>3, <1>4 DEF Provision, fileVars, pastVars, Counted
<1>9. Pinned'
  BY <1>0, <1>3, <1>4 DEF Provision, fileVars, pastVars, Talking, Pinned
<1>10. DeviceKnown'
  BY <1>0, <1>3, <1>4 DEF Provision, fileVars, pastVars, DeviceKnown
<1> QED
  BY <1>3, <1>5, <1>6, <1>7, <1>8, <1>9, <1>10 DEF ConnectInv

LEMMA AuthenticateKeeps ==
    ASSUME ClientConnectAssumption, ConnectInv, NEW p \in Procs, Authenticate(p)
    PROVE  ConnectInv'
<1>0. /\ call \in [Procs -> CallSet] /\ call[p] \in CallSet
      /\ HostShape /\ FileShape /\ LockShape /\ Counted /\ Pinned /\ DeviceKnown
  BY DEF ConnectInv
<1>1. [call[p] EXCEPT !.pc = "store"] \in CallSet
  BY <1>0 DEF CallSet, CallPcs, Talking
<1>2. PICK next \in CallSet :
         /\ CallGoes(p, next)
         /\ \/ accepted' = accepted /\ next = NoCall
            \/ /\ accepted' = accepted \cup {call[p].device}
               /\ next = [call[p] EXCEPT !.pc = "store"]
  BY <1>1, Idles DEF Authenticate, GivesUp
<1>3. /\ call' \in [Procs -> CallSet] /\ call'[p] = next
      /\ \A q \in Procs : q # p => call'[q] = call[q]
  BY <1>0, <1>2, Goings
<1>4. \/ call'[p].pc = "idle" /\ accepted' = accepted
      \/ /\ call'[p].pc = "store" /\ call'[p].key = call[p].key /\ call'[p].device = call[p].device
         /\ accepted' = accepted \cup {call[p].device}
  BY <1>0, <1>2, <1>3, Idles DEF Authenticate, CallSet
<1>5. HostShape'
  BY <1>0, <1>3, <1>4 DEF Authenticate, hostVars, HostShape
<1>6. FileShape'
  BY <1>0, <1>3, <1>4 DEF Authenticate, fileVars, pastVars, DeviceKnown, FileShape
<1>7. LockShape'
  BY <1>0, <1>3, <1>4 DEF Authenticate, LockShape
<1>8. Counted'
  BY <1>0, <1>3, <1>4 DEF Authenticate, fileVars, pastVars, Counted
<1>9. Pinned'
  BY <1>0, <1>3, <1>4 DEF Authenticate, fileVars, pastVars, Talking, Pinned
<1>10. DeviceKnown'
  BY <1>0, <1>3, <1>4 DEF Authenticate, fileVars, pastVars, DeviceKnown
<1> QED
  BY <1>3, <1>5, <1>6, <1>7, <1>8, <1>9, <1>10 DEF ConnectInv

LEMMA StoreKeeps ==
    ASSUME ClientConnectAssumption, ConnectInv, NEW p \in Procs, Store(p)
    PROVE  ConnectInv'
<1>0. /\ call \in [Procs -> CallSet] /\ call[p] \in CallSet
      /\ HostShape /\ FileShape /\ LockShape /\ Counted /\ Pinned /\ DeviceKnown
  BY DEF ConnectInv
<1>1. [call[p] EXCEPT !.pc = "first"] \in CallSet
  BY <1>0 DEF CallSet, CallPcs, Talking
<1>2. PICK next \in CallSet :
         /\ CallGoes(p, next)
         /\ \/ next = NoCall
            \/ next = [call[p] EXCEPT !.pc = "first"]
  BY <1>1, Idles DEF Store, GivesUp
<1>3. /\ call' \in [Procs -> CallSet] /\ call'[p] = next
      /\ \A q \in Procs : q # p => call'[q] = call[q]
  BY <1>0, <1>2, Goings
<1>4. call'[p].pc = "idle" \/ (call'[p].pc = "first" /\ call'[p].key = call[p].key)
  BY <1>0, <1>2, <1>3, Idles DEF Store, CallSet
<1>5. HostShape'
  BY <1>0, <1>3, <1>4 DEF Store, hostVars, HostShape
<1>6. FileShape'
  BY <1>0, <1>3, <1>4 DEF Store, fileVars, pastVars, DeviceKnown, FileShape
<1>7. LockShape'
  BY <1>0, <1>3, <1>4 DEF Store, LockShape
<1>8. Counted'
  BY <1>0, <1>3, <1>4 DEF Store, fileVars, pastVars, Counted
<1>9. Pinned'
  BY <1>0, <1>3, <1>4 DEF Store, fileVars, pastVars, Talking, Pinned
<1>10. DeviceKnown'
  BY <1>0, <1>3, <1>4 DEF Store, fileVars, pastVars, DeviceKnown
<1> QED
  BY <1>3, <1>5, <1>6, <1>7, <1>8, <1>9, <1>10 DEF ConnectInv

LEMMA FirstKeeps ==
    ASSUME ClientConnectAssumption, ConnectInv, NEW p \in Procs, First(p)
    PROVE  ConnectInv'
<1>0. /\ call \in [Procs -> CallSet] /\ call[p] \in CallSet
      /\ HostShape /\ FileShape /\ LockShape /\ Counted /\ Pinned /\ DeviceKnown
  BY DEF ConnectInv
<1>1. [call[p] EXCEPT !.pc = "connected"] \in CallSet
  BY <1>0 DEF CallSet, CallPcs, Talking
<1>2. PICK next \in CallSet :
         /\ CallGoes(p, next)
         /\ \/ next = NoCall
            \/ next = [call[p] EXCEPT !.pc = "connected"]
  BY <1>1, Idles DEF First, GivesUp
<1>3. /\ call' \in [Procs -> CallSet] /\ call'[p] = next
      /\ \A q \in Procs : q # p => call'[q] = call[q]
  BY <1>0, <1>2, Goings
<1>4. call'[p].pc = "idle" \/ (call'[p].pc = "connected" /\ call'[p].key = call[p].key)
  BY <1>0, <1>2, <1>3, Idles DEF First, CallSet
<1>5. HostShape'
  BY <1>0, <1>3, <1>4 DEF First, hostVars, HostShape
<1>6. FileShape'
  BY <1>0, <1>3, <1>4 DEF First, fileVars, pastVars, FileShape
<1>7. LockShape'
  BY <1>0, <1>3, <1>4 DEF First, LockShape
<1>8. Counted'
  BY <1>0, <1>3, <1>4 DEF First, fileVars, pastVars, Counted
<1>9. Pinned'
  BY <1>0, <1>3, <1>4 DEF First, fileVars, pastVars, Talking, Pinned
<1>10. DeviceKnown'
  BY <1>0, <1>3, <1>4 DEF First, fileVars, pastVars, DeviceKnown
<1> QED
  BY <1>3, <1>5, <1>6, <1>7, <1>8, <1>9, <1>10 DEF ConnectInv

LEMMA DeniedKeeps ==
    ASSUME ClientConnectAssumption, ConnectInv, NEW p \in Procs, Denied(p)
    PROVE  ConnectInv'
<1>0. /\ call \in [Procs -> CallSet] /\ call[p] \in CallSet
      /\ HostShape /\ FileShape /\ LockShape /\ Counted /\ Pinned /\ DeviceKnown
  BY DEF ConnectInv
<1>1. PICK next \in CallSet :
         /\ CallGoes(p, next)
         /\ next = NoCall
  BY Idles DEF Denied, GivesUp
<1>2. /\ call' \in [Procs -> CallSet] /\ call'[p] = next
      /\ \A q \in Procs : q # p => call'[q] = call[q]
  BY <1>0, <1>1, Goings
<1>3. call'[p].pc = "idle"
  BY <1>0, <1>1, <1>2, Idles DEF Denied, CallSet
<1>4. HostShape'
  BY <1>0, <1>2, <1>3 DEF Denied, hostVars, HostShape
<1>5. FileShape'
  BY <1>0, <1>2, <1>3 DEF Denied, fileVars, pastVars, FileShape
<1>6. LockShape'
  BY <1>0, <1>2, <1>3 DEF Denied, LockShape
<1>7. Counted'
  BY <1>0, <1>2, <1>3 DEF Denied, fileVars, pastVars, Counted
<1>8. Pinned'
  BY <1>0, <1>2, <1>3 DEF Denied, fileVars, pastVars, Talking, Pinned
<1>9. DeviceKnown'
  BY <1>0, <1>2, <1>3 DEF Denied, fileVars, pastVars, DeviceKnown
<1> QED
  BY <1>2, <1>4, <1>5, <1>6, <1>7, <1>8, <1>9 DEF ConnectInv

LEMMA CloseKeeps ==
    ASSUME ClientConnectAssumption, ConnectInv, NEW p \in Procs, Close(p)
    PROVE  ConnectInv'
<1>0. /\ call \in [Procs -> CallSet] /\ call[p] \in CallSet
      /\ HostShape /\ FileShape /\ LockShape /\ Counted /\ Pinned /\ DeviceKnown
  BY DEF ConnectInv
<1>1. PICK next \in CallSet :
         /\ CallGoes(p, next)
         /\ next = NoCall
  BY Idles DEF Close, GivesUp
<1>2. /\ call' \in [Procs -> CallSet] /\ call'[p] = next
      /\ \A q \in Procs : q # p => call'[q] = call[q]
  BY <1>0, <1>1, Goings
<1>3. call'[p].pc = "idle"
  BY <1>0, <1>1, <1>2, Idles DEF Close, CallSet
<1>4. HostShape'
  BY <1>0, <1>2, <1>3 DEF Close, hostVars, HostShape
<1>5. FileShape'
  BY <1>0, <1>2, <1>3 DEF Close, fileVars, pastVars, FileShape
<1>6. LockShape'
  BY <1>0, <1>2, <1>3 DEF Close, LockShape
<1>7. Counted'
  BY <1>0, <1>2, <1>3 DEF Close, fileVars, pastVars, Counted
<1>8. Pinned'
  BY <1>0, <1>2, <1>3 DEF Close, fileVars, pastVars, Talking, Pinned
<1>9. DeviceKnown'
  BY <1>0, <1>2, <1>3 DEF Close, fileVars, pastVars, DeviceKnown
<1> QED
  BY <1>2, <1>4, <1>5, <1>6, <1>7, <1>8, <1>9 DEF ConnectInv

LEMMA ExitKeeps ==
    ASSUME ClientConnectAssumption, ConnectInv, NEW p \in Procs, EndProcess(p)
    PROVE  ConnectInv'
<1>0. /\ call \in [Procs -> CallSet] /\ call[p] \in CallSet
      /\ HostShape /\ FileShape /\ LockShape /\ Counted /\ Pinned /\ DeviceKnown
  BY DEF ConnectInv
<1>1. PICK next \in CallSet :
         /\ CallGoes(p, next)
         /\ next = NoCall
  BY Idles DEF EndProcess, GivesUp
<1>2. /\ call' \in [Procs -> CallSet] /\ call'[p] = next
      /\ \A q \in Procs : q # p => call'[q] = call[q]
  BY <1>0, <1>1, Goings
<1>3. call'[p].pc = "idle"
  BY <1>0, <1>1, <1>2, Idles DEF EndProcess, CallSet
<1>4. HostShape'
  BY <1>0, <1>2, <1>3 DEF EndProcess, hostVars, HostShape
<1>5. FileShape'
  BY <1>0, <1>2, <1>3
     DEF EndProcess, fileVars, pastVars, ClientConnectAssumption, FileShape
<1>6. LockShape'
  BY <1>0, <1>2, <1>3 DEF EndProcess, ClientConnectAssumption, LockShape
<1>7. Counted'
  BY <1>0, <1>2, <1>3 DEF EndProcess, fileVars, pastVars, Counted
<1>8. Pinned'
  BY <1>0, <1>2, <1>3 DEF EndProcess, fileVars, pastVars, Talking, Pinned
<1>9. DeviceKnown'
  BY <1>0, <1>2, <1>3 DEF EndProcess, fileVars, pastVars, DeviceKnown
<1> QED
  BY <1>2, <1>4, <1>5, <1>6, <1>7, <1>8, <1>9 DEF ConnectInv

-----------------------------------------------------------------------------
(* Steps beside the attempts.                                               *)
LEMMA BesideKeeps ==
    ASSUME ClientConnectAssumption, ConnectInv,
           \/ \E p \in Procs, k \in Keys : TrustConfirmed(p, k)
           \/ \E k \in Keys : StartHost(k)
           \/ EndHost \/ RemoveDevice \/ \E d \in Devices : Revoke(d)
    PROVE  ConnectInv'
<1>1. CASE \E p \in Procs, k \in Keys : TrustConfirmed(p, k)
  BY <1>1
     DEF TrustConfirmed, ConnectInv, hostVars, HostShape, FileShape,
         LockShape, Counted, Pinned, DeviceKnown
<1>2. CASE \E k \in Keys : StartHost(k)
  BY <1>2
     DEF StartHost, ConnectInv, fileVars, pastVars, HostShape, FileShape,
         LockShape, Counted, Pinned, DeviceKnown
<1>3. CASE EndHost
  BY <1>3
     DEF EndHost, ConnectInv, fileVars, pastVars, HostShape, FileShape,
         LockShape, Counted, Pinned, DeviceKnown
<1>4. CASE RemoveDevice
  BY <1>4
     DEF RemoveDevice, ConnectInv, hostVars, pastVars, HostShape, FileShape,
         LockShape, Counted, Pinned, DeviceKnown
<1>5. CASE \E d \in Devices : Revoke(d)
  BY <1>5
     DEF Revoke, ConnectInv, fileVars, pastVars, HostShape, FileShape,
         LockShape, Counted, Pinned, DeviceKnown
<1> QED
  BY <1>1, <1>2, <1>3, <1>4, <1>5

LEMMA StepConnect ==
    ASSUME ClientConnectAssumption, ConnectInv, [ConnectNext]_connectVars
    PROVE  ConnectInv'
<1>1. CASE UNCHANGED connectVars
  BY <1>1
     DEF connectVars, fileVars, hostVars, pastVars, ConnectInv, HostShape,
         FileShape, LockShape, Counted, Pinned, DeviceKnown
<1>2. ASSUME NEW p \in Procs, Attempt(p) PROVE ConnectInv'
  BY <1>2, BeginKeeps, CountKeeps, AdvanceKeeps, AdvanceFailsKeeps, LoadRuntimeKeeps,
     EstablishPinKeeps, TrustFirstKeeps, DialKeeps, AuthenticateKeeps, StoreKeeps,
     FirstKeeps
     DEF Attempt
<1>3. ASSUME NEW p \in Procs, \/ Denied(p) \/ Close(p) \/ EndProcess(p)
                              \/ \E d \in Devices : Provision(p, d)
      PROVE  ConnectInv'
  BY <1>3, DeniedKeeps, CloseKeeps, ExitKeeps, ProvisionKeeps
<1> QED
  BY <1>1, <1>2, <1>3, BesideKeeps DEF ConnectNext

LEMMA Inductive ==
    ASSUME ClientConnectAssumption
    PROVE  ConnectSpec => []ConnectInv
  BY InitConnect, StepConnect, PTL DEF ConnectSpec

(* No two processes go by one incarnation, a process talks only to a host    *)
(* whose key was trusted on first use or confirmed by the owner, and the     *)
(* device that is kept is one the host accepted (advance_counter,            *)
(* establish_host_pin, finish_connect).                                      *)
THEOREM ConnectKept ==
    ASSUME ClientConnectAssumption
    PROVE  ConnectSpec => []ConnectSafe
<1>1. ConnectInv => ConnectSafe
  BY DEF ConnectInv, FileShape, LockShape, Counted, Pinned, DeviceKnown, Talking,
         ConnectSafe, ConnectTypeOK, IncarnationsDiffer, TalksToTrusted, KeptDeviceAccepted
<1> QED
  BY <1>1, Inductive, PTL
=============================================================================
