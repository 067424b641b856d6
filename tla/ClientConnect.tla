---------------------------- MODULE ClientConnect ----------------------------
(***************************************************************************)
(* The data directory the clients of one user share and the way to a       *)
(* connection: the incarnation counter behind its lock, the pin of the host*)
(* that is trusted on first use, the device with its pairing secret, and   *)
(* the runtime file the host publishes.                                    *)
(*                                                                         *)
(* The host is external: it starts, starts again under a new generation,   *)
(* perhaps with a new key, pairs a device the owner confirms, revokes it,  *)
(* and accepts a device it knows.  Every file is replaced in one step      *)
(* (atomic_replace).                                                       *)
(***************************************************************************)
EXTENDS Naturals, FiniteSets

CONSTANTS
    Procs,       \* processes of clients, by the slot they run in
    Keys,        \* keys of the host, told apart by their pins
    Devices,     \* devices the host may pair
    MaxStarts,   \* bound: starts of the host
    MaxBoots,    \* bound: starts of client processes that read the counter
    MaxCounter,  \* the counter is exhausted there
    Nothing         \* no value

ClientConnectAssumption ==
    /\ {MaxStarts, MaxBoots, MaxCounter} \subseteq Nat
    /\ IsFiniteSet(Procs) /\ Nothing \notin Keys \cup Devices \cup Procs

VARIABLES
    counter,   \* client-incarnation.counter
    lock,      \* who has client-incarnation.lock, or Nothing
    cache,     \* CACHE of each process: its incarnation, 0 before it has one
    pin,       \* client-host-pin.json, or Nothing
    device,    \* client-device.json: a device, Nothing, or "malformed"
    runtime,   \* the runtime file: [key, generation], or Nothing
    host,      \* [up, key, generation]
    paired,    \* devices the host has provisioned and not revoked
    call,      \* what each process is doing
    starts, boots,
    given,     \* counters that were handed out
    trusted,   \* pins that were trusted on first use or confirmed by the owner
    accepted   \* devices the host accepted once

fileVars == <<counter, pin, device>>
hostVars == <<runtime, host, paired, starts>>
pastVars == <<given, trusted, accepted>>
connectVars == <<fileVars, lock, cache, hostVars, call, boots, pastVars>>

-----------------------------------------------------------------------------
NoCall == [pc |-> "idle", n |-> 0, key |-> Nothing, generation |-> 0, device |-> Nothing,
         fresh |-> FALSE]

ConnectInit ==
    /\ counter = 0 /\ lock = Nothing /\ cache = [p \in Procs |-> 0]
    /\ pin = Nothing /\ device \in {Nothing, "malformed"}
    /\ runtime = Nothing /\ host = [up |-> FALSE, key |-> Nothing, generation |-> 0]
    /\ paired = {} /\ call = [p \in Procs |-> NoCall]
    /\ starts = 0 /\ boots = 0
    /\ given = {} /\ trusted = {} /\ accepted = {}

\* The process goes on, or gives up with an error.
CallGoes(p, next) == call' = [call EXCEPT ![p] = next]
GivesUp(p) == CallGoes(p, NoCall)

-----------------------------------------------------------------------------
(* boot_incarnation                                                        *)

\* Mutated: the counter is read and written without the lock.
BeginUnlocked(p) ==
    /\ call[p].pc = "idle"
    /\ IF cache[p] # 0
       THEN CallGoes(p, [NoCall EXCEPT !.pc = "runtime"]) /\ UNCHANGED boots
       ELSE /\ boots < MaxBoots /\ boots' = boots + 1
            /\ CallGoes(p, [NoCall EXCEPT !.pc = "count"])
    /\ UNCHANGED <<fileVars, lock, cache, hostVars, pastVars>>

\* A process that has its incarnation keeps it; another one waits for the lock.
BeginBoot(p) ==
    /\ call[p].pc = "idle"
    /\ IF cache[p] # 0
       THEN CallGoes(p, [NoCall EXCEPT !.pc = "runtime"]) /\ UNCHANGED <<lock, boots>>
       ELSE /\ lock = Nothing /\ lock' = p
            /\ boots < MaxBoots /\ boots' = boots + 1
            /\ CallGoes(p, [NoCall EXCEPT !.pc = "count"])
    /\ UNCHANGED <<fileVars, cache, hostVars, pastVars>>

\* read_counter and checked_add.
Count(p) ==
    /\ call[p].pc = "count"
    /\ IF counter = MaxCounter
       THEN GivesUp(p) /\ lock' = Nothing
       ELSE CallGoes(p, [call[p] EXCEPT !.pc = "advance", !.n = counter + 1]) /\ UNCHANGED lock
    /\ UNCHANGED <<fileVars, cache, hostVars, boots, pastVars>>

\* The counter is replaced, the lock let go, and the incarnation remembered.
Advance(p) ==
    /\ call[p].pc = "advance"
    /\ counter' = call[p].n /\ cache' = [cache EXCEPT ![p] = call[p].n]
    /\ given' = given \cup {call[p].n}
    /\ lock' = Nothing
    /\ CallGoes(p, [NoCall EXCEPT !.pc = "runtime"])
    /\ UNCHANGED <<pin, device, hostVars, boots, trusted, accepted>>

\* The store of the counter fails: what was staged is dropped.
AdvanceFails(p) ==
    /\ call[p].pc = "advance"
    /\ lock' = Nothing /\ GivesUp(p)
    /\ UNCHANGED <<fileVars, cache, hostVars, boots, pastVars>>

-----------------------------------------------------------------------------
(* load_host_runtime, establish_host_pin, connect_ws                       *)

LoadRuntime(p) ==
    /\ call[p].pc = "runtime"
    /\ IF runtime = Nothing THEN GivesUp(p)
       ELSE CallGoes(p, [call[p] EXCEPT !.pc = "pin", !.key = runtime.key,
                                    !.generation = runtime.generation])
    /\ UNCHANGED <<fileVars, lock, cache, hostVars, boots, pastVars>>

\* Mutated: a pin that differs is replaced by the one that is offered.
EstablishPinAnew(p) ==
    /\ call[p].pc = "pin"
    /\ \/ pin = Nothing /\ CallGoes(p, [call[p] EXCEPT !.pc = "trust"])
       \/ pin = call[p].key /\ CallGoes(p, [call[p] EXCEPT !.pc = "dial"])
       \/ pin \notin {Nothing, call[p].key} /\ CallGoes(p, [call[p] EXCEPT !.pc = "dial"])
    /\ UNCHANGED <<fileVars, lock, cache, hostVars, boots, pastVars>>
\* A stored pin has to be the one that is offered; without one the offered one
\* is about to be stored.
EstablishPin(p) ==
    /\ call[p].pc = "pin"
    /\ \/ pin = Nothing /\ CallGoes(p, [call[p] EXCEPT !.pc = "trust"])
       \/ pin = call[p].key /\ CallGoes(p, [call[p] EXCEPT !.pc = "dial"])
       \/ pin \notin {Nothing, call[p].key} /\ GivesUp(p)
    /\ UNCHANGED <<fileVars, lock, cache, hostVars, boots, pastVars>>

\* write_pin, on first use.
TrustFirst(p) ==
    /\ call[p].pc = "trust"
    /\ pin' = call[p].key /\ trusted' = trusted \cup {call[p].key}
    /\ CallGoes(p, [call[p] EXCEPT !.pc = "dial"])
    /\ UNCHANGED <<counter, device, lock, cache, hostVars, boots, given, accepted>>

\* trust_host_pin: the owner confirms the pin that is offered now.
TrustConfirmed(p, k) ==
    /\ call[p].pc = "idle"
    /\ runtime # Nothing /\ runtime.key = k
    /\ pin # k
    /\ pin' = k /\ trusted' = trusted \cup {k}
    /\ UNCHANGED <<counter, device, lock, cache, hostVars, call, boots, given, accepted>>

\* The host shows its key and asks for the token of its generation; the device
\* is looked up once the connection stands.
Reaches(p) == host.up /\ host.key = call[p].key /\ host.generation = call[p].generation
Dial(p) ==
    /\ call[p].pc = "dial"
    /\ \/ ~Reaches(p) /\ GivesUp(p)
       \/ /\ Reaches(p)
          /\ \/ device = Nothing /\ CallGoes(p, [call[p] EXCEPT !.pc = "pair"])
             \/ device = "malformed" /\ GivesUp(p)
             \/ device \notin {Nothing, "malformed"}
                /\ CallGoes(p, [call[p] EXCEPT !.pc = "auth", !.device = device])
    /\ UNCHANGED <<fileVars, lock, cache, hostVars, boots, pastVars>>

-----------------------------------------------------------------------------
(* Pairing and authentication                                              *)

\* The connection a process uses still stands.
Stands(p) == Reaches(p)

\* PairingRequest: pending until the owner decides, and then the provision.
Provision(p, d) ==
    /\ call[p].pc = "pair" /\ Stands(p)
    /\ d \notin paired \cup accepted
    /\ paired' = paired \cup {d}
    /\ CallGoes(p, [call[p] EXCEPT !.pc = "auth", !.device = d, !.fresh = TRUE])
    /\ UNCHANGED <<fileVars, lock, cache, runtime, host, starts, boots, pastVars>>
Denied(p) ==
    /\ call[p].pc = "pair" /\ GivesUp(p)
    /\ UNCHANGED <<fileVars, lock, cache, hostVars, boots, pastVars>>

\* Mutated: the device is stored before the host accepts it.
AuthenticateStored(p) ==
    /\ call[p].pc = "auth"
    /\ device' = IF call[p].fresh THEN call[p].device ELSE device
    /\ \/ /\ Stands(p) /\ call[p].device \in paired
          /\ accepted' = accepted \cup {call[p].device}
          /\ CallGoes(p, [call[p] EXCEPT !.pc = "store"])
       \/ GivesUp(p) /\ UNCHANGED accepted
    /\ UNCHANGED <<counter, pin, lock, cache, hostVars, boots, given, trusted>>
\* finish_connect up to AuthResult: the host accepts a device it knows; a
\* rejection, a broken connection or an unexpected frame ends the attempt.
Authenticate(p) ==
    /\ call[p].pc = "auth"
    /\ \/ /\ Stands(p) /\ call[p].device \in paired
          /\ accepted' = accepted \cup {call[p].device}
          /\ CallGoes(p, [call[p] EXCEPT !.pc = "store"])
       \/ GivesUp(p) /\ UNCHANGED accepted
    /\ UNCHANGED <<fileVars, lock, cache, hostVars, boots, given, trusted>>

\* store_device after the acceptance of a fresh device, which may fail.
Store(p) ==
    /\ call[p].pc = "store"
    /\ \/ /\ device' = IF call[p].fresh THEN call[p].device ELSE device
          /\ CallGoes(p, [call[p] EXCEPT !.pc = "first"])
       \/ call[p].fresh /\ GivesUp(p) /\ UNCHANGED device
    /\ UNCHANGED <<counter, pin, lock, cache, hostVars, boots, pastVars>>

\* The first frame after the authentication tells the presence.
First(p) ==
    /\ call[p].pc = "first"
    /\ \/ Stands(p) /\ CallGoes(p, [call[p] EXCEPT !.pc = "connected"])
       \/ GivesUp(p)
    /\ UNCHANGED <<fileVars, lock, cache, hostVars, boots, pastVars>>

\* A connection is given up, or lost with the host.
Close(p) ==
    /\ call[p].pc \in {"pair", "auth", "connected"} /\ GivesUp(p)
    /\ UNCHANGED <<fileVars, lock, cache, hostVars, boots, pastVars>>

\* A client process ends anywhere: its lock is let go, its memory lost.
EndProcess(p) ==
    /\ cache[p] # 0 \/ call[p].pc # "idle"
    /\ cache' = [cache EXCEPT ![p] = 0]
    /\ lock' = IF lock = p THEN Nothing ELSE lock
    /\ GivesUp(p)
    /\ UNCHANGED <<fileVars, hostVars, boots, pastVars>>

-----------------------------------------------------------------------------
(* The host, external, and the owner at the data directory                 *)

StartHost(k) ==
    /\ ~host.up /\ starts < MaxStarts /\ starts' = starts + 1
    /\ host' = [up |-> TRUE, key |-> k, generation |-> starts + 1]
    /\ runtime' = [key |-> k, generation |-> starts + 1]
    /\ UNCHANGED <<fileVars, lock, cache, paired, call, boots, pastVars>>
\* A host that ends leaves its runtime file, or takes it away.
EndHost ==
    /\ host.up /\ host' = [host EXCEPT !.up = FALSE]
    /\ runtime' \in {runtime, Nothing}
    /\ UNCHANGED <<fileVars, lock, cache, paired, starts, call, boots, pastVars>>
Revoke(d) ==
    /\ d \in paired /\ paired' = paired \ {d}
    /\ UNCHANGED <<fileVars, lock, cache, runtime, host, starts, call, boots, pastVars>>
\* The owner follows the guidance and removes the device file.
RemoveDevice ==
    /\ device # Nothing /\ device' = Nothing
    /\ UNCHANGED <<counter, pin, lock, cache, hostVars, call, boots, pastVars>>

-----------------------------------------------------------------------------
Attempt(p) ==
    \/ BeginBoot(p) \/ Count(p) \/ Advance(p) \/ AdvanceFails(p)
    \/ LoadRuntime(p) \/ EstablishPin(p) \/ TrustFirst(p) \/ Dial(p)
    \/ Authenticate(p) \/ Store(p) \/ First(p)

ConnectNext ==
    \/ \E p \in Procs : \/ Attempt(p) \/ Denied(p) \/ Close(p) \/ EndProcess(p)
                        \/ \E d \in Devices : Provision(p, d)
                        \/ \E k \in Keys : TrustConfirmed(p, k)
    \/ \E k \in Keys : StartHost(k)
    \/ EndHost \/ RemoveDevice \/ \E d \in Devices : Revoke(d)

ConnectSpec == ConnectInit /\ [][ConnectNext]_connectVars

-----------------------------------------------------------------------------
ConnectTypeOK ==
    /\ counter \in 0..MaxCounter /\ lock \in Procs \cup {Nothing}
    /\ cache \in [Procs -> 0..MaxCounter]
    /\ pin \in Keys \cup {Nothing} /\ device \in Devices \cup {Nothing, "malformed"}
    /\ given \subseteq 1..MaxCounter /\ trusted \subseteq Keys /\ accepted \subseteq Devices
    /\ \A p \in Procs : (lock = p) <=> (call[p].pc \in {"count", "advance"})

\* No two processes go by one incarnation counter, also not one after the other:
\* the counter is always past what was handed out, and who advances it is about
\* to hand out a new one (advance_counter).
IncarnationsDiffer ==
    /\ \A n \in given : n <= counter
    /\ \A p \in Procs : call[p].pc = "advance" => call[p].n \notin given
    /\ \A p, q \in Procs : p # q /\ cache[p] # 0 => cache[p] # cache[q]

\* A process talks only to a host whose key was trusted on first use or confirmed
\* by the owner, and so is the pin that is stored (establish_host_pin).
TalksToTrusted ==
    /\ pin # Nothing => pin \in trusted
    /\ \A p \in Procs : call[p].pc \in {"dial", "pair", "auth", "store", "first", "connected"}
            => call[p].key \in trusted

\* The device that is kept is one the host accepted (finish_connect).
KeptDeviceAccepted == device \notin {Nothing, "malformed"} => device \in accepted

ConnectSafe == ConnectTypeOK /\ IncarnationsDiffer /\ TalksToTrusted /\ KeptDeviceAccepted
=============================================================================
