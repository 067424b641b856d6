--------------------------- MODULE TaskLifecycle ---------------------------
(***************************************************************************)
(* What ene promises the owner of a Task, without tables, certainties or   *)
(* adoption claims.                                                        *)
(*                                                                         *)
(* A task is open for a sequence of epochs (its revisions).  Every epoch   *)
(* has a crew, the delegations handed out for it; only the current crew    *)
(* may start external effects, and an effect stays in doubt until it is    *)
(* resolved, whatever has become of the task.  The task ends once: it is   *)
(* stopped, or it is finished by an answer of the current crew at a moment *)
(* when no effect of the task, of whatever epoch, is in doubt.             *)
(***************************************************************************)
EXTENDS Naturals

CONSTANTS
    Tasks,     \* the tasks
    Units,     \* the units of delegated work
    Attempts,  \* the external effects
    Epochs     \* the epochs a task may go through, an initial segment of 1..

VARIABLES
    stage,   \* "absent", "open" or how the task ended
    epoch,   \* the current epoch of the task, 0 while absent
    crew,    \* the units handed out for the current epoch
    doubt,   \* the effects of the task that may or may not have happened
    answer   \* the unit whose result finished the task, as a set

vars == <<stage, epoch, crew, doubt, answer>>

Init ==
    /\ stage = [t \in Tasks |-> "absent"]
    /\ epoch = [t \in Tasks |-> 0]
    /\ crew = [t \in Tasks |-> {}]
    /\ doubt = [t \in Tasks |-> {}]
    /\ answer = [t \in Tasks |-> {}]

Create(t) ==
    /\ stage[t] = "absent"
    /\ stage' = [stage EXCEPT ![t] = "open"]
    /\ epoch' = [epoch EXCEPT ![t] = 1]
    /\ UNCHANGED <<crew, doubt, answer>>

\* The owner changes what is wanted: the crew of the old epoch lapses.
Steer(t) ==
    /\ stage[t] = "open"
    /\ epoch[t] + 1 \in Epochs
    /\ epoch' = [epoch EXCEPT ![t] = @ + 1]
    /\ crew' = [crew EXCEPT ![t] = {}]
    /\ UNCHANGED <<stage, doubt, answer>>

\* A fresh crew is sent for the same purpose, never on top of a doubt.
Restart(t, u) ==
    /\ stage[t] = "open"
    /\ doubt[t] = {}
    /\ epoch[t] + 1 \in Epochs
    /\ epoch' = [epoch EXCEPT ![t] = @ + 1]
    /\ crew' = [crew EXCEPT ![t] = {u}]
    /\ UNCHANGED <<stage, doubt, answer>>

HandOut(t, u) ==
    /\ stage[t] = "open"
    /\ \A s \in Tasks : u \notin crew[s]
    /\ crew' = [crew EXCEPT ![t] = @ \cup {u}]
    /\ UNCHANGED <<stage, epoch, doubt, answer>>

Attempt(t, a) ==
    /\ stage[t] = "open"
    /\ crew[t] # {}
    /\ \A s \in Tasks : a \notin doubt[s]
    /\ doubt' = [doubt EXCEPT ![t] = @ \cup {a}]
    /\ UNCHANGED <<stage, epoch, crew, answer>>

Resolve(t, a) ==
    /\ a \in doubt[t]
    /\ doubt' = [doubt EXCEPT ![t] = @ \ {a}]
    /\ UNCHANGED <<stage, epoch, crew, answer>>

Finish(t, u) ==
    /\ stage[t] = "open"
    /\ u \in crew[t]
    /\ doubt[t] = {}
    /\ stage' = [stage EXCEPT ![t] = "completed"]
    /\ answer' = [answer EXCEPT ![t] = {u}]
    /\ UNCHANGED <<epoch, crew, doubt>>

Stop(t, how) ==
    /\ stage[t] = "open"
    /\ stage' = [stage EXCEPT ![t] = how]
    /\ UNCHANGED <<epoch, crew, doubt, answer>>

Next == \E t \in Tasks :
    \/ Create(t)
    \/ Steer(t)
    \/ \E u \in Units : Restart(t, u) \/ HandOut(t, u) \/ Finish(t, u)
    \/ \E a \in Attempts : Attempt(t, a) \/ Resolve(t, a)
    \/ \E how \in {"failed", "cancelled"} : Stop(t, how)

Spec == Init /\ [][Next]_vars
=============================================================================
