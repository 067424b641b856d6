-------------------------- MODULE ManagementIntents --------------------------
(***************************************************************************)
(* Management intents of an authenticated client (ene-core setup.rs,      *)
(* usage.rs and deletion.rs, ene-permission intent.rs, ene-store           *)
(* permission.rs).  An intent carries an id of its sender; what the Host   *)
(* decided about it is kept in the table management_intent, write-once     *)
(* under that id, so that a repetition, over the same or another           *)
(* connection, before or after a restart, is answered with the first       *)
(* decision.  Some kinds (consent, setup completion, registration) apply   *)
(* and record in one transaction; the others (usage cap, task cancel and   *)
(* resume, workspace, deletion) apply in one step and record in another,   *)
(* and a crash or a failing write may come between.                        *)
(*                                                                         *)
(* A handler is one business task; two of them may serve the same intent,  *)
(* since the task of a superseded connection goes on.  Bodies stand for    *)
(* the text of target and rationale; an altered frame has the id of an     *)
(* intent and another body.  A frame that claims to be confirmed, or whose *)
(* target does not parse, has no effect and is left out.                   *)
(***************************************************************************)
EXTENDS Integers, FiniteSets

CONSTANTS Intents,      \* ids of intents
          Handlers,     \* business tasks that serve management frames
          Bodies,       \* what a target and a rationale may say
          None,
          MaxRev,       \* the revision that has no next one
          MaxFrames,    \* bound: frames the Host receives
          MaxWorld,     \* bound: changes by other parts of the Host
          MaxErasures,  \* bound: erasures by a targeted deletion
          MaxCrashes    \* bound: crashes and restarts

CONSTANTS KindOf,       \* kind of each intent
          BodyOf,       \* body its sender gave it
          Altered       \* intents whose id is used again with another body

Kinds == {"assign", "complete", "register", "cap", "cancel", "resume",
          "workspace", "deletion"}

IntentsAssumption == KindOf \in [Intents -> Kinds] /\ BodyOf \in [Intents -> Bodies]

VARIABLES
  seen,       \* intent -> the marks on the view it was composed from, or None
  journal,    \* management_intent
  consent,    \* consent_record of the dialogue capability, or None
  births,     \* consent records created so far
  credential, \* a credential of the provider is usable
  pending,    \* credential_pending has its row
  cap,        \* revision of the usage cap, 0 before the first
  task,       \* the task: revision, progress and whether a run is registered
  activity,   \* intent -> task revision its resume activity names, or None
  workspace,  \* TrustedTaskPremises: the body selected, or None
  deletion,   \* the targeted deletion of the one text
  surface,    \* deletion_surface_mark: it moves with requests and operations
  handler,    \* business tasks
  answers,    \* history: what each intent was answered
  done,       \* history: times the effect of each intent was applied
  basis,      \* history: consent an assignment was made on
  frames, world, erasures, crashes

tableVars == <<journal, consent, births, credential, pending, cap, task,
               activity, deletion, surface>>
pastVars == <<answers, done, basis>>
boundVars == <<frames, world, erasures, crashes>>
vars == <<seen, tableVars, workspace, handler, pastVars, boundVars>>

Outcomes == {"Stored", "Applied", "Held", "Clarify", "Exhausted", "Stale"}
Redacted == "redacted"

Rev(c) == IF c = None THEN 0 ELSE c.rev

Marks == [consent : {None} \cup [id : Nat, rev : Nat, body : Bodies],
          cap : Nat, surface : Nat]

\* The marks a management view shows now.
Shown == [consent |-> consent, cap |-> cap, surface |-> surface]

NoWork == [pc |-> "idle", id |-> None, body |-> None, out |-> "Clarify",
           mark |-> 0, read |-> None, ready |-> FALSE]

Init ==
    /\ seen = [i \in Intents |-> None]
    /\ journal = [i \in Intents |-> None]
    /\ consent = None /\ births = 0
    /\ credential = FALSE /\ pending = FALSE
    /\ cap = 0
    /\ task = [rev |-> 1, progress |-> "in_progress", busy |-> FALSE]
    /\ activity = [i \in Intents |-> None]
    /\ workspace = None
    /\ deletion = "none" /\ surface = 0
    /\ handler = [h \in Handlers |-> NoWork]
    /\ answers = [i \in Intents |-> {}]
    /\ done = [i \in Intents |-> 0]
    /\ basis = [i \in Intents |-> None]
    /\ frames = 0 /\ world = 0 /\ erasures = 0 /\ crashes = 0

-----------------------------------------------------------------------------
Kind(h) == KindOf[handler[h].id]
Row(h) == journal[handler[h].id]

\* The mark of the base view that the kind of the intent is compared by.
Base(i) == CASE KindOf[i] \in {"assign", "complete"} -> Rev(seen[i].consent)
             [] KindOf[i] = "cap" -> seen[i].cap
             [] OTHER -> 0

Same(h) == Row(h).body = handler[h].body

\* replayed_outcome: an exhausted revision is shown as a clarification.
Replayed(out) == IF out = "Exhausted" THEN "Clarify" ELSE out

Answer(h, out, mark) ==
    /\ answers' = [answers EXCEPT ![handler[h].id] =
                     @ \cup {[body |-> handler[h].body, out |-> Replayed(out),
                              mark |-> mark]}]
    /\ handler' = [handler EXCEPT ![h] = NoWork]

\* A row that is already there answers the frame.
AnswerRow(h) == IF Same(h) THEN Answer(h, Row(h).out, Row(h).mark)
                ELSE Answer(h, "Clarify", 0)

Goes(h, pc) == handler' = [handler EXCEPT ![h].pc = pc]

\* The outcome is known and is to be recorded in a transaction of its own.
Decides(h, out, mark) ==
    handler' = [handler EXCEPT ![h].pc = "record", ![h].out = out,
                               ![h].mark = mark]

Write(h, out, mark) ==
    journal' = [journal EXCEPT ![handler[h].id] =
                  [body |-> handler[h].body, out |-> out, mark |-> mark]]

Applies(h) == done' = [done EXCEPT ![handler[h].id] = @ + 1]

\* The storage fails: HeldByOperation, and nothing is recorded.
Fails(h) == Answer(h, "Held", 0) /\ UNCHANGED <<tableVars, done, basis>>

FirstPc(i) == CASE KindOf[i] = "register" -> "register"
                [] KindOf[i] = "assign" -> "credential"
                [] KindOf[i] = "complete" -> "consent"
                [] KindOf[i] = "workspace" -> "record"
                [] OTHER -> "apply"

-----------------------------------------------------------------------------
(* The client composes an intent from the view it has, and sends it any    *)
(* number of times.                                                        *)
Compose(i) ==
    /\ seen[i] = None
    /\ seen' = [seen EXCEPT ![i] = Shown]
    /\ UNCHANGED <<tableVars, workspace, handler, pastVars, boundVars>>

Receive(h, i, b) ==
    /\ handler[h].pc = "idle" /\ seen[i] # None
    /\ b = BodyOf[i] \/ i \in Altered
    /\ frames < MaxFrames
    /\ handler' = [handler EXCEPT ![h] = [NoWork EXCEPT !.pc = "lookup",
                                            !.id = i, !.body = b]]
    /\ frames' = frames + 1
    /\ UNCHANGED <<seen, tableVars, workspace, pastVars, world, erasures,
                   crashes>>

Lookup(h) ==
    /\ handler[h].pc \in {"lookup", "again"}
    /\ \/ Row(h) # None /\ AnswerRow(h)
       \/ Row(h) = None /\ handler[h].pc = "again" /\ Answer(h, "Held", 0)
       \/ Row(h) = None /\ handler[h].pc = "lookup"
            /\ handler' = [handler EXCEPT ![h].pc = FirstPc(handler[h].id),
                                          ![h].out = "Applied"]
            /\ UNCHANGED answers
       \/ Answer(h, "Held", 0)
    /\ UNCHANGED <<seen, tableVars, workspace, done, basis, boundVars>>

-----------------------------------------------------------------------------
(* Registration: the row and the pending request in one transaction.       *)
Register(h) ==
    /\ handler[h].pc = "register"
    /\ \/ /\ Row(h) # None
          /\ Goes(h, "again")
          /\ UNCHANGED <<answers, tableVars, done, basis>>
       \/ /\ Row(h) = None
          /\ LET out == IF credential THEN "Applied" ELSE "Held"
             IN  Write(h, out, 0) /\ Answer(h, out, 0)
          /\ pending' = (pending \/ ~credential)
          /\ UNCHANGED <<consent, births, credential, cap, task, activity,
                         deletion, surface, done, basis>>
       \/ Fails(h)
    /\ UNCHANGED <<seen, workspace, boundVars>>

-----------------------------------------------------------------------------
(* Consent: the premises are read one after the other, then the shortcut   *)
(* and the assignment are one transaction each, with the row.              *)
ReadCredential(h) ==
    /\ handler[h].pc = "credential"
    /\ \/ /\ handler' = [handler EXCEPT
                ![h].pc = IF Kind(h) = "assign" THEN "consent" ELSE "complete",
                ![h].ready = credential /\ (Kind(h) = "complete" => @)]
          /\ UNCHANGED answers
       \/ Answer(h, "Held", 0)
    /\ UNCHANGED <<seen, tableVars, workspace, done, basis, boundVars>>

\* assign_consent goes on only when the view, the credential and the
\* revision agree; complete_setup only notes whether there is a consent.
AfterConsent(h) ==
    CASE Kind(h) = "complete" -> [pc |-> IF consent = None THEN "complete"
                                         ELSE "credential",
                                  out |-> "Applied"]
      [] ~handler[h].ready -> [pc |-> "record", out |-> "Clarify"]
      [] Base(handler[h].id) # Rev(consent) ->
           [pc |-> "record", out |-> "Stale"]
      [] OTHER -> [pc |-> "shortcut", out |-> "Stored"]

ReadConsent(h) ==
    /\ handler[h].pc = "consent"
    /\ \/ /\ handler' = [handler EXCEPT
                ![h].pc = AfterConsent(h).pc, ![h].out = AfterConsent(h).out,
                ![h].read = consent,
                ![h].mark = IF AfterConsent(h).out = "Stale" THEN Rev(consent)
                            ELSE 0,
                ![h].ready = IF Kind(h) = "complete" THEN consent # None ELSE @]
          /\ UNCHANGED answers
       \/ Answer(h, "Held", 0)
    /\ UNCHANGED <<seen, tableVars, workspace, done, basis, boundVars>>

Shortcut(h) ==
    /\ handler[h].pc = "shortcut"
    /\ \/ Row(h) # None /\ AnswerRow(h) /\ UNCHANGED journal
       \/ /\ Row(h) = None /\ consent # None
          /\ consent.body = handler[h].body
          /\ Write(h, "Stored", consent.rev)
          /\ Answer(h, "Stored", consent.rev)
       \/ /\ Row(h) = None
          /\ consent # None => consent.body # handler[h].body
          /\ IF Rev(handler[h].read) = MaxRev THEN Decides(h, "Exhausted", 0)
             ELSE Goes(h, "assign")
          /\ UNCHANGED <<answers, journal>>
       \/ Answer(h, "Held", 0) /\ UNCHANGED journal
    /\ UNCHANGED <<seen, consent, births, credential, pending, cap, task,
                   activity, deletion, surface, workspace, done, basis,
                   boundVars>>

\* Mutated: only the revision is compared.
ExpectedRevision(h) == Rev(consent) = Rev(handler[h].read)

\* compare_and_save_row: identity and revision must be those that were read.
Expected(h) ==
    IF handler[h].read = None THEN consent = None
    ELSE consent # None /\ consent.id = handler[h].read.id
                        /\ consent.rev = handler[h].read.rev

NextConsent(h) ==
    [id |-> IF handler[h].read = None THEN births + 1 ELSE handler[h].read.id,
     rev |-> Rev(handler[h].read) + 1, body |-> handler[h].body]

Saves(h) ==
    /\ consent' = NextConsent(h)
    /\ births' = IF handler[h].read = None THEN births + 1 ELSE births
    /\ basis' = [basis EXCEPT ![handler[h].id] =
                   [read |-> handler[h].read, found |-> consent]]
    /\ Applies(h)

\* Mutated: the row is left to a transaction of its own.
AssignApart(h) ==
    /\ handler[h].pc = "assign"
    /\ \/ Row(h) # None /\ AnswerRow(h)
            /\ UNCHANGED <<journal, consent, births, done, basis>>
       \/ /\ Row(h) = None /\ Expected(h)
          /\ Saves(h)
          /\ Decides(h, "Stored", NextConsent(h).rev)
          /\ UNCHANGED <<journal, answers>>
       \/ /\ Row(h) = None /\ ~Expected(h)
          /\ Decides(h, "Stale", Rev(consent))
          /\ UNCHANGED <<journal, answers, consent, births, done, basis>>
       \/ Answer(h, "Held", 0)
            /\ UNCHANGED <<journal, consent, births, done, basis>>
    /\ UNCHANGED <<seen, credential, pending, cap, task, activity, deletion,
                   surface, workspace, boundVars>>

Assign(h) ==
    /\ handler[h].pc = "assign"
    /\ \/ Row(h) # None /\ AnswerRow(h)
            /\ UNCHANGED <<journal, consent, births, done, basis>>
       \/ /\ Row(h) = None /\ Expected(h)
          /\ Saves(h)
          /\ Write(h, "Stored", NextConsent(h).rev)
          /\ Answer(h, "Stored", NextConsent(h).rev)
       \/ /\ Row(h) = None /\ ~Expected(h)
          /\ Write(h, "Stale", Rev(consent))
          /\ Answer(h, "Stale", Rev(consent))
          /\ UNCHANGED <<consent, births, done, basis>>
       \/ Answer(h, "Held", 0)
            /\ UNCHANGED <<journal, consent, births, done, basis>>
    /\ UNCHANGED <<seen, credential, pending, cap, task, activity, deletion,
                   surface, workspace, boundVars>>

\* complete_with_intent.
Completion(h) ==
    CASE Base(handler[h].id) # Rev(consent) -> "Stale"
      [] consent # None /\ handler[h].ready -> "Applied"
      [] OTHER -> "Clarify"

Complete(h) ==
    /\ handler[h].pc = "complete"
    /\ \/ Row(h) # None /\ AnswerRow(h) /\ UNCHANGED journal
       \/ /\ Row(h) = None
          /\ LET mark == IF Completion(h) = "Stale" THEN Rev(consent) ELSE 0
             IN  /\ Write(h, Completion(h), mark)
                 /\ Answer(h, Completion(h), mark)
       \/ Answer(h, "Held", 0) /\ UNCHANGED journal
    /\ UNCHANGED <<seen, consent, births, credential, pending, cap, task,
                   activity, deletion, surface, workspace, done, basis,
                   boundVars>>

-----------------------------------------------------------------------------
(* Kinds that apply first and record afterwards.                           *)
SetCap(h) ==
    /\ handler[h].pc = "apply" /\ Kind(h) = "cap"
    /\ \/ /\ Base(handler[h].id) = cap /\ cap < MaxRev
          /\ cap' = cap + 1
          /\ Applies(h)
          /\ Decides(h, "Stored", cap + 1)
          /\ UNCHANGED answers
       \/ /\ Base(handler[h].id) # cap
          /\ Decides(h, "Stale", cap)
          /\ UNCHANGED <<cap, done, answers>>
       \/ Answer(h, "Held", 0) /\ UNCHANGED <<cap, done>>
    /\ UNCHANGED <<seen, journal, consent, births, credential, pending, task,
                   activity, deletion, surface, workspace, basis, boundVars>>

\* Mutated: a task that is over counts as cancelled.
CancelOver(h) ==
    /\ handler[h].pc = "apply" /\ Kind(h) = "cancel"
    /\ \/ /\ task.progress = "in_progress"
          /\ task' = [task EXCEPT !.progress = "cancelled"]
          /\ Applies(h)
          /\ Decides(h, "Applied", 0)
          /\ UNCHANGED answers
       \/ /\ task.progress # "in_progress"
          /\ Decides(h, "Applied", 0)
          /\ UNCHANGED <<task, done, answers>>
       \/ Answer(h, "Held", 0) /\ UNCHANGED <<task, done>>
    /\ UNCHANGED <<seen, journal, consent, births, credential, pending, cap,
                   activity, deletion, surface, workspace, basis, boundVars>>

Cancel(h) ==
    /\ handler[h].pc = "apply" /\ Kind(h) = "cancel"
    /\ \/ /\ task.progress = "in_progress"
          /\ task' = [task EXCEPT !.progress = "cancelled"]
          /\ Applies(h)
          /\ Decides(h, "Applied", 0)
          /\ UNCHANGED answers
       \/ /\ task.progress # "in_progress"
          /\ Decides(h, IF task.progress = "cancelled" THEN "Applied"
                        ELSE "Clarify", 0)
          /\ UNCHANGED <<task, done, answers>>
       \/ Answer(h, "Held", 0) /\ UNCHANGED <<task, done>>
    /\ UNCHANGED <<seen, journal, consent, births, credential, pending, cap,
                   activity, deletion, surface, workspace, basis, boundVars>>

\* load_task, then the activity that carries the Owner's words.
LoadTask(h) ==
    /\ handler[h].pc = "apply" /\ Kind(h) = "resume"
    /\ \/ /\ handler' = [handler EXCEPT ![h].pc = "activity",
                                        ![h].mark = task.rev]
          /\ UNCHANGED answers
       \/ Answer(h, "Held", 0)
    /\ UNCHANGED <<seen, tableVars, workspace, done, basis, boundVars>>

\* Mutated: the premise of a stored activity is brought up to date.
RecordActivityAgain(h) ==
    /\ handler[h].pc = "activity"
    /\ \/ /\ activity' = [activity EXCEPT ![handler[h].id] =
                            [rev |-> handler[h].mark, body |-> handler[h].body]]
          /\ Goes(h, "resume")
          /\ UNCHANGED answers
       \/ Answer(h, "Held", 0) /\ UNCHANGED activity
    /\ UNCHANGED <<seen, journal, consent, births, credential, pending, cap,
                   task, deletion, surface, workspace, done, basis, boundVars>>

\* The activity is stored once under the id of the intent; found again with
\* another premise, or covered by an erasure, the intent is held.
RecordActivity(h) ==
    /\ handler[h].pc = "activity"
    /\ LET new == [rev |-> handler[h].mark, body |-> handler[h].body]
       IN  \/ /\ activity[handler[h].id] \in {None, new}
              /\ activity' = [activity EXCEPT ![handler[h].id] = new]
              /\ Goes(h, "resume")
              /\ UNCHANGED answers
           \/ Answer(h, "Held", 0) /\ UNCHANGED activity
    /\ UNCHANGED <<seen, journal, consent, births, credential, pending, cap,
                   task, deletion, surface, workspace, done, basis, boundVars>>

\* commit_task_resume: the premise must be current and no run registered.
Resume(h) ==
    /\ handler[h].pc = "resume"
    /\ \/ /\ task.progress = "in_progress" /\ task.rev = handler[h].mark
          /\ ~task.busy /\ task.rev < MaxRev
          /\ task' = [task EXCEPT !.rev = @ + 1, !.busy = TRUE]
          /\ Applies(h)
          /\ Decides(h, "Applied", 0)
          /\ UNCHANGED answers
       \/ /\ \/ task.progress # "in_progress" \/ task.rev # handler[h].mark
             \/ task.busy
          /\ Decides(h, "Clarify", 0)
          /\ UNCHANGED <<task, done, answers>>
       \/ Answer(h, "Held", 0) /\ UNCHANGED <<task, done>>
    /\ UNCHANGED <<seen, journal, consent, births, credential, pending, cap,
                   activity, deletion, surface, workspace, basis, boundVars>>

\* targeted_deletion_intent: another surface than the one seen is answered
\* stale and not recorded; a staged request waits for its confirmation; a
\* confirmed one is started.
Delete(h) ==
    /\ handler[h].pc = "apply" /\ Kind(h) = "deletion"
    /\ \/ /\ seen[handler[h].id].surface # surface
          /\ Answer(h, "Stale", 0)
          /\ UNCHANGED done
       \/ /\ seen[handler[h].id].surface = surface
          /\ Goes(h, "stage")
          /\ UNCHANGED <<answers, done>>
       \/ Answer(h, "Held", 0) /\ UNCHANGED done
    /\ UNCHANGED <<seen, tableVars, workspace, basis, boundVars>>

Stage(h) ==
    /\ handler[h].pc = "stage"
    /\ \/ /\ deletion \in {"none", "finished"}
          /\ deletion' = "staged" /\ surface' = surface + 1
          /\ Decides(h, "Clarify", 0)
          /\ UNCHANGED answers
       \/ /\ deletion = "staged"
          /\ Decides(h, "Clarify", 0)
          /\ UNCHANGED <<deletion, surface, answers>>
       \/ /\ deletion = "started"
          /\ Decides(h, "Held", 0)
          /\ UNCHANGED <<deletion, surface, answers>>
       \/ /\ deletion = "confirmed"
          /\ Goes(h, "start")
          /\ UNCHANGED <<deletion, surface, answers>>
       \/ Answer(h, "Held", 0) /\ UNCHANGED <<deletion, surface>>
    /\ UNCHANGED <<seen, journal, consent, births, credential, pending, cap,
                   task, activity, workspace, done, basis, boundVars>>

StartDeletion(h) ==
    /\ handler[h].pc = "start"
    /\ \/ /\ deletion = "confirmed"
          /\ deletion' = "started" /\ surface' = surface + 1
          /\ Applies(h)
          /\ Decides(h, "Applied", 0)
          /\ UNCHANGED answers
       \/ /\ deletion # "confirmed"
          /\ Decides(h, "Held", 0)
          /\ UNCHANGED <<deletion, surface, done, answers>>
       \/ Answer(h, "Held", 0) /\ UNCHANGED <<deletion, surface, done>>
    /\ UNCHANGED <<seen, journal, consent, births, credential, pending, cap,
                   task, activity, workspace, basis, boundVars>>

-----------------------------------------------------------------------------
\* A workspace is selected in memory, once the decision says applied.
After(h, out, mark) ==
    IF Kind(h) = "workspace" /\ out = "Applied"
    THEN Goes(h, "select") /\ UNCHANGED answers
    ELSE Answer(h, out, mark)

\* Mutated: the outcome just reached replaces the one on record.
RecordNewest(h) ==
    /\ handler[h].pc = "record"
    /\ \/ /\ Write(h, handler[h].out, handler[h].mark)
          /\ After(h, handler[h].out, handler[h].mark)
       \/ Answer(h, "Held", 0) /\ UNCHANGED journal
    /\ UNCHANGED <<seen, consent, births, credential, pending, cap, task,
                   activity, deletion, surface, workspace, done, basis,
                   boundVars>>

Record(h) ==
    /\ handler[h].pc = "record"
    /\ \/ /\ Row(h) = None
          /\ Write(h, handler[h].out, handler[h].mark)
          /\ After(h, handler[h].out, handler[h].mark)
       \/ /\ Row(h) # None
          /\ IF Same(h) THEN After(h, Row(h).out, Row(h).mark)
             ELSE Answer(h, "Clarify", 0)
          /\ UNCHANGED journal
       \/ Answer(h, "Held", 0) /\ UNCHANGED journal
    /\ UNCHANGED <<seen, consent, births, credential, pending, cap, task,
                   activity, deletion, surface, workspace, done, basis,
                   boundVars>>

SelectWorkspace(h) ==
    /\ handler[h].pc = "select"
    /\ workspace' = handler[h].body
    /\ Applies(h)
    /\ Answer(h, "Applied", 0)
    /\ UNCHANGED <<seen, tableVars, basis, boundVars>>

-----------------------------------------------------------------------------
(* The rest of the Host.                                                   *)
Changed == world < MaxWorld /\ world' = world + 1

CredentialChanges ==
    /\ Changed
    /\ credential' = ~credential
    /\ pending' = (pending /\ credential)
    /\ UNCHANGED <<seen, journal, consent, births, cap, task, activity,
                   deletion, surface, workspace, handler, pastVars, frames,
                   erasures, crashes>>

TaskEnds ==
    /\ Changed
    /\ \E p \in {"in_progress", "completed"} :
         task' = [task EXCEPT !.busy = FALSE,
                    !.progress = IF @ = "in_progress" THEN p ELSE @]
    /\ UNCHANGED <<seen, journal, consent, births, credential, pending, cap,
                   activity, deletion, surface, workspace, handler, pastVars,
                   frames, erasures, crashes>>

DeletionAdvances ==
    /\ Changed
    /\ \/ deletion = "staged" /\ deletion' = "confirmed" /\ UNCHANGED surface
       \/ deletion = "started" /\ deletion' = "finished"
                              /\ surface' = surface + 1
    /\ UNCHANGED <<seen, journal, consent, births, credential, pending, cap,
                   task, activity, workspace, handler, pastVars, frames,
                   erasures, crashes>>

\* Mutated: the redacted rows are deleted.
EraseRows(b) ==
    /\ erasures < MaxErasures /\ erasures' = erasures + 1
    /\ journal' = [i \in Intents |->
                     IF journal[i] # None /\ journal[i].body = b THEN None
                     ELSE journal[i]]
    /\ consent' = IF consent # None /\ consent.body = b THEN None ELSE consent
    /\ UNCHANGED <<seen, births, credential, pending, cap, task, activity,
                   deletion, surface, workspace, handler, pastVars, frames,
                   world, crashes>>

\* PermissionErasureRepository: the journal is redacted, a consent removed.
Erase(b) ==
    /\ erasures < MaxErasures /\ erasures' = erasures + 1
    /\ journal' = [i \in Intents |->
                     IF journal[i] # None /\ journal[i].body = b
                        /\ KindOf[i] # "deletion"
                     THEN [journal[i] EXCEPT !.body = Redacted]
                     ELSE journal[i]]
    /\ consent' = IF consent # None /\ consent.body = b THEN None ELSE consent
    /\ UNCHANGED <<seen, births, credential, pending, cap, task, activity,
                   deletion, surface, workspace, handler, pastVars, frames,
                   world, crashes>>

\* Memory is lost: handlers, the workspace, registered runs.
Crash ==
    /\ crashes < MaxCrashes /\ crashes' = crashes + 1
    /\ handler' = [h \in Handlers |-> NoWork]
    /\ workspace' = None
    /\ task' = [task EXCEPT !.busy = FALSE]
    /\ UNCHANGED <<seen, journal, consent, births, credential, pending, cap,
                   activity, deletion, surface, pastVars, frames, world,
                   erasures>>

HandlerStep(h) ==
    \/ Lookup(h) \/ Register(h)
    \/ ReadCredential(h) \/ ReadConsent(h) \/ Shortcut(h) \/ Assign(h)
    \/ Complete(h)
    \/ SetCap(h) \/ Cancel(h) \/ LoadTask(h) \/ RecordActivity(h) \/ Resume(h)
    \/ Delete(h) \/ Stage(h) \/ StartDeletion(h)
    \/ Record(h) \/ SelectWorkspace(h)

World == CredentialChanges \/ TaskEnds \/ DeletionAdvances

Next ==
    \/ \E i \in Intents : Compose(i)
    \/ \E h \in Handlers, i \in Intents, b \in Bodies : Receive(h, i, b)
    \/ \E h \in Handlers : HandlerStep(h)
    \/ World
    \/ \E b \in Bodies : Erase(b)
    \/ Crash

Spec == Init /\ [][Next]_vars

-----------------------------------------------------------------------------
Pcs == {"idle", "lookup", "again", "register", "credential", "consent",
        "shortcut", "assign", "complete", "apply", "activity", "resume",
        "stage", "start", "record", "select"}
Rows == [body : Bodies \cup {Redacted}, out : Outcomes, mark : 0 .. MaxRev]
Consents == {None} \cup [id : Nat \ {0}, rev : 1 .. MaxRev, body : Bodies]

(* The rows and the handlers have their types; no row names a revision     *)
(* past the last one.                                                      *)
TypeOK ==
    /\ \A i \in Intents : seen[i] # None => seen[i] \in Marks
    /\ \A i \in Intents : journal[i] # None => journal[i] \in Rows
    /\ consent \in Consents /\ births \in Nat
    /\ cap \in 0 .. MaxRev /\ task.rev \in 1 .. MaxRev
    /\ \A h \in Handlers :
         /\ handler[h].pc \in Pcs
         /\ handler[h].pc # "idle" => handler[h].id \in Intents

(* However often an intent is sent, by however many connections, around a  *)
(* crash or an erasure, its effect on the tables happens at most once (a   *)
(* deletion is started once for each confirmation instead).                *)
OneEffect ==
    \A i \in Intents :
      KindOf[i] \notin {"workspace", "deletion"} => done[i] <= 1

(* An intent is decided once: all its answers to the same frame agree,     *)
(* but for "held" (nothing is known yet) and for a stale deletion surface, *)
(* until an erasure takes the words the frame is recognised by.            *)
Final(i) == {a \in answers[i] :
               /\ a.out # "Held"
               /\ ~(KindOf[i] = "deletion" /\ a.out = "Stale")}
AnswersAgree ==
    erasures = 0 =>
      \A i \in Intents : \A a, b \in Final(i) : a.body = b.body => a = b

(* An intent answered as applied or stored has had its effect, or found    *)
(* the task cancelled already.                                             *)
AppliedWasDone ==
    \A i \in Intents : \A a \in answers[i] :
      a.out \in {"Applied", "Stored"} =>
        CASE KindOf[i] \in {"cap", "resume", "deletion"} -> done[i] > 0
          [] KindOf[i] = "cancel" -> task.progress = "cancelled"
          [] OTHER -> TRUE

(* A consent in force was decided by an intent on record, with its         *)
(* revision and its words.                                                 *)
ConsentIsOnRecord ==
    consent # None =>
      \E i \in Intents :
        /\ journal[i] # None /\ KindOf[i] = "assign"
        /\ journal[i].out = "Stored" /\ journal[i].mark = consent.rev
        /\ journal[i].body = consent.body

(* An assignment replaces the very record it was decided on: the consent   *)
(* read, not another one that has its revision.                            *)
AssignedOnWhatWasRead ==
    \A i \in Intents :
      basis[i] # None => basis[i].read = basis[i].found

(* What holds of the intents of the owner.                                 *)
IntentsSafe == /\ TypeOK /\ OneEffect /\ AnswersAgree /\ AppliedWasDone
               /\ ConsentIsOnRecord /\ AssignedOnWhatWasRead
=============================================================================
