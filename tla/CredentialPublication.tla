------------------------- MODULE CredentialPublication -------------------------
(****************************************************************************)
(* How a secret becomes the one a credential is used with                   *)
(* (apps/ene-core/src/serve.rs publish_credential, ene-store's              *)
(* credential_publication.rs, ene-credential's stores and scrubber).         *)
(*                                                                          *)
(* A secret lives in an item of the operating system's store; the tables     *)
(* hold which version is active, and memory a copy of the active secrets.    *)
(* No transaction spans the three.  A registration writes its row, puts the  *)
(* item, reads it back, marks the row staged, and then, under the lock of    *)
(* publications, commits the activation and publishes the copy; the version  *)
(* it displaces is retired, and its item removed afterwards.  Meanwhile      *)
(* texts are scrubbed of the active secrets and stored under the revision    *)
(* of the credential set they were scrubbed under, without that lock.        *)
(*                                                                          *)
(* A version is named by the mutation that drew it: versions are random and  *)
(* never drawn twice.  A text is the set of the secrets it contains.         *)
(****************************************************************************)
EXTENDS Naturals, FiniteSets

CONSTANTS
  Credentials,   \* provider and label pairs
  Mutations,     \* mutation ids; also the versions they draw
  Secrets,       \* secret values
  Callers,       \* concurrent publications of the control seat
  Writers,       \* concurrent writers of text
  Calls,         \* provider calls
  MaxTexts,      \* bound: texts written
  MaxCrashes,    \* bound: ends of the host
  MaxErasures,   \* bound: deletions that erase a reference
  MaxLocked,     \* bound: times the store of the system does not answer
  None

CredentialPublicationAssumption ==
  /\ {MaxTexts, MaxCrashes, MaxErasures, MaxLocked} \subseteq Nat
  /\ None \notin Credentials \cup Mutations \cup Secrets \cup Callers
  /\ None \notin {"Prepared", "Staged", "Activated", "CleanupPending", "Completed",
                  "Abandoned", "Stale"}

VARIABLES
  row,        \* credential_mutation
  active,     \* credential_active
  retired,    \* credential_retired
  refs,       \* credential_ref
  rev,        \* credential_set
  stored,     \* the texts in the tables a sweep covers
  items,      \* the operating system's store
  live,       \* the active version and secret in memory
  lock,       \* the holder of credential_publication
  host,       \* down, a step of the startup, or up
  call,       \* publications under way
  writer,     \* texts being scrubbed
  request,    \* provider calls
  count       \* what the bounds count

tableVars == <<row, active, retired, refs, rev, stored>>
vars == <<row, active, retired, refs, rev, stored, items, live, lock, host, call,
          writer, request, count>>

NoRow == [cred |-> None, expected |-> 0, phase |-> None, outcome |-> None]
NoCall == [pc |-> "idle", mut |-> None, cred |-> None, secret |-> None, seen |-> 0,
           old |-> None, bearer |-> None, gone |-> {}]
NoText == [pc |-> "idle", text |-> {}, seen |-> 0, known |-> {}, raced |-> FALSE]
NoCopy == [version |-> None, secret |-> None]
NoRequest == [pc |-> "idle", cred |-> None, claimed |-> None, sent |-> None]

Counts == [texts : 0 .. MaxTexts, crashes : 0 .. MaxCrashes, erasures : 0 .. MaxErasures,
           locked : 0 .. MaxLocked]

Init ==
  /\ row = [m \in Mutations |-> NoRow]
  /\ active = [c \in Credentials |-> None]
  /\ retired = {} /\ refs = {} /\ rev = 0 /\ stored = {}
  /\ items = [m \in Mutations |-> None]
  /\ live = [c \in Credentials |-> NoCopy]
  /\ lock = None /\ host = "up"
  /\ call = [p \in Callers |-> NoCall]
  /\ writer = [w \in Writers |-> NoText]
  /\ request = [k \in Calls |-> NoRequest]
  /\ count = [texts |-> 0, crashes |-> 0, erasures |-> 0, locked |-> 0]

----------------------------------------------------------------------------
(* The tables.                                                               *)

Swept(texts, secrets) == { [t EXCEPT !.text = @ \ secrets] : t \in texts }

\* Mutated: the candidate is listed in its place.
RetireesSwapped(c, m) ==
  { [cred |-> c, version |-> m, by |-> m] : v \in { v \in Mutations \ {m} : active[c] = v } }

\* The rows credential_retired gets when a mutation's candidate becomes active.
Retirees(c, m) ==
  { [cred |-> c, version |-> v, by |-> m] : v \in { v \in Mutations \ {m} : active[c] = v } }

\* The rows whose items are confirmed gone leave, and complete their mutations.
Forget(gone) ==
  /\ retired' = retired \ gone
  /\ row' = [m \in Mutations |->
       IF /\ row[m].phase = "CleanupPending" /\ m \in { r.by : r \in gone }
          /\ m \notin { r.by : r \in retired \ gone }
       THEN [row[m] EXCEPT !.phase = "Completed"] ELSE row[m]]

----------------------------------------------------------------------------
(* A publication: one action per call of publish_credential.                 *)

At(p, pc) == host = "up" /\ call[p].pc = pc
Goto(p, pc) == call' = [call EXCEPT ![p].pc = pc]
Leave(p) == call' = [call EXCEPT ![p] = NoCall]

\* The store of the system is asked; it may be locked.
Answers(ok) ==
  IF ok THEN UNCHANGED count
  ELSE /\ count.locked < MaxLocked
       /\ count' = [count EXCEPT !.locked = @ + 1]

\* credential_mutation: a known mutation is never carried on.
Ask(p, m, c, s) ==
  /\ At(p, "idle") /\ row[m] = NoRow
  /\ call' = [call EXCEPT ![p] = [NoCall EXCEPT !.pc = "revision", !.mut = m, !.cred = c, !.secret = s]]
  /\ UNCHANGED <<row, active, retired, refs, rev, stored, items, live, lock, host, writer, request, count>>

ReadRevision(p) ==
  /\ At(p, "revision")
  /\ call' = [call EXCEPT ![p].pc = "begin", ![p].seen = rev]
  /\ UNCHANGED <<row, active, retired, refs, rev, stored, items, live, lock, host, writer, request, count>>

\* begin_credential_mutation: a row of the same id has another version, an error.
Begin(p) ==
  LET m == call[p].mut
  IN /\ At(p, "begin")
     /\ IF row[m] = NoRow
        THEN /\ row' = [row EXCEPT ![m] = [cred |-> call[p].cred, expected |-> call[p].seen,
                                           phase |-> "Prepared", outcome |-> None]]
             /\ Goto(p, "put")
        ELSE Leave(p) /\ UNCHANGED row
     /\ UNCHANGED <<active, retired, refs, rev, stored, items, live, lock, host, writer, request, count>>

\* put_version: its error is dropped, the reading back decides.
Put(p) ==
  /\ At(p, "put")
  /\ \E ok \in BOOLEAN :
       /\ Answers(ok)
       /\ items' = IF ok /\ items[call[p].mut] = None
                   THEN [items EXCEPT ![call[p].mut] = call[p].secret] ELSE items
  /\ Goto(p, "inspect")
  /\ UNCHANGED <<row, active, retired, refs, rev, stored, live, lock, host, writer, request>>

Inspect(p) ==
  /\ At(p, "inspect")
  /\ \E ok \in BOOLEAN :
       /\ Answers(ok)
       /\ IF ok /\ items[call[p].mut] = call[p].secret THEN Goto(p, "stage") ELSE Leave(p)
  /\ UNCHANGED <<row, active, retired, refs, rev, stored, items, live, lock, host, writer, request>>

MarkStaged(p) ==
  LET m == call[p].mut
  IN /\ At(p, "stage")
     /\ IF row[m].phase = "Prepared" /\ row[m].outcome = None
        THEN row' = [row EXCEPT ![m].phase = "Staged"] /\ Goto(p, "previous")
        ELSE Leave(p) /\ UNCHANGED row
     /\ UNCHANGED <<active, retired, refs, rev, stored, items, live, lock, host, writer, request, count>>

ReadPrevious(p) ==
  /\ At(p, "previous")
  /\ call' = [call EXCEPT ![p].old = active[call[p].cred],
                          ![p].pc = IF active[call[p].cred] = None THEN "lock" ELSE "bearer"]
  /\ UNCHANGED <<row, active, retired, refs, rev, stored, items, live, lock, host, writer, request, count>>

\* The displaced secret must be readable, or the publication stops here.
ReadBearer(p) ==
  /\ At(p, "bearer")
  /\ \E ok \in BOOLEAN :
       /\ Answers(ok)
       /\ IF ok /\ items[call[p].old] # None
          THEN call' = [call EXCEPT ![p].pc = "lock", ![p].bearer = items[call[p].old]]
          ELSE Leave(p)
  /\ UNCHANGED <<row, active, retired, refs, rev, stored, items, live, lock, host, writer, request>>

\* Mutated: publications do not exclude one another.
TakeNothing(p) ==
  /\ At(p, "lock")
  /\ Goto(p, "commit")
  /\ UNCHANGED <<row, active, retired, refs, rev, stored, items, live, lock, host, writer, request, count>>

TakeLock(p) ==
  /\ At(p, "lock") /\ lock = None
  /\ lock' = p
  /\ Goto(p, "commit")
  /\ UNCHANGED <<row, active, retired, refs, rev, stored, items, live, host, writer, request, count>>

\* Mutated: the old secret alone is swept out of the texts.
ExposedOld(p) == {call[p].bearer} \ {None}

\* The secrets an activation takes out of the stored texts.
Exposed(p) == {call[p].secret, call[p].bearer} \ {None}

\* Mutated: the revision the mutation was drawn up under is not compared.
PremiseIgnored(p) == TRUE

PremiseHolds(p) == row[call[p].mut].expected = rev

Activate(p) ==
  LET m == call[p].mut  c == call[p].cred
  IN /\ stored' = Swept(stored, Exposed(p))
     /\ refs' = refs \cup {c}
     /\ retired' = retired \cup Retirees(c, m)
     /\ active' = [active EXCEPT ![c] = m]
     /\ rev' = rev + 1
     /\ row' = [row EXCEPT ![m].outcome = "Activated",
                           ![m].phase = IF Retirees(c, m) = {} THEN "Activated" ELSE "CleanupPending"]
     /\ Goto(p, "publish")
     /\ UNCHANGED lock

\* abandon_stale, in the transaction that found the revision moved.
Abandon(p) ==
  /\ stored' = Swept(stored, Exposed(p))
  /\ row' = [row EXCEPT ![call[p].mut].phase = "Abandoned", ![call[p].mut].outcome = "Stale"]
  /\ lock' = None
  /\ Leave(p)
  /\ UNCHANGED <<active, retired, refs, rev>>

\* activate_credential, under the lock of publications.
Commit(p) ==
  /\ At(p, "commit")
  /\ IF PremiseHolds(p) THEN Activate(p) ELSE Abandon(p)
  /\ UNCHANGED <<items, live, host, writer, request, count>>

\* The copy in memory, still under the lock.
Publish(p) ==
  /\ At(p, "publish")
  /\ live' = [live EXCEPT ![call[p].cred] = [version |-> call[p].mut, secret |-> call[p].secret]]
  /\ lock' = None
  /\ Goto(p, "remove")
  /\ UNCHANGED <<row, active, retired, refs, rev, stored, items, host, writer, request, count>>

----------------------------------------------------------------------------
(* sweep_retired_credentials: the items first, then the rows, for those whose *)
(* removal was confirmed.                                                     *)

\* The items of the rows in ok are removed; the others do not answer.
Removed(rows, ok) ==
  /\ Answers(ok = rows)
  /\ items' = [m \in Mutations |-> IF m \in { r.version : r \in ok } THEN None ELSE items[m]]

\* Mutated: every row counts as removed.
RemoveUnconfirmed(p) ==
  /\ At(p, "remove")
  /\ \E ok \in SUBSET retired :
       /\ Removed(retired, ok)
       /\ call' = [call EXCEPT ![p].pc = "forget", ![p].gone = retired]
  /\ UNCHANGED <<row, active, retired, refs, rev, stored, live, lock, host, writer, request>>

RemoveRetired(p) ==
  /\ At(p, "remove")
  /\ \E ok \in SUBSET retired :
       /\ Removed(retired, ok)
       /\ call' = [call EXCEPT ![p].pc = "forget", ![p].gone = ok]
  /\ UNCHANGED <<row, active, retired, refs, rev, stored, live, lock, host, writer, request>>

ForgetRetired(p) ==
  /\ At(p, "forget")
  /\ Forget(call[p].gone)
  /\ Leave(p)
  /\ UNCHANGED <<active, refs, rev, stored, items, live, lock, host, writer, request, count>>

----------------------------------------------------------------------------
(* CredentialScrubber and the transaction that stores what it returned.       *)

Writes(w, pc) == host = "up" /\ writer[w].pc = pc

Write(w, text) ==
  /\ Writes(w, "idle") /\ count.texts < MaxTexts
  /\ count' = [count EXCEPT !.texts = @ + 1]
  /\ writer' = [writer EXCEPT ![w] = [NoText EXCEPT !.pc = "references", !.text = text, !.seen = rev]]
  /\ UNCHANGED <<row, active, retired, refs, rev, stored, items, live, lock, host, call, request>>

ReadReferences(w) ==
  /\ Writes(w, "references")
  /\ writer' = [writer EXCEPT ![w].pc = "redact", ![w].known = refs]
  /\ UNCHANGED <<row, active, retired, refs, rev, stored, items, live, lock, host, call, request, count>>

\* The secrets in memory; unreadable when a reference has none.
Readable(known) == \A c \in known : live[c].version # None
Bearers(known) == { live[c].secret : c \in known }

\* An activation is committed and not yet in memory.
BetweenCommitAndPublish == \E p \in Callers : call[p].pc = "publish"

Redact(w) ==
  /\ Writes(w, "redact")
  /\ writer' = [writer EXCEPT ![w] =
       IF Readable(writer[w].known)
       THEN [writer[w] EXCEPT !.pc = "check", !.text = @ \ Bearers(writer[w].known),
                      !.raced = BetweenCommitAndPublish]
       ELSE NoText]
  /\ UNCHANGED <<row, active, retired, refs, rev, stored, items, live, lock, host, call, request, count>>

\* The second reading of the secrets: one still there refuses the text.
Check(w) ==
  /\ Writes(w, "check")
  /\ writer' = [writer EXCEPT ![w] =
       IF Readable(@.known) /\ @.text \cap Bearers(@.known) = {}
       THEN [@ EXCEPT !.pc = "store"] ELSE NoText]
  /\ UNCHANGED <<row, active, retired, refs, rev, stored, items, live, lock, host, call, request, count>>

\* append_history: stored only under the revision it was scrubbed under.
Store(w) ==
  /\ Writes(w, "store")
  /\ stored' = IF writer[w].seen = rev
               THEN stored \cup {[text |-> writer[w].text, raced |-> writer[w].raced]}
               ELSE stored
  /\ writer' = [writer EXCEPT ![w] = NoText]
  /\ UNCHANGED <<row, active, retired, refs, rev, items, live, lock, host, call, request, count>>

----------------------------------------------------------------------------
(* A provider call: its claim compares the revision; the secret is read when  *)
(* the request is built.                                                      *)

Claim(k, c) ==
  /\ host = "up" /\ request[k].pc = "idle"
  /\ c \in refs
  /\ request' = [request EXCEPT ![k] = [pc |-> "claimed", cred |-> c, claimed |-> active[c], sent |-> None]]
  /\ UNCHANGED <<row, active, retired, refs, rev, stored, items, live, lock, host, call, writer, count>>

Send(k) ==
  /\ host = "up" /\ request[k].pc = "claimed"
  /\ request' = [request EXCEPT ![k].pc = "sent", ![k].sent = live[request[k].cred].version]
  /\ UNCHANGED <<row, active, retired, refs, rev, stored, items, live, lock, host, call, writer, count>>

----------------------------------------------------------------------------
(* A deletion that names the reference; the end of the host; its startup.     *)

\* CredentialErasureRepository::erase_target_text: the reference alone.
EraseReference(c) ==
  /\ host = "up" /\ c \in refs /\ count.erasures < MaxErasures
  /\ count' = [count EXCEPT !.erasures = @ + 1]
  /\ refs' = refs \ {c}
  /\ rev' = rev + 1
  /\ UNCHANGED <<row, active, retired, stored, items, live, lock, host, call, writer, request>>

\* What only memory holds: publications, scrubs, calls and the copies.
Stop ==
  /\ host' = "down"
  /\ live' = [c \in Credentials |-> NoCopy]
  /\ lock' = None
  /\ call' = [p \in Callers |-> NoCall]
  /\ writer' = [w \in Writers |-> NoText]
  /\ request' = [k \in Calls |-> NoRequest]

Crash ==
  /\ host # "down" /\ count.crashes < MaxCrashes
  /\ count' = [count EXCEPT !.crashes = @ + 1]
  /\ Stop
  /\ UNCHANGED <<row, active, retired, refs, rev, stored, items>>

\* reconcile_credential_publication
Reconcile ==
  /\ host = "down"
  /\ \E readable \in SUBSET refs :
       /\ Answers(readable = refs)
       /\ live' = [c \in Credentials |->
            IF c \in readable /\ active[c] # None /\ items[active[c]] # None
            THEN [version |-> active[c], secret |-> items[active[c]]] ELSE NoCopy]
  /\ host' = "sweep"
  /\ UNCHANGED <<row, active, retired, refs, rev, stored, items, lock, call, writer, request>>

\* sweep_registered_values: an unreadable secret ends the startup.
SweepRegistered ==
  /\ host = "sweep"
  /\ IF Readable(refs)
     THEN /\ host' = "retire"
          /\ stored' = Swept(stored, Bearers(refs))
          /\ rev' = IF refs = {} THEN rev ELSE rev + 1
          /\ UNCHANGED <<live, lock, call, writer, request>>
     ELSE Stop /\ UNCHANGED <<rev, stored>>
  /\ UNCHANGED <<row, active, retired, refs, items, count>>

\* sweep_retired_credential_versions; no publication runs yet.
SweepRetired ==
  /\ host = "retire"
  /\ \E ok \in SUBSET retired : Removed(retired, ok) /\ Forget(ok)
  /\ host' = "up"
  /\ UNCHANGED <<active, refs, rev, stored, live, lock, call, writer, request>>

----------------------------------------------------------------------------
Publication(p) ==
  \/ \E m \in Mutations, c \in Credentials, s \in Secrets : Ask(p, m, c, s)
  \/ ReadRevision(p) \/ Begin(p) \/ Put(p) \/ Inspect(p) \/ MarkStaged(p)
  \/ ReadPrevious(p) \/ ReadBearer(p) \/ TakeLock(p) \/ Commit(p) \/ Publish(p)
  \/ RemoveRetired(p) \/ ForgetRetired(p)

Writing(w) ==
  \/ \E text \in SUBSET Secrets : Write(w, text)
  \/ ReadReferences(w) \/ Redact(w) \/ Check(w) \/ Store(w)

Startup == Reconcile \/ SweepRegistered \/ SweepRetired

Next ==
  \/ \E p \in Callers : Publication(p)
  \/ \E w \in Writers : Writing(w)
  \/ \E k \in Calls : Send(k) \/ \E c \in Credentials : Claim(k, c)
  \/ \E c \in Credentials : EraseReference(c)
  \/ Crash \/ Startup

Spec == Init /\ [][Next]_vars

----------------------------------------------------------------------------
(* Properties.                                                               *)

WasActive(v) == row[v].outcome = "Activated"

\* The type invariant.
TypeOK ==
  /\ \A m \in Mutations :
       /\ row[m].cred \in Credentials \cup {None} /\ row[m].expected \in 0 .. rev
       /\ row[m].phase \in {None, "Prepared", "Staged", "Activated", "CleanupPending", "Completed", "Abandoned"}
       /\ row[m].outcome = CASE row[m].phase \in {"Activated", "CleanupPending", "Completed"} -> "Activated"
                             [] row[m].phase = "Abandoned" -> "Stale"
                             [] OTHER -> None
  /\ active \in [Credentials -> Mutations \cup {None}]
  /\ retired \subseteq [cred : Credentials, version : Mutations, by : Mutations]
  /\ refs \subseteq Credentials /\ rev \in Nat
  /\ stored \subseteq [text : SUBSET Secrets, raced : BOOLEAN]
  /\ items \in [Mutations -> Secrets \cup {None}]
  /\ live \in [Credentials -> [version : Mutations, secret : Secrets] \cup {NoCopy}]
  /\ lock \in Callers \cup {None}
  /\ host \in {"down", "sweep", "retire", "up"}
  /\ count \in Counts

\* Of the mutations drawn up under one revision of the credential set, however
\* their steps interleave, at most one is activated: the others are told that
\* they are stale (credential_publication.rs:301).
OneWinner ==
  \A m, n \in Mutations :
    (m # n /\ WasActive(m) /\ WasActive(n)) => row[m].expected # row[n].expected

\* The item of an active version is in the store of the system, whatever
\* crashed or was locked, and no pass that removes retired items will take it
\* (serve.rs:1417, credential_publication.rs:499).
ActiveItemKept ==
  \A c \in Credentials :
    active[c] # None => (items[active[c]] # None /\ active[c] \notin { r.version : r \in retired })

\* A version that was active and no longer is stays listed until its item is
\* gone, and its mutation says that cleanup is pending for just as long: no
\* crash or refused removal between the two loses it (credential_publication.rs:499).
RetiredIsAccountedFor ==
  /\ \A v \in Mutations :
       (WasActive(v) /\ v \notin { active[c] : c \in Credentials } \cup { r.version : r \in retired })
         => items[v] = None
  /\ \A m \in Mutations : (row[m].phase = "CleanupPending") <=> (m \in { r.by : r \in retired })

\* Outside the moment between an activation and its copy, the secret that requests and
\* scrubs find in memory is that of the active version: publications that
\* overlap cannot leave an older one there (serve.rs:1443).
MemoryIsActive ==
  (host = "up" /\ ~BetweenCommitAndPublish) => \A c \in refs : live[c].version = active[c]

\* No stored text contains the secret a credential is used with, when the text
\* was scrubbed outside the moment between an activation's commit and its copy
\* in memory: an activation sweeps the texts there are, and what was scrubbed
\* under an older revision is not stored (credential_publication.rs:311, companion.rs:229).
StoredIsClean ==
  \A t \in stored, c \in refs : t.raced \/ items[active[c]] \notin t.text

\* What holds of the versions of a credential and of the texts they are scrubbed from.
CredentialsSafe ==
  /\ TypeOK /\ OneWinner /\ ActiveItemKept
  /\ RetiredIsAccountedFor /\ MemoryIsActive /\ StoredIsClean

=============================================================================
