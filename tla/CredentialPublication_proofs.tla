--------------------- MODULE CredentialPublication_proofs ---------------------
(***************************************************************************)
(* Proofs about CredentialPublication: one winner per revision of the      *)
(* credential set, and what holds of the versions of a credential, of the  *)
(* copies in memory and of the texts stored, however publications, texts,  *)
(* crashes and refusals of the operating system's store interleave.        *)
(***************************************************************************)
EXTENDS CredentialPublication, TLAPS

(* The types, in the form in which a step preserves them.                   *)
Phases == {None, "Prepared", "Staged", "Activated", "CleanupPending", "Completed",
           "Abandoned"}
CallPcs == {"idle", "revision", "begin", "put", "inspect", "stage", "previous",
            "bearer", "lock", "commit", "publish", "remove", "forget"}
RowSet == [cred : Credentials \cup {None}, expected : Nat, phase : Phases,
           outcome : {None, "Activated", "Stale"}]
RetiredSet == [cred : Credentials, version : Mutations, by : Mutations]
CallSet == [pc : CallPcs, mut : Mutations \cup {None}, cred : Credentials \cup {None},
            secret : Secrets \cup {None}, seen : Nat, old : Mutations \cup {None},
            bearer : Secrets \cup {None}, gone : SUBSET RetiredSet]
WriterSet == [pc : {"idle", "references", "redact", "check", "store"},
              text : SUBSET Secrets, seen : Nat, known : SUBSET Credentials,
              raced : BOOLEAN]
Copies == [version : Mutations, secret : Secrets] \cup {NoCopy}

Types ==
  /\ row \in [Mutations -> RowSet]
  /\ active \in [Credentials -> Mutations \cup {None}]
  /\ retired \subseteq RetiredSet
  /\ refs \subseteq Credentials /\ rev \in Nat
  /\ stored \subseteq [text : SUBSET Secrets, raced : BOOLEAN]
  /\ items \in [Mutations -> Secrets \cup {None}]
  /\ live \in [Credentials -> Copies]
  /\ lock \in Callers \cup {None}
  /\ host \in {"down", "sweep", "retire", "up"}
  /\ call \in [Callers -> CallSet]
  /\ writer \in [Writers -> WriterSet]
  /\ count \in Counts

(* A row's outcome follows its phase; an activation was drawn up under a    *)
(* revision that is over, and no two under the same one.                    *)
RowShape(m) ==
  /\ row[m].expected <= rev
  /\ row[m].outcome = IF row[m].phase \in {"Activated", "CleanupPending", "Completed"}
                      THEN "Activated"
                      ELSE IF row[m].phase = "Abandoned" THEN "Stale" ELSE None
  /\ WasActive(m) => row[m].expected < rev

(* What a publication relies on between its calls: its row is its own and   *)
(* undecided until it commits, the item it read back is still there, and    *)
(* the lock is held from the commit to the copy.                            *)
Reading == {"put", "inspect", "stage"}
Drawn == {"previous", "bearer", "lock", "commit"}
Published == {"stage", "previous", "bearer", "lock", "commit", "publish"}
Owning == Reading \cup Drawn \cup {"publish"}

CallShape(p) ==
  /\ call[p].pc # "idle" =>
       call[p].mut \in Mutations /\ call[p].cred \in Credentials /\ call[p].secret \in Secrets
  /\ call[p].seen <= rev
  /\ call[p].pc \in Reading => row[call[p].mut].phase = "Prepared"
  /\ call[p].pc \in Drawn => row[call[p].mut].phase = "Staged"
  /\ call[p].pc \in Owning => row[call[p].mut].cred = call[p].cred
  /\ call[p].pc \in Published => items[call[p].mut] = call[p].secret
  /\ call[p].pc = "bearer" => call[p].old # None
  /\ call[p].pc = "publish" => active[call[p].cred] = call[p].mut
  /\ call[p].pc \in {"commit", "publish"} <=> lock = p
  /\ call[p].pc = "forget" =>
       \A r \in call[p].gone : WasActive(r.version) /\ items[r.version] = None

(* No two publications carry the same mutation.                             *)
Apart == \A p, q \in Callers :
  call[p].pc \in Owning /\ call[q].pc \in Owning /\ call[p].mut = call[q].mut => p = q

(* Active versions are kept, displaced ones are listed until their item is  *)
(* gone.                                                                    *)
Kept ==
  /\ \A c \in Credentials : active[c] # None =>
       /\ WasActive(active[c]) /\ row[active[c]].cred = c
       /\ items[active[c]] # None
       /\ \A r \in retired : r.version # active[c]
  /\ \A r \in retired : WasActive(r.version)
  /\ \A c \in refs : active[c] # None

Listed ==
  /\ \A v \in Mutations :
       WasActive(v) =>
         \/ \E c \in Credentials : active[c] = v
         \/ \E r \in retired : r.version = v
         \/ items[v] = None
  /\ \A m \in Mutations : row[m].phase = "CleanupPending" <=> \E r \in retired : r.by = m

(* The copy of a reference in memory is its active version, but between an  *)
(* activation and its copy; nothing but the startup runs before the host is *)
(* up.                                                                      *)
Copied ==
  /\ host # "up" => /\ \A p \in Callers : call[p] = NoCall
                    /\ \A w \in Writers : writer[w] = NoText
  /\ host \in {"up", "retire"} => \A c \in refs :
       \/ live[c].version = active[c]
       \/ \E p \in Callers : call[p].pc = "publish" /\ call[p].cred = c
  /\ host = "sweep" => \A c \in Credentials : live[c].version \in {None, active[c]}
  /\ \A c \in Credentials :
       /\ live[c].version # None => WasActive(live[c].version)
       /\ live[c].version # None /\ live[c].version = active[c] =>
            live[c].secret = items[active[c]]

(* A text whose revision is still the current one was scrubbed of the       *)
(* secrets that are active.                                                 *)
Scrubbing(w) ==
  /\ writer[w].seen <= rev
  /\ writer[w].pc \in {"redact", "check", "store"} /\ writer[w].seen = rev => writer[w].known = refs
  /\ writer[w].pc \in {"check", "store"} /\ writer[w].seen = rev /\ ~writer[w].raced =>
       \A c \in refs : items[active[c]] \notin writer[w].text

(* The inductive invariant.                                                 *)
CredInv ==
  /\ Types
  /\ \A m \in Mutations : RowShape(m)
  /\ OneWinner
  /\ \A p \in Callers : CallShape(p)
  /\ Apart
  /\ Kept
  /\ Listed
  /\ Copied
  /\ \A w \in Writers : Scrubbing(w)
  /\ StoredIsClean

-----------------------------------------------------------------------------
(* What a publication has when it commits.                                  *)
LEMMA CommitShape ==
    ASSUME CredentialPublicationAssumption, CredInv,
           NEW p \in Callers, At(p, "commit")
    PROVE  /\ call[p].mut \in Mutations /\ call[p].cred \in Credentials
           /\ call[p].secret \in Secrets
           /\ row[call[p].mut].phase = "Staged" /\ row[call[p].mut].cred = call[p].cred
           /\ items[call[p].mut] = call[p].secret
           /\ ~WasActive(call[p].mut)
<1>1. CallShape(p) /\ \A m \in Mutations : RowShape(m)
  BY DEF CredInv
<1>2. call[p].mut \in Mutations /\ row[call[p].mut].phase = "Staged"
  BY <1>1 DEF At, CallShape, Drawn
<1>3. ~WasActive(call[p].mut)
  BY <1>1, <1>2 DEF RowShape, WasActive, CredentialPublicationAssumption
<1> QED
  BY <1>1, <1>2, <1>3 DEF At, CallShape, Drawn, Owning, Published

-----------------------------------------------------------------------------
(* A step keeps the types, one variable at a time.                           *)
(* Going on to another call keeps the types of the calls.                   *)
LEMMA GotoTyped ==
    ASSUME NEW p \in Callers, NEW pc \in CallPcs, call \in [Callers -> CallSet], Goto(p, pc)
    PROVE  call' \in [Callers -> CallSet]
<1>1. [call[p] EXCEPT !.pc = pc] \in CallSet
  BY DEF CallSet
<1> QED
  BY <1>1 DEF Goto

LEMMA CallsTyped ==
    ASSUME CredInv, [Next]_vars
    PROVE  call' \in [Callers -> CallSet]
<1>0. /\ call \in [Callers -> CallSet] /\ rev \in Nat /\ retired \subseteq RetiredSet
      /\ active \in [Credentials -> Mutations \cup {None}]
      /\ items \in [Mutations -> Secrets \cup {None}]
  BY DEF CredInv, Types
<1>1. CASE UNCHANGED call
  BY <1>1, <1>0
     DEF CallSet, CallPcs, NoCall
<1>2. ASSUME NEW p \in Callers, Publication(p)
      PROVE  call' \in [Callers -> CallSet]
  <2>1. ASSUME NEW m \in Mutations, NEW c \in Credentials, NEW s \in Secrets, Ask(p, m, c, s)
        PROVE  call' \in [Callers -> CallSet]
    BY <2>1, <1>0
       DEF Ask, At, CallSet, CallPcs, NoCall
  <2>2. CASE ReadRevision(p)
    <3>0. call[p] \in CallSet
      BY <1>0
    <3>1. [call[p] EXCEPT !.pc = "begin", !.seen = rev] \in CallSet
      BY <3>0, <1>0 DEF CallSet, CallPcs
    <3>2. call' = [call EXCEPT ![p] = [call[p] EXCEPT !.pc = "begin", !.seen = rev]]
      BY <2>2, <1>0 DEF ReadRevision
    <3> QED
      BY <1>0, <3>1, <3>2
  <2>3. CASE Begin(p)
    BY <2>3, <1>0
       DEF Begin, Leave, Goto, At, CallSet, CallPcs, NoCall
  <2>4. CASE Put(p)
    BY <2>4, <1>0
       DEF Put, Goto, Answers, At, CallSet, CallPcs, NoCall
  <2>5. CASE Inspect(p)
    BY <2>5, <1>0
       DEF Inspect, Goto, Leave, Answers, At, CallSet, CallPcs, NoCall
  <2>6. CASE MarkStaged(p)
    BY <2>6, <1>0
       DEF MarkStaged, Goto, Leave, At, CallSet, CallPcs, NoCall
  <2>7. CASE ReadPrevious(p)
    BY <2>7, <1>0
       DEF ReadPrevious, At, CallSet, CallPcs, NoCall
  <2>8. CASE ReadBearer(p)
    BY <2>8, <1>0
       DEF ReadBearer, Leave, Answers, At, CallSet, CallPcs, NoCall
  <2>9. CASE TakeLock(p)
    <3>1. Goto(p, "commit")
      BY <2>9 DEF TakeLock
    <3> QED
      BY <3>1, <1>0, GotoTyped DEF CallPcs
  <2>10. CASE Commit(p)
    <3>1. Goto(p, "publish") \/ Leave(p)
      BY <2>10 DEF Commit, Activate, Abandon
    <3>2. CASE Goto(p, "publish")
      BY <3>2, <1>0, GotoTyped DEF CallPcs
    <3>3. CASE Leave(p)
      BY <3>3, <1>0 DEF Leave, CallSet, CallPcs, NoCall
    <3> QED
      BY <3>1, <3>2, <3>3
  <2>11. CASE Publish(p)
    BY <2>11, <1>0
       DEF Publish, Goto, At, CallSet, CallPcs, NoCall
  <2>12. CASE RemoveRetired(p)
    <3>0. call[p] \in CallSet
      BY <1>0
    <3>1. PICK ok \in SUBSET retired : call' = [call EXCEPT ![p].pc = "forget", ![p].gone = ok]
      BY <2>12 DEF RemoveRetired
    <3>2. ok \in SUBSET RetiredSet
      BY <1>0
    <3>3. [call[p] EXCEPT !.pc = "forget", !.gone = ok] \in CallSet
      BY <3>0, <3>2 DEF CallSet, CallPcs
    <3>4. call' = [call EXCEPT ![p] = [call[p] EXCEPT !.pc = "forget", !.gone = ok]]
      BY <3>1, <1>0
    <3> QED
      BY <1>0, <3>3, <3>4
  <2>13. CASE ForgetRetired(p)
    BY <2>13, <1>0
       DEF ForgetRetired, Forget, Leave, At, CallSet, CallPcs, NoCall
  <2> QED
    BY <1>2, <2>1, <2>2, <2>3, <2>4, <2>5, <2>6, <2>7, <2>8, <2>9, <2>10, <2>11,
       <2>12, <2>13
       DEF Publication
<1>3. ASSUME NEW w \in Writers, Writing(w) PROVE call' \in [Callers -> CallSet]
  BY <1>3, <1>1
     DEF Writing, Write, ReadReferences, Redact, Check, Store
<1>4. CASE Crash
  BY <1>4, <1>0
     DEF Crash, Stop, CallSet, CallPcs, NoCall
<1>5. CASE SweepRegistered
  BY <1>5, <1>0
     DEF SweepRegistered, Stop, Swept, Readable, Bearers, CallSet, CallPcs, NoCall
<1> QED
  BY <1>1, <1>2, <1>3, <1>4, <1>5
     DEF Next, Startup, vars, Send, Claim, EraseReference, Reconcile, SweepRetired,
         Forget, Removed

LEMMA RowsTyped ==
    ASSUME CredentialPublicationAssumption, CredInv, [Next]_vars
    PROVE  row' \in [Mutations -> RowSet]
<1>0. row \in [Mutations -> RowSet] /\ call \in [Callers -> CallSet]
  BY DEF CredInv, Types
<1>1. CASE UNCHANGED row
  BY <1>1, <1>0
     DEF RowSet, Phases, NoRow, CallSet
<1>2. ASSUME NEW p \in Callers, Publication(p)
      PROVE  row' \in [Mutations -> RowSet]
  <2>1. CASE Begin(p)
    BY <2>1, <1>0
       DEF Begin, Leave, Goto, At, RowSet, Phases, NoRow, CallSet
  <2>2. CASE MarkStaged(p)
    BY <2>2, <1>0
       DEF MarkStaged, Goto, Leave, At, RowSet, Phases, NoRow, CallSet
  <2>3. CASE Commit(p)
    <3> DEFINE m == call[p].mut
    <3>1. m \in Mutations /\ row[m] \in RowSet
      BY <2>3, <1>0, CommitShape DEF Commit
    <3>2. CASE Activate(p)
      <4>1. PICK x \in {"Activated", "CleanupPending"} :
              row' = [row EXCEPT ![m].outcome = "Activated", ![m].phase = x]
        BY <3>2 DEF Activate
      <4>2. [row[m] EXCEPT !.outcome = "Activated", !.phase = x] \in RowSet
        BY <3>1 DEF RowSet, Phases
      <4>3. row' = [row EXCEPT ![m] = [row[m] EXCEPT !.outcome = "Activated", !.phase = x]]
        BY <4>1, <3>1, <1>0
      <4> QED
        BY <4>2, <4>3, <1>0
    <3>3. CASE Abandon(p)
      <4>1. [row[m] EXCEPT !.phase = "Abandoned", !.outcome = "Stale"] \in RowSet
        BY <3>1 DEF RowSet, Phases
      <4>2. row' = [row EXCEPT ![m] = [row[m] EXCEPT !.phase = "Abandoned", !.outcome = "Stale"]]
        BY <3>3, <3>1, <1>0 DEF Abandon
      <4> QED
        BY <4>1, <4>2, <1>0
    <3> QED
      BY <2>3, <3>2, <3>3 DEF Commit
  <2>4. CASE ForgetRetired(p)
    BY <2>4, <1>0
       DEF ForgetRetired, Forget, Leave, At, RowSet, Phases, NoRow, CallSet
  <2>5. CASE \/ (\E m \in Mutations, c \in Credentials, s \in Secrets : Ask(p, m, c, s))
             \/ ReadRevision(p) \/ Put(p) \/ Inspect(p) \/ ReadPrevious(p)
             \/ ReadBearer(p) \/ TakeLock(p) \/ Publish(p)
             \/ RemoveRetired(p)
    BY <2>5, <1>1
       DEF Ask, ReadRevision, Put, Inspect, ReadPrevious, ReadBearer, TakeLock,
           Publish, RemoveRetired, Removed
  <2> QED
    BY <1>2, <2>1, <2>2, <2>3, <2>4, <2>5
       DEF Publication
<1>3. ASSUME NEW w \in Writers, Writing(w) PROVE row' \in [Mutations -> RowSet]
  BY <1>3, <1>1
     DEF Writing, Write, ReadReferences, Redact, Check, Store
<1>4. CASE SweepRetired
  BY <1>4, <1>0
     DEF SweepRetired, Removed, Answers, Forget, RowSet, Phases, NoRow, CallSet
<1> QED
  BY <1>1, <1>2, <1>3, <1>4
     DEF Next, Startup, vars, Send, Claim, EraseReference, Crash, Reconcile,
         SweepRegistered, Stop

LEMMA CountTyped ==
    ASSUME CredentialPublicationAssumption, CredInv, [Next]_vars
    PROVE  count' \in Counts
<1>0. count \in Counts /\ {MaxTexts, MaxCrashes, MaxErasures, MaxLocked} \subseteq Nat
  BY DEF CredInv, Types, CredentialPublicationAssumption
<1>1. CASE UNCHANGED count
  BY <1>1, <1>0
     DEF Counts
<1>2. ASSUME NEW p \in Callers, Publication(p)
      PROVE  count' \in Counts
  <2>1. CASE Put(p)
    BY <2>1, <1>0
       DEF Put, Goto, Answers, At, Counts
  <2>2. CASE Inspect(p)
    BY <2>2, <1>0
       DEF Inspect, Goto, Leave, Answers, At, Counts
  <2>3. CASE ReadBearer(p)
    BY <2>3, <1>0
       DEF ReadBearer, Leave, Answers, At, Counts
  <2>4. CASE RemoveRetired(p)
    BY <2>4, <1>0
       DEF RemoveRetired, Removed, Answers, At, Counts
  <2>5. CASE \/ (\E m \in Mutations, c \in Credentials, s \in Secrets : Ask(p, m, c, s))
             \/ ReadRevision(p) \/ Begin(p) \/ MarkStaged(p)
             \/ ReadPrevious(p) \/ TakeLock(p) \/ Commit(p) \/ Publish(p)
             \/ ForgetRetired(p)
    BY <2>5, <1>1
       DEF Ask, ReadRevision, Begin, MarkStaged, ReadPrevious, TakeLock, Commit,
           Publish, ForgetRetired, Activate, Abandon, Forget
  <2> QED
    BY <1>2, <2>1, <2>2, <2>3, <2>4, <2>5
       DEF Publication
<1>3. ASSUME NEW w \in Writers, Writing(w)
      PROVE  count' \in Counts
  <2>1. ASSUME NEW text \in SUBSET Secrets, Write(w, text)
        PROVE  count' \in Counts
    BY <2>1, <1>0
       DEF Write, Writes, Counts
  <2>2. CASE ReadReferences(w) \/ Redact(w) \/ Check(w) \/ Store(w)
    BY <2>2, <1>1
       DEF ReadReferences, Redact, Check, Store
  <2> QED
    BY <1>3, <2>1, <2>2
       DEF Writing
<1>4. ASSUME NEW c \in Credentials, EraseReference(c)
      PROVE  count' \in Counts
  BY <1>4, <1>0
     DEF EraseReference, Counts
<1>5. CASE Crash
  BY <1>5, <1>0
     DEF Crash, Stop, Counts
<1>6. CASE Reconcile
  BY <1>6, <1>0
     DEF Reconcile, Answers, Counts
<1>7. CASE SweepRetired
  BY <1>7, <1>0
     DEF SweepRetired, Removed, Answers, Forget, Counts
<1> QED
  BY <1>1, <1>2, <1>3, <1>4, <1>5, <1>6, <1>7
     DEF Next, Startup, vars, Send, Claim, SweepRegistered, Stop

LEMMA WritersTyped ==
    ASSUME CredInv, [Next]_vars
    PROVE  writer' \in [Writers -> WriterSet]
<1>0. writer \in [Writers -> WriterSet] /\ rev \in Nat /\ refs \subseteq Credentials
  BY DEF CredInv, Types
<1>1. CASE UNCHANGED writer
  BY <1>1, <1>0
     DEF WriterSet, NoText
<1>2. ASSUME NEW p \in Callers, Publication(p) PROVE writer' \in [Writers -> WriterSet]
  BY <1>2, <1>1
     DEF Publication, Ask, ReadRevision, Begin, Put, Inspect, MarkStaged,
         ReadPrevious, ReadBearer, TakeLock, Commit, Publish, RemoveRetired,
         ForgetRetired, Activate, Abandon, Removed, Forget
<1>3. ASSUME NEW w \in Writers, Writing(w)
      PROVE  writer' \in [Writers -> WriterSet]
  <2>1. ASSUME NEW text \in SUBSET Secrets, Write(w, text)
        PROVE  writer' \in [Writers -> WriterSet]
    BY <2>1, <1>0
       DEF Write, Writes, WriterSet, NoText
  <2>2. CASE ReadReferences(w)
    <3>0. writer[w] \in WriterSet
      BY <1>0
    <3>1. [writer[w] EXCEPT !.pc = "redact", !.known = refs] \in WriterSet
      BY <3>0, <1>0 DEF WriterSet
    <3>2. writer' = [writer EXCEPT ![w] = [writer[w] EXCEPT !.pc = "redact", !.known = refs]]
      BY <2>2, <1>0 DEF ReadReferences
    <3> QED
      BY <1>0, <3>1, <3>2
  <2>3. CASE Redact(w)
    <3>0. writer[w] \in WriterSet
      BY <1>0
    <3>1. [writer[w] EXCEPT !.pc = "check", !.text = writer[w].text \ Bearers(writer[w].known),
                            !.raced = BetweenCommitAndPublish] \in WriterSet
      BY <3>0 DEF WriterSet, BetweenCommitAndPublish
    <3>2. NoText \in WriterSet
      <4>1. 0 \in Nat
        OBVIOUS
      <4> QED
        BY <4>1, Zenon DEF WriterSet, NoText
    <3>3. PICK x \in WriterSet : writer' = [writer EXCEPT ![w] = x]
      <4>1. CASE Readable(writer[w].known)
        BY <4>1, <2>3, <3>1 DEF Redact
      <4>2. CASE ~Readable(writer[w].known)
        BY <4>2, <2>3, <3>2, Zenon DEF Redact
      <4> QED
        BY <4>1, <4>2
    <3> QED
      BY <1>0, <3>3
  <2>4. CASE Check(w)
    BY <2>4, <1>0
       DEF Check, Readable, Bearers, Writes, WriterSet, NoText
  <2>5. CASE Store(w)
    BY <2>5, <1>0
       DEF Store, Writes, WriterSet, NoText
  <2> QED
    BY <1>3, <2>1, <2>2, <2>3, <2>4, <2>5
       DEF Writing
<1>4. CASE Crash
  BY <1>4, <1>0
     DEF Crash, Stop, WriterSet, NoText
<1>5. CASE SweepRegistered
  <2>1. writer' = writer \/ writer' = [w \in Writers |-> NoText]
    BY <1>5 DEF SweepRegistered, Stop
  <2>2. NoText \in WriterSet
    <3>1. 0 \in Nat
      OBVIOUS
    <3> QED
      BY <3>1, Zenon DEF WriterSet, NoText
  <2> QED
    BY <1>0, <2>1, <2>2
<1> QED
  BY <1>1, <1>2, <1>3, <1>4, <1>5
     DEF Next, Startup, vars, Send, Claim, EraseReference, Reconcile, SweepRetired,
         Forget, Removed

LEMMA ActiveTyped ==
    ASSUME CredInv, [Next]_vars
    PROVE  active' \in [Credentials -> Mutations \cup {None}]
<1>0. active \in [Credentials -> Mutations \cup {None}] /\ call \in [Callers -> CallSet]
  BY DEF CredInv, Types
<1>1. CASE UNCHANGED active
  BY <1>1, <1>0
     DEF CallSet
<1>2. ASSUME NEW p \in Callers, Publication(p)
      PROVE  active' \in [Credentials -> Mutations \cup {None}]
  <2>1. CASE Commit(p)
    BY <2>1, <1>0
       DEF Commit, Activate, Abandon, Goto, Leave, Swept, Retirees, PremiseHolds,
           Exposed, At, CallSet
  <2>2. CASE \/ (\E m \in Mutations, c \in Credentials, s \in Secrets : Ask(p, m, c, s))
             \/ ReadRevision(p) \/ Begin(p) \/ Put(p) \/ Inspect(p)
             \/ MarkStaged(p) \/ ReadPrevious(p) \/ ReadBearer(p)
             \/ TakeLock(p) \/ Publish(p) \/ RemoveRetired(p)
             \/ ForgetRetired(p)
    BY <2>2, <1>1
       DEF Ask, ReadRevision, Begin, Put, Inspect, MarkStaged, ReadPrevious,
           ReadBearer, TakeLock, Publish, RemoveRetired, ForgetRetired, Removed,
           Forget
  <2> QED
    BY <1>2, <2>1, <2>2
       DEF Publication
<1>3. ASSUME NEW w \in Writers, Writing(w) PROVE active' \in [Credentials -> Mutations \cup {None}]
  BY <1>3, <1>1
     DEF Writing, Write, ReadReferences, Redact, Check, Store
<1> QED
  BY <1>1, <1>2, <1>3
     DEF Next, Startup, vars, Send, Claim, EraseReference, Crash, Reconcile,
         SweepRegistered, SweepRetired, Stop, Forget, Removed

LEMMA RetiredTyped ==
    ASSUME CredInv, [Next]_vars
    PROVE  retired' \subseteq RetiredSet
<1>0. /\ retired \subseteq RetiredSet /\ call \in [Callers -> CallSet]
      /\ \A p \in Callers : call[p].pc = "commit" =>
           call[p].cred \in Credentials /\ call[p].mut \in Mutations
  BY DEF CredInv, Types, CallShape
<1>1. CASE UNCHANGED retired
  BY <1>1, <1>0
     DEF CallSet, RetiredSet
<1>2. ASSUME NEW p \in Callers, Publication(p)
      PROVE  retired' \subseteq RetiredSet
  <2>1. CASE Commit(p)
    BY <2>1, <1>0
       DEF Commit, Activate, Abandon, Goto, Leave, Swept, Retirees, PremiseHolds,
           Exposed, At, CallSet, RetiredSet
  <2>2. CASE ForgetRetired(p)
    BY <2>2, <1>0
       DEF ForgetRetired, Forget, Leave, At, CallSet, RetiredSet
  <2>3. CASE \/ (\E m \in Mutations, c \in Credentials, s \in Secrets : Ask(p, m, c, s))
             \/ ReadRevision(p) \/ Begin(p) \/ Put(p) \/ Inspect(p)
             \/ MarkStaged(p) \/ ReadPrevious(p) \/ ReadBearer(p)
             \/ TakeLock(p) \/ Publish(p) \/ RemoveRetired(p)
    BY <2>3, <1>1
       DEF Ask, ReadRevision, Begin, Put, Inspect, MarkStaged, ReadPrevious,
           ReadBearer, TakeLock, Publish, RemoveRetired, Removed
  <2> QED
    BY <1>2, <2>1, <2>2, <2>3
       DEF Publication
<1>3. ASSUME NEW w \in Writers, Writing(w) PROVE retired' \subseteq RetiredSet
  BY <1>3, <1>1
     DEF Writing, Write, ReadReferences, Redact, Check, Store
<1>4. CASE SweepRetired
  BY <1>4, <1>0
     DEF SweepRetired, Removed, Answers, Forget, CallSet, RetiredSet
<1> QED
  BY <1>1, <1>2, <1>3, <1>4
     DEF Next, Startup, vars, Send, Claim, EraseReference, Crash, Reconcile,
         SweepRegistered, Stop

LEMMA RefsTyped ==
    ASSUME CredInv, [Next]_vars
    PROVE  refs' \subseteq Credentials /\ rev' \in Nat
<1>0. /\ refs \subseteq Credentials /\ rev \in Nat
      /\ \A p \in Callers : call[p].pc = "commit" => call[p].cred \in Credentials
  BY DEF CredInv, Types, CallShape
<1>1. CASE UNCHANGED <<refs, rev>>
  BY <1>1, <1>0
<1>2. ASSUME NEW p \in Callers, Publication(p)
      PROVE  refs' \subseteq Credentials /\ rev' \in Nat
  <2>1. CASE Commit(p)
    BY <2>1, <1>0
       DEF Commit, Activate, Abandon, Goto, Leave, Swept, Retirees, PremiseHolds,
           Exposed, At
  <2>2. CASE \/ (\E m \in Mutations, c \in Credentials, s \in Secrets : Ask(p, m, c, s))
             \/ ReadRevision(p) \/ Begin(p) \/ Put(p) \/ Inspect(p)
             \/ MarkStaged(p) \/ ReadPrevious(p) \/ ReadBearer(p)
             \/ TakeLock(p) \/ Publish(p) \/ RemoveRetired(p)
             \/ ForgetRetired(p)
    BY <2>2, <1>1
       DEF Ask, ReadRevision, Begin, Put, Inspect, MarkStaged, ReadPrevious,
           ReadBearer, TakeLock, Publish, RemoveRetired, ForgetRetired, Removed,
           Forget
  <2> QED
    BY <1>2, <2>1, <2>2
       DEF Publication
<1>3. ASSUME NEW w \in Writers, Writing(w) PROVE refs' \subseteq Credentials /\ rev' \in Nat
  BY <1>3, <1>1
     DEF Writing, Write, ReadReferences, Redact, Check, Store
<1>4. ASSUME NEW c \in Credentials, EraseReference(c)
      PROVE  refs' \subseteq Credentials /\ rev' \in Nat
  BY <1>4, <1>0
     DEF EraseReference
<1>5. CASE SweepRegistered
  BY <1>5, <1>0
     DEF SweepRegistered, Stop, Swept, Readable, Bearers
<1> QED
  BY <1>1, <1>2, <1>3, <1>4, <1>5
     DEF Next, Startup, vars, Send, Claim, Crash, Reconcile, SweepRetired, Stop,
         Forget, Removed

LEMMA ItemsTyped ==
    ASSUME CredInv, [Next]_vars
    PROVE  items' \in [Mutations -> Secrets \cup {None}]
<1>0. items \in [Mutations -> Secrets \cup {None}] /\ call \in [Callers -> CallSet]
  BY DEF CredInv, Types
<1>1. CASE UNCHANGED items
  BY <1>1, <1>0
     DEF CallSet
<1>2. ASSUME NEW p \in Callers, Publication(p)
      PROVE  items' \in [Mutations -> Secrets \cup {None}]
  <2>1. CASE Put(p)
    BY <2>1, <1>0
       DEF Put, Goto, Answers, At, CallSet
  <2>2. CASE RemoveRetired(p)
    BY <2>2, <1>0
       DEF RemoveRetired, Removed, Answers, At, CallSet
  <2>3. CASE \/ (\E m \in Mutations, c \in Credentials, s \in Secrets : Ask(p, m, c, s))
             \/ ReadRevision(p) \/ Begin(p) \/ Inspect(p) \/ MarkStaged(p)
             \/ ReadPrevious(p) \/ ReadBearer(p) \/ TakeLock(p) \/ Commit(p)
             \/ Publish(p) \/ ForgetRetired(p)
    BY <2>3, <1>1
       DEF Ask, ReadRevision, Begin, Inspect, MarkStaged, ReadPrevious, ReadBearer,
           TakeLock, Commit, Publish, ForgetRetired, Activate, Abandon, Forget
  <2> QED
    BY <1>2, <2>1, <2>2, <2>3
       DEF Publication
<1>3. ASSUME NEW w \in Writers, Writing(w) PROVE items' \in [Mutations -> Secrets \cup {None}]
  BY <1>3, <1>1
     DEF Writing, Write, ReadReferences, Redact, Check, Store
<1>4. CASE SweepRetired
  BY <1>4, <1>0
     DEF SweepRetired, Removed, Answers, Forget, CallSet
<1> QED
  BY <1>1, <1>2, <1>3, <1>4
     DEF Next, Startup, vars, Send, Claim, EraseReference, Crash, Reconcile,
         SweepRegistered, Stop

LEMMA StoredTyped ==
    ASSUME CredInv, [Next]_vars
    PROVE  stored' \subseteq [text : SUBSET Secrets, raced : BOOLEAN]
<1>0. stored \subseteq [text : SUBSET Secrets, raced : BOOLEAN] /\ writer \in [Writers -> WriterSet]
  BY DEF CredInv, Types
<1>1. CASE UNCHANGED stored
  BY <1>1, <1>0
     DEF WriterSet, Swept
<1>2. ASSUME NEW p \in Callers, Publication(p)
      PROVE  stored' \subseteq [text : SUBSET Secrets, raced : BOOLEAN]
  <2>1. CASE Commit(p)
    BY <2>1, <1>0
       DEF Commit, Activate, Abandon, Goto, Leave, Swept, Retirees, PremiseHolds,
           Exposed, At, WriterSet
  <2>2. CASE \/ (\E m \in Mutations, c \in Credentials, s \in Secrets : Ask(p, m, c, s))
             \/ ReadRevision(p) \/ Begin(p) \/ Put(p) \/ Inspect(p)
             \/ MarkStaged(p) \/ ReadPrevious(p) \/ ReadBearer(p)
             \/ TakeLock(p) \/ Publish(p) \/ RemoveRetired(p)
             \/ ForgetRetired(p)
    BY <2>2, <1>1
       DEF Ask, ReadRevision, Begin, Put, Inspect, MarkStaged, ReadPrevious,
           ReadBearer, TakeLock, Publish, RemoveRetired, ForgetRetired, Removed,
           Forget
  <2> QED
    BY <1>2, <2>1, <2>2
       DEF Publication
<1>3. ASSUME NEW w \in Writers, Writing(w)
      PROVE  stored' \subseteq [text : SUBSET Secrets, raced : BOOLEAN]
  <2>1. CASE Store(w)
    BY <2>1, <1>0
       DEF Store, Writes, WriterSet, Swept
  <2>2. CASE \/ (\E text \in SUBSET Secrets : Write(w, text))
             \/ ReadReferences(w) \/ Redact(w) \/ Check(w)
    BY <2>2, <1>1
       DEF Write, ReadReferences, Redact, Check
  <2> QED
    BY <1>3, <2>1, <2>2
       DEF Writing
<1>4. CASE SweepRegistered
  BY <1>4, <1>0
     DEF SweepRegistered, Stop, Swept, Readable, Bearers, WriterSet
<1> QED
  BY <1>1, <1>2, <1>3, <1>4
     DEF Next, Startup, vars, Send, Claim, EraseReference, Crash, Reconcile,
         SweepRetired, Stop, Forget, Removed

LEMMA LiveTyped ==
    ASSUME CredInv, [Next]_vars
    PROVE  live' \in [Credentials -> Copies]
<1>0. /\ live \in [Credentials -> Copies] /\ items \in [Mutations -> Secrets \cup {None}]
      /\ active \in [Credentials -> Mutations \cup {None}]
      /\ \A p \in Callers : call[p].pc = "publish" =>
           call[p].mut \in Mutations /\ call[p].secret \in Secrets
  BY DEF CredInv, Types, CallShape
<1>1. CASE UNCHANGED live
  BY <1>1, <1>0
     DEF Copies, NoCopy
<1>2. ASSUME NEW p \in Callers, Publication(p)
      PROVE  live' \in [Credentials -> Copies]
  <2>1. CASE Publish(p)
    BY <2>1, <1>0
       DEF Publish, Goto, At, Copies, NoCopy
  <2>2. CASE \/ (\E m \in Mutations, c \in Credentials, s \in Secrets : Ask(p, m, c, s))
             \/ ReadRevision(p) \/ Begin(p) \/ Put(p) \/ Inspect(p)
             \/ MarkStaged(p) \/ ReadPrevious(p) \/ ReadBearer(p)
             \/ TakeLock(p) \/ Commit(p) \/ RemoveRetired(p)
             \/ ForgetRetired(p)
    BY <2>2, <1>1
       DEF Ask, ReadRevision, Begin, Put, Inspect, MarkStaged, ReadPrevious,
           ReadBearer, TakeLock, Commit, RemoveRetired, ForgetRetired, Activate,
           Abandon, Removed, Forget
  <2> QED
    BY <1>2, <2>1, <2>2
       DEF Publication
<1>3. ASSUME NEW w \in Writers, Writing(w) PROVE live' \in [Credentials -> Copies]
  BY <1>3, <1>1
     DEF Writing, Write, ReadReferences, Redact, Check, Store
<1>4. CASE Crash
  BY <1>4, <1>0
     DEF Crash, Stop, Copies, NoCopy
<1>5. CASE Reconcile
  BY <1>5, <1>0
     DEF Reconcile, Answers, Copies, NoCopy
<1>6. CASE SweepRegistered
  BY <1>6, <1>0
     DEF SweepRegistered, Stop, Swept, Readable, Bearers, Copies, NoCopy
<1> QED
  BY <1>1, <1>2, <1>3, <1>4, <1>5, <1>6
     DEF Next, Startup, vars, Send, Claim, EraseReference, SweepRetired, Forget,
         Removed

LEMMA LockTyped ==
    ASSUME CredInv, [Next]_vars
    PROVE  lock' \in Callers \cup {None} /\ host' \in {"down", "sweep", "retire", "up"}
<1>0. lock \in Callers \cup {None} /\ host \in {"down", "sweep", "retire", "up"}
  BY DEF CredInv, Types
<1>1. CASE UNCHANGED <<lock, host>>
  BY <1>1, <1>0
<1>2. ASSUME NEW p \in Callers, Publication(p)
      PROVE  lock' \in Callers \cup {None} /\ host' \in {"down", "sweep", "retire", "up"}
  <2>1. CASE TakeLock(p)
    BY <2>1, <1>0
       DEF TakeLock, Goto, At
  <2>2. CASE Commit(p)
    BY <2>2, <1>0
       DEF Commit, Activate, Abandon, Goto, Leave, Swept, Retirees, PremiseHolds,
           Exposed, At
  <2>3. CASE Publish(p)
    BY <2>3, <1>0
       DEF Publish, Goto, At
  <2>4. CASE \/ (\E m \in Mutations, c \in Credentials, s \in Secrets : Ask(p, m, c, s))
             \/ ReadRevision(p) \/ Begin(p) \/ Put(p) \/ Inspect(p)
             \/ MarkStaged(p) \/ ReadPrevious(p) \/ ReadBearer(p)
             \/ RemoveRetired(p) \/ ForgetRetired(p)
    BY <2>4, <1>1
       DEF Ask, ReadRevision, Begin, Put, Inspect, MarkStaged, ReadPrevious,
           ReadBearer, RemoveRetired, ForgetRetired, Removed, Forget
  <2> QED
    BY <1>2, <2>1, <2>2, <2>3, <2>4
       DEF Publication
<1>3. ASSUME NEW w \in Writers, Writing(w) PROVE lock' \in Callers \cup {None} /\ host' \in {"down", "sweep", "retire", "up"}
  BY <1>3, <1>1
     DEF Writing, Write, ReadReferences, Redact, Check, Store
<1>4. CASE Crash
  BY <1>4, <1>0
     DEF Crash, Stop
<1>5. CASE Reconcile
  BY <1>5, <1>0
     DEF Reconcile, Answers
<1>6. CASE SweepRegistered
  BY <1>6, <1>0
     DEF SweepRegistered, Stop, Swept, Readable, Bearers
<1>7. CASE SweepRetired
  BY <1>7, <1>0
     DEF SweepRetired, Removed, Answers, Forget
<1> QED
  BY <1>1, <1>2, <1>3, <1>4, <1>5, <1>6, <1>7
     DEF Next, Startup, vars, Send, Claim, EraseReference

LEMMA TypesKept ==
    ASSUME CredentialPublicationAssumption, CredInv, [Next]_vars PROVE Types'
BY RowsTyped, CallsTyped, WritersTyped, CountTyped, ActiveTyped, RetiredTyped,
   RefsTyped, ItemsTyped, StoredTyped, LiveTyped, LockTyped
   DEF Types

-----------------------------------------------------------------------------
(* Rows.                                                                      *)
LEMMA RowShapeKept ==
    ASSUME CredentialPublicationAssumption, CredInv, [Next]_vars, NEW v \in Mutations
    PROVE  RowShape(v)'
<1>0. /\ row \in [Mutations -> RowSet] /\ row' \in [Mutations -> RowSet]
      /\ call \in [Callers -> CallSet] /\ rev \in Nat
      /\ \A p \in Callers : CallShape(p)
      /\ RowShape(v)
      /\ None \notin {"Prepared", "Staged", "Activated", "CleanupPending", "Completed",
                      "Abandoned", "Stale"}
  BY RowsTyped DEF CredInv, Types, CredentialPublicationAssumption
<1>1. CASE UNCHANGED <<row, rev>>
  BY <1>1, <1>0
     DEF RowShape, WasActive, CallShape, RowSet, Phases, CallSet, NoRow, Drawn,
         Reading, Owning
<1>2. ASSUME NEW p \in Callers, Publication(p)
      PROVE  RowShape(v)'
  <2>1. CASE Begin(p)
    BY <2>1, <1>0
       DEF Begin, Leave, Goto, At, RowShape, WasActive, CallShape, RowSet, Phases,
           CallSet, NoRow, Drawn, Reading, Owning
  <2>2. CASE MarkStaged(p)
    BY <2>2, <1>0
       DEF MarkStaged, Goto, Leave, At, RowShape, WasActive, CallShape, RowSet,
           Phases, CallSet, NoRow, Drawn, Reading, Owning
  <2>3. CASE Commit(p)
    BY <2>3, <1>0
       DEF Commit, Activate, Abandon, Goto, Leave, Swept, Retirees, PremiseHolds,
           Exposed, At, RowShape, WasActive, CallShape, RowSet, Phases, CallSet,
           NoRow, Drawn, Reading, Owning
  <2>4. CASE ForgetRetired(p)
    BY <2>4, <1>0
       DEF ForgetRetired, Forget, Leave, At, RowShape, WasActive, CallShape, RowSet,
           Phases, CallSet, NoRow, Drawn, Reading, Owning
  <2>5. CASE \/ (\E m \in Mutations, c \in Credentials, s \in Secrets : Ask(p, m, c, s))
             \/ ReadRevision(p) \/ Put(p) \/ Inspect(p) \/ ReadPrevious(p)
             \/ ReadBearer(p) \/ TakeLock(p) \/ Publish(p)
             \/ RemoveRetired(p)
    BY <2>5, <1>1
       DEF Ask, ReadRevision, Put, Inspect, ReadPrevious, ReadBearer, TakeLock,
           Publish, RemoveRetired, Removed
  <2> QED
    BY <1>2, <2>1, <2>2, <2>3, <2>4, <2>5
       DEF Publication
<1>3. ASSUME NEW w \in Writers, Writing(w) PROVE RowShape(v)'
  BY <1>3, <1>1
     DEF Writing, Write, ReadReferences, Redact, Check, Store
<1>4. ASSUME NEW c \in Credentials, EraseReference(c)
      PROVE  RowShape(v)'
  BY <1>4, <1>0
     DEF EraseReference, RowShape, WasActive, CallShape, RowSet, Phases, CallSet,
         NoRow, Drawn, Reading, Owning
<1>5. CASE SweepRegistered
  BY <1>5, <1>0
     DEF SweepRegistered, Stop, Swept, Readable, Bearers, RowShape, WasActive,
         CallShape, RowSet, Phases, CallSet, NoRow, Drawn, Reading, Owning
<1>6. CASE SweepRetired
  BY <1>6, <1>0
     DEF SweepRetired, Removed, Answers, Forget, RowShape, WasActive, CallShape,
         RowSet, Phases, CallSet, NoRow, Drawn, Reading, Owning
<1> QED
  BY <1>1, <1>2, <1>3, <1>4, <1>5, <1>6
     DEF Next, Startup, vars, Send, Claim, Crash, Reconcile, Stop

(* An activation is never undone.                                           *)
LEMMA ActiveForGood ==
    ASSUME CredentialPublicationAssumption, CredInv, [Next]_vars, NEW v \in Mutations, WasActive(v)
    PROVE  WasActive(v)'
<1>0. /\ Types
      /\ row' \in [Mutations -> RowSet]
      /\ \A p \in Callers : CallShape(p)
      /\ \A m \in Mutations : RowShape(m)
      /\ None \notin {"Prepared", "Staged", "Activated", "CleanupPending", "Completed",
                      "Abandoned", "Stale"}
  BY RowsTyped DEF CredInv, CredentialPublicationAssumption
<1>1. CASE UNCHANGED row
  BY <1>1, <1>0
     DEF RowShape, WasActive, CallShape, Types, RowSet, CallSet, NoRow, Drawn, Owning
<1>2. ASSUME NEW p \in Callers, Publication(p)
      PROVE  WasActive(v)'
  <2>1. CASE Begin(p)
    BY <2>1, <1>0
       DEF Begin, Leave, Goto, At, RowShape, WasActive, CallShape, Types, RowSet,
           CallSet, NoRow, Drawn, Owning
  <2>2. CASE MarkStaged(p)
    BY <2>2, <1>0
       DEF MarkStaged, Goto, Leave, At, RowShape, WasActive, CallShape, Types,
           RowSet, CallSet, NoRow, Drawn, Owning
  <2>3. CASE Commit(p)
    BY <2>3, <1>0
       DEF Commit, Activate, Abandon, Goto, Leave, Swept, Retirees, PremiseHolds,
           Exposed, At, RowShape, WasActive, CallShape, Types, RowSet, CallSet,
           NoRow, Drawn, Owning
  <2>4. CASE ForgetRetired(p)
    BY <2>4, <1>0
       DEF ForgetRetired, Forget, Leave, At, RowShape, WasActive, CallShape, Types,
           RowSet, CallSet, NoRow, Drawn, Owning
  <2>5. CASE \/ (\E m \in Mutations, c \in Credentials, s \in Secrets : Ask(p, m, c, s))
             \/ ReadRevision(p) \/ Put(p) \/ Inspect(p) \/ ReadPrevious(p)
             \/ ReadBearer(p) \/ TakeLock(p) \/ Publish(p)
             \/ RemoveRetired(p)
    BY <2>5, <1>1
       DEF Ask, ReadRevision, Put, Inspect, ReadPrevious, ReadBearer, TakeLock,
           Publish, RemoveRetired, Removed
  <2> QED
    BY <1>2, <2>1, <2>2, <2>3, <2>4, <2>5
       DEF Publication
<1>3. ASSUME NEW w \in Writers, Writing(w) PROVE WasActive(v)'
  BY <1>3, <1>1
     DEF Writing, Write, ReadReferences, Redact, Check, Store
<1>4. CASE SweepRetired
  BY <1>4, <1>0
     DEF SweepRetired, Removed, Answers, Forget, RowShape, WasActive, CallShape,
         Types, RowSet, CallSet, NoRow, Drawn, Owning
<1> QED
  BY <1>1, <1>2, <1>3, <1>4
     DEF Next, Startup, vars, Send, Claim, EraseReference, Crash, Reconcile,
         SweepRegistered, Stop

(* An activation is drawn up under the current revision, and ends it.       *)
LEMMA WinnerKept ==
    ASSUME CredentialPublicationAssumption, CredInv, [Next]_vars
    PROVE  OneWinner'
<1>0. /\ row \in [Mutations -> RowSet] /\ row' \in [Mutations -> RowSet]
      /\ call \in [Callers -> CallSet] /\ rev \in Nat
      /\ \A p \in Callers : CallShape(p)
      /\ \A m \in Mutations : RowShape(m) /\ RowShape(m)'
      /\ OneWinner
      /\ None # "Activated"
  BY RowsTyped, RowShapeKept DEF CredInv, Types, CredentialPublicationAssumption
<1>1. CASE UNCHANGED row
  BY <1>1, <1>0
     DEF OneWinner, WasActive, RowShape, CallShape, RowSet, CallSet, NoRow, Drawn,
         Owning
<1>2. ASSUME NEW p \in Callers, Publication(p)
      PROVE  OneWinner'
  <2>1. CASE Begin(p)
    BY <2>1, <1>0
       DEF Begin, Leave, Goto, At, OneWinner, WasActive, RowShape, CallShape, RowSet,
           CallSet, NoRow, Drawn, Owning
  <2>2. CASE MarkStaged(p)
    BY <2>2, <1>0
       DEF MarkStaged, Goto, Leave, At, OneWinner, WasActive, RowShape, CallShape,
           RowSet, CallSet, NoRow, Drawn, Owning
  <2>3. CASE Commit(p)
    BY <2>3, <1>0
       DEF Commit, Activate, Abandon, Goto, Leave, Swept, Retirees, PremiseHolds,
           Exposed, At, OneWinner, WasActive, RowShape, CallShape, RowSet, CallSet,
           NoRow, Drawn, Owning
  <2>4. CASE ForgetRetired(p)
    BY <2>4, <1>0
       DEF ForgetRetired, Forget, Leave, At, OneWinner, WasActive, RowShape,
           CallShape, RowSet, CallSet, NoRow, Drawn, Owning
  <2>5. CASE \/ (\E m \in Mutations, c \in Credentials, s \in Secrets : Ask(p, m, c, s))
             \/ ReadRevision(p) \/ Put(p) \/ Inspect(p) \/ ReadPrevious(p)
             \/ ReadBearer(p) \/ TakeLock(p) \/ Publish(p)
             \/ RemoveRetired(p)
    BY <2>5, <1>1
       DEF Ask, ReadRevision, Put, Inspect, ReadPrevious, ReadBearer, TakeLock,
           Publish, RemoveRetired, Removed
  <2> QED
    BY <1>2, <2>1, <2>2, <2>3, <2>4, <2>5
       DEF Publication
<1>3. ASSUME NEW w \in Writers, Writing(w) PROVE OneWinner'
  BY <1>3, <1>1
     DEF Writing, Write, ReadReferences, Redact, Check, Store
<1>4. CASE SweepRetired
  BY <1>4, <1>0
     DEF SweepRetired, Removed, Answers, Forget, OneWinner, WasActive, RowShape,
         CallShape, RowSet, CallSet, NoRow, Drawn, Owning
<1> QED
  BY <1>1, <1>2, <1>3, <1>4
     DEF Next, Startup, vars, Send, Claim, EraseReference, Crash, Reconcile,
         SweepRegistered, Stop

-----------------------------------------------------------------------------
(* Publications.                                                              *)
(* A call that rests keeps its shape when its row and item rest, and        *)
(* nobody takes or releases the lock in its place.                          *)
LEMMA OthersKept ==
    ASSUME Types, NEW q \in Callers, CallShape(q), call'[q] = call[q],
           rev' \in Nat, rev <= rev',
           call[q].pc \in Owning => row'[call[q].mut].cred = row[call[q].mut].cred,
           call[q].pc \in Reading \cup Drawn =>
             row'[call[q].mut].phase = row[call[q].mut].phase,
           call[q].pc \in Published => items'[call[q].mut] = items[call[q].mut],
           call[q].pc = "publish" => active'[call[q].cred] = active[call[q].cred],
           lock' = q <=> lock = q,
           \A v \in Mutations : WasActive(v) => WasActive(v)',
           call[q].pc = "forget" => \A r \in call[q].gone :
             items[r.version] = None => items'[r.version] = None
    PROVE  CallShape(q)'
<1>1. call[q].seen \in Nat /\ call[q] \in CallSet /\ rev \in Nat
  BY DEF Types, CallSet
<1>2. call'[q].seen <= rev'
  BY <1>1 DEF CallShape
<1>3. \A r \in call[q].gone : r.version \in Mutations
  BY <1>1 DEF CallSet, RetiredSet
<1> QED
  BY <1>1, <1>2, <1>3 DEF CallShape, Reading, Drawn, Owning, Published

(* A publication that is over has nothing left to rely on.                  *)
LEMMA IdleShape ==
    ASSUME NEW q \in Callers, call'[q] = NoCall, lock' # q, rev' \in Nat
    PROVE  CallShape(q)'
BY DEF CallShape, NoCall, Reading, Drawn, Owning, Published

LEMMA CallShapeKept ==
    ASSUME CredentialPublicationAssumption, CredInv, [Next]_vars, NEW q \in Callers
    PROVE  CallShape(q)'
<1>a. Types
  BY DEF CredInv
<1>0. /\ Types
      /\ call' \in [Callers -> CallSet] /\ row' \in [Mutations -> RowSet]
      /\ items' \in [Mutations -> Secrets \cup {None}]
      /\ active' \in [Credentials -> Mutations \cup {None}]
      /\ \A p \in Callers : CallShape(p)
      /\ \A m \in Mutations : RowShape(m)
      /\ Apart
      /\ Kept
      /\ Copied
      /\ \A v \in Mutations : WasActive(v) => WasActive(v)'
      /\ None \notin Credentials \cup Mutations \cup Secrets \cup Callers
      /\ None \notin {"Prepared", "Staged", "Activated", "CleanupPending", "Completed",
                      "Abandoned", "Stale"}
  BY CallsTyped, RowsTyped, ItemsTyped, ActiveTyped, ActiveForGood
     DEF CredInv, CredentialPublicationAssumption
<1>1. CASE UNCHANGED <<row, active, rev, items, lock, call>>
  BY <1>1, <1>0
     DEF CallShape, Types, CallSet, CallPcs, RowSet, RowShape, NoCall, NoRow, Apart,
         Kept, WasActive, Reading, Drawn, Published, Owning
<1>2. ASSUME NEW p \in Callers, Publication(p)
      PROVE  CallShape(q)'
  <2>1. ASSUME NEW m \in Mutations, NEW c \in Credentials, NEW s \in Secrets, Ask(p, m, c, s)
        PROVE  CallShape(q)'
    BY <2>1, <1>0
       DEF Ask, At, CallShape, Types, CallSet, CallPcs, RowSet, RowShape, NoCall,
           NoRow, Apart, Kept, WasActive, Reading, Drawn, Published, Owning
  <2>2. CASE ReadRevision(p)
    <3>1. CASE q # p
      <4>1. call'[q] = call[q]
        BY <2>2, <3>1, <1>a DEF ReadRevision, Types
      <4>2. /\ call[q].pc \in Owning => row'[call[q].mut].cred = row[call[q].mut].cred
            /\ call[q].pc \in Reading \cup Drawn =>
                 row'[call[q].mut].phase = row[call[q].mut].phase
        BY <2>2 DEF ReadRevision
      <4>3. UNCHANGED <<items, active, rev, lock>>
        BY <2>2 DEF ReadRevision
      <4> QED
        BY <3>1, <4>1, <4>2, <4>3, <1>0, <1>a, OthersKept DEF Types
    <3>2. CASE q = p
      <4>a. /\ call'[q].pc = "begin"
            /\ call'[q].mut = call[q].mut /\ call'[q].cred = call[q].cred
            /\ call'[q].secret = call[q].secret /\ call'[q].seen = rev
        BY <2>2, <3>2, <1>a DEF ReadRevision, At, Types, CallSet
      <4>b. UNCHANGED <<row, items, active, rev, lock>> /\ call[q].pc = "revision"
        BY <2>2, <3>2 DEF ReadRevision, At
      <4> QED
        BY <4>a, <4>b, <1>0, <1>a DEF CallShape, Reading, Drawn, Published, Owning,
               Types
    <3> QED
      BY <3>1, <3>2
  <2>3. CASE Begin(p)
    <3>1. CASE q # p
      <4>1. call'[q] = call[q]
        BY <2>3, <3>1, <1>a DEF Begin, Goto, Leave, Types
      <4>2. /\ call[q].pc \in Owning => row'[call[q].mut].cred = row[call[q].mut].cred
            /\ call[q].pc \in Reading \cup Drawn =>
                 row'[call[q].mut].phase = row[call[q].mut].phase
        <5>1. call[q].pc \in Owning =>
                row[call[q].mut] # NoRow /\ call[q].mut \in Mutations
          BY <1>0 DEF CallShape, NoRow, Owning, Reading, Drawn
        <5>2. \A m \in Mutations : row[m] # NoRow => row'[m] = row[m]
          BY <2>3, <1>a DEF Begin, Types
        <5> QED
          BY <5>1, <5>2 DEF Owning
      <4>3. UNCHANGED <<items, active, rev, lock>>
        BY <2>3 DEF Begin
      <4> QED
        BY <3>1, <4>1, <4>2, <4>3, <1>0, <1>a, OthersKept DEF Types
    <3>2. CASE q = p
      <4>1. CASE row[call[p].mut] = NoRow
        <5>1. /\ row'[call[q].mut].cred = call[q].cred
              /\ row'[call[q].mut].phase = "Prepared"
          BY <2>3, <3>2, <4>1, <1>0 DEF Begin, At, Types, CallShape
        <5>2. call' = [call EXCEPT ![q].pc = "put"] /\ lock # q /\ lock' = lock /\ rev' = rev
          BY <2>3, <3>2, <4>1, <1>0 DEF Begin, At, Goto, CallShape
        <5> QED
          BY <2>3, <3>2, <5>1, <5>2, <1>0
             DEF Begin, At, CallShape, Types, CallSet, Reading, Drawn, Published, Owning
      <4>2. CASE ~(row[call[p].mut] = NoRow)
        <5>1. call'[q] = NoCall /\ lock' # q /\ rev' \in Nat
          BY <2>3, <3>2, <4>2, <1>0 DEF Begin, Leave, At, Types, CallShape
        <5> QED
          BY <5>1, IdleShape
      <4> QED
        BY <4>1, <4>2
    <3> QED
      BY <3>1, <3>2
  <2>4. CASE Put(p)
    BY <2>4, <1>0
       DEF Put, Goto, Answers, At, CallShape, Types, CallSet, CallPcs, RowSet,
           RowShape, NoCall, NoRow, Apart, Kept, WasActive, Reading, Drawn,
           Published, Owning
  <2>5. CASE Inspect(p)
    <3>1. CASE q # p
      <4>1. call'[q] = call[q]
        BY <2>5, <3>1, <1>a DEF Inspect, Goto, Leave, Types
      <4>2. /\ call[q].pc \in Owning => row'[call[q].mut].cred = row[call[q].mut].cred
            /\ call[q].pc \in Reading \cup Drawn =>
                 row'[call[q].mut].phase = row[call[q].mut].phase
        BY <2>5 DEF Inspect
      <4>3. UNCHANGED <<items, active, rev, lock>>
        BY <2>5 DEF Inspect
      <4> QED
        BY <3>1, <4>1, <4>2, <4>3, <1>0, <1>a, OthersKept DEF Types
    <3>2. CASE q = p
      <4>1. CASE Goto(p, "stage") /\ items[call[p].mut] = call[p].secret
        <5>a. /\ call'[q].pc = "stage"
              /\ call'[q].mut = call[q].mut /\ call'[q].cred = call[q].cred
              /\ call'[q].secret = call[q].secret /\ call'[q].seen = call[q].seen
          BY <2>5, <3>2, <4>1, <1>a DEF Inspect, Goto, At, Types, CallSet
        <5>b. UNCHANGED <<row, items, active, rev, lock>> /\ call[q].pc = "inspect"
          BY <2>5, <3>2 DEF Inspect, At
        <5>c. items[call[q].mut] = call[q].secret
          BY <4>1, <3>2
        <5> QED
          BY <5>a, <5>b, <5>c, <1>0, <1>a DEF CallShape, Reading, Drawn, Published,
                 Owning, Types
      <4>2. CASE Leave(p)
        <5>1. call'[q] = NoCall /\ lock' # q /\ rev' \in Nat
          BY <2>5, <3>2, <4>2, <1>0 DEF Inspect, Leave, At, Types, CallShape
        <5> QED
          BY <5>1, IdleShape
      <4> QED
        BY <2>5, <4>1, <4>2 DEF Inspect
    <3> QED
      BY <3>1, <3>2
  <2>6. CASE MarkStaged(p)
    <3>1. CASE q # p
      <4>1. call'[q] = call[q]
        BY <2>6, <3>1, <1>a DEF MarkStaged, Goto, Leave, Types
      <4>2. /\ call[q].pc \in Owning => row'[call[q].mut].cred = row[call[q].mut].cred
            /\ call[q].pc \in Reading \cup Drawn =>
                 row'[call[q].mut].phase = row[call[q].mut].phase
        <5>1. call[q].pc \in Owning => call[q].mut # call[p].mut /\ call[q].mut \in Mutations
          BY <2>6, <3>1, <1>0 DEF MarkStaged, At, Apart, Owning, Reading, Drawn,
                 CallShape
        <5>2. \A m \in Mutations : m # call[p].mut => row'[m] = row[m]
          BY <2>6, <1>a DEF MarkStaged, Types
        <5> QED
          BY <5>1, <5>2 DEF Owning
      <4>3. UNCHANGED <<items, active, rev, lock>>
        BY <2>6 DEF MarkStaged
      <4> QED
        BY <3>1, <4>1, <4>2, <4>3, <1>0, <1>a, OthersKept DEF Types
    <3>2. CASE q = p
      <4>1. CASE row[call[p].mut].phase = "Prepared" /\ row[call[p].mut].outcome = None
        <5>a. /\ call'[q].pc = "previous"
              /\ call'[q].mut = call[q].mut /\ call'[q].cred = call[q].cred
              /\ call'[q].secret = call[q].secret /\ call'[q].seen = call[q].seen
          BY <2>6, <3>2, <4>1, <1>a DEF MarkStaged, Goto, At, Types, CallSet
        <5>b. UNCHANGED <<items, active, rev, lock>> /\ call[q].pc = "stage"
          BY <2>6, <3>2 DEF MarkStaged, At
        <5>c. row'[call[q].mut].phase = "Staged" /\ row'[call[q].mut].cred = row[call[q].mut].cred
          <6>1. call[q].mut \in Mutations
            BY <5>b, <1>0 DEF CallShape
          <6>2. row' = [row EXCEPT ![call[q].mut].phase = "Staged"]
            BY <2>6, <3>2, <4>1 DEF MarkStaged
          <6> QED
            BY <6>1, <6>2, <1>a DEF Types, RowSet
        <5> QED
          BY <5>a, <5>b, <5>c, <1>0, <1>a DEF CallShape, Reading, Drawn, Published,
                 Owning, Types
      <4>2. CASE ~(row[call[p].mut].phase = "Prepared" /\ row[call[p].mut].outcome = None)
        <5>1. call'[q] = NoCall /\ lock' # q /\ rev' \in Nat
          BY <2>6, <3>2, <4>2, <1>0 DEF MarkStaged, Leave, At, Types, CallShape
        <5> QED
          BY <5>1, IdleShape
      <4> QED
        BY <4>1, <4>2
    <3> QED
      BY <3>1, <3>2
  <2>7. CASE ReadPrevious(p)
    <3>1. CASE q # p
      <4>1. call'[q] = call[q]
        BY <2>7, <3>1, <1>a DEF ReadPrevious, Types
      <4>2. /\ call[q].pc \in Owning => row'[call[q].mut].cred = row[call[q].mut].cred
            /\ call[q].pc \in Reading \cup Drawn =>
                 row'[call[q].mut].phase = row[call[q].mut].phase
        BY <2>7 DEF ReadPrevious
      <4>3. UNCHANGED <<items, active, rev, lock>>
        BY <2>7 DEF ReadPrevious
      <4> QED
        BY <3>1, <4>1, <4>2, <4>3, <1>0, <1>a, OthersKept DEF Types
    <3>2. CASE q = p
      <4>a. /\ call'[q].pc \in {"lock", "bearer"}
            /\ call'[q].mut = call[q].mut /\ call'[q].cred = call[q].cred
            /\ call'[q].secret = call[q].secret /\ call'[q].seen = call[q].seen
            /\ call'[q].pc = "bearer" => call'[q].old # None
        BY <2>7, <3>2, <1>a DEF ReadPrevious, At, Types, CallSet
      <4>b. UNCHANGED <<row, items, active, rev, lock>> /\ call[q].pc = "previous"
        BY <2>7, <3>2 DEF ReadPrevious, At
      <4> QED
        BY <4>a, <4>b, <1>0, <1>a DEF CallShape, Reading, Drawn, Published, Owning,
               Types
    <3> QED
      BY <3>1, <3>2
  <2>8. CASE ReadBearer(p)
    <3>1. CASE q # p
      <4>1. call'[q] = call[q]
        BY <2>8, <3>1, <1>a DEF ReadBearer, Leave, Types
      <4>2. /\ call[q].pc \in Owning => row'[call[q].mut].cred = row[call[q].mut].cred
            /\ call[q].pc \in Reading \cup Drawn =>
                 row'[call[q].mut].phase = row[call[q].mut].phase
        BY <2>8 DEF ReadBearer
      <4>3. UNCHANGED <<items, active, rev, lock>>
        BY <2>8 DEF ReadBearer
      <4> QED
        BY <3>1, <4>1, <4>2, <4>3, <1>0, <1>a, OthersKept DEF Types
    <3>2. CASE q = p
      <4>1. CASE \E s \in Secrets \cup {None} :
                   call' = [call EXCEPT ![p].pc = "lock", ![p].bearer = s]
        <5>a. /\ call'[q].pc = "lock"
              /\ call'[q].mut = call[q].mut /\ call'[q].cred = call[q].cred
              /\ call'[q].secret = call[q].secret /\ call'[q].seen = call[q].seen
          BY <2>8, <3>2, <4>1, <1>a DEF ReadBearer, At, Types, CallSet
        <5>b. UNCHANGED <<row, items, active, rev, lock>> /\ call[q].pc = "bearer"
          BY <2>8, <3>2 DEF ReadBearer, At
        <5> QED
          BY <5>a, <5>b, <1>0, <1>a DEF CallShape, Reading, Drawn, Published, Owning,
                 Types
      <4>2. CASE Leave(p)
        <5>1. call'[q] = NoCall /\ lock' # q /\ rev' \in Nat
          BY <2>8, <3>2, <4>2, <1>0 DEF ReadBearer, Leave, At, Types, CallShape
        <5> QED
          BY <5>1, IdleShape
      <4> QED
        BY <2>8, <4>1, <4>2, <1>0, <1>a DEF ReadBearer, At, CallShape, Types, CallSet
    <3> QED
      BY <3>1, <3>2
  <2>9. CASE TakeLock(p)
    BY <2>9, <1>0
       DEF TakeLock, Goto, At, CallShape, Types, CallSet, CallPcs, RowSet, RowShape,
           NoCall, NoRow, Apart, Kept, WasActive, Reading, Drawn, Published, Owning
  <2>10. CASE Commit(p)
    <3>1. CASE q # p
      <4>1. call'[q] = call[q]
        BY <2>10, <3>1, <1>a DEF Commit, Activate, Abandon, Goto, Leave, Types
      <4>2. /\ call[q].pc \in Owning => row'[call[q].mut].cred = row[call[q].mut].cred
            /\ call[q].pc \in Reading \cup Drawn =>
                 row'[call[q].mut].phase = row[call[q].mut].phase
        <5>1. call[q].pc \in Owning => call[q].mut # call[p].mut /\ call[q].mut \in Mutations
          BY <2>10, <3>1, <1>0 DEF Commit, At, Apart, Owning, Reading, Drawn, CallShape
        <5>2. \A m \in Mutations : m # call[p].mut => row'[m] = row[m]
          BY <2>10, <1>a DEF Commit, Activate, Abandon, Types
        <5> QED
          BY <5>1, <5>2 DEF Owning
      <4>3. UNCHANGED items /\ rev' \in Nat /\ rev <= rev'
        BY <2>10, <1>a DEF Commit, Activate, Abandon, Types
      <4>4. lock = p /\ lock' # q
        BY <2>10, <3>1, <1>0, <1>a DEF Commit, Activate, Abandon, At, CallShape
      <4>5. call[q].pc # "publish"
        BY <3>1, <4>4, <1>0 DEF CallShape
      <4> QED
        BY <3>1, <4>1, <4>2, <4>3, <4>4, <4>5, <1>0, <1>a, OthersKept
    <3>2. CASE q = p
      <4>1. CASE PremiseHolds(p)
        BY <2>10, <3>2, <4>1, <1>0
           DEF Commit, Activate, Goto, At, CallShape, Types, CallSet, CallPcs, RowSet,
               Reading, Drawn, Published, Owning
      <4>2. CASE ~PremiseHolds(p)
        <5>1. call'[q] = NoCall /\ lock' # q /\ rev' \in Nat
          BY <2>10, <3>2, <4>2, <1>0 DEF Commit, Abandon, Leave, Types
        <5> QED
          BY <5>1, IdleShape
      <4> QED
        BY <4>1, <4>2
    <3> QED
      BY <3>1, <3>2
  <2>11. CASE Publish(p)
    BY <2>11, <1>0
       DEF Publish, Goto, At, CallShape, Types, CallSet, CallPcs, RowSet, RowShape,
           NoCall, NoRow, Apart, Kept, WasActive, Reading, Drawn, Published, Owning
  <2>12. CASE RemoveRetired(p)
    <3>1. CASE q # p
      <4>1. call'[q] = call[q]
        BY <2>12, <3>1, <1>a DEF RemoveRetired, Removed, Types
      <4>2. /\ call[q].pc \in Owning => row'[call[q].mut].cred = row[call[q].mut].cred
            /\ call[q].pc \in Reading \cup Drawn =>
                 row'[call[q].mut].phase = row[call[q].mut].phase
        BY <2>12 DEF RemoveRetired
      <4>3. UNCHANGED <<active, rev, lock, row>>
        BY <2>12 DEF RemoveRetired
      <4>4. call[q].pc \in Published =>
              /\ call[q].mut \in Mutations
              /\ \A r \in retired : r.version # call[q].mut
        <5>1. call[q].pc \in Published => call[q].mut \in Mutations
          BY <1>0 DEF CallShape, Published
        <5>2. call[q].pc \in {"stage"} \cup Drawn => ~WasActive(call[q].mut)
          BY <1>0, <5>1 DEF CallShape, Reading, Drawn, RowShape, WasActive, Published
        <5>3. call[q].pc = "publish" => call[q].cred \in Credentials /\ active[call[q].cred] = call[q].mut
          BY <1>0 DEF CallShape
        <5>4. call[q].mut # None /\ call[q].pc = "publish" => \A r \in retired : r.version # call[q].mut
          BY <5>3, <1>0 DEF Kept
        <5> QED
          BY <5>1, <5>2, <5>3, <5>4, <1>0 DEF Kept, Published, Drawn
      <4>5. \A m \in Mutations :
              /\ items[m] = None => items'[m] = None
              /\ (\A r \in retired : r.version # m) => items'[m] = items[m]
        BY <2>12, <1>a DEF RemoveRetired, Removed, Types
      <4>6. \A r \in call[q].gone : r.version \in Mutations
        BY <1>a DEF Types, CallSet, RetiredSet
      <4> QED
        BY <3>1, <4>1, <4>2, <4>3, <4>4, <4>5, <4>6, <1>0, <1>a, OthersKept DEF Types
    <3>2. CASE q = p
      <4>1. PICK ok \in SUBSET retired : Removed(retired, ok) /\
                   call' = [call EXCEPT ![p].pc = "forget", ![p].gone = ok]
        BY <2>12 DEF RemoveRetired
      <4>2. \A r \in ok : r.version \in Mutations /\ WasActive(r.version)
                           /\ items'[r.version] = None
        BY <4>1, <1>0, <1>a DEF Removed, Types, RetiredSet, Kept
      <4>3. call[q] \in CallSet /\ call'[q] = [call[q] EXCEPT !.pc = "forget", !.gone = ok]
        BY <4>1, <3>2, <1>a DEF Types
      <4>4. UNCHANGED <<row, lock, rev>> /\ lock # q
        BY <2>12, <3>2, <1>0 DEF RemoveRetired, At, CallShape
      <4>5. \A r \in ok : WasActive(r.version)'
        BY <4>2, <4>4 DEF WasActive
      <4>6. call'[q].gone = ok /\ call'[q].pc = "forget"
            /\ call'[q].mut = call[q].mut /\ call'[q].cred = call[q].cred
            /\ call'[q].secret = call[q].secret /\ call'[q].seen = call[q].seen
        BY <4>3 DEF CallSet
      <4>7. call[q].pc = "remove"
        BY <2>12, <3>2 DEF RemoveRetired, At
      <4> QED
        BY <4>2, <4>4, <4>5, <4>6, <4>7, <1>0
           DEF CallShape, Reading, Drawn, Published, Owning
    <3> QED
      BY <3>1, <3>2
  <2>13. CASE ForgetRetired(p)
    <3>1. CASE q # p
      <4>1. call'[q] = call[q]
        BY <2>13, <3>1, <1>a DEF ForgetRetired, Forget, Leave, Types
      <4>2. /\ call[q].pc \in Owning => row'[call[q].mut].cred = row[call[q].mut].cred
            /\ call[q].pc \in Reading \cup Drawn =>
                 row'[call[q].mut].phase = row[call[q].mut].phase
        <5>1. call[q].pc \in Owning => call[q].mut \in Mutations
          BY <1>0 DEF CallShape, Owning, Reading, Drawn
        <5>2. call[q].pc \in Reading \cup Drawn => row[call[q].mut].phase # "CleanupPending"
          BY <1>0 DEF CallShape, Reading, Drawn
        <5>3. \A m \in Mutations :
                /\ row'[m].cred = row[m].cred
                /\ row[m].phase # "CleanupPending" => row'[m] = row[m]
          BY <2>13, <1>a DEF ForgetRetired, Forget, Types, RowSet
        <5> QED
          BY <5>1, <5>2, <5>3 DEF Owning
      <4>3. UNCHANGED <<items, active, rev, lock>>
        BY <2>13 DEF ForgetRetired
      <4> QED
        BY <3>1, <4>1, <4>2, <4>3, <1>0, <1>a, OthersKept DEF Types
    <3>2. CASE q = p
      <4>1. call'[q] = NoCall /\ lock' # q /\ rev' \in Nat
        BY <2>13, <3>2, <1>0 DEF ForgetRetired, Leave, At, Types, CallShape
      <4> QED
        BY <4>1, IdleShape
    <3> QED
      BY <3>1, <3>2
  <2> QED
    BY <1>2, <2>1, <2>2, <2>3, <2>4, <2>5, <2>6, <2>7, <2>8, <2>9, <2>10, <2>11,
       <2>12, <2>13
       DEF Publication
<1>3. ASSUME NEW w \in Writers, Writing(w) PROVE CallShape(q)'
  BY <1>3, <1>1
     DEF Writing, Write, ReadReferences, Redact, Check, Store
<1>4. ASSUME NEW c \in Credentials, EraseReference(c)
      PROVE  CallShape(q)'
  BY <1>4, <1>0
     DEF EraseReference, CallShape, Types, CallSet, CallPcs, RowSet, RowShape,
         NoCall, NoRow, Apart, Kept, WasActive, Reading, Drawn, Published, Owning
<1>5. CASE Crash
  BY <1>5, <1>0
     DEF Crash, Stop, CallShape, Types, CallSet, CallPcs, RowSet, RowShape, NoCall,
         NoRow, Apart, Kept, WasActive, Reading, Drawn, Published, Owning
<1>6. CASE SweepRegistered
  BY <1>6, <1>0
     DEF SweepRegistered, Stop, Swept, Readable, Bearers, CallShape, Types, CallSet,
         CallPcs, RowSet, RowShape, NoCall, NoRow, Apart, Kept, WasActive, Reading,
         Drawn, Published, Owning
<1>7. CASE SweepRetired
  <2>1. call'[q] = NoCall /\ lock' # q /\ rev' \in Nat
    BY <1>7, <1>0 DEF SweepRetired, Types, CallShape, Copied, NoCall
  <2> QED
    BY <2>1, IdleShape
<1> QED
  BY <1>1, <1>2, <1>3, <1>4, <1>5, <1>6, <1>7
     DEF Next, Startup, vars, Send, Claim, Reconcile

LEMMA ApartKept ==
    ASSUME CredentialPublicationAssumption, CredInv, [Next]_vars
    PROVE  Apart'
<1>a. Types
  BY DEF CredInv
<1>0. /\ Types
      /\ call' \in [Callers -> CallSet] /\ row' \in [Mutations -> RowSet]
      /\ items' \in [Mutations -> Secrets \cup {None}]
      /\ active' \in [Credentials -> Mutations \cup {None}]
      /\ \A p \in Callers : CallShape(p)
      /\ \A m \in Mutations : RowShape(m)
      /\ Apart
      /\ Kept
      /\ Copied
      /\ \A v \in Mutations : WasActive(v) => WasActive(v)'
      /\ None \notin Credentials \cup Mutations \cup Secrets \cup Callers
      /\ None \notin {"Prepared", "Staged", "Activated", "CleanupPending", "Completed",
                      "Abandoned", "Stale"}
  BY CallsTyped, RowsTyped, ItemsTyped, ActiveTyped, ActiveForGood
     DEF CredInv, CredentialPublicationAssumption
<1>1. CASE UNCHANGED call
  BY <1>1, <1>0
     DEF Apart, CallShape, Types, CallSet, CallPcs, RowSet, RowShape, NoCall, NoRow,
         Kept, WasActive, Reading, Drawn, Owning
<1>2. ASSUME NEW p \in Callers, Publication(p)
      PROVE  Apart'
  <2>1. ASSUME NEW m \in Mutations, NEW c \in Credentials, NEW s \in Secrets, Ask(p, m, c, s)
        PROVE  Apart'
    BY <2>1, <1>0
       DEF Ask, At, Apart, CallShape, Types, CallSet, CallPcs, RowSet, RowShape,
           NoCall, NoRow, Kept, WasActive, Reading, Drawn, Owning
  <2>2. CASE ReadRevision(p)
    <3>1. \A x \in Callers : call'[x].pc \in Owning =>
            call[x].pc \in Owning /\ call'[x].mut = call[x].mut
      BY <2>2, <1>a DEF ReadRevision, At, Types, CallSet, NoCall, Owning, Reading, Drawn
    <3> QED
      BY <3>1, <1>0 DEF Apart
  <2>3. CASE Begin(p)
    <3>1. ASSUME NEW x \in Callers, call'[x].pc \in Owning, x # p
          PROVE  /\ call'[x] = call[x] /\ row[call[x].mut] # NoRow
      <4>1. call'[x] = call[x]
        BY <2>3, <3>1, <1>a DEF Begin, Goto, Leave, Types
      <4> QED
        BY <3>1, <4>1, <1>0 DEF CallShape, NoRow, Owning, Reading, Drawn
    <3>2. call'[p].pc \in Owning => call'[p].mut = call[p].mut /\ row[call[p].mut] = NoRow
      BY <2>3, <1>a DEF Begin, Goto, Leave, At, Types, CallSet, NoCall, Owning,
             Reading, Drawn
    <3> QED
      BY <3>1, <3>2, <1>0 DEF Apart
  <2>4. CASE Put(p)
    <3>1. \A x \in Callers : call'[x].pc \in Owning =>
            call[x].pc \in Owning /\ call'[x].mut = call[x].mut
      BY <2>4, <1>a DEF Put, Goto, At, Types, CallSet, NoCall, Owning, Reading, Drawn
    <3> QED
      BY <3>1, <1>0 DEF Apart
  <2>5. CASE Inspect(p)
    <3>1. \A x \in Callers : call'[x].pc \in Owning =>
            call[x].pc \in Owning /\ call'[x].mut = call[x].mut
      BY <2>5, <1>a DEF Inspect, Goto, Leave, At, Types, CallSet, NoCall, Owning,
             Reading, Drawn
    <3> QED
      BY <3>1, <1>0 DEF Apart
  <2>6. CASE MarkStaged(p)
    <3>1. \A x \in Callers : call'[x].pc \in Owning =>
            call[x].pc \in Owning /\ call'[x].mut = call[x].mut
      BY <2>6, <1>a DEF MarkStaged, Goto, Leave, At, Types, CallSet, NoCall, Owning,
             Reading, Drawn
    <3> QED
      BY <3>1, <1>0 DEF Apart
  <2>7. CASE ReadPrevious(p)
    <3>1. \A x \in Callers : call'[x].pc \in Owning =>
            call[x].pc \in Owning /\ call'[x].mut = call[x].mut
      BY <2>7, <1>a DEF ReadPrevious, At, Types, CallSet, NoCall, Owning, Reading, Drawn
    <3> QED
      BY <3>1, <1>0 DEF Apart
  <2>8. CASE ReadBearer(p)
    <3>1. \A x \in Callers : call'[x].pc \in Owning =>
            call[x].pc \in Owning /\ call'[x].mut = call[x].mut
      BY <2>8, <1>a DEF ReadBearer, Leave, At, Types, CallSet, NoCall, Owning,
             Reading, Drawn
    <3> QED
      BY <3>1, <1>0 DEF Apart
  <2>9. CASE TakeLock(p)
    <3>1. \A x \in Callers : call'[x].pc \in Owning =>
            call[x].pc \in Owning /\ call'[x].mut = call[x].mut
      BY <2>9, <1>a DEF TakeLock, Goto, At, Types, CallSet, NoCall, Owning, Reading,
             Drawn
    <3> QED
      BY <3>1, <1>0 DEF Apart
  <2>10. CASE Commit(p)
    <3>1. \A x \in Callers : call'[x].pc \in Owning =>
            call[x].pc \in Owning /\ call'[x].mut = call[x].mut
      <4>1. CASE Goto(p, "publish")
        BY <2>10, <4>1, <1>a DEF Commit, Goto, At, Types, CallSet, Owning, Reading,
               Drawn
      <4>2. CASE Leave(p)
        BY <4>2, <1>a DEF Leave, Types, NoCall, Owning, Reading, Drawn
      <4> QED
        BY <2>10, <4>1, <4>2 DEF Commit, Activate, Abandon
    <3> QED
      BY <3>1, <1>0 DEF Apart
  <2>11. CASE Publish(p)
    <3>1. \A x \in Callers : call'[x].pc \in Owning =>
            call[x].pc \in Owning /\ call'[x].mut = call[x].mut
      BY <2>11, <1>a DEF Publish, Goto, At, Types, CallSet, NoCall, Owning, Reading,
             Drawn
    <3> QED
      BY <3>1, <1>0 DEF Apart
  <2>12. CASE RemoveRetired(p)
    <3>1. \A x \in Callers : call'[x].pc \in Owning =>
            call[x].pc \in Owning /\ call'[x].mut = call[x].mut
      BY <2>12, <1>a DEF RemoveRetired, At, Types, CallSet, NoCall, Owning, Reading,
             Drawn
    <3> QED
      BY <3>1, <1>0 DEF Apart
  <2>13. CASE ForgetRetired(p)
    <3>1. \A x \in Callers : call'[x].pc \in Owning =>
            call[x].pc \in Owning /\ call'[x].mut = call[x].mut
      BY <2>13, <1>a DEF ForgetRetired, Leave, At, Types, CallSet, NoCall, Owning,
             Reading, Drawn
    <3> QED
      BY <3>1, <1>0 DEF Apart
  <2> QED
    BY <1>2, <2>1, <2>2, <2>3, <2>4, <2>5, <2>6, <2>7, <2>8, <2>9, <2>10, <2>11,
       <2>12, <2>13
       DEF Publication
<1>3. ASSUME NEW w \in Writers, Writing(w) PROVE Apart'
  BY <1>3, <1>1
     DEF Writing, Write, ReadReferences, Redact, Check, Store
<1>4. CASE Crash
  BY <1>4, <1>0
     DEF Crash, Stop, Apart, CallShape, Types, CallSet, CallPcs, RowSet, RowShape,
         NoCall, NoRow, Kept, WasActive, Reading, Drawn, Owning
<1>5. CASE SweepRegistered
  BY <1>5, <1>0
     DEF SweepRegistered, Stop, Swept, Readable, Bearers, Apart, CallShape, Types,
         CallSet, CallPcs, RowSet, RowShape, NoCall, NoRow, Kept, WasActive, Reading,
         Drawn, Owning
<1> QED
  BY <1>1, <1>2, <1>3, <1>4, <1>5
     DEF Next, Startup, vars, Send, Claim, EraseReference, Reconcile, SweepRetired,
         Forget, Removed

-----------------------------------------------------------------------------
(* Versions and their items.                                                  *)
LEMMA KeptKept ==
    ASSUME CredentialPublicationAssumption, CredInv, [Next]_vars
    PROVE  Kept'
<1>a. Types
  BY DEF CredInv
<1>0. /\ Types
      /\ call' \in [Callers -> CallSet] /\ row' \in [Mutations -> RowSet]
      /\ items' \in [Mutations -> Secrets \cup {None}]
      /\ active' \in [Credentials -> Mutations \cup {None}]
      /\ \A p \in Callers : CallShape(p)
      /\ \A m \in Mutations : RowShape(m)
      /\ Apart
      /\ Kept
      /\ Copied
      /\ \A v \in Mutations : WasActive(v) => WasActive(v)'
      /\ None \notin Credentials \cup Mutations \cup Secrets \cup Callers
      /\ None \notin {"Prepared", "Staged", "Activated", "CleanupPending", "Completed",
                      "Abandoned", "Stale"}
  BY CallsTyped, RowsTyped, ItemsTyped, ActiveTyped, ActiveForGood
     DEF CredInv, CredentialPublicationAssumption
<1>1. CASE UNCHANGED <<row, active, retired, refs, items>>
  BY <1>1, <1>0
     DEF Kept, WasActive, Types, RowSet, CallSet, RetiredSet
<1>2. ASSUME NEW p \in Callers, Publication(p)
      PROVE  Kept'
  <2>1. CASE Begin(p)
    BY <2>1, <1>0
       DEF Begin, Leave, Goto, At, Kept, WasActive, Types, RowSet, CallSet,
           RetiredSet
  <2>2. CASE Put(p)
    BY <2>2, <1>0
       DEF Put, Goto, Answers, At, Kept, WasActive, Types, RowSet, CallSet,
           RetiredSet
  <2>3. CASE MarkStaged(p)
    <3>1. \A v \in Mutations :
            row'[v].cred = row[v].cred /\ row'[v].outcome = row[v].outcome
      BY <2>3, <1>a DEF MarkStaged, Goto, Leave, Types, RowSet
    <3>2. UNCHANGED <<active, retired, refs, items>>
      BY <2>3 DEF MarkStaged
    <3> QED
      BY <3>1, <3>2, <1>0, <1>a DEF Kept, WasActive, Types, RetiredSet
  <2>4. CASE Commit(p)
    <3> DEFINE m == call[p].mut
               c == call[p].cred
    <3>1. /\ m \in Mutations /\ c \in Credentials /\ call[p].secret \in Secrets
          /\ row[m].phase = "Staged" /\ row[m].cred = c /\ items[m] = call[p].secret
          /\ ~WasActive(m)
      BY <2>4, CommitShape DEF Commit
    <3>2. \A v \in Mutations : row'[v].cred = row[v].cred
      BY <2>4, <3>1, <1>a DEF Commit, Activate, Abandon, Types, RowSet
    <3>3. UNCHANGED items
      BY <2>4 DEF Commit
    <3>4. CASE Abandon(p)
      <4>1. UNCHANGED <<active, retired, refs>>
        BY <3>4 DEF Abandon
      <4> QED
        BY <3>2, <3>3, <4>1, <1>0, <1>a DEF Kept, Types, RetiredSet
    <3>5. CASE Activate(p)
      <4>1. /\ active' = [active EXCEPT ![c] = m] /\ refs' = refs \cup {c}
            /\ retired' = retired \cup Retirees(c, m)
        BY <3>5 DEF Activate
      <4>2. row'[m].outcome = "Activated"
        BY <3>1, <3>5, <1>a DEF Activate, Types, RowSet
      <4>3. \A r \in Retirees(c, m) :
              /\ r.version \in Mutations /\ r.version = active[c] /\ r.version # m
              /\ WasActive(r.version)
        BY <3>1, <1>0, <1>a DEF Retirees, Kept
      <4>4. \A r \in retired' : r.version \in Mutations /\ WasActive(r.version)'
        BY <4>1, <4>3, <1>0, <1>a DEF Types, RetiredSet, Kept
      <4>5. ASSUME NEW e \in Credentials, active'[e] # None
            PROVE  /\ row'[active'[e]].outcome = "Activated"
                  /\ row'[active'[e]].cred = e
                   /\ items'[active'[e]] # None
                   /\ \A r \in retired' : r.version # active'[e]
        <5>1. CASE e = c
          <6>1. active'[e] = m
            BY <4>1, <5>1, <3>1, <1>a DEF Types
          <6>2. \A r \in retired' : r.version # m
            BY <4>1, <4>3, <3>1, <1>0 DEF Kept
          <6> QED
            BY <6>1, <6>2, <4>2, <3>1, <3>2, <3>3, <5>1, <1>0
        <5>2. CASE e # c
          <6>1. active'[e] = active[e] /\ active[e] \in Mutations
            BY <4>1, <4>5, <5>2, <1>a DEF Types
          <6>2. \A r \in Retirees(c, m) : r.version # active[e]
            BY <4>3, <5>2, <6>1, <4>5, <3>1, <1>0 DEF Kept
          <6> QED
            BY <6>1, <6>2, <3>2, <3>3, <4>1, <4>5, <1>0 DEF Kept, WasActive
        <5> QED
          BY <5>1, <5>2
      <4>6. \A e \in refs' : active'[e] # None
        BY <4>1, <3>1, <1>0, <1>a DEF Kept, Types
      <4> QED
        BY <4>4, <4>5, <4>6 DEF Kept, WasActive
    <3> QED
      BY <2>4, <3>4, <3>5 DEF Commit
  <2>5. CASE RemoveRetired(p)
    BY <2>5, <1>0
       DEF RemoveRetired, Removed, Answers, At, Kept, WasActive, Types, RowSet,
           CallSet, RetiredSet
  <2>6. CASE ForgetRetired(p)
    BY <2>6, <1>0
       DEF ForgetRetired, Forget, Leave, At, Kept, WasActive, Types, RowSet, CallSet,
           RetiredSet
  <2>7. CASE \/ (\E m \in Mutations, c \in Credentials, s \in Secrets : Ask(p, m, c, s))
             \/ ReadRevision(p) \/ Inspect(p) \/ ReadPrevious(p)
             \/ ReadBearer(p) \/ TakeLock(p) \/ Publish(p)
    BY <2>7, <1>1
       DEF Ask, ReadRevision, Inspect, ReadPrevious, ReadBearer, TakeLock, Publish
  <2> QED
    BY <1>2, <2>1, <2>2, <2>3, <2>4, <2>5, <2>6, <2>7
       DEF Publication
<1>3. ASSUME NEW w \in Writers, Writing(w) PROVE Kept'
  BY <1>3, <1>1
     DEF Writing, Write, ReadReferences, Redact, Check, Store
<1>4. ASSUME NEW c \in Credentials, EraseReference(c)
      PROVE  Kept'
  BY <1>4, <1>0
     DEF EraseReference, Kept, WasActive, Types, RowSet, CallSet, RetiredSet
<1>5. CASE SweepRetired
  BY <1>5, <1>0
     DEF SweepRetired, Removed, Answers, Forget, Kept, WasActive, Types, RowSet,
         CallSet, RetiredSet
<1> QED
  BY <1>1, <1>2, <1>3, <1>4, <1>5
     DEF Next, Startup, vars, Send, Claim, Crash, Reconcile, SweepRegistered, Stop

LEMMA ListedKept ==
    ASSUME CredentialPublicationAssumption, CredInv, [Next]_vars
    PROVE  Listed'
<1>a. Types
  BY DEF CredInv
<1>0. /\ Types
      /\ call' \in [Callers -> CallSet] /\ row' \in [Mutations -> RowSet]
      /\ items' \in [Mutations -> Secrets \cup {None}]
      /\ active' \in [Credentials -> Mutations \cup {None}]
      /\ \A p \in Callers : CallShape(p)
      /\ \A m \in Mutations : RowShape(m)
      /\ Apart
      /\ Kept
      /\ Listed
      /\ Copied
      /\ \A v \in Mutations : WasActive(v) => WasActive(v)'
      /\ None \notin Credentials \cup Mutations \cup Secrets \cup Callers
      /\ None \notin {"Prepared", "Staged", "Activated", "CleanupPending", "Completed",
                      "Abandoned", "Stale"}
  BY CallsTyped, RowsTyped, ItemsTyped, ActiveTyped, ActiveForGood
     DEF CredInv, CredentialPublicationAssumption
<1>1. CASE UNCHANGED <<row, active, retired, items>>
  BY <1>1, <1>0
     DEF Listed, WasActive, Types, RowSet, CallSet, RetiredSet
<1>2. ASSUME NEW p \in Callers, Publication(p)
      PROVE  Listed'
  <2>1. CASE Begin(p)
    <3>1. \A v \in Mutations :
            /\ row'[v].outcome = "Activated" <=> row[v].outcome = "Activated"
            /\ row'[v].phase = "CleanupPending" <=> row[v].phase = "CleanupPending"
      BY <2>1, <1>0, <1>a DEF Begin, Goto, Leave, Types, RowSet, NoRow
    <3>2. UNCHANGED <<active, retired, items>>
      BY <2>1 DEF Begin
    <3> QED
      BY <3>1, <3>2, <1>0, <1>a DEF Listed, WasActive, Types, RetiredSet
  <2>2. CASE Put(p)
    <3>1. ~WasActive(call[p].mut)
      BY <2>2, <1>0 DEF Put, At, CallShape, Reading, RowShape, WasActive
    <3>2. \A v \in Mutations : v # call[p].mut => items'[v] = items[v]
      BY <2>2, <1>a DEF Put, Types
    <3>3. UNCHANGED <<row, active, retired>>
      BY <2>2 DEF Put
    <3> QED
      BY <3>1, <3>2, <3>3, <1>0, <1>a DEF Listed, WasActive, Types
  <2>3. CASE MarkStaged(p)
    <3>1. \A v \in Mutations :
            /\ row'[v].outcome = "Activated" <=> row[v].outcome = "Activated"
            /\ row'[v].phase = "CleanupPending" <=> row[v].phase = "CleanupPending"
      BY <2>3, <1>0, <1>a DEF MarkStaged, Goto, Leave, Types, RowSet
    <3>2. UNCHANGED <<active, retired, items>>
      BY <2>3 DEF MarkStaged
    <3> QED
      BY <3>1, <3>2, <1>0, <1>a DEF Listed, WasActive, Types, RetiredSet
  <2>4. CASE Commit(p)
    <3> DEFINE m == call[p].mut
               c == call[p].cred
    <3>1. /\ m \in Mutations /\ c \in Credentials /\ call[p].secret \in Secrets
          /\ row[m].phase = "Staged" /\ row[m].cred = c /\ items[m] = call[p].secret
          /\ ~WasActive(m)
      BY <2>4, CommitShape DEF Commit
    <3>2. \A v \in Mutations : row'[v].cred = row[v].cred
      BY <2>4, <3>1, <1>a DEF Commit, Activate, Abandon, Types, RowSet
    <3>3. UNCHANGED items
      BY <2>4 DEF Commit
    <3>4. CASE Abandon(p)
      <4>1. UNCHANGED <<active, retired>>
        BY <3>4 DEF Abandon
      <4>2. \A v \in Mutations :
              /\ row'[v].outcome = "Activated" <=> row[v].outcome = "Activated"
              /\ row'[v].phase = "CleanupPending" <=> row[v].phase = "CleanupPending"
        BY <3>1, <3>4, <1>a DEF Abandon, Types, RowSet, WasActive
      <4> QED
        BY <3>3, <4>1, <4>2, <1>0 DEF Listed, WasActive
    <3>5. CASE Activate(p)
      <4>1. /\ active' = [active EXCEPT ![c] = m]
            /\ retired' = retired \cup Retirees(c, m)
            /\ \A v \in Mutations : v # m => row'[v] = row[v]
            /\ row'[m].phase = "CleanupPending" <=> Retirees(c, m) # {}
        BY <3>1, <3>5, <1>a DEF Activate, Types, RowSet
      <4>2. \A r \in Retirees(c, m) : r.by = m
        BY DEF Retirees
      <4>3. active[c] \in Mutations /\ active[c] # m =>
              \E r \in Retirees(c, m) : r.version = active[c]
        <5>1. active[c] \in Mutations /\ active[c] # m =>
                [cred |-> c, version |-> active[c], by |-> m] \in Retirees(c, m)
          BY Zenon DEF Retirees
        <5> QED
          BY <5>1
      <4>4. active'[c] = m /\ \A e \in Credentials : e # c => active'[e] = active[e]
        BY <3>1, <4>1, <1>a DEF Types
      <4>5. ASSUME NEW v \in Mutations, row'[v].outcome = "Activated"
            PROVE  \/ \E e \in Credentials : active'[e] = v
                   \/ \E r \in retired' : r.version = v
                   \/ items'[v] = None
        <5>1. CASE v = m
          BY <5>1, <4>4, <3>1
        <5>2. CASE v # m
          <6>1. \/ \E e \in Credentials : active[e] = v
                \/ \E r \in retired : r.version = v
                \/ items[v] = None
            BY <4>1, <4>5, <5>2, <1>0 DEF Listed, WasActive
          <6> QED
            BY <6>1, <4>1, <4>3, <4>4, <5>2, <3>3
        <5> QED
          BY <5>1, <5>2
      <4>6. ASSUME NEW v \in Mutations
            PROVE  row'[v].phase = "CleanupPending" <=> \E r \in retired' : r.by = v
        <5>1. CASE v = m
          <6>1. \A r \in retired : r.by # m
            BY <3>1, <1>0 DEF Listed
          <6> QED
            BY <5>1, <6>1, <4>1, <4>2
        <5>2. CASE v # m
          BY <5>2, <4>1, <4>2, <1>0 DEF Listed
        <5> QED
          BY <5>1, <5>2
      <4> QED
        BY <4>5, <4>6 DEF Listed, WasActive
    <3> QED
      BY <2>4, <3>4, <3>5 DEF Commit
  <2>5. CASE RemoveRetired(p)
    BY <2>5, <1>0
       DEF RemoveRetired, Removed, Answers, At, Listed, WasActive, Types, RowSet,
           CallSet, RetiredSet
  <2>6. CASE ForgetRetired(p)
    <3> DEFINE gone == call[p].gone
    <3>1. UNCHANGED <<active, items>> /\ retired' = retired \ gone
      BY <2>6 DEF ForgetRetired, Forget
    <3>2. \A r \in gone : items[r.version] = None
      BY <2>6, <1>0 DEF ForgetRetired, At, CallShape
    <3>3. \A v \in Mutations : row'[v].outcome = row[v].outcome
      BY <2>6, <1>a DEF ForgetRetired, Forget, Types, RowSet
    <3>4. \A v \in Mutations : row'[v].phase = "CleanupPending" <=>
            /\ row[v].phase = "CleanupPending"
            /\ ~(v \in {r.by : r \in gone} /\ v \notin {r.by : r \in retired \ gone})
      BY <2>6, <1>a DEF ForgetRetired, Forget, Types, RowSet
    <3>5. \A v \in Mutations : WasActive(v)' =>
            \/ \E c \in Credentials : active'[c] = v
            \/ \E r \in retired' : r.version = v
            \/ items'[v] = None
      BY <3>1, <3>2, <3>3, <1>0 DEF Listed, WasActive
    <3>6. ASSUME NEW v \in Mutations
          PROVE  row'[v].phase = "CleanupPending" <=> \E r \in retired' : r.by = v
      BY <3>1, <3>4, <1>0 DEF Listed
    <3> QED
      BY <3>5, <3>6 DEF Listed
  <2>7. CASE \/ (\E m \in Mutations, c \in Credentials, s \in Secrets : Ask(p, m, c, s))
             \/ ReadRevision(p) \/ Inspect(p) \/ ReadPrevious(p)
             \/ ReadBearer(p) \/ TakeLock(p) \/ Publish(p)
    BY <2>7, <1>1
       DEF Ask, ReadRevision, Inspect, ReadPrevious, ReadBearer, TakeLock, Publish
  <2> QED
    BY <1>2, <2>1, <2>2, <2>3, <2>4, <2>5, <2>6, <2>7
       DEF Publication
<1>3. ASSUME NEW w \in Writers, Writing(w) PROVE Listed'
  BY <1>3, <1>1
     DEF Writing, Write, ReadReferences, Redact, Check, Store
<1>4. CASE SweepRetired
  BY <1>4, <1>0
     DEF SweepRetired, Removed, Answers, Forget, Listed, WasActive, Types, RowSet,
         CallSet, RetiredSet
<1> QED
  BY <1>1, <1>2, <1>3, <1>4
     DEF Next, Startup, vars, Send, Claim, EraseReference, Crash, Reconcile,
         SweepRegistered, Stop

-----------------------------------------------------------------------------
(* The copies in memory, and the texts.                                       *)
LEMMA CopiedKept ==
    ASSUME CredentialPublicationAssumption, CredInv, [Next]_vars
    PROVE  Copied'
<1>a. Types
  BY DEF CredInv
<1>0. /\ Types
      /\ call' \in [Callers -> CallSet] /\ row' \in [Mutations -> RowSet]
      /\ items' \in [Mutations -> Secrets \cup {None}]
      /\ active' \in [Credentials -> Mutations \cup {None}]
      /\ \A p \in Callers : CallShape(p)
      /\ \A m \in Mutations : RowShape(m)
      /\ Apart
      /\ Kept /\ Kept'
      /\ live' \in [Credentials -> Copies]
      /\ Copied
      /\ \A v \in Mutations : WasActive(v) => WasActive(v)'
      /\ None \notin Credentials \cup Mutations \cup Secrets \cup Callers
      /\ None \notin {"Prepared", "Staged", "Activated", "CleanupPending", "Completed",
                      "Abandoned", "Stale"}
  BY CallsTyped, RowsTyped, ItemsTyped, ActiveTyped, LiveTyped, KeptKept, ActiveForGood
     DEF CredInv, CredentialPublicationAssumption
<1>1. CASE UNCHANGED <<active, refs, items, live, host, call, writer>>
  BY <1>1, <1>0
     DEF Copied, Types, Copies, NoCopy, CallSet, RetiredSet
<1>2. ASSUME NEW p \in Callers, Publication(p)
      PROVE  Copied'
  <2>1. ASSUME NEW m \in Mutations, NEW c \in Credentials, NEW s \in Secrets, Ask(p, m, c, s)
        PROVE  Copied'
    <3>1. \A x \in Callers : call[x].pc = "publish" => call'[x] = call[x]
      BY <2>1, <1>a DEF Ask, At, Types
    <3>2. UNCHANGED <<host, writer, refs, active, live, items>> /\ host = "up"
      BY <2>1 DEF Ask, At
    <3> QED
      BY <3>1, <3>2, <1>0, <1>a DEF Copied, Types, Copies, NoCopy
  <2>2. CASE ReadRevision(p)
    <3>1. \A x \in Callers : call[x].pc = "publish" => call'[x] = call[x]
      BY <2>2, <1>a DEF ReadRevision, At, Types
    <3>2. UNCHANGED <<host, writer, refs, active, live, items>> /\ host = "up"
      BY <2>2 DEF ReadRevision, At
    <3> QED
      BY <3>1, <3>2, <1>0, <1>a DEF Copied, Types, Copies, NoCopy
  <2>3. CASE Begin(p)
    <3>1. \A x \in Callers : call[x].pc = "publish" => call'[x] = call[x]
      BY <2>3, <1>a DEF Begin, Goto, Leave, At, Types
    <3>2. UNCHANGED <<host, writer, refs, active, live, items>> /\ host = "up"
      BY <2>3 DEF Begin, At
    <3> QED
      BY <3>1, <3>2, <1>0, <1>a DEF Copied, Types, Copies, NoCopy
  <2>4. CASE Put(p)
    <3>1. \A x \in Callers : call[x].pc = "publish" => call'[x] = call[x]
      BY <2>4, <1>a DEF Put, Goto, At, Types
    <3>2. UNCHANGED <<host, writer, refs, active, live>> /\ host = "up"
      BY <2>4 DEF Put, At
    <3>3. \A c \in Credentials : active[c] # None => items'[active[c]] = items[active[c]]
      BY <2>4, <1>0, <1>a DEF Put, Kept, Types
    <3> QED
      BY <3>1, <3>2, <3>3, <1>0, <1>a DEF Copied, Types, Copies, NoCopy
  <2>5. CASE Inspect(p)
    <3>1. \A x \in Callers : call[x].pc = "publish" => call'[x] = call[x]
      BY <2>5, <1>a DEF Inspect, Goto, Leave, At, Types
    <3>2. UNCHANGED <<host, writer, refs, active, live, items>> /\ host = "up"
      BY <2>5 DEF Inspect, At
    <3> QED
      BY <3>1, <3>2, <1>0, <1>a DEF Copied, Types, Copies, NoCopy
  <2>6. CASE MarkStaged(p)
    <3>1. \A x \in Callers : call[x].pc = "publish" => call'[x] = call[x]
      BY <2>6, <1>a DEF MarkStaged, Goto, Leave, At, Types
    <3>2. UNCHANGED <<host, writer, refs, active, live, items>> /\ host = "up"
      BY <2>6 DEF MarkStaged, At
    <3> QED
      BY <3>1, <3>2, <1>0, <1>a DEF Copied, Types, Copies, NoCopy
  <2>7. CASE ReadPrevious(p)
    <3>1. \A x \in Callers : call[x].pc = "publish" => call'[x] = call[x]
      BY <2>7, <1>a DEF ReadPrevious, At, Types
    <3>2. UNCHANGED <<host, writer, refs, active, live, items>> /\ host = "up"
      BY <2>7 DEF ReadPrevious, At
    <3> QED
      BY <3>1, <3>2, <1>0, <1>a DEF Copied, Types, Copies, NoCopy
  <2>8. CASE ReadBearer(p)
    <3>1. \A x \in Callers : call[x].pc = "publish" => call'[x] = call[x]
      BY <2>8, <1>a DEF ReadBearer, Leave, At, Types
    <3>2. UNCHANGED <<host, writer, refs, active, live, items>> /\ host = "up"
      BY <2>8 DEF ReadBearer, At
    <3> QED
      BY <3>1, <3>2, <1>0, <1>a DEF Copied, Types, Copies, NoCopy
  <2>9. CASE TakeLock(p)
    <3>1. \A x \in Callers : call[x].pc = "publish" => call'[x] = call[x]
      BY <2>9, <1>a DEF TakeLock, Goto, At, Types
    <3>2. UNCHANGED <<host, writer, refs, active, live, items>> /\ host = "up"
      BY <2>9 DEF TakeLock, At
    <3> QED
      BY <3>1, <3>2, <1>0, <1>a DEF Copied, Types, Copies, NoCopy
  <2>10. CASE Commit(p)
    <3> DEFINE m == call[p].mut
               c == call[p].cred
    <3>1. /\ m \in Mutations /\ c \in Credentials /\ call[p].secret \in Secrets
          /\ row[m].phase = "Staged" /\ row[m].cred = c /\ items[m] = call[p].secret
          /\ ~WasActive(m)
      BY <2>10, CommitShape DEF Commit
    <3>2. \A v \in Mutations : row'[v].cred = row[v].cred
      BY <2>10, <3>1, <1>a DEF Commit, Activate, Abandon, Types, RowSet
    <3>3. UNCHANGED <<host, writer, live, items>> /\ host = "up"
      BY <2>10 DEF Commit, At
    <3>4. \A x \in Callers : x # p => call'[x] = call[x]
      BY <2>10, <1>a DEF Commit, Activate, Abandon, Goto, Leave, Types
    <3>5. CASE Abandon(p)
      <4>1. UNCHANGED <<active, refs>>
        BY <3>5 DEF Abandon
      <4>2. \A x \in Callers : call[x].pc = "publish" => call'[x] = call[x]
        BY <2>10, <3>4 DEF Commit, At
      <4> QED
        BY <3>3, <4>1, <4>2, <1>0, <1>a DEF Copied, Types, Copies, NoCopy
    <3>6. CASE Activate(p)
      <4>1. active' = [active EXCEPT ![c] = m] /\ refs' = refs \cup {c}
        BY <3>6 DEF Activate
      <4>2. call'[p].pc = "publish" /\ call'[p].cred = c
        BY <3>6, <1>a DEF Activate, Goto, Types, CallSet
      <4>3. active'[c] = m /\ \A e \in Credentials : e # c => active'[e] = active[e]
        BY <3>1, <4>1, <1>a DEF Types
      <4>4. \A x \in Callers : call[x].pc = "publish" =>
              call'[x].pc = "publish" /\ call'[x].cred = call[x].cred
        BY <2>10, <3>4 DEF Commit, At
      <4>5. live[c].version # m
        BY <3>1, <1>0 DEF Copied
      <4>6. \A e \in refs' : \/ live'[e].version = active'[e]
                              \/ \E x \in Callers : call'[x].pc = "publish" /\ call'[x].cred = e
        BY <3>3, <4>1, <4>2, <4>3, <4>4, <1>0, <1>a DEF Copied, Types
      <4>7. ASSUME NEW e \in Credentials
            PROVE  /\ live[e].version # None => row'[live[e].version].outcome = "Activated"
                   /\ live[e].version # None /\ live[e].version = active'[e] =>
                        live[e].secret = items[active'[e]]
        <5>1. live[e].version \in Mutations \cup {None}
          BY <1>a DEF Types, Copies, NoCopy
        <5> QED
          BY <5>1, <4>3, <4>5, <1>0 DEF Copied, WasActive
      <4> QED
        BY <3>3, <4>6, <4>7 DEF Copied, WasActive
    <3> QED
      BY <2>10, <3>5, <3>6 DEF Commit
  <2>11. CASE Publish(p)
    <3> DEFINE m == call[p].mut
               c == call[p].cred
    <3>1. /\ c \in Credentials /\ m \in Mutations /\ active[c] = m
          /\ items[m] = call[p].secret /\ lock = p
      BY <2>11, <1>0 DEF Publish, At, CallShape, Published
    <3>2. /\ live' = [live EXCEPT ![c] = [version |-> m, secret |-> call[p].secret]]
          /\ UNCHANGED <<host, writer, refs, active, items, row>> /\ host = "up"
      BY <2>11 DEF Publish, At
    <3>3. \A x \in Callers : x # p => call'[x] = call[x]
      BY <2>11, <1>a DEF Publish, Goto, Types
    <3>4. /\ live'[c].version = m /\ live'[c].secret = call[p].secret
          /\ \A e \in Credentials : e # c => live'[e] = live[e]
      BY <3>1, <3>2, <1>a DEF Types
    <3>5. WasActive(m) /\ row'[m] = row[m]
      BY <3>1, <3>2, <1>0 DEF Kept
    <3>6. \A e \in refs' : \/ live'[e].version = active'[e]
                            \/ \E x \in Callers : call'[x].pc = "publish" /\ call'[x].cred = e
      BY <3>1, <3>2, <3>3, <3>4, <1>0, <1>a DEF Copied, Types
    <3>7. ASSUME NEW e \in Credentials
          PROVE  /\ live'[e].version # None => row'[live'[e].version].outcome = "Activated"
                 /\ live'[e].version # None /\ live'[e].version = active'[e] =>
                      live'[e].secret = items'[active'[e]]
      <4>1. CASE e = c
        BY <4>1, <3>1, <3>2, <3>4, <3>5 DEF WasActive
      <4>2. CASE e # c
        BY <4>2, <3>2, <3>4, <1>0 DEF Copied, WasActive
      <4> QED
        BY <4>1, <4>2
    <3> QED
      BY <3>2, <3>6, <3>7 DEF Copied, WasActive
  <2>12. CASE RemoveRetired(p)
    <3>1. \A x \in Callers : call[x].pc = "publish" => call'[x] = call[x]
      BY <2>12, <1>a DEF RemoveRetired, At, Types
    <3>2. UNCHANGED <<host, writer, refs, active, live>> /\ host = "up"
      BY <2>12 DEF RemoveRetired, At
    <3>3. \A c \in Credentials : active[c] # None => items'[active[c]] = items[active[c]]
      BY <2>12, <1>0, <1>a DEF RemoveRetired, Removed, Kept, Types
    <3> QED
      BY <3>1, <3>2, <3>3, <1>0, <1>a DEF Copied, Types, Copies, NoCopy
  <2>13. CASE ForgetRetired(p)
    <3>1. \A x \in Callers : call[x].pc = "publish" => call'[x] = call[x]
      BY <2>13, <1>a DEF ForgetRetired, Leave, At, Types
    <3>2. UNCHANGED <<host, writer, refs, active, live, items>> /\ host = "up"
      BY <2>13 DEF ForgetRetired, At
    <3> QED
      BY <3>1, <3>2, <1>0, <1>a DEF Copied, Types, Copies, NoCopy
  <2> QED
    BY <1>2, <2>1, <2>2, <2>3, <2>4, <2>5, <2>6, <2>7, <2>8, <2>9, <2>10, <2>11,
       <2>12, <2>13
       DEF Publication
<1>3. ASSUME NEW w \in Writers, Writing(w)
      PROVE  Copied'
  <2>1. ASSUME NEW text \in SUBSET Secrets, Write(w, text)
        PROVE  Copied'
    BY <2>1, <1>0
       DEF Write, Writes, Copied, Types, Copies, NoCopy, CallSet, RetiredSet
  <2>2. CASE ReadReferences(w)
    BY <2>2, <1>0
       DEF ReadReferences, Writes, Copied, Types, Copies, NoCopy, CallSet, RetiredSet
  <2>3. CASE Redact(w)
    BY <2>3, <1>0
       DEF Redact, Readable, Bearers, BetweenCommitAndPublish, Writes, Copied, Types,
           Copies, NoCopy, CallSet, RetiredSet
  <2>4. CASE Check(w)
    BY <2>4, <1>0
       DEF Check, Readable, Bearers, Writes, Copied, Types, Copies, NoCopy, CallSet,
           RetiredSet
  <2>5. CASE Store(w)
    BY <2>5, <1>0
       DEF Store, Writes, Copied, Types, Copies, NoCopy, CallSet, RetiredSet
  <2> QED
    BY <1>3, <2>1, <2>2, <2>3, <2>4, <2>5
       DEF Writing
<1>4. ASSUME NEW c \in Credentials, EraseReference(c)
      PROVE  Copied'
  BY <1>4, <1>0
     DEF EraseReference, Copied, Types, Copies, NoCopy, CallSet, RetiredSet
<1>5. CASE Crash
  BY <1>5, <1>0
     DEF Crash, Stop, Copied, Types, Copies, NoCopy, CallSet, RetiredSet
<1>6. CASE Reconcile
  <2>1. host = "down" /\ host' = "sweep" /\ UNCHANGED <<call, writer, active, items>>
    BY <1>6 DEF Reconcile
  <2>2. \A c \in Credentials :
          \/ live'[c] = NoCopy
          \/ /\ active[c] # None
             /\ live'[c] = [version |-> active[c], secret |-> items[active[c]]]
    BY <1>6 DEF Reconcile
  <2>3. ASSUME NEW c \in Credentials
        PROVE  \/ live'[c].version = None
               \/ /\ active[c] # None
                  /\ live'[c].version = active[c] /\ live'[c].secret = items[active[c]]
    <3>1. NoCopy.version = None
      BY DEF NoCopy
    <3>2. CASE live'[c] = NoCopy
      BY <3>1, <3>2
    <3>3. CASE active[c] # None /\ live'[c] = [version |-> active[c], secret |-> items[active[c]]]
      BY <3>3
    <3> QED
      BY <2>2, <3>2, <3>3
  <2>4. \A c \in Credentials : active[c] # None => row'[active[c]].outcome = "Activated"
    BY <2>1, <1>0 DEF Kept, WasActive
  <2> QED
    BY <2>1, <2>3, <2>4, <1>0 DEF Copied, WasActive
<1>7. CASE SweepRegistered
  BY <1>7, <1>0
     DEF SweepRegistered, Stop, Swept, Readable, Bearers, Copied, Types, Copies,
         NoCopy, CallSet, RetiredSet
<1>8. CASE SweepRetired
  <2>2. UNCHANGED <<call, writer, refs, active, live>> /\ host = "retire" /\ host' = "up"
    BY <1>8 DEF SweepRetired
  <2>3. \A c \in Credentials : active[c] # None => items'[active[c]] = items[active[c]]
    BY <1>8, <1>0, <1>a DEF SweepRetired, Removed, Kept, Types
  <2> QED
    BY <2>2, <2>3, <1>0, <1>a DEF Copied, Types, Copies, NoCopy
<1> QED
  BY <1>1, <1>2, <1>3, <1>4, <1>5, <1>6, <1>7, <1>8
     DEF Next, Startup, vars, Send, Claim

(* A sweep takes its secrets out of every text and leaves the rest.         *)
LEMMA SweptText ==
    ASSUME Types, NEW secrets, NEW t \in Swept(stored, secrets)
    PROVE  \E u \in stored : t.raced = u.raced /\ t.text = u.text \ secrets
<1>1. PICK u \in stored : t = [u EXCEPT !.text = @ \ secrets]
  BY DEF Swept
<1>2. u \in [text : SUBSET Secrets, raced : BOOLEAN]
  BY DEF Types
<1> QED
  BY <1>1, <1>2

LEMMA ScrubbingKept ==
    ASSUME CredentialPublicationAssumption, CredInv, [Next]_vars, NEW v \in Writers
    PROVE  Scrubbing(v)'
<1>a. Types
  BY DEF CredInv
<1>0. /\ Types
      /\ writer' \in [Writers -> WriterSet]
      /\ rev' \in Nat
      /\ \A u \in Writers : Scrubbing(u)
      /\ Kept
      /\ Copied
      /\ None \notin Credentials \cup Mutations \cup Secrets \cup Callers
  BY WritersTyped, RefsTyped DEF CredInv, CredentialPublicationAssumption
<1>1. CASE UNCHANGED <<active, refs, rev, items, writer>>
  BY <1>1, <1>0
     DEF Scrubbing, Types, WriterSet, NoText
<1>2. ASSUME NEW p \in Callers, Publication(p)
      PROVE  Scrubbing(v)'
  <2>1. CASE Put(p)
    <3>1. \A c \in Credentials : active[c] # None => items'[active[c]] = items[active[c]]
      BY <2>1, <1>0 DEF Put, Kept, Types
    <3>2. UNCHANGED <<writer, rev, refs, active>>
      BY <2>1 DEF Put
    <3> QED
      BY <3>1, <3>2, <1>0 DEF Scrubbing, Kept, Types, WriterSet
  <2>2. CASE Commit(p)
    BY <2>2, <1>0
       DEF Commit, Activate, Abandon, Goto, Leave, Swept, Retirees, PremiseHolds,
           Exposed, At, Scrubbing, Types, WriterSet, NoText
  <2>3. CASE RemoveRetired(p)
    <3>1. \A c \in Credentials : active[c] # None => items'[active[c]] = items[active[c]]
      BY <2>3, <1>0 DEF RemoveRetired, Removed, Kept, Types
    <3>2. UNCHANGED <<writer, rev, refs, active>>
      BY <2>3 DEF RemoveRetired
    <3> QED
      BY <3>1, <3>2, <1>0 DEF Scrubbing, Kept, Types, WriterSet
  <2>4. CASE \/ (\E m \in Mutations, c \in Credentials, s \in Secrets : Ask(p, m, c, s))
             \/ ReadRevision(p) \/ Begin(p) \/ Inspect(p) \/ MarkStaged(p)
             \/ ReadPrevious(p) \/ ReadBearer(p) \/ TakeLock(p) \/ Publish(p)
             \/ ForgetRetired(p)
    BY <2>4, <1>1
       DEF Ask, ReadRevision, Begin, Inspect, MarkStaged, ReadPrevious, ReadBearer,
           TakeLock, Publish, ForgetRetired, Forget
  <2> QED
    BY <1>2, <2>1, <2>2, <2>3, <2>4
       DEF Publication
<1>3. ASSUME NEW w \in Writers, Writing(w)
      PROVE  Scrubbing(v)'
  <2>1. ASSUME NEW text \in SUBSET Secrets, Write(w, text)
        PROVE  Scrubbing(v)'
    BY <2>1, <1>0
       DEF Write, Writes, Scrubbing, Types, WriterSet, NoText
  <2>2. CASE ReadReferences(w)
    BY <2>2, <1>0
       DEF ReadReferences, Writes, Scrubbing, Types, WriterSet, NoText
  <2>3. CASE Redact(w)
    <3>1. UNCHANGED <<rev, refs, items, active>> /\ host = "up" /\ writer[w].pc = "redact"
      BY <2>3 DEF Redact, Writes
    <3>2. \A u \in Writers : u # w => writer'[u] = writer[u]
      BY <2>3, <1>0 DEF Redact, Types
    <3>3. CASE v # w
      BY <3>1, <3>2, <3>3, <1>0 DEF Scrubbing
    <3>4. CASE v = w /\ ~Readable(writer[w].known)
      <4>1. writer'[v] = NoText
        BY <2>3, <3>4, <1>0 DEF Redact, Types
      <4> QED
        BY <4>1, <3>1, <1>0 DEF Scrubbing, Types, NoText
    <3>5. CASE v = w /\ Readable(writer[w].known)
      <4>1. /\ writer'[v].seen = writer[v].seen /\ writer'[v].known = writer[v].known
            /\ writer'[v].text = writer[v].text \ Bearers(writer[v].known)
            /\ writer'[v].raced = BetweenCommitAndPublish
        <5>1. writer' = [writer EXCEPT ![w] =
                           [writer[w] EXCEPT !.pc = "check",
                                             !.text = writer[w].text \ Bearers(writer[w].known),
                                             !.raced = BetweenCommitAndPublish]]
          BY <2>3, <3>5 DEF Redact
        <5> QED
          BY <5>1, <3>5, <1>0 DEF Types, WriterSet
      <4>2. writer[v].seen = rev => writer[v].known = refs
        BY <3>1, <3>5, <1>0 DEF Scrubbing
      <4>3. ASSUME ~BetweenCommitAndPublish, NEW c \in refs
            PROVE  items[active[c]] \in Bearers(refs)
        <5>1. live[c].version = active[c] /\ active[c] # None
          BY <3>1, <4>3, <1>0 DEF BetweenCommitAndPublish, Copied, Kept
        <5>2. live[c].secret = items[active[c]]
          BY <5>1, <1>0 DEF Copied, Types
        <5> QED
          BY <5>2 DEF Bearers
      <4> QED
        BY <3>1, <4>1, <4>2, <4>3, <1>0 DEF Scrubbing
    <3> QED
      BY <3>3, <3>4, <3>5
  <2>4. CASE Check(w)
    BY <2>4, <1>0
       DEF Check, Readable, Bearers, Writes, Scrubbing, Types, WriterSet, NoText
  <2>5. CASE Store(w)
    BY <2>5, <1>0
       DEF Store, Writes, Scrubbing, Types, WriterSet, NoText
  <2> QED
    BY <1>3, <2>1, <2>2, <2>3, <2>4, <2>5
       DEF Writing
<1>4. ASSUME NEW c \in Credentials, EraseReference(c)
      PROVE  Scrubbing(v)'
  BY <1>4, <1>0
     DEF EraseReference, Scrubbing, Types, WriterSet, NoText
<1>5. CASE Crash
  BY <1>5, <1>0
     DEF Crash, Stop, Scrubbing, Types, WriterSet, NoText
<1>6. CASE SweepRegistered
  BY <1>6, <1>0
     DEF SweepRegistered, Stop, Swept, Readable, Bearers, Scrubbing, Types,
         WriterSet, NoText
<1>7. CASE SweepRetired
  <2>1. \A c \in Credentials : active[c] # None => items'[active[c]] = items[active[c]]
    BY <1>7, <1>0 DEF SweepRetired, Removed, Kept, Types
  <2>2. UNCHANGED <<writer, rev, refs, active>>
    BY <1>7 DEF SweepRetired
  <2> QED
    BY <2>1, <2>2, <1>0 DEF Scrubbing, Kept, Types, WriterSet
<1> QED
  BY <1>1, <1>2, <1>3, <1>4, <1>5, <1>6, <1>7
     DEF Next, Startup, vars, Send, Claim, Reconcile

LEMMA CleanKept ==
    ASSUME CredentialPublicationAssumption, CredInv, [Next]_vars
    PROVE  StoredIsClean'
<1>a. Types
  BY DEF CredInv
<1>0. /\ Types
      /\ \A w \in Writers : Scrubbing(w)
      /\ Kept
      /\ StoredIsClean
      /\ None \notin Credentials \cup Mutations \cup Secrets \cup Callers
  BY DEF CredInv, CredentialPublicationAssumption
<1>1. CASE UNCHANGED <<active, refs, stored, items>>
  BY <1>1, <1>0
     DEF StoredIsClean, Types
<1>2. ASSUME NEW p \in Callers, Publication(p)
      PROVE  StoredIsClean'
  <2>1. CASE Put(p)
    <3>1. \A c \in Credentials : active[c] # None => items'[active[c]] = items[active[c]]
      BY <2>1, <1>0 DEF Put, Kept, Types
    <3>2. UNCHANGED <<stored, refs, active>>
      BY <2>1 DEF Put
    <3> QED
      BY <3>1, <3>2, <1>0 DEF StoredIsClean, Kept, Types
  <2>2. CASE Commit(p)
    <3> DEFINE m == call[p].mut
               c == call[p].cred
    <3>1. /\ m \in Mutations /\ c \in Credentials /\ call[p].secret \in Secrets
          /\ row[m].phase = "Staged" /\ row[m].cred = c /\ items[m] = call[p].secret
          /\ ~WasActive(m)
      BY <2>2, CommitShape DEF Commit
    <3>2. \A v \in Mutations : row'[v].cred = row[v].cred
      BY <2>2, <3>1, <1>a DEF Commit, Activate, Abandon, Types, RowSet
    <3>3. UNCHANGED items
      BY <2>2 DEF Commit
    <3>4. stored' = Swept(stored, Exposed(p))
      BY <2>2 DEF Commit, Activate, Abandon
    <3>5. \A t \in stored' : \E u \in stored : t.raced = u.raced /\ t.text = u.text \ Exposed(p)
      BY <3>4, <1>a, SweptText
    <3>6. CASE Abandon(p)
      BY <3>3, <3>5, <3>6, <1>0 DEF Abandon, StoredIsClean
    <3>7. CASE Activate(p)
      <4>1. active' = [active EXCEPT ![c] = m] /\ refs' = refs \cup {c}
        BY <3>7 DEF Activate
      <4>2. active'[c] = m /\ \A e \in Credentials : e # c => active'[e] = active[e]
        BY <3>1, <4>1, <1>a DEF Types
      <4>3. items[m] \in Exposed(p)
        BY <3>1, <1>0 DEF Exposed
      <4>4. \A e \in refs' : e # c => e \in refs /\ active'[e] = active[e]
        BY <4>1, <4>2, <1>a DEF Types
      <4> QED
        BY <3>3, <3>5, <4>2, <4>3, <4>4, <1>0 DEF StoredIsClean
    <3> QED
      BY <2>2, <3>6, <3>7 DEF Commit
  <2>3. CASE RemoveRetired(p)
    <3>1. \A c \in Credentials : active[c] # None => items'[active[c]] = items[active[c]]
      BY <2>3, <1>0 DEF RemoveRetired, Removed, Kept, Types
    <3>2. UNCHANGED <<stored, refs, active>>
      BY <2>3 DEF RemoveRetired
    <3> QED
      BY <3>1, <3>2, <1>0 DEF StoredIsClean, Kept, Types
  <2>4. CASE \/ (\E m \in Mutations, c \in Credentials, s \in Secrets : Ask(p, m, c, s))
             \/ ReadRevision(p) \/ Begin(p) \/ Inspect(p) \/ MarkStaged(p)
             \/ ReadPrevious(p) \/ ReadBearer(p) \/ TakeLock(p) \/ Publish(p)
             \/ ForgetRetired(p)
    BY <2>4, <1>1
       DEF Ask, ReadRevision, Begin, Inspect, MarkStaged, ReadPrevious, ReadBearer,
           TakeLock, Publish, ForgetRetired, Forget
  <2> QED
    BY <1>2, <2>1, <2>2, <2>3, <2>4
       DEF Publication
<1>3. ASSUME NEW w \in Writers, Writing(w)
      PROVE  StoredIsClean'
  <2>1. CASE Store(w)
    <3>1. UNCHANGED <<refs, items, active>>
      BY <2>1 DEF Store
    <3>2. ASSUME NEW t \in stored', t \notin stored, NEW c \in refs
          PROVE  t.raced \/ items[active[c]] \notin t.text
      <4>1. writer[w].seen = rev /\ t = [text |-> writer[w].text, raced |-> writer[w].raced]
        BY <2>1, <3>2 DEF Store
      <4>2. t.text = writer[w].text /\ t.raced = writer[w].raced
        BY <4>1
      <4> QED
        BY <2>1, <3>2, <4>1, <4>2, <1>0 DEF Store, Writes, Scrubbing
    <3> QED
      BY <3>1, <3>2, <1>0 DEF StoredIsClean
  <2>2. CASE \/ (\E text \in SUBSET Secrets : Write(w, text))
             \/ ReadReferences(w) \/ Redact(w) \/ Check(w)
    BY <2>2, <1>1
       DEF Write, ReadReferences, Redact, Check
  <2> QED
    BY <1>3, <2>1, <2>2
       DEF Writing
<1>4. ASSUME NEW c \in Credentials, EraseReference(c)
      PROVE  StoredIsClean'
  BY <1>4, <1>0
     DEF EraseReference, StoredIsClean, Types
<1>5. CASE SweepRegistered
  <2>1. UNCHANGED <<refs, items, active>>
    BY <1>5 DEF SweepRegistered
  <2>2. stored' = stored \/ stored' = Swept(stored, Bearers(refs))
    BY <1>5 DEF SweepRegistered
  <2>3. \A t \in stored' : \E u \in stored : t.raced = u.raced /\ t.text \subseteq u.text
    <3>1. CASE stored' = stored
      BY <3>1
    <3>2. CASE stored' = Swept(stored, Bearers(refs))
      BY <3>2, <1>a, SweptText
    <3> QED
      BY <2>2, <3>1, <3>2
  <2> QED
    BY <2>1, <2>3, <1>0 DEF StoredIsClean
<1>6. CASE SweepRetired
  <2>1. \A c \in Credentials : active[c] # None => items'[active[c]] = items[active[c]]
    BY <1>6, <1>0 DEF SweepRetired, Removed, Kept, Types
  <2>2. UNCHANGED <<stored, refs, active>>
    BY <1>6 DEF SweepRetired
  <2> QED
    BY <2>1, <2>2, <1>0 DEF StoredIsClean, Kept, Types
<1> QED
  BY <1>1, <1>2, <1>3, <1>4, <1>5, <1>6
     DEF Next, Startup, vars, Send, Claim, Crash, Reconcile, Stop

-----------------------------------------------------------------------------
LEMMA CredStart ==
    ASSUME CredentialPublicationAssumption, Init PROVE CredInv
<1>1. Types
  <2>1. 0 \in Nat
    OBVIOUS
  <2>2. NoRow \in RowSet
    BY <2>1, Zenon DEF NoRow, RowSet, Phases
  <2>3. NoCall \in CallSet
    BY <2>1, Zenon DEF NoCall, CallSet, CallPcs
  <2>4. NoText \in WriterSet
    BY <2>1, Zenon DEF NoText, WriterSet
  <2>5. NoCopy \in Copies
    BY DEF Copies
  <2>6. count \in Counts
    BY DEF Init, Counts, CredentialPublicationAssumption
  <2> QED
    BY <2>2, <2>3, <2>4, <2>5, <2>6 DEF Init, Types
<1>2. \A m \in Mutations : RowShape(m) /\ ~WasActive(m)
  BY DEF Init, NoRow, RowShape, WasActive, CredentialPublicationAssumption
<1>3. OneWinner
  BY <1>2 DEF OneWinner
<1>4. \A p \in Callers : CallShape(p) /\ call[p].pc = "idle"
  BY DEF Init, NoCall, CallShape, Reading, Drawn, Published, Owning,
         CredentialPublicationAssumption
<1>5. Apart
  BY <1>4 DEF Apart, Owning, Reading, Drawn
<1>6. Kept /\ Listed
  BY <1>2 DEF Init, Kept, Listed, NoRow, CredentialPublicationAssumption
<1>7. Copied
  BY DEF Init, Copied, NoCopy
<1>8. \A w \in Writers : Scrubbing(w)
  BY DEF Init, Scrubbing, NoText
<1>9. StoredIsClean
  BY DEF Init, StoredIsClean
<1> QED
  BY <1>1, <1>2, <1>3, <1>4, <1>5, <1>6, <1>7, <1>8, <1>9 DEF CredInv

LEMMA CredInductive ==
    ASSUME CredentialPublicationAssumption, CredInv, [Next]_vars PROVE CredInv'
BY TypesKept, RowShapeKept, WinnerKept, CallShapeKept, ApartKept, KeptKept,
   ListedKept, CopiedKept, ScrubbingKept, CleanKept
   DEF CredInv

LEMMA CredInvHolds ==
    ASSUME CredentialPublicationAssumption PROVE Spec => []CredInv
<1>1. Init => CredInv
  BY CredStart
<1>2. CredInv /\ [Next]_vars => CredInv'
  BY CredInductive
<1> QED
  BY <1>1, <1>2, PTL DEF Spec

(* Of the mutations drawn up under one revision of the credential set, at   *)
(* most one is activated, however the publications interleave, crash and    *)
(* are refused by the store of the system.                                  *)
THEOREM OneWinnerPerRevision ==
    ASSUME CredentialPublicationAssumption PROVE Spec => []OneWinner
<1>1. CredInv => OneWinner
  BY DEF CredInv
<1> QED
  BY <1>1, CredInvHolds, PTL

(* The item of an active version is kept, a displaced version is listed     *)
(* until its item is gone, memory has the active secrets whenever no        *)
(* activation is on its way there, and no stored text contains one.         *)
THEOREM CredentialsKept ==
    ASSUME CredentialPublicationAssumption PROVE Spec => []CredentialsSafe
<1>1. ASSUME CredInv PROVE CredentialsSafe
  <2>1. TypeOK
    <3>1. ASSUME NEW m \in Mutations
          PROVE  /\ row[m].cred \in Credentials \cup {None}
                 /\ row[m].expected \in 0 .. rev
                 /\ row[m].phase \in Phases
      BY <1>1 DEF CredInv, Types, RowSet, RowShape
    <3>2. ASSUME NEW m \in Mutations
          PROVE  row[m].outcome =
                   CASE row[m].phase \in {"Activated", "CleanupPending", "Completed"} -> "Activated"
                     [] row[m].phase = "Abandoned" -> "Stale"
                     [] OTHER -> None
      BY <1>1 DEF CredInv, RowShape
    <3> QED
      BY <1>1, <3>1, <3>2, Zenon DEF TypeOK, CredInv, Types, RetiredSet, Copies, Phases
  <2>2. ActiveItemKept
    BY <1>1 DEF CredInv, Kept, ActiveItemKept
  <2>3. RetiredIsAccountedFor
    BY <1>1 DEF CredInv, Listed, RetiredIsAccountedFor
  <2>4. MemoryIsActive
    <3>1. ASSUME host = "up", ~BetweenCommitAndPublish, NEW c \in refs
          PROVE  live[c].version = active[c]
      BY <1>1, <3>1 DEF CredInv, Copied, BetweenCommitAndPublish
    <3> QED
      BY <3>1 DEF MemoryIsActive
  <2> QED
    BY <1>1, <2>1, <2>2, <2>3, <2>4 DEF CredInv, CredentialsSafe
<1> QED
  BY <1>1, CredInvHolds, PTL
=============================================================================
