-------------------------- MODULE HeartOrderProofs --------------------------
(***************************************************************************)
(* Proofs about the order of the replicated log and about delta            *)
(* synchronisation: who may write, in which order the events of a device   *)
(* reach a replica, and that a frontier stands for everything below it.    *)
(***************************************************************************)
EXTENDS HeartSyncProofs

-----------------------------------------------------------------------------
(* What steps have in common. *)

\* A step of import_delta ends the import or goes on with what is left.
LEMMA ContinueJob ==
  ASSUME NEW r, NEW t, NEW todo, NEW O, Continue(r, t, todo, O)
  PROVE  \/ Enter(r, t, Idle)
         \/ Enter(r, t, [op |-> "import", mine |-> task[r][t].mine, todo |-> todo, shred |-> O])
BY DEF Continue, Return, Enter

\* Authorisations, rows and tombstones only grow.
LEMMA StoreGrows ==
  ASSUME TypeOK, ShredsRecorded, [Next]_vars, NEW s \in Replica
  PROVE  /\ auths[s] \subseteq auths'[s]
         /\ rows[s] \subseteq rows'[s]
         /\ tombs[s] \subseteq tombs'[s]
<1>0. StoreStep
  BY StoreSteps
<1>1. rows[s] \subseteq rows'[s]
  BY <1>0, StoreStepCases
<1>2. tombs[s] \subseteq tombs'[s]
  BY <1>0 DEF StoreStep, PutTombstone, TypeOK
<1>3. auths[s] \subseteq auths'[s]
  <2>1. ASSUME NEW r \in Replica, NEW t \in Thread, ImportAuth(r, t)
        PROVE  auths[s] \subseteq auths'[s]
    <3>1. PICK d : auths' = [auths EXCEPT ![r] = @ \cup {d}]
      BY <2>1 DEF ImportAuth
    <3> QED
      BY <3>1 DEF TypeOK
  <2>2. ASSUME NEW r \in Replica, NEW t \in Thread, Local(r, t)
        PROVE  auths' = auths
    BY <2>2 DEF Local, CommitReserve, CommitPut, RedactReserve, RedactRecord, RedactShred,
                SnapshotRead, SnapshotPut, PutBlobCheck, PutBlobStore, store
  <2>3. ASSUME NEW r \in Replica, NEW t \in Thread, Sync(r, t), ~ImportAuth(r, t)
        PROVE  auths' = auths
    BY <2>3 DEF Sync, ExportEvents, ExportRest, ImportStart, ImportEvent, ImportSnapshot,
                ImportTombstone, ImportShred, ImportBlob, ImportError, store
  <2>4. CASE \/ \E r \in Replica : Crash(r)
             \/ \E delta \in wire : LoseDelta(delta)
             \/ UNCHANGED vars
    BY <2>4 DEF Crash, LoseDelta, store, vars
  <2> QED
    BY <2>1, <2>2, <2>3, <2>4 DEF Next
<1> QED
  BY <1>1, <1>2, <1>3

\* A step keeps the types.
LEMMA TypeStays ==
  ASSUME TypeOK, [Next]_vars
  PROVE  TypeOK'
<1>1. ASSUME NEW r \in Replica, Crash(r)
      PROVE  TypeOK'
  <2>1. [t \in Thread |-> Idle] \in [Thread -> Task]
    BY TaskTypes
  <2>2. task' \in [Replica -> [Thread -> Task]]
    BY <1>1, <2>1 DEF TypeOK, Crash
  <2> QED
    BY <1>1, <2>2 DEF TypeOK, Crash, store
<1>2. CASE (\E delta \in wire : LoseDelta(delta)) \/ UNCHANGED vars
  BY <1>2 DEF TypeOK, LoseDelta, store, vars
<1> QED
  BY <1>1, <1>2, LocalTypes, SyncStepTypes DEF Next

\* An event reaches a replica by its own commit or by an import.
LEMMA EventArrives ==
  ASSUME TypeOK, [Next]_vars, NEW s \in Replica, NEW e \in Event, e \in rows'[s], e \notin rows[s]
  PROVE  \E t \in Thread :
           \/ CommitPut(s, t) /\ Doing(s, t, "commit") /\ task[s][t].event = e
           \/ /\ ImportEvent(s, t) /\ Doing(s, t, "import") /\ e \in task[s][t].todo.events
              /\ e.dev \in auths[s] /\ IsFirst(e, task[s][t].todo.events)
<1>o. \A r \in Replica : \A o : e # o /\ PutObject(r, o) => FALSE
  BY DEF PutObject, TypeOK
<1>p. \A r \in Replica : \A f : PutEvent(r, f) => f = e /\ r = s
  BY DEF PutEvent, TypeOK
<1>q. \A o \in Snapshot \cup Blob : e # o
  BY DEF Event, Snapshot, Blob
<1>1. ASSUME NEW r \in Replica, NEW t \in Thread, Local(r, t)
      PROVE  r = s /\ CommitPut(s, t) /\ Doing(s, t, "commit") /\ task[s][t].event = e
  <2>0. task[r][t] \in Task
    BY DEF TypeOK
  <2>1. CASE CommitPut(r, t)
    BY <1>p, <2>1 DEF CommitPut
  <2>2. CASE SnapshotPut(r, t) \/ PutBlobStore(r, t)
    BY <1>o, <1>q, <2>0, <2>2, TaskFields DEF SnapshotPut, PutBlobStore, Doing
  <2>3. CASE rows' = rows
    BY <2>3
  <2> QED
    BY <1>1, <2>1, <2>2, <2>3
       DEF Local, CommitReserve, RedactReserve, RedactRecord, RedactShred, SnapshotRead,
           PutBlobCheck, store
<1>2. ASSUME NEW r \in Replica, NEW t \in Thread, Sync(r, t)
      PROVE  /\ r = s /\ ImportEvent(s, t) /\ Doing(s, t, "import")
             /\ e \in task[s][t].todo.events
             /\ e.dev \in auths[s] /\ IsFirst(e, task[s][t].todo.events)
  <2>0. Doing(r, t, "import") =>
          task[r][t].todo.snaps \subseteq Snapshot /\ task[r][t].todo.blobs \subseteq Blob
    BY TaskFields DEF TypeOK, Doing, Body
  <2>1. CASE ImportEvent(r, t)
    BY <1>p, <2>1 DEF ImportEvent, EventRefused
  <2>2. CASE ImportSnapshot(r, t)
    BY <1>o, <1>q, <2>0, <2>2 DEF ImportSnapshot
  <2>3. CASE ImportBlob(r, t)
    <3>1. PICK b \in Blob : PutObject(r, b) \/ rows' = rows
      BY <2>0, <2>3 DEF ImportBlob, PutBlobRecord
    <3> QED
      BY <1>o, <1>q, <3>1
  <2>4. CASE rows' = rows
    BY <2>4
  <2> QED
    BY <1>2, <2>1, <2>2, <2>3, <2>4
       DEF Sync, ExportEvents, ExportRest, ImportStart, ImportAuth, ImportTombstone, ImportShred,
           ImportError, store
<1>3. ~(\/ \E r \in Replica : Crash(r)
        \/ \E delta \in wire : LoseDelta(delta)
        \/ UNCHANGED vars)
  BY DEF Crash, LoseDelta, store, vars
<1> QED
  BY <1>1, <1>2, <1>3 DEF Next

\* A tombstone reaches a replica by its own redaction or by an import.
LEMMA TombstoneArrives ==
  ASSUME TypeOK, [Next]_vars, NEW s \in Replica, NEW b, b \in tombs'[s], b \notin tombs[s]
  PROVE  \/ \E t \in Thread : Doing(s, t, "redact") /\ task[s][t].tomb = b
         \/ b.dev \in auths[s]
<1>p. \A r \in Replica : \A c : PutTombstone(r, c) => c = b /\ r = s
  BY DEF PutTombstone, TypeOK
<1>1. ASSUME NEW r \in Replica, NEW t \in Thread, Local(r, t)
      PROVE  r = s /\ Doing(s, t, "redact") /\ task[s][t].tomb = b
  <2>1. CASE RedactRecord(r, t)
    BY <1>p, <2>1 DEF RedactRecord
  <2>2. CASE tombs' = tombs
    BY <2>2
  <2> QED
    BY <1>1, <2>1, <2>2
       DEF Local, CommitReserve, CommitPut, RedactReserve, RedactShred, SnapshotRead,
           SnapshotPut, PutBlobCheck, PutBlobStore, store
<1>2. ASSUME NEW r \in Replica, NEW t \in Thread, Sync(r, t)
      PROVE  b.dev \in auths[s]
  <2>1. CASE ImportTombstone(r, t)
    BY <1>p, <2>1 DEF ImportTombstone
  <2>2. CASE tombs' = tombs
    BY <2>2
  <2> QED
    BY <1>2, <2>1, <2>2
       DEF Sync, ExportEvents, ExportRest, ImportStart, ImportAuth, ImportEvent, ImportSnapshot,
           ImportShred, ImportBlob, ImportError, store
<1>3. ~(\/ \E r \in Replica : Crash(r)
        \/ \E delta \in wire : LoseDelta(delta)
        \/ UNCHANGED vars)
  BY DEF Crash, LoseDelta, store, vars
<1> QED
  BY <1>1, <1>2, <1>3 DEF Next

\* The wire gains at most the delta that export_delta finishes.
LEMMA WireSteps ==
  ASSUME TypeOK, [Next]_vars, NEW delta \in wire', delta \notin wire
  PROVE  \E r \in Replica, t \in Thread :
           /\ ExportRest(r, t)
           /\ delta = [to |-> task[r][t].to,
                       body |-> BodyAfter(r, task[r][t].remote, task[r][t].events)]
<1>1. ASSUME NEW r \in Replica, NEW t \in Thread, Local(r, t)
      PROVE  wire' = wire
  BY <1>1 DEF Local, CommitReserve, CommitPut, RedactReserve, RedactRecord, RedactShred,
              SnapshotRead, SnapshotPut, PutBlobCheck, PutBlobStore
<1>2. ASSUME NEW r \in Replica, NEW t \in Thread, Sync(r, t), ~ExportRest(r, t)
      PROVE  wire' = wire
  BY <1>2 DEF Sync, ExportEvents, ImportAuth, ImportStart, ImportEvent, ImportSnapshot,
              ImportTombstone, ImportShred, ImportBlob, ImportError
<1>3. ASSUME NEW r \in Replica, NEW t \in Thread, ExportRest(r, t)
      PROVE  delta = [to |-> task[r][t].to,
                      body |-> BodyAfter(r, task[r][t].remote, task[r][t].events)]
  BY <1>3 DEF ExportRest
<1>4. CASE \/ \E r \in Replica : Crash(r)
           \/ \E d \in wire : LoseDelta(d)
           \/ UNCHANGED vars
  BY <1>4 DEF Crash, LoseDelta, vars
<1> QED
  BY <1>1, <1>2, <1>3, <1>4 DEF Next

-----------------------------------------------------------------------------
(* Authority. *)

\* Each record of a delta is of a device the receiver knows, or is told of by it.
Vouched(r, body) ==
  \A x \in body.events \cup body.tombs : x.dev \in auths[r] \cup body.auths

\* What a thread holds is signed by a device that its replica knows.
JobVouched(r, job) ==
  /\ job.op = "commit" => job.event.dev = r
  /\ job.op = "redact" => job.tomb.dev = r
  /\ job.op = "export" => /\ job.remote.auths \subseteq auths[job.to]
                          /\ \A e \in job.events : e.dev \in auths[r]
  /\ job.op = "import" /\ job.mine => Vouched(r, job.todo)

AuthorityInv ==
  /\ \A r \in Replica : r \in auths[r]
  /\ OnlyAuthorised
  /\ \A r \in Replica, t \in Thread : JobVouched(r, task[r][t])
  /\ \A delta \in wire : Vouched(delta.to, delta.body)

\* Where records and authorisations only grow, what was vouched for still is.
LEMMA VouchedStays ==
  ASSUME \A s \in Replica : auths[s] \subseteq auths'[s], NEW r \in Replica
  PROVE  /\ \A body : Vouched(r, body) => Vouched(r, body)'
         /\ \A job \in Task : JobVouched(r, job) => JobVouched(r, job)'
<1>1. ASSUME NEW body, Vouched(r, body)
      PROVE  Vouched(r, body)'
  BY <1>1 DEF Vouched
<1>2. ASSUME NEW job \in Task, JobVouched(r, job)
      PROVE  JobVouched(r, job)'
  <2>1. job.op = "export" => job.to \in Replica
    BY TaskFields
  <2> QED
    BY <1>1, <1>2, <2>1 DEF JobVouched
<1> QED
  BY <1>1, <1>2

\* What a thread holds after a step of its own.
LEMMA NextJobVouched ==
  ASSUME TypeOK, AuthorityInv, NEW r \in Replica, NEW t \in Thread,
         \A s \in Replica : auths[s] \subseteq auths'[s],
         Local(r, t) \/ Sync(r, t)
  PROVE  \E job : Enter(r, t, job) /\ JobVouched(r, job)'
<1> DEFINE Goal == \E job : Enter(r, t, job) /\ JobVouched(r, job)'
           todo == task[r][t].todo
           mine == task[r][t].mine
<1>r. ASSUME Enter(r, t, Idle)
      PROVE  Goal
  <2>1. JobVouched(r, Idle)'
    BY DEF JobVouched, Idle
  <2> QED
    BY <1>r, <2>1
<1>e. ASSUME NEW job, Enter(r, t, job), job.op \notin {"commit", "redact", "export", "import"}
      PROVE  Goal
  <2>1. JobVouched(r, job)'
    BY <1>e DEF JobVouched
  <2> QED
    BY <1>e, <2>1
<1>c. ASSUME NEW left, NEW O, Continue(r, t, left, O), mine => Vouched(r, left)'
      PROVE  Goal
  <2>0. PICK m : m = mine
    OBVIOUS
  <2> DEFINE job == [op |-> "import", mine |-> m, todo |-> left, shred |-> O]
  <2>1. JobVouched(r, job)'
    BY <1>c, <2>0 DEF JobVouched
  <2>2. Enter(r, t, Idle) \/ Enter(r, t, job)
    BY <1>c, <2>0, ContinueJob
  <2> HIDE DEF job
  <2> QED
    BY <1>r, <2>1, <2>2
<1>m. Doing(r, t, "import") =>
        /\ todo \in Body
        /\ mine => \A x \in todo.events \cup todo.tombs : x.dev \in auths[r] \cup todo.auths
  BY TaskFields DEF Doing, AuthorityInv, JobVouched, Vouched, TypeOK
<1>n. auths[r] \subseteq auths'[r]
  OBVIOUS
<1> SUFFICES Goal
  OBVIOUS
<1> HIDE DEF Goal, todo, mine
<1>1. CASE CommitPut(r, t) \/ RedactShred(r, t) \/ SnapshotPut(r, t) \/ PutBlobStore(r, t)
  BY <1>1, <1>r DEF CommitPut, RedactShred, SnapshotPut, PutBlobStore, Return, Enter
<1>2. CASE ExportRest(r, t) \/ ImportError(r, t)
  BY <1>2, <1>r DEF ExportRest, ImportError, Return, Enter
<1>3. CASE \/ RedactRecord(r, t)
           \/ \E l \in Label : SnapshotRead(r, t, l)
           \/ \E c \in Content : PutBlobCheck(r, t, [kind |-> "blob", content |-> c])
  BY <1>3, <1>e DEF RedactRecord, SnapshotRead, PutBlobCheck
<1>4. ASSUME NEW w \in Wall, CommitReserve(r, t, w)
      PROVE  Goal
  <2>1. PICK job : Enter(r, t, job) /\ job.op = "commit" /\ job.event.dev = r
    BY <1>4 DEF CommitReserve
  <2>2. JobVouched(r, job)'
    BY <2>1 DEF JobVouched
  <2> QED
    BY <2>1, <2>2 DEF Goal
<1>5. ASSUME NEW w \in Wall, NEW o \in Existing, RedactReserve(r, t, w, o)
      PROVE  Goal
  <2>1. PICK job : Enter(r, t, job) /\ job.op = "redact" /\ job.tomb.dev = r
    BY <1>5 DEF RedactReserve
  <2>2. JobVouched(r, job)'
    BY <2>1 DEF JobVouched
  <2> QED
    BY <2>1, <2>2 DEF Goal
<1>6. ASSUME NEW to \in Replica, ExportEvents(r, t, to)
      PROVE  Goal
  <2>0. PICK f, E : f = SyncFrontierOf(to) /\ E = EventsAfter(r, f)
    OBVIOUS
  <2> DEFINE job == [op |-> "export", to |-> to, remote |-> f, events |-> E]
  <2>1. Enter(r, t, job)
    BY <1>6, <2>0 DEF ExportEvents
  <2>2. f.auths \subseteq auths'[to]
    BY <2>0 DEF SyncFrontierOf
  <2>3. \A e \in E : e.dev \in auths'[r]
    BY <1>n, <2>0 DEF EventsAfter, Events, Live, AuthorityInv, OnlyAuthorised
  <2>4. JobVouched(r, job)'
    BY <2>2, <2>3 DEF JobVouched
  <2> QED
    BY <2>1, <2>4 DEF Goal
<1>7. ASSUME NEW delta \in wire, ImportStart(r, t, delta)
      PROVE  Goal
  <2> DEFINE job == [op |-> "import", mine |-> delta.to = r, todo |-> delta.body, shred |-> {}]
  <2>1. Enter(r, t, job)
    BY <1>7 DEF ImportStart
  <2>2. delta.to = r => Vouched(r, delta.body)'
    BY VouchedStays DEF AuthorityInv
  <2>3. JobVouched(r, job)'
    BY <2>2 DEF JobVouched, Vouched
  <2> QED
    BY <2>1, <2>3 DEF Goal
<1>8. CASE ImportAuth(r, t)
  <2>1. PICK d \in todo.auths :
          /\ auths' = [auths EXCEPT ![r] = @ \cup {d}]
          /\ Continue(r, t, [todo EXCEPT !.auths = @ \ {d}], {})
    BY <1>8 DEF ImportAuth, todo
  <2>2. todo \in Body /\ Doing(r, t, "import")
    BY <1>8, <1>m DEF ImportAuth
  <2>a. PICK left : left = [todo EXCEPT !.auths = @ \ {d}]
    OBVIOUS
  <2>3. left.events = todo.events /\ left.tombs = todo.tombs /\ left.auths = todo.auths \ {d}
    BY <2>2, <2>a DEF Body
  <2>4. d \in auths'[r]
    BY <2>1 DEF TypeOK
  <2>5. mine => Vouched(r, left)'
    BY <1>m, <1>n, <2>2, <2>3, <2>4 DEF Vouched
  <2> QED
    BY <1>c, <2>1, <2>a, <2>5
<1>9. ASSUME NEW left, NEW O, Doing(r, t, "import"), Continue(r, t, left, O),
             left.auths = todo.auths, left.events \subseteq todo.events,
             left.tombs \subseteq todo.tombs
      PROVE  Goal
  <2>1. mine => Vouched(r, left)'
    BY <1>9, <1>m, <1>n DEF Vouched
  <2> QED
    BY <1>9, <1>c, <2>1
<1>10. ASSUME NEW x, todo \in Body
       PROVE  /\ [todo EXCEPT !.events = @ \ {x}].auths = todo.auths
              /\ [todo EXCEPT !.events = @ \ {x}].events \subseteq todo.events
              /\ [todo EXCEPT !.events = @ \ {x}].tombs = todo.tombs
              /\ [todo EXCEPT !.snaps = @ \ {x}].auths = todo.auths
              /\ [todo EXCEPT !.snaps = @ \ {x}].events = todo.events
              /\ [todo EXCEPT !.snaps = @ \ {x}].tombs = todo.tombs
              /\ [todo EXCEPT !.tombs = @ \ {x}].auths = todo.auths
              /\ [todo EXCEPT !.tombs = @ \ {x}].events = todo.events
              /\ [todo EXCEPT !.tombs = @ \ {x}].tombs \subseteq todo.tombs
              /\ [todo EXCEPT !.blobs = @ \ {x}].auths = todo.auths
              /\ [todo EXCEPT !.blobs = @ \ {x}].events = todo.events
              /\ [todo EXCEPT !.blobs = @ \ {x}].tombs = todo.tombs
  BY <1>10 DEF Body
<1>11. CASE ImportEvent(r, t)
  <2>1. PICK x : Continue(r, t, [todo EXCEPT !.events = @ \ {x}], {})
    BY <1>11 DEF ImportEvent, todo
  <2> QED
    BY <1>9, <1>10, <1>11, <1>m, <2>1 DEF ImportEvent
<1>12. CASE ImportSnapshot(r, t)
  <2>1. PICK x : Continue(r, t, [todo EXCEPT !.snaps = @ \ {x}], {})
    BY <1>12 DEF ImportSnapshot, todo
  <2> QED
    BY <1>9, <1>10, <1>12, <1>m, <2>1 DEF ImportSnapshot
<1>13. CASE ImportTombstone(r, t)
  <2>1. PICK x : Continue(r, t, [todo EXCEPT !.tombs = @ \ {x}], {x.target})
    BY <1>13 DEF ImportTombstone, todo
  <2> QED
    BY <1>9, <1>10, <1>13, <1>m, <2>1 DEF ImportTombstone
<1>14. CASE ImportBlob(r, t)
  <2>1. PICK x : Continue(r, t, [todo EXCEPT !.blobs = @ \ {x}], {})
    BY <1>14 DEF ImportBlob, todo
  <2> QED
    BY <1>9, <1>10, <1>14, <1>m, <2>1 DEF ImportBlob
<1>15. CASE ImportShred(r, t)
  BY <1>9, <1>15 DEF ImportShred, todo
<1> QED
  BY <1>1, <1>2, <1>3, <1>4, <1>5, <1>6, <1>7, <1>8, <1>11, <1>12, <1>13, <1>14, <1>15
     DEF Local, Sync

\* No replica ever holds a record of a device it does not know, and whatever is
\* on its way to a replica is vouched for there.
LEMMA AuthorityHolds == Spec => []AuthorityInv
<1>1. Init => AuthorityInv
  BY DEF Init, AuthorityInv, OnlyAuthorised, Events, JobVouched, Idle
<1>2. TypeOK /\ ShredsRecorded /\ AuthorityInv /\ [Next]_vars => AuthorityInv'
  <2> SUFFICES ASSUME TypeOK, ShredsRecorded, AuthorityInv, [Next]_vars
               PROVE  AuthorityInv'
    OBVIOUS
  <2>g. \A s \in Replica : auths[s] \subseteq auths'[s]
    BY StoreGrows
  <2>1. \A s \in Replica : s \in auths'[s]
    BY <2>g DEF AuthorityInv
  <2>2. ASSUME NEW s \in Replica, NEW e \in Event, e \in rows'[s]
        PROVE  e.dev \in auths'[s]
    <3>1. CASE e \in rows[s]
      <4>1. e \in Events(rows[s])
        BY <3>1 DEF Events, Event
      <4> QED
        BY <2>g, <4>1 DEF AuthorityInv, OnlyAuthorised
    <3>2. CASE e \notin rows[s]
      BY <2>2, <2>g, <2>1, <3>2, EventArrives DEF AuthorityInv, JobVouched, Doing
    <3> QED
      BY <3>1, <3>2
  <2>3. ASSUME NEW s \in Replica, NEW b \in tombs'[s]
        PROVE  b.dev \in auths'[s]
    BY <2>3, <2>g, TombstoneArrives DEF AuthorityInv, OnlyAuthorised, JobVouched, Doing
  <2>4. ASSUME NEW s \in Replica, NEW u \in Thread
        PROVE  JobVouched(s, task[s][u])'
    <3>0. task[s][u] \in Task
      BY DEF TypeOK
    <3>1. ASSUME task'[s][u] = task[s][u]
          PROVE  JobVouched(s, task[s][u])'
      BY <2>g, <3>0, <3>1, VouchedStays DEF AuthorityInv, JobVouched, Vouched
    <3>2. ASSUME task'[s][u] = Idle
          PROVE  JobVouched(s, task[s][u])'
      BY <3>2 DEF JobVouched, Idle
    <3>3. ASSUME NEW r \in Replica, NEW t \in Thread, Local(r, t) \/ Sync(r, t)
          PROVE  JobVouched(s, task[s][u])'
      <4>1. PICK job : Enter(r, t, job) /\ JobVouched(r, job)'
        BY <2>g, <3>3, NextJobVouched
      <4>2. CASE s = r /\ u = t
        <5>1. task'[s][u] = job
          BY <4>1, <4>2 DEF Enter, TypeOK
        <5> QED
          BY <4>1, <4>2, <5>1 DEF JobVouched, Vouched
      <4>3. CASE ~(s = r /\ u = t)
        <5>1. task'[s][u] = task[s][u]
          BY <4>1, <4>3 DEF Enter, TypeOK
        <5> QED
          BY <3>1, <5>1
      <4> QED
        BY <4>2, <4>3
    <3>4. ASSUME NEW r \in Replica, Crash(r)
          PROVE  JobVouched(s, task[s][u])'
      <4>1. task'[s][u] = task[s][u] \/ task'[s][u] = Idle
        BY <3>4 DEF Crash, TypeOK
      <4> QED
        BY <3>1, <3>2, <4>1
    <3>5. CASE (\E delta \in wire : LoseDelta(delta)) \/ UNCHANGED vars
      BY <3>1, <3>5 DEF LoseDelta, vars
    <3> QED
      BY <3>3, <3>4, <3>5 DEF Next
  <2>5. ASSUME NEW delta \in wire'
        PROVE  Vouched(delta.to, delta.body)'
    <3>1. CASE delta \in wire
      BY <2>g, <3>1, VouchedStays DEF AuthorityInv, TypeOK
    <3>2. CASE delta \notin wire
      <4>1. PICK r \in Replica, t \in Thread :
              /\ ExportRest(r, t)
              /\ delta = [to |-> task[r][t].to,
                          body |-> BodyAfter(r, task[r][t].remote, task[r][t].events)]
        BY <3>2, WireSteps
      <4>2. PICK job : job = task[r][t]
        OBVIOUS
      <4>3. /\ delta.to = job.to /\ job.to \in Replica
            /\ delta.body.events = job.events
            /\ delta.body.tombs \subseteq tombs[r]
            /\ delta.body.auths = auths[r] \ job.remote.auths
        BY <4>1, <4>2, TaskFields
           DEF ExportRest, Doing, TypeOK, BodyAfter, TombsAfter, AuthsAfter
      <4>4. /\ job.remote.auths \subseteq auths[job.to]
            /\ \A e \in job.events : e.dev \in auths[r]
            /\ \A b \in tombs[r] : b.dev \in auths[r]
        BY <4>1, <4>2 DEF AuthorityInv, OnlyAuthorised, JobVouched, ExportRest, Doing
      <4>5. auths[job.to] \subseteq auths'[job.to]
        BY <2>g, <4>3
      <4> QED
        BY <4>3, <4>4, <4>5 DEF Vouched
    <3> QED
      BY <3>1, <3>2
  <2>6. OnlyAuthorised'
    <3>1. rows' \in [Replica -> SUBSET Object]
      BY TypeStays DEF TypeOK
    <3> QED
      BY <2>2, <2>3, <3>1, EventKind DEF OnlyAuthorised
  <2> QED
    BY <2>1, <2>4, <2>5, <2>6 DEF AuthorityInv
<1> QED
  BY <1>1, <1>2, ShredsAreRecorded, PTL DEF Spec

\* A replica stores events and tombstones of authorised devices only, whichever
\* deltas reach it (put_event and put_tombstone verify against the
\* authorisations, which import_delta stores first).
THEOREM OnlyAuthorisedWrite == Spec => []OnlyAuthorised
BY AuthorityHolds, PTL DEF AuthorityInv

\* A delta made for a replica is imported to its end there, also when it relays
\* records of third devices: export_delta sends the authorisations they need.
THEOREM ImportsAreComplete == Spec => []ImportsComplete
<1>1. TypeOK /\ ShredExplained /\ AuthorityInv => ImportsComplete
  <2> SUFFICES ASSUME TypeOK, ShredExplained, AuthorityInv, NEW r \in Replica, NEW t \in Thread,
                      Refuses(r, t), task[r][t].mine
               PROVE  FALSE
    BY DEF ImportsComplete
  <2> DEFINE todo == task[r][t].todo
  <2>1. Doing(r, t, "import") /\ todo.auths = {} /\ todo \in Body
    BY TaskFields DEF Refuses, Doing, TypeOK
  <2>2. \A x \in todo.events \cup todo.tombs : x.dev \in auths[r]
    BY <2>1 DEF AuthorityInv, JobVouched, Vouched, Doing
  <2>3. PICK e \in todo.events : EventRefused(r, e)
    BY <2>2 DEF Refuses
  <2>4. e \in rows[r] /\ e \notin keys[r] /\ ~Tombstoned(r, e)
    BY <2>2, <2>3 DEF EventRefused
  <2>5. e \in Events(rows[r])
    BY <2>1, <2>4 DEF Body, Event, Events
  <2> QED
    BY <2>4, <2>5 DEF ShredExplained
<1> QED
  BY <1>1, TypeCorrect, ShredsExplained, AuthorityHolds, PTL

-----------------------------------------------------------------------------
(* Order. *)

\* Events signed by a commit that is about to store them.
InHand ==
  {e \in Event : \E r \in Replica, t \in Thread : Doing(r, t, "commit") /\ task[r][t].event = e}

Issued == Events(Existing) \cup InHand

\* The clock of a device is not behind e.
Behind(e, d) == e.wall < d.wall \/ (e.wall = d.wall /\ e.ctr <= d.ctr)

Clocked ==
  /\ \A r \in Replica : device[r].next >= 1
  /\ \A e \in Issued : /\ 1 <= e.seq /\ e.seq <= device[e.dev].next
                       /\ Behind(e, device[e.dev])

IssuedInOrder ==
  \A e, f \in Issued : e.dev = f.dev /\ e.seq < f.seq => Before(e, f)

\* Deltas, and threads that make or apply one, carry stored events.
Circulating ==
  /\ \A r \in Replica, t \in Thread :
       /\ Doing(r, t, "export") => task[r][t].events \subseteq Existing
       /\ Doing(r, t, "import") => task[r][t].todo.events \subseteq Existing
  /\ \A delta \in wire : delta.body.events \subseteq Existing

OrderInv == Clocked /\ IssuedInOrder /\ Circulating

LEMMA IssuedType ==
  ASSUME TypeOK
  PROVE  Existing \in SUBSET Object /\ Events(Existing) \in SUBSET Event /\ Issued \in SUBSET Event
<1>1. Existing \in SUBSET Object
  BY DEF TypeOK, Existing
<1>2. Events(Existing) \in SUBSET Event
  BY <1>1, KindTypes
<1> QED
  BY <1>1, <1>2 DEF Issued, InHand

\* The event commit_interaction signs at a clock reading.
Signed(r, w) ==
  [kind |-> "event", dev |-> r, seq |-> device[r].next,
   wall |-> Reserve(device[r], w).wall, ctr |-> Reserve(device[r], w).ctr]

\* Clock components are numbers.
LEMMA NumberTypes == Walls \subseteq Nat /\ 0..CounterMax \subseteq Nat /\ 0..SeqMax \subseteq Nat
BY BoundAssumption, ReplicaAssumption DEF Walls

\* reserve_clock never goes back, whatever the system clock says.
LEMMA ReserveAdvances ==
  ASSUME NEW d \in DeviceRecord, NEW w \in Wall
  PROVE  /\ d.next <= Reserve(d, w).next
         /\ d.next < SeqMax => d.next < Reserve(d, w).next
         /\ Behind(d, Reserve(d, w))
BY BoundAssumption, ReplicaAssumption DEF Reserve, NextSeq, DeviceRecord, Walls, Behind

\* Being behind is transitive.
LEMMA BehindStays ==
  ASSUME NEW e \in Event, NEW d \in DeviceRecord, NEW n \in DeviceRecord,
         Behind(e, d), Behind(d, n)
  PROVE  Behind(e, n)
<1>1. e.wall \in Nat /\ e.ctr \in Nat
  BY NumberTypes DEF Event
<1>2. d.wall \in Nat /\ d.ctr \in Nat /\ n.wall \in Nat /\ n.ctr \in Nat
  BY NumberTypes DEF DeviceRecord
<1> QED
  BY <1>1, <1>2 DEF Behind

\* A thread is committing because it was, or because it just reserved a clock
\* value.
LEMMA HandSteps ==
  ASSUME TypeOK, [Next]_vars, NEW s \in Replica, NEW u \in Thread, Doing(s, u, "commit")'
  PROVE  \/ task'[s][u] = task[s][u]
         \/ \E w \in Wall : CommitReserve(s, u, w) /\ task'[s][u].event = Signed(s, w)
<1>e. ASSUME NEW r \in Replica, NEW t \in Thread, NEW job, Enter(r, t, job), job.op # "commit"
      PROVE  task'[s][u] = task[s][u]
  <2>1. CASE r = s /\ t = u
    BY <1>e, <2>1 DEF Enter, TypeOK, Doing
  <2>2. CASE ~(r = s /\ t = u)
    BY <1>e, <2>2 DEF Enter, TypeOK
  <2> QED
    BY <2>1, <2>2
<1>r. ASSUME NEW r \in Replica, NEW t \in Thread, Return(r, t)
      PROVE  task'[s][u] = task[s][u]
  <2>1. Enter(r, t, Idle) /\ Idle.op # "commit"
    BY <1>r DEF Return, Enter, Idle
  <2> QED
    BY <1>e, <2>1
<1>c. ASSUME NEW r \in Replica, NEW t \in Thread, NEW left, NEW O, Continue(r, t, left, O)
      PROVE  task'[s][u] = task[s][u]
  BY <1>c, <1>e, ContinueJob DEF Idle
<1>1. ASSUME NEW r \in Replica, NEW t \in Thread, NEW w \in Wall, CommitReserve(r, t, w)
      PROVE  \/ task'[s][u] = task[s][u]
             \/ CommitReserve(s, u, w) /\ task'[s][u].event = Signed(s, w)
  <2>0. Enter(r, t, [op |-> "commit", event |-> Signed(r, w)])
    BY <1>1 DEF CommitReserve, Signed
  <2>1. CASE r = s /\ t = u
    BY <1>1, <2>0, <2>1 DEF Enter, TypeOK
  <2>2. CASE ~(r = s /\ t = u)
    BY <2>0, <2>2 DEF Enter, TypeOK
  <2> QED
    BY <2>1, <2>2
<1>2. ASSUME NEW r \in Replica, NEW t \in Thread, Local(r, t),
             ~\E w \in Wall : CommitReserve(r, t, w)
      PROVE  task'[s][u] = task[s][u]
  BY <1>2, <1>e, <1>r
     DEF Local, CommitPut, RedactReserve, RedactRecord, RedactShred, SnapshotRead, SnapshotPut,
         PutBlobCheck, PutBlobStore
<1>3. ASSUME NEW r \in Replica, NEW t \in Thread, Sync(r, t)
      PROVE  task'[s][u] = task[s][u]
  <2>1. CASE ExportRest(r, t) \/ ImportError(r, t)
    BY <1>r, <2>1 DEF ExportRest, ImportError
  <2>2. CASE \/ \E to \in Replica : ExportEvents(r, t, to)
             \/ \E delta \in wire : ImportStart(r, t, delta)
    BY <1>e, <2>2 DEF ExportEvents, ImportStart
  <2>3. CASE \/ ImportAuth(r, t) \/ ImportEvent(r, t) \/ ImportSnapshot(r, t)
             \/ ImportTombstone(r, t) \/ ImportShred(r, t) \/ ImportBlob(r, t)
    BY <1>c, <2>3
       DEF ImportAuth, ImportEvent, ImportSnapshot, ImportTombstone, ImportShred, ImportBlob
  <2> QED
    BY <1>3, <2>1, <2>2, <2>3 DEF Sync
<1>4. ASSUME NEW r \in Replica, Crash(r)
      PROVE  task'[s][u] = task[s][u]
  BY <1>4 DEF Crash, TypeOK, Doing, Idle
<1>5. CASE (\E delta \in wire : LoseDelta(delta)) \/ UNCHANGED vars
  BY <1>5 DEF LoseDelta, vars
<1> QED
  BY <1>1, <1>2, <1>3, <1>4, <1>5 DEF Next

\* The clock of a device moves by reserve_clock alone.
LEMMA DeviceSteps ==
  ASSUME TypeOK, [Next]_vars, NEW s \in Replica
  PROVE  \/ device'[s] = device[s]
         \/ \E w \in Wall : device'[s] = Reserve(device[s], w)
<1>1. ASSUME NEW r \in Replica, NEW w \in Wall,
             device' = [device EXCEPT ![r] = Reserve(device[r], w)]
      PROVE  device'[s] = device[s] \/ device'[s] = Reserve(device[s], w)
  BY <1>1 DEF TypeOK
<1>2. ASSUME NEW r \in Replica, NEW t \in Thread, Local(r, t), device' # device
      PROVE  \E w \in Wall : device' = [device EXCEPT ![r] = Reserve(device[r], w)]
  BY <1>2 DEF Local, CommitReserve, CommitPut, RedactReserve, RedactRecord, RedactShred,
              SnapshotRead, SnapshotPut, PutBlobCheck, PutBlobStore, store
<1>3. ASSUME NEW r \in Replica, NEW t \in Thread, Sync(r, t)
      PROVE  device' = device
  BY <1>3 DEF Sync, ExportEvents, ExportRest, ImportStart, ImportAuth, ImportEvent,
              ImportSnapshot, ImportTombstone, ImportShred, ImportBlob, ImportError, store
<1>4. CASE \/ \E r \in Replica : Crash(r)
           \/ \E delta \in wire : LoseDelta(delta)
           \/ UNCHANGED vars
  BY <1>4 DEF Crash, LoseDelta, store, vars
<1> QED
  BY <1>1, <1>2, <1>3, <1>4 DEF Next

\* Only issued events are stored.
LEMMA StoredWasIssued ==
  ASSUME TypeOK, Circulating, [Next]_vars, NEW e \in Events(Existing)'
  PROVE  /\ e \in Event
         /\ \/ e \in Events(Existing)
            \/ \E s \in Replica, t \in Thread :
                 /\ CommitPut(s, t) /\ Doing(s, t, "commit") /\ task[s][t].event = e
                 /\ e \in rows'[s]
<1>1. PICK s \in Replica : e \in rows'[s] /\ e.kind = "event"
  BY DEF Events, Existing
<1>2. e \in Event
  BY TypeStays, <1>1, EventKind DEF TypeOK, Events
<1>3. CASE e \in rows[s]
  BY <1>1, <1>2, <1>3 DEF Events, Existing
<1>4. CASE e \notin rows[s]
  BY <1>1, <1>2, <1>4, EventArrives DEF Circulating, Events
<1> QED
  BY <1>2, <1>3, <1>4

\* A step issues at most the event of a commit that has just begun.
LEMMA IssuedSteps ==
  ASSUME TypeOK, Circulating, [Next]_vars, NEW e \in Issued'
  PROVE  \/ e \in Issued
         \/ \E r \in Replica, t \in Thread, w \in Wall : CommitReserve(r, t, w) /\ e = Signed(r, w)
<1>1. CASE e \in Events(Existing)'
  BY <1>1, StoredWasIssued DEF Issued, InHand
<1>2. CASE e \in InHand'
  <2>1. PICK s \in Replica, u \in Thread : Doing(s, u, "commit")' /\ task'[s][u].event = e
    BY <1>2 DEF InHand
  <2>2. e \in Event
    BY <1>2 DEF InHand
  <2>3. CASE task'[s][u] = task[s][u]
    BY <2>1, <2>2, <2>3 DEF Doing, InHand, Issued
  <2> QED
    BY <2>1, <2>3, HandSteps
<1> QED
  BY <1>1, <1>2 DEF Issued


\* What a delta or a thread carries stays stored, and what it is given is.
LEMMA CirculatingStays ==
  ASSUME TypeOK, ShredsRecorded, Circulating, [Next]_vars
  PROVE  Circulating'
<1>g. Existing \subseteq Existing'
  BY StoreGrows DEF Existing
<1> DEFINE Carried(job) == /\ job.op = "export" => job.events \subseteq Existing'
                           /\ job.op = "import" => job.todo.events \subseteq Existing'
<1>1. ASSUME NEW s \in Replica, NEW u \in Thread
      PROVE  Carried(task'[s][u])
  <2>0. Carried(task[s][u])
    BY <1>g DEF Circulating, Doing
  <2>e. ASSUME NEW r \in Replica, NEW t \in Thread, NEW job, Enter(r, t, job), Carried(job)
        PROVE  Carried(task'[s][u])
    <3>1. task'[s][u] = job \/ task'[s][u] = task[s][u]
      BY <2>e DEF Enter, TypeOK
    <3> QED
      BY <2>0, <2>e, <3>1
  <2>r. ASSUME NEW r \in Replica, NEW t \in Thread, Return(r, t)
        PROVE  Carried(task'[s][u])
    <3>1. Enter(r, t, Idle) /\ Carried(Idle)
      BY <2>r DEF Return, Enter, Idle
    <3> QED
      BY <2>e, <3>1
  <2>c. ASSUME NEW r \in Replica, NEW t \in Thread, NEW left, NEW O, Continue(r, t, left, O),
               Doing(r, t, "import"), left.events \subseteq task[r][t].todo.events
        PROVE  Carried(task'[s][u])
    <3> DEFINE job == [op |-> "import", mine |-> task[r][t].mine, todo |-> left, shred |-> O]
    <3>1. Carried(job) /\ Carried(Idle)
      BY <1>g, <2>c DEF Circulating, Idle
    <3>2. Enter(r, t, Idle) \/ Enter(r, t, job)
      BY <2>c, ContinueJob
    <3> HIDE DEF job, Carried
    <3> QED
      BY <2>e, <3>1, <3>2
  <2>n. ASSUME NEW r \in Replica, NEW t \in Thread, NEW job, Enter(r, t, job),
               job.op \notin {"export", "import"}
        PROVE  Carried(task'[s][u])
    BY <2>n, <2>e
  <2> HIDE DEF Carried
  <2>1. ASSUME NEW r \in Replica, NEW t \in Thread, Local(r, t)
        PROVE  Carried(task'[s][u])
    BY <2>1, <2>n, <2>r
       DEF Local, CommitReserve, CommitPut, RedactReserve, RedactRecord, RedactShred,
           SnapshotRead, SnapshotPut, PutBlobCheck, PutBlobStore
  <2>2. ASSUME NEW r \in Replica, NEW t \in Thread, Sync(r, t)
        PROVE  Carried(task'[s][u])
    <3>1. CASE ExportRest(r, t) \/ ImportError(r, t)
      BY <2>r, <3>1 DEF ExportRest, ImportError
    <3>2. ASSUME NEW to \in Replica, ExportEvents(r, t, to)
          PROVE  Carried(task'[s][u])
      <4>1. PICK f, E : /\ E = EventsAfter(r, f)
                        /\ Enter(r, t, [op |-> "export", to |-> to, remote |-> f, events |-> E])
        BY <3>2 DEF ExportEvents
      <4>2. E \subseteq Existing
        BY <4>1 DEF EventsAfter, Events, Live, Existing
      <4>3. Carried([op |-> "export", to |-> to, remote |-> f, events |-> E])
        BY <1>g, <4>2 DEF Carried
      <4> QED
        BY <2>e, <4>1, <4>3
    <3>3. ASSUME NEW delta \in wire, ImportStart(r, t, delta)
          PROVE  Carried(task'[s][u])
      <4> DEFINE job == [op |-> "import", mine |-> delta.to = r, todo |-> delta.body, shred |-> {}]
      <4>1. Enter(r, t, job)
        BY <3>3 DEF ImportStart
      <4>2. Carried(job)
        BY <1>g DEF Carried, Circulating
      <4> HIDE DEF job
      <4> QED
        BY <2>e, <4>1, <4>2
    <3>4. ASSUME Doing(r, t, "import"), NEW x
          PROVE  LET todo == task[r][t].todo
                 IN  /\ [todo EXCEPT !.auths = @ \ {x}].events \subseteq todo.events
                     /\ [todo EXCEPT !.events = @ \ {x}].events \subseteq todo.events
                     /\ [todo EXCEPT !.snaps = @ \ {x}].events \subseteq todo.events
                     /\ [todo EXCEPT !.tombs = @ \ {x}].events \subseteq todo.events
                     /\ [todo EXCEPT !.blobs = @ \ {x}].events \subseteq todo.events
      <4>1. task[r][t].todo \in Body
        BY <3>4, TaskFields DEF Doing, TypeOK
      <4> QED
        BY <4>1 DEF Body
    <3>5. CASE ImportAuth(r, t)
      BY <2>c, <3>4, <3>5 DEF ImportAuth
    <3>6. CASE ImportEvent(r, t)
      BY <2>c, <3>4, <3>6 DEF ImportEvent
    <3>7. CASE ImportSnapshot(r, t)
      BY <2>c, <3>4, <3>7 DEF ImportSnapshot
    <3>8. CASE ImportTombstone(r, t)
      BY <2>c, <3>4, <3>8 DEF ImportTombstone
    <3>9. CASE ImportBlob(r, t)
      BY <2>c, <3>4, <3>9 DEF ImportBlob
    <3>10. CASE ImportShred(r, t)
      BY <2>c, <3>10 DEF ImportShred
    <3> QED
      BY <2>2, <3>1, <3>2, <3>3, <3>5, <3>6, <3>7, <3>8, <3>9, <3>10 DEF Sync
  <2>3. ASSUME NEW r \in Replica, Crash(r)
        PROVE  Carried(task'[s][u])
    <3>1. task'[s][u] = task[s][u] \/ task'[s][u] = Idle
      BY <2>3 DEF Crash, TypeOK
    <3> QED
      BY <2>0, <3>1 DEF Carried, Idle
  <2>4. CASE (\E delta \in wire : LoseDelta(delta)) \/ UNCHANGED vars
    BY <2>0, <2>4 DEF LoseDelta, vars
  <2> QED
    BY <2>1, <2>2, <2>3, <2>4 DEF Next
<1>2. ASSUME NEW delta \in wire'
      PROVE  delta.body.events \subseteq Existing'
  <2>1. CASE delta \in wire
    BY <1>g, <2>1 DEF Circulating
  <2>2. CASE delta \notin wire
    BY <1>g, <2>2, WireSteps DEF ExportRest, Doing, BodyAfter, Circulating
  <2> QED
    BY <2>1, <2>2
<1> QED
  BY <1>1, <1>2 DEF Circulating, Doing

\* The events of a device are issued in canonical order: a new one is signed at
\* a clock value that no earlier one is ahead of.
LEMMA OrderHolds == Spec => []OrderInv
<1>1. Init => OrderInv
  BY DEF Init, OrderInv, Clocked, IssuedInOrder, Circulating, Issued, InHand, Events, Existing,
         Doing, Idle
<1>2. TypeOK /\ ShredsRecorded /\ OrderInv /\ [Next]_vars => OrderInv'
  <2> SUFFICES ASSUME TypeOK, ShredsRecorded, OrderInv, [Next]_vars
               PROVE  OrderInv'
    OBVIOUS
  <2>0. Clocked /\ IssuedInOrder /\ Circulating
    BY DEF OrderInv
  <2>t. Issued \in SUBSET Event
    BY IssuedType
  <2>d. ASSUME NEW r \in Replica
        PROVE  /\ device[r] \in DeviceRecord /\ device'[r] \in DeviceRecord
               /\ device[r].next <= device'[r].next
               /\ Behind(device[r], device'[r])
    <3>1. device[r] \in DeviceRecord /\ device'[r] \in DeviceRecord
      BY TypeStays DEF TypeOK
    <3>2. device'[r] = device[r] \/ \E w \in Wall : device'[r] = Reserve(device[r], w)
      BY DeviceSteps
    <3>3. device[r].next <= device[r].next /\ Behind(device[r], device[r])
      BY <3>1, BoundAssumption, ReplicaAssumption DEF DeviceRecord, Walls, Behind
    <3> QED
      BY <3>1, <3>2, <3>3, ReserveAdvances
  <2>n. ASSUME NEW r \in Replica, NEW t \in Thread, NEW w \in Wall, CommitReserve(r, t, w)
        PROVE  /\ Signed(r, w) \in Event
               /\ Signed(r, w).dev = r /\ Signed(r, w).seq = device[r].next
               /\ Signed(r, w).wall = device'[r].wall /\ Signed(r, w).ctr = device'[r].ctr
    <3>1. device'[r] = Reserve(device[r], w)
      BY <2>n DEF CommitReserve, TypeOK
    <3>2. device[r].next \in 0..SeqMax /\ device'[r].wall \in Walls /\ device'[r].ctr \in 0..CounterMax
      BY <2>d DEF DeviceRecord
    <3> QED
      BY <3>1, <3>2 DEF Signed, Event
  <2>1. ASSUME NEW e \in Issued'
        PROVE  /\ 1 <= e.seq /\ e.seq <= device'[e.dev].next
               /\ Behind(e, device'[e.dev])
    <3>1. CASE e \in Issued
      <4>1. e \in Event /\ e.dev \in Replica /\ e.seq \in Nat
        BY <2>t, <3>1, BoundAssumption DEF Event
      <4>2. 1 <= e.seq /\ e.seq <= device[e.dev].next /\ Behind(e, device[e.dev])
        BY <2>0, <3>1 DEF Clocked
      <4>3. /\ device[e.dev] \in DeviceRecord /\ device'[e.dev] \in DeviceRecord
            /\ device[e.dev].next <= device'[e.dev].next
            /\ Behind(device[e.dev], device'[e.dev])
        BY <2>d, <4>1
      <4>4. device[e.dev].next \in Nat /\ device'[e.dev].next \in Nat
        BY <4>3, BoundAssumption DEF DeviceRecord
      <4>5. Behind(e, device'[e.dev])
        BY <4>1, <4>2, <4>3, BehindStays
      <4> QED
        BY <4>1, <4>2, <4>3, <4>4, <4>5
    <3>2. ASSUME NEW r \in Replica, NEW t \in Thread, NEW w \in Wall,
                 CommitReserve(r, t, w), e = Signed(r, w)
          PROVE  /\ 1 <= e.seq /\ e.seq <= device'[e.dev].next
                 /\ Behind(e, device'[e.dev])
      <4>1. e.dev = r /\ e.seq = device[r].next /\ e.wall = device'[r].wall /\ e.ctr = device'[r].ctr
        BY <2>n, <3>2
      <4>2. device[r].next >= 1 /\ device[r].next \in Nat
        BY <2>0, <2>d, BoundAssumption DEF Clocked, DeviceRecord
      <4>3. Behind(e, device'[r])
        BY <4>1, <2>d, BoundAssumption DEF Behind, DeviceRecord
      <4> QED
        BY <2>d, <4>1, <4>2, <4>3
    <3> QED
      BY <2>0, <3>1, <3>2, IssuedSteps
  <2>2. ASSUME NEW e \in Issued', NEW f \in Issued', e.dev = f.dev, e.seq < f.seq
        PROVE  Before(e, f)
    <3>t. /\ e \in Event /\ f \in Event
          /\ e.seq \in Nat /\ f.seq \in Nat /\ e.wall \in Nat /\ f.wall \in Nat
          /\ e.ctr \in Nat /\ f.ctr \in Nat
      <4>1. e \in Event /\ f \in Event
        BY <2>t, <2>n, <2>0, IssuedSteps
      <4> QED
        BY <4>1, BoundAssumption, NumberTypes DEF Event
    <3>1. CASE e \in Issued /\ f \in Issued
      BY <2>0, <2>2, <3>1 DEF IssuedInOrder
    <3>2. ASSUME NEW r \in Replica, NEW t \in Thread, NEW w \in Wall,
                 CommitReserve(r, t, w), f = Signed(r, w)
          PROVE  Before(e, f)
      <4>1. f.dev = r /\ f.seq = device[r].next /\ f.wall = device'[r].wall /\ f.ctr = device'[r].ctr
        BY <2>n, <3>2
      <4>2. Behind(e, device'[r])
        BY <2>1, <2>2, <4>1
      <4> QED
        BY <2>2, <3>t, <4>1, <4>2 DEF Before, Behind
    <3>3. ASSUME NEW r \in Replica, NEW t \in Thread, NEW w \in Wall,
                 CommitReserve(r, t, w), e = Signed(r, w), f \in Issued
          PROVE  FALSE
      <4>1. e.dev = r /\ e.seq = device[r].next
        BY <2>n, <3>3
      <4>2. f.seq <= device[r].next
        BY <2>0, <2>2, <3>3, <4>1 DEF Clocked
      <4> QED
        BY <2>2, <3>t, <4>1, <4>2
    <3> QED
      BY <2>0, <3>1, <3>2, <3>3, IssuedSteps
  <2>3. \A r \in Replica : device'[r].next >= 1
    <3> SUFFICES ASSUME NEW r \in Replica PROVE device'[r].next >= 1
      OBVIOUS
    <3>1. device[r].next \in Nat /\ device'[r].next \in Nat
      BY <2>d, BoundAssumption DEF DeviceRecord
    <3> QED
      BY <2>0, <2>d, <3>1 DEF Clocked
  <2>4. Clocked' /\ IssuedInOrder'
    BY <2>1, <2>2, <2>3 DEF Clocked, IssuedInOrder, Before, Behind
  <2> QED
    BY <2>0, <2>4, CirculatingStays DEF OrderInv
<1> QED
  BY <1>1, <1>2, ShredsAreRecorded, PTL DEF Spec

\* Sorting by wall clock, counter, device and sequence (event_order_key) puts the
\* events of one device in the order in which it wrote them, although its
\* system clock may jump back and the counter may saturate.
THEOREM CanonicalOrderIsWriteOrder == Spec => []CanonicalOrderFollowsDevice
<1>1. OrderInv => CanonicalOrderFollowsDevice
  BY DEF OrderInv, IssuedInOrder, CanonicalOrderFollowsDevice, Issued
<1> QED
  BY <1>1, OrderHolds, PTL

-----------------------------------------------------------------------------
(* No gaps. *)

Numbered ==
  /\ \A e \in Issued : e.seq < device[e.dev].next
  /\ \A e, f \in Issued : e.dev = f.dev /\ e.seq = f.seq => e = f

\* The event in hand is the newest of its device, and the only one in hand.
Newest ==
  \A r \in Replica, t \in Thread :
    Doing(r, t, "commit") =>
      /\ gate[r] = t
      /\ \A e \in Events(Existing) : e.dev = r => e.seq < task[r][t].event.seq

\* A device has its own events.
Home == \A e \in Events(Existing) : e \in rows[e.dev]

Reached(r, e) == e \in rows[r] \/ \E s \in Replica : Tombstoned(s, e)

\* With an event of S, replica r has the earlier ones or gets them from S.
Gapless(r, S) ==
  \A e \in Events(Existing), f \in Events(S) :
    e.dev = f.dev /\ e.seq < f.seq => Reached(r, e) \/ e \in S

JobGapless(r, job) ==
  /\ job.op = "export" => Gapless(job.to, job.events)
  /\ job.op = "import" => Gapless(r, job.todo.events)

GapInv ==
  /\ Numbered
  /\ Newest
  /\ Home
  /\ \A r \in Replica : Gapless(r, rows[r])
  /\ \A r \in Replica, t \in Thread : JobGapless(r, task[r][t])
  /\ \A delta \in wire : Gapless(delta.to, delta.body.events)

\* The sequence numbers that devices may reserve stay below u64::MAX, where
\* saturating_add would hand out the same one again.
Unsaturated == \A r \in Replica : MaxSeq[r] < SeqMax

\* Who holds the gate keeps it until its operation is over.
LEMMA GateSteps ==
  ASSUME TypeOK, [Next]_vars, NEW s \in Replica, NEW u \in Thread, gate[s] = u
  PROVE  gate'[s] = u \/ task'[s][u] = Idle
<1>l. ASSUME NEW r \in Replica, NEW t \in Thread, Lock(r, t)
      PROVE  gate'[s] = u
  BY <1>l, NoThreadAssumption DEF Lock, GateFree, TypeOK
<1>r. ASSUME NEW r \in Replica, NEW t \in Thread, Return(r, t)
      PROVE  gate'[s] = u \/ task'[s][u] = Idle
  <2>1. CASE r = s /\ t = u
    BY <1>r, <2>1 DEF Return, TypeOK
  <2>2. CASE ~(r = s /\ t = u)
    BY <1>r, <2>2 DEF Return, TypeOK
  <2> QED
    BY <2>1, <2>2
<1>1. ASSUME NEW r \in Replica, NEW t \in Thread, Local(r, t)
      PROVE  gate'[s] = u \/ task'[s][u] = Idle
  BY <1>1, <1>l, <1>r
     DEF Local, CommitReserve, CommitPut, RedactReserve, RedactRecord, RedactShred,
         SnapshotRead, SnapshotPut, PutBlobCheck, PutBlobStore
<1>2. ASSUME NEW r \in Replica, NEW t \in Thread, Sync(r, t)
      PROVE  gate'[s] = u \/ task'[s][u] = Idle
  <2>c. ASSUME NEW left, NEW O, Continue(r, t, left, O)
        PROVE  gate'[s] = u \/ task'[s][u] = Idle
    BY <1>r, <2>c DEF Continue
  <2>1. CASE ExportRest(r, t) \/ ImportError(r, t)
    BY <1>r, <2>1 DEF ExportRest, ImportError
  <2>2. CASE \/ \E to \in Replica : ExportEvents(r, t, to)
             \/ \E delta \in wire : ImportStart(r, t, delta)
    BY <1>l, <2>2 DEF ExportEvents, ImportStart
  <2>3. CASE \/ ImportAuth(r, t) \/ ImportEvent(r, t) \/ ImportSnapshot(r, t)
             \/ ImportTombstone(r, t) \/ ImportShred(r, t) \/ ImportBlob(r, t)
    BY <2>c, <2>3
       DEF ImportAuth, ImportEvent, ImportSnapshot, ImportTombstone, ImportShred, ImportBlob
  <2> QED
    BY <1>2, <2>1, <2>2, <2>3 DEF Sync
<1>3. ASSUME NEW r \in Replica, Crash(r)
      PROVE  gate'[s] = u \/ task'[s][u] = Idle
  BY <1>3 DEF Crash, TypeOK
<1>4. CASE (\E delta \in wire : LoseDelta(delta)) \/ UNCHANGED vars
  BY <1>4 DEF LoseDelta, vars
<1> QED
  BY <1>1, <1>2, <1>3, <1>4 DEF Next

\* All that is known of a state when a step begins.
LogState == /\ TypeOK /\ ShredsRecorded /\ ShredExplained
            /\ AuthorityInv /\ OrderInv /\ GapInv

\* A newly stored event is the newest of its device.
LEMMA NewIsNewest ==
  ASSUME LogState, [Next]_vars, NEW e \in Events(Existing)', e \notin Events(Existing)
  PROVE  /\ e \in rows'[e.dev] /\ e.dev \in Replica
         /\ CommitPut(e.dev, gate[e.dev]) /\ gate[e.dev] \in Thread
         /\ \A f \in Events(Existing) : f.dev = e.dev => f.seq < e.seq
         /\ \A f \in Events(Existing)' : f.dev = e.dev => f = e \/ f.seq < e.seq
<1>0. TypeOK /\ Circulating /\ Newest /\ AuthorityInv
  BY DEF LogState, OrderInv, GapInv
<1>1. PICK s \in Replica, t \in Thread :
        /\ CommitPut(s, t) /\ Doing(s, t, "commit") /\ task[s][t].event = e
        /\ e \in rows'[s]
  BY <1>0, StoredWasIssued
<1>2. e.dev = s
  BY <1>0, <1>1 DEF AuthorityInv, JobVouched, Doing
<1>3. gate[s] = t /\ \A f \in Events(Existing) : f.dev = s => f.seq < e.seq
  BY <1>0, <1>1 DEF Newest
<1>4. ASSUME NEW f \in Events(Existing)', f.dev = s, f \notin Events(Existing)
      PROVE  f = e
  <2>1. PICK s2 \in Replica, t2 \in Thread : Doing(s2, t2, "commit") /\ task[s2][t2].event = f
    BY <1>0, <1>4, StoredWasIssued
  <2>2. s2 = s
    BY <1>0, <1>4, <2>1 DEF AuthorityInv, JobVouched, Doing
  <2>3. gate[s2] = t2
    BY <1>0, <2>1 DEF Newest
  <2> QED
    BY <1>1, <1>3, <2>1, <2>2, <2>3
<1> QED
  BY <1>1, <1>2, <1>3, <1>4

\* What has reached a replica stays there.
LEMMA ReachedStays ==
  ASSUME TypeOK, ShredsRecorded, [Next]_vars, NEW r \in Replica, NEW e, Reached(r, e)
  PROVE  Reached(r, e)'
<1>1. \A s \in Replica : rows[s] \subseteq rows'[s] /\ tombs[s] \subseteq tombs'[s]
  BY StoreGrows
<1> QED
  BY <1>1 DEF Reached, Tombstoned, Targets

\* New events leave no gap below stored ones.
LEMMA GaplessStays ==
  ASSUME LogState, [Next]_vars, NEW r \in Replica, NEW S, S \subseteq Existing, Gapless(r, S)
  PROVE  Gapless(r, S)'
<1> SUFFICES ASSUME NEW e \in Events(Existing)', NEW f \in Events(S),
                    e.dev = f.dev, e.seq < f.seq
             PROVE  Reached(r, e)' \/ e \in S
  BY DEF Gapless, Events
<1>0. TypeOK /\ ShredsRecorded
  BY DEF LogState
<1>1. f \in Events(Existing)
  BY DEF Events
<1>2. CASE e \in Events(Existing)
  BY <1>0, <1>2, ReachedStays DEF Gapless
<1>3. CASE e \notin Events(Existing)
  <2>1. f.seq < e.seq
    BY <1>1, <1>3, NewIsNewest
  <2>2. e \in Event /\ f \in Event
    BY <1>0, <1>1, IssuedType, StoredWasIssued DEF LogState, OrderInv
  <2>3. e.seq \in Nat /\ f.seq \in Nat
    BY <2>2, NumberTypes DEF Event
  <2> QED
    BY <2>1, <2>3
<1> QED
  BY <1>2, <1>3

\* A frontier is the number of a stored event, and so stands for what is below.
LEMMA GapInvImplies ==
  ASSUME TypeOK, Clocked, GapInv
  PROVE  NoGap
<1> SUFFICES ASSUME NEW r \in Replica, NEW e \in Events(Existing),
                    e.seq <= FrontierOf(r)[e.dev]
             PROVE  Reached(r, e)
  BY DEF NoGap, Reached
<1>1. e \in Event /\ e \in Issued /\ 1 <= e.seq
  BY IssuedType DEF Issued, Clocked
<1>2. e.dev \in Replica /\ e.seq \in Nat
  BY <1>1, NumberTypes DEF Event
<1> DEFINE seqs == {0} \cup {x.seq : x \in {y \in Events(Live(r)) : y.dev = e.dev}}
<1>3. FrontierOf(r)[e.dev] = CHOOSE n \in seqs : \A m \in seqs : m <= n
  BY <1>2 DEF FrontierOf
<1>4. Events(Live(r)) \in SUBSET Event
  BY KindTypes DEF TypeOK, Live
<1>5. seqs \in SUBSET (0..SeqMax) /\ seqs # {}
  BY <1>4, BoundAssumption DEF Event
<1>6. FrontierOf(r)[e.dev] \in seqs
  <2> HIDE DEF seqs
  <2>1. \E n \in seqs : \A m \in seqs : m <= n
    BY <1>5, GreatestBelow, BoundAssumption
  <2> QED
    BY <1>3, <2>1
<1>7. PICK f \in Events(Live(r)) : f.dev = e.dev /\ f.seq = FrontierOf(r)[e.dev]
  BY <1>1, <1>2, <1>6
<1>8. f \in Event /\ f.seq \in Nat /\ f \in Events(rows[r]) /\ f \in Issued
  BY <1>4, <1>7, NumberTypes DEF Event, Events, Live, Issued, Existing
<1>9. CASE e.seq = f.seq
  BY <1>1, <1>7, <1>8, <1>9 DEF GapInv, Numbered, Reached, Events
<1>10. CASE e.seq < f.seq
  BY <1>7, <1>8, <1>10 DEF GapInv, Gapless, Reached
<1> QED
  BY <1>2, <1>7, <1>8, <1>9, <1>10

\* What a thread carries leaves no gap after a step of its own.
LEMMA NextJobGapless ==
  ASSUME LogState, ~Misdelivery, [Next]_vars, NEW r \in Replica, NEW t \in Thread,
         Local(r, t) \/ Sync(r, t)
  PROVE  \E job : Enter(r, t, job) /\ JobGapless(r, job)'
<1> DEFINE Goal == \E job : Enter(r, t, job) /\ JobGapless(r, job)'
           todo == task[r][t].todo
<1>0. /\ TypeOK /\ ShredsRecorded /\ ShredExplained
      /\ AuthorityInv /\ Circulating /\ GapInv
  BY DEF LogState, OrderInv
<1>e. ASSUME NEW job, Enter(r, t, job), job.op \notin {"export", "import"}
      PROVE  Goal
  <2>1. JobGapless(r, job)'
    BY <1>e DEF JobGapless
  <2> QED
    BY <1>e, <2>1
<1>r. ASSUME Return(r, t)
      PROVE  Goal
  <2>1. Enter(r, t, Idle) /\ Idle.op \notin {"export", "import"}
    BY <1>r DEF Return, Enter, Idle
  <2> QED
    BY <1>e, <2>1
<1>c. ASSUME NEW left, NEW O, Continue(r, t, left, O), Gapless(r, left.events)'
      PROVE  Goal
  <2>0. PICK m : m = task[r][t].mine
    OBVIOUS
  <2> DEFINE job == [op |-> "import", mine |-> m, todo |-> left, shred |-> O]
  <2>1. JobGapless(r, job)' /\ Idle.op \notin {"export", "import"}
    BY <1>c DEF JobGapless, Idle
  <2>2. Enter(r, t, Idle) \/ Enter(r, t, job)
    BY <1>c, <2>0, ContinueJob
  <2> HIDE DEF job
  <2> QED
    BY <1>e, <2>1, <2>2
<1>t. ASSUME Doing(r, t, "import")
      PROVE  todo \in Body /\ todo.events \subseteq Existing /\ Gapless(r, todo.events)
  BY <1>0, <1>t, TaskFields DEF TypeOK, Doing, Circulating, GapInv, JobGapless
<1>u. ASSUME NEW left, NEW O, Doing(r, t, "import"), Continue(r, t, left, O),
             left.events = todo.events
      PROVE  Goal
  <2>1. PICK E : E = todo.events
    OBVIOUS
  <2>2. Gapless(r, E)'
    BY <1>u, <1>t, <2>1, GaplessStays
  <2>3. Gapless(r, left.events)'
    BY <1>u, <2>1, <2>2
  <2> QED
    BY <1>u, <1>c, <2>3
<1>b. ASSUME Doing(r, t, "import"), NEW x
      PROVE  /\ [todo EXCEPT !.auths = @ \ {x}].events = todo.events
             /\ [todo EXCEPT !.events = @ \ {x}].events = todo.events \ {x}
             /\ [todo EXCEPT !.snaps = @ \ {x}].events = todo.events
             /\ [todo EXCEPT !.tombs = @ \ {x}].events = todo.events
             /\ [todo EXCEPT !.blobs = @ \ {x}].events = todo.events
  <2>1. todo \in Body
    BY <1>b, <1>t
  <2> HIDE DEF todo
  <2> QED
    BY <2>1 DEF Body
<1> SUFFICES Goal
  OBVIOUS
<1> HIDE DEF Goal, todo
<1>1. ASSUME Local(r, t)
      PROVE  Goal
  BY <1>1, <1>e, <1>r
     DEF Local, CommitReserve, CommitPut, RedactReserve, RedactRecord, RedactShred,
         SnapshotRead, SnapshotPut, PutBlobCheck, PutBlobStore
<1>2. CASE ExportRest(r, t) \/ ImportError(r, t)
  BY <1>2, <1>r DEF ExportRest, ImportError
<1>3. ASSUME NEW to \in Replica, ExportEvents(r, t, to)
      PROVE  Goal
  <2>0. PICK f, E : f = SyncFrontierOf(to) /\ E = EventsAfter(r, f)
    OBVIOUS
  <2> DEFINE job == [op |-> "export", to |-> to, remote |-> f, events |-> E]
  <2>1. Enter(r, t, job)
    BY <1>3, <2>0 DEF ExportEvents
  <2>2. E = {x \in Events(Live(r)) : x.seq > FrontierOf(to)[x.dev]}
    BY <2>0 DEF EventsAfter, SyncFrontierOf
  <2>3. E \subseteq Existing
    BY <2>2 DEF Events, Live, Existing
  <2>4. Gapless(to, E)
    <3> SUFFICES ASSUME NEW e \in Events(Existing), NEW x \in Events(E),
                        e.dev = x.dev, e.seq < x.seq, ~Reached(to, e)
                 PROVE  e \in E
      BY DEF Gapless
    <3>1. x \in Events(rows[r])
      BY <2>2 DEF Events, Live
    <3>2. Reached(r, e)
      BY <1>0, <3>1 DEF GapInv, Gapless, Reached
    <3>3. e \in rows[r] /\ ~Tombstoned(r, e)
      BY <3>2 DEF Reached
    <3>4. e \in Events(Live(r))
      BY <1>0, <3>3 DEF ShredExplained, Events, Live
    <3>5. ~(e.seq <= FrontierOf(to)[e.dev])
      BY <1>0, GapInvImplies DEF LogState, OrderInv, NoGap, Reached
    <3>6. e \in Event
      BY <1>0, IssuedType
    <3>7. e.seq \in Nat /\ FrontierOf(to)[e.dev] \in Nat
      BY <1>0, <3>6, FrontierType, NumberTypes DEF Event, Frontier
    <3> QED
      BY <2>2, <3>4, <3>5, <3>7
  <2>5. Gapless(to, E)'
    BY <2>3, <2>4, GaplessStays
  <2>6. JobGapless(r, job)'
    BY <2>5 DEF JobGapless
  <2> QED
    BY <2>1, <2>6 DEF Goal
<1>4. ASSUME NEW delta \in wire, ImportStart(r, t, delta)
      PROVE  Goal
  <2> DEFINE job == [op |-> "import", mine |-> delta.to = r, todo |-> delta.body, shred |-> {}]
  <2>1. Enter(r, t, job) /\ delta.to = r
    BY <1>4 DEF ImportStart
  <2>2. Gapless(r, delta.body.events) /\ delta.body.events \subseteq Existing
    BY <1>0, <2>1 DEF GapInv, Circulating
  <2>3. Gapless(r, delta.body.events)'
    BY <2>2, GaplessStays
  <2>4. JobGapless(r, job)'
    BY <2>3 DEF JobGapless
  <2> QED
    BY <2>1, <2>4 DEF Goal
<1>5. CASE ImportAuth(r, t)
  BY <1>5, <1>u, <1>b DEF ImportAuth, todo
<1>6. CASE ImportEvent(r, t)
  <2>1. PICK x \in todo.events :
          PutEvent(r, x) /\ Continue(r, t, [todo EXCEPT !.events = @ \ {x}], {})
    BY <1>6 DEF ImportEvent, todo
  <2>2. Doing(r, t, "import")
    BY <1>6 DEF ImportEvent
  <2>3. PICK E, left : E = todo.events /\ left = [todo EXCEPT !.events = @ \ {x}]
    OBVIOUS
  <2>4. left.events = E \ {x}
    BY <1>b, <2>2, <2>3
  <2>5. Gapless(r, E)'
    BY <1>t, <2>2, <2>3, GaplessStays
  <2>6. Reached(r, x)'
    <3>1. CASE x \in rows'[r]
      BY <3>1 DEF Reached
    <3>2. CASE Tombstoned(r, x)
      <4>1. Reached(r, x)
        BY <3>2 DEF Reached
      <4> QED
        BY <1>0, <4>1, ReachedStays
    <3> QED
      BY <1>0, <2>1, <3>1, <3>2 DEF PutEvent, TypeOK
  <2>7. Gapless(r, left.events)'
    BY <2>4, <2>5, <2>6 DEF Gapless, Events
  <2> QED
    BY <1>c, <2>1, <2>3, <2>7
<1>7. CASE ImportSnapshot(r, t)
  BY <1>7, <1>u, <1>b DEF ImportSnapshot, todo
<1>8. CASE ImportTombstone(r, t)
  BY <1>8, <1>u, <1>b DEF ImportTombstone, todo
<1>9. CASE ImportBlob(r, t)
  BY <1>9, <1>u, <1>b DEF ImportBlob, todo
<1>10. CASE ImportShred(r, t)
  BY <1>10, <1>u DEF ImportShred, todo
<1> QED
  BY <1>1, <1>2, <1>3, <1>4, <1>5, <1>6, <1>7, <1>8, <1>9, <1>10 DEF Sync

\* Sequence numbers of a device are never given twice.
LEMMA NumberedStays ==
  ASSUME LogState, Unsaturated, [Next]_vars
  PROVE  Numbered'
<1>0. TypeOK /\ Circulating /\ Numbered
  BY DEF LogState, OrderInv, GapInv
<1>t. Issued \in SUBSET Event
  BY <1>0, IssuedType
<1>d. ASSUME NEW r \in Replica
      PROVE  /\ device[r].next \in Nat /\ device'[r].next \in Nat
             /\ device[r].next <= device'[r].next
  <2>1. device[r] \in DeviceRecord /\ device'[r] \in DeviceRecord
    BY <1>0, TypeStays DEF TypeOK
  <2>2. device[r].next \in Nat /\ device'[r].next \in Nat
    BY <2>1, NumberTypes DEF DeviceRecord
  <2>3. device'[r] = device[r] \/ \E w \in Wall : device'[r] = Reserve(device[r], w)
    BY <1>0, DeviceSteps
  <2> QED
    BY <2>1, <2>2, <2>3, ReserveAdvances
<1>n. ASSUME NEW r \in Replica, NEW t \in Thread, NEW w \in Wall, CommitReserve(r, t, w)
      PROVE  /\ Signed(r, w).dev = r /\ Signed(r, w).seq = device[r].next
             /\ device[r].next < device'[r].next
  <2>1. device[r] \in DeviceRecord /\ device'[r] = Reserve(device[r], w)
    BY <1>0, <1>n DEF CommitReserve, TypeOK
  <2>2. device[r].next < SeqMax
    BY <1>d, <1>n, BoundAssumption DEF CommitReserve, Unsaturated
  <2> QED
    BY <2>1, <2>2, ReserveAdvances DEF Signed
<1>1. ASSUME NEW e \in Issued'
      PROVE  e.seq < device'[e.dev].next
  <2>1. CASE e \in Issued
    <3>1. e.dev \in Replica /\ e.seq \in Nat
      BY <1>t, <2>1, NumberTypes DEF Event
    <3>2. e.seq < device[e.dev].next
      BY <1>0, <2>1 DEF Numbered
    <3> QED
      BY <1>d, <3>1, <3>2
  <2> QED
    BY <1>0, <1>n, <2>1, IssuedSteps
<1>2. ASSUME NEW e \in Issued', NEW f \in Issued', e.dev = f.dev, e.seq = f.seq
      PROVE  e = f
  <2>a. ASSUME NEW g \in Issued, NEW h, NEW r \in Replica, NEW t \in Thread, NEW w \in Wall,
               CommitReserve(r, t, w), h = Signed(r, w), g.dev = h.dev, g.seq = h.seq
        PROVE  FALSE
    <3>1. g.seq < device[r].next /\ g.seq = device[r].next
      BY <1>0, <1>n, <2>a DEF Numbered
    <3> QED
      BY <1>d, <3>1
  <2>b. ASSUME NEW r \in Replica, NEW t \in Thread, NEW w \in Wall, CommitReserve(r, t, w),
               NEW r2 \in Replica, NEW t2 \in Thread, NEW w2 \in Wall, CommitReserve(r2, t2, w2),
               e = Signed(r, w), f = Signed(r2, w2)
        PROVE  e = f
    <3>1. r = r2
      BY <1>2, <1>n, <2>b
    <3>2. Reserve(device[r], w) = Reserve(device[r], w2)
      BY <1>0, <2>b, <3>1 DEF CommitReserve, TypeOK
    <3> QED
      BY <2>b, <3>1, <3>2 DEF Signed
  <2>1. CASE e \in Issued /\ f \in Issued
    BY <1>0, <1>2, <2>1 DEF Numbered
  <2> QED
    BY <1>0, <1>2, <2>a, <2>b, <2>1, IssuedSteps
<1> QED
  BY <1>1, <1>2 DEF Numbered

\* A commit holds the gate from its clock value to its row, so that no later
\* number of the device is stored before it.
LEMMA NewestStays ==
  ASSUME LogState, [Next]_vars
  PROVE  Newest'
<1> SUFFICES ASSUME NEW s \in Replica, NEW u \in Thread, Doing(s, u, "commit")'
             PROVE  /\ gate'[s] = u
                    /\ \A e \in Events(Existing)' : e.dev = s => e.seq < task'[s][u].event.seq
  BY DEF Newest
<1>0. TypeOK /\ Circulating /\ Newest /\ Numbered
  BY DEF LogState, OrderInv, GapInv
<1>1. CASE task'[s][u] = task[s][u]
  <2>1. Doing(s, u, "commit") /\ task'[s][u] # Idle
    BY <1>1 DEF Doing, Idle
  <2>2. gate[s] = u
    BY <1>0, <2>1 DEF Newest
  <2>3. gate'[s] = u
    BY <1>0, <2>1, <2>2, GateSteps
  <2>4. ASSUME NEW e \in Events(Existing)', e.dev = s
        PROVE  e.seq < task'[s][u].event.seq
    <3>1. CASE e \in Events(Existing)
      BY <1>0, <1>1, <2>1, <2>4, <3>1 DEF Newest
    <3>2. CASE e \notin Events(Existing)
      <4>1. CommitPut(s, u)
        BY <2>2, <2>4, <3>2, NewIsNewest
      <4>2. task'[s][u] = Idle
        BY <1>0, <4>1 DEF CommitPut, Return, TypeOK
      <4> QED
        BY <2>1, <4>2
    <3> QED
      BY <3>1, <3>2
  <2> QED
    BY <2>3, <2>4
<1>2. ASSUME NEW w \in Wall, CommitReserve(s, u, w), task'[s][u].event = Signed(s, w)
      PROVE  /\ gate'[s] = u
             /\ \A e \in Events(Existing)' : e.dev = s => e.seq < task'[s][u].event.seq
  <2>1. gate'[s] = u
    BY <1>0, <1>2 DEF CommitReserve, Lock, TypeOK
  <2>2. Existing' = Existing
    BY <1>2 DEF CommitReserve, Existing
  <2>3. ASSUME NEW e \in Events(Existing)', e.dev = s
        PROVE  e.seq < Signed(s, w).seq
    BY <1>0, <2>2, <2>3 DEF Numbered, Issued, Signed, Events
  <2> QED
    BY <1>2, <2>1, <2>3
<1> QED
  BY <1>0, <1>1, <1>2, HandSteps

\* With an event the earlier ones of its device have reached a replica.
LEMMA RowsStayGapless ==
  ASSUME LogState, [Next]_vars, NEW s \in Replica
  PROVE  Gapless(s, rows[s])'
<1> SUFFICES ASSUME NEW e \in Events(Existing)', NEW f \in Events(rows[s])',
                    e.dev = f.dev, e.seq < f.seq
             PROVE  Reached(s, e)'
  BY DEF Gapless
<1>0. /\ TypeOK /\ ShredsRecorded /\ Circulating /\ IssuedInOrder
      /\ Newest /\ Home /\ AuthorityInv /\ GapInv
  BY DEF LogState, OrderInv, GapInv
<1>g. rows[s] \subseteq rows'[s]
  BY <1>0, StoreGrows
<1>f. f \in rows'[s] /\ f.kind = "event" /\ f \in Events(Existing)'
  BY DEF Events, Existing
<1>t. e \in Event /\ f \in Event
  BY <1>0, <1>f, StoredWasIssued
<1>u. e.seq \in Nat /\ f.seq \in Nat
  BY <1>t, NumberTypes DEF Event
<1>1. CASE f \in rows[s]
  <2>1. PICK S : S = rows[s]
    OBVIOUS
  <2>2. S \subseteq Existing /\ Gapless(s, S)
    BY <1>0, <2>1 DEF Existing, GapInv
  <2>3. Gapless(s, S)'
    BY <2>2, GaplessStays
  <2>4. Reached(s, e)' \/ e \in rows[s]
    BY <1>f, <1>1, <2>1, <2>3 DEF Gapless, Events
  <2> QED
    BY <1>g, <2>4 DEF Reached
<1>2. CASE f \notin rows[s]
  <2>o. e \in Events(Existing)
    <3>1. SUFFICES ASSUME e \notin Events(Existing) PROVE FALSE
      OBVIOUS
    <3>2. f = e \/ f.seq < e.seq
      BY <1>f, <3>1, NewIsNewest
    <3> QED
      BY <1>u, <3>2
  <2>1. ASSUME NEW t \in Thread, Doing(s, t, "commit"), task[s][t].event = f
        PROVE  Reached(s, e)'
    <3>1. f.dev = s
      BY <1>0, <2>1 DEF AuthorityInv, JobVouched, Doing
    <3>2. e \in rows[s]
      BY <1>0, <2>o, <3>1 DEF Home
    <3> QED
      BY <1>g, <3>2 DEF Reached
  <2>2. ASSUME NEW t \in Thread, Doing(s, t, "import"), f \in task[s][t].todo.events,
               IsFirst(f, task[s][t].todo.events)
        PROVE  Reached(s, e)'
    <3>1. f \in Events(Existing)
      BY <1>0, <1>f, <2>2 DEF Circulating, Events
    <3>2. Reached(s, e) \/ e \in task[s][t].todo.events
      BY <1>0, <1>f, <2>2, <2>o DEF GapInv, JobGapless, Gapless, Doing, Events
    <3>3. Before(e, f)
      BY <1>0, <2>o, <3>1 DEF IssuedInOrder, Issued
    <3>4. ~Before(f, e)
      <4>1. /\ e.wall \in Nat /\ e.ctr \in Nat /\ f.wall \in Nat /\ f.ctr \in Nat
            /\ e.dev \in Nat /\ f.dev \in Nat
        BY <1>t, NumberTypes, ReplicaAssumption DEF Event
      <4> QED
        BY <1>u, <3>3, <4>1 DEF Before
    <3>5. e # f
      BY <1>u
    <3>6. Reached(s, e)
      BY <2>2, <3>2, <3>4, <3>5 DEF IsFirst
    <3> QED
      BY <1>0, <3>6, ReachedStays
  <2> QED
    BY <1>0, <1>f, <1>t, <1>2, <2>1, <2>2, EventArrives
<1> QED
  BY <1>1, <1>2

\* The invariant behind frontier synchronisation.
LEMMA GapHolds ==
  ASSUME Unsaturated, ~Misdelivery
  PROVE  Spec => []GapInv
<1>1. Init => GapInv
  BY DEF Init, GapInv, Numbered, Newest, Home, Gapless, JobGapless, Issued, InHand, Events,
         Existing, Doing, Idle
<1>2. LogState /\ [Next]_vars => GapInv'
  <2> SUFFICES ASSUME LogState, [Next]_vars
               PROVE  GapInv'
    OBVIOUS
  <2>0. TypeOK /\ ShredsRecorded /\ Circulating /\ Home /\ GapInv
    BY DEF LogState, OrderInv, GapInv
  <2>1. Numbered' /\ Newest'
    BY NumberedStays, NewestStays
  <2>2. Home'
    <3> SUFFICES ASSUME NEW e \in Events(Existing)'
                 PROVE  e \in rows'[e.dev]
      BY DEF Home
    <3>1. CASE e \in Events(Existing)
      <4>1. e.dev \in Replica
        BY <2>0, <3>1, IssuedType DEF Event
      <4> QED
        BY <2>0, <3>1, <4>1, StoreGrows DEF Home
    <3>2. CASE e \notin Events(Existing)
      BY <3>2, NewIsNewest
    <3> QED
      BY <3>1, <3>2
  <2>3. \A s \in Replica : Gapless(s, rows[s])'
    BY RowsStayGapless
  <2>4. ASSUME NEW s \in Replica, NEW u \in Thread
        PROVE  JobGapless(s, task[s][u])'
    <3>1. ASSUME task'[s][u] = task[s][u]
          PROVE  JobGapless(s, task[s][u])'
      <4>1. PICK job : job = task[s][u]
        OBVIOUS
      <4>2. JobGapless(s, job) /\ job \in Task
        BY <2>0, <4>1 DEF GapInv, TypeOK
      <4>3. /\ job.op = "export" => job.to \in Replica /\ job.events \subseteq Existing
            /\ job.op = "import" => job.todo.events \subseteq Existing
        BY <2>0, <4>1, <4>2, TaskFields DEF Circulating, Doing
      <4>4. /\ job.op = "export" => Gapless(job.to, job.events)'
            /\ job.op = "import" => Gapless(s, job.todo.events)'
        BY <4>2, <4>3, GaplessStays DEF JobGapless
      <4>5. task'[s][u] = job
        BY <3>1, <4>1
      <4> QED
        BY <4>4, <4>5 DEF JobGapless
    <3>2. ASSUME task'[s][u] = Idle
          PROVE  JobGapless(s, task[s][u])'
      BY <3>2 DEF JobGapless, Idle
    <3>3. ASSUME NEW r \in Replica, NEW t \in Thread, Local(r, t) \/ Sync(r, t)
          PROVE  JobGapless(s, task[s][u])'
      <4>1. PICK job : Enter(r, t, job) /\ JobGapless(r, job)'
        BY <3>3, NextJobGapless
      <4>2. CASE s = r /\ u = t
        <5>1. task'[s][u] = job
          BY <2>0, <4>1, <4>2 DEF Enter, TypeOK
        <5> QED
          BY <4>1, <4>2, <5>1 DEF JobGapless
      <4>3. CASE ~(s = r /\ u = t)
        <5>1. task'[s][u] = task[s][u]
          BY <2>0, <4>1, <4>3 DEF Enter, TypeOK
        <5> QED
          BY <3>1, <5>1
      <4> QED
        BY <4>2, <4>3
    <3>4. ASSUME NEW r \in Replica, Crash(r)
          PROVE  JobGapless(s, task[s][u])'
      <4>1. task'[s][u] = task[s][u] \/ task'[s][u] = Idle
        BY <2>0, <3>4 DEF Crash, TypeOK
      <4> QED
        BY <3>1, <3>2, <4>1
    <3>5. CASE (\E delta \in wire : LoseDelta(delta)) \/ UNCHANGED vars
      BY <3>1, <3>5 DEF LoseDelta, vars
    <3> QED
      BY <3>3, <3>4, <3>5 DEF Next
  <2>5. ASSUME NEW delta \in wire'
        PROVE  Gapless(delta.to, delta.body.events)'
    <3>1. CASE delta \in wire
      <4>1. /\ delta.to \in Replica
            /\ delta.body.events \subseteq Existing
            /\ Gapless(delta.to, delta.body.events)
        BY <2>0, <3>1 DEF TypeOK, Circulating, GapInv
      <4> QED
        BY <4>1, GaplessStays
    <3>2. CASE delta \notin wire
      <4>1. PICK r \in Replica, t \in Thread :
              /\ ExportRest(r, t)
              /\ delta = [to |-> task[r][t].to,
                          body |-> BodyAfter(r, task[r][t].remote, task[r][t].events)]
        BY <2>0, <3>2, WireSteps
      <4>2. /\ delta.to = task[r][t].to /\ delta.to \in Replica
            /\ delta.body.events = task[r][t].events
            /\ task[r][t].events \subseteq Existing
            /\ Gapless(task[r][t].to, task[r][t].events)
        BY <2>0, <4>1, TaskFields
           DEF ExportRest, Doing, TypeOK, BodyAfter, Circulating, GapInv, JobGapless
      <4>3. delta.body.events \subseteq Existing /\ Gapless(delta.to, delta.body.events)
        BY <4>2
      <4> QED
        BY <4>2, <4>3, GaplessStays
    <3> QED
      BY <3>1, <3>2
  <2> QED
    BY <2>1, <2>2, <2>3, <2>4, <2>5 DEF GapInv
<1>3. TypeOK /\ ShredsRecorded /\ ShredExplained /\ AuthorityInv /\ OrderInv /\ GapInv => LogState
  BY DEF LogState
<1> QED
  BY <1>1, <1>2, <1>3, ShredsAreRecorded, ShredsExplained, AuthorityHolds, OrderHolds, PTL DEF Spec

\* Frontier synchronisation skips nothing, for any number of replicas, threads
\* and deltas in transit: what a replica announces as its frontier of a device
\* stands for every event below it that nobody has redacted.
THEOREM NothingSkipped ==
  ASSUME Unsaturated, ~Misdelivery
  PROVE  Spec => []NoGap
<1>1. TypeOK /\ OrderInv /\ GapInv => NoGap
  BY GapInvImplies DEF OrderInv
<1> QED
  BY <1>1, TypeCorrect, OrderHolds, GapHolds, PTL

\* Replicas that have nothing left to send one another agree on tombstones,
\* authorisations and unredacted events.
THEOREM ReplicasAgree ==
  ASSUME Unsaturated, ~Misdelivery
  PROVE  Spec => []Agreement
<1>1. TypeOK /\ ShredExplained /\ NoGap => Agreement
  <2> SUFFICES ASSUME TypeOK, ShredExplained, NoGap,
                      \A r, s \in Replica : NothingToSend(r, s)
               PROVE  \A r, s \in Replica :
                        /\ tombs[r] = tombs[s]
                        /\ auths[r] = auths[s]
                        /\ Events(Live(r)) \ Targets(r) = Events(Live(s)) \ Targets(s)
    BY DEF Agreement
  <2>1. ASSUME NEW r \in Replica, NEW s \in Replica
        PROVE  /\ auths[r] \subseteq auths[s] /\ tombs[r] \subseteq tombs[s]
               /\ \A e \in Events(Live(r)) : ~(e.seq > FrontierOf(s)[e.dev])
    <3> DEFINE f == SyncFrontierOf(s)
    <3>1. BodyAfter(r, f, EventsAfter(r, f)) = EmptyBody
      BY DEF NothingToSend
    <3>2. AuthsAfter(r, f) = {} /\ TombsAfter(r, f) = {} /\ EventsAfter(r, f) = {}
      BY <3>1 DEF BodyAfter, EmptyBody
    <3>3. f.auths = auths[s] /\ f.tombs = tombs[s] /\ f.devices = FrontierOf(s)
      BY DEF SyncFrontierOf
    <3> HIDE DEF f
    <3> QED
      BY <3>2, <3>3 DEF AuthsAfter, TombsAfter, EventsAfter
  <2>2. ASSUME NEW r \in Replica, NEW s \in Replica
        PROVE  tombs[r] = tombs[s] /\ auths[r] = auths[s]
    BY <2>1
  <2>3. ASSUME NEW r \in Replica, NEW s \in Replica, NEW e \in Events(Live(r)) \ Targets(r)
        PROVE  e \in Events(Live(s)) \ Targets(s)
    <3>1. e \in Events(Existing) /\ e.kind = "event"
      BY DEF Events, Live, Existing
    <3>2. e \in Event
      BY <3>1, IssuedType
    <3>3. e.seq \in Nat /\ FrontierOf(s)[e.dev] \in Nat
      BY <3>2, FrontierType, NumberTypes DEF Event, Frontier
    <3>4. e.seq <= FrontierOf(s)[e.dev]
      BY <2>1, <3>3
    <3>5. \A q \in Replica : ~Tombstoned(q, e)
      BY <2>2, <2>3 DEF Tombstoned, Targets
    <3>6. e \in rows[s]
      BY <3>1, <3>4, <3>5 DEF NoGap
    <3>7. e \in keys[s]
      BY <3>1, <3>5, <3>6 DEF ShredExplained, Events
    <3> QED
      BY <3>1, <3>5, <3>6, <3>7 DEF Events, Live, Tombstoned
  <2> QED
    BY <2>2, <2>3
<1> QED
  BY <1>1, TypeCorrect, ShredsExplained, NothingSkipped, PTL

-----------------------------------------------------------------------------
(* Blobs. *)

\* put_blob takes no gate: it looks for the tombstone, and another thread may
\* redact the blob before it writes.  So a step of thread t changes no task but
\* its own and no tombstone goes, and it begins a put of unredacted blobs only.
LEMMA BlobHandSteps ==
  ASSUME TypeOK, NEW r \in Replica, NEW t \in Thread, Local(r, t) \/ Sync(r, t)
  PROVE  /\ \A s \in Replica \ {r} : tombs'[s] = tombs[s] /\ task'[s] = task[s]
         /\ \A u \in Thread \ {t} : task'[r][u] = task[r][u]
         /\ tombs[r] \subseteq tombs'[r]
         /\ Doing(r, t, "put_blob")' => ~Tombstoned(r, task'[r][t].blob)
<1> DEFINE Own == /\ \A s \in Replica \ {r} : task'[s] = task[s]
                  /\ \A u \in Thread \ {t} : task'[r][u] = task[r][u]
           Goal == Own /\ (Doing(r, t, "put_blob")' => ~Tombstoned(r, task'[r][t].blob))
           Others == /\ \A s \in Replica \ {r} : tombs'[s] = tombs[s]
                     /\ tombs[r] \subseteq tombs'[r]
<1>o. ASSUME NEW job, Enter(r, t, job)
      PROVE  Own /\ task'[r][t] = job
  BY <1>o DEF Enter, TypeOK
<1>e. ASSUME NEW job, Enter(r, t, job), job.op # "put_blob"
      PROVE  Goal
  BY <1>e, <1>o DEF Doing
<1>r. ASSUME Return(r, t)
      PROVE  Goal
  <2>1. Enter(r, t, Idle) /\ Idle.op # "put_blob"
    BY <1>r DEF Return, Enter, Idle
  <2> QED
    BY <1>e, <2>1
<1>c. ASSUME NEW left, NEW O, Continue(r, t, left, O)
      PROVE  Goal
  <2> DEFINE job == [op |-> "import", mine |-> task[r][t].mine, todo |-> left, shred |-> O]
  <2>1. Idle.op # "put_blob" /\ job.op # "put_blob"
    BY DEF Idle
  <2>2. Enter(r, t, Idle) \/ Enter(r, t, job)
    BY <1>c, ContinueJob
  <2> HIDE DEF job, Goal
  <2> QED
    BY <1>e, <2>1, <2>2
<1>u. tombs' = tombs => Others
  OBVIOUS
<1>t. \A b : PutTombstone(r, b) => Others
  BY DEF PutTombstone, TypeOK
<1>1. ASSUME NEW b, PutBlobCheck(r, t, b)
      PROVE  Goal
  <2>1. Enter(r, t, [op |-> "put_blob", blob |-> b]) /\ ~Tombstoned(r, b)
    BY <1>1 DEF PutBlobCheck
  <2>2. Own /\ task'[r][t] = [op |-> "put_blob", blob |-> b]
    BY <1>o, <2>1
  <2> HIDE DEF Own
  <2> QED
    BY <2>1, <2>2
<1> SUFFICES Goal /\ Others
  OBVIOUS
<1> HIDE DEF Goal, Others
<1>2. CASE Local(r, t)
  BY <1>1, <1>2, <1>e, <1>r, <1>t, <1>u
     DEF Local, CommitReserve, CommitPut, RedactReserve, RedactRecord, RedactShred,
         SnapshotRead, SnapshotPut, PutBlobCheck, PutBlobStore, store
<1>3. CASE ExportRest(r, t) \/ ImportError(r, t)
  BY <1>3, <1>r, <1>u DEF ExportRest, ImportError, store
<1>4. CASE \/ \E to \in Replica : ExportEvents(r, t, to)
           \/ \E delta \in wire : ImportStart(r, t, delta)
  BY <1>4, <1>e, <1>u DEF ExportEvents, ImportStart, store
<1>5. CASE \/ ImportAuth(r, t) \/ ImportEvent(r, t) \/ ImportSnapshot(r, t)
           \/ ImportTombstone(r, t) \/ ImportShred(r, t) \/ ImportBlob(r, t)
  BY <1>5, <1>c, <1>t, <1>u
     DEF ImportAuth, ImportEvent, ImportSnapshot, ImportTombstone, ImportShred, ImportBlob
<1> QED
  BY <1>2, <1>3, <1>4, <1>5 DEF Sync

\* A tombstone stays, and a blob that is redacted is not put by anybody who was
\* not already past the check.
LEMMA NoPutOfTheGone ==
  ASSUME TypeOK, [Next]_vars, NEW r \in Replica, NEW b \in Blob, Gone(r, b)
  PROVE  Tombstoned(r, b)' /\ ~Underway(r, b)'
<1>0. Tombstoned(r, b) /\ ~Underway(r, b)
  BY DEF Gone
<1>1. ASSUME tombs[r] \subseteq tombs'[r]
      PROVE  Tombstoned(r, b)'
  BY <1>0, <1>1 DEF Tombstoned, Targets
<1>2. ASSUME \A u \in Thread : \/ task'[r][u] = task[r][u]
                               \/ Doing(r, u, "put_blob")' => task'[r][u].blob # b
      PROVE  ~Underway(r, b)'
  BY <1>0, <1>2 DEF Underway, Doing
<1>3. ASSUME NEW s \in Replica, NEW t \in Thread, Local(s, t) \/ Sync(s, t)
      PROVE  Tombstoned(r, b)' /\ ~Underway(r, b)'
  <2>1. CASE r # s
    BY <1>1, <1>2, <1>3, <2>1, BlobHandSteps
  <2>2. CASE r = s
    <3>1. /\ \A u \in Thread \ {t} : task'[r][u] = task[r][u]
          /\ tombs[r] \subseteq tombs'[r]
          /\ Doing(r, t, "put_blob")' => ~Tombstoned(r, task'[r][t].blob)
      BY <1>3, <2>2, BlobHandSteps
    <3> QED
      BY <1>0, <1>1, <1>2, <3>1
  <2> QED
    BY <2>1, <2>2
<1>4. ASSUME NEW s \in Replica, Crash(s)
      PROVE  Tombstoned(r, b)' /\ ~Underway(r, b)'
  <2>1. /\ tombs' = tombs
        /\ \A u \in Thread : task'[r][u] = task[r][u] \/ task'[r][u] = Idle
    BY <1>4 DEF Crash, store, TypeOK
  <2> QED
    BY <1>1, <1>2, <2>1 DEF Doing, Idle
<1>5. CASE (\E delta \in wire : LoseDelta(delta)) \/ UNCHANGED vars
  BY <1>1, <1>2, <1>5 DEF LoseDelta, store, vars
<1> QED
  BY <1>3, <1>4, <1>5 DEF Next

\* A redacted blob that is not readable, and that no put is about to write, never
\* becomes readable again, for any number of threads: put_blob and put_blob_record
\* look for a tombstone before they write.
THEOREM BlobRedactionIsFinal == Spec => BlobsStayForgotten
<1>1. ASSUME TypeOK, [Next]_vars,
             NEW r \in Replica, NEW b \in Blob, Gone(r, b)
      PROVE  b \notin Live(r)'
  <2>0. b.kind = "blob" /\ Tombstoned(r, b) /\ b \notin Live(r) /\ ~Underway(r, b)
    BY <1>1 DEF Blob, Gone
  <2>2. /\ \A s \in Replica, e \in Event : PutEvent(s, e) => b \notin Live(r)'
        /\ \A s \in Replica, o \in Snapshot : PutObject(s, o) => b \notin Live(r)'
    <3>1. ASSUME NEW s \in Replica, NEW o, o # b, PutObject(s, o)
          PROVE  b \notin Live(r)'
      BY <1>1, <2>0, <3>1 DEF PutObject, Live, TypeOK
    <3>2. (\A e \in Event : e # b) /\ (\A o \in Snapshot : o # b)
      BY DEF Event, Snapshot, Blob
    <3>3. \A s \in Replica, e \in Event : PutEvent(s, e) => PutObject(s, e) \/ UNCHANGED <<rows, keys>>
      BY DEF PutEvent, PutObject
    <3>4. UNCHANGED <<rows, keys>> => b \notin Live(r)'
      BY <2>0 DEF Live
    <3> QED
      BY <3>1, <3>2, <3>3, <3>4
  <2>3. ASSUME NEW s \in Replica, NEW o \in Blob, PutObject(s, o), ~(s = r /\ o = b)
        PROVE  b \notin Live(r)'
    BY <1>1, <2>0, <2>3 DEF PutObject, Live, TypeOK
  <2>4. ASSUME NEW s \in Replica, NEW o, CryptoShred(s, o), rows' = rows
        PROVE  b \notin Live(r)'
    BY <1>1, <2>0, <2>4 DEF CryptoShred, Live, TypeOK
  <2>5. ASSUME UNCHANGED <<rows, keys>>
        PROVE  b \notin Live(r)'
    BY <2>0, <2>5 DEF Live
  <2>6. ASSUME NEW s \in Replica, NEW t \in Thread, Local(s, t)
        PROVE  b \notin Live(r)'
    <3>0. task[s][t] \in Task
      BY <1>1 DEF TypeOK
    <3>1. CASE CommitPut(s, t) \/ SnapshotPut(s, t)
      BY <2>2, <3>0, <3>1, TaskFields DEF CommitPut, SnapshotPut, Doing
    <3>2. CASE PutBlobStore(s, t)
      <4>1. task[s][t].blob \in Blob /\ PutObject(s, task[s][t].blob) /\ Doing(s, t, "put_blob")
        BY <3>0, <3>2, TaskFields DEF PutBlobStore, Doing
      <4>2. ~(s = r /\ task[s][t].blob = b)
        BY <2>0, <4>1 DEF Underway
      <4> QED
        BY <2>3, <4>1, <4>2
    <3>3. CASE RedactShred(s, t)
      BY <2>4, <3>3 DEF RedactShred
    <3> QED
      BY <2>5, <2>6, <3>1, <3>2, <3>3
         DEF Local, CommitReserve, RedactReserve, RedactRecord, SnapshotRead, PutBlobCheck, store
  <2>7. ASSUME NEW s \in Replica, NEW t \in Thread, Sync(s, t)
        PROVE  b \notin Live(r)'
    <3>0. Doing(s, t, "import") => /\ task[s][t].todo.events \subseteq Event
                                   /\ task[s][t].todo.snaps \subseteq Snapshot
                                   /\ task[s][t].todo.blobs \subseteq Blob
      BY <1>1, TaskFields DEF TypeOK, Doing, Body
    <3>1. CASE ImportEvent(s, t)
      BY <2>2, <3>0, <3>1 DEF ImportEvent
    <3>2. CASE ImportSnapshot(s, t)
      BY <2>2, <3>0, <3>2 DEF ImportSnapshot
    <3>3. CASE ImportBlob(s, t)
      BY <2>0, <2>3, <2>5, <3>0, <3>3 DEF ImportBlob, PutBlobRecord
    <3>4. CASE ImportShred(s, t)
      BY <2>4, <3>4 DEF ImportShred
    <3> QED
      BY <2>5, <2>7, <3>1, <3>2, <3>3, <3>4
         DEF Sync, ExportEvents, ExportRest, ImportStart, ImportAuth, ImportTombstone,
             ImportError, store
  <2>8. CASE \/ \E s \in Replica : Crash(s)
             \/ \E delta \in wire : LoseDelta(delta)
             \/ UNCHANGED vars
    BY <2>5, <2>8 DEF Crash, LoseDelta, store, vars
  <2> QED
    BY <1>1, <2>6, <2>7, <2>8 DEF Next
<1>2. TypeOK /\ [Next]_vars =>
        [\A r \in Replica : \A b \in Blob : Gone(r, b) => Gone(r, b)']_vars
  BY <1>1, NoPutOfTheGone DEF Gone
<1> QED
  BY <1>2, TypeCorrect, PTL DEF Spec, BlobsStayForgotten
=============================================================================
