-------------------------- MODULE HeartSyncProofs --------------------------
(***************************************************************************)
(* Proofs about HeartSync for any set of replicas, threads, labels, blob   *)
(* contents and clock readings, any topology, and with misdelivery.        *)
(***************************************************************************)
EXTENDS HeartSync, NumberLemmas, TLAPS

-----------------------------------------------------------------------------
(* Types of what the operations build. *)

\* The objects of one kind in a set of objects.
LEMMA KindTypes ==
  ASSUME NEW S \in SUBSET Object
  PROVE  /\ Events(S) \in SUBSET Event
         /\ Snaps(S) \in SUBSET Snapshot
         /\ Blobs(S) \in SUBSET Blob
BY DEF Object, Event, Snapshot, Blob, Events, Snaps, Blobs

\* A replica announces a sequence number for every device.
LEMMA FrontierType ==
  ASSUME TypeOK, NEW r \in Replica
  PROVE  FrontierOf(r) \in Frontier
<1> SUFFICES ASSUME NEW d \in Replica
             PROVE  FrontierOf(r)[d] \in 0..SeqMax
  BY DEF FrontierOf, Frontier
<1> DEFINE seqs == {0} \cup {e.seq : e \in {x \in Events(Live(r)) : x.dev = d}}
<1>1. Events(Live(r)) \in SUBSET Event
  BY KindTypes DEF TypeOK, Live
<1>2. seqs \in SUBSET (0..SeqMax) /\ seqs # {}
  BY <1>1, BoundAssumption DEF Event
<1>3. \E n \in seqs : \A m \in seqs : m <= n
  <2> HIDE DEF seqs
  <2> QED
    BY <1>2, GreatestBelow, BoundAssumption
<1>4. FrontierOf(r)[d] = CHOOSE n \in seqs : \A m \in seqs : m <= n
  BY DEF FrontierOf
<1> HIDE DEF seqs
<1> QED
  BY <1>2, <1>3, <1>4

\* What a replica announces, and what it exports for an announced frontier.
LEMMA SyncTypes ==
  ASSUME TypeOK, NEW r \in Replica
  PROVE  /\ SyncFrontierOf(r) \in SyncFrontier
         /\ \A f \in SyncFrontier :
              /\ EventsAfter(r, f) \in SUBSET Event
              /\ \A E \in SUBSET Event : BodyAfter(r, f, E) \in Body
<1>1. Live(r) \in SUBSET Object
  BY DEF TypeOK, Live
<1>2. /\ Events(Live(r)) \in SUBSET Event
      /\ Snaps(Live(r)) \in SUBSET Snapshot
      /\ Blobs(Live(r)) \in SUBSET Blob
  BY <1>1, KindTypes
<1>3. auths[r] \in SUBSET Replica /\ tombs[r] \in SUBSET Tombstone
  BY DEF TypeOK
<1>4. SyncFrontierOf(r) \in SyncFrontier
  BY <1>2, <1>3, FrontierType DEF SyncFrontierOf, SyncFrontier
<1>5. ASSUME NEW f \in SyncFrontier
      PROVE  /\ EventsAfter(r, f) \in SUBSET Event
             /\ \A E \in SUBSET Event : BodyAfter(r, f, E) \in Body
  <2>1. EventsAfter(r, f) \in SUBSET Event
    BY <1>2 DEF EventsAfter
  <2>2. ASSUME NEW E \in SUBSET Event
        PROVE  BodyAfter(r, f, E) \in Body
    BY <1>2, <1>3 DEF BodyAfter, Body, AuthsAfter, SnapsAfter, TombsAfter, BlobsAfter
  <2> QED
    BY <2>1, <2>2
<1> QED
  BY <1>4, <1>5

\* reserve_clock keeps the device record a device record.
LEMMA ReserveType ==
  ASSUME NEW d \in DeviceRecord, NEW w \in Wall
  PROVE  Reserve(d, w) \in DeviceRecord
BY BoundAssumption, ReplicaAssumption DEF Reserve, NextSeq, DeviceRecord, Walls

\* The operations a thread can be in the middle of.
LEMMA TaskTypes ==
  /\ Idle \in Task
  /\ \A e \in Event : [op |-> "commit", event |-> e] \in Task
  /\ \A b \in Tombstone : [op |-> "redact", tomb |-> b] \in Task
  /\ \A o \in Object : [op |-> "shred", target |-> o] \in Task
  /\ \A s \in Snapshot : [op |-> "snapshot", snap |-> s] \in Task
  /\ \A b \in Blob : [op |-> "put_blob", blob |-> b] \in Task
  /\ \A to \in Replica, f \in SyncFrontier, E \in SUBSET Event :
       [op |-> "export", to |-> to, remote |-> f, events |-> E] \in Task
  /\ \A m \in BOOLEAN, todo \in Body, O \in SUBSET Object :
       [op |-> "import", mine |-> m, todo |-> todo, shred |-> O] \in Task
BY DEF Task, Idle

\* And what they carry, by the name of the operation.
LEMMA TaskFields ==
  ASSUME NEW job \in Task
  PROVE  /\ job.op = "commit" => job.event \in Event
         /\ job.op = "redact" => job.tomb \in Tombstone
         /\ job.op = "shred" => job.target \in Object
         /\ job.op = "snapshot" => job.snap \in Snapshot
         /\ job.op = "put_blob" => job.blob \in Blob
         /\ job.op = "export" => /\ job.to \in Replica
                                 /\ job.remote \in SyncFrontier
                                 /\ job.events \in SUBSET Event
         /\ job.op = "import" => /\ job.mine \in BOOLEAN
                                 /\ job.todo \in Body
                                 /\ job.shred \in SUBSET Object
BY DEF Task

\* Taking and releasing the gate, entering and leaving an operation.
LEMMA ThreadTypes ==
  ASSUME TypeOK, NEW r \in Replica, NEW t \in Thread
  PROVE  /\ \A job \in Task : Enter(r, t, job) => task' \in [Replica -> [Thread -> Task]]
         /\ Lock(r, t) => gate' \in [Replica -> Thread \cup {NoThread}]
         /\ Return(r, t) => /\ gate' \in [Replica -> Thread \cup {NoThread}]
                            /\ task' \in [Replica -> [Thread -> Task]]
<1>1. ASSUME NEW job \in Task, task' = [task EXCEPT ![r][t] = job]
      PROVE  task' \in [Replica -> [Thread -> Task]]
  BY <1>1 DEF TypeOK
<1>2. Lock(r, t) => gate' \in [Replica -> Thread \cup {NoThread}]
  BY DEF TypeOK, Lock
<1>3. Return(r, t) => gate' \in [Replica -> Thread \cup {NoThread}]
  BY DEF TypeOK, Return
<1> QED
  BY <1>1, <1>2, <1>3, TaskTypes DEF Enter, Return

\* A step of import_delta leaves the thread importing or idle.
LEMMA ContinueType ==
  ASSUME TypeOK, NEW r \in Replica, NEW t \in Thread,
         NEW todo \in Body, NEW O \in SUBSET Object,
         Doing(r, t, "import"), Continue(r, t, todo, O)
  PROVE  /\ gate' \in [Replica -> Thread \cup {NoThread}]
         /\ task' \in [Replica -> [Thread -> Task]]
<1> DEFINE job == [op |-> "import", mine |-> task[r][t].mine, todo |-> todo, shred |-> O]
<1>0. task[r][t].mine \in BOOLEAN
  BY TaskFields DEF TypeOK, Doing
<1>1. job \in Task
  BY <1>0, TaskTypes
<1>2. Return(r, t) \/ (Enter(r, t, job) /\ gate' = gate)
  BY DEF Continue
<1> HIDE DEF job
<1> QED
  BY <1>1, <1>2, ThreadTypes DEF TypeOK

\* Inserting an event or another object, recording and shredding.
LEMMA StoreTypes ==
  ASSUME TypeOK, NEW r \in Replica, NEW o \in Object
  PROVE  /\ PutEvent(r, o) \/ PutObject(r, o) \/ PutBlobRecord(r, o)
              => /\ rows' \in [Replica -> SUBSET Object]
                 /\ keys' \in [Replica -> SUBSET Object]
         /\ CryptoShred(r, o) => keys' \in [Replica -> SUBSET Object]
         /\ \A b \in Tombstone :
              PutTombstone(r, b) => tombs' \in [Replica -> SUBSET Tombstone]
<1>1. ASSUME NEW f \in [Replica -> SUBSET Object]
      PROVE  /\ [f EXCEPT ![r] = @ \cup {o}] \in [Replica -> SUBSET Object]
             /\ [f EXCEPT ![r] = @ \ {o}] \in [Replica -> SUBSET Object]
  OBVIOUS
<1>2. rows \in [Replica -> SUBSET Object] /\ keys \in [Replica -> SUBSET Object]
  BY DEF TypeOK
<1>3. PutObject(r, o) => /\ rows' \in [Replica -> SUBSET Object]
                         /\ keys' \in [Replica -> SUBSET Object]
  BY <1>1, <1>2 DEF PutObject
<1>4. PutEvent(r, o) => PutObject(r, o) \/ UNCHANGED <<rows, keys>>
  BY DEF PutEvent, PutObject
<1>5. PutBlobRecord(r, o) => PutObject(r, o) \/ UNCHANGED <<rows, keys>>
  BY DEF PutBlobRecord
<1>6. CryptoShred(r, o) => keys' \in [Replica -> SUBSET Object]
  BY <1>1, <1>2 DEF CryptoShred
<1>7. ASSUME NEW b \in Tombstone, PutTombstone(r, b)
      PROVE  tombs' \in [Replica -> SUBSET Tombstone]
  BY <1>7 DEF PutTombstone, TypeOK
<1> QED
  BY <1>2, <1>3, <1>4, <1>5, <1>6, <1>7

-----------------------------------------------------------------------------
(* Type correctness. *)

\* Commits, redactions, snapshots and put_blob keep every variable typed.
LEMMA LocalTypes ==
  ASSUME TypeOK, NEW r \in Replica, NEW t \in Thread, Local(r, t)
  PROVE  TypeOK'
<1> DEFINE job == task[r][t]
<1>0. job \in Task
  BY DEF TypeOK
<1> HIDE DEF job
<1>1. ASSUME NEW w \in Wall, CommitReserve(r, t, w)
      PROVE  TypeOK'
  <2> DEFINE d == Reserve(device[r], w)
             e == [kind |-> "event", dev |-> r, seq |-> device[r].next, wall |-> d.wall, ctr |-> d.ctr]
  <2>1. d \in DeviceRecord
    BY ReserveType, ReplicaAssumption DEF TypeOK
  <2>2. device[r].next \in 0..SeqMax
    BY DEF TypeOK, DeviceRecord
  <2>3. e \in Event
    BY <2>1, <2>2 DEF Event, DeviceRecord
  <2>4. device' = [device EXCEPT ![r] = d]
    BY <1>1 DEF CommitReserve
  <2>5. Enter(r, t, [op |-> "commit", event |-> e]) /\ Lock(r, t)
    BY <1>1 DEF CommitReserve
  <2> HIDE DEF d, e
  <2>6. /\ task' \in [Replica -> [Thread -> Task]]
        /\ gate' \in [Replica -> Thread \cup {NoThread}]
    BY <2>3, <2>5, TaskTypes, ThreadTypes
  <2>7. device' \in [Replica -> DeviceRecord]
    BY <2>1, <2>4 DEF TypeOK
  <2> QED
    BY <1>1, <2>6, <2>7 DEF TypeOK, CommitReserve
<1>2. ASSUME CommitPut(r, t)
      PROVE  TypeOK'
  <2>1. job.event \in Object
    BY <1>0, <1>2, TaskFields DEF CommitPut, Doing, job, Object
  <2>2. PutEvent(r, job.event) /\ Return(r, t)
    BY <1>2 DEF CommitPut, job
  <2> QED
    BY <1>2, <2>1, <2>2, StoreTypes, ThreadTypes DEF TypeOK, CommitPut
<1>3. ASSUME NEW w \in Wall, NEW o \in Existing, RedactReserve(r, t, w, o)
      PROVE  TypeOK'
  <2> DEFINE d == Reserve(device[r], w)
             b == [dev |-> r, seq |-> device[r].next, target |-> o]
  <2>1. d \in DeviceRecord
    BY ReserveType, ReplicaAssumption DEF TypeOK
  <2>2. o \in Object /\ device[r].next \in 0..SeqMax
    BY DEF TypeOK, Existing, DeviceRecord
  <2>3. b \in Tombstone
    BY <2>2 DEF Tombstone
  <2>4. device' = [device EXCEPT ![r] = d]
    BY <1>3 DEF RedactReserve
  <2>5. Enter(r, t, [op |-> "redact", tomb |-> b]) /\ Lock(r, t)
    BY <1>3 DEF RedactReserve
  <2> HIDE DEF d, b
  <2>6. /\ task' \in [Replica -> [Thread -> Task]]
        /\ gate' \in [Replica -> Thread \cup {NoThread}]
    BY <2>3, <2>5, TaskTypes, ThreadTypes
  <2>7. device' \in [Replica -> DeviceRecord]
    BY <2>1, <2>4 DEF TypeOK
  <2> QED
    BY <1>3, <2>6, <2>7 DEF TypeOK, RedactReserve
<1>4. ASSUME RedactRecord(r, t)
      PROVE  TypeOK'
  <2>1. job.tomb \in Tombstone /\ job.tomb.target \in Object
    BY <1>0, <1>4, TaskFields DEF RedactRecord, Doing, job, Tombstone
  <2>2. PutTombstone(r, job.tomb) /\ Enter(r, t, [op |-> "shred", target |-> job.tomb.target])
    BY <1>4 DEF RedactRecord, job
  <2>3. task' \in [Replica -> [Thread -> Task]]
    BY <2>1, <2>2, TaskTypes, ThreadTypes
  <2>4. tombs' \in [Replica -> SUBSET Tombstone]
    BY <2>1, <2>2, StoreTypes
  <2> QED
    BY <1>4, <2>3, <2>4 DEF TypeOK, RedactRecord
<1>5. ASSUME RedactShred(r, t)
      PROVE  TypeOK'
  <2>1. job.target \in Object
    BY <1>0, <1>5, TaskFields DEF RedactShred, Doing, job
  <2>2. CryptoShred(r, job.target) /\ Return(r, t)
    BY <1>5 DEF RedactShred, job
  <2> QED
    BY <1>5, <2>1, <2>2, StoreTypes, ThreadTypes DEF TypeOK, RedactShred
<1>6. ASSUME NEW l \in Label, SnapshotRead(r, t, l)
      PROVE  TypeOK'
  <2> DEFINE s == [kind |-> "snapshot", label |-> l, frontier |-> FrontierOf(r)]
  <2>1. s \in Snapshot
    BY FrontierType DEF Snapshot
  <2>2. Enter(r, t, [op |-> "snapshot", snap |-> s])
    BY <1>6 DEF SnapshotRead
  <2> HIDE DEF s
  <2>3. task' \in [Replica -> [Thread -> Task]]
    BY <2>1, <2>2, TaskTypes, ThreadTypes
  <2> QED
    BY <1>6, <2>3 DEF TypeOK, SnapshotRead, store
<1>7. ASSUME SnapshotPut(r, t)
      PROVE  TypeOK'
  <2>1. job.snap \in Object
    BY <1>0, <1>7, TaskFields DEF SnapshotPut, Doing, job, Object
  <2>2. PutObject(r, job.snap) /\ Return(r, t)
    BY <1>7 DEF SnapshotPut, job
  <2> QED
    BY <1>7, <2>1, <2>2, StoreTypes, ThreadTypes DEF TypeOK, SnapshotPut
<1>8. ASSUME NEW c \in Content, PutBlobCheck(r, t, [kind |-> "blob", content |-> c])
      PROVE  TypeOK'
  <2> DEFINE b == [kind |-> "blob", content |-> c]
  <2>1. b \in Blob
    BY DEF Blob
  <2>2. Enter(r, t, [op |-> "put_blob", blob |-> b])
    BY <1>8 DEF PutBlobCheck
  <2> HIDE DEF b
  <2>3. task' \in [Replica -> [Thread -> Task]]
    BY <2>1, <2>2, TaskTypes, ThreadTypes
  <2> QED
    BY <1>8, <2>3 DEF TypeOK, PutBlobCheck, store
<1>9. ASSUME PutBlobStore(r, t)
      PROVE  TypeOK'
  <2>1. job.blob \in Object
    BY <1>0, <1>9, TaskFields DEF PutBlobStore, Doing, job, Object
  <2>2. PutObject(r, job.blob) /\ Return(r, t)
    BY <1>9 DEF PutBlobStore, job
  <2> QED
    BY <1>9, <2>1, <2>2, StoreTypes, ThreadTypes DEF TypeOK, PutBlobStore
<1> QED
  BY <1>1, <1>2, <1>3, <1>4, <1>5, <1>6, <1>7, <1>8, <1>9 DEF Local

\* So do exports and imports ...
LEMMA SyncStepTypes ==
  ASSUME TypeOK, NEW r \in Replica, NEW t \in Thread, Sync(r, t)
  PROVE  TypeOK'
<1> DEFINE job == task[r][t]
<1>0. job \in Task
  BY DEF TypeOK
<1>t. Doing(r, t, "import") => job.todo \in Body /\ job.shred \in SUBSET Object
  BY <1>0, TaskFields DEF Doing
<1>b. ASSUME NEW todo \in Body
      PROVE  /\ \A d : [todo EXCEPT !.auths = @ \ {d}] \in Body
             /\ \A d : [todo EXCEPT !.events = @ \ {d}] \in Body
             /\ \A d : [todo EXCEPT !.snaps = @ \ {d}] \in Body
             /\ \A d : [todo EXCEPT !.tombs = @ \ {d}] \in Body
             /\ \A d : [todo EXCEPT !.blobs = @ \ {d}] \in Body
             /\ todo.auths \in SUBSET Replica
             /\ todo.events \in SUBSET Object
             /\ todo.snaps \in SUBSET Object
             /\ todo.tombs \in SUBSET Tombstone
             /\ todo.blobs \in SUBSET Object
  BY DEF Body, Object
<1> HIDE DEF job
<1>1. ASSUME NEW to \in Replica, ExportEvents(r, t, to)
      PROVE  TypeOK'
  <2> DEFINE f == SyncFrontierOf(to)
             E == EventsAfter(r, f)
  <2>1. f \in SyncFrontier /\ E \in SUBSET Event
    BY SyncTypes
  <2>2. Enter(r, t, [op |-> "export", to |-> to, remote |-> f, events |-> E])
    BY <1>1 DEF ExportEvents
  <2> HIDE DEF f, E
  <2>3. task' \in [Replica -> [Thread -> Task]]
    BY <2>1, <2>2, TaskTypes, ThreadTypes
  <2> QED
    BY <1>1, <2>3 DEF TypeOK, ExportEvents, store
<1>2. ASSUME ExportRest(r, t)
      PROVE  TypeOK'
  <2>1. job.to \in Replica /\ job.remote \in SyncFrontier /\ job.events \in SUBSET Event
    BY <1>0, <1>2, TaskFields DEF ExportRest, Doing, job
  <2> DEFINE body == BodyAfter(r, job.remote, job.events)
  <2>2. body \in Body
    BY <2>1, SyncTypes
  <2>3. wire' = wire \cup {[to |-> job.to, body |-> body]} /\ Return(r, t)
    BY <1>2 DEF ExportRest, job
  <2> HIDE DEF body
  <2>4. wire' \subseteq [to : Replica, body : Body]
    BY <2>1, <2>2, <2>3 DEF TypeOK
  <2> QED
    BY <1>2, <2>3, <2>4, ThreadTypes DEF TypeOK, ExportRest, store
<1>3. ASSUME NEW delta \in wire, ImportStart(r, t, delta)
      PROVE  TypeOK'
  <2>1. delta.body \in Body
    BY DEF TypeOK
  <2>2. Enter(r, t, [op |-> "import", mine |-> delta.to = r, todo |-> delta.body, shred |-> {}]) /\ Lock(r, t)
    BY <1>3 DEF ImportStart
  <2>3. /\ task' \in [Replica -> [Thread -> Task]]
        /\ gate' \in [Replica -> Thread \cup {NoThread}]
    BY <2>1, <2>2, TaskTypes, ThreadTypes
  <2> QED
    BY <1>3, <2>3 DEF TypeOK, ImportStart, store
<1>4. ASSUME ImportAuth(r, t)
      PROVE  TypeOK'
  <2>1. Doing(r, t, "import") /\ job.todo \in Body
    BY <1>4, <1>t DEF ImportAuth
  <2>2. PICK d \in job.todo.auths :
          /\ auths' = [auths EXCEPT ![r] = @ \cup {d}]
          /\ Continue(r, t, [job.todo EXCEPT !.auths = @ \ {d}], {})
    BY <1>4 DEF ImportAuth, job
  <2>3. /\ d \in Replica
        /\ [job.todo EXCEPT !.auths = @ \ {d}] \in Body
    BY <1>b, <2>1
  <2>4. auths' \in [Replica -> SUBSET Replica]
    BY <2>2, <2>3 DEF TypeOK
  <2>5. /\ task' \in [Replica -> [Thread -> Task]]
        /\ gate' \in [Replica -> Thread \cup {NoThread}]
    BY <2>1, <2>2, <2>3, ContinueType
  <2> QED
    BY <1>4, <2>4, <2>5 DEF TypeOK, ImportAuth
<1>5. ASSUME ImportEvent(r, t)
      PROVE  TypeOK'
  <2>1. Doing(r, t, "import") /\ job.todo \in Body
    BY <1>5, <1>t DEF ImportEvent
  <2>2. PICK e \in job.todo.events :
          /\ PutEvent(r, e)
          /\ Continue(r, t, [job.todo EXCEPT !.events = @ \ {e}], {})
    BY <1>5 DEF ImportEvent, job
  <2>3. e \in Object /\ [job.todo EXCEPT !.events = @ \ {e}] \in Body
    BY <1>b, <2>1
  <2>4. /\ task' \in [Replica -> [Thread -> Task]]
        /\ gate' \in [Replica -> Thread \cup {NoThread}]
    BY <2>1, <2>2, <2>3, ContinueType
  <2> QED
    BY <1>5, <2>2, <2>3, <2>4, StoreTypes DEF TypeOK, ImportEvent
<1>6. ASSUME ImportSnapshot(r, t)
      PROVE  TypeOK'
  <2>1. Doing(r, t, "import") /\ job.todo \in Body
    BY <1>6, <1>t DEF ImportSnapshot
  <2>2. PICK s \in job.todo.snaps :
          /\ PutObject(r, s)
          /\ Continue(r, t, [job.todo EXCEPT !.snaps = @ \ {s}], {})
    BY <1>6 DEF ImportSnapshot, job
  <2>3. s \in Object /\ [job.todo EXCEPT !.snaps = @ \ {s}] \in Body
    BY <1>b, <2>1
  <2>4. /\ task' \in [Replica -> [Thread -> Task]]
        /\ gate' \in [Replica -> Thread \cup {NoThread}]
    BY <2>1, <2>2, <2>3, ContinueType
  <2> QED
    BY <1>6, <2>2, <2>3, <2>4, StoreTypes DEF TypeOK, ImportSnapshot
<1>7. ASSUME ImportTombstone(r, t)
      PROVE  TypeOK'
  <2>1. Doing(r, t, "import") /\ job.todo \in Body
    BY <1>7, <1>t DEF ImportTombstone
  <2>2. PICK tomb \in job.todo.tombs :
          /\ PutTombstone(r, tomb)
          /\ Continue(r, t, [job.todo EXCEPT !.tombs = @ \ {tomb}], {tomb.target})
    BY <1>7 DEF ImportTombstone, job
  <2>3. tomb \in Tombstone /\ [job.todo EXCEPT !.tombs = @ \ {tomb}] \in Body
    BY <1>b, <2>1
  <2>4. {tomb.target} \in SUBSET Object
    BY <2>3 DEF Tombstone
  <2>5. /\ task' \in [Replica -> [Thread -> Task]]
        /\ gate' \in [Replica -> Thread \cup {NoThread}]
    BY <2>1, <2>2, <2>3, <2>4, ContinueType
  <2>6. tombs' \in [Replica -> SUBSET Tombstone]
    BY <2>2, <2>3 DEF TypeOK, PutTombstone
  <2> QED
    BY <1>7, <2>5, <2>6 DEF TypeOK, ImportTombstone
<1>8. ASSUME ImportShred(r, t)
      PROVE  TypeOK'
  <2>1. Doing(r, t, "import") /\ job.todo \in Body /\ job.shred \in SUBSET Object
    BY <1>8, <1>t DEF ImportShred
  <2>2. PICK o \in job.shred : CryptoShred(r, o) /\ Continue(r, t, job.todo, {})
    BY <1>8 DEF ImportShred, job
  <2>3. /\ task' \in [Replica -> [Thread -> Task]]
        /\ gate' \in [Replica -> Thread \cup {NoThread}]
    BY <2>1, <2>2, ContinueType
  <2> QED
    BY <1>8, <2>1, <2>2, <2>3, StoreTypes DEF TypeOK, ImportShred
<1>9. ASSUME ImportBlob(r, t)
      PROVE  TypeOK'
  <2>1. Doing(r, t, "import") /\ job.todo \in Body
    BY <1>9, <1>t DEF ImportBlob
  <2>2. PICK b \in job.todo.blobs :
          /\ PutBlobRecord(r, b)
          /\ Continue(r, t, [job.todo EXCEPT !.blobs = @ \ {b}], {})
    BY <1>9 DEF ImportBlob, job
  <2>3. b \in Object /\ [job.todo EXCEPT !.blobs = @ \ {b}] \in Body
    BY <1>b, <2>1
  <2>4. /\ task' \in [Replica -> [Thread -> Task]]
        /\ gate' \in [Replica -> Thread \cup {NoThread}]
    BY <2>1, <2>2, <2>3, ContinueType
  <2>5. PutObject(r, b) \/ UNCHANGED <<rows, keys>>
    BY <2>2 DEF PutBlobRecord
  <2> QED
    BY <1>9, <2>3, <2>4, <2>5, StoreTypes DEF TypeOK, ImportBlob
<1>10. ASSUME ImportError(r, t)
       PROVE  TypeOK'
  BY <1>10, ThreadTypes DEF TypeOK, ImportError, store
<1> QED
  BY <1>1, <1>2, <1>3, <1>4, <1>5, <1>6, <1>7, <1>8, <1>9, <1>10 DEF Sync

\* Every state of the replicated heart is well typed; in particular the clock
\* counter and the device sequence never leave their (scaled) machine widths,
\* which is what the saturating arithmetic of reserve_clock is for.
THEOREM TypeCorrect == Spec => []TypeOK
<1>1. Init => TypeOK
  BY ReplicaAssumption, BoundAssumption, TaskTypes
     DEF Init, TypeOK, Idle, DeviceRecord, Walls
<1>2. TypeOK /\ [Next]_vars => TypeOK'
  <2> SUFFICES ASSUME TypeOK, [Next]_vars
               PROVE  TypeOK'
    OBVIOUS
  <2>1. ASSUME NEW r \in Replica, NEW t \in Thread, Local(r, t) \/ Sync(r, t)
        PROVE  TypeOK'
    BY <2>1, LocalTypes, SyncStepTypes
  <2>2. ASSUME NEW r \in Replica, Crash(r)
        PROVE  TypeOK'
    <3>1. [t \in Thread |-> Idle] \in [Thread -> Task]
      BY TaskTypes
    <3>2. task' \in [Replica -> [Thread -> Task]]
      BY <2>2, <3>1 DEF TypeOK, Crash
    <3> QED
      BY <2>2, <3>2 DEF TypeOK, Crash, store
  <2>3. ASSUME NEW delta \in wire, LoseDelta(delta)
        PROVE  TypeOK'
    BY <2>3 DEF TypeOK, LoseDelta, store
  <2>4. CASE UNCHANGED vars
    BY <2>4 DEF TypeOK, vars
  <2> QED
    BY <2>1, <2>2, <2>3, <2>4 DEF Next
<1> QED
  BY <1>1, <1>2, PTL DEF Spec

-----------------------------------------------------------------------------
(* Redaction. *)

\* A thread shreds a key only when the tombstone that asks for it is durable.
ShredsRecorded ==
  \A r \in Replica, t \in Thread :
    /\ Doing(r, t, "shred") => Tombstoned(r, task[r][t].target)
    /\ Doing(r, t, "import") => \A o \in task[r][t].shred : Tombstoned(r, o)

\* All a step can do to the rows, the data keys and the tombstones.
StoreStep ==
  \/ UNCHANGED <<rows, keys, tombs>>
  \/ \E r \in Replica, e \in Event : PutEvent(r, e) /\ UNCHANGED tombs
  \/ \E r \in Replica, o \in Snapshot \cup Blob : PutObject(r, o) /\ UNCHANGED tombs
  \/ \E r \in Replica, o \in Object :
        Tombstoned(r, o) /\ CryptoShred(r, o) /\ UNCHANGED <<rows, tombs>>
  \/ \E r \in Replica, b \in Tombstone : PutTombstone(r, b) /\ UNCHANGED <<rows, keys>>

\* Every operation works on the store through those primitives.
LEMMA StoreSteps ==
  ASSUME TypeOK, ShredsRecorded, [Next]_vars
  PROVE  StoreStep
<1> USE DEF StoreStep
<1>1. ASSUME NEW r \in Replica, NEW t \in Thread, Local(r, t)
      PROVE  StoreStep
  <2> DEFINE job == task[r][t]
  <2>0. job \in Task
    BY DEF TypeOK
  <2>1. CASE CommitPut(r, t)
    BY <2>0, <2>1, TaskFields DEF CommitPut, Doing
  <2>2. CASE RedactRecord(r, t)
    BY <2>0, <2>2, TaskFields DEF RedactRecord, Doing
  <2>3. CASE RedactShred(r, t)
    BY <2>0, <2>3, TaskFields DEF RedactShred, Doing, ShredsRecorded
  <2>4. CASE SnapshotPut(r, t)
    BY <2>0, <2>4, TaskFields DEF SnapshotPut, Doing
  <2>5. CASE PutBlobStore(r, t)
    BY <2>0, <2>5, TaskFields DEF PutBlobStore, Doing
  <2>6. CASE \/ \E w \in Wall : CommitReserve(r, t, w)
             \/ \E w \in Wall, o \in Existing : RedactReserve(r, t, w, o)
    BY <2>6 DEF CommitReserve, RedactReserve
  <2>7. CASE \/ \E l \in Label : SnapshotRead(r, t, l)
             \/ \E c \in Content : PutBlobCheck(r, t, [kind |-> "blob", content |-> c])
    BY <2>7 DEF SnapshotRead, PutBlobCheck, store
  <2> QED
    BY <1>1, <2>1, <2>2, <2>3, <2>4, <2>5, <2>6, <2>7 DEF Local
<1>2. ASSUME NEW r \in Replica, NEW t \in Thread, Sync(r, t)
      PROVE  StoreStep
  <2> DEFINE job == task[r][t]
  <2>0. job \in Task
    BY DEF TypeOK
  <2>t. Doing(r, t, "import") =>
          /\ job.todo.events \in SUBSET Event
          /\ job.todo.snaps \in SUBSET Snapshot
          /\ job.todo.tombs \in SUBSET Tombstone
          /\ job.todo.blobs \in SUBSET Blob
          /\ job.shred \in SUBSET Object
    BY <2>0, TaskFields DEF Doing, Body
  <2> HIDE DEF job
  <2>1. CASE ImportEvent(r, t)
    BY <2>1, <2>t DEF ImportEvent, job
  <2>2. CASE ImportSnapshot(r, t)
    BY <2>2, <2>t DEF ImportSnapshot, job
  <2>3. CASE ImportTombstone(r, t)
    BY <2>3, <2>t DEF ImportTombstone, job
  <2>4. CASE ImportShred(r, t)
    BY <2>4, <2>t DEF ImportShred, job, ShredsRecorded
  <2>5. CASE ImportBlob(r, t)
    BY <2>5, <2>t DEF ImportBlob, PutBlobRecord, job
  <2>6. CASE ImportAuth(r, t) \/ ImportError(r, t) \/ ExportRest(r, t)
    BY <2>6 DEF ImportAuth, ImportError, ExportRest, store
  <2>7. CASE \/ \E to \in Replica : ExportEvents(r, t, to)
             \/ \E delta \in wire : ImportStart(r, t, delta)
    BY <2>7 DEF ExportEvents, ImportStart, store
  <2> QED
    BY <1>2, <2>1, <2>2, <2>3, <2>4, <2>5, <2>6, <2>7 DEF Sync
<1>3. CASE \/ \E r \in Replica : Crash(r)
           \/ \E delta \in wire : LoseDelta(delta)
           \/ UNCHANGED vars
  BY <1>3 DEF Crash, LoseDelta, store, vars
<1> QED
  BY <1>1, <1>2, <1>3 DEF Next

\* Tombstones are never removed.
LEMMA TombstonesStay ==
  ASSUME TypeOK, StoreStep, NEW r \in Replica, NEW o, Tombstoned(r, o)
  PROVE  Tombstoned(r, o)'
<1>1. tombs[r] \subseteq tombs'[r]
  BY DEF StoreStep, PutTombstone, TypeOK
<1> QED
  BY <1>1 DEF Tombstoned, Targets

\* What a thread may be about to do after a step of its own.
Recorded(r, job) ==
  /\ job.op = "shred" => Tombstoned(r, job.target)
  /\ job.op = "import" => \A o \in job.shred : Tombstoned(r, o)

LEMMA ContinueRecorded ==
  ASSUME NEW r \in Replica, NEW t \in Thread, NEW todo, NEW O,
         Continue(r, t, todo, O), \A o \in O : Tombstoned(r, o)'
  PROVE  \E job : Enter(r, t, job) /\ Recorded(r, job)'
<1>1. CASE Return(r, t)
  <2>1. Enter(r, t, Idle) /\ Recorded(r, Idle)'
    BY <1>1 DEF Return, Enter, Recorded, Idle
  <2> QED
    BY <2>1
<1>2. CASE \E m : Enter(r, t, [op |-> "import", mine |-> m, todo |-> todo, shred |-> O])
  <2>1. PICK m : Enter(r, t, [op |-> "import", mine |-> m, todo |-> todo, shred |-> O])
    BY <1>2
  <2>2. Recorded(r, [op |-> "import", mine |-> m, todo |-> todo, shred |-> O])'
    BY DEF Recorded
  <2> QED
    BY <2>1, <2>2
<1> QED
  BY <1>1, <1>2 DEF Continue

LEMMA NextJobRecorded ==
  ASSUME TypeOK, ShredsRecorded, StoreStep, NEW r \in Replica, NEW t \in Thread,
         Local(r, t) \/ Sync(r, t)
  PROVE  \E job : Enter(r, t, job) /\ Recorded(r, job)'
<1> DEFINE Goal == \E job : Enter(r, t, job) /\ Recorded(r, job)'
<1>r. ASSUME Return(r, t)
      PROVE  Goal
  <2>1. Enter(r, t, Idle) /\ Recorded(r, Idle)'
    BY <1>r DEF Return, Enter, Recorded, Idle
  <2> QED
    BY <2>1
<1>e. ASSUME NEW job, Enter(r, t, job), job.op \notin {"shred", "import"}
      PROVE  Goal
  <2>1. Recorded(r, job)'
    BY <1>e DEF Recorded
  <2> QED
    BY <1>e, <2>1
<1>c. ASSUME NEW todo, Continue(r, t, todo, {})
      PROVE  Goal
  BY <1>c, ContinueRecorded
<1> SUFFICES Goal
  OBVIOUS
<1> HIDE DEF Goal
<1>1. CASE CommitPut(r, t) \/ RedactShred(r, t) \/ SnapshotPut(r, t) \/ PutBlobStore(r, t)
  BY <1>1, <1>r DEF CommitPut, RedactShred, SnapshotPut, PutBlobStore
<1>2. CASE ExportRest(r, t) \/ ImportError(r, t)
  BY <1>2, <1>r DEF ExportRest, ImportError
<1>3. CASE \/ \E w \in Wall : CommitReserve(r, t, w)
           \/ \E w \in Wall, o \in Existing : RedactReserve(r, t, w, o)
           \/ \E l \in Label : SnapshotRead(r, t, l)
           \/ \E c \in Content : PutBlobCheck(r, t, [kind |-> "blob", content |-> c])
           \/ \E to \in Replica : ExportEvents(r, t, to)
  BY <1>3, <1>e DEF CommitReserve, RedactReserve, SnapshotRead, PutBlobCheck, ExportEvents
<1>4. CASE RedactRecord(r, t)
  <2>1. PICK b : Enter(r, t, [op |-> "shred", target |-> b.target]) /\ PutTombstone(r, b)
    BY <1>4 DEF RedactRecord
  <2> DEFINE job == [op |-> "shred", target |-> b.target]
  <2>2. b \in tombs'[r]
    BY <2>1 DEF PutTombstone, TypeOK
  <2>3. Recorded(r, job)'
    BY <2>2 DEF Recorded, Tombstoned, Targets
  <2> QED
    BY <2>1, <2>3 DEF Goal
<1>5. CASE \E delta \in wire : ImportStart(r, t, delta)
  <2>1. PICK m, todo : Enter(r, t, [op |-> "import", mine |-> m, todo |-> todo, shred |-> {}])
    BY <1>5 DEF ImportStart
  <2>2. Recorded(r, [op |-> "import", mine |-> m, todo |-> todo, shred |-> {}])'
    BY DEF Recorded
  <2> QED
    BY <2>1, <2>2 DEF Goal
<1>6. CASE \/ ImportAuth(r, t) \/ ImportEvent(r, t) \/ ImportSnapshot(r, t)
           \/ ImportBlob(r, t) \/ ImportShred(r, t)
  BY <1>6, <1>c DEF ImportAuth, ImportEvent, ImportSnapshot, ImportBlob, ImportShred
<1>7. CASE ImportTombstone(r, t)
  <2>1. PICK b \in task[r][t].todo.tombs :
          /\ PutTombstone(r, b)
          /\ Continue(r, t, [task[r][t].todo EXCEPT !.tombs = @ \ {b}], {b.target})
    BY <1>7 DEF ImportTombstone
  <2>2. b \in tombs'[r]
    BY <2>1 DEF PutTombstone, TypeOK
  <2>3. \A o \in {b.target} : Tombstoned(r, o)'
    BY <2>2 DEF Tombstoned, Targets
  <2> QED
    BY <2>1, <2>3, ContinueRecorded DEF Goal
<1> QED
  BY <1>1, <1>2, <1>3, <1>4, <1>5, <1>6, <1>7 DEF Local, Sync

\* The inductive invariant behind the theorems on redaction.
LEMMA ShredsAreRecorded == Spec => [](TypeOK /\ ShredsRecorded)
<1>1. Init => ShredsRecorded
  BY DEF Init, ShredsRecorded, Doing, Idle
<1>2. TypeOK /\ ShredsRecorded /\ [Next]_vars => ShredsRecorded'
  <2> SUFFICES ASSUME TypeOK, ShredsRecorded, [Next]_vars,
                      NEW s \in Replica, NEW u \in Thread
               PROVE  Recorded(s, task[s][u])'
    BY DEF ShredsRecorded, Recorded, Doing
  <2>0. StoreStep
    BY StoreSteps
  <2>1. Recorded(s, task[s][u])
    BY DEF ShredsRecorded, Recorded, Doing
  <2>2. ASSUME task'[s][u] = task[s][u]
        PROVE  Recorded(s, task[s][u])'
    BY <2>0, <2>1, <2>2, TombstonesStay DEF Recorded
  <2>3. ASSUME NEW r \in Replica, NEW t \in Thread, Local(r, t) \/ Sync(r, t)
        PROVE  Recorded(s, task[s][u])'
    <3>1. PICK job : Enter(r, t, job) /\ Recorded(r, job)'
      BY <2>0, <2>3, NextJobRecorded
    <3>2. CASE s = r /\ u = t
      <4>1. task'[s][u] = job
        BY <3>1, <3>2 DEF Enter, TypeOK
      <4> QED
        BY <3>1, <3>2, <4>1 DEF Recorded
    <3>3. CASE ~(s = r /\ u = t)
      <4>1. task'[s][u] = task[s][u]
        BY <3>1, <3>3 DEF Enter, TypeOK
      <4> QED
        BY <2>2, <4>1
    <3> QED
      BY <3>2, <3>3
  <2>4. ASSUME NEW r \in Replica, Crash(r)
        PROVE  Recorded(s, task[s][u])'
    <3>1. task'[s][u] = task[s][u] \/ task'[s][u] = Idle
      BY <2>4 DEF Crash, TypeOK
    <3> QED
      BY <2>2, <3>1 DEF Recorded, Idle
  <2>5. CASE (\E delta \in wire : LoseDelta(delta)) \/ UNCHANGED vars
    BY <2>2, <2>5 DEF LoseDelta, vars
  <2> QED
    BY <2>3, <2>4, <2>5 DEF Next
<1> QED
  BY <1>1, <1>2, TypeCorrect, PTL DEF Spec

\* What a step of the store does to one replica's live objects and tombstones.
LEMMA StoreStepCases ==
  ASSUME TypeOK, StoreStep
  PROVE  \/ /\ \A s \in Replica : Live(s)' = Live(s) /\ Targets(s)' = Targets(s)
            /\ \A s \in Replica : rows'[s] = rows[s] /\ keys'[s] = keys[s]
         \/ \E r \in Replica, o \in Object :
              /\ \A s \in Replica \ {r} : Live(s)' = Live(s) /\ Targets(s)' = Targets(s)
              /\ \A s \in Replica \ {r} : rows'[s] = rows[s] /\ keys'[s] = keys[s]
              /\ \/ /\ o \in Event => o \notin Live(r) /\ o \notin Targets(r)
                    /\ Live(r)' = Live(r) \cup {o} /\ Targets(r)' = Targets(r)
                    /\ rows'[r] = rows[r] \cup {o} /\ keys'[r] = keys[r] \cup {o}
                 \/ /\ o \in Targets(r)
                    /\ Live(r)' = Live(r) \ {o} /\ Targets(r)' = Targets(r)
                    /\ rows'[r] = rows[r] /\ keys'[r] = keys[r] \ {o}
                 \/ /\ Live(r)' = Live(r) /\ Targets(r)' = Targets(r) \cup {o}
                    /\ rows'[r] = rows[r] /\ keys'[r] = keys[r]
<1> USE DEF Live, Targets
<1>0. /\ rows \in [Replica -> SUBSET Object]
      /\ keys \in [Replica -> SUBSET Object]
      /\ tombs \in [Replica -> SUBSET Tombstone]
      /\ Event \subseteq Object
  BY DEF TypeOK, Object
<1>1. CASE UNCHANGED <<rows, keys, tombs>>
  BY <1>1
<1>2. ASSUME NEW r \in Replica, NEW e \in Event, PutEvent(r, e), UNCHANGED tombs,
             ~(UNCHANGED <<rows, keys>>)
      PROVE  /\ \A s \in Replica \ {r} : Live(s)' = Live(s) /\ Targets(s)' = Targets(s)
             /\ \A s \in Replica \ {r} : rows'[s] = rows[s] /\ keys'[s] = keys[s]
             /\ e \notin Live(r) /\ e \notin Targets(r)
             /\ Live(r)' = Live(r) \cup {e} /\ Targets(r)' = Targets(r)
             /\ rows'[r] = rows[r] \cup {e} /\ keys'[r] = keys[r] \cup {e}
  <2>1. /\ e \notin rows[r] /\ e \notin Targets(r)
        /\ rows' = [rows EXCEPT ![r] = @ \cup {e}]
        /\ keys' = [keys EXCEPT ![r] = @ \cup {e}]
    BY <1>2 DEF PutEvent, Tombstoned
  <2>2. /\ rows'[r] = rows[r] \cup {e} /\ keys'[r] = keys[r] \cup {e}
        /\ \A s \in Replica \ {r} : rows'[s] = rows[s] /\ keys'[s] = keys[s]
    BY <1>0, <2>1
  <2> QED
    BY <1>2, <2>1, <2>2
<1>3. ASSUME NEW r \in Replica, NEW o \in Snapshot \cup Blob, PutObject(r, o), UNCHANGED tombs
      PROVE  /\ o \in Object /\ o \notin Event
             /\ \A s \in Replica \ {r} : Live(s)' = Live(s) /\ Targets(s)' = Targets(s)
             /\ \A s \in Replica \ {r} : rows'[s] = rows[s] /\ keys'[s] = keys[s]
             /\ Live(r)' = Live(r) \cup {o} /\ Targets(r)' = Targets(r)
             /\ rows'[r] = rows[r] \cup {o} /\ keys'[r] = keys[r] \cup {o}
  <2>1. o \in Object /\ o \notin Event
    BY DEF Object, Event, Snapshot, Blob
  <2>2. /\ rows'[r] = rows[r] \cup {o} /\ keys'[r] = keys[r] \cup {o}
        /\ \A s \in Replica \ {r} : rows'[s] = rows[s] /\ keys'[s] = keys[s]
    BY <1>0, <1>3 DEF PutObject
  <2> QED
    BY <1>3, <2>1, <2>2
<1>4. ASSUME NEW r \in Replica, NEW o \in Object, Tombstoned(r, o), CryptoShred(r, o),
             UNCHANGED <<rows, tombs>>
      PROVE  /\ \A s \in Replica \ {r} : Live(s)' = Live(s) /\ Targets(s)' = Targets(s)
             /\ \A s \in Replica \ {r} : rows'[s] = rows[s] /\ keys'[s] = keys[s]
             /\ o \in Targets(r)
             /\ Live(r)' = Live(r) \ {o} /\ Targets(r)' = Targets(r)
             /\ rows'[r] = rows[r] /\ keys'[r] = keys[r] \ {o}
  <2>1. /\ keys'[r] = keys[r] \ {o}
        /\ \A s \in Replica \ {r} : keys'[s] = keys[s]
    BY <1>0, <1>4 DEF CryptoShred
  <2> QED
    BY <1>4, <2>1 DEF Tombstoned
<1>5. ASSUME NEW r \in Replica, NEW b \in Tombstone, PutTombstone(r, b), UNCHANGED <<rows, keys>>
      PROVE  /\ b.target \in Object
             /\ \A s \in Replica \ {r} : Live(s)' = Live(s) /\ Targets(s)' = Targets(s)
             /\ \A s \in Replica \ {r} : rows'[s] = rows[s] /\ keys'[s] = keys[s]
             /\ Live(r)' = Live(r) /\ Targets(r)' = Targets(r) \cup {b.target}
             /\ rows'[r] = rows[r] /\ keys'[r] = keys[r]
  <2>1. /\ tombs'[r] = tombs[r] \cup {b}
        /\ \A s \in Replica \ {r} : tombs'[s] = tombs[s]
    BY <1>0, <1>5 DEF PutTombstone
  <2>2. b.target \in Object
    BY DEF Tombstone
  <2> QED
    BY <1>5, <2>1, <2>2
<1> HIDE DEF Live, Targets
<1>6. CASE \E r \in Replica, e \in Event : PutEvent(r, e) /\ UNCHANGED tombs
  BY <1>0, <1>1, <1>2, <1>6
<1>7. CASE \E r \in Replica, o \in Snapshot \cup Blob : PutObject(r, o) /\ UNCHANGED tombs
  BY <1>3, <1>7
<1>8. CASE \E r \in Replica, o \in Object :
             Tombstoned(r, o) /\ CryptoShred(r, o) /\ UNCHANGED <<rows, tombs>>
  BY <1>4, <1>8
<1>9. CASE \E r \in Replica, b \in Tombstone : PutTombstone(r, b) /\ UNCHANGED <<rows, keys>>
  BY <1>5, <1>9
<1> QED
  BY <1>1, <1>6, <1>7, <1>8, <1>9 DEF StoreStep

\* Only objects of kind "event" are events.
LEMMA EventKind ==
  ASSUME NEW S \in SUBSET Object
  PROVE  Events(S) = S \cap Event
BY DEF Events, Object, Event, Snapshot, Blob

\* Redaction of an event is final at a replica: once its key is gone, no import,
\* commit, redaction or crash makes it readable there again (put_event refuses
\* tombstoned ids and events are written nowhere else).
THEOREM RedactionIsFinal == Spec => EventsStayForgotten
<1>1. ASSUME TypeOK, ShredsRecorded, [Next]_vars,
             NEW r \in Replica, NEW e \in Events(Targets(r)), e \notin Live(r)
      PROVE  e \notin Live(r)'
  <2>1. Targets(r) \in SUBSET Object
    BY <1>1 DEF TypeOK, Targets, Tombstone
  <2>2. e \in Event /\ e \in Targets(r)
    BY <2>1, EventKind
  <2>3. StoreStep
    BY <1>1, StoreSteps
  <2> QED
    BY <1>1, <2>2, <2>3, StoreStepCases
<1>2. TypeOK /\ ShredsRecorded /\ [Next]_vars =>
        [\A r \in Replica : \A e \in Events(Targets(r)) :
           e \notin Live(r) => e \notin Live(r)']_vars
  BY <1>1
<1> QED
  BY <1>2, ShredsAreRecorded, PTL DEF Spec, EventsStayForgotten

\* A row without its data key is explained by a durable tombstone, also when the
\* process dies between the two transactions of put_tombstone.
THEOREM ShredsExplained == Spec => []ShredExplained
<1>1. Init => ShredExplained
  BY DEF Init, ShredExplained, Events
<1>2. TypeOK /\ ShredsRecorded /\ ShredExplained /\ [Next]_vars => ShredExplained'
  <2> SUFFICES ASSUME TypeOK, ShredsRecorded, ShredExplained, [Next]_vars,
                      NEW r \in Replica, NEW e, e \in rows'[r], e \notin keys'[r],
                      e.kind = "event"
               PROVE  Tombstoned(r, e)'
    BY DEF ShredExplained, Events
  <2>1. e \in rows[r] /\ e \notin keys[r] => Tombstoned(r, e)
    BY DEF ShredExplained, Events
  <2>2. StoreStep
    BY StoreSteps
  <2>3. CASE Tombstoned(r, e)
    BY <2>2, <2>3, TombstonesStay
  <2>4. CASE ~Tombstoned(r, e)
    BY <2>1, <2>2, <2>4, StoreStepCases DEF Tombstoned
  <2> QED
    BY <2>3, <2>4
<1> QED
  BY <1>1, <1>2, ShredsAreRecorded, PTL DEF Spec

-----------------------------------------------------------------------------
(* The replicated store implements the life cycle of EventLife. *)

status == [r \in Replica |-> [e \in Event |-> EventStatus(r, e)]]

\* A step that moves one event at one replica, and nothing else.
LEMMA OneEventMoves ==
  ASSUME NEW r \in Replica, NEW e \in Event,
         \A s \in Replica, f \in Event :
           ~(s = r /\ f = e) => EventStatus(s, f)' = EventStatus(s, f)
  PROVE  status' = [status EXCEPT ![r][e] = EventStatus(r, e)']
<1>1. status' = [s \in Replica |-> [f \in Event |-> EventStatus(s, f)']]
  BY DEF status
<1>2. [status EXCEPT ![r][e] = EventStatus(r, e)'] =
        [s \in Replica |-> [f \in Event |-> IF s = r /\ f = e THEN EventStatus(r, e)'
                                                          ELSE EventStatus(s, f)]]
  BY DEF status
<1>3. \A s \in Replica, f \in Event :
        EventStatus(s, f)' = IF s = r /\ f = e THEN EventStatus(r, e)' ELSE EventStatus(s, f)
  OBVIOUS
<1> QED
  BY <1>1, <1>2, <1>3

\* Every step of the heart is a step of every event's life, or leaves it alone:
\* HeartSync implements EventLife under the mapping EventStatus.
THEOREM LifeImplemented == Spec => ImplementsLife
<1>1. Init => Life!Init
  BY DEF Init, Life!Init, EventStatus, Live, Tombstoned, Targets
<1>2. ASSUME TypeOK, ShredsRecorded, [Next]_vars
      PROVE  [Life!Next]_status
  <2>0. StoreStep
    BY <1>2, StoreSteps
  <2>1. CASE \A s \in Replica : Live(s)' = Live(s) /\ Targets(s)' = Targets(s)
    BY <2>1 DEF status, EventStatus, Tombstoned
  <2>2. ASSUME NEW r \in Replica, NEW o \in Object,
               \A s \in Replica \ {r} : Live(s)' = Live(s) /\ Targets(s)' = Targets(s),
               \/ /\ o \in Event => o \notin Live(r) /\ o \notin Targets(r)
                  /\ Live(r)' = Live(r) \cup {o} /\ Targets(r)' = Targets(r)
               \/ /\ o \in Targets(r)
                  /\ Live(r)' = Live(r) \ {o} /\ Targets(r)' = Targets(r)
               \/ Live(r)' = Live(r) /\ Targets(r)' = Targets(r) \cup {o}
        PROVE  [Life!Next]_status
    <3>1. \A s \in Replica, f \in Event :
            ~(s = r /\ f = o) => EventStatus(s, f)' = EventStatus(s, f)
      BY <2>2 DEF EventStatus, Tombstoned
    <3>2. CASE o \notin Event \/ EventStatus(r, o)' = EventStatus(r, o)
      BY <3>1, <3>2 DEF status
    <3>3. CASE o \in Event /\ EventStatus(r, o)' # EventStatus(r, o)
      <4>1. status' = [status EXCEPT ![r][o] = EventStatus(r, o)']
        BY <3>1, <3>3, OneEventMoves
      <4>2. status[r][o] = EventStatus(r, o) /\ status'[r][o] = EventStatus(r, o)'
        BY <3>3 DEF status
      <4>3. \/ EventStatus(r, o) = "unknown" /\ EventStatus(r, o)' = "readable"
            \/ EventStatus(r, o) = "readable" /\ EventStatus(r, o)' = "condemned"
            \/ EventStatus(r, o) = "condemned" /\ EventStatus(r, o)' = "forgotten"
            \/ EventStatus(r, o) = "unknown" /\ EventStatus(r, o)' = "forgotten"
        BY <2>2, <3>3 DEF EventStatus, Tombstoned
      <4>4. Life!Learn(r, o) \/ Life!Condemn(r, o) \/ Life!Forget(r, o) \/ Life!Preclude(r, o)
        BY <4>1, <4>2, <4>3
           DEF status, Life!Learn, Life!Condemn, Life!Forget, Life!Preclude, Life!Become
      <4> QED
        BY <3>3, <4>4 DEF Life!Next
    <3> QED
      BY <3>2, <3>3
  <2> QED
    BY <1>2, <2>0, <2>1, <2>2, StoreStepCases
<1>3. TypeOK /\ ShredsRecorded /\ [Next]_vars =>
        [Life!Next]_([r \in Replica |-> [e \in Event |-> EventStatus(r, e)]])
  BY <1>2 DEF status
<1> QED
  BY <1>1, <1>3, ShredsAreRecorded, PTL DEF Spec, ImplementsLife, Life!Spec
=============================================================================
