----------------------------- MODULE HeartSync -----------------------------
(***************************************************************************)
(* Replicas of one encrypted heart: the event log with its device clock,   *)
(* snapshots, inline cold blobs, tombstones (redaction by crypto-shredding)*)
(* and delta synchronisation (spine-heart: store.rs, sync.rs, heart.rs).   *)
(*                                                                         *)
(* A replica is one store file, used by several threads of one process.    *)
(* Every redb write transaction is one atomic step, and nothing larger is: *)
(* a process may crash between any two of them.  The in-memory mutex       *)
(* `projection_gate' serialises commits, redactions and imports; snapshots,*)
(* put_blob, sync_frontier and export_delta run without it.                *)
(*                                                                         *)
(* Content, signatures and encryption are abstracted: an object is its own *)
(* identity (ids are keyed hashes of the content), a record is "live" when *)
(* its row and its data key are both present, and a record is authentic    *)
(* when its device has been authorised.  Only epoch 1 authorisations are   *)
(* ever issued (authorize_current_device(1)), so they are a set of devices.*)
(***************************************************************************)
EXTENDS Integers, FiniteSets

CONSTANTS
  Replica,      \* device numbers; the numeric order stands for id byte order
  Thread,       \* threads of each process that use the heart
  Wall,         \* readings of the system clock, which may jump backwards
  Label,        \* snapshot labels (label and creation time together)
  Content,      \* contents offered to put_blob
  CounterMax,   \* u32::MAX of the hybrid clock counter, scaled down
  SeqMax,       \* u64::MAX of the device sequence, scaled down
  MaxSeq,       \* bound: the last device sequence each replica may reserve
  MaxWire,      \* bound: deltas in transit at any time
  Link,         \* pairs <<from, to>> of replicas that exchange deltas
  Misdelivery,  \* TRUE: a delta may reach a replica it was not made for
  NoThread      \* the gate is free

ASSUME ReplicaAssumption == Replica \subseteq Nat /\ Wall \subseteq Nat
ASSUME BoundAssumption == /\ CounterMax \in Nat
                          /\ SeqMax \in Nat \ {0}
                          /\ MaxSeq \in [Replica -> 0..SeqMax]
                          /\ MaxWire \in Nat
                          /\ Link \subseteq Replica \X Replica
                          /\ Misdelivery \in BOOLEAN
ASSUME NoThreadAssumption == NoThread \notin Thread

VARIABLES
  device,     \* replica -> DeviceRecord: next sequence, last wall, counter
  auths,      \* replica -> devices whose authorisation it holds
  rows,       \* replica -> events, snapshots and blobs with a table row
  keys,       \* replica -> objects whose data key is present
  tombs,      \* replica -> tombstone records
  gate,       \* replica -> thread that holds projection_gate
  task,       \* replica -> thread -> the operation it is in the middle of
  wire        \* deltas in transit; delivery does not remove one

store == <<device, auths, rows, keys, tombs>>
vars == <<device, auths, rows, keys, tombs, gate, task, wire>>

-----------------------------------------------------------------------------
(* Objects and operations in progress. *)

Walls == Wall \cup {0}
DeviceRecord == [next : 0..SeqMax, wall : Walls, ctr : 0..CounterMax]
Event == [kind : {"event"}, dev : Replica, seq : 0..SeqMax, wall : Walls, ctr : 0..CounterMax]
Frontier == [Replica -> 0..SeqMax]
Snapshot == [kind : {"snapshot"}, label : Label, frontier : Frontier]
Blob == [kind : {"blob"}, content : Content]
Object == Event \cup Snapshot \cup Blob
Tombstone == [dev : Replica, seq : 0..SeqMax, target : Object]

\* Body of a delta, and what an import still has to apply.
Body == [auths : SUBSET Replica, events : SUBSET Event, snaps : SUBSET Snapshot,
         tombs : SUBSET Tombstone, blobs : SUBSET Blob]

SyncFrontier == [devices : Frontier, auths : SUBSET Replica, snaps : SUBSET Snapshot,
                 tombs : SUBSET Tombstone, blobs : SUBSET Blob]

Task == [op : {"idle"}]
        \cup [op : {"commit"}, event : Event]
        \cup [op : {"redact"}, tomb : Tombstone]
        \cup [op : {"shred"}, target : Object]
        \cup [op : {"snapshot"}, snap : Snapshot]
        \cup [op : {"put_blob"}, blob : Blob]
        \cup [op : {"export"}, to : Replica, remote : SyncFrontier, events : SUBSET Event]
        \cup [op : {"import"}, mine : BOOLEAN, todo : Body, shred : SUBSET Object]

Idle == [op |-> "idle"]
EmptyBody == [auths |-> {}, events |-> {}, snaps |-> {}, tombs |-> {}, blobs |-> {}]

Events(S) == {o \in S : o.kind = "event"}
Snaps(S) == {o \in S : o.kind = "snapshot"}
Blobs(S) == {o \in S : o.kind = "blob"}

Live(r) == rows[r] \cap keys[r]
Targets(r) == {t.target : t \in tombs[r]}

\* is_tombstoned
Tombstoned(r, o) == o \in Targets(r)

\* event_order_key: wall, counter, device, sequence, compared lexicographically.
Before(e, f) ==
  \/ e.wall < f.wall
  \/ e.wall = f.wall /\ e.ctr < f.ctr
  \/ e.wall = f.wall /\ e.ctr = f.ctr /\ e.dev < f.dev
  \/ e.wall = f.wall /\ e.ctr = f.ctr /\ e.dev = f.dev /\ e.seq < f.seq

\* e comes first of a set of events in canonical order.
IsFirst(e, S) == \A f \in S \ {e} : Before(e, f)

\* frontier: the highest live sequence of each device, 0 when there is none.
FrontierOf(r) ==
  [d \in Replica |->
     LET seqs == {0} \cup {e.seq : e \in {x \in Events(Live(r)) : x.dev = d}}
     IN  CHOOSE n \in seqs : \A m \in seqs : m <= n]

\* sync_frontier
SyncFrontierOf(r) ==
  [devices |-> FrontierOf(r), auths |-> auths[r], snaps |-> Snaps(Live(r)),
   tombs |-> tombs[r], blobs |-> Blobs(Live(r))]

\* events_after
EventsAfter(r, f) == {e \in Events(Live(r)) : e.seq > f.devices[e.dev]}

\* Mutation of AuthsAfter: only the exporter's own authorisation.
OwnAuth(r, f) == {r} \ f.auths

\* Mutation of TombsAfter: redactions stay local.
NoTombs(r, f) == {}

\* The four other fields of export_delta, each filtered by what the peer has.
AuthsAfter(r, f) == auths[r] \ f.auths
SnapsAfter(r, f) == Snaps(Live(r)) \ f.snaps
TombsAfter(r, f) == tombs[r] \ f.tombs
BlobsAfter(r, f) == Blobs(Live(r)) \ f.blobs

BodyAfter(r, f, events) ==
  [auths |-> AuthsAfter(r, f), events |-> events, snaps |-> SnapsAfter(r, f),
   tombs |-> TombsAfter(r, f), blobs |-> BlobsAfter(r, f)]

-----------------------------------------------------------------------------
(* Threads and the gate. *)

\* Mutation of GateFree: operations that forget to take the gate.
GateIgnored(r) == TRUE

GateFree(r) == gate[r] = NoThread
IsIdle(r, t) == task[r][t].op = "idle"
Doing(r, t, op) == task[r][t].op = op

\* Enter an operation, with or without the gate.
Enter(r, t, job) == task' = [task EXCEPT ![r][t] = job]
Lock(r, t) == GateFree(r) /\ gate' = [gate EXCEPT ![r] = t]
Return(r, t) == /\ task' = [task EXCEPT ![r][t] = Idle]
                /\ gate' = [gate EXCEPT ![r] = IF @ = t THEN NoThread ELSE @]

-----------------------------------------------------------------------------
(* Store primitives: one write transaction each. *)

\* The sequence number after n; saturating_add.
NextSeq(n) == IF n < SeqMax THEN n + 1 ELSE n

\* Mutation of Reserve: trust the system clock.
ReserveObserved(d, observed) ==
  [next |-> NextSeq(d.next), wall |-> observed,
   ctr |-> IF observed = d.wall /\ d.ctr < CounterMax THEN d.ctr + 1 ELSE 0]

\* reserve_clock: the wall component never goes back, the counter saturates.
Reserve(d, observed) ==
  LET wall == IF observed > d.wall THEN observed ELSE d.wall
      next == IF d.ctr < CounterMax THEN d.ctr + 1 ELSE d.ctr
  IN  [next |-> NextSeq(d.next),
       wall |-> wall,
       ctr |-> IF wall = d.wall THEN next ELSE 0]

\* Mutation of EventRefused: the device is not checked.
EventUnreadable(r, e) == ~Tombstoned(r, e) /\ e \in rows[r] /\ e \notin keys[r]

\* put_event answers an error and writes nothing: the device is not authorised,
\* or the row is there without its key although no tombstone explains it.
EventRefused(r, e) ==
  \/ e.dev \notin auths[r]
  \/ ~Tombstoned(r, e) /\ e \in rows[r] /\ e \notin keys[r]

\* Mutation of PutEvent: no look at the tombstones.
PutEventAnyway(r, e) ==
  IF e \in rows[r]
  THEN UNCHANGED <<rows, keys>>
  ELSE /\ rows' = [rows EXCEPT ![r] = @ \cup {e}]
       /\ keys' = [keys EXCEPT ![r] = @ \cup {e}]

\* put_event: a tombstoned event and a known one are duplicates, not inserted.
PutEvent(r, e) ==
  IF Tombstoned(r, e) \/ e \in rows[r]
  THEN UNCHANGED <<rows, keys>>
  ELSE /\ rows' = [rows EXCEPT ![r] = @ \cup {e}]
       /\ keys' = [keys EXCEPT ![r] = @ \cup {e}]

\* put_encrypted on a snapshot or blob table: row and data key, unconditionally.
PutObject(r, o) ==
  /\ rows' = [rows EXCEPT ![r] = @ \cup {o}]
  /\ keys' = [keys EXCEPT ![r] = @ \cup {o}]

\* Mutation of PutBlobRecord: no look at the tombstones.
PutBlobAnyway(r, b) ==
  IF b \in Live(r) THEN UNCHANGED <<rows, keys>> ELSE PutObject(r, b)

\* put_blob_record of an inline blob: tombstoned and present blobs are left alone.
PutBlobRecord(r, b) ==
  IF Tombstoned(r, b) \/ b \in Live(r)
  THEN UNCHANGED <<rows, keys>>
  ELSE PutObject(r, b)

\* First transaction of put_tombstone.
PutTombstone(r, tomb) == tombs' = [tombs EXCEPT ![r] = @ \cup {tomb}]

\* crypto_shred, the second one: the data key goes, the row stays.
CryptoShred(r, o) == keys' = [keys EXCEPT ![r] = @ \ {o}]

-----------------------------------------------------------------------------
(* commit_interaction: reserve a clock value, then store the signed event. *)

CommitReserve(r, t, wall) ==
  LET d == Reserve(device[r], wall) IN
  /\ IsIdle(r, t)
  /\ device[r].next <= MaxSeq[r]
  /\ Lock(r, t)
  /\ device' = [device EXCEPT ![r] = d]
  /\ Enter(r, t, [op |-> "commit",
                  event |-> [kind |-> "event", dev |-> r, seq |-> device[r].next,
                             wall |-> d.wall, ctr |-> d.ctr]])
  /\ UNCHANGED <<auths, rows, keys, tombs, wire>>

CommitPut(r, t) ==
  /\ Doing(r, t, "commit")
  /\ PutEvent(r, task[r][t].event)
  /\ Return(r, t)
  /\ UNCHANGED <<device, auths, tombs, wire>>

(* redact: the tombstone takes a device sequence of its own. *)

RedactReserve(r, t, wall, target) ==
  /\ IsIdle(r, t)
  /\ device[r].next <= MaxSeq[r]
  /\ Lock(r, t)
  /\ device' = [device EXCEPT ![r] = Reserve(device[r], wall)]
  /\ Enter(r, t, [op |-> "redact",
                  tomb |-> [dev |-> r, seq |-> device[r].next, target |-> target]])
  /\ UNCHANGED <<auths, rows, keys, tombs, wire>>

\* Mutation of RedactRecord: the key goes before the tombstone is durable.
RedactShredFirst(r, t) ==
  /\ Doing(r, t, "redact")
  /\ CryptoShred(r, task[r][t].tomb.target)
  /\ Enter(r, t, [op |-> "shred", target |-> task[r][t].tomb.target])
  /\ UNCHANGED <<device, auths, rows, tombs, gate, wire>>

RedactRecord(r, t) ==
  /\ Doing(r, t, "redact")
  /\ PutTombstone(r, task[r][t].tomb)
  /\ Enter(r, t, [op |-> "shred", target |-> task[r][t].tomb.target])
  /\ UNCHANGED <<device, auths, rows, keys, gate, wire>>

RedactShred(r, t) ==
  /\ Doing(r, t, "shred")
  /\ CryptoShred(r, task[r][t].target)
  /\ Return(r, t)
  /\ UNCHANGED <<device, auths, rows, tombs, wire>>

(* snapshot: reads the frontier, then stores the snapshot; not gated. *)

\* Bound: each label (with its creation time) is given to one snapshot.
Fresh(label) ==
  \A s \in Replica :
    /\ \A o \in Snaps(rows[s]) : o.label # label
    /\ \A t \in Thread : Doing(s, t, "snapshot") => task[s][t].snap.label # label

SnapshotRead(r, t, label) ==
  /\ IsIdle(r, t)
  /\ Fresh(label)
  /\ Enter(r, t, [op |-> "snapshot",
                  snap |-> [kind |-> "snapshot", label |-> label, frontier |-> FrontierOf(r)]])
  /\ UNCHANGED <<store, gate, wire>>

SnapshotPut(r, t) ==
  /\ Doing(r, t, "snapshot")
  /\ PutObject(r, task[r][t].snap)
  /\ Return(r, t)
  /\ UNCHANGED <<device, auths, tombs, wire>>

(* put_blob: its checks and its write are apart, and it is not gated.  When a *)
(* check fails the call returns without changing the store.                  *)

\* Mutation of PutBlobCheck: it looks for the blob, not for its tombstone.
PutBlobUnchecked(r, t, b) ==
  /\ IsIdle(r, t)
  /\ b \notin Live(r)
  /\ Enter(r, t, [op |-> "put_blob", blob |-> b])
  /\ UNCHANGED <<store, gate, wire>>

PutBlobCheck(r, t, b) ==
  /\ IsIdle(r, t)
  /\ ~Tombstoned(r, b)
  /\ b \notin Live(r)
  /\ Enter(r, t, [op |-> "put_blob", blob |-> b])
  /\ UNCHANGED <<store, gate, wire>>

PutBlobStore(r, t) ==
  /\ Doing(r, t, "put_blob")
  /\ PutObject(r, task[r][t].blob)
  /\ Return(r, t)
  /\ UNCHANGED <<device, auths, tombs, wire>>

-----------------------------------------------------------------------------
(* Synchronisation. *)

\* export_delta for the frontier a peer announced; both are ungated.  The events
\* are read first, everything else later, when the peer and this replica may
\* have moved on.
ExportEvents(r, t, to) ==
  /\ IsIdle(r, t)
  /\ <<r, to>> \in Link
  /\ LET remote == SyncFrontierOf(to)
     IN  Enter(r, t, [op |-> "export", to |-> to, remote |-> remote,
                      events |-> EventsAfter(r, remote)])
  /\ UNCHANGED <<store, gate, wire>>

ExportRest(r, t) ==
  LET job == task[r][t] IN
  /\ Doing(r, t, "export")
  /\ Cardinality(wire) < MaxWire
  /\ wire' = wire \cup {[to |-> job.to, body |-> BodyAfter(r, job.remote, job.events)]}
  /\ Return(r, t)
  /\ UNCHANGED store

\* import_delta, one record at a time: authorisations, events in canonical
\* order, snapshots, tombstones (two transactions each), blobs.
ImportStart(r, t, delta) ==
  /\ IsIdle(r, t)
  /\ Misdelivery \/ delta.to = r
  /\ delta.body # EmptyBody
  /\ Lock(r, t)
  /\ Enter(r, t, [op |-> "import", mine |-> delta.to = r, todo |-> delta.body, shred |-> {}])
  /\ UNCHANGED <<store, wire>>

Continue(r, t, todo, shred) ==
  IF todo = EmptyBody /\ shred = {}
  THEN Return(r, t)
  ELSE /\ Enter(r, t, [op |-> "import", mine |-> task[r][t].mine, todo |-> todo, shred |-> shred])
       /\ UNCHANGED gate

ImportAuth(r, t) ==
  LET todo == task[r][t].todo IN
  /\ Doing(r, t, "import")
  /\ \E d \in todo.auths :
       /\ auths' = [auths EXCEPT ![r] = @ \cup {d}]
       /\ Continue(r, t, [todo EXCEPT !.auths = @ \ {d}], {})
  /\ UNCHANGED <<device, rows, keys, tombs, wire>>

ImportEvent(r, t) ==
  LET todo == task[r][t].todo IN
  /\ Doing(r, t, "import")
  /\ todo.auths = {}
  /\ \E e \in todo.events :
       /\ IsFirst(e, todo.events)
       /\ ~EventRefused(r, e)
       /\ PutEvent(r, e)
       /\ Continue(r, t, [todo EXCEPT !.events = @ \ {e}], {})
  /\ UNCHANGED <<device, auths, tombs, wire>>

ImportSnapshot(r, t) ==
  LET todo == task[r][t].todo IN
  /\ Doing(r, t, "import")
  /\ todo.auths = {} /\ todo.events = {}
  /\ \E s \in todo.snaps :
       /\ PutObject(r, s)
       /\ Continue(r, t, [todo EXCEPT !.snaps = @ \ {s}], {})
  /\ UNCHANGED <<device, auths, tombs, wire>>

ImportTombstone(r, t) ==
  LET todo == task[r][t].todo IN
  /\ Doing(r, t, "import")
  /\ todo.auths = {} /\ todo.events = {} /\ todo.snaps = {}
  /\ task[r][t].shred = {}
  /\ \E tomb \in todo.tombs :
       /\ tomb.dev \in auths[r]
       /\ PutTombstone(r, tomb)
       /\ Continue(r, t, [todo EXCEPT !.tombs = @ \ {tomb}], {tomb.target})
  /\ UNCHANGED <<device, auths, rows, keys, wire>>

ImportShred(r, t) ==
  /\ Doing(r, t, "import")
  /\ \E o \in task[r][t].shred :
       /\ CryptoShred(r, o)
       /\ Continue(r, t, task[r][t].todo, {})
  /\ UNCHANGED <<device, auths, rows, tombs, wire>>

ImportBlob(r, t) ==
  LET todo == task[r][t].todo IN
  /\ Doing(r, t, "import")
  /\ todo.auths = {} /\ todo.events = {} /\ todo.snaps = {} /\ todo.tombs = {}
  /\ task[r][t].shred = {}
  /\ \E b \in todo.blobs :
       /\ PutBlobRecord(r, b)
       /\ Continue(r, t, [todo EXCEPT !.blobs = @ \ {b}], {})
  /\ UNCHANGED <<device, auths, tombs, wire>>

\* The next record of an import is one the store refuses.
Refuses(r, t) ==
  LET todo == task[r][t].todo IN
  /\ Doing(r, t, "import")
  /\ todo.auths = {}
  /\ \/ \E e \in todo.events : IsFirst(e, todo.events) /\ EventRefused(r, e)
     \/ /\ todo.events = {} /\ todo.snaps = {} /\ task[r][t].shred = {}
        /\ \E tomb \in todo.tombs : tomb.dev \notin auths[r]

\* import_delta stops at the first error; what was applied before it stays.
ImportError(r, t) ==
  /\ Refuses(r, t)
  /\ Return(r, t)
  /\ UNCHANGED <<store, wire>>

\* A delta is lost in transit.
LoseDelta(delta) ==
  /\ wire' = wire \ {delta}
  /\ UNCHANGED <<store, gate, task>>

-----------------------------------------------------------------------------
(* The process dies and the store is opened again: transactions survive.   *)

Crash(r) ==
  /\ \E t \in Thread : ~IsIdle(r, t)
  /\ task' = [task EXCEPT ![r] = [t \in Thread |-> Idle]]
  /\ gate' = [gate EXCEPT ![r] = NoThread]
  /\ UNCHANGED <<store, wire>>

-----------------------------------------------------------------------------

Init ==
  /\ device = [r \in Replica |-> [next |-> 1, wall |-> 0, ctr |-> 0]]
  /\ auths = [r \in Replica |-> {r}]
  /\ rows = [r \in Replica |-> {}]
  /\ keys = [r \in Replica |-> {}]
  /\ tombs = [r \in Replica |-> {}]
  /\ gate = [r \in Replica |-> NoThread]
  /\ task = [r \in Replica |-> [t \in Thread |-> Idle]]
  /\ wire = {}

\* Objects that exist at some replica: what an owner can ask to redact.
Existing == UNION {rows[r] : r \in Replica}

Local(r, t) ==
  \/ \E w \in Wall : CommitReserve(r, t, w)
  \/ CommitPut(r, t)
  \/ \E w \in Wall, o \in Existing : RedactReserve(r, t, w, o)
  \/ RedactRecord(r, t)
  \/ RedactShred(r, t)
  \/ \E l \in Label : SnapshotRead(r, t, l)
  \/ SnapshotPut(r, t)
  \/ \E c \in Content : PutBlobCheck(r, t, [kind |-> "blob", content |-> c])
  \/ PutBlobStore(r, t)

Sync(r, t) ==
  \/ \E to \in Replica : ExportEvents(r, t, to)
  \/ ExportRest(r, t)
  \/ \E delta \in wire : ImportStart(r, t, delta)
  \/ ImportAuth(r, t)
  \/ ImportEvent(r, t)
  \/ ImportSnapshot(r, t)
  \/ ImportTombstone(r, t)
  \/ ImportShred(r, t)
  \/ ImportBlob(r, t)
  \/ ImportError(r, t)

Next ==
  \/ \E r \in Replica, t \in Thread : Local(r, t) \/ Sync(r, t)
  \/ \E r \in Replica : Crash(r)
  \/ \E delta \in wire : LoseDelta(delta)

Spec == Init /\ [][Next]_vars

-----------------------------------------------------------------------------
(* Properties. *)

\* Every variable has its type: in particular the clock counter stays a u32.
TypeOK ==
  /\ device \in [Replica -> DeviceRecord]
  /\ auths \in [Replica -> SUBSET Replica]
  /\ rows \in [Replica -> SUBSET Object]
  /\ keys \in [Replica -> SUBSET Object]
  /\ tombs \in [Replica -> SUBSET Tombstone]
  /\ gate \in [Replica -> Thread \cup {NoThread}]
  /\ task \in [Replica -> [Thread -> Task]]
  /\ wire \subseteq [to : Replica, body : Body]

\* A redacted event that is not readable at a replica never becomes readable
\* there again: put_event refuses tombstoned ids, whatever delta brings them,
\* late, twice or after a crash in the middle of an earlier import.
EventsStayForgotten ==
  [][\A r \in Replica : \A e \in Events(Targets(r)) :
        e \notin Live(r) => e \notin Live(r)']_vars

\* put_blob of b is between its check and its write.
Underway(r, b) == \E t \in Thread : Doing(r, t, "put_blob") /\ task[r][t].blob = b

Gone(r, b) == Tombstoned(r, b) /\ b \notin Live(r) /\ ~Underway(r, b)

\* A redacted blob that is not readable at a replica, and that no put_blob which
\* looked for the tombstone before it was there is about to write, stays so: no
\* later put, no delta, late or twice, no crash in the middle of an import brings
\* it back.  put_blob is not gated, so puts that were already under way are the
\* only exception.
BlobsStayForgotten == [][\A r \in Replica : \A b \in Blob : Gone(r, b) => Gone(r, b)']_vars

\* Frontier synchronisation skips nothing: an event at or below the frontier a
\* replica announces has reached that replica, or has been redacted somewhere.
\* It needs the gate (sequence order is store order), canonical order inside a
\* delta (a crash leaves a prefix of every device) and the monotone clock.
NoGap ==
  \A r \in Replica : \A e \in Events(Existing) :
    e.seq <= FrontierOf(r)[e.dev] =>
      e \in rows[r] \/ \E s \in Replica : Tombstoned(s, e)

\* Canonical order agrees with the order in which a device wrote its events,
\* although its system clock may jump back and the counter may saturate.
CanonicalOrderFollowsDevice ==
  \A e, f \in Events(Existing) :
    e.dev = f.dev /\ e.seq < f.seq => Before(e, f)

\* A replica stores events and tombstones of authorised devices only, also when
\* deltas reach replicas they were not made for: import_delta stores the
\* authorisations first and put_event and put_tombstone verify against them.
OnlyAuthorised ==
  \A r \in Replica :
    /\ \A e \in Events(rows[r]) : e.dev \in auths[r]
    /\ \A tomb \in tombs[r] : tomb.dev \in auths[r]

\* A key is only ever shredded after its tombstone is durable: an event row
\* without a key is always explained by a tombstone of the same replica, so a
\* late copy of it is a duplicate and never the NotFound error of put_event.
ShredExplained ==
  \A r \in Replica : \A e \in Events(rows[r]) \ keys[r] : Tombstoned(r, e)

\* A delta is never refused half way by the replica it was made for, also when
\* the records in it come from third replicas and whatever deltas made for
\* others it was given before (export_delta sends the missing authorisations).
ImportsComplete ==
  \A r \in Replica, t \in Thread : Refuses(r, t) => ~task[r][t].mine

EventStatus(r, e) ==
  IF e \in Live(r) THEN IF Tombstoned(r, e) THEN "condemned" ELSE "readable"
                   ELSE IF Tombstoned(r, e) THEN "forgotten" ELSE "unknown"

Life == INSTANCE EventLife
          WITH Place <- Replica, Item <- Event,
               status <- [r \in Replica |-> [e \in Event |-> EventStatus(r, e)]]

\* Each event leads the life EventLife allows at each replica, whatever commits,
\* imports, redactions and crashes interleave: it is learnt once, it is lost only
\* by redaction, and it is never learnt again after that.
ImplementsLife == Life!Spec

Quiet(r) == \A t \in Thread : IsIdle(r, t)
NothingToSend(r, s) ==
  LET f == SyncFrontierOf(s) IN BodyAfter(r, f, EventsAfter(r, f)) = EmptyBody

\* Replicas with nothing left to send one another hold the same tombstones,
\* authorisations and unredacted events, whatever was lost, delivered late or cut
\* short by a crash before.  (Two of several replicas may differ until a redaction
\* made at a third reaches them: its own frontier already covers the event.)
Agreement ==
  (\A r, s \in Replica : NothingToSend(r, s)) =>
    \A r, s \in Replica :
      /\ tombs[r] = tombs[s]
      /\ auths[r] = auths[s]
      /\ Events(Live(r)) \ Targets(r) = Events(Live(s)) \ Targets(s)

\* What two_offline_writers_converge asserts: they also read the same log.
SameLogAfterExchange ==
  \A r, s \in Replica :
    Quiet(r) /\ Quiet(s) /\ NothingToSend(r, s) /\ NothingToSend(s, r) =>
      Events(Live(r)) = Events(Live(s))
=============================================================================
