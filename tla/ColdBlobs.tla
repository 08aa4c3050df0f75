------------------------------ MODULE ColdBlobs ------------------------------
(***************************************************************************)
(* Cold blobs (spine-heart: store.rs).  A blob is sealed under a fresh     *)
(* data key.  A small one is stored in the database with its key, in one   *)
(* transaction; a large one is written to a file beside the database       *)
(* first, and a file that is already there is kept as it is.  Redaction    *)
(* records a tombstone, deletes the key and then the file, each durable by *)
(* itself.  HeartSync sees blobs as atomic; here are the steps, and the    *)
(* crashes between them, with any number of threads.  One heart; its files *)
(* are not in its database.                                                *)
(***************************************************************************)
EXTENDS Naturals

CONSTANTS
  Thread,
  Blob,
  Large,      \* those stored in files: at least external_threshold bytes
  NoRow,      \* no entry in the BLOBS table
  MaxSeals,   \* bound: calls of seal_object
  MaxCrashes  \* bound: crashes

ASSUME LargeAssumption == Large \subseteq Blob
ASSUME BlobBounds == MaxSeals \in Nat /\ MaxCrashes \in Nat

VARIABLES
  row,     \* blob -> entry of BLOBS: where the ciphertext is, and whose
  key,     \* blob -> entry of DATA_KEYS, 0 if there is none
  file,    \* blob -> the key its file is sealed under, 0 if there is none
  tombs,   \* blobs with a tombstone
  task,    \* thread -> what it is doing
  seals,   \* data keys drawn so far: the n-th one is n
  storeCrashes,
  returned, \* history: blobs whose put, and whose redaction, returned
  raced    \* history: blobs that were being put when their key was deleted

store == <<row, key, file, tombs>>
blobVars == <<store, task, seals, storeCrashes, returned, raced>>

Idle == [op |-> "idle"]
Doing(t, op) == task[t].op = op
Do(t, op, b, k) == task' = [task EXCEPT ![t] = [op |-> op, blob |-> b, key |-> k]]
Return(t) == task' = [task EXCEPT ![t] = Idle]

\* get_blob succeeds: the ciphertext it finds is the one the key opens.
Readable(b) ==
  /\ row[b] # NoRow /\ key[b] # 0
  /\ key[b] = IF row[b].external THEN file[b] ELSE row[b].sealed

\* A put of b has looked for the tombstone and has not stored its key yet.
Putting == {"look", "exists", "rename", "commit"}
Underway(b) == \E t \in Thread : task[t].op \in Putting /\ task[t].blob = b

-----------------------------------------------------------------------------
(* put_blob_record, outside the projection gate. *)

PutCheck(t, b) ==
  /\ Doing(t, "idle") /\ b \notin tombs
  /\ Do(t, "look", b, 0)
  /\ UNCHANGED <<store, seals, storeCrashes, returned, raced>>

\* get_blob: a blob that is there, or an error, ends the call; without an entry
\* or without a key the blob is sealed under a new key.
PutLook(t) ==
  /\ Doing(t, "look")
  /\ LET b == task[t].blob
     IN  IF row[b] # NoRow /\ key[b] # 0
         THEN Return(t) /\ UNCHANGED seals
         ELSE /\ seals < MaxSeals
              /\ seals' = seals + 1
              /\ Do(t, IF b \in Large THEN "exists" ELSE "commit", b, seals + 1)
  /\ UNCHANGED <<store, storeCrashes, returned, raced>>

\* final_path.exists(): whatever is in the file is kept.
PutExists(t) ==
  /\ Doing(t, "exists")
  /\ Do(t, IF file[task[t].blob] # 0 THEN "commit" ELSE "rename", task[t].blob, task[t].key)
  /\ UNCHANGED <<store, seals, storeCrashes, returned, raced>>

\* A temporary file, written and synchronised, takes its place at once.
PutRename(t) ==
  /\ Doing(t, "rename")
  /\ file' = [file EXCEPT ![task[t].blob] = task[t].key]
  /\ Do(t, "commit", task[t].blob, task[t].key)
  /\ UNCHANGED <<row, key, tombs, seals, storeCrashes, returned, raced>>

\* One transaction for the entry and its key.
PutCommit(t) ==
  /\ Doing(t, "commit")
  /\ LET b == task[t].blob
     IN  /\ row' = [row EXCEPT ![b] = [external |-> b \in Large,
                      sealed |-> IF b \in Large THEN 0 ELSE task[t].key]]
         /\ key' = [key EXCEPT ![b] = task[t].key]
         /\ returned' = [returned EXCEPT !.put = @ \cup {b}]
  /\ Return(t)
  /\ UNCHANGED <<file, tombs, seals, storeCrashes, raced>>

-----------------------------------------------------------------------------
(* redact, and the tombstones of an import: behind the projection gate. *)

GateFree == \A t \in Thread : task[t].op \notin {"shred", "remove"}

\* put_tombstone, first transaction.
RedactRecord(t, b) ==
  /\ Doing(t, "idle") /\ GateFree
  /\ tombs' = tombs \cup {b}
  /\ Do(t, "shred", b, 0)
  /\ UNCHANGED <<row, key, file, seals, storeCrashes, returned, raced>>

\* Mutation of RedactKey: the file goes before the key.
RemoveFirst(t) ==
  /\ Doing(t, "shred")
  /\ LET b == task[t].blob
     IN  /\ IF file[b] # 0
            THEN file' = [file EXCEPT ![b] = 0] /\ UNCHANGED <<key, task>>
            ELSE key' = [key EXCEPT ![b] = 0] /\ Do(t, "remove", b, 0) /\ UNCHANGED file
         /\ raced' = IF Underway(b) THEN raced \cup {b} ELSE raced \ {b}
  /\ UNCHANGED <<row, tombs, seals, storeCrashes, returned>>

\* crypto_shred, second transaction: the key.
RedactKey(t) ==
  /\ Doing(t, "shred")
  /\ LET b == task[t].blob
     IN  /\ key' = [key EXCEPT ![b] = 0]
         /\ Do(t, "remove", b, 0)
         /\ raced' = IF Underway(b) THEN raced \cup {b} ELSE raced \ {b}
  /\ UNCHANGED <<row, file, tombs, seals, storeCrashes, returned>>

\* crypto_shred, at last: the file, if there is one.
RedactFile(t) ==
  /\ Doing(t, "remove")
  /\ LET b == task[t].blob
     IN  /\ file' = [file EXCEPT ![b] = 0]
         /\ returned' = [returned EXCEPT !.redact = IF b \in raced THEN @ ELSE @ \cup {b}]
  /\ Return(t)
  /\ UNCHANGED <<row, key, tombs, seals, storeCrashes, raced>>

\* Nothing looks at the files when the heart is opened again.
StoreCrash ==
  /\ storeCrashes < MaxCrashes
  /\ \E t \in Thread : ~Doing(t, "idle")
  /\ storeCrashes' = storeCrashes + 1
  /\ task' = [t \in Thread |-> Idle]
  /\ UNCHANGED <<store, seals, returned, raced>>

BlobsInit ==
  /\ row = [b \in Blob |-> NoRow]
  /\ key = [b \in Blob |-> 0] /\ file = [b \in Blob |-> 0]
  /\ tombs = {} /\ task = [t \in Thread |-> Idle]
  /\ seals = 0 /\ storeCrashes = 0 /\ returned = [put |-> {}, redact |-> {}]
  /\ raced = {}

BlobsNext ==
  \/ \E t \in Thread :
       \/ \E b \in Blob : PutCheck(t, b) \/ RedactRecord(t, b)
       \/ PutLook(t) \/ PutExists(t) \/ PutRename(t) \/ PutCommit(t)
       \/ RedactKey(t) \/ RedactFile(t)
  \/ StoreCrash

BlobsSpec == BlobsInit /\ [][BlobsNext]_blobVars

-----------------------------------------------------------------------------
(* Properties. *)

\* Whatever a crash cuts off, an entry with a key has its ciphertext: the file
\* comes before the key and goes after it (put_blob_record, crypto_shred).
\* And once redact returned, key and file are gone for good, also the file that
\* a crashed put left behind without an entry.  put_blob_record is not gated:
\* the exception is a blob that another thread was putting, past its look for
\* the tombstone, when the key was deleted; redacting it again ends that.
BlobsSound ==
  /\ \A b \in Blob \ raced : row[b] # NoRow /\ key[b] # 0 /\ row[b].external => file[b] # 0
  /\ \A b \in returned.redact : key[b] = 0 /\ file[b] = 0

\* A blob whose put returned can be read until it is redacted (tests/
\* cold_blobs.rs reads back what put_blob stored).
PutIsReadable == \A b \in returned.put \ tombs : Readable(b)

=============================================================================
