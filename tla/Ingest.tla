------------------------------- MODULE Ingest -------------------------------
(***************************************************************************)
(* Bulk ingestion of documents (spine-cli: DocumentIngestTool of           *)
(* partner_tools.rs, document_ingest.rs).  A document is cut into          *)
(* overlapping chunks, every chunk becomes one event of the heart, and what*)
(* the log already holds is skipped, so that an ingestion that broke off   *)
(* can be repeated with the same or with other chunk sizes.                *)
(*                                                                         *)
(* The identity of a document is its canonical path and its bytes; a chunk *)
(* is a span of the words of one content, which stands for its hash (words *)
(* are told apart).  Records written before documents had ids ("legacy")   *)
(* know only the path.  A batch commits event by event, each durable, and  *)
(* installs the projection at the end: what breaks off in between leaves   *)
(* the projection stale until it is caught up (module Projection).         *)
(***************************************************************************)
EXTENDS Naturals, Sequences, FiniteSets, SequencesExt

CONSTANTS
  Path,      \* canonical paths, numbered in their order
  Words,     \* content -> number of its words
  Settings,  \* pairs <<chunk_words, overlap_words>> a caller may give
  Caller,    \* agents that call the tool
  MaxCalls,  \* bound: calls
  MaxRedact  \* bound: redacted chunks

ASSUME IngestTypes ==
  /\ Path \subseteq Nat
  /\ \A c \in DOMAIN Words : Words[c] \in Nat
  /\ \A s \in Settings : s[1] \in Nat /\ s[2] \in Nat /\ s[2] < s[1]
  /\ "free" \notin Caller

VARIABLES
  log,      \* the chunk events in canonical order
  disk,     \* path -> content of the file
  ingest,   \* caller -> its call
  holder,   \* who holds ingest_lock, or "free"
  gate,     \* who holds the projection gate for its batch, or "free"
  stale,    \* the projection does not cover the log
  calls, redactions,
  forced,   \* history variable: some call had force
  torn      \* history variable: paths with a redacted chunk

ingestVars == <<log, disk, ingest, holder, gate, stale, calls, redactions, forced, torn>>

Content == DOMAIN Words

-----------------------------------------------------------------------------
(* Chunks. *)

\* chunk_words_preserving: chunks until one reaches the last word.
ChunkCount(n, target, overlap) ==
  IF n = 0 THEN 0
  ELSE CHOOSE k \in 1..n : /\ (k - 1) * (target - overlap) + target >= n
                           /\ \A j \in 1..(k - 1) : (j - 1) * (target - overlap) + target < n

\* Chunk k of a content: its first and last word.
Chunk(c, k, s) ==
  LET first == (k - 1) * (s[1] - s[2])
      end == IF first + s[1] < Words[c] THEN first + s[1] ELSE Words[c]
  IN  <<c, first + 1, end>>

Chunks(c, s) == [k \in 1..ChunkCount(Words[c], s[1], s[2]) |-> Chunk(c, k, s)]

ChunkEvent(p, c, k, s) ==
  [path |-> p, doc |-> <<p, c>>, index |-> k, count |-> Len(Chunks(c, s)),
   chunk |-> Chunk(c, k, s)]

Legacy == <<>>  \* in the place of a document id
LegacyEvent(p, c, k, s) == [ChunkEvent(p, c, k, s) EXCEPT !.doc = Legacy, !.count = 0]

-----------------------------------------------------------------------------
(* DocumentIngestHistory, read off the log. *)

Logged == ToSet(log)

\* document_is_complete: for some count, every index has a chunk.
DocumentIsComplete(p, c) ==
  \E n \in 1..Words[c] : \A k \in 1..n :
    \E e \in Logged : e.doc = <<p, c>> /\ e.count = n /\ e.index = k

\* The legacy records of the path, in the order of the log, are exactly the
\* chunks of this call.
IsLegacyComplete(p, c, s) ==
  LET old == {i \in DOMAIN log : log[i].path = p /\ log[i].doc = Legacy}
      rank(i) == Cardinality({j \in old : j <= i})
  IN  /\ old # {}
      /\ Cardinality(old) = Len(Chunks(c, s))
      /\ \A i \in old : log[i].index = rank(i) /\ log[i].chunk = Chunk(c, rank(i), s)

IsIngested(p, c, s) == DocumentIsComplete(p, c) \/ IsLegacyComplete(p, c, s)

\* Chunks of one file that the call still has to commit.
PendingOf(p, s, force) ==
  LET c == disk[p]
  IN  IF ~force /\ IsIngested(p, c, s) THEN {}
      ELSE {e \in {ChunkEvent(p, c, k, s) : k \in DOMAIN Chunks(c, s)} : force \/ e \notin Logged}

\* discover_files gives every file once.
PendingOfAll(ps, s, force) == UNION {PendingOf(p, s, force) : p \in ps}

\* The order of pending: files in the order of their paths, chunks by their index.
Precedes(e, f) == e.path < f.path \/ (e.path = f.path /\ e.index < f.index)

-----------------------------------------------------------------------------
(* One call. *)

NotCalled == [at |-> "idle"]
SetCaller(a, r) == ingest' = [ingest EXCEPT ![a] = r]

\* Mutation of LockFree: the calls do not wait for each other.
NoLock == TRUE

LockFree == holder = "free"

\* execute_sync takes the lock, reads the history, then the files.
BeginIngest(a, ps, s, force) ==
  /\ ingest[a] = NotCalled
  /\ calls < MaxCalls
  /\ LockFree
  /\ calls' = calls + 1
  /\ holder' = a
  /\ SetCaller(a, [at |-> "planned", pending |-> PendingOfAll(ps, s, force)])
  /\ forced' = (forced \/ force)
  /\ UNCHANGED <<log, disk, gate, stale, redactions, torn>>

\* The call is over: done, failed, or its process with it.
Over(a) == SetCaller(a, NotCalled) /\ holder' = "free"

\* The encoder fails or returns too few embeddings, or the projection is stale:
\* nothing was committed.
IngestFails(a) ==
  /\ ingest[a].at = "planned"
  /\ Over(a)
  /\ UNCHANGED <<log, disk, gate, stale, calls, redactions, forced, torn>>

\* commit_embedded_batch, one event after the other behind the gate.
BeginBatch(a) ==
  /\ ingest[a].at = "planned" /\ gate = "free" /\ ~stale
  /\ gate' = a
  /\ SetCaller(a, [ingest[a] EXCEPT !.at = "committing"])
  /\ UNCHANGED <<log, disk, holder, stale, calls, redactions, forced, torn>>

CommitChunk(a) ==
  /\ ingest[a].at = "committing"
  /\ \E e \in ingest[a].pending :
       /\ \A f \in ingest[a].pending \ {e} : Precedes(e, f)
       /\ log' = Append(log, e)
       /\ SetCaller(a, [ingest[a] EXCEPT !.pending = @ \ {e}])
  /\ stale' = TRUE
  /\ UNCHANGED <<disk, holder, gate, calls, redactions, forced, torn>>

\* The projection is installed; maintenance follows and changes no event.
EndBatch(a) ==
  /\ ingest[a].at = "committing" /\ ingest[a].pending = {}
  /\ stale' = FALSE
  /\ gate' = "free"
  /\ Over(a)
  /\ UNCHANGED <<log, disk, calls, redactions, forced, torn>>

\* A commit or the install fails: the batch stops where it is.
BatchBreaks(a) ==
  /\ ingest[a].at = "committing"
  /\ gate' = "free"
  /\ Over(a)
  /\ UNCHANGED <<log, disk, stale, calls, redactions, forced, torn>>

\* A crash ends every call; the next start catches the projection up.
Restart ==
  /\ stale \/ \E a \in Caller : ingest[a] # NotCalled
  /\ ingest' = [a \in Caller |-> NotCalled]
  /\ holder' = "free" /\ gate' = "free" /\ stale' = FALSE
  /\ UNCHANGED <<log, disk, calls, redactions, forced, torn>>

-----------------------------------------------------------------------------
(* The surroundings. *)

\* Somebody edits a file.
Edit(p, c) ==
  /\ disk[p] # c /\ disk' = [disk EXCEPT ![p] = c]
  /\ UNCHANGED <<log, ingest, holder, gate, stale, calls, redactions, forced, torn>>

\* An event of the log is redacted while nothing is ingested.
RedactChunk(i) ==
  /\ redactions < MaxRedact /\ holder = "free"
  /\ redactions' = redactions + 1
  /\ torn' = torn \cup {log[i].path}
  /\ log' = RemoveAt(log, i)
  /\ UNCHANGED <<disk, ingest, holder, gate, stale, calls, forced>>

\* The heart may hold the chunks of an older version of the tool, all or some.
IngestInit ==
  /\ disk \in [Path -> Content]
  /\ \E p \in Path, s \in Settings :
       LET all == [k \in DOMAIN Chunks(disk[p], s) |-> LegacyEvent(p, disk[p], k, s)]
       IN  \E n \in 0..Len(all) : log = SubSeq(all, 1, n)
  /\ ingest = [a \in Caller |-> NotCalled]
  /\ holder = "free" /\ gate = "free"
  /\ stale = FALSE /\ forced = FALSE /\ torn = {}
  /\ calls = 0 /\ redactions = 0

IngestNext ==
  \/ Restart
  \/ \E a \in Caller :
       \/ \E ps \in SUBSET Path \ {{}}, s \in Settings, force \in BOOLEAN :
            BeginIngest(a, ps, s, force)
       \/ IngestFails(a) \/ BeginBatch(a) \/ CommitChunk(a) \/ EndBatch(a) \/ BatchBreaks(a)
  \/ \E p \in Path, c \in Content : Edit(p, c)
  \/ \E i \in DOMAIN log : RedactChunk(i)

IngestSpec == IngestInit /\ [][IngestNext]_ingestVars

-----------------------------------------------------------------------------
(* Properties. *)

\* The words of a content that the chunks logged for a document hold.
Kept(p, c) ==
  UNION {e.chunk[2]..e.chunk[3] : e \in {x \in Logged :
           x.path = p /\ x.doc \in {<<p, c>>, Legacy} /\ x.chunk[1] = c}}

\* What an ingestion skips as complete is in the heart word for word, whatever
\* broke off before, with whatever chunk sizes and whoever else ingested, unless
\* somebody redacted a chunk of it; and nothing is committed twice unless forced
\* (DocumentIngestHistory, execute_sync under its lock).
DocumentsKeptOnce ==
  /\ \A p \in Path \ torn, c \in Content, s \in Settings :
       IsIngested(p, c, s) => Kept(p, c) = 1..Words[c]
  /\ ~forced => \A i, j \in DOMAIN log : log[i] = log[j] => i = j

=============================================================================
