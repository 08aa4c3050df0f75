# Spine: a TLA+ model of the heart, the agent loop and recovery

Spine is a local agent written in Rust. An encrypted, replicated store (the
*heart*, crate `spine-heart`) keeps everything the agent has lived through; a
tool loop (the *harness*, crate `spine-runtime`) runs a language model; the
command line program (crate `spine-cli`) ties both together and has to survive
crashes, interruptions and failing services. This directory holds TLA+ modules
for the parts whose correctness depends on order, on crashes and on concurrency,
the TLC configurations that check them on small instances, and TLAPS proofs of
the central safety properties for every instance. `PROJECT.json` is the index:
which definition models which lines, which run checks which property, which
hazards of the code they are about.

To run: `tlc -config MCHeartSync_sync.cfg MCHeartSync` (and likewise for the
other configurations), `tlapm HeartSyncProofs.tla`, and likewise for the other proof modules.

## 1. Inventory

| Part | State it keeps | Operations | What makes it correct |
|---|---|---|---|
| Replicated heart (`store.rs`, `sync.rs`, `heart.rs`, `event.rs`) | tables of events, snapshots, blobs and tombstones; one data key per object; device record (sequence, hybrid clock); authorisations | `commit_interaction`, `redact`, `snapshot`, `put_blob`, `export_delta`, `import_delta` | a redacted event never comes back, a redacted blob only by a put already under way; frontier sync skips nothing; replicas agree once there is nothing left to send; only authorised records are stored; the clock orders events as they were written |
| Cold blobs (`store.rs`) | entry and key in the database, ciphertext in the database or in a file | `put_blob_record`, `get_blob`, `crypto_shred` | what a crash leaves behind is neither dangling nor readable after a redaction, unless a put of it was under way |
| Cognitive projection (`heart.rs`, `projection.rs`, `diagnostics.rs`) | one sealed projection over the log, plus state only it has | `commit_embedded(_batch)`, rebuild, catch-up, risk and context updates, diagnostics | a fold over the log in canonical order, complete but for events imported late; no update is lost; staleness is noticed and repaired |
| Semantic memory and context triangles (`dcmdb.rs`, `triangle.rs`, `heart.rs`) | nodes, visits, coactivations, graph, absorbed children; forest of triangles and roots | observe, consolidate, prune, dream, compact, rehydrate | nothing speaks of a node that is gone; what a context addresses can be found |
| Typed facts (`facts.rs`, `projection.rs`) | facts per slot, supersession in both directions | observe, supersede, total, latest, upgrade, rebuild | increments give what an extraction of the whole log gives; the present value is not hidden |
| Harness (`harness.rs`, `plan.rs`, `provider.rs`) | transcript, counters of the policy, host plan, queue of guidance and stop, journal | `run`, `resume`, repair, tool calls, checkpoints | intent before effect; truthful results; budgets; prompt and certain stops; without stops every run ends unless its model calls tools for ever |
| Model provider (`llama_cpp.rs`, `streaming.rs`) | detected context and tools; attempt, accumulator, cancellation guard | `health`, `complete`, `prepare_messages`, guard drop | prompts keep the tool protocol and the latest instruction; no half reply becomes a turn; the last attempt of a given-up request is cancelled |
| Journal, checkpoints, restart (`transcript.rs`, `main.rs`) | local journals, canonical records, checkpoint and consumption events | turn, persist, save checkpoint, consume, recover | nothing lost, nothing twice, a checkpoint is resumed once, recovery ends |
| Answer grounding (`grounding.rs`, `transcript.rs`) | evidence of a turn, draft, verdict, caveat | recall, save, delegate, verify, repair, recover | the model never corroborates itself |
| Circuit breaker and turn order (`resilience.rs`, `main.rs`) | three channels: state, failures, age, probe | `available`, `allow`, `success`, `failure`, `cancel`, `reset` | the asserted admission holds; probes report back; no refusal is for ever |
| Subagents (`agent_tools.rs`, `subagent.rs`) | jobs, reports, child journals | delegate, check-in, `check_results`, `cancel_agent` | no report of an end is lost; no child is forgotten; a thread is settled once |
| Shell tasks (`partner_tools.rs`) | task table, abort handles, processes | begin, attach, finish, cancel | one verdict for caller, list and process; a cancellation stops the command |
| File and web tools (`partner_tools.rs`) | reading position; browser history shared by agents | `file_read`, `file_write`, fetch, search, back, forward | pages fit the budget and cover the file; the browser shows a page it has |
| Document ingestion (`partner_tools.rs`, `document_ingest.rs`) | ids of documents and chunks in the log, one lock | ingest, repeat, redact | complete means word for word; nothing twice |
| Session: terminal, web interface, onboarding, chat loop (`terminal_input.rs`, `web_server.rs`, `onboarding.rs`, `main.rs`) | one queue of lines, the web snapshot, markers of the first conversation | type, post, ask, answer, turn, repair, resume, quit | nobody is refused for ever by a loop that waits at the prompt (onboarding is an exception, section 6); a `/quit` is heard; the first conversation survives restarts |
| Working context, affect, risk, vectors, local models, setup, vendored tensor library, cryptography | numbers, text, downloads | | out of reach or not the program's own logic (section 7) |

How the parts interact. The chat loop of `main.rs` asks the circuit breaker
whether the model and the memory are available, commits the user's line to the
heart, recalls context from the projection, and calls the harness. The harness
calls back to save its progress (a journal in the heart's local state) before
and after each tool; the operator's lines reach it through a shared control
plane. When the run ends its journal becomes canonical records, and, if the run
was stopped or cut, a checkpoint event. A restart turns left-over journals into
the same records and checkpoints. Hearts on other devices exchange deltas. Lines
from the terminal and from the browser meet in one queue, which the prompt, the
first conversation and a running turn read in their turns. Subagents run the same
harness with the parent's tools, and share its task table, browser and heart.

What is hard. Every redb write transaction is atomic and nothing larger is, so a
crash can fall between the two transactions of a commit or of a redaction,
between event and projection, between a tool's effect and its result, or inside
recovery. One in-memory mutex (`projection_gate`) serialises some operations of
the heart and others run past it. Deltas are lost, repeated, reordered and given
to the wrong replica. Stops and guidance arrive at any await. Handlers of the web
interface decide under a lock and send after it. Streams break between two pieces
of a tool call. The hazards are listed with
their lines in `PROJECT.json`.

## 2. Modules and their correspondence to the code

* **HeartSync** (with **EventLife**, **HeartSyncProofs** and
  **HeartOrderProofs**). A replica is one store file used by threads of one process. One action per write transaction:
  `CommitReserve`/`CommitPut` are the two transactions of `commit_interaction`,
  `RedactReserve`/`RedactRecord`/`RedactShred` the three of `redact`,
  `ImportStart` to `ImportBlob` the loop of `import_delta` one record at a time,
  `ImportError` its `?`. `ExportEvents` and `ExportRest` read the store at two
  moments, as `export_delta` does. `gate` is `projection_gate`; `snapshot`,
  `put_blob` and `export_delta` do not take it. `Crash` drops tasks and gate and
  keeps the store. The wire is a set of deltas that delivery does not remove
  (duplication), in any order, and `LoseDelta` removes them; with `Misdelivery` a
  delta reaches replicas it was not made for. Objects are their own identity,
  because ids are keyed hashes; an object is readable when row and key are there.
  `EventLife` is the abstract specification: unknown, readable, condemned,
  forgotten, and no way back.
* **ColdBlobs** opens up the step that HeartSync takes as one: file, rename,
  transaction, key, file removal, each durable by itself. The history variable
  `raced` marks a blob that one thread was putting, past its look for the tombstone,
  when another deleted its key; a later redaction without such a put clears it.
* **Projection**. A projection is the sequence of events it has observed and a
  count of the updates only it has. Commits and imports change the log first;
  `BatchInstall`, `InstallIfUnchanged` and `TeachPut` store a projection with the
  comparison that the code makes, or without one where it makes none. An import
  stores any event of a peer that is not there yet: neither `import_delta` nor
  `put_event` asks for the next sequence number, so a delta that was cut short, sent
  second hand or made for another replica leaves holes that a later one fills. The
  history variable `late` holds the events that came below what the projection had
  observed of their device.
* **Harness**. `phase` is where the loop is; the operator acts only at its
  awaits ("model", "tool", "summary"), because loop and operator share a task.
  `SaveOrFail` is the progress callback. The limits of the policy are options as in
  the code: `NoLimit` is `None`, the default of `max_tool_rounds`. `MaxToolTurns`
  bounds what the model does, not what the host allows. `ghost` records what was really
  executed, asked and told, for the properties only.
* **Recovery**. The log of one device and the journals of its runs, across
  restarts. A checkpoint is the set of runs in its transcript; `resumed` is the
  sequence of checkpoint positions that were resumed.
* **CircuitBreaker**. `at` is the stage of a
  turn; each stage consults its channel and reports to it as `main.rs` does.
* **HostTasks**. One action per critical section of the `tasks` lock, or per
  stretch of a worker between two awaits; an abort strikes at awaits only.
  `early` marks a cancellation between `begin` and `attach`.
* **Subagents**. The manager's calls step by step (`BeginReports`,
  `DrainReports`, `CheckFinished`, ...; `TakeJobs`, `AbortNext`, `SettleThread`)
  against the child task and its event task, which run at the same time.
* **HostTools**. `ReadPage` computes the header and the characters of a page with
  the decimal width of its numbers, as `file_read` does; the browser is the
  history, the cursor and the requests on their way.
* **Ingest**. `ChunkCount` and the spans of `chunk_words_preserving`, the
  decision of `DocumentIngestHistory`, and the batch that commits event by event.
  What is pending is a set with the order of paths and indices (`Precedes`):
  `discover_files` gives each file once and sorted.
* **Provider**. `Prepare`, `DropOldest` and `Trimmed` are `prepare_messages` with
  the numbers of the code; `Post` to `Parse` is `complete`, `Dropped` the end of
  the request with its guard, `Delete` what the guard sends. Which attempts the endpoint works on is external state.
* **Session** (extends **Onboarding**). `loop` is where the chat loop is; `web`
  is the snapshot with the two fields that guard a handler; `api` holds what a
  handler has decided and not yet sent. Onboarding is the state that
  `onboarding.rs` reconstructs from the markers in the log.
* **SemanticMemory**. Nodes and what refers to them, and the forest over them;
  maintenance and compaction work on a copy (`work`), because the heart saves
  the projection at their end. Nearness, coherence, decay and tension are choices.
* **Facts**. Facts of an event are its claims; `Observe` is the increment,
  `FromLog` the reference: an extraction from nothing.
* **Grounding**. One claim is followed through texts with an origin (user, world,
  model); `Admissible` is the rule for evidence.

The proofs are in modules of their own: **HeartSyncProofs**, **HeartOrderProofs**,
**ProjectionProofs** and **HarnessProofs** for the modules of their names;
**ServicesProofs** for CircuitBreaker, HostTasks, ColdBlobs and Recovery; **HostProofs** for
Subagents, Session with Onboarding, HostTools, Provider and Ingest; **MemoryProofs** for
SemanticMemory, Facts and Grounding; **NumberLemmas** for what several of them need.

**MCServices**, **MCHost** and **MCMemory** put components that share no state
into one run: a behaviour is one of one component, chosen at the start.

`Recovery` takes from `HeartSync` that canonical order is commit order on one
device (`CanonicalOrderFollowsDevice`), and from `Harness` that a journal holds
what was saved. `CircuitBreaker` takes from `Harness` that runs end
(`RunEnds`), which without a ceiling on rounds is up to the model. `Session` takes the answers of the three as choices. `SemanticMemory`
takes from `Projection` that the gate covers reading and installing, and
`Grounding` from `Recovery` that a journal becomes records once. `Projection` sees each commit and redaction of `HeartSync` as one
step: both hold the gate for all their transactions, and a crash between them
leaves either no event or one the projection does not know.

Operators introduced by a comment "Mutation of ..." are faulty variants of a
definition, used only to check that a property notices them.

## 3. Runs

| Run | Instance | Shows |
|---|---|---|
| `heart_sync` | two replicas, one thread each, two and one sequence numbers, two deltas in transit | `Agreement` of replicas with nothing to send |
| `heart_threads` | two replicas with two threads each, clock readings {1, 2} in any order, counter that saturates at once, deltas one way | `NoGap` (an event at or below an announced frontier has arrived or was redacted), `ShredExplained`, `CanonicalOrderFollowsDevice`, and the refinement `ImplementsLife` |
| `heart_relay` | three replicas in a chain, misdelivery | `OnlyAuthorised`, `ImportsComplete`, `EventsStayForgotten` |
| `heart_objects` | two replicas with two threads each, one label, one blob, two deltas from the replica that does not redact to the one that does | snapshots and blobs: `BlobsStayForgotten` |
| `heart_interrupted_redaction` | two replicas, both ways | violation, see section 6 |
| `blobs_retry` | one thread, a small and a large blob, crashes | violation, see section 6 |
| `projection` | two threads, one peer, two events each, imported in any order, batches of two, one redaction, one crash, equal timestamps | `CurrentMeansComplete`, `InstallsExtend`, `DiagnosticsNoticeRedaction`, and `StaleIsCaughtUp` |
| `harness_tools` | batches of two actions, a ceiling of two rounds, two runs, one cut | `ResultsTruthful`, `BudgetHolds`, and `StopEnds` |
| `harness_controls` | no ceiling on rounds, one turn with tools, host plans, one line of guidance, stops at every await | `CheckpointsValid`, `StopHonoured`, `GuidanceHeard`, and `RunEnds` |
| `services` | the limits of `CircuitBreaker::default`; two commands, one of them without a timeout; two threads, a small and a large blob, four seals, three crashes; three runs, two crashes, two errors | `ModelAdmitted`, `ProbesReported`, `RefusalEnds`; `OneVerdict`, `CancelStops`; `BlobsSound`; `NothingTwice`, `NothingDropped`, `PromptComesBack` |
| `host` | two subagents and one fault; files around the lengths where a number gains a digit; two ingesting agents, two contents of five and two words in chunks of two to four; three lines in any order from terminal and browser over two launches; requests over three shapes of conversation with two advertised contexts and one retry | `ChildrenAccounted`, `SettledForGood`; `PagesCover`; `DocumentsKeptOnce`; `NobodyUnheard`, `FirstTalkSound`; `CompletionSound` (of `PromptWhole`, `PromptFits`, `NothingLeftBehind`) |
| `memory` | three nodes and events, one crash; three utterances in any order and with any dates; two turns with up to four log entries | `MemorySound`, `ContextResolves`; `FactsFollowLog` (with `TotalsCountOnce`); `AnswersGrounded` |

Bounds, and why they are enough. Every bound is a named constant and a guard.
Two sequence numbers let a replica commit and redact, or commit twice with a gap
to skip between them; a third number on the other side makes frontiers of two
devices meet. One thread per process is enough where only messages and crashes
matter, two where the gate does. Three replicas are the least for a record that
arrives second hand. Two calls in a batch leave one to skip; two runs let a
checkpoint be resumed. A crash bound of two covers a crash inside the recovery
from a crash. Three nodes are the least for a merge whose survivor has a third
neighbour; three utterances for one that arrives between two others; two turns
for a recall of what an earlier one said. Three lines are a task, a control and
one that comes too late. The sizes of conversations lie on both sides of the
least prompt budget of 256 tokens and are no multiples of four, so that rounding
matters. In `heart_threads` and `heart_objects` deltas go one way and sequence
numbers are fewer because threads, snapshots and blobs multiply the states, and each
label, which stands for a label and a creation time, is given to one snapshot
(`Fresh`). In `projection` all timestamps are equal, so canonical order is by device
and sequence: events of this heart come before those of the peer, in the middle of
what was observed, and late events in the middle of those of the peer; other
timestamps are left to the theorems, which hold for all of them, and do not matter
for `StaleIsCaughtUp`, which speaks of a heart with events of its own only. `TypeOK`,
`ShredExplained`, `EventsStayForgotten` and `ImplementsLife` do not depend on
these bounds, they are proved, and so are all the others that are no liveness
properties (section 5). Threads are interchangeable in `heart_threads` and
`heart_objects` (symmetry; they check no liveness).

`CHECK_DEADLOCK FALSE` is set for the harness, `services`, `host`, `memory` and
blobs, where the bounds on runs, crashes, inputs and seals let the system stop,
and where requests, tasks and sessions come to their end.

## 4. Fairness

* `Projection!FairSpec`: a thread inside a call finishes it (weak fairness: the
  gate is held only by a thread that goes on); startup calls
  `catch_up_cognition` whenever it finds the projection stale, the mutex is
  released again and again and the encoder does not fail every time (strong
  fairness on reading and on installing the caught-up projection).
* `Harness!StopSpec`: timers, wake-ups and tools go on. Nothing is assumed of the
  provider, which may hang; `StopEnds` rests on the `stopped()` branches and the
  two deadlines. `AnswerSpec` adds that the provider answers with something.
  That a model calls tools finitely often is not fairness but the bound
  `MaxToolTurns`: with `max_tool_rounds = None`, the default (`harness.rs:34`,
  README.md:616), nothing in the host ends a run whose model calls tools for ever,
  and `RunEnds` claims nothing of it. A positive ceiling does (`TurnCeiling`, fired
  in `harness_tools`).
* `ServicesFairness`, each part while its component is the subject: time passes
  and a turn goes on (breaker); the user opens Spine again and recovery runs on,
  with crashes and errors bounded (recovery); workers go on, and a command with a
  timeout ends (tasks). Nothing is assumed of a command without a timeout: that it
  ends after a cancellation is what `CancelStops` shows.
* `host` and `memory` check no liveness and state no fairness.

## 5. What is proved

Each theorem holds for every value of the constants that the named assumptions
of its module allow; the runs of section 3 check the same definitions on small
instances. Every property was checked by TLC before it was proved, and so were the
inductive invariants that TLC can evaluate (some speak of all sequences over a set).

### The heart

**HeartSyncProofs**, for any number of replicas, threads, events, labels and
blobs, any topology, loss, duplication, misdelivery and crash (`ReplicaAssumption`,
`BoundAssumption`, `NoThreadAssumption`):

* `TypeCorrect`: `Spec => []TypeOK`. The saturating clock keeps its widths.
* `ShredsExplained`: `Spec => []ShredExplained`. A row without its key is
  explained by a tombstone of the same replica.
* `RedactionIsFinal`: `Spec => EventsStayForgotten`.
* `LifeImplemented`: `Spec => ImplementsLife`, the refinement.

The inductive invariant is `TypeOK /\ ShredsRecorded`: a thread that is about to
delete a key, locally or in an import, has already recorded the tombstone of that
object. `ShredExplained` alone is not inductive, because it says nothing of the
thread between the two transactions. `StoreSteps` sums up what one step can do to
rows, keys and tombstones of one replica (nothing; add an object unknown to it,
events only if they are not tombstoned; record a tombstone; drop the key of a
tombstoned object); the theorems follow from these four cases, without looking at
the twenty actions again.

**HeartOrderProofs** goes on from there.

* `OnlyAuthorisedWrite` (`OnlyAuthorised`) and `ImportsAreComplete`
  (`ImportsComplete`), also with misdelivery. `AuthorityInv` says of everything on
  its way, in a thread or in transit, that the receiver knows its devices or is told
  of them by the same delta. A delta is exported against the authorisations the
  receiver announced some time ago; they only grow.
* `CanonicalOrderIsWriteOrder` (`CanonicalOrderFollowsDevice`). `OrderInv` counts an
  event from the moment it is signed: the clock of a device is not behind any event
  it has signed, stored or not, so that the next one comes after all of them, also
  when the system clock jumps back and the counter saturates.
* `NothingSkipped` (`NoGap`), under two hypotheses: deltas are applied by the
  replica they were made for (`~Misdelivery`) and no device may reserve the number
  `u64::MAX` (`Unsaturated`; `saturating_add` would then hand out the same number
  twice). `GapInv` says of the rows of a replica, and of the events a delta or an
  import still holds for it, that with an event they have the earlier ones of its
  device or the replica has them. That needs the gate: the event in the hands of a
  commit is the newest of its device (`Newest`), and a device has all its own
  (`Home`). A delta applied by another replica than the one it was made for does
  leave a hole: the frontier behind it was announced by somebody else.
* `ReplicasAgree` (`Agreement`), under the same hypotheses: when no replica has
  anything to send to any other, all have the same tombstones, authorisations and
  unredacted events. The statement is about all replicas together. Two replicas with
  nothing to send each other may differ while a third one holds the redaction of an
  event whose import was cut short; TLC finds this in 31 steps with three replicas.
* `BlobRedactionIsFinal` (`BlobsStayForgotten`), for any number of threads. `put_blob`
  takes no gate, so a put may have looked for the tombstone before it was recorded
  (section 6); the property is about a blob that is redacted, unreadable and in the
  hands of no such put (`Gone`). Every other way to a readable blob, a new put or a
  record of an import, looks for the tombstone first, and tombstones stay.

**ProjectionProofs**, for any number of devices, threads and events
(`DeviceAssumption`, `BoundAssumption`, `NoThreadAssumption`):

* `InstallsOnlyExtend` (`InstallsExtend`). `update_risk`, `maintain_cognition`,
  `compact_context` and `promote_agent_thymos` store what they computed without
  comparing. That this loses no update rests on the gate: `InstallInv` says of a
  thread in the middle of such an operation that it holds the gate, that what it
  read is still what is stored, and that what it is about to store extends it.
* `CurrentIsComplete` (`CurrentMeansComplete`). A projection is believed current when
  the frontier of what it observed is that of the log, which says nothing of the
  events in between. Events of peers are imported in any order, so the theorem says
  exactly what is lost by that: a current projection may lack `late` events and
  nothing else. `CompleteInv` adds to `InstallInv` that what was observed is in
  canonical order and in the log, that an event it lacks is beyond its frontier, late
  or redacted, that the own events of the device are without holes, and what a thread in the middle of an operation knows: a batch,
  that the projection was current when it began and only its own events were added; a
  rebuild, a catch-up or a reflection, that what it will store is whole for the events
  it read. That canonical sequences hold exactly the events of their set, in order,
  is a lemma over finite sets.
* `RedactionIsNoticed` (`DiagnosticsNoticeRedaction`). A diagnosis compares the count
  of what was observed with the count of the log at a later moment. `DiagnosisInv`
  keeps what the first read knew: each unredacted event of that moment was observed,
  once, but for late ones. If nothing is stored in between and no unobserved late event
  is in the log, equal counts leave no room for a redacted one; a late event that was
  not observed can make up for one that was redacted.

### The agent loop

**HarnessProofs** (`PolicyAssumption`, under which each limit is a positive number or
`NoLimit`):

* `BudgetNeverExceeded` (`BudgetHolds`). `BudgetInv` relates four counts: what was
  executed, what memory counts, what the journal counts and what the newest
  checkpoint counts. In memory an action counts from its dispatch, in the journal
  from its result, so the two differ by the action in flight, and a cut at that
  moment loses exactly this one.
* `StopsAreHonoured` (`StopHonoured`). `StopInv`: until the loop has noticed it a
  stop is pending in the control plane; once noticed it is carried by
  `stopped_gracefully` until the summary ends. No call has been executed after the
  stop when the model is asked or a call is next, since every way to there passes
  a boundary that would have found the stop.
* `ResultsAreTruthful` (`ResultsTruthful`, also from `BoundAssumption`).
  `TranscriptInv` says where in the transcript the batch is that the loop works through: the results so far follow the assistant's message, one for
  each call before the current one; of this batch only the calls up to the current
  one were executed; and the one call that may lack its result is the current one
  between its dispatch and its result. While a batch runs, the journal holds what
  memory holds, so a cut leaves at most that call open, and `Recover` calls it
  unknown rather than skipped. A resumed checkpoint has a result for every call
  (`Validate`), which is why nothing that was executed before can be mistaken for a
  call of the next batch. The invariant is proved relative to `BudgetInv` and
  `StopInv`, which fix the shape of the records.
* `CheckpointsAccepted` (`CheckpointsValid`). `ValidInv` gives the transcript a shape at
  every phase: complete between batches, and inside one a batch with the results so far
  (`Pending`), of which a journal may hold the same; the counts fit it, with the call in
  flight counted early. Closing such a transcript, by skipping or by `Recover`, makes it
  complete again, for batches of any length.
* `GuidanceIsHeard` (`GuidanceHeard`). `GuidanceInv` counts lines: those told while a tool
  ran are in the transcript since, except in a batch for those still queued. A stop drains
  the same queue.

### Services and recovery

* **ServicesProofs**, host tasks (`TasksAssumption`): `VerdictIsOne` (`OneVerdict`). `OneStory`
  relates record, worker, process and call of a task: a task has one end, that of
  its worker, and the record, the process and the call follow it.
* **ServicesProofs**, recovery (`RecoveryBounds`): `RecoveryDropsNothing` (`NothingDropped`) and
  `RecoveryRepeatsNothing` (`NothingTwice`). `RecoveryInv` relates the journals on
  disk, the log and the place where the session is: a journal holds what its run
  produced and shows that the run was cut short; no checkpoint holds the run under
  way, or the newest one is its own and unconsumed; what was resumed is consumed,
  and what may be resumed is not.
* **ServicesProofs**, circuit breakers, for every limit and cooldown (`LimitAssumption`,
  `NeverAssumption`): `BreakerTyped`, `ModelCallAdmitted`, `ProbesReportBack`. The
  invariant is the conjunction of the three: that the model stays admitted between
  check and assertion needs that no probe of the model channel is in flight there
  (`ProbesReported`), and that needs `Sound`.
* **ServicesProofs**, blobs in files: `BlobsStaySound` (`BlobsSound`), for any number of
  threads and any crash. A redaction may delete the key of a blob while another thread
  is between its look for the tombstone and its transaction (section 6); such a blob is
  marked `raced` and exempt, until a redaction meets no such put. `BlobsInv` says what
  the store must be at each stage of a put or a redaction, `Respects` what the other
  threads may do to it meanwhile: no put of a redacted blob begins, so that what a
  redaction has returned for cannot be put any more (`Settled`).

### The host

**HostProofs**:

* Subagents (`AgentsAssumption`): `NoChildForgotten`
  (`ChildrenAccounted`) and `ThreadsSettleOnce` (`SettledForGood`). `AgentsInv` adds
  where the final report of a child is (waiting or delivered), that a job in the
  hands of `cancel_agent` is no longer listed, and that a thread is settled only
  after its run.
* Session: `SessionHearsEverybody` (`NobodyUnheard`), for any number
  of clients, lines and launches. `BusyForSomeone` speaks of the four places from
  which the loop comes to the prompt without clearing the snapshot: there a busy
  snapshot means that a line other than a blank one is queued or on its way from a
  handler. `QuitRemembered` says which flag holds a `/quit` at each stage of a turn.
* Onboarding (`AnswerBounds`): `FirstTalkStaysSound` (`FirstTalkSound`). What may be
  recorded next depends on where the loop is, so `TalkInv` relates the markers in the
  log to the place (`TalkPlace`) and bounds the answers that may still come.
* File and web tools (`FileNumbers`): `FileReadCovers` (`PagesCover`). The header of a
  page is reserved before the page is known; that it is never wider than reserved needs
  that the number of digits is monotone, which is proved for every number.
* Requests (`HistoriesSound`: a result follows its call within a turn, as the harness
  writes them): `PromptStaysWhole` (`PromptWhole`). Turns are dropped one after the
  other; `PromptInv` says that what is left is, but for the texts, the conversation cut
  once at a user message.
* `PromptsFit` (`PromptFits`, also from `PromptNumbers`). `prepare_messages` turns what the
  framing leaves of the budget into characters, gives them away in an order of priority,
  and every message is then rounded up to tokens again. Counted in quarters of a token
  the text of a message costs no more than its characters, less one, beyond its framing,
  which has a token to spare; and texts that are each cut to what the ones before them
  left are together no longer than what there was (`SumGreedy`). `RoomInv` carries this
  from the trimming to the post.
* `RequestsEndClean` (`NothingLeftBehind`). `RequestInv`: the guard is armed while a
  request is out, and a finished reply is the whole one. It speaks of the last attempt:
  an earlier one that got no answer may go on (section 6). Together the three are
  `CompletionsAreSound` (`CompletionSound`).
* Ingestion (`IngestTypes`): `DocumentsAreKept` (`DocumentsKeptOnce`). Completeness is a
  matter of counts and indices, and calls with other chunk sizes may share a count and
  have broken off anywhere. `IngestInv` says that every record has, for one pair of
  sizes, all chunks before its own in the log (`IsBacked`), because pending chunks are
  committed in order; so a last chunk has all the others, and the chunks of one pair of
  sizes cover the content (`ChunksCover`).

### What is remembered

**MemoryProofs**:

* Semantic memory and context (`MemoryBounds`): `MemoryStaysSound` (`MemorySound`) and
  `ContextStaysResolved` (`ContextResolves`). `ContextInv` says that triangles are made
  of nodes and earlier triangles, that maintenance in progress carries every node and
  event the saved forest names, and that a compaction in progress only adds triangles
  and still reaches all that the saved roots reach. That what is under a handle is well
  defined, and unchanged when triangles are appended, is proved by the least triangle for
  which it would fail.
* Facts (`FactTypes`): `FactsAreTheLog` (`FactsFollowLog`). `FactsInv` is that the store
  is the one an extraction of everything observed would give; that the latest answer is
  as recent as anything said rests on the last fact of a slot being active.
  `TotalsCountEveryClaim` (`TotalsCountOnce`, a part of it): the facts of a slot of amounts are in one to
  one correspondence with its claims, and a sum does not depend on names (`SumMoved`).
* Grounding (`DepthBound`): `AnswersStayGrounded` (`AnswersGrounded`). `GroundInv` follows the
  claim through the log, the messages of the turn, the journals and the answer that is
  decided about: a record that is admissible as evidence and states the claim has an
  origin other than the model. A quotation is as good as what it quotes, at any depth.

**NumberLemmas**: least and greatest numbers, induction over finite sets, sums over finite
sets (they do not depend on the order or on names, they are monotone, and greedy cuts stay
within what there is), and the nth of some numbers.

### Only model-checked

Liveness, outside the prover's reach: `StopEnds`, `RunEnds`, `PromptComesBack`,
`CancelStops`, `StaleIsCaughtUp`, `RefusalEnds`. Every other property that a passing run
checks is stated by a theorem.

## 6. Findings and observations

Two runs end in a violation on purpose (`findings` in `PROJECT.json`).

* `heart_interrupted_redaction`: `put_tombstone` records the tombstone in one
  transaction and deletes the key in the next. After a crash between them the
  event stays readable at that replica for good: opening does not look for it,
  and the tombstone is not imported again because the frontier counts it.
  `Agreement` therefore speaks of unredacted events, `SameLogAfterExchange` of all.
* `blobs_retry`: a large blob is sealed under a new key at every attempt, but an
  existing file is kept. After a crash between rename and transaction the retry
  stores a key that does not open the file.

Met while modelling, without a run of their own:

* `put_blob` looks for a tombstone (`store.rs:434`) and writes row and key in a later
  transaction (`:466`), without the gate that `redact` holds. With two threads a
  redaction that completes in between is undone, and the redacted blob is readable
  again, whereas cold_blobs.rs:49 expects
  `assert!(first.blob(large.id).unwrap().is_none())` of one. `Gone` and `raced` exempt
  exactly this put; drop `Underway` from `Gone` and TLC finds a violation of six steps in
  `heart_objects`.
* `is_current` compares frontiers, and imports take the events of a device in any order.
  An event that arrives after a later one of its device changes no frontier: the
  projection counts as current without it and `catch_up_cognition` returns at once,
  whereas projection_roundtrip.rs:217 expects
  `assert!(!first.cognition_is_current().unwrap())` after an import of unobserved
  events. `late` exempts exactly these events.
* `thymos_diagnostics` reads the log after it has released the gate. A redaction
  followed by a commit between the two reads leaves the counts equal;
  `DiagnosticsNoticeRedaction` is stated for calls during which nothing is stored.
  An unobserved late event leaves them equal, too.
* Discovery stops at the newest checkpoint event; when that one is consumed an
  older unconsumed one is not offered, whereas the repository's README says that
  reopening "restores the newest unconsumed checkpoint".

* Heart. `put_snapshot` does not look at tombstones, so a redacted snapshot (a
  frontier and a label, no content) may return with a delta in flight. A crash
  between `initialize` and `authorize_current_device` leaves a store that no other
  replica accepts; it holds no events.
* Harness. Without `--max-tool-rounds` a model that calls tools for ever is stopped by
  the operator only; the circuit breakers wait for the end of such a turn
  (`RefusalEnds` has turns that go on). A stop that aborts a model request throws queued guidance away. Call ids
  are taken to be distinct within a turn; a repeated one gives a history that the
  checkpoint validation refuses (`harness.rs:286`).
* Retries. When a first attempt gets no answer and the second one does, the
  guard is disarmed: a generation that the first attempt started is not cancelled
  (`llama_cpp.rs:400`). Where tools are offered as text their catalogue is part of
  the system message, which is compacted after the latest turn (`:622`).
* Session. `/tasks` posted during onboarding leaves the snapshot busy, and the
  browser is answered 409 until a line comes from the terminal, whereas README.md:110
  says "Type `/skip` at any time". A late `/stop` or a late piece of guidance becomes a
  task. `/interrupt` forgets a `/quit` of the same run. A pasted burst of two
  commands is plain text. After a turn without a checkpoint the browser is told
  that there is none although the loop keeps an older one (`main.rs:1688`).
* Tasks and agents. A cancellation between `begin` and `attach` finds no handle, and
  a command without a timeout runs on. An error or an interrupt inside
  `cancel_agent` leaves the remaining children running and unlisted.
* Facts. The same value twice and then a new one leaves the older copy active
  (`facts.rs:303`). Undated facts rank as newer than dated ones. `aggregate_query`
  truncates before it filters. The upgrade at start fails for good when an event
  with new facts lost its node and has no old fact (`projection.rs:269`).
* Memory. A node nobody touches can be pruned after some minutes, also one of a turn
  that is still running: its compaction then fails, and the leaves are lost although the
  message says "deferred" (`main.rs:1639`). A rebuild starts with no context
  triangles; facts of a redacted event stay until a rebuild.
* Grounding. Text of the model becomes evidence when it takes the way through the
  world: a file it wrote, a page, its own ingestion. The caveat is put on the answer
  of a turn. What the model says on the way to it, text beside tool calls or an answer
  that the host sent back, is persisted as said, without a caveat
  (`transcript.rs:396`); `AnswersGrounded` is about final answers, and these texts are
  not in the model.
* Ingestion. A redacted chunk together with chunks of another size may look
  complete; `DocumentsKeptOnce` leaves redacted documents out.

## 7. Not modelled

* Cryptography is ideal: a record opens with its own key, a signature names its
  device, ids are injective. Key handling at creation is one initial state.
* Floating-point arithmetic (similarity, decay, affect, risk, ranking) is a
  choice where it decides about control, and left out where it does not.
* Intermediate texts of the model in the log (section 6, Grounding).
* Natural language: extraction rules of facts, the statement matcher of
  `spine-heart/src/grounding.rs`, the text tool parser, separation of thoughts.
* Working context (`context_state.rs`) only words the prompt. Reading operations,
  listings, HTML, rendering, logging and audit are input and output.
* Setup, downloads, settings and the endpoint prompt; local models; the
  evaluation corpus; the vendored tensor library, fuzz targets and scripts.

`components` in `PROJECT.json` gives the reason for each part.

## 8. What could come next

Every invariant and action property of the passing runs is proved; liveness stays with
TLC. Further work would be on the model: the parts of section 7 that decide about control
(recall ranking, risk, the text tool parser) are choices now.
