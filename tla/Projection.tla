----------------------------- MODULE Projection -----------------------------
(***************************************************************************)
(* The cognitive projection of one heart and the event log it is computed  *)
(* from (spine-heart: heart.rs, projection.rs, store.rs).  A projection is *)
(* a fold over the log in canonical order plus state that only it has      *)
(* (risk updates, maintenance, context triangles, promoted affect).  It is *)
(* believed to be current when its event frontier equals the frontier of   *)
(* the log.                                                                *)
(*                                                                         *)
(* The log is durable before the projection: between the two the process   *)
(* may crash, imports may bring events that belong before projected ones   *)
(* (the local clock does not follow imported timestamps), and redactions   *)
(* remove events.  Everything that changes log or projection runs under    *)
(* `projection_gate'; readers release it before they look at the log.      *)
(*                                                                         *)
(* An event is abstracted to its device, its device sequence and its hybrid*)
(* timestamp; what a projection knows of an event is that it observed it,  *)
(* and the projection-only state is the number of updates it has absorbed. *)
(* The reserve/put and record/shred transactions of commits and redactions *)
(* are apart in HeartSync; here each is one step.                          *)
(***************************************************************************)
EXTENDS Integers, FiniteSets, Sequences, SequencesExt

CONSTANTS
  Me,          \* the device that owns this store
  Peer,        \* the other devices
  Thread,      \* threads that use the heart
  At,          \* hybrid timestamps
  MaxSeq,      \* bound: events per device
  MaxBatch,    \* bound: items per commit_embedded_batch
  MaxRedact,   \* bound: redactions
  MaxLearned,  \* bound: projection-only updates
  MaxCrash,    \* bound: crashes
  NoThread,    \* the gate is free
  NoProjection \* no projection of this generation is stored

Device == {Me} \cup Peer

ASSUME DeviceAssumption == Device \subseteq Nat /\ Me \notin Peer /\ At \subseteq Nat
ASSUME BoundAssumption == /\ MaxSeq \in [Device -> Nat] /\ MaxBatch \in Nat
                          /\ MaxRedact \in Nat /\ MaxLearned \in Nat /\ MaxCrash \in Nat
ASSUME NoThreadAssumption == NoThread \notin Thread

VARIABLES
  rows,      \* events with a row in this store
  gone,      \* events whose data key has been shredded
  abroad,    \* events that exist on the peers
  late,      \* history: events imported below the frontier of the projection
  clock,     \* last_wall_millis and hlc_counter of this device
  proj,      \* the stored projection
  gate,      \* thread that holds projection_gate
  task,      \* thread -> the operation it is in the middle of
  crashes

log == <<rows, gone, abroad, late, clock>>
vars == <<rows, gone, abroad, late, clock, proj, gate, task, crashes>>

-----------------------------------------------------------------------------
(* Canonical order, frontiers and projections. *)

Event == [dev : Device, seq : Nat, at : At]

Before(e, f) ==
  \/ e.at < f.at
  \/ e.at = f.at /\ e.dev < f.dev
  \/ e.at = f.at /\ e.dev = f.dev /\ e.seq < f.seq

Live == rows \ gone

\* A finite set of events as a sequence in canonical order.
Canonical(S) ==
  [i \in 1..Cardinality(S) |->
     CHOOSE e \in S : Cardinality({f \in S : Before(f, e)}) = i - 1]

\* The highest sequence number of each device, 0 when there is none.
FrontierOf(S) ==
  [d \in Device |-> LET seqs == {0} \cup {e.seq : e \in {x \in S : x.dev = d}}
                    IN  CHOOSE n \in seqs : \A m \in seqs : m <= n]

\* What a projection has observed: its event_frontier is the frontier of that
\* set and projected_events is its length.
NewState == [observed |-> <<>>, learned |-> 0]
Projected(p) == FrontierOf(Range(p.observed))

\* The projection has not come as far as event e of its device.
Beyond(e, p) == p = NoProjection \/ e.seq > Projected(p)[e.dev]

\* Mutation of IsCurrent: compare the number of events.
SameCount(p) == p # NoProjection /\ Len(p.observed) = Cardinality(Live)

\* is_current: frontier equality, nothing else.
IsCurrent(p) == p # NoProjection /\ Projected(p) = FrontierOf(Live)

Observe(p, events) == [p EXCEPT !.observed = @ \o events]
Teach(p) == [p EXCEPT !.learned = @ + 1]

\* The checks of catch_up_cognition: what is projected must be exactly a prefix
\* of the canonical log.
CatchUpAccepts(p) ==
  LET canonical == Canonical(Live) IN
  /\ p # NoProjection
  /\ \A d \in Device : FrontierOf(Live)[d] >= Projected(p)[d]
  /\ Len(p.observed) <= Len(canonical)
  /\ \A i \in 1..Len(canonical) :
       (i <= Len(p.observed)) <=> (canonical[i].seq <= Projected(p)[canonical[i].dev])

\* Mutation of Missing: the replay stops one event early.
MissingButLast(p) == SubSeq(Canonical(Live), Len(p.observed) + 1, Cardinality(Live) - 1)

\* The missing suffix.
Missing(p) == SubSeq(Canonical(Live), Len(p.observed) + 1, Cardinality(Live))

-----------------------------------------------------------------------------
(* Threads and the gate. *)

Idle == [op |-> "idle"]
IsIdle(t) == task[t].op = "idle"
Doing(t, op) == task[t].op = op

\* Mutation of GateFree: operations that forget to take the gate.
GateIgnored == TRUE

GateFree == gate = NoThread
Enter(t, job) == task' = [task EXCEPT ![t] = job]
Lock(t) == GateFree /\ gate' = t
Return(t) == /\ task' = [task EXCEPT ![t] = Idle]
             /\ gate' = IF gate = t THEN NoThread ELSE gate

-----------------------------------------------------------------------------
(* The log. *)

NextSeq(d, S) == Cardinality({e \in S : e.dev = d}) + 1

\* commit_interaction_unlocked: the next event of this device, not earlier than
\* its last one and whatever the clocks of others say.
MayAppend(e) == /\ e.dev = Me
                /\ e.seq = NextSeq(Me, rows)
                /\ e.seq <= MaxSeq[Me]
                /\ e.at >= clock
Append1(e) == rows' = rows \cup {e} /\ clock' = e.at

NewEvents(d, S) == [dev : {d}, seq : {NextSeq(d, S)}, at : At]

\* commit_interaction: an event without an embedding; the projection lags.
CommitInteraction(t) ==
  /\ IsIdle(t) /\ GateFree
  /\ \E e \in NewEvents(Me, rows) : MayAppend(e) /\ Append1(e)
  /\ UNCHANGED <<gone, abroad, late, proj, gate, task, crashes>>

\* redact of an event: its data key goes.
Redact(t, e) ==
  /\ IsIdle(t) /\ GateFree
  /\ Cardinality(gone) < MaxRedact
  /\ gone' = gone \cup {e}
  /\ UNCHANGED <<rows, abroad, late, clock, proj, gate, task, crashes>>

\* A peer writes an event of its own.
PeerCommit(d) ==
  /\ \E e \in NewEvents(d, abroad) :
       /\ e.seq <= MaxSeq[d]
       /\ \A f \in abroad : f.dev = d => f.at <= e.at
       /\ abroad' = abroad \cup {e}
  /\ UNCHANGED <<rows, gone, late, clock, proj, gate, task, crashes>>

\* import_delta: one transaction for each event.  Nothing checks that the events
\* of a device arrive in their order: a delta that was cut short, delayed, sent
\* second hand or made for another replica may leave a hole that a later one
\* fills, below what the projection has already observed.
ImportStart(t) ==
  /\ IsIdle(t) /\ Lock(t)
  /\ abroad # {e \in rows : e.dev # Me}
  /\ Enter(t, [op |-> "import"])
  /\ UNCHANGED <<log, proj, crashes>>

ImportEvent(t) ==
  /\ Doing(t, "import")
  /\ \E e \in abroad \ rows :
       /\ rows' = rows \cup {e}
       /\ late' = IF Beyond(e, proj) THEN late ELSE late \cup {e}
  /\ UNCHANGED <<gone, abroad, clock, proj, gate, task, crashes>>

ImportEnd(t) ==
  /\ Doing(t, "import")
  /\ Return(t)
  /\ UNCHANGED <<log, proj, crashes>>

-----------------------------------------------------------------------------
(* The projection. *)

\* initialize_cognition: only for an empty log.
InitializeCognition(t) ==
  /\ IsIdle(t) /\ GateFree
  /\ proj = NoProjection
  /\ Live = {}
  /\ proj' = NewState
  /\ UNCHANGED <<log, gate, task, crashes>>

\* commit_embedded (one item) and commit_embedded_batch: the events first ...
BatchStart(t, n) ==
  /\ IsIdle(t) /\ Lock(t)
  /\ IsCurrent(proj)
  /\ Enter(t, [op |-> "batch", prev |-> proj, left |-> n, done |-> <<>>])
  /\ UNCHANGED <<log, proj, crashes>>

BatchCommit(t) ==
  /\ Doing(t, "batch")
  /\ task[t].left > 0
  /\ \E e \in NewEvents(Me, rows) :
       /\ MayAppend(e) /\ Append1(e)
       /\ Enter(t, [task[t] EXCEPT !.left = @ - 1, !.done = Append(@, e)])
  /\ UNCHANGED <<gone, abroad, late, proj, gate, crashes>>

EndsWith(s, tail) == IsSuffix(tail, s)

\* ... then the projection, when they are the end of the canonical log and no
\* one has replaced the projection; otherwise ProjectionStale and the events stay.
BatchInstall(t) ==
  /\ Doing(t, "batch")
  /\ task[t].left = 0
  /\ proj' = IF EndsWith(Canonical(Live), task[t].done) /\ proj = task[t].prev
             THEN Observe(proj, task[t].done)
             ELSE proj
  /\ Return(t)
  /\ UNCHANGED <<log, crashes>>

\* Operations that read log and projection, compute, and then compare and swap
\* (put_projection_with_history, replace_projection_if_unchanged).
Prepare(t, op, next) ==
  /\ IsIdle(t) /\ Lock(t)
  /\ Enter(t, [op |-> op, prev |-> proj, events |-> Live, next |-> next])
  /\ UNCHANGED <<log, proj, crashes>>

\* rebuild_cognition: replays the whole log, projection-only state is lost.
RebuildRead(t) == Prepare(t, "rebuild", Observe(NewState, Canonical(Live)))

\* catch_up_cognition: replays the missing suffix only.
CatchUpRead(t) ==
  /\ CatchUpAccepts(proj)
  /\ ~IsCurrent(proj)
  /\ IsCurrent(Observe(proj, Missing(proj)))
  /\ Prepare(t, "catch_up", Observe(proj, Missing(proj)))

\* reflect, upgrade_fact_projection: a new state for the same events.
ReflectRead(t) ==
  /\ IsCurrent(proj)
  /\ proj.learned < MaxLearned
  /\ Prepare(t, "reflect", Teach(proj))

InstallIfUnchanged(t) ==
  /\ task[t].op \in {"rebuild", "catch_up", "reflect"}
  /\ proj' = IF proj = task[t].prev /\ Live = task[t].events THEN task[t].next ELSE proj
  /\ Return(t)
  /\ UNCHANGED <<log, crashes>>

\* update_risk, maintain_cognition, compact_context, promote_agent_thymos: they
\* store what they computed without comparing.
TeachRead(t) ==
  /\ IsCurrent(proj)
  /\ proj.learned < MaxLearned
  /\ Prepare(t, "teach", Teach(proj))

TeachPut(t) ==
  /\ Doing(t, "teach")
  /\ proj' = task[t].next
  /\ Return(t)
  /\ UNCHANGED <<log, crashes>>

\* The encoder or an observation fails: what is stored stays as it is.
Abandon(t) ==
  /\ task[t].op \in {"batch", "rebuild", "catch_up", "reflect", "teach"}
  /\ Return(t)
  /\ UNCHANGED <<log, proj, crashes>>

-----------------------------------------------------------------------------
(* thymos_diagnostics: the projection is read under the gate, the log after *)
(* it has been released.                                                    *)

DiagnosticsState(t) ==
  /\ IsIdle(t) /\ GateFree
  /\ IsCurrent(proj)
  /\ Enter(t, [op |-> "diagnose", state |-> proj, before |-> rows])
  /\ UNCHANGED <<log, proj, gate, crashes>>

\* Mutation of CountsAgree: only the frontier is trusted.
FrontierTrusted(p) == TRUE

CountsAgree(p) == Len(p.observed) = Cardinality(Live)

DiagnosticsEvents(t) ==
  /\ Doing(t, "diagnose")
  /\ Enter(t, IF CountsAgree(task[t].state) THEN [task[t] EXCEPT !.op = "answer"] ELSE Idle)
  /\ UNCHANGED <<log, proj, gate, crashes>>

DiagnosticsReturn(t) ==
  /\ Doing(t, "answer")
  /\ Return(t)
  /\ UNCHANGED <<log, proj, crashes>>

-----------------------------------------------------------------------------

Crash ==
  /\ \E t \in Thread : ~IsIdle(t)
  /\ crashes < MaxCrash
  /\ crashes' = crashes + 1
  /\ task' = [t \in Thread |-> Idle]
  /\ gate' = NoThread
  /\ UNCHANGED <<log, proj>>

Init ==
  /\ rows = {} /\ gone = {} /\ abroad = {} /\ late = {}
  /\ clock = 0
  /\ proj = NoProjection
  /\ gate = NoThread
  /\ task = [t \in Thread |-> Idle]
  /\ crashes = 0

Step(t) ==
  \/ CommitInteraction(t)
  \/ \E e \in Live : Redact(t, e)
  \/ ImportStart(t) \/ ImportEvent(t) \/ ImportEnd(t)
  \/ InitializeCognition(t)
  \/ \E n \in 1..MaxBatch : BatchStart(t, n)
  \/ BatchCommit(t) \/ BatchInstall(t)
  \/ RebuildRead(t) \/ CatchUpRead(t) \/ ReflectRead(t) \/ InstallIfUnchanged(t)
  \/ TeachRead(t) \/ TeachPut(t) \/ Abandon(t)
  \/ DiagnosticsState(t) \/ DiagnosticsEvents(t) \/ DiagnosticsReturn(t)

Next == (\E t \in Thread : Step(t)) \/ (\E d \in Peer : PeerCommit(d)) \/ Crash

Spec == Init /\ [][Next]_vars

\* Fairness.  A thread that holds the gate or is in a call goes on with it; the
\* chat startup that finds the projection stale calls catch_up_cognition (the
\* gate is a mutex that others release again and again), and the encoder does
\* not fail every time.
Finish(t) ==
  \/ ImportEnd(t) \/ BatchCommit(t) \/ BatchInstall(t) \/ InstallIfUnchanged(t)
  \/ TeachPut(t) \/ Abandon(t) \/ DiagnosticsEvents(t) \/ DiagnosticsReturn(t)

CatchUpInstall(t) == Doing(t, "catch_up") /\ InstallIfUnchanged(t)

FairSpec == /\ Spec
            /\ \A t \in Thread : WF_vars(Finish(t)) /\ SF_vars(CatchUpInstall(t))
            /\ SF_vars(\E t \in Thread : CatchUpRead(t))

-----------------------------------------------------------------------------
(* Properties. *)

\* What frontier equality is worth: all that a projection believed to be current
\* can lack are events that were imported below the frontier it then had.
\* Crashes, failures, batches cut short, replays and redactions never open another
\* gap.  And current or not, what it has observed and is still live stands in the
\* order in which a rebuild would replay it, although imports bring older events
\* and clocks are not synchronised.
CurrentMeansComplete ==
  /\ IsCurrent(proj) => Live \ late \subseteq Range(proj.observed)
  /\ proj # NoProjection =>
       \A i, j \in 1..Len(proj.observed) :
         i < j /\ {proj.observed[i], proj.observed[j]} \subseteq Live =>
           Before(proj.observed[i], proj.observed[j])

Rebuilding(t) == Doing(t, "rebuild")

\* Only a rebuild takes anything back: every other install extends what was
\* observed at its end and keeps what was learned (no lost update, although
\* put_projection does not compare).
InstallsExtend ==
  [][\/ proj = NoProjection
     \/ \E t \in Thread : Rebuilding(t) /\ task'[t] = Idle
     \/ /\ IsPrefix(proj.observed, proj'.observed)
        /\ proj'.learned >= proj.learned]_vars

Undisturbed == gone = {} /\ \A e \in rows : e.dev = Me

\* A heart that was neither synchronised nor redacted can always be caught up,
\* since whatever crashes and failures left behind is a missing suffix: a stale
\* projection is current again after some later startup, unless an import or a
\* redaction comes first (then only a rebuild helps for certain).
StaleIsCaughtUp ==
  Undisturbed /\ proj # NoProjection /\ ~IsCurrent(proj) ~> IsCurrent(proj) \/ ~Undisturbed

\* After a redaction thymos_diagnostics answers ProjectionStale until the
\* projection is rebuilt: no answer rests on a redacted event, although the log
\* is read after the gate was released.  Only an event that the projection has not
\* observed can hide a redaction from the comparison of the counts: one stored
\* between the two reads, or one imported below the frontier.
DiagnosticsNoticeRedaction ==
  [][\A t \in Thread :
       /\ Doing(t, "diagnose") /\ task'[t].op = "answer"
       /\ rows = task[t].before /\ Live \cap late \subseteq Range(task[t].state.observed)
       => Range(task[t].state.observed) \cap gone = {}]_vars
=============================================================================
