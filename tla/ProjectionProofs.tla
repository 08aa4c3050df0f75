-------------------------- MODULE ProjectionProofs --------------------------
(***************************************************************************)
(* For any number of devices, threads and events: what is stored as the    *)
(* projection is only ever extended, except by a rebuild, and all that a   *)
(* projection at the frontier of the log can lack are events imported      *)
(* below the frontier it had.                                              *)
(*                                                                         *)
(* Three of the operations compare before they store and one does not; what*)
(* protects that one is the gate, so InstallInv says of every thread in the*)
(* middle of an operation that it holds the gate and that what it read is  *)
(* still what is stored.  CompleteInv adds what makes the frontier say so  *)
(* much: this device numbers its own events without gaps, nothing live     *)
(* below the frontier of the projection has been missed unless it came     *)
(* late, and a batch in progress accounts for all that was stored since it *)
(* found the projection current.  DiagnosisInv carries this to a diagnosis *)
(* that has given the gate back before it reads the log.                   *)
(***************************************************************************)
EXTENDS Projection, NumberLemmas, SequenceTheorems, FiniteSetTheorems, TLAPS

-----------------------------------------------------------------------------
(* Sequences of events, and what a projection may become. *)

IsSeq(s) == s \in Seq(Range(s))

IsState(p) ==
  /\ p = [observed |-> p.observed, learned |-> p.learned]
  /\ IsSeq(p.observed) /\ p.learned \in Nat

\* q has observed more at the end, and has lost nothing that was learned.
Extends(p, q) == IsPrefix(p.observed, q.observed) /\ q.learned >= p.learned

LEMMA Sequenced ==
  ASSUME NEW S, NEW s \in Seq(S)
  PROVE  IsSeq(s)
<1>1. Len(s) \in Nat /\ s \in [1..Len(s) -> S] /\ DOMAIN s = 1..Len(s)
  OBVIOUS
<1>2. s \in [1..Len(s) -> Range(s)]
  BY <1>1 DEF Range
<1> QED
  BY <1>1, <1>2, SeqDef DEF IsSeq

LEMMA Concatenated ==
  ASSUME NEW s, NEW t, IsSeq(s), IsSeq(t)
  PROVE  IsSeq(s \o t) /\ IsPrefix(s, s \o t)
<1>1. PICK S : s \in Seq(S) /\ t \in Seq(S)
  <2>1. s \in Seq(Range(s) \cup Range(t)) /\ t \in Seq(Range(s) \cup Range(t))
    BY DEF IsSeq
  <2> QED
    BY <2>1
<1>2. s \o t \in Seq(S)
  BY <1>1
<1>3. Len(s) <= Len(s \o t) /\ \A i \in 1..Len(s) : (s \o t)[i] = s[i]
  BY <1>1
<1>4. SubSeq(s, 1, Len(s)) = SubSeq(s \o t, 1, Len(s))
  BY <1>1, <1>2, <1>3
<1> QED
  BY <1>2, <1>3, <1>4, Sequenced DEF IsPrefix

LEMMA ExtendsItself ==
  ASSUME NEW p, IsState(p)
  PROVE  Extends(p, p)
BY DEF Extends, IsState, IsPrefix, IsSeq

LEMMA Observed ==
  ASSUME NEW p, IsState(p), NEW events, IsSeq(events)
  PROVE  IsState(Observe(p, events)) /\ Extends(p, Observe(p, events))
<1>1. PICK s, n : s = p.observed /\ n = p.learned
  OBVIOUS
<1>2. IsSeq(s) /\ n \in Nat /\ p = [observed |-> s, learned |-> n]
  BY <1>1 DEF IsState
<1>3. PICK x : x = s \o events
  OBVIOUS
<1>4. IsSeq(x) /\ IsPrefix(s, x)
  BY <1>2, <1>3, Concatenated
<1>5. Observe(p, events) = [p EXCEPT !.observed = x]
  BY <1>1, <1>3, Zenon DEF Observe
<1>6. PICK q : q = [observed |-> x, learned |-> n]
  OBVIOUS
<1>7. Observe(p, events) = q
  BY <1>2, <1>5, <1>6
<1>8. IsState(q) /\ Extends(p, q)
  BY <1>1, <1>2, <1>4, <1>6 DEF IsState, Extends
<1> QED
  BY <1>7, <1>8

LEMMA Taught ==
  ASSUME NEW p, IsState(p)
  PROVE  IsState(Teach(p)) /\ Extends(p, Teach(p))
<1>1. PICK s, n : s = p.observed /\ n = p.learned
  OBVIOUS
<1>2. IsSeq(s) /\ n \in Nat /\ p = [observed |-> s, learned |-> n]
  BY <1>1 DEF IsState
<1>3. Teach(p) = [observed |-> s, learned |-> n + 1]
  BY <1>2 DEF Teach
<1>4. IsPrefix(s, s)
  BY <1>2 DEF IsPrefix, IsSeq
<1> QED
  BY <1>2, <1>3, <1>4 DEF IsState, Extends

LEMMA NewStateFits == IsState(NewState)
<1>1. IsSeq(<<>>)
  BY DEF IsSeq
<1> QED
  BY <1>1 DEF NewState, IsState

\* The event at place i of the canonical order.
Ranked(S, i) == CHOOSE e \in S : Cardinality({f \in S : Before(f, e)}) = i - 1

LEMMA CanonicalSequence ==
  ASSUME NEW S, IsFiniteSet(S)
  PROVE  IsSeq(Canonical(S)) /\ Len(Canonical(S)) = Cardinality(S) /\ Cardinality(S) \in Nat
<1>1. PICK n \in Nat : n = Cardinality(S)
  BY FS_CardinalityType
<1>2. PICK c : c = Canonical(S)
  OBVIOUS
<1>3. DOMAIN c = 1..n /\ c = [i \in 1..n |-> c[i]]
  <2>1. c = [i \in 1..n |-> Ranked(S, i)]
    BY <1>1, <1>2, Zenon DEF Canonical, Ranked
  <2> QED
    BY <2>1
<1>4. c \in [1..n -> Range(c)]
  BY <1>3 DEF Range
<1>5. c \in Seq(Range(c)) /\ Len(c) = n
  BY <1>3, <1>4, SeqDef
<1> QED
  BY <1>1, <1>2, <1>5 DEF IsSeq
\* What catch_up_cognition replays.
LEMMA MissingSequence ==
  ASSUME NEW p, IsFiniteSet(Live), IsSeq(p.observed)
  PROVE  IsSeq(Missing(p))
<1>1. PICK c, n : c = Canonical(Live) /\ n = Cardinality(Live)
  OBVIOUS
<1>2. IsSeq(c) /\ Len(c) = n /\ n \in Nat
  BY <1>1, CanonicalSequence
<1>3. PICK k \in Nat : k = Len(p.observed)
  BY DEF IsSeq
<1>4. Missing(p) = SubSeq(c, k + 1, n)
  BY <1>1, <1>3 DEF Missing
<1>5. \A i \in (k + 1)..n : c[i] \in Range(c)
  BY <1>2 DEF IsSeq, Range
<1>6. SubSeq(c, k + 1, n) \in Seq(Range(c))
  BY <1>2, <1>5, SubSeqProperties
<1> QED
  BY <1>4, <1>6, Sequenced

-----------------------------------------------------------------------------
(* The gate. *)

Gated == {"import", "batch", "rebuild", "catch_up", "reflect", "teach"}
Installing == Gated \ {"import"}
Extending == {"catch_up", "reflect", "teach"}

\* What thread t, in the middle of job j, may rely on while p is stored and g has
\* the gate: nobody else replaces the projection it started from.
JobFits(t, j, p, g) ==
  /\ j.op \in Gated => g = t
  /\ j.op \in Installing => j.prev = p
  /\ j.op \in Extending \cup {"batch"} => p # NoProjection
  /\ j.op = "batch" => /\ j = [op |-> j.op, prev |-> j.prev, left |-> j.left, done |-> j.done]
                       /\ IsSeq(j.done)
  /\ j.op = "rebuild" => IsState(j.next)
  /\ j.op \in Extending => IsState(j.next) /\ Extends(p, j.next)
  /\ j.op = "diagnose" => j = [op |-> j.op, state |-> j.state, before |-> j.before]

\* The inductive invariant of InstallsOnlyExtend.
InstallInv ==
  /\ IsFiniteSet(rows)
  /\ proj # NoProjection => IsState(proj)
  /\ task = [t \in Thread |-> task[t]]
  /\ \A t \in Thread : JobFits(t, task[t], proj, gate)

LEMMA LiveFinite ==
  ASSUME IsFiniteSet(rows)
  PROVE  IsFiniteSet(Live)
BY FS_Subset DEF Live

LEMMA IdleFits ==
  ASSUME NEW t, NEW p, NEW g
  PROVE  JobFits(t, Idle, p, g)
BY DEF JobFits, Idle, Gated, Installing, Extending

\* One thread goes on with another job while the projection stays; the gate is
\* left alone, taken when it was free, or given back by its holder.
LEMMA JobsKept ==
  ASSUME InstallInv, NEW t \in Thread, NEW j, task' = [task EXCEPT ![t] = j],
         proj' = proj, IsFiniteSet(rows'),
         JobFits(t, j, proj, gate'),
         gate' = gate \/ gate = NoThread \/ gate = t
  PROVE  InstallInv'
<1>1. task' = [u \in Thread |-> task'[u]] /\ task'[t] = j
      /\ \A u \in Thread : u # t => task'[u] = task[u]
  BY DEF InstallInv
<1>2. ASSUME NEW u \in Thread, u # t
      PROVE  JobFits(u, task'[u], proj', gate')
  <2>1. JobFits(u, task[u], proj, gate) /\ u # NoThread
    BY NoThreadAssumption DEF InstallInv
  <2>2. JobFits(u, task[u], proj, gate')
    BY <1>2, <2>1 DEF JobFits
  <2> QED
    BY <1>1, <1>2, <2>2
<1>3. JobFits(t, task'[t], proj', gate')
  BY <1>1
<1>4. \A u \in Thread : JobFits(u, task'[u], proj', gate')
  BY <1>2, <1>3
<1> QED
  BY <1>1, <1>4 DEF InstallInv

\* The holder of the gate stores a projection and returns.
LEMMA Installed ==
  ASSUME InstallInv, NEW t \in Thread, task[t].op \in Installing, Return(t),
         rows' = rows, proj' # NoProjection => IsState(proj')
  PROVE  InstallInv'
<1>1. gate = t
  BY DEF InstallInv, JobFits, Installing
<1>2. task' = [u \in Thread |-> task'[u]] /\ task'[t] = Idle
      /\ \A u \in Thread : u # t => task'[u] = task[u]
  BY DEF InstallInv, Return
<1>3. ASSUME NEW u \in Thread, u # t
      PROVE  JobFits(u, task'[u], proj', gate')
  <2>1. JobFits(u, task[u], proj, gate)
    BY DEF InstallInv
  <2>2. task[u].op \notin Gated
    BY <1>1, <1>3, <2>1 DEF JobFits
  <2>3. JobFits(u, task[u], proj', gate')
    BY <2>1, <2>2 DEF JobFits, Installing, Extending, Gated
  <2> QED
    BY <1>2, <1>3, <2>3
<1>4. JobFits(t, task'[t], proj', gate')
  BY <1>2, IdleFits
<1>5. \A u \in Thread : JobFits(u, task'[u], proj', gate')
  BY <1>3, <1>4
<1> QED
  BY <1>2, <1>5 DEF InstallInv
\* Steps outside the gate, and steps of the log: no thread changes its job.
LEMMA LogKept ==
  ASSUME InstallInv, IsFiniteSet(rows'), UNCHANGED <<proj, gate, task>>
  PROVE  InstallInv'
BY DEF InstallInv

LEMMA LogSteps ==
  ASSUME InstallInv,
         NEW t \in Thread,
         CommitInteraction(t) \/ (\E e \in Live : Redact(t, e)) \/ ImportEvent(t)
  PROVE  InstallInv' /\ proj' = proj
<1>1. UNCHANGED <<proj, gate, task>>
  BY DEF CommitInteraction, Redact, ImportEvent
<1>2. rows' = rows \/ \E e : rows' = rows \cup {e}
  BY DEF CommitInteraction, Redact, ImportEvent, Append1
<1>3. IsFiniteSet(rows')
  BY <1>2, FS_AddElement DEF InstallInv
<1> QED
  BY <1>1, <1>3, LogKept

LEMMA ImportSteps ==
  ASSUME InstallInv, NEW t \in Thread, ImportStart(t) \/ ImportEnd(t)
  PROVE  InstallInv' /\ proj' = proj
<1>0. proj' = proj /\ rows' = rows /\ IsFiniteSet(rows')
  BY DEF ImportStart, ImportEnd, log, InstallInv
<1>1. CASE ImportStart(t)
  <2>1. PICK j : j = [op |-> "import"]
    OBVIOUS
  <2>2. task' = [task EXCEPT ![t] = j] /\ gate = NoThread /\ gate' = t
    BY <1>1, <2>1 DEF ImportStart, Enter, Lock, GateFree
  <2>3. JobFits(t, j, proj, gate')
    BY <2>1, <2>2 DEF JobFits, Gated, Installing, Extending
  <2> QED
    BY <1>0, <2>2, <2>3, JobsKept
<1>2. CASE ImportEnd(t)
  <2>1. task' = [task EXCEPT ![t] = Idle] /\ gate = t
    BY <1>2 DEF ImportEnd, Return, Doing, InstallInv, JobFits, Gated
  <2> QED
    BY <1>0, <2>1, JobsKept, IdleFits
<1> QED
  BY <1>1, <1>2

Advanced(b, l, d) == [b EXCEPT !.left = l, !.done = d]

LEMMA AdvancedBatch ==
  ASSUME NEW b, b = [op |-> b.op, prev |-> b.prev, left |-> b.left, done |-> b.done],
         NEW l, NEW d, NEW h, h = Advanced(b, l, d)
  PROVE  h = [op |-> b.op, prev |-> b.prev, left |-> l, done |-> d]
BY DEF Advanced

LEMMA BatchSteps ==
  ASSUME InstallInv, NEW t \in Thread, (\E n \in 1..MaxBatch : BatchStart(t, n)) \/ BatchCommit(t)
  PROVE  InstallInv' /\ proj' = proj
<1>1. CASE \E n \in 1..MaxBatch : BatchStart(t, n)
  <2>1. PICK n \in 1..MaxBatch : BatchStart(t, n)
    BY <1>1
  <2>2. PICK j : j = [op |-> "batch", prev |-> proj, left |-> n, done |-> <<>>]
    OBVIOUS
  <2>3. /\ task' = [task EXCEPT ![t] = j] /\ gate = NoThread /\ gate' = t
        /\ proj # NoProjection /\ proj' = proj /\ rows' = rows
    BY <2>1, <2>2 DEF BatchStart, Enter, Lock, GateFree, IsCurrent, log
  <2>4. IsSeq(<<>>)
    BY DEF IsSeq
  <2>5. JobFits(t, j, proj, gate')
    BY <2>2, <2>3, <2>4 DEF JobFits, Gated, Installing, Extending
  <2> QED
    BY <2>3, <2>5, JobsKept DEF InstallInv
<1>2. CASE BatchCommit(t)
  <2>1. PICK b : b = task[t]
    OBVIOUS
  <2>2. JobFits(t, b, proj, gate) /\ b.op = "batch"
    BY <1>2, <2>1 DEF InstallInv, BatchCommit, Doing
  <2>3. PICK e : /\ rows' = rows \cup {e}
                 /\ task' = [task EXCEPT ![t] =
                               [b EXCEPT !.left = @ - 1, !.done = Append(@, e)]]
                 /\ UNCHANGED <<proj, gate>>
    BY <1>2, <2>1 DEF BatchCommit, Append1, Enter
  <2>4. PICK l, d : l = b.left - 1 /\ d = Append(b.done, e)
    OBVIOUS
  <2>5. PICK j : j = [op |-> "batch", prev |-> b.prev, left |-> l, done |-> d]
    OBVIOUS
  <2>6. [b EXCEPT !.left = @ - 1, !.done = Append(@, e)] = j
    <3>1. b = [op |-> "batch", prev |-> b.prev, left |-> b.left, done |-> b.done]
      BY <2>2 DEF JobFits
    <3>2. Advanced(b, l, d) = j
      BY <2>2, <2>5, <3>1, AdvancedBatch
    <3> QED
      BY <2>4, <3>2, Zenon DEF Advanced
  <2>7. IsSeq(d)
    <3>1. b.done \in Seq(Range(b.done) \cup {e})
      BY <2>2 DEF JobFits, IsSeq
    <3>2. d \in Seq(Range(b.done) \cup {e})
      BY <2>4, <3>1
    <3> QED
      BY <3>2, Sequenced
  <2>8. JobFits(t, j, proj, gate')
    BY <2>2, <2>3, <2>5, <2>7 DEF JobFits, Gated, Installing, Extending
  <2>9. IsFiniteSet(rows')
    BY <2>3, FS_AddElement DEF InstallInv
  <2> QED
    BY <2>3, <2>6, <2>8, <2>9, JobsKept
<1> QED
  BY <1>1, <1>2

LEMMA PrepareSteps ==
  ASSUME InstallInv, NEW t \in Thread, RebuildRead(t) \/ CatchUpRead(t) \/ ReflectRead(t) \/ TeachRead(t)
  PROVE  InstallInv' /\ proj' = proj
<1>1. IsFiniteSet(Live) /\ IsFiniteSet(rows) /\ (proj # NoProjection => IsState(proj))
  BY LiveFinite DEF InstallInv
<1>2. PICK op, next : /\ Prepare(t, op, next) /\ IsState(next)
                      /\ \/ op = "rebuild"
                         \/ op \in Extending /\ proj # NoProjection /\ Extends(proj, next)
  <2>1. CASE RebuildRead(t)
    BY <1>1, <2>1, NewStateFits, CanonicalSequence, Observed DEF RebuildRead
  <2>2. CASE CatchUpRead(t)
    <3>1. proj # NoProjection /\ IsState(proj)
      BY <1>1, <2>2 DEF CatchUpRead, CatchUpAccepts
    <3>2. IsSeq(Missing(proj))
      BY <1>1, <3>1, MissingSequence DEF IsState
    <3>3. IsState(Observe(proj, Missing(proj))) /\ Extends(proj, Observe(proj, Missing(proj)))
      BY <3>1, <3>2, Observed
    <3> QED
      BY <2>2, <3>1, <3>3 DEF CatchUpRead, Extending
  <2>3. CASE ReflectRead(t) \/ TeachRead(t)
    <3>1. proj # NoProjection /\ IsState(proj)
      BY <1>1, <2>3 DEF ReflectRead, TeachRead, IsCurrent
    <3>2. IsState(Teach(proj)) /\ Extends(proj, Teach(proj))
      BY <3>1, Taught
    <3> QED
      BY <2>3, <3>1, <3>2 DEF ReflectRead, TeachRead, Extending
  <2> QED
    BY <2>1, <2>2, <2>3
<1>3. PICK j : j = [op |-> op, prev |-> proj, events |-> Live, next |-> next]
  OBVIOUS
<1>4. /\ task' = [task EXCEPT ![t] = j] /\ gate = NoThread /\ gate' = t
      /\ proj' = proj /\ rows' = rows
  BY <1>2, <1>3 DEF Prepare, Enter, Lock, GateFree, log
<1>5. JobFits(t, j, proj, gate')
  BY <1>2, <1>3, <1>4 DEF JobFits, Gated, Installing, Extending
<1> QED
  BY <1>1, <1>4, <1>5, JobsKept

LEMMA ReturnSteps ==
  ASSUME InstallInv, NEW t \in Thread,
         Abandon(t) \/ DiagnosticsState(t) \/ DiagnosticsEvents(t) \/ DiagnosticsReturn(t)
  PROVE  InstallInv' /\ proj' = proj
<1>0. proj' = proj /\ rows' = rows /\ IsFiniteSet(rows')
  BY DEF Abandon, DiagnosticsState, DiagnosticsEvents, DiagnosticsReturn, log, InstallInv
<1>1. CASE Abandon(t) \/ DiagnosticsReturn(t)
  <2>1. task' = [task EXCEPT ![t] = Idle] /\ (gate' = gate \/ gate = t)
    BY <1>1 DEF Abandon, DiagnosticsReturn, Return
  <2> QED
    BY <1>0, <2>1, JobsKept, IdleFits
<1>2. CASE DiagnosticsState(t)
  <2>1. PICK j : j = [op |-> "diagnose", state |-> proj, before |-> rows]
    OBVIOUS
  <2>2. task' = [task EXCEPT ![t] = j] /\ gate' = gate
    BY <1>2, <2>1 DEF DiagnosticsState, Enter
  <2>3. JobFits(t, j, proj, gate')
    BY <2>1 DEF JobFits, Gated, Installing, Extending
  <2> QED
    BY <1>0, <2>2, <2>3, JobsKept
<1>3. CASE DiagnosticsEvents(t)
  <2>1. PICK b : b = task[t]
    OBVIOUS
  <2>2. b = [op |-> b.op, state |-> b.state, before |-> b.before]
    BY <1>3, <2>1 DEF DiagnosticsEvents, Doing, InstallInv, JobFits
  <2>3. PICK j : /\ task' = [task EXCEPT ![t] = j] /\ gate' = gate
                 /\ j = [b EXCEPT !.op = "answer"] \/ j = Idle
    BY <1>3, <2>1 DEF DiagnosticsEvents, Enter
  <2>4. j.op \in {"answer", "idle"}
    BY <2>2, <2>3 DEF Idle
  <2>5. JobFits(t, j, proj, gate')
    BY <2>4 DEF JobFits, Gated, Installing, Extending
  <2> QED
    BY <1>0, <2>3, <2>5, JobsKept
<1> QED
  BY <1>1, <1>2, <1>3
\* What InstallsExtend says of a step.
OnlyExtends ==
  \/ proj = NoProjection
  \/ \E t \in Thread : Rebuilding(t) /\ task'[t] = Idle
  \/ Extends(proj, proj')

LEMMA InstallSteps ==
  ASSUME InstallInv, NEW t \in Thread,
         BatchInstall(t) \/ InstallIfUnchanged(t) \/ TeachPut(t)
  PROVE  InstallInv' /\ OnlyExtends
<1>1. PICK j : j = task[t]
  OBVIOUS
<1>2. JobFits(t, j, proj, gate) /\ (proj # NoProjection => IsState(proj))
  BY <1>1 DEF InstallInv
<1>3. Return(t) /\ rows' = rows /\ j.op \in Installing
  BY <1>1 DEF BatchInstall, InstallIfUnchanged, TeachPut, Doing, Installing, Gated, log
<1>4. task'[t] = Idle
  BY <1>3 DEF Return, InstallInv
<1>5. CASE proj' = proj
  <2>1. proj # NoProjection => Extends(proj, proj')
    BY <1>2, <1>5, ExtendsItself
  <2> QED
    BY <1>1, <1>2, <1>3, <1>5, <2>1, Installed DEF OnlyExtends
<1>6. CASE BatchInstall(t) /\ proj' = Observe(proj, j.done)
  <2>1. j.op = "batch"
    BY <1>1, <1>6 DEF BatchInstall, Doing
  <2>2. proj # NoProjection /\ IsState(proj) /\ IsSeq(j.done)
    BY <1>2, <2>1 DEF JobFits, Extending
  <2>3. IsState(proj') /\ Extends(proj, proj')
    BY <1>6, <2>2, Observed
  <2> QED
    BY <1>1, <1>3, <2>3, Installed DEF OnlyExtends
<1>7. CASE j.op = "rebuild" /\ proj' = j.next
  <2>1. IsState(proj')
    BY <1>2, <1>7 DEF JobFits
  <2>2. Rebuilding(t)
    BY <1>1, <1>7 DEF Rebuilding, Doing
  <2> QED
    BY <1>1, <1>3, <1>4, <2>1, <2>2, Installed DEF OnlyExtends
<1>8. CASE j.op \in Extending /\ proj' = j.next
  <2>1. IsState(proj') /\ Extends(proj, proj')
    BY <1>2, <1>8 DEF JobFits
  <2> QED
    BY <1>1, <1>3, <2>1, Installed DEF OnlyExtends
<1> QED
  BY <1>1, <1>5, <1>6, <1>7, <1>8 DEF BatchInstall, InstallIfUnchanged, TeachPut, Doing, Extending

LEMMA InstallStep == InstallInv /\ [Next]_vars => InstallInv' /\ (OnlyExtends \/ UNCHANGED vars)
<1> SUFFICES ASSUME InstallInv, [Next]_vars
             PROVE  InstallInv' /\ (OnlyExtends \/ UNCHANGED vars)
  OBVIOUS
<1>1. proj' = proj => OnlyExtends
  BY ExtendsItself DEF OnlyExtends, InstallInv
<1>2. ASSUME NEW t \in Thread, InitializeCognition(t)
      PROVE  InstallInv' /\ OnlyExtends
  <2>1. /\ proj = NoProjection /\ proj' = NewState /\ gate = NoThread
        /\ UNCHANGED <<rows, gate, task>>
    BY <1>2 DEF InitializeCognition, GateFree, log
  <2>2. IsState(proj')
    BY <2>1, NewStateFits
  <2>3. ASSUME NEW u \in Thread PROVE JobFits(u, task'[u], proj', gate')
    <3>1. JobFits(u, task[u], proj, gate) /\ u # NoThread
      BY NoThreadAssumption DEF InstallInv
    <3>2. task[u].op \notin Gated
      BY <2>1, <3>1 DEF JobFits
    <3> QED
      BY <2>1, <3>1, <3>2 DEF JobFits, Installing, Extending, Gated
  <2> QED
    BY <2>1, <2>2, <2>3 DEF InstallInv, OnlyExtends
<1>3. ASSUME NEW t \in Thread, Step(t)
      PROVE  InstallInv' /\ OnlyExtends
  BY <1>1, <1>2, <1>3, LogSteps, ImportSteps, BatchSteps, PrepareSteps, ReturnSteps, InstallSteps
     DEF Step
<1>4. CASE \E d \in Peer : PeerCommit(d)
  BY <1>1, <1>4, LogKept DEF PeerCommit, InstallInv
<1>5. CASE Crash
  <2>1. /\ proj' = proj /\ rows' = rows /\ task' = [t \in Thread |-> Idle]
    BY <1>5 DEF Crash, log
  <2>2. \A t \in Thread : JobFits(t, task'[t], proj', gate')
    BY <2>1, IdleFits
  <2> QED
    BY <1>1, <2>1, <2>2 DEF InstallInv
<1>6. CASE UNCHANGED vars
  BY <1>6 DEF vars, InstallInv
<1> QED
  BY <1>3, <1>4, <1>5, <1>6 DEF Next

LEMMA InstallInit == Init => InstallInv
<1> SUFFICES ASSUME Init PROVE InstallInv
  OBVIOUS
<1>1. rows = {} /\ proj = NoProjection /\ task = [t \in Thread |-> Idle]
  BY DEF Init
<1>2. \A t \in Thread : JobFits(t, task[t], proj, gate)
  BY <1>1, IdleFits
<1> QED
  BY <1>1, <1>2, FS_EmptySet DEF InstallInv

\* Only a rebuild takes anything back: every other step that stores a projection
\* extends what was observed at its end and keeps what was learned, although some
\* of them store without comparing (heart.rs, behind projection_gate).
THEOREM InstallsOnlyExtend == Spec => InstallsExtend
BY InstallInit, InstallStep, PTL DEF Spec, InstallsExtend, OnlyExtends, Extends

-----------------------------------------------------------------------------
(* The canonical order of a set of events.                                 *)

Rank(S, e) == Cardinality({f \in S : Before(f, e)})

LEMMA BeforeOrder ==
  /\ \A e \in Event : ~Before(e, e)
  /\ \A e, f, g \in Event : Before(e, f) /\ Before(f, g) => Before(e, g)
  /\ \A e, f \in Event : e # f => Before(e, f) \/ Before(f, e)
<1>1. \A e \in Event : e.at \in Nat /\ e.dev \in Nat /\ e.seq \in Nat
  BY DeviceAssumption DEF Event
<1>2. \A e, f \in Event : e.at = f.at /\ e.dev = f.dev /\ e.seq = f.seq => e = f
  BY DEF Event
<1>3. \A e \in Event : ~Before(e, e)
  BY <1>1 DEF Before
<1>4. \A e, f, g \in Event : Before(e, f) /\ Before(f, g) => Before(e, g)
  BY <1>1 DEF Before
<1>5. \A e, f \in Event : e # f => Before(e, f) \/ Before(f, e)
  BY <1>1, <1>2 DEF Before
<1> QED
  BY <1>3, <1>4, <1>5

LEMMA RankOrders ==
  ASSUME NEW S, IsFiniteSet(S), S \subseteq Event, NEW e \in S, NEW f \in S
  PROVE  /\ Rank(S, e) \in Nat /\ Rank(S, e) < Cardinality(S)
         /\ Before(e, f) => Rank(S, e) < Rank(S, f)
         /\ Rank(S, e) = Rank(S, f) => e = f
         /\ Rank(S, e) < Rank(S, f) => Before(e, f)
<1>1. \A x \in S : {g \in S : Before(g, x)} \in SUBSET S
  OBVIOUS
<1>2. \A x \in S : IsFiniteSet({g \in S : Before(g, x)}) /\ Rank(S, x) \in Nat
  BY <1>1, FS_Subset, FS_CardinalityType DEF Rank
<1>3. ASSUME NEW x \in S, NEW T, IsFiniteSet(T), {g \in S : Before(g, x)} \subseteq T, x \in T
      PROVE  Rank(S, x) < Cardinality(T)
  <2>1. PICK B : B = {g \in S : Before(g, x)}
    OBVIOUS
  <2>2. x \notin B
    BY <2>1, BeforeOrder
  <2>3. B \in SUBSET T /\ B # T
    BY <1>3, <2>1, <2>2
  <2>4. Cardinality(B) <= Cardinality(T) /\ Cardinality(B) # Cardinality(T)
    BY <1>3, <2>3, FS_Subset
  <2>5. Cardinality(B) \in Nat /\ Cardinality(T) \in Nat
    BY <1>2, <1>3, <2>1, FS_CardinalityType DEF Rank
  <2> QED
    BY <2>1, <2>4, <2>5 DEF Rank
<1>4. Rank(S, e) < Cardinality(S)
  BY <1>3
<1>5. \A x, y \in S : Before(x, y) => Rank(S, x) < Rank(S, y)
  <2> SUFFICES ASSUME NEW x \in S, NEW y \in S, Before(x, y) PROVE Rank(S, x) < Rank(S, y)
    OBVIOUS
  <2>1. PICK T : T = {g \in S : Before(g, y)}
    OBVIOUS
  <2>2. {g \in S : Before(g, x)} \subseteq T /\ x \in T
    BY <2>1, BeforeOrder
  <2>3. IsFiniteSet(T) /\ Cardinality(T) = Rank(S, y)
    BY <1>2, <2>1 DEF Rank
  <2> QED
    BY <1>3, <2>2, <2>3
<1>6. e # f => Before(e, f) \/ Before(f, e)
  BY BeforeOrder
<1>7. Rank(S, e) \in Nat /\ Rank(S, f) \in Nat
  BY <1>2
<1>8. Before(e, f) => Rank(S, e) < Rank(S, f)
  BY <1>5
<1>9. Before(f, e) => Rank(S, f) < Rank(S, e)
  BY <1>5
<1> QED
  BY <1>4, <1>6, <1>7, <1>8, <1>9

\* Every place of the canonical order is taken: the ranks are as many as the events.
LEMMA RanksFilled ==
  ASSUME NEW S, IsFiniteSet(S), S \subseteq Event
  PROVE  \A i \in 1..Cardinality(S) : \E e \in S : Rank(S, e) = i - 1
<1>1. PICK n \in Nat : n = Cardinality(S)
  BY FS_CardinalityType
<1>2. PICK r : r = [e \in S |-> Rank(S, e)]
  OBVIOUS
<1>3. \A e \in S : Rank(S, e) \in 0..(n - 1)
  <2>1. \A e \in S : Rank(S, e) \in Nat /\ Rank(S, e) < n
    BY <1>1, RankOrders
  <2> QED
    BY <1>1, <2>1
<1>4. r \in Injection(S, 0..(n - 1))
  <2>1. r \in [S -> 0..(n - 1)]
    BY <1>2, <1>3
  <2>2. \A e, f \in S : r[e] = r[f] => e = f
    BY <1>2, RankOrders
  <2> QED
    BY <2>1, <2>2 DEF Injection, IsInjective
<1>5. IsFiniteSet(0..(n - 1)) /\ Cardinality(0..(n - 1)) = n
  <2>1. \A b \in Int : IsFiniteSet(0..b) /\ Cardinality(0..b) = IF 0 > b THEN 0 ELSE b - 0 + 1
    BY FS_Interval
  <2>2. PICK b \in Int : b = n - 1
    OBVIOUS
  <2>3. Cardinality(0..b) = n
    BY <2>1, <2>2
  <2> QED
    BY <2>1, <2>2, <2>3
<1>6. r \in Surjection(S, 0..(n - 1))
  BY <1>1, <1>4, <1>5, FS_Injection
<1>7. ASSUME NEW i \in 1..n PROVE \E e \in S : Rank(S, e) = i - 1
  <2>1. i - 1 \in 0..(n - 1)
    BY <1>1
  <2>2. \E e \in S : r[e] = i - 1
    BY <1>6, <2>1 DEF Surjection
  <2> QED
    BY <1>2, <2>2
<1> QED
  BY <1>1, <1>7

InOrder(s) == \A i, j \in 1..Len(s) : i < j => Before(s[i], s[j])

\* The canonical sequence of a set holds exactly the set, in order.
LEMMA CanonicalOrder ==
  ASSUME NEW S, IsFiniteSet(S), S \subseteq Event, NEW c, c = Canonical(S)
  PROVE  /\ IsSeq(c) /\ Len(c) = Cardinality(S) /\ Cardinality(S) \in Nat
         /\ InOrder(c)
         /\ \A i \in 1..Len(c) : c[i] \in S
         /\ \A e \in S : \E i \in 1..Len(c) : c[i] = e
<1>1. IsSeq(c) /\ Len(c) = Cardinality(S) /\ Cardinality(S) \in Nat
  BY CanonicalSequence
<1>2. PICK n \in Nat : n = Cardinality(S)
  BY <1>1
<1>3. \A i \in 1..n : c[i] \in S /\ Rank(S, c[i]) = i - 1
  <2>1. c = [i \in 1..n |-> Ranked(S, i)]
    BY <1>2, Zenon DEF Canonical, Ranked
  <2> SUFFICES ASSUME NEW i \in 1..n PROVE c[i] \in S /\ Rank(S, c[i]) = i - 1
    OBVIOUS
  <2>2. \E e \in S : Rank(S, e) = i - 1
    BY <1>2, RanksFilled
  <2>3. Ranked(S, i) = CHOOSE e \in S : Rank(S, e) = i - 1
    BY DEF Ranked, Rank
  <2>4. Ranked(S, i) \in S /\ Rank(S, Ranked(S, i)) = i - 1
    BY <2>2, <2>3
  <2> QED
    BY <2>1, <2>4
<1>4. InOrder(c)
  <2> SUFFICES ASSUME NEW i \in 1..n, NEW j \in 1..n, i < j PROVE Before(c[i], c[j])
    BY <1>1, <1>2 DEF InOrder
  <2>1. Rank(S, c[i]) < Rank(S, c[j])
    BY <1>3
  <2> QED
    BY <1>3, <2>1, RankOrders
<1>5. ASSUME NEW e \in S PROVE \E i \in 1..n : c[i] = e
  <2>1. Rank(S, e) \in Nat /\ Rank(S, e) < n
    BY <1>2, RankOrders
  <2>2. PICK i \in 1..n : i = Rank(S, e) + 1
    BY <1>2, <2>1
  <2>3. c[i] \in S /\ Rank(S, c[i]) = Rank(S, e)
    BY <1>3, <2>1, <2>2
  <2>4. c[i] = e
    BY <2>3, RankOrders
  <2> QED
    BY <2>4
<1> QED
  BY <1>1, <1>2, <1>3, <1>4, <1>5

-----------------------------------------------------------------------------
LEMMA RangeOf ==
  ASSUME NEW s, IsSeq(s)
  PROVE  /\ Len(s) \in Nat /\ \A i \in 1..Len(s) : s[i] \in Range(s)
         /\ \A x \in Range(s) : \E i \in 1..Len(s) : s[i] = x
BY DEF IsSeq, Range

LEMMA RangeJoined ==
  ASSUME NEW s, NEW t, IsSeq(s), IsSeq(t), NEW u, u = s \o t
  PROVE  /\ IsSeq(u) /\ Len(u) = Len(s) + Len(t)
         /\ Range(u) = Range(s) \cup Range(t)
         /\ \A i \in 1..Len(u) : u[i] = IF i <= Len(s) THEN s[i] ELSE t[i - Len(s)]
<1>1. PICK S : s \in Seq(S) /\ t \in Seq(S)
  <2>1. s \in Seq(Range(s) \cup Range(t)) /\ t \in Seq(Range(s) \cup Range(t))
    BY DEF IsSeq
  <2> QED
    BY <2>1
<1>2. IsSeq(u)
  BY Concatenated
<1>3. Len(u) = Len(s) + Len(t) /\ \A i \in 1..Len(u) : u[i] = IF i <= Len(s) THEN s[i] ELSE t[i - Len(s)]
  BY <1>1
<1>4. PICK m \in Nat, n \in Nat : m = Len(s) /\ n = Len(t)
  BY <1>1
<1>5. Range(u) \subseteq Range(s) \cup Range(t)
  <2> SUFFICES ASSUME NEW x \in Range(u) PROVE x \in Range(s) \cup Range(t)
    OBVIOUS
  <2>1. PICK i \in 1..(m + n) : u[i] = x
    BY <1>2, <1>3, <1>4, RangeOf
  <2>2. CASE i <= m
    <3>1. i \in 1..m /\ u[i] = s[i]
      BY <1>3, <1>4, <2>1, <2>2
    <3> QED
      BY <1>4, <2>1, <3>1, RangeOf
  <2>3. CASE ~(i <= m)
    <3>1. i - m \in 1..n /\ u[i] = t[i - m]
      BY <1>3, <1>4, <2>1, <2>3
    <3> QED
      BY <1>4, <2>1, <3>1, RangeOf
  <2> QED
    BY <2>2, <2>3
<1>6. Range(s) \subseteq Range(u)
  <2> SUFFICES ASSUME NEW x \in Range(s) PROVE x \in Range(u)
    OBVIOUS
  <2>1. PICK i \in 1..m : s[i] = x
    BY <1>4, RangeOf
  <2>2. i \in 1..Len(u) /\ u[i] = x
    BY <1>3, <1>4, <2>1
  <2> QED
    BY <1>2, <2>2, RangeOf
<1>7. Range(t) \subseteq Range(u)
  <2> SUFFICES ASSUME NEW x \in Range(t) PROVE x \in Range(u)
    OBVIOUS
  <2>1. PICK i \in 1..n : t[i] = x
    BY <1>4, RangeOf
  <2>2. m + i \in 1..Len(u) /\ u[m + i] = t[(m + i) - m] /\ (m + i) - m = i
    BY <1>3, <1>4, <2>1
  <2> QED
    BY <1>2, <2>1, <2>2, RangeOf
<1> QED
  BY <1>2, <1>3, <1>5, <1>6, <1>7

LEMMA ReversedAt ==
  ASSUME NEW s, IsSeq(s), NEW q, q = Reverse(s)
  PROVE  /\ IsSeq(q) /\ Len(q) = Len(s)
         /\ \A i \in 1..Len(s) : q[i] = s[(Len(s) - i) + 1]
<1>1. PICK n \in Nat : n = Len(s)
  BY DEF IsSeq
<1>2. q = [i \in 1..n |-> s[(n - i) + 1]]
  BY <1>1 DEF Reverse
<1>3. q \in [1..n -> Range(q)]
  BY <1>2 DEF Range
<1>4. q \in Seq(Range(q)) /\ Len(q) = n
  BY <1>2, <1>3, SeqDef
<1> QED
  BY <1>1, <1>2, <1>4 DEF IsSeq

LEMMA SuffixAt ==
  ASSUME NEW s, NEW t, IsSeq(s), IsSeq(t), EndsWith(s, t)
  PROVE  Len(t) <= Len(s) /\ \A j \in 1..Len(t) : t[j] = s[(Len(s) - Len(t)) + j]
<1>1. PICK p, q : p = Reverse(t) /\ q = Reverse(s)
  OBVIOUS
<1>2. IsPrefix(p, q)
  BY <1>1 DEF EndsWith, IsSuffix
<1>3. PICK m \in Nat, n \in Nat : m = Len(t) /\ n = Len(s)
  BY DEF IsSeq
<1>4. /\ IsSeq(p) /\ Len(p) = m /\ \A i \in 1..m : p[i] = t[(m - i) + 1]
      /\ IsSeq(q) /\ Len(q) = n /\ \A i \in 1..n : q[i] = s[(n - i) + 1]
  BY <1>1, <1>3, ReversedAt
<1>5. m <= n /\ SubSeq(p, 1, m) = SubSeq(q, 1, m)
  BY <1>2, <1>4 DEF IsPrefix
<1>6. \A i \in 1..m : p[i] = q[i]
  <2>1. \A i \in 1..m : SubSeq(p, 1, m)[i] = p[i]
    BY <1>4 DEF IsSeq
  <2>2. \A i \in 1..m : SubSeq(q, 1, m)[i] = q[i]
    BY <1>4, <1>5 DEF IsSeq
  <2> QED
    BY <1>5, <2>1, <2>2
<1>7. ASSUME NEW j \in 1..m PROVE t[j] = s[(n - m) + j]
  <2>1. PICK i \in 1..m : i = (m - j) + 1
    OBVIOUS
  <2>2. (m - i) + 1 = j /\ (n - i) + 1 = (n - m) + j /\ i \in 1..n
    BY <1>5, <2>1
  <2>3. p[i] = t[j]
    BY <1>4, <2>2
  <2>4. q[i] = s[(n - m) + j]
    BY <1>4, <2>2
  <2> QED
    BY <1>6, <2>3, <2>4
<1> QED
  BY <1>3, <1>5, <1>7

-----------------------------------------------------------------------------
(* Logs.                                                                   *)

Of(S, d) == {e \in S : e.dev = d}

\* A log holds finitely many events.  This device numbers its own from one on without a gap; of
\* the others any part may have arrived.
LogOK(S) ==
  /\ IsFiniteSet(S) /\ S \subseteq Event
  /\ \E k \in Nat : \A e \in S : e.seq <= k
  /\ \A e \in S : e.dev = Me => e.seq <= Cardinality(Of(S, Me))

LEMMA OfFinite ==
  ASSUME NEW S, IsFiniteSet(S), NEW d
  PROVE  IsFiniteSet(Of(S, d)) /\ Cardinality(Of(S, d)) \in Nat
<1>1. Of(S, d) \in SUBSET S
  BY DEF Of
<1> QED
  BY <1>1, FS_Subset, FS_CardinalityType

LEMMA LogAppend ==
  ASSUME NEW S, LogOK(S), NEW e \in Event, e.dev = Me => e.seq = NextSeq(Me, S)
  PROVE  LogOK(S \cup {e}) /\ (e.dev = Me => e \notin S /\ \A f \in S : f.dev = Me => f.seq < e.seq)
<1>1. PICK n \in Nat : n = Cardinality(Of(S, Me))
  BY OfFinite DEF LogOK
<1>2. e.dev = Me => e.seq = n + 1
  BY <1>1 DEF NextSeq, Of
<1>3. \A f \in S : f.seq \in Nat /\ (f.dev = Me => f.seq <= n)
  BY <1>1 DEF LogOK, Event
<1>4. e.dev = Me => e \notin S /\ \A f \in S : f.dev = Me => f.seq < e.seq
  BY <1>2, <1>3
<1>5. PICK T : T = S \cup {e}
  OBVIOUS
<1>6. IsFiniteSet(T) /\ T \subseteq Event /\ \E k \in Nat : \A f \in T : f.seq <= k
  <2>1. PICK k \in Nat : \A f \in S : f.seq <= k
    BY DEF LogOK
  <2>2. e.seq \in Nat /\ k + e.seq \in Nat /\ \A f \in T : f.seq <= k + e.seq
    BY <1>3, <1>5, <2>1 DEF Event
  <2>3. IsFiniteSet(T) /\ T \subseteq Event
    BY <1>5, FS_AddElement DEF LogOK
  <2> QED
    BY <2>2, <2>3
<1>7. CASE e.dev = Me
  <2>1. Of(T, Me) = Of(S, Me) \cup {e} /\ e \notin Of(S, Me)
    BY <1>4, <1>5, <1>7 DEF Of
  <2>2. Cardinality(Of(T, Me)) = n + 1
    BY <1>1, <2>1, FS_AddElement, OfFinite DEF LogOK
  <2>3. \A f \in T : f.dev = Me => f.seq <= n + 1
    BY <1>2, <1>3, <1>5
  <2> QED
    BY <1>4, <1>5, <1>6, <2>2, <2>3 DEF LogOK
<1>8. CASE e.dev # Me
  <2>1. Of(T, Me) = Of(S, Me)
    BY <1>5, <1>8 DEF Of
  <2>2. \A f \in T : f.dev = Me => f \in S
    BY <1>5, <1>8
  <2> QED
    BY <1>1, <1>3, <1>5, <1>6, <1>8, <2>1, <2>2 DEF LogOK
<1> QED
  BY <1>7, <1>8

\* The frontier of a part of a log is its highest sequence number of each device.
LEMMA FrontierAt ==
  ASSUME NEW R, LogOK(R), NEW S, S \subseteq R, NEW d \in Device
  PROVE  /\ FrontierOf(S)[d] \in Nat
         /\ \A e \in S : e.dev = d => e.seq <= FrontierOf(S)[d]
         /\ FrontierOf(S)[d] = 0 \/ \E e \in S : e.dev = d /\ e.seq = FrontierOf(S)[d]
<1>1. PICK Q : Q = {0} \cup {e.seq : e \in {x \in S : x.dev = d}}
  OBVIOUS
<1>2. FrontierOf(S)[d] = CHOOSE n \in Q : \A m \in Q : m <= n
  BY <1>1 DEF FrontierOf
<1>3. PICK k \in Nat : \A e \in R : e.seq \in Nat /\ e.seq <= k
  BY DEF LogOK, Event
<1>4. Q \in SUBSET (0..k) /\ Q # {}
  BY <1>1, <1>3
<1>5. \E n \in Q : \A m \in Q : m <= n
  BY <1>4, GreatestBelow
<1>6. PICK n : n = FrontierOf(S)[d]
  OBVIOUS
<1>7. n \in Q /\ \A m \in Q : m <= n
  BY <1>2, <1>5, <1>6
<1> QED
  BY <1>1, <1>4, <1>6, <1>7

-----------------------------------------------------------------------------
(* Projections of a log.                                                   *)

\* What is live and not beyond the frontier of the projection has been observed.
Behind(p, L) == \A e \in L : e.seq <= Projected(p)[e.dev] => e \in Range(p.observed)

\* No event is observed twice, and those in L are observed in canonical order.
Ordered(s, L) ==
  \A i, j \in 1..Len(s) : i < j => s[i] # s[j] /\ ({s[i], s[j]} \subseteq L => Before(s[i], s[j]))

\* All of the live events L but those in M are observed, in canonical order, and nothing that is not
\* in the log.
Whole(s, R, L, M) == IsSeq(s) /\ Range(s) \subseteq R /\ Ordered(s, L) /\ L \ M \subseteq Range(s)

LEMMA InOrderOrdered ==
  ASSUME NEW s, IsSeq(s), InOrder(s), Range(s) \subseteq Event, NEW L
  PROVE  Ordered(s, L)
<1> SUFFICES ASSUME NEW i \in 1..Len(s), NEW j \in 1..Len(s), i < j
             PROVE  s[i] # s[j] /\ Before(s[i], s[j])
  BY DEF Ordered
<1>1. Before(s[i], s[j])
  BY DEF InOrder
<1>2. s[i] \in Event /\ s[j] \in Event
  BY RangeOf
<1> QED
  BY <1>1, <1>2, BeforeOrder

\* The order stays when events go or events come that were not observed.
LEMMA OrderedKept ==
  ASSUME NEW s, IsSeq(s), NEW L, NEW K, Ordered(s, L), K \cap Range(s) \subseteq L
  PROVE  Ordered(s, K)
<1> SUFFICES ASSUME NEW i \in 1..Len(s), NEW j \in 1..Len(s), i < j, {s[i], s[j]} \subseteq K
             PROVE  Before(s[i], s[j])
  BY DEF Ordered
<1>1. s[i] \in Range(s) /\ s[j] \in Range(s)
  BY RangeOf
<1> QED
  BY <1>1 DEF Ordered

LEMMA OrderedJoined ==
  ASSUME NEW s, NEW t, IsSeq(s), IsSeq(t), NEW L, Ordered(s, L), Ordered(t, L),
         Range(s) \cap Range(t) = {},
         \A x \in L \cap Range(s), y \in Range(t) : Before(x, y), NEW u, u = s \o t
  PROVE  Ordered(u, L)
<1>1. PICK m \in Nat, n \in Nat : m = Len(s) /\ n = Len(t)
  BY DEF IsSeq
<1>2. Len(u) = m + n /\ \A i \in 1..(m + n) : u[i] = IF i <= m THEN s[i] ELSE t[i - m]
  BY <1>1, RangeJoined
<1> SUFFICES ASSUME NEW i \in 1..(m + n), NEW j \in 1..(m + n), i < j
             PROVE  u[i] # u[j] /\ ({u[i], u[j]} \subseteq L => Before(u[i], u[j]))
  BY <1>2 DEF Ordered
<1>3. CASE j <= m
  <2>0. i <= m /\ j <= m
    BY <1>3
  <2>1. i \in 1..m /\ j \in 1..m /\ u[i] = s[i] /\ u[j] = s[j]
    BY <1>2, <2>0
  <2>2. s[i] # s[j] /\ ({s[i], s[j]} \subseteq L => Before(s[i], s[j]))
    BY <1>1, <2>1 DEF Ordered
  <2> QED
    BY <2>1, <2>2
<1>4. CASE i <= m /\ ~(j <= m)
  <2>1. i \in 1..m /\ j - m \in 1..n /\ u[i] = s[i] /\ u[j] = t[j - m]
    BY <1>2, <1>4
  <2>2. u[i] \in Range(s) /\ u[j] \in Range(t)
    BY <1>1, <2>1, RangeOf
  <2> QED
    BY <2>2
<1>5. CASE ~(i <= m)
  <2>1. i - m \in 1..n /\ j - m \in 1..n /\ i - m < j - m /\ u[i] = t[i - m] /\ u[j] = t[j - m]
    BY <1>2, <1>5
  <2>2. t[i - m] # t[j - m] /\ ({t[i - m], t[j - m]} \subseteq L => Before(t[i - m], t[j - m]))
    BY <1>1, <2>1 DEF Ordered
  <2> QED
    BY <2>1, <2>2
<1> QED
  BY <1>3, <1>4, <1>5

LEMMA ObserveField ==
  ASSUME NEW p, IsState(p), NEW events
  PROVE  Observe(p, events).observed = p.observed \o events
BY DEF IsState, Observe

LEMMA TeachField ==
  ASSUME NEW p, IsState(p)
  PROVE  Teach(p).observed = p.observed
BY DEF IsState, Teach

\* is_current of a projection that is behind nothing: it is whole.
LEMMA CurrentWhole ==
  ASSUME NEW R, LogOK(R), NEW L, L \subseteq R, NEW M, NEW p, Behind(p, L \ M),
         Projected(p) = FrontierOf(L)
  PROVE  L \ M \subseteq Range(p.observed)
<1> SUFFICES ASSUME NEW e \in L \ M PROVE e \in Range(p.observed)
  OBVIOUS
<1>1. e.dev \in Device
  BY DEF LogOK, Event
<1>2. e.seq <= FrontierOf(L)[e.dev]
  BY <1>1, FrontierAt
<1> QED
  BY <1>2 DEF Behind

LEMMA WholeBehind ==
  ASSUME NEW p, NEW R, NEW L, NEW M, Whole(p.observed, R, L, M)
  PROVE  Behind(p, L \ M) /\ Ordered(p.observed, L) /\ Range(p.observed) \subseteq R
BY DEF Whole, Behind

LEMMA CanonicalWhole ==
  ASSUME NEW R, LogOK(R), NEW L, L \subseteq R
  PROVE  LET c == Canonical(L)
         IN  IsSeq(c) /\ InOrder(c) /\ Range(c) = L /\ \A M : Whole(c, R, L, M)
<1>1. IsFiniteSet(L) /\ L \subseteq Event
  BY FS_Subset DEF LogOK
<1>2. PICK c : c = Canonical(L)
  OBVIOUS
<1>3. /\ IsSeq(c) /\ InOrder(c)
      /\ \A i \in 1..Len(c) : c[i] \in L
      /\ \A e \in L : \E i \in 1..Len(c) : c[i] = e
  BY <1>1, <1>2, CanonicalOrder
<1>4. Range(c) = L
  <2>1. Range(c) \subseteq L
    BY <1>3, RangeOf
  <2>2. L \subseteq Range(c)
    BY <1>3, RangeOf
  <2> QED
    BY <2>1, <2>2
<1>5. Ordered(c, L)
  BY <1>1, <1>3, <1>4, InOrderOrdered
<1> QED
  BY <1>2, <1>3, <1>4, <1>5 DEF Whole

\* rebuild_cognition.
LEMMA RebuildWhole ==
  ASSUME NEW R, LogOK(R), NEW L, L \subseteq R, NEW M
  PROVE  Whole(Observe(NewState, Canonical(L)).observed, R, L, M)
<1>1. PICK c : c = Canonical(L)
  OBVIOUS
<1>2. Whole(c, R, L, M)
  BY <1>1, CanonicalWhole
<1>3. NewState.observed = <<>>
  BY DEF NewState
<1>4. <<>> \o c = c
  BY <1>2 DEF Whole, IsSeq
<1> QED
  BY <1>1, <1>2, <1>3, <1>4, NewStateFits, ObserveField

\* The batch is installed: what is observed and live precedes it.
LEMMA BatchWhole ==
  ASSUME NEW R, LogOK(R), NEW L, L \subseteq R, NEW M,
         NEW s, IsSeq(s), Ordered(s, L), Range(s) \subseteq R,
         NEW d, IsSeq(d), Range(d) \subseteq R, Range(d) \cap Range(s) = {},
         L \ M \subseteq Range(s) \cup Range(d), EndsWith(Canonical(L), d)
  PROVE  Whole(s \o d, R, L, M)
<1>1. PICK c : c = Canonical(L)
  OBVIOUS
<1>2. /\ IsSeq(c) /\ InOrder(c) /\ Range(c) = L
  BY <1>1, CanonicalWhole
<1>3. PICK m \in Nat, n \in Nat : m = Len(d) /\ n = Len(c)
  BY <1>2 DEF IsSeq
<1>4. m <= n /\ \A j \in 1..m : d[j] = c[(n - m) + j]
  <2>1. EndsWith(c, d)
    BY <1>1
  <2>2. Len(d) <= Len(c) /\ \A j \in 1..Len(d) : d[j] = c[(Len(c) - Len(d)) + j]
    BY <1>2, <2>1, SuffixAt
  <2> QED
    BY <1>3, <2>2
<1>5. Ordered(d, L)
  <2>1. InOrder(d)
    <3> SUFFICES ASSUME NEW i \in 1..m, NEW j \in 1..m, i < j PROVE Before(d[i], d[j])
      BY <1>3 DEF InOrder
    <3>1. (n - m) + i \in 1..n /\ (n - m) + j \in 1..n /\ (n - m) + i < (n - m) + j
      BY <1>4
    <3>2. Before(c[(n - m) + i], c[(n - m) + j])
      BY <1>2, <1>3, <3>1 DEF InOrder
    <3> QED
      BY <1>4, <3>2
  <2>2. Range(d) \subseteq Event
    BY DEF LogOK
  <2> QED
    BY <2>1, <2>2, InOrderOrdered
<1>6. ASSUME NEW x \in L \cap Range(s), NEW y \in Range(d) PROVE Before(x, y)
  <2>1. PICK j \in 1..m : d[j] = y
    BY <1>3, RangeOf
  <2>2. PICK i \in 1..n : c[i] = x
    BY <1>2, <1>3, RangeOf
  <2>3. i <= n - m
    <3> SUFFICES ASSUME ~(i <= n - m) PROVE FALSE
      OBVIOUS
    <3>1. i - (n - m) \in 1..m /\ (n - m) + (i - (n - m)) = i
      BY <1>4
    <3>2. d[i - (n - m)] = x
      BY <1>4, <2>2, <3>1
    <3>3. x \in Range(d)
      BY <1>3, <3>1, <3>2, RangeOf
    <3> QED
      BY <3>3
  <2>4. (n - m) + j \in 1..n /\ i < (n - m) + j
    BY <1>4, <2>3
  <2>5. Before(c[i], c[(n - m) + j])
    BY <1>2, <1>3, <2>4 DEF InOrder
  <2> QED
    BY <1>4, <2>1, <2>2, <2>5
<1>7. PICK u : u = s \o d
  OBVIOUS
<1>8. IsSeq(u) /\ Range(u) = Range(s) \cup Range(d)
  BY <1>7, RangeJoined
<1>9. Ordered(u, L)
  BY <1>5, <1>6, <1>7, OrderedJoined
<1> QED
  BY <1>7, <1>8, <1>9 DEF Whole

\* catch_up_cognition: the events up to the frontier of the projection are the first ones of the
\* log, so what was observed and is live is among them, and all others are replayed.
LEMMA CatchUpWhole ==
  ASSUME LogOK(rows), NEW p, IsState(p), Ordered(p.observed, Live), Range(p.observed) \subseteq rows,
         NEW M, Behind(p, Live \ M), CatchUpAccepts(p)
  PROVE  Whole(Observe(p, Missing(p)).observed, rows, Live, M)
<1>0. Live \subseteq rows
  BY DEF Live
<1>1. PICK c, s : c = Canonical(Live) /\ s = p.observed
  OBVIOUS
<1>2. IsSeq(s) /\ IsSeq(c) /\ InOrder(c) /\ Range(c) = Live
  BY <1>0, <1>1, CanonicalWhole DEF IsState
<1>3. PICK k \in Nat, n \in Nat : k = Len(s) /\ n = Len(c)
  BY <1>2 DEF IsSeq
<1>4. n = Cardinality(Live)
  BY <1>0, <1>1, <1>3, CanonicalSequence, FS_Subset DEF LogOK
<1>5. k <= n /\ \A i \in 1..n : (i <= k) <=> (c[i].seq <= Projected(p)[c[i].dev])
  BY <1>1, <1>3 DEF CatchUpAccepts
<1>6. \A x \in Range(s) : x.seq <= Projected(p)[x.dev]
  <2> SUFFICES ASSUME NEW x \in Range(s) PROVE x.seq <= FrontierOf(Range(s))[x.dev]
    BY <1>1 DEF Projected
  <2>1. Range(s) \subseteq rows /\ x.dev \in Device
    BY <1>1 DEF LogOK, Event
  <2> QED
    BY <2>1, FrontierAt
<1>7. \A i \in 1..n : c[i] \in Range(s) => i <= k
  BY <1>5, <1>6
<1>8. PICK t : t = Missing(p)
  OBVIOUS
<1>9. IsSeq(t) /\ Len(t) = n - k /\ \A i \in 1..(n - k) : t[i] = c[k + i]
  <2>1. t = SubSeq(c, k + 1, n)
    BY <1>1, <1>3, <1>4, <1>8 DEF Missing
  <2>2. IsFiniteSet(Live)
    BY <1>0, FS_Subset DEF LogOK
  <2>3. IsSeq(t)
    BY <1>1, <1>2, <1>8, <2>2, MissingSequence
  <2>4. c \in Seq(Range(c)) /\ Len(c) = n
    BY <1>2, <1>3 DEF IsSeq
  <2>5. Len(t) = n - k /\ \A i \in 1..(n - k) : t[i] = c[k + i]
    BY <1>5, <2>1, <2>4
  <2> QED
    BY <2>3, <2>5
<1>10. ASSUME NEW y \in Range(t) PROVE \E j \in 1..n : j > k /\ c[j] = y
  <2>1. PICK j \in 1..(n - k) : t[j] = y
    BY <1>9, RangeOf
  <2>2. k + j \in 1..n /\ k + j > k
    BY <1>5
  <2> QED
    BY <1>9, <2>1, <2>2
<1>11. Range(t) \subseteq Live
  BY <1>2, <1>3, <1>10, RangeOf
<1>12. Ordered(t, Live)
  <2>1. InOrder(t)
    <3> SUFFICES ASSUME NEW i \in 1..(n - k), NEW j \in 1..(n - k), i < j PROVE Before(t[i], t[j])
      BY <1>9 DEF InOrder
    <3>1. k + i \in 1..n /\ k + j \in 1..n /\ k + i < k + j
      BY <1>5
    <3> QED
      BY <1>2, <1>3, <1>9, <3>1 DEF InOrder
  <2>2. Range(t) \subseteq Event
    BY <1>0, <1>11 DEF LogOK
  <2> QED
    BY <1>9, <2>1, <2>2, InOrderOrdered
<1>13. Range(s) \cap Range(t) = {}
  <2> SUFFICES ASSUME NEW y \in Range(t), y \in Range(s) PROVE FALSE
    OBVIOUS
  <2>1. PICK j \in 1..n : j > k /\ c[j] = y
    BY <1>10
  <2> QED
    BY <1>7, <2>1
<1>14. ASSUME NEW x \in Live \cap Range(s), NEW y \in Range(t) PROVE Before(x, y)
  <2>1. PICK i \in 1..n : c[i] = x
    BY <1>2, <1>3, RangeOf
  <2>2. PICK j \in 1..n : j > k /\ c[j] = y
    BY <1>10
  <2>3. i < j
    BY <1>7, <2>1, <2>2
  <2> QED
    BY <1>2, <1>3, <2>1, <2>2, <2>3 DEF InOrder
<1>15. PICK u : u = s \o t
  OBVIOUS
<1>16. IsSeq(u) /\ Range(u) = Range(s) \cup Range(t)
  BY <1>2, <1>9, <1>15, RangeJoined
<1>17. Ordered(u, Live)
  BY <1>1, <1>2, <1>9, <1>12, <1>13, <1>14, <1>15, OrderedJoined
<1>18. Live \ M \subseteq Range(u)
  <2> SUFFICES ASSUME NEW x \in Live \ M PROVE x \in Range(s) \cup Range(t)
    BY <1>16
  <2>1. PICK i \in 1..n : c[i] = x
    BY <1>2, <1>3, RangeOf
  <2>2. CASE i <= k
    BY <1>1, <1>5, <2>1, <2>2 DEF Behind
  <2>3. CASE ~(i <= k)
    <3>1. i - k \in 1..(n - k) /\ k + (i - k) = i
      BY <1>5, <2>3
    <3>2. t[i - k] = x
      BY <1>9, <2>1, <3>1
    <3> QED
      BY <1>9, <3>1, <3>2, RangeOf
  <2> QED
    BY <2>2, <2>3
<1>19. Observe(p, Missing(p)).observed = u
  BY <1>1, <1>8, <1>15, ObserveField
<1> QED
  BY <1>0, <1>1, <1>11, <1>16, <1>17, <1>18, <1>19 DEF Whole

-----------------------------------------------------------------------------
(* The state.                                                              *)

\* The log of this device and the events of the others.
LogInv ==
  /\ LogOK(rows)
  /\ IsFiniteSet(abroad) /\ abroad \subseteq Event /\ \A e \in abroad : e.dev # Me

ProjOK(p, R, L, M) ==
  p # NoProjection => Range(p.observed) \subseteq R /\ Ordered(p.observed, L) /\ Behind(p, L \ M)

\* What a thread in the middle of job j knows of the log and of the projection p: a batch, that p
\* was current when it began and that only its own events were added; a rebuild, a catch-up or a
\* reflection, that its next projection is whole for the events it read; an update, that its next
\* projection has observed the same events.
JobOK(j, p, R, L, M) ==
  /\ j.op = "batch" => /\ Range(j.done) \subseteq R /\ Range(j.done) \cap Range(p.observed) = {}
                       /\ L \ M \subseteq Range(p.observed) \cup Range(j.done)
  /\ j.op \in {"rebuild", "catch_up", "reflect"} => Whole(j.next.observed, R, j.events, M)
  /\ j.op = "teach" => j.next.observed = p.observed

\* The inductive invariant of CurrentIsComplete.
CompleteInv ==
  /\ InstallInv
  /\ LogInv
  /\ ProjOK(proj, rows, Live, late)
  /\ \A t \in Thread : JobOK(task[t], proj, rows, Live, late)

LEMMA FreeJobOK ==
  ASSUME NEW j, j.op \notin Installing, NEW p, NEW R, NEW L, NEW M
  PROVE  JobOK(j, p, R, L, M)
BY DEF JobOK, Installing, Gated

\* Whoever does not hold the gate is not installing anything.
LEMMA OthersFree ==
  ASSUME InstallInv, NEW u \in Thread, gate # u
  PROVE  task[u].op \notin Gated /\ task[u].op \notin Installing
BY DEF InstallInv, JobFits, Installing

LEMMA ThreadNotFree == \A u \in Thread : u # NoThread
BY NoThreadAssumption

\* A new event that the projection is not past, or that is late.
LEMMA AppendLog ==
  ASSUME CompleteInv, NEW e \in Event, e \notin rows, e.dev = Me => e.seq = NextSeq(Me, rows),
         rows' = rows \cup {e}, gone' = gone, NEW M, late \subseteq M, Beyond(e, proj) \/ e \in M
  PROVE  /\ LogOK(rows')
         /\ Live \subseteq Live' /\ Live' \subseteq Live \cup {e}
         /\ ProjOK(proj, rows', Live', M)
<1>1. LogOK(rows')
  BY LogAppend DEF CompleteInv, LogInv
<1>2. Live \subseteq Live' /\ Live' \subseteq Live \cup {e}
  BY DEF Live
<1>3. ASSUME proj # NoProjection
      PROVE  Range(proj.observed) \subseteq rows' /\ Ordered(proj.observed, Live') /\ Behind(proj, Live' \ M)
  <2>1. /\ Range(proj.observed) \subseteq rows /\ Ordered(proj.observed, Live) /\ Behind(proj, Live \ late)
        /\ IsSeq(proj.observed)
    BY <1>3 DEF CompleteInv, ProjOK, InstallInv, IsState
  <2>2. Ordered(proj.observed, Live')
    BY <1>2, <2>1, OrderedKept
  <2>3. ASSUME NEW f \in Live' \ M, f.seq <= Projected(proj)[f.dev] PROVE f \in Range(proj.observed)
    <3>1. CASE f = e
      <4>1. e.seq \in Nat /\ Projected(proj)[e.dev] \in Nat
        <5>1. e.dev \in Device /\ LogOK(rows)
          BY DEF CompleteInv, LogInv, Event
        <5>2. FrontierOf(Range(proj.observed))[e.dev] \in Nat
          BY <2>1, <5>1, FrontierAt
        <5> QED
          BY <5>2 DEF Projected, Event
      <4>2. e.seq > Projected(proj)[e.dev]
        BY <1>3, <2>3, <3>1 DEF Beyond
      <4> QED
        BY <2>3, <3>1, <4>1, <4>2
    <3>2. CASE f # e
      BY <1>2, <2>1, <2>3, <3>2 DEF Behind
    <3> QED
      BY <3>1, <3>2
  <2> QED
    BY <2>1, <2>2, <2>3 DEF Behind
<1> QED
  BY <1>1, <1>2, <1>3 DEF ProjOK

\* An event of this device.
LEMMA OwnEvent ==
  ASSUME CompleteInv, NEW e \in NewEvents(Me, rows), MayAppend(e), Append1(e), gone' = gone,
         abroad' = abroad, late' = late
  PROVE  /\ e \in Event /\ e \notin rows /\ rows' = rows \cup {e}
         /\ LogInv'
         /\ Live \subseteq Live' /\ Live' \subseteq Live \cup {e}
         /\ ProjOK(proj, rows', Live', late')
<1>1. LogOK(rows)
  BY DEF CompleteInv, LogInv
<1>2. Cardinality(Of(rows, Me)) \in Nat
  BY <1>1, OfFinite DEF LogOK
<1>3. e \in Event /\ e.dev = Me /\ e.seq = NextSeq(Me, rows) /\ e.seq >= 1
  <2>1. NextSeq(Me, rows) \in Nat /\ NextSeq(Me, rows) >= 1
    BY <1>2 DEF NextSeq, Of
  <2> QED
    BY <2>1 DEF NewEvents, Event, Device
<1>4. rows' = rows \cup {e}
  BY DEF Append1
<1>5. e \notin rows /\ \A f \in rows : f.dev = Me => f.seq < e.seq
  BY <1>1, <1>3, LogAppend
<1>6. Beyond(e, proj)
  <2> SUFFICES ASSUME proj # NoProjection PROVE e.seq > FrontierOf(Range(proj.observed))[Me]
    BY <1>3 DEF Beyond, Projected
  <2>1. Range(proj.observed) \subseteq rows
    BY DEF CompleteInv, ProjOK
  <2>2. PICK n : n = FrontierOf(Range(proj.observed))[Me]
    OBVIOUS
  <2>3. Me \in Device
    BY DEF Device
  <2>4. n \in Nat /\ (n = 0 \/ \E f \in Range(proj.observed) : f.dev = Me /\ f.seq = n)
    BY <1>1, <2>1, <2>2, <2>3, FrontierAt
  <2>5. e.seq \in Nat
    BY <1>3 DEF Event
  <2> QED
    BY <1>3, <1>5, <2>1, <2>2, <2>4, <2>5
<1>7. /\ LogOK(rows')
      /\ Live \subseteq Live' /\ Live' \subseteq Live \cup {e}
      /\ ProjOK(proj, rows', Live', late')
  BY <1>3, <1>4, <1>5, <1>6, AppendLog
<1>8. LogInv'
  BY <1>7 DEF CompleteInv, LogInv
<1> QED
  BY <1>3, <1>4, <1>5, <1>7, <1>8

LEMMA CompleteCommit ==
  ASSUME CompleteInv, NEW t \in Thread, CommitInteraction(t)
  PROVE  LogInv' /\ ProjOK(proj', rows', Live', late') /\ \A u \in Thread : JobOK(task'[u], proj', rows', Live', late')
<1>1. PICK e \in NewEvents(Me, rows) : MayAppend(e) /\ Append1(e)
  BY DEF CommitInteraction
<1>2. /\ gate = NoThread /\ gone' = gone /\ abroad' = abroad /\ late' = late /\ proj' = proj
      /\ task' = task
  BY DEF CommitInteraction, GateFree
<1>3. LogInv' /\ ProjOK(proj, rows', Live', late')
  BY <1>1, <1>2, OwnEvent
<1>4. \A u \in Thread : JobOK(task'[u], proj', rows', Live', late')
  BY <1>2, OthersFree, ThreadNotFree, FreeJobOK DEF CompleteInv
<1> QED
  BY <1>2, <1>3, <1>4

LEMMA CompleteRedact ==
  ASSUME CompleteInv, NEW t \in Thread, NEW e, Redact(t, e)
  PROVE  LogInv' /\ ProjOK(proj', rows', Live', late') /\ \A u \in Thread : JobOK(task'[u], proj', rows', Live', late')
<1>1. /\ gate = NoThread /\ gone' = gone \cup {e} /\ rows' = rows /\ abroad' = abroad
      /\ late' = late /\ proj' = proj /\ task' = task
  BY DEF Redact, GateFree
<1>2. Live' \subseteq Live
  BY <1>1 DEF Live
<1>3. LogInv'
  BY <1>1 DEF CompleteInv, LogInv
<1>4. ProjOK(proj', rows', Live', late')
  <2> SUFFICES ASSUME proj # NoProjection
               PROVE  /\ Range(proj.observed) \subseteq rows /\ Ordered(proj.observed, Live')
                      /\ Behind(proj, Live' \ late)
    BY <1>1 DEF ProjOK
  <2>1. /\ Range(proj.observed) \subseteq rows /\ Ordered(proj.observed, Live) /\ Behind(proj, Live \ late)
        /\ IsSeq(proj.observed)
    BY DEF CompleteInv, ProjOK, InstallInv, IsState
  <2> QED
    BY <1>2, <2>1, OrderedKept DEF Behind
<1>5. \A u \in Thread : JobOK(task'[u], proj', rows', Live', late')
  BY <1>1, OthersFree, ThreadNotFree, FreeJobOK DEF CompleteInv
<1> QED
  BY <1>3, <1>4, <1>5

LEMMA CompleteImport ==
  ASSUME CompleteInv, NEW t \in Thread, ImportEvent(t)
  PROVE  LogInv' /\ ProjOK(proj', rows', Live', late') /\ \A u \in Thread : JobOK(task'[u], proj', rows', Live', late')
<1>1. PICK e \in abroad \ rows :
        rows' = rows \cup {e} /\ late' = IF Beyond(e, proj) THEN late ELSE late \cup {e}
  BY DEF ImportEvent
<1>2. task[t].op = "import" /\ gone' = gone /\ abroad' = abroad /\ proj' = proj /\ task' = task
  BY DEF ImportEvent, Doing
<1>3. gate = t
  BY <1>2 DEF CompleteInv, InstallInv, JobFits, Gated
<1>4. e.dev # Me /\ e \in Event
  BY DEF CompleteInv, LogInv
<1>5. late \subseteq late' /\ (Beyond(e, proj) \/ e \in late')
  BY <1>1
<1>6. LogOK(rows') /\ ProjOK(proj, rows', Live', late')
  BY <1>1, <1>2, <1>4, <1>5, AppendLog
<1>7. LogInv'
  BY <1>2, <1>6 DEF CompleteInv, LogInv
<1>8. \A u \in Thread : task[u].op \notin Installing
  <2>1. "import" \notin Installing
    BY DEF Installing
  <2> QED
    BY <1>2, <1>3, <2>1, OthersFree DEF CompleteInv
<1>9. \A u \in Thread : JobOK(task'[u], proj', rows', Live', late')
  BY <1>2, <1>8, FreeJobOK
<1> QED
  BY <1>2, <1>6, <1>7, <1>9

LEMMA CompletePeer ==
  ASSUME CompleteInv, NEW d \in Peer, PeerCommit(d)
  PROVE  LogInv' /\ ProjOK(proj', rows', Live', late') /\ \A u \in Thread : JobOK(task'[u], proj', rows', Live', late')
<1>1. PICK e \in NewEvents(d, abroad) : abroad' = abroad \cup {e}
  BY DEF PeerCommit
<1>2. rows' = rows /\ gone' = gone /\ late' = late /\ proj' = proj /\ task' = task /\ Live' = Live
  BY DEF PeerCommit, Live
<1>3. IsFiniteSet(abroad) /\ abroad \subseteq Event /\ \A f \in abroad : f.dev # Me
  BY DEF CompleteInv, LogInv
<1>4. e \in Event /\ e.dev # Me
  <2>1. NextSeq(d, abroad) \in Nat
    <3>1. Cardinality(Of(abroad, d)) \in Nat
      BY <1>3, OfFinite
    <3> QED
      BY <3>1 DEF NextSeq, Of
  <2> QED
    BY <2>1, DeviceAssumption DEF NewEvents, Event, Device
<1>5. LogInv'
  BY <1>1, <1>2, <1>3, <1>4, FS_AddElement DEF CompleteInv, LogInv
<1> QED
  BY <1>2, <1>5 DEF CompleteInv

-----------------------------------------------------------------------------
\* What is left to show of a step once InstallStep has given InstallInv'.
CompleteNext ==
  LogInv' /\ ProjOK(proj', rows', Live', late') /\ \A u \in Thread : JobOK(task'[u], proj', rows', Live', late')

\* Log and projection stay and one thread goes on with another job.
LEMMA CompleteQuiet ==
  ASSUME CompleteInv, UNCHANGED <<rows, gone, abroad, late, clock, proj>>, NEW t \in Thread, NEW j,
         task' = [task EXCEPT ![t] = j], JobOK(j, proj, rows, Live, late)
  PROVE  CompleteNext
<1>1. Live' = Live /\ LogInv' /\ ProjOK(proj', rows', Live', late')
  BY DEF Live, CompleteInv, LogInv
<1>2. task'[t] = j /\ \A u \in Thread : u # t => task'[u] = task[u]
  BY DEF CompleteInv, InstallInv
<1>3. \A u \in Thread : JobOK(task'[u], proj, rows, Live, late)
  BY <1>2 DEF CompleteInv
<1> QED
  BY <1>1, <1>3 DEF CompleteNext

LEMMA IdleJobOK ==
  ASSUME NEW p, NEW R, NEW L, NEW M
  PROVE  JobOK(Idle, p, R, L, M)
BY DEF JobOK, Idle

LEMMA CompleteFree ==
  ASSUME CompleteInv, NEW t \in Thread,
         ImportStart(t) \/ ImportEnd(t) \/ Abandon(t) \/ DiagnosticsState(t) \/ DiagnosticsEvents(t)
           \/ DiagnosticsReturn(t)
  PROVE  CompleteNext
<1>1. UNCHANGED <<rows, gone, abroad, late, clock, proj>>
  BY DEF ImportStart, ImportEnd, Abandon, DiagnosticsState, DiagnosticsEvents, DiagnosticsReturn, log
<1>2. PICK j : task' = [task EXCEPT ![t] = j] /\ j.op \in {"import", "idle", "diagnose", "answer"}
  <2>0. Idle.op = "idle"
    BY DEF Idle
  <2>1. CASE ImportStart(t)
    <3>1. PICK j : j = [op |-> "import"]
      OBVIOUS
    <3>2. j.op = "import" /\ task' = [task EXCEPT ![t] = j]
      BY <2>1, <3>1 DEF ImportStart, Enter
    <3> QED
      BY <3>2
  <2>2. CASE ImportEnd(t) \/ Abandon(t) \/ DiagnosticsReturn(t)
    BY <2>0, <2>2 DEF ImportEnd, Abandon, DiagnosticsReturn, Return
  <2>3. CASE DiagnosticsState(t)
    <3>1. PICK j : j = [op |-> "diagnose", state |-> proj, before |-> rows]
      OBVIOUS
    <3>2. j.op = "diagnose" /\ task' = [task EXCEPT ![t] = j]
      BY <2>3, <3>1 DEF DiagnosticsState, Enter
    <3> QED
      BY <3>2
  <2>4. CASE DiagnosticsEvents(t)
    <3>1. PICK b : b = task[t]
      OBVIOUS
    <3>2. b = [op |-> b.op, state |-> b.state, before |-> b.before]
      BY <2>4, <3>1 DEF DiagnosticsEvents, Doing, CompleteInv, InstallInv, JobFits
    <3>3. PICK j : /\ task' = [task EXCEPT ![t] = j]
                   /\ j = [b EXCEPT !.op = "answer"] \/ j = Idle
      BY <2>4, <3>1 DEF DiagnosticsEvents, Enter
    <3>4. j.op \in {"answer", "idle"}
      BY <2>0, <3>2, <3>3
    <3> QED
      BY <3>3, <3>4
  <2> QED
    BY <2>1, <2>2, <2>3, <2>4
<1>3. j.op \notin Installing
  BY <1>2 DEF Installing, Gated
<1> QED
  BY <1>1, <1>2, <1>3, FreeJobOK, CompleteQuiet

LEMMA CompleteInitialize ==
  ASSUME CompleteInv, NEW t \in Thread, InitializeCognition(t)
  PROVE  CompleteNext
<1>1. /\ Live = {} /\ proj' = NewState /\ gate = NoThread /\ task' = task
      /\ UNCHANGED <<rows, gone, abroad, late, clock>>
  BY DEF InitializeCognition, GateFree, log
<1>2. Live' = {} /\ LogInv'
  BY <1>1 DEF Live, CompleteInv, LogInv
<1>3. proj'.observed = <<>>
  BY <1>1 DEF NewState
<1>4. Range(<<>>) = {} /\ Ordered(<<>>, {})
  BY DEF Range, Ordered
<1>5. ProjOK(proj', rows', Live', late')
  BY <1>2, <1>3, <1>4 DEF ProjOK, Behind
<1>6. \A u \in Thread : JobOK(task'[u], proj', rows', Live', late')
  BY <1>1, OthersFree, ThreadNotFree, FreeJobOK DEF CompleteInv
<1> QED
  BY <1>2, <1>5, <1>6 DEF CompleteNext

\* A current projection is whole.
LEMMA CurrentNow ==
  ASSUME CompleteInv, IsCurrent(proj)
  PROVE  proj # NoProjection /\ IsState(proj) /\ Whole(proj.observed, rows, Live, late)
<1>1. proj # NoProjection /\ Projected(proj) = FrontierOf(Live)
  BY DEF IsCurrent
<1>2. /\ LogOK(rows) /\ Live \subseteq rows
      /\ Range(proj.observed) \subseteq rows /\ Ordered(proj.observed, Live)
      /\ Behind(proj, Live \ late) /\ IsState(proj)
  BY <1>1 DEF CompleteInv, LogInv, ProjOK, Live, InstallInv
<1>3. Live \ late \subseteq Range(proj.observed)
  BY <1>1, <1>2, CurrentWhole
<1> QED
  BY <1>1, <1>2, <1>3 DEF Whole, IsState

LEMMA CompleteBatchStart ==
  ASSUME CompleteInv, NEW t \in Thread, NEW n, BatchStart(t, n)
  PROVE  CompleteNext
<1>1. PICK j : j = [op |-> "batch", prev |-> proj, left |-> n, done |-> <<>>]
  OBVIOUS
<1>2. /\ task' = [task EXCEPT ![t] = j] /\ IsCurrent(proj)
      /\ UNCHANGED <<rows, gone, abroad, late, clock, proj>>
  BY <1>1 DEF BatchStart, Enter, log
<1>3. Whole(proj.observed, rows, Live, late)
  BY <1>2, CurrentNow
<1>4. j.op = "batch" /\ j.done = <<>>
  BY <1>1
<1>5. Range(j.done) = {}
  BY <1>4 DEF Range
<1>6. JobOK(j, proj, rows, Live, late)
  BY <1>3, <1>4, <1>5 DEF JobOK, Whole
<1> QED
  BY <1>2, <1>6, CompleteQuiet

LEMMA RangeAppend ==
  ASSUME NEW s, IsSeq(s), NEW e
  PROVE  Range(Append(s, e)) \subseteq Range(s) \cup {e} /\ Range(s) \cup {e} \subseteq Range(Append(s, e))
<1>1. PICK S : s \in Seq(S) /\ e \in S
  <2>1. s \in Seq(Range(s) \cup {e})
    BY DEF IsSeq
  <2> QED
    BY <2>1
<1>2. PICK u : u = Append(s, e)
  OBVIOUS
<1>3. PICK n \in Nat : n = Len(s)
  BY <1>1
<1>4. /\ DOMAIN s = 1..n /\ DOMAIN u = 1..(n + 1) /\ u[n + 1] = e
      /\ \A i \in 1..n : u[i] = s[i]
  BY <1>1, <1>2, <1>3
<1>5. \A i \in 1..(n + 1) : i \in 1..n \/ i = n + 1
  OBVIOUS
<1>6. \A i \in 1..n : i \in 1..(n + 1)
  OBVIOUS
<1>7. n + 1 \in 1..(n + 1)
  OBVIOUS
<1>8. Range(u) \subseteq Range(s) \cup {e}
  BY <1>4, <1>5 DEF Range
<1>9. Range(s) \cup {e} \subseteq Range(u)
  BY <1>4, <1>6, <1>7 DEF Range
<1> QED
  BY <1>2, <1>8, <1>9

LEMMA CompleteBatchCommit ==
  ASSUME CompleteInv, NEW t \in Thread, BatchCommit(t)
  PROVE  CompleteNext
<1>1. PICK b : b = task[t]
  OBVIOUS
<1>2. b.op = "batch" /\ JobFits(t, b, proj, gate) /\ JobOK(b, proj, rows, Live, late) /\ gate = t
  BY <1>1 DEF BatchCommit, Doing, CompleteInv, InstallInv, JobFits, Gated
<1>3. PICK e \in NewEvents(Me, rows) :
        /\ MayAppend(e) /\ Append1(e)
        /\ task' = [task EXCEPT ![t] = [b EXCEPT !.left = @ - 1, !.done = Append(@, e)]]
  BY <1>1 DEF BatchCommit, Enter
<1>4. gone' = gone /\ abroad' = abroad /\ late' = late /\ proj' = proj
  BY DEF BatchCommit
<1>5. /\ e \notin rows /\ rows' = rows \cup {e} /\ LogInv'
      /\ Live \subseteq Live' /\ Live' \subseteq Live \cup {e}
      /\ ProjOK(proj, rows', Live', late')
  BY <1>3, <1>4, OwnEvent
<1>6. PICK l, d : l = b.left - 1 /\ d = Append(b.done, e)
  OBVIOUS
<1>7. PICK j : j = [op |-> "batch", prev |-> b.prev, left |-> l, done |-> d]
  OBVIOUS
<1>8. [b EXCEPT !.left = @ - 1, !.done = Append(@, e)] = j
  <2>1. b = [op |-> "batch", prev |-> b.prev, left |-> b.left, done |-> b.done]
    BY <1>2 DEF JobFits
  <2>2. Advanced(b, l, d) = j
    BY <1>2, <1>7, <2>1, AdvancedBatch
  <2> QED
    BY <1>6, <2>2, Zenon DEF Advanced
<1>9. task'[t] = j /\ \A u \in Thread : u # t => task'[u] = task[u]
  BY <1>3, <1>8 DEF CompleteInv, InstallInv
<1>10. j.op = "batch" /\ j.done = d
  BY <1>7
<1>11. Range(d) \subseteq Range(b.done) \cup {e} /\ Range(b.done) \cup {e} \subseteq Range(d)
  <2>1. IsSeq(b.done)
    BY <1>2 DEF JobFits
  <2> QED
    BY <1>6, <2>1, RangeAppend
<1>12. Range(proj.observed) \subseteq rows
  BY <1>2 DEF CompleteInv, ProjOK, JobFits
<1>13. /\ Range(b.done) \subseteq rows /\ Range(b.done) \cap Range(proj.observed) = {}
       /\ Live \ late \subseteq Range(proj.observed) \cup Range(b.done)
  BY <1>2 DEF JobOK
<1>14. JobOK(j, proj, rows', Live', late')
  <2>1. Range(d) \subseteq rows' /\ Range(d) \cap Range(proj.observed) = {}
    BY <1>5, <1>11, <1>12, <1>13
  <2>3. Live' \ late' \subseteq Range(proj.observed) \cup Range(d)
    BY <1>4, <1>5, <1>11, <1>13
  <2> QED
    BY <1>10, <2>1, <2>3 DEF JobOK
<1>15. ASSUME NEW u \in Thread PROVE JobOK(task'[u], proj', rows', Live', late')
  <2>1. CASE u = t
    BY <1>4, <1>9, <1>14, <2>1
  <2>2. CASE u # t
    <3>1. task'[u].op \notin Installing
      BY <1>2, <1>9, <2>2, OthersFree DEF CompleteInv
    <3> QED
      BY <3>1, FreeJobOK
  <2> QED
    BY <2>1, <2>2
<1> QED
  BY <1>4, <1>5, <1>15 DEF CompleteNext

LEMMA CompletePrepare ==
  ASSUME CompleteInv, NEW t \in Thread,
         RebuildRead(t) \/ CatchUpRead(t) \/ ReflectRead(t) \/ TeachRead(t)
  PROVE  CompleteNext
<1>1. LogOK(rows) /\ Live \subseteq rows
  BY DEF CompleteInv, LogInv, Live
<1>2. PICK op, next : /\ Prepare(t, op, next)
                      /\ \/ op \in {"rebuild", "catch_up", "reflect"} /\ Whole(next.observed, rows, Live, late)
                         \/ op = "teach" /\ next.observed = proj.observed
  <2>1. CASE RebuildRead(t)
    BY <1>1, <2>1, RebuildWhole DEF RebuildRead
  <2>2. CASE CatchUpRead(t)
    <3>1. proj # NoProjection /\ CatchUpAccepts(proj)
      BY <2>2 DEF CatchUpRead, CatchUpAccepts
    <3>2. IsState(proj) /\ Ordered(proj.observed, Live) /\ Range(proj.observed) \subseteq rows /\ Behind(proj, Live \ late)
      BY <3>1 DEF CompleteInv, ProjOK, InstallInv
    <3>3. Whole(Observe(proj, Missing(proj)).observed, rows, Live, late)
      BY <1>1, <3>1, <3>2, CatchUpWhole
    <3> QED
      BY <2>2, <3>3 DEF CatchUpRead
  <2>3. CASE ReflectRead(t)
    <3>1. IsState(proj) /\ Whole(proj.observed, rows, Live, late)
      BY <2>3, CurrentNow DEF ReflectRead
    <3>2. Whole(Teach(proj).observed, rows, Live, late)
      BY <3>1, TeachField
    <3> QED
      BY <2>3, <3>2 DEF ReflectRead
  <2>4. CASE TeachRead(t)
    <3>1. IsState(proj)
      BY <2>4, CurrentNow DEF TeachRead
    <3>2. Teach(proj).observed = proj.observed
      BY <3>1, TeachField
    <3> QED
      BY <2>4, <3>2 DEF TeachRead
  <2> QED
    BY <2>1, <2>2, <2>3, <2>4
<1>3. PICK j : j = [op |-> op, prev |-> proj, events |-> Live, next |-> next]
  OBVIOUS
<1>4. /\ task' = [task EXCEPT ![t] = j] /\ UNCHANGED <<rows, gone, abroad, late, clock, proj>>
  BY <1>2, <1>3 DEF Prepare, Enter, log
<1>5. j.op = op /\ j.events = Live /\ j.next = next
  BY <1>3
<1>6. JobOK(j, proj, rows, Live, late)
  BY <1>2, <1>5 DEF JobOK
<1> QED
  BY <1>4, <1>6, CompleteQuiet

LEMMA CompleteInstall ==
  ASSUME CompleteInv, NEW t \in Thread, BatchInstall(t) \/ InstallIfUnchanged(t) \/ TeachPut(t)
  PROVE  CompleteNext
<1>1. PICK j : j = task[t]
  OBVIOUS
<1>2. Return(t) /\ j.op \in Installing /\ UNCHANGED <<rows, gone, abroad, late, clock>>
  BY <1>1 DEF BatchInstall, InstallIfUnchanged, TeachPut, Doing, Installing, Gated, log
<1>3. JobFits(t, j, proj, gate) /\ JobOK(j, proj, rows, Live, late) /\ gate = t
  BY <1>1, <1>2 DEF CompleteInv, InstallInv, JobFits, Installing
<1>4. Live' = Live /\ LogInv' /\ LogOK(rows) /\ Live \subseteq rows
  BY <1>2 DEF Live, CompleteInv, LogInv
<1>5. ASSUME NEW u \in Thread PROVE JobOK(task'[u], proj', rows', Live', late')
  <2>1. task'[t] = Idle /\ (u # t => task'[u] = task[u])
    BY <1>2 DEF Return, CompleteInv, InstallInv
  <2>2. CASE u = t
    BY <2>1, <2>2, IdleJobOK
  <2>3. CASE u # t
    <3>1. task'[u].op \notin Installing
      BY <1>3, <2>1, <2>3, OthersFree DEF CompleteInv
    <3> QED
      BY <3>1, FreeJobOK
  <2> QED
    BY <2>2, <2>3
<1>6. ProjOK(proj', rows', Live', late')
  <2>1. CASE proj' = proj
    BY <1>2, <1>4, <2>1 DEF CompleteInv
  <2>2. CASE BatchInstall(t) /\ proj' # proj
    <3>1. j.op = "batch"
      BY <1>1, <2>2 DEF BatchInstall, Doing
    <3>2. EndsWith(Canonical(Live), j.done) /\ proj' = Observe(proj, j.done)
      BY <1>1, <2>2 DEF BatchInstall
    <3>3. proj # NoProjection /\ IsSeq(j.done)
      BY <1>3, <3>1 DEF JobFits
    <3>4. IsState(proj) /\ Range(proj.observed) \subseteq rows /\ Ordered(proj.observed, Live)
      BY <3>3 DEF CompleteInv, InstallInv, ProjOK
    <3>5. /\ Range(j.done) \subseteq rows /\ Range(j.done) \cap Range(proj.observed) = {}
          /\ Live \ late \subseteq Range(proj.observed) \cup Range(j.done)
      BY <1>3, <3>1 DEF JobOK
    <3>6. PICK s, d : s = proj.observed /\ d = j.done
      OBVIOUS
    <3>7. Whole(s \o d, rows, Live, late)
      <4>1. IsSeq(s) /\ IsSeq(d)
        BY <3>3, <3>4, <3>6 DEF IsState
      <4> QED
        BY <1>4, <3>2, <3>4, <3>5, <3>6, <4>1, BatchWhole
    <3>8. Whole(proj'.observed, rows, Live, late)
      BY <3>2, <3>4, <3>6, <3>7, ObserveField
    <3> QED
      BY <1>2, <1>4, <3>8, WholeBehind DEF ProjOK
  <2>3. CASE InstallIfUnchanged(t) /\ proj' # proj
    <3>1. j.op \in {"rebuild", "catch_up", "reflect"} /\ Live = j.events /\ proj' = j.next
      BY <1>1, <2>3 DEF InstallIfUnchanged
    <3>2. Whole(proj'.observed, rows, Live, late)
      BY <1>3, <3>1 DEF JobOK
    <3> QED
      BY <1>2, <1>4, <3>2, WholeBehind DEF ProjOK
  <2>4. CASE TeachPut(t)
    <3>1. j.op = "teach" /\ proj' = j.next
      BY <1>1, <2>4 DEF TeachPut, Doing
    <3>2. proj'.observed = proj.observed /\ proj # NoProjection
      BY <1>3, <3>1 DEF JobOK, JobFits, Extending
    <3>3. Range(proj.observed) \subseteq rows /\ Ordered(proj.observed, Live) /\ Behind(proj, Live \ late)
      BY <3>2 DEF CompleteInv, ProjOK
    <3>4. Behind(proj', Live \ late)
      BY <3>2, <3>3 DEF Behind, Projected
    <3> QED
      BY <1>2, <1>4, <3>2, <3>3, <3>4 DEF ProjOK
  <2> QED
    BY <2>1, <2>2, <2>3, <2>4
<1> QED
  BY <1>4, <1>5, <1>6 DEF CompleteNext

LEMMA CompleteStep == CompleteInv /\ [Next]_vars => CompleteInv'
<1> SUFFICES ASSUME CompleteInv, [Next]_vars PROVE CompleteInv'
  OBVIOUS
<1>1. InstallInv'
  BY InstallStep DEF CompleteInv
<1>2. CASE UNCHANGED vars
  <2>1. UNCHANGED <<rows, gone, abroad, late, clock, proj, task>>
    BY <1>2 DEF vars
  <2>2. Live' = Live /\ LogInv'
    BY <2>1 DEF Live, CompleteInv, LogInv
  <2>3. ProjOK(proj', rows', Live', late') /\ \A u \in Thread : JobOK(task'[u], proj', rows', Live', late')
    BY <2>1, <2>2 DEF CompleteInv
  <2> QED
    BY <1>1, <2>2, <2>3 DEF CompleteInv
<1>3. CASE \E d \in Peer : PeerCommit(d)
  BY <1>1, <1>3, CompletePeer DEF CompleteInv
<1>4. ASSUME NEW t \in Thread, Step(t) PROVE CompleteNext
  <2>1. CASE CommitInteraction(t) \/ (\E e \in Live : Redact(t, e)) \/ ImportEvent(t)
    BY <2>1, CompleteCommit, CompleteRedact, CompleteImport DEF CompleteNext
  <2>2. CASE \E n \in 1..MaxBatch : BatchStart(t, n)
    BY <2>2, CompleteBatchStart
  <2> QED
    BY <1>4, <2>1, <2>2, CompleteFree, CompleteInitialize, CompleteBatchCommit, CompletePrepare,
       CompleteInstall DEF Step
<1>5. CASE Crash
  <2>1. UNCHANGED <<rows, gone, abroad, late, clock, proj>> /\ task' = [t \in Thread |-> Idle]
    BY <1>5 DEF Crash, log
  <2>2. Live' = Live /\ LogInv' /\ ProjOK(proj', rows', Live', late')
    BY <2>1 DEF Live, CompleteInv, LogInv
  <2>3. \A u \in Thread : JobOK(task'[u], proj', rows', Live', late')
    BY <2>1, IdleJobOK
  <2> QED
    BY <1>1, <2>2, <2>3 DEF CompleteInv
<1>6. CompleteNext => CompleteInv'
  BY <1>1 DEF CompleteNext, CompleteInv
<1> QED
  BY <1>2, <1>3, <1>4, <1>5, <1>6 DEF Next

LEMMA CompleteInit == Init => CompleteInv
<1> SUFFICES ASSUME Init PROVE CompleteInv
  OBVIOUS
<1>1. rows = {} /\ abroad = {} /\ proj = NoProjection /\ task = [t \in Thread |-> Idle]
  BY DEF Init
<1>2. LogOK({})
  BY FS_EmptySet DEF LogOK
<1>3. LogInv
  BY <1>1, <1>2, FS_EmptySet DEF LogInv
<1>4. \A t \in Thread : JobOK(task[t], proj, rows, Live, late)
  BY <1>1, IdleJobOK
<1> QED
  BY <1>1, <1>3, <1>4, InstallInit DEF CompleteInv, ProjOK

LEMMA CompleteGives == CompleteInv => CurrentMeansComplete
<1> SUFFICES ASSUME CompleteInv PROVE CurrentMeansComplete
  OBVIOUS
<1>1. IsCurrent(proj) => Live \ late \subseteq Range(proj.observed)
  BY CurrentNow DEF Whole
<1>2. proj # NoProjection => Ordered(proj.observed, Live)
  BY DEF CompleteInv, ProjOK
<1> QED
  BY <1>1, <1>2 DEF CurrentMeansComplete, Ordered

\* What frontier equality is worth: for any number of devices, threads and events, and for peers
\* whose events arrive in any order, a projection that is_current believes to be current has observed
\* every live event but those that were imported below the frontier it then had, and what it has
\* observed of the live events is in canonical order (heart.rs: commit_embedded_batch,
\* rebuild_cognition, catch_up_cognition, reflect, import_delta and redact behind projection_gate).
THEOREM CurrentIsComplete == Spec => []CurrentMeansComplete
BY CompleteInit, CompleteStep, CompleteGives, PTL DEF Spec

-----------------------------------------------------------------------------
(* Diagnostics.                                                            *)

\* Of a diagnosis that has read the projection: it was current, so what was in the log then and has
\* not been redacted since, and was not late, is among what it has observed, each event once.
Distinct(s) == \A i, k \in 1..Len(s) : i < k => s[i] # s[k]

DiagnosisOK(j, R, G, M) ==
  j.op = "diagnose" =>
    /\ IsSeq(j.state.observed) /\ Distinct(j.state.observed)
    /\ Range(j.state.observed) \subseteq R /\ (j.before \ G) \ M \subseteq Range(j.state.observed)

DiagnosisInv == \A t \in Thread : DiagnosisOK(task[t], rows, gone, late)

LEMMA LogGrows ==
  ASSUME [Next]_vars
  PROVE  rows \subseteq rows' /\ gone \subseteq gone' /\ late \subseteq late'
<1>1. CASE UNCHANGED vars
  BY <1>1 DEF vars
<1>2. CASE \E d \in Peer : PeerCommit(d)
  BY <1>2 DEF PeerCommit
<1>3. CASE Crash
  BY <1>3 DEF Crash, log
<1>4. ASSUME NEW t \in Thread, Step(t) PROVE rows \subseteq rows' /\ gone \subseteq gone' /\ late \subseteq late'
  <2>1. CASE CommitInteraction(t) \/ BatchCommit(t) \/ ImportEvent(t)
    BY <2>1 DEF CommitInteraction, BatchCommit, ImportEvent, Append1
  <2>2. CASE \E e \in Live : Redact(t, e)
    BY <2>2 DEF Redact
  <2>3. CASE \/ ImportStart(t) \/ ImportEnd(t) \/ InitializeCognition(t)
             \/ \E n \in 1..MaxBatch : BatchStart(t, n)
    BY <2>3 DEF ImportStart, ImportEnd, InitializeCognition, BatchStart, log
  <2>4. CASE \/ BatchInstall(t) \/ InstallIfUnchanged(t) \/ TeachPut(t) \/ Abandon(t)
             \/ DiagnosticsState(t) \/ DiagnosticsEvents(t) \/ DiagnosticsReturn(t)
    BY <2>4 DEF BatchInstall, InstallIfUnchanged, TeachPut, Abandon, DiagnosticsState,
       DiagnosticsEvents, DiagnosticsReturn, log
  <2>5. CASE RebuildRead(t) \/ CatchUpRead(t) \/ ReflectRead(t) \/ TeachRead(t)
    BY <2>5 DEF RebuildRead, CatchUpRead, ReflectRead, TeachRead, Prepare, log
  <2> QED
    BY <1>4, <2>1, <2>2, <2>3, <2>4, <2>5 DEF Step
<1> QED
  BY <1>1, <1>2, <1>3, <1>4 DEF Next

\* A step sets the job of one thread: nothing new is diagnosed or answered except by the two steps
\* of thymos_diagnostics.
LEMMA JobStep ==
  ASSUME CompleteInv, NEW t \in Thread, Step(t)
  PROVE  \E j : /\ task' = [task EXCEPT ![t] = j]
                /\ \/ j = task[t]
                   \/ j.op \notin {"diagnose", "answer"}
                   \/ DiagnosticsState(t) /\ j = [op |-> "diagnose", state |-> proj, before |-> rows]
                   \/ DiagnosticsEvents(t) /\ (CountsAgree(task[t].state) \/ j = Idle) /\ j.op # "diagnose"
<1>0. Idle.op = "idle" /\ task = [task EXCEPT ![t] = task[t]]
  BY DEF Idle, CompleteInv, InstallInv
<1>1. CASE task' = task
  BY <1>0, <1>1
<1>2. CASE /\ task' = [task EXCEPT ![t] = Idle]
  BY <1>0, <1>2
<1>3. CASE ImportStart(t)
  <2>1. PICK j : j = [op |-> "import"]
    OBVIOUS
  <2>2. j.op = "import" /\ task' = [task EXCEPT ![t] = j]
    BY <1>3, <2>1 DEF ImportStart, Enter
  <2> QED
    BY <2>2
<1>4. CASE \E n \in 1..MaxBatch : BatchStart(t, n)
  <2>1. PICK n \in 1..MaxBatch : BatchStart(t, n)
    BY <1>4
  <2>2. PICK j : j = [op |-> "batch", prev |-> proj, left |-> n, done |-> <<>>]
    OBVIOUS
  <2>3. j.op = "batch" /\ task' = [task EXCEPT ![t] = j]
    BY <2>1, <2>2 DEF BatchStart, Enter
  <2> QED
    BY <2>3
<1>5. CASE BatchCommit(t)
  <2>1. PICK b : b = task[t]
    OBVIOUS
  <2>2. b.op = "batch" /\ b = [op |-> b.op, prev |-> b.prev, left |-> b.left, done |-> b.done]
    BY <1>5, <2>1 DEF BatchCommit, Doing, CompleteInv, InstallInv, JobFits
  <2>3. PICK e : task' = [task EXCEPT ![t] = [b EXCEPT !.left = @ - 1, !.done = Append(@, e)]]
    BY <1>5, <2>1 DEF BatchCommit, Enter
  <2>4. PICK j : j = Advanced(b, b.left - 1, Append(b.done, e))
    OBVIOUS
  <2>5. [b EXCEPT !.left = @ - 1, !.done = Append(@, e)] = j
    BY <2>4 DEF Advanced
  <2>6. j.op = "batch"
    BY <2>2, <2>4, AdvancedBatch
  <2> QED
    BY <2>3, <2>5, <2>6
<1>6. ASSUME NEW op, op \in {"rebuild", "catch_up", "reflect", "teach"}, NEW n, Prepare(t, op, n)
      PROVE  \E j : task' = [task EXCEPT ![t] = j] /\ j.op \notin {"diagnose", "answer"}
  <2>1. PICK j : j = [op |-> op, prev |-> proj, events |-> Live, next |-> n]
    OBVIOUS
  <2>2. j.op = op /\ task' = [task EXCEPT ![t] = j]
    BY <1>6, <2>1 DEF Prepare, Enter
  <2> QED
    BY <1>6, <2>2
<1>7. CASE RebuildRead(t) \/ CatchUpRead(t) \/ ReflectRead(t) \/ TeachRead(t)
  BY <1>6, <1>7 DEF RebuildRead, CatchUpRead, ReflectRead, TeachRead
<1>8. CASE DiagnosticsState(t)
  <2>1. PICK j : j = [op |-> "diagnose", state |-> proj, before |-> rows]
    OBVIOUS
  <2>2. task' = [task EXCEPT ![t] = j]
    BY <1>8, <2>1 DEF DiagnosticsState, Enter
  <2> QED
    BY <1>8, <2>1, <2>2
<1>9. CASE DiagnosticsEvents(t)
  <2>1. PICK b : b = task[t]
    OBVIOUS
  <2>2. b = [op |-> b.op, state |-> b.state, before |-> b.before]
    BY <1>9, <2>1 DEF DiagnosticsEvents, Doing, CompleteInv, InstallInv, JobFits
  <2>3. PICK j : /\ task' = [task EXCEPT ![t] = j]
                 /\ j = IF CountsAgree(b.state) THEN [b EXCEPT !.op = "answer"] ELSE Idle
    BY <1>9, <2>1 DEF DiagnosticsEvents, Enter
  <2>4. j.op \in {"answer", "idle"}
    BY <1>0, <2>2, <2>3
  <2> QED
    BY <1>9, <2>1, <2>3, <2>4
<1>10. CASE \/ CommitInteraction(t) \/ (\E e \in Live : Redact(t, e)) \/ ImportEvent(t)
            \/ InitializeCognition(t)
  BY <1>1, <1>10 DEF CommitInteraction, Redact, ImportEvent, InitializeCognition
<1>11. CASE \/ ImportEnd(t) \/ BatchInstall(t) \/ InstallIfUnchanged(t) \/ TeachPut(t) \/ Abandon(t)
            \/ DiagnosticsReturn(t)
  BY <1>2, <1>11 DEF ImportEnd, BatchInstall, InstallIfUnchanged, TeachPut, Abandon,
     DiagnosticsReturn, Return
<1> QED
  BY <1>3, <1>4, <1>5, <1>7, <1>8, <1>9, <1>10, <1>11 DEF Step

LEMMA DiagnosisGrows ==
  ASSUME NEW j, NEW R, NEW G, NEW M, NEW S, NEW H, NEW N, DiagnosisOK(j, R, G, M),
         R \subseteq S, G \subseteq H, M \subseteq N
  PROVE  DiagnosisOK(j, S, H, N)
BY DEF DiagnosisOK

LEMMA DiagnosisStep == CompleteInv /\ DiagnosisInv /\ [Next]_vars => DiagnosisInv'
<1> SUFFICES ASSUME CompleteInv, DiagnosisInv, [Next]_vars, NEW u \in Thread
             PROVE  DiagnosisOK(task'[u], rows', gone', late')
  BY DEF DiagnosisInv
<1>1. rows \subseteq rows' /\ gone \subseteq gone' /\ late \subseteq late'
  BY LogGrows
<1>2. DiagnosisOK(task[u], rows', gone', late')
  BY <1>1, DiagnosisGrows DEF DiagnosisInv
<1>3. \A j : j.op # "diagnose" => DiagnosisOK(j, rows', gone', late')
  BY DEF DiagnosisOK
<1>4. CASE task' = task
  BY <1>2, <1>4
<1>5. CASE Crash
  <2>1. task'[u] = Idle /\ Idle.op = "idle"
    BY <1>5 DEF Crash, Idle
  <2> QED
    BY <1>3, <2>1
<1>6. ASSUME NEW t \in Thread, Step(t) PROVE DiagnosisOK(task'[u], rows', gone', late')
  <2>1. PICK j : /\ task' = [task EXCEPT ![t] = j]
                 /\ \/ j = task[t]
                    \/ j.op \notin {"diagnose", "answer"}
                    \/ DiagnosticsState(t) /\ j = [op |-> "diagnose", state |-> proj, before |-> rows]
                    \/ DiagnosticsEvents(t) /\ (CountsAgree(task[t].state) \/ j = Idle) /\ j.op # "diagnose"
    BY <1>6, JobStep
  <2>2. task'[t] = j /\ (u # t => task'[u] = task[u])
    BY <2>1 DEF CompleteInv, InstallInv
  <2>3. ASSUME DiagnosticsState(t), j = [op |-> "diagnose", state |-> proj, before |-> rows]
        PROVE  DiagnosisOK(j, rows', gone', late')
    <3>1. IsCurrent(proj)
      BY <2>3 DEF DiagnosticsState
    <3>2. Whole(proj.observed, rows, Live, late)
      BY <3>1, CurrentNow
    <3>3. j.state = proj /\ j.before = rows
      BY <2>3
    <3>4. DiagnosisOK(j, rows, gone, late)
      BY <3>2, <3>3 DEF DiagnosisOK, Distinct, Whole, Ordered, Live
    <3> QED
      BY <1>1, <3>4, DiagnosisGrows
  <2> QED
    BY <1>2, <1>3, <2>1, <2>2, <2>3
<1>7. CASE \E d \in Peer : PeerCommit(d)
  BY <1>4, <1>7 DEF PeerCommit
<1> QED
  BY <1>4, <1>5, <1>6, <1>7 DEF Next, vars

\* A sequence without repetition has as many elements as its length.
LEMMA DistinctCount ==
  ASSUME NEW s, IsSeq(s), Distinct(s)
  PROVE  IsFiniteSet(Range(s)) /\ Cardinality(Range(s)) = Len(s)
<1>1. PICK n \in Nat : n = Len(s)
  BY DEF IsSeq
<1>2. s \in [1..n -> Range(s)] /\ Range(s) = {s[i] : i \in 1..n}
  BY <1>1 DEF IsSeq, Range
<1>3. \A i, j \in 1..n : s[i] = s[j] => i = j
  <2>1. \A i, j \in 1..n : i < j \/ j < i \/ i = j
    OBVIOUS
  <2> QED
    BY <1>1, <2>1 DEF Distinct
<1>4. s \in Bijection(1..n, Range(s))
  <2>1. s \in Injection(1..n, Range(s))
    BY <1>2, <1>3 DEF Injection, IsInjective
  <2>2. s \in Surjection(1..n, Range(s))
    BY <1>2 DEF Surjection
  <2> QED
    BY <2>1, <2>2 DEF Bijection
<1>5. \A b \in Int : IsFiniteSet(1..b) /\ Cardinality(1..b) = IF 1 > b THEN 0 ELSE b - 1 + 1
  BY FS_Interval
<1>6. IsFiniteSet(1..n) /\ Cardinality(1..n) = n
  BY <1>5
<1> QED
  BY <1>1, <1>4, <1>6, FS_Bijection DEF ExistsBijection

LEMMA DiagnosisAnswers ==
  CompleteInv /\ DiagnosisInv /\ [Next]_vars =>
    \A t \in Thread :
      /\ Doing(t, "diagnose") /\ task'[t].op = "answer"
      /\ rows = task[t].before /\ Live \cap late \subseteq Range(task[t].state.observed)
      => Range(task[t].state.observed) \cap gone = {}
<1> SUFFICES ASSUME CompleteInv, DiagnosisInv, [Next]_vars, NEW t \in Thread, task[t].op = "diagnose",
                    task'[t].op = "answer", rows = task[t].before,
                    Live \cap late \subseteq Range(task[t].state.observed)
             PROVE  Range(task[t].state.observed) \cap gone = {}
  BY DEF Doing
<1>0. Idle.op = "idle"
  BY DEF Idle
<1>1. task' # task /\ ~Crash /\ ~\E d \in Peer : PeerCommit(d)
  BY <1>0 DEF Crash, PeerCommit
<1>2. PICK u \in Thread : Step(u)
  BY <1>1 DEF Next, vars
<1>3. PICK j : /\ task' = [task EXCEPT ![u] = j]
               /\ \/ j = task[u]
                  \/ j.op \notin {"diagnose", "answer"}
                  \/ DiagnosticsState(u) /\ j = [op |-> "diagnose", state |-> proj, before |-> rows]
                  \/ DiagnosticsEvents(u) /\ (CountsAgree(task[u].state) \/ j = Idle) /\ j.op # "diagnose"
  BY <1>2, JobStep
<1>4. u = t /\ task'[t] = j
  BY <1>3 DEF CompleteInv, InstallInv
<1>5. CountsAgree(task[t].state)
  BY <1>0, <1>3, <1>4
<1>6. PICK s : s = task[t].state.observed
  OBVIOUS
<1>7. IsSeq(s) /\ Distinct(s) /\ Range(s) \subseteq rows /\ Live \subseteq Range(s)
  BY <1>6 DEF DiagnosisInv, DiagnosisOK, Live
<1>8. IsFiniteSet(Range(s)) /\ Cardinality(Range(s)) = Len(s)
  BY <1>7, DistinctCount
<1>9. Cardinality(Live) = Cardinality(Range(s))
  BY <1>5, <1>6, <1>8 DEF CountsAgree
<1>10. Live = Range(s)
  BY <1>7, <1>8, <1>9, FS_Subset
<1> QED
  BY <1>6, <1>10 DEF Live

LEMMA DiagnosisInit == Init => DiagnosisInv
<1> SUFFICES ASSUME Init, NEW t \in Thread PROVE DiagnosisOK(task[t], rows, gone, late)
  BY DEF DiagnosisInv
<1>1. task[t] = Idle /\ Idle.op = "idle"
  BY DEF Init, Idle
<1> QED
  BY <1>1 DEF DiagnosisOK

\* After a redaction thymos_diagnostics answers that the projection is stale until it is rebuilt: for
\* any number of threads, devices and events, and for peers whose events arrive in any order, no
\* answer rests on a redacted event unless an event that the projection has not observed was stored
\* between its two reads or imported below the frontier (heart.rs: thymos_diagnostics reads the log
\* after it gave the gate back, and compares the number of events).
THEOREM RedactionIsNoticed == Spec => DiagnosticsNoticeRedaction
<1>1. Init => CompleteInv /\ DiagnosisInv
  BY CompleteInit, DiagnosisInit
<1>2. CompleteInv /\ DiagnosisInv /\ [Next]_vars => (CompleteInv /\ DiagnosisInv)'
  BY CompleteStep, DiagnosisStep
<1> QED
  BY <1>1, <1>2, DiagnosisAnswers, PTL DEF Spec, DiagnosticsNoticeRedaction

=============================================================================
