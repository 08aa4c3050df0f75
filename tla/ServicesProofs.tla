--------------------------- MODULE ServicesProofs ---------------------------
(***************************************************************************)
(* Proofs about services a conversation rests on: the circuit breakers,    *)
(* the manager of host tasks, the blobs in files and the recovery of runs  *)
(* that were cut short.                                                    *)
(***************************************************************************)
EXTENDS CircuitBreaker, HostTasks, ColdBlobs, Recovery, NumberLemmas, FiniteSetTheorems, TLAPS

-----------------------------------------------------------------------------
(* Circuit breakers. *)
(* For every limit and every cooldown: the assertion before the model call *)
(* holds and every probe reports back.  The conjunction of the three       *)
(* invariants is inductive: CallModel sets a probe that is proper only     *)
(* because ModelAdmitted says the channel is available, and every other    *)
(* step leaves no probe because ProbesReported says there was none.        *)

Inv == TypeOK /\ ModelAdmitted /\ ProbesReported

\* A state record_success, record_failure, record_cancelled or allow may leave.
Proper(c, ch) == ch \in ChannelState /\ Sound(c, ch)

\* A fresh, reset or successful channel is proper and has no probe.
LEMMA ClosedProper ==
  ASSUME NEW c \in Channel
  PROVE  Proper(c, Closed) /\ ~Closed.probe
BY LimitAssumption DEF Proper, Closed, ChannelState, Sound

\* record_failure leaves a proper channel without a probe.
LEMMA FailedProper ==
  ASSUME NEW c \in Channel, NEW ch, Proper(c, ch)
  PROVE  Proper(c, Failed(c, ch)) /\ ~Failed(c, ch).probe
BY LimitAssumption, NeverAssumption DEF Proper, Failed, OneMore, ChannelState, Sound

\* allow, once it admits, leaves a proper channel.
LEMMA AdmittedProper ==
  ASSUME NEW c \in Channel, Proper(c, channel[c]), Available(c)
  PROVE  Proper(c, Admitted(c))
BY LimitAssumption, NeverAssumption
   DEF Proper, Admitted, Available, CooledDown, ChannelState, Sound

\* record_cancelled leaves a proper channel without a probe.
LEMMA CancelledProper ==
  ASSUME NEW c \in Channel, NEW ch, Proper(c, ch)
  PROVE  Proper(c, Cancelled(ch)) /\ ~Cancelled(ch).probe
BY NeverAssumption DEF Proper, Cancelled, ChannelState, Sound

\* Writing one proper channel keeps all of them proper.
LEMMA SetProper ==
  ASSUME NEW c \in Channel, NEW ch, Proper(c, ch), Set(c, ch),
         channel \in [Channel -> ChannelState], \A d \in Channel : Proper(d, channel[d])
  PROVE  /\ channel' \in [Channel -> ChannelState]
         /\ \A d \in Channel : Proper(d, channel'[d])
         /\ channel'[c] = ch
         /\ \A d \in Channel \ {c} : channel'[d] = channel[d]
BY DEF Set, Proper

\* A call that reports back, or none at all: no probe is left behind and only
\* the channel it used has changed.
LEMMA Reported ==
  ASSUME Inv, NEW c \in Channel, NEW ch, Proper(c, ch), ~ch.probe, Set(c, ch),
         at = "running" => c = "llm", at' \in Stage
  PROVE  /\ TypeOK' /\ ProbesReported'
         /\ c # "llm" => channel'["llm"] = channel["llm"]
<1>1. channel \in [Channel -> ChannelState] /\ \A d \in Channel : Proper(d, channel[d])
  BY DEF Inv, TypeOK, Proper
<1>2. /\ channel' \in [Channel -> ChannelState]
      /\ \A d \in Channel : Proper(d, channel'[d])
      /\ channel'[c] = ch
      /\ \A d \in Channel \ {c} : channel'[d] = channel[d]
  BY <1>1, SetProper
<1>3. TypeOK' BY <1>2 DEF TypeOK, Proper
<1>4. \A d \in Channel : ~channel'[d].probe
  BY <1>2 DEF Inv, ProbesReported
<1>5. ProbesReported' BY <1>4 DEF ProbesReported
<1>6. "llm" \in Channel BY DEF Channel
<1> QED BY <1>2, <1>3, <1>5, <1>6

\* A step that leaves the channels alone outside a model run.
LEMMA Skipped ==
  ASSUME Inv, UNCHANGED channel, at # "running", at' \in Stage
  PROVE  TypeOK' /\ ProbesReported' /\ channel'["llm"] = channel["llm"]
<1>1. TypeOK' BY DEF Inv, TypeOK
<1>2. ProbesReported' BY DEF Inv, ProbesReported
<1> QED BY <1>1, <1>2

\* A guarded call of memory or affect, made, failed or refused.
LEMMA GuardedStep ==
  ASSUME Inv, NEW c \in Channel \ {"llm"}, NEW from, NEW to \in Stage,
         from # "running", Guarded(c, from, to)
  PROVE  TypeOK' /\ ProbesReported' /\ channel'["llm"] = channel["llm"]
<1>1. at = from /\ at' = to BY DEF Guarded, Go
<1>2. Proper(c, channel[c]) BY DEF Inv, TypeOK, Proper
<1>3. CASE Available(c) /\ RecordSuccess(c)
  BY <1>1, <1>3, ClosedProper, Reported DEF RecordSuccess
<1>4. CASE Available(c) /\ Set(c, Failed(c, Admitted(c)))
  <2>1. Proper(c, Admitted(c)) BY <1>2, <1>4, AdmittedProper
  <2>2. Proper(c, Failed(c, Admitted(c))) /\ ~Failed(c, Admitted(c)).probe
    BY <2>1, FailedProper
  <2> QED BY <1>1, <1>4, <2>2, Reported
<1>5. CASE ~Available(c) /\ UNCHANGED channel
  BY <1>1, <1>5, Skipped
<1> QED BY <1>3, <1>4, <1>5 DEF Guarded

\* The model stays available as long as its channel is not touched and no
\* stage before the call is entered without having asked.
Early == {"embed", "context", "commit", "recall", "risk", "again", "consume", "model"}

LEMMA StillAdmitted ==
  ASSUME Inv, channel'["llm"] = channel["llm"], at' \in Early => at \in Early
  PROVE  ModelAdmitted'
BY DEF Inv, ModelAdmitted, Early, Available, CooledDown

\* The model answers, fails or is interrupted: its probe, if any, is over.
LEMMA ModelStep ==
  ASSUME Inv, \/ RecordSuccess("llm")
              \/ RecordFailure("llm")
              \/ Set("llm", Cancelled(channel["llm"])),
         at' \in Stage \ Early
  PROVE  Inv'
<1>1. "llm" \in Channel BY DEF Channel
<1>2. Proper("llm", channel["llm"]) BY <1>1 DEF Inv, TypeOK, Proper
<1>3. CASE RecordSuccess("llm")
  BY <1>1, <1>3, ClosedProper, Reported DEF RecordSuccess, Inv, ModelAdmitted, Early
<1>4. CASE RecordFailure("llm")
  BY <1>1, <1>2, <1>4, FailedProper, Reported DEF RecordFailure, Inv, ModelAdmitted, Early
<1>5. CASE Set("llm", Cancelled(channel["llm"]))
  BY <1>1, <1>2, <1>5, CancelledProper, Reported DEF Inv, ModelAdmitted, Early
<1> QED BY <1>3, <1>4, <1>5

\* Writing the memory channel before the model is called.
LEMMA MemoryStep ==
  ASSUME Inv, NEW ch, Proper("dcmdb", ch), ~ch.probe, Set("dcmdb", ch),
         at \in Early, at' \in Stage
  PROVE  Inv'
<1>1. "dcmdb" \in Channel /\ "dcmdb" # "llm" /\ at # "running" BY DEF Channel, Early
<1>2. TypeOK' /\ ProbesReported' /\ channel'["llm"] = channel["llm"] BY <1>1, Reported
<1> QED BY <1>2, StillAdmitted DEF Inv

\* One failure of the memory call, and a second while recovering from it.
LEMMA MemoryFails ==
  ASSUME Inv, Available("dcmdb")
  PROVE  LET once == Failed("dcmdb", Admitted("dcmdb"))
         IN  /\ Proper("dcmdb", once) /\ ~once.probe
             /\ Proper("dcmdb", Failed("dcmdb", once)) /\ ~Failed("dcmdb", once).probe
<1>1. "dcmdb" \in Channel BY DEF Channel
<1>2. Proper("dcmdb", channel["dcmdb"]) BY <1>1 DEF Inv, TypeOK, Proper
<1>3. Proper("dcmdb", Admitted("dcmdb")) BY <1>1, <1>2, AdmittedProper
<1> QED BY <1>1, <1>3, FailedProper

\* Init and Next keep Inv: one step per action.
LEMMA InvInductive == Inv /\ [Next]_vars => Inv'
<1> SUFFICES ASSUME Inv, [Next]_vars PROVE Inv'
  OBVIOUS
<1> USE DEF Go, Skip
<1>c. "dcmdb" \in Channel \ {"llm"} /\ "thymos" \in Channel \ {"llm"} /\ "llm" \in Channel
  BY DEF Channel
<1>s. ASSUME NEW from, NEW to \in Stage, Skip(from, to), from # "running",
             to \in Early => from \in Early
      PROVE  Inv'
  BY <1>s, Skipped, StillAdmitted DEF Inv
<1>g. ASSUME NEW c \in Channel \ {"llm"}, NEW from, NEW to \in Stage, Guarded(c, from, to),
             from # "running", to \in Early => from \in Early
      PROVE  Inv'
  <2>1. TypeOK' /\ ProbesReported' /\ channel'["llm"] = channel["llm"]
    BY <1>g, GuardedStep
  <2>2. at = from /\ at' = to BY <1>g DEF Guarded
  <2> QED BY <1>g, <2>1, <2>2, StillAdmitted DEF Inv
<1>1. CASE Accept
  <2>1. TypeOK' /\ ProbesReported' /\ channel'["llm"] = channel["llm"]
    BY <1>1, Skipped DEF Accept, Stage
  <2>2. Available("llm")' BY <1>1, <2>1 DEF Accept, Accepts, Available, CooledDown
  <2> QED BY <2>1, <2>2 DEF Inv, ModelAdmitted
<1>2. CASE Embed
  <2>1. CASE Skip("embed", "context") BY <1>s, <2>1 DEF Stage, Early
  <2>2. CASE Go("embed", "prompt") /\ RecordFailure("dcmdb")
    <3>1. Proper("dcmdb", channel["dcmdb"]) BY <1>c DEF Inv, TypeOK, Proper
    <3>2. Proper("dcmdb", Failed("dcmdb", channel["dcmdb"]))
          /\ ~Failed("dcmdb", channel["dcmdb"]).probe
      BY <1>c, <3>1, FailedProper
    <3> QED BY <2>2, <3>2, MemoryStep DEF RecordFailure, Early, Stage
  <2> QED BY <1>2, <2>1, <2>2 DEF Embed
<1>3. CASE Context BY <1>3, <1>c, <1>g DEF Context, Stage, Early
<1>4. CASE CommitUser
  <2>1. CASE Skip("commit", "prompt") BY <1>s, <2>1 DEF Stage, Early
  <2>2. CASE Go("commit", "recall") /\ RecordSuccess("dcmdb")
    BY <1>c, <2>2, ClosedProper, MemoryStep DEF RecordSuccess, Early, Stage
  <2>3. CASE /\ Available("dcmdb") /\ Go("commit", "prompt")
             /\ Set("dcmdb", Failed("dcmdb", Admitted("dcmdb")))
    BY <2>3, MemoryFails, MemoryStep DEF Early, Stage
  <2> QED BY <1>4, <2>1, <2>2, <2>3 DEF CommitUser
<1>5. CASE Recall BY <1>5, <1>c, <1>g DEF Recall, Stage, Early
<1>6. CASE Risk BY <1>6, <1>c, <1>g DEF Risk, Stage, Early
<1>7. CASE RecallAgain BY <1>7, <1>c, <1>g, <1>s DEF RecallAgain, Stage, Early
<1>8. CASE ConsumeCheckpoint
  <2> DEFINE once == Failed("dcmdb", Admitted("dcmdb"))
  <2>1. CASE Go("consume", "model") /\ RecordSuccess("dcmdb")
    BY <1>c, <2>1, ClosedProper, MemoryStep DEF RecordSuccess, Early, Stage
  <2>2. CASE /\ Available("dcmdb") /\ at = "consume" /\ at' \in {"model", "prompt"}
             /\ Set("dcmdb", Failed("dcmdb", once))
    BY <2>2, MemoryFails, MemoryStep DEF Early, Stage
  <2>3. CASE Available("dcmdb") /\ Go("consume", "prompt") /\ Set("dcmdb", once)
    BY <2>3, MemoryFails, MemoryStep DEF Early, Stage
  <2> QED BY <1>8, <2>1, <2>2, <2>3 DEF ConsumeCheckpoint
<1>9. CASE CallModel
  <2>1. Available("llm") /\ at' = "running" BY <1>9 DEF CallModel, Inv, ModelAdmitted
  <2>2. channel \in [Channel -> ChannelState] /\ \A d \in Channel : Proper(d, channel[d])
    BY DEF Inv, TypeOK, Proper
  <2>3. Proper("llm", Admitted("llm")) BY <1>c, <2>1, <2>2, AdmittedProper
  <2>4. /\ channel' \in [Channel -> ChannelState]
        /\ \A d \in Channel : Proper(d, channel'[d])
        /\ \A d \in Channel \ {"llm"} : channel'[d] = channel[d]
    BY <1>9, <1>c, <2>2, <2>3, SetProper DEF CallModel
  <2>5. TypeOK' BY <2>1, <2>4 DEF TypeOK, Proper, Stage
  <2>6. ProbesReported' BY <2>1, <2>4, <1>9 DEF ProbesReported, Inv, CallModel
  <2> QED BY <2>1, <2>5, <2>6 DEF Inv, ModelAdmitted
<1>10. CASE ModelAnswers BY <1>10, ModelStep DEF ModelAnswers, Stage, Early
<1>11. CASE ModelFails BY <1>11, ModelStep DEF ModelFails, Stage, Early
<1>12. CASE ModelInterrupted BY <1>12, ModelStep DEF ModelInterrupted, Stage, Early
<1>13. CASE Verify BY <1>13, <1>s, ModelStep DEF Verify, Stage, Early
<1>14. CASE UpdateRisk BY <1>14, <1>c, <1>g, <1>s DEF UpdateRisk, Stage, Early
<1>15. CASE Persist BY <1>15, <1>c, <1>g DEF Persist, Stage, Early
<1>16. CASE Compact BY <1>16, <1>c, <1>g, <1>s DEF Compact, Stage, Early
<1>17. CASE Maintain BY <1>17, <1>c, <1>g, <1>s DEF Maintain, Stage, Early
<1>18. CASE SaveCheckpoint BY <1>18, <1>c, <1>g, <1>s DEF SaveCheckpoint, Stage, Early
<1>19. CASE Reset
  <2>1. at = "prompt" /\ at' = "prompt" BY <1>19 DEF Reset
  <2>2. ASSUME NEW c \in Channel, RecordSuccess(c) PROVE TypeOK' /\ ProbesReported'
    BY <2>1, <2>2, ClosedProper, Reported DEF RecordSuccess, Stage
  <2>3. CASE channel' = [c \in Channel |-> Closed]
    <3>1. \A c \in Channel : Proper(c, channel'[c]) /\ ~channel'[c].probe
      BY <2>3, ClosedProper
    <3> QED BY <2>1, <2>3, <3>1 DEF Inv, TypeOK, ModelAdmitted, ProbesReported, Proper, Stage
  <2> QED BY <1>19, <2>1, <2>2, <2>3 DEF Reset, Inv, ModelAdmitted
<1>20. CASE Tick
  <2> DEFINE older(c) == IF channel[c].age = Never \/ channel[c].age >= Cooldown[c]
                         THEN channel[c].age ELSE channel[c].age + 1
  <2>1. at' = at BY <1>20 DEF Tick
  <2>2. \A c \in Channel : channel'[c] = [channel[c] EXCEPT !.age = older(c)]
    BY <1>20 DEF Tick
  <2>3. ASSUME NEW c \in Channel
        PROVE  /\ channel'[c] \in ChannelState
               /\ Sound(c, channel'[c])
               /\ channel'[c].probe = channel[c].probe
               /\ Available(c) => Available(c)'
    <3>1. channel[c] \in ChannelState /\ Sound(c, channel[c]) BY DEF Inv, TypeOK
    <3>2. Cooldown[c] \in Nat BY LimitAssumption
    <3>3. older(c) \in Nat \cup {Never} /\ (channel[c].age # Never => older(c) # Never)
          /\ (CooledDown(c) => older(c) = channel[c].age)
      BY <3>1, <3>2, NeverAssumption DEF ChannelState, CooledDown
    <3>4. /\ channel'[c] \in ChannelState
          /\ channel'[c].state = channel[c].state /\ channel'[c].failures = channel[c].failures
          /\ channel'[c].age = older(c) /\ channel'[c].probe = channel[c].probe
      BY <2>2, <3>1, <3>3 DEF ChannelState
    <3> QED BY <3>1, <3>3, <3>4 DEF Sound, Available, CooledDown
  <2>4. TypeOK'
    <3>1. channel' \in [Channel -> ChannelState] BY <1>20, <2>3 DEF Tick
    <3> QED BY <2>1, <2>3, <3>1 DEF Inv, TypeOK
  <2>5. ProbesReported' BY <2>1, <2>3 DEF Inv, ProbesReported
  <2>6. ModelAdmitted' BY <1>c, <2>1, <2>3 DEF Inv, ModelAdmitted
  <2> QED BY <2>4, <2>5, <2>6 DEF Inv
<1>21. CASE UNCHANGED vars
  BY <1>21 DEF vars, Inv, TypeOK, ModelAdmitted, ProbesReported, Available, CooledDown
<1> QED
  BY <1>1, <1>2, <1>3, <1>4, <1>5, <1>6, <1>7, <1>8, <1>9, <1>10, <1>11, <1>12, <1>13,
     <1>14, <1>15, <1>16, <1>17, <1>18, <1>19, <1>20, <1>21 DEF Next, Turn

LEMMA InvInit == Init => Inv
<1> SUFFICES ASSUME Init PROVE Inv OBVIOUS
<1>1. \A c \in Channel : Proper(c, channel[c]) /\ ~channel[c].probe
  BY ClosedProper DEF Init
<1> QED BY <1>1 DEF Init, Inv, TypeOK, ModelAdmitted, ProbesReported, Proper, Stage

\* Every channel is sound in every reachable state, whatever its limits.
THEOREM BreakerTyped == Spec => []TypeOK
<1>1. Inv => TypeOK BY DEF Inv
<1> QED BY <1>1, InvInit, InvInductive, PTL DEF Spec

\* The assert! before the model call of a turn and of a resume never fails,
\* for every limit and cooldown.
THEOREM ModelCallAdmitted == Spec => []ModelAdmitted
<1>1. Inv => ModelAdmitted BY DEF Inv
<1> QED BY <1>1, InvInit, InvInductive, PTL DEF Spec

\* Whatever each call returns, no probe outlives its turn.
THEOREM ProbesReportBack == Spec => []ProbesReported
<1>1. Inv => ProbesReported BY DEF Inv
<1> QED BY <1>1, InvInit, InvInductive, PTL DEF Spec

-----------------------------------------------------------------------------
(* Host tasks. *)
(* For any number of calls, limited or not: the caller, the record and the *)
(* process of a host task tell one story.  OneVerdict is not inductive: it *)
(* says nothing of a worker between the end of its command and `finish', or*)
(* of one that was told to abort and has not noticed.  OneStory says what  *)
(* call, worker, process and record may be at the same time.               *)

Status == {"none", "running", "cancelled", "completed", "failed"}
Outcome == {"none", "success", "failure"}
TaskRecord == [status : Status, result : Outcome, abort : BOOLEAN, cancellable : BOOLEAN]
WorkerState == {"none", "ready", "waiting", "success", "failure",
                "returned success", "returned failure", "aborted"}
CallState == {"none", "begun", "spawned", "waiting", "dropped",
              "told success", "told failure", "told cancelled"}

TasksTyped ==
  /\ issued \in 0..MaxTasks
  /\ rec \in [TaskId -> TaskRecord]
  /\ worker \in [TaskId -> WorkerState]
  /\ process \in [TaskId -> {"none", "alive", "dead"}]
  /\ call \in [TaskId -> CallState]
  /\ doomed \subseteq TaskId /\ early \subseteq TaskId

\* Nothing is known of a task that was not begun, and a worker runs once its
\* call has spawned it.
NotYet(t) ==
  /\ t > issued => call[t] = "none"
  /\ call[t] = "none" => rec[t].status = "none"
  /\ worker[t] = "none" <=> call[t] \in {"none", "begun"}

\* Only finish completes or fails a record, and the worker ends there; only a
\* cancelled task is told to abort, and its record stays cancelled unless its
\* worker is past the last await.
OneEnd(t) ==
  /\ rec[t].status = "completed" <=> worker[t] = "returned success"
  /\ rec[t].status = "failed" <=> worker[t] = "returned failure"
  /\ worker[t] = "aborted" => rec[t].status = "cancelled"
  /\ t \in doomed => rec[t].status \in {"cancelled", "completed", "failed"}

\* The child lives only while its worker waits for it, and a call returns what
\* its worker left.
Follows(t) ==
  /\ process[t] = "alive" => worker[t] = "waiting"
  /\ call[t] = "told success" => worker[t] = "returned success"
  /\ call[t] = "told failure" => worker[t] = "returned failure"
  /\ call[t] = "told cancelled" => worker[t] = "aborted"

Story(t) == NotYet(t) /\ OneEnd(t) /\ Follows(t)

OneStory == TasksTyped /\ \A t \in TaskId : Story(t)

-----------------------------------------------------------------------------

\* A manager that has begun nothing.
LEMMA StoryBegins == TasksInit => OneStory
BY TasksAssumption
   DEF TasksInit, OneStory, TasksTyped, Story, NotYet, OneEnd, Follows, NoRecord,
       TaskRecord, Status, Outcome, WorkerState, CallState, TaskId

\* A step of one task, seen from the others: what they are does not change.
LEMMA OthersStay ==
  ASSUME OneStory, NEW t \in TaskId, NEW u \in TaskId, u # t,
         rec'[u] = rec[u], worker'[u] = worker[u], process'[u] = process[u],
         call'[u] = call[u], doomed' = doomed,
         issued' = issued \/ (issued' = t /\ t = issued + 1)
  PROVE  Story(u)'
<1>1. NotYet(u)'
  BY TasksAssumption DEF OneStory, TasksTyped, Story, NotYet, TaskId
<1>2. OneEnd(u)'
  BY DEF OneStory, Story, OneEnd
<1>3. Follows(u)'
  BY DEF OneStory, Story, Follows
<1> QED BY <1>1, <1>2, <1>3 DEF Story

\* begin keeps the story: the task it starts was unknown.
LEMMA BeginKeeps ==
  ASSUME OneStory, NEW t \in TaskId, NEW c \in BOOLEAN, BeginTask(t, c)
  PROVE  OneStory'
<1> USE DEF BeginTask, SetRec, SetCall
<1>1. TasksTyped'
  <2>1. [status |-> "running", result |-> "none", abort |-> FALSE, cancellable |-> c]
          \in TaskRecord
    BY DEF TaskRecord, Status, Outcome
  <2>2. issued' \in 0..MaxTasks
    BY TasksAssumption DEF TaskId
  <2> QED BY <2>1, <2>2 DEF OneStory, TasksTyped, CallState
<1>2. Story(t)'
  <2>1. call[t] = "none"
    BY TasksAssumption DEF OneStory, TasksTyped, Story, NotYet, TaskId
  <2>2. worker[t] = "none" /\ rec[t].status = "none"
    BY <2>1 DEF OneStory, Story, NotYet
  <2>3. process[t] # "alive" /\ t \notin doomed
    BY <2>2 DEF OneStory, Story, OneEnd, Follows
  <2>4. rec'[t].status = "running" /\ call'[t] = "begun" /\ issued' = t
    BY DEF OneStory, TasksTyped
  <2>5. ~(t > issued')
    BY <2>4, TasksAssumption DEF TaskId
  <2>6. NotYet(t)'
    BY <2>2, <2>4, <2>5 DEF NotYet
  <2>7. OneEnd(t)' /\ Follows(t)'
    BY <2>2, <2>3, <2>4 DEF OneEnd, Follows
  <2> QED BY <2>6, <2>7 DEF Story
<1>3. ASSUME NEW u \in TaskId, u # t  PROVE  Story(u)'
  BY <1>3, OthersStay DEF OneStory, TasksTyped
<1> QED BY <1>1, <1>2, <1>3 DEF OneStory

\* cancel keeps the story: it takes running tasks only, whose workers have not
\* finished, and dooms those it marks as cancelled.
LEMMA CancelKeeps ==
  ASSUME OneStory, NEW which \in SUBSET TaskId, CancelThese(Matching(which))
  PROVE  OneStory'
<1> DEFINE S == Matching(which)
<1>1. S \subseteq TaskId /\ Abortable(S) \subseteq S
  BY DEF Matching, Abortable
<1>2. \A t \in S : rec[t].status = "running"
  BY DEF Matching
<1>3. /\ rec' = [t \in TaskId |-> IF t \in S THEN CancelledRecord(rec[t]) ELSE rec[t]]
      /\ doomed' = doomed \cup Abortable(S)
      /\ early' = early \cup {t \in S : ~rec[t].abort}
      /\ UNCHANGED <<issued, worker, process, call>>
  BY DEF CancelThese
<1> HIDE DEF S
<1>4. \A r \in TaskRecord : CancelledRecord(r) \in TaskRecord /\ CancelledRecord(r).status = "cancelled"
  BY DEF TaskRecord, CancelledRecord, Status, Outcome
<1>5. TasksTyped'
  BY <1>1, <1>3, <1>4 DEF OneStory, TasksTyped
<1>6. ASSUME NEW t \in TaskId  PROVE  Story(t)'
  <2>1. CASE t \in S
    <3>1. rec'[t].status = "cancelled" /\ rec[t].status = "running"
      BY <1>2, <1>3, <1>4, <2>1 DEF OneStory, TasksTyped
    <3>2. NotYet(t)'
      BY <1>3, <3>1 DEF OneStory, Story, NotYet
    <3>3. OneEnd(t)' /\ Follows(t)'
      BY <1>3, <3>1 DEF OneStory, Story, OneEnd, Follows
    <3> QED BY <3>2, <3>3 DEF Story
  <2>2. CASE t \notin S
    <3>1. rec'[t] = rec[t] /\ (t \in doomed' => t \in doomed)
      BY <1>1, <1>3, <2>2
    <3>2. NotYet(t)'
      BY <1>3, <3>1 DEF OneStory, Story, NotYet
    <3>3. OneEnd(t)' /\ Follows(t)'
      BY <1>3, <3>1 DEF OneStory, Story, OneEnd, Follows
    <3> QED BY <3>2, <3>3 DEF Story
  <2> QED BY <2>1, <2>2
<1> QED BY <1>5, <1>6 DEF OneStory

\* The steps a task takes by itself, the end of its process and the loss of its
\* caller keep the story.
LEMMA RunKeeps ==
  ASSUME OneStory, NEW t \in TaskId, TaskRuns(t) \/ EndProcess(t) \/ DropCall(t)
  PROVE  OneStory'
<1> USE DEF SetRec, SetWorker, SetCall
<1>1. CASE SpawnWorker(t)
  <2>1. TasksTyped'
    BY <1>1 DEF SpawnWorker, OneStory, TasksTyped, WorkerState, CallState
  <2>2. Story(t)'
    BY <1>1 DEF SpawnWorker, OneStory, TasksTyped, Story, NotYet, OneEnd, Follows, TaskId
  <2>3. ASSUME NEW u \in TaskId, u # t  PROVE  Story(u)'
    BY <1>1, <2>3, OthersStay DEF SpawnWorker, OneStory, TasksTyped
  <2> QED BY <2>1, <2>2, <2>3 DEF OneStory
<1>2. CASE Attach(t)
  <2>1. TasksTyped'
    BY <1>2 DEF Attach, OneStory, TasksTyped, TaskRecord, CallState
  <2>2. Story(t)'
    BY <1>2 DEF Attach, OneStory, TasksTyped, TaskRecord, Story, NotYet, OneEnd, Follows, TaskId
  <2>3. ASSUME NEW u \in TaskId, u # t  PROVE  Story(u)'
    BY <1>2, <2>3, OthersStay DEF Attach, OneStory, TasksTyped
  <2> QED BY <2>1, <2>2, <2>3 DEF OneStory
<1>3. CASE StartProcess(t)
  <2>1. TasksTyped'
    BY <1>3 DEF StartProcess, OneStory, TasksTyped, WorkerState
  <2>2. Story(t)'
    BY <1>3 DEF StartProcess, OneStory, TasksTyped, Story, NotYet, OneEnd, Follows, TaskId
  <2>3. ASSUME NEW u \in TaskId, u # t  PROVE  Story(u)'
    BY <1>3, <2>3, OthersStay DEF StartProcess, OneStory, TasksTyped
  <2> QED BY <2>1, <2>2, <2>3 DEF OneStory
<1>4. CASE FinishWorker(t)
  <2>1. TasksTyped'
    <3>1. Finished(rec[t], worker[t] = "success") \in TaskRecord
      BY DEF Finished, OneStory, TasksTyped, TaskRecord, Status, Outcome
    <3> QED BY <1>4, <3>1 DEF FinishWorker, OneStory, TasksTyped, WorkerState
  <2>2. Story(t)'
    BY <1>4 DEF FinishWorker, Finished, OneStory, TasksTyped, TaskRecord, Story, NotYet,
                OneEnd, Follows, TaskId
  <2>3. ASSUME NEW u \in TaskId, u # t  PROVE  Story(u)'
    BY <1>4, <2>3, OthersStay DEF FinishWorker, OneStory, TasksTyped
  <2> QED BY <2>1, <2>2, <2>3 DEF OneStory
<1>5. CASE AbortWorker(t)
  <2>1. TasksTyped'
    BY <1>5 DEF AbortWorker, OneStory, TasksTyped, WorkerState
  <2>2. Story(t)'
    BY <1>5 DEF AbortWorker, OneStory, TasksTyped, Story, NotYet, OneEnd, Follows, TaskId
  <2>3. ASSUME NEW u \in TaskId, u # t  PROVE  Story(u)'
    BY <1>5, <2>3, OthersStay DEF AbortWorker, OneStory, TasksTyped
  <2> QED BY <2>1, <2>2, <2>3 DEF OneStory
<1>6. CASE ReturnCall(t) \/ DropCall(t)
  <2>1. TasksTyped'
    BY <1>6 DEF ReturnCall, DropCall, OneStory, TasksTyped, CallState
  <2>2. Story(t)'
    BY <1>6 DEF ReturnCall, DropCall, OneStory, TasksTyped, Story, NotYet, OneEnd, Follows, TaskId
  <2>3. ASSUME NEW u \in TaskId, u # t  PROVE  Story(u)'
    BY <1>6, <2>3, OthersStay DEF ReturnCall, DropCall, OneStory, TasksTyped
  <2> QED BY <2>1, <2>2, <2>3 DEF OneStory
<1>7. CASE EndProcess(t)
  <2>1. TasksTyped'
    BY <1>7 DEF EndProcess, OneStory, TasksTyped, WorkerState
  <2>2. Story(t)'
    BY <1>7 DEF EndProcess, OneStory, TasksTyped, Story, NotYet, OneEnd, Follows, TaskId
  <2>3. ASSUME NEW u \in TaskId, u # t  PROVE  Story(u)'
    BY <1>7, <2>3, OthersStay DEF EndProcess, OneStory, TasksTyped
  <2> QED BY <2>1, <2>2, <2>3 DEF OneStory
<1> QED BY <1>1, <1>2, <1>3, <1>4, <1>5, <1>6, <1>7 DEF TaskRuns

-----------------------------------------------------------------------------

\* Call, worker, process and record of every task agree in every reachable state
\* (RunningTaskManager, ShellTool and the ingestion tool of partner_tools.rs).
LEMMA StoryHolds == TasksSpec => []OneStory
<1>1. OneStory /\ [TasksNext]_taskVars => OneStory'
  <2> SUFFICES ASSUME OneStory, [TasksNext]_taskVars  PROVE  OneStory'
    OBVIOUS
  <2>1. CASE TasksNext
    <3>1. ASSUME CancelTask  PROVE  OneStory'
      <4>1. PICK which \in SUBSET TaskId : CancelThese(Matching(which))
        BY <3>1 DEF CancelTask
      <4> QED BY <4>1, CancelKeeps
    <3> QED BY <2>1, <3>1, BeginKeeps, RunKeeps DEF TasksNext
  <2>2. CASE UNCHANGED taskVars
    BY <2>2 DEF taskVars, OneStory, TasksTyped, Story, NotYet, OneEnd, Follows
  <2> QED BY <2>1, <2>2
<1> QED BY StoryBegins, <1>1, PTL DEF TasksSpec

\* What execute returned is what the record shows for good, and a task shown as
\* over has no process left, however a cancellation, an interrupted caller and
\* the end of the command interleave.
THEOREM VerdictIsOne == TasksSpec => []OneVerdict
<1>1. OneStory => OneVerdict
  BY DEF OneStory, Story, OneEnd, Follows, OneVerdict
<1> QED BY <1>1, StoryHolds, PTL

-----------------------------------------------------------------------------
(* Blobs. *)
(* For any number of threads, any blobs and any crash.  BlobsSound is not  *)
(* inductive: that the file is there when the key is stored rests on the   *)
(* stage of the put, and that nothing comes back after a redaction on the  *)
(* tombstone, which no put passes, and on there being no put that passed   *)
(* before it when the key was deleted.                                     *)

Job == [op : Putting \cup {"shred", "remove"}, blob : Blob, key : Nat]

BlobsTyped ==
  /\ row = [b \in Blob |-> row[b]]
  /\ key \in [Blob -> Nat] /\ file \in [Blob -> Nat]
  /\ tombs \subseteq Blob
  /\ task \in [Thread -> {Idle} \cup Job]
  /\ seals \in Nat
  /\ returned = [put |-> returned.put, redact |-> returned.redact]

\* What the store must be for a thread with job j.
JobSound(j) ==
  /\ j.op \in {"exists", "rename", "commit"} => j.key # 0
  /\ j.op = "commit" /\ j.blob \in Large /\ j.blob \notin raced => file[j.blob] # 0
  /\ j.op \in {"shred", "remove"} => j.blob \in tombs
  /\ j.op = "remove" /\ j.blob \notin raced => key[j.blob] = 0 /\ ~Underway(j.blob)

\* What redact returned for stays away: no put of it is under way, and the
\* tombstone lets none begin.
Settled ==
  /\ returned.redact \subseteq tombs
  /\ \A b \in returned.redact : b \notin raced /\ ~Underway(b)

\* The inductive invariant of BlobsStaySound.
BlobsInv ==
  /\ BlobsTyped /\ BlobsSound /\ Settled
  /\ \A t \in Thread : JobSound(task[t])

LEMMA IdleSound == JobSound(Idle) /\ JobSound(Idle)' /\ Idle.op \notin Putting
BY DEF JobSound, Idle, Putting

\* What a step may do to the jobs of the others: no tombstone goes, no put of a
\* redacted blob begins, no file is taken from a put that is not marked, and a
\* redacted blob that is not marked gets no key unless a put of it is under way.
Respects ==
  /\ tombs \subseteq tombs'
  /\ \A b \in tombs : Underway(b)' => Underway(b)
  /\ \A b \in Blob : Underway(b) /\ b \notin raced' =>
       b \notin raced /\ (file[b] # 0 => file'[b] # 0)
  /\ \A b \in tombs : b \notin raced' /\ ~Underway(b) =>
       key'[b] = 0 \/ (b \notin raced /\ key'[b] = key[b])

LEMMA OtherJob ==
  ASSUME NEW u \in Thread, BlobsInv, Respects, task'[u] = task[u]
  PROVE  JobSound(task[u])'
<1>1. PICK j : j = task[u]
  OBVIOUS
<1>2. j \in {Idle} \cup Job /\ JobSound(j) /\ task'[u] = j
  BY <1>1 DEF BlobsInv, BlobsTyped
<1>3. j.op # "idle" => j.blob \in Blob
  BY <1>2 DEF Idle, Job
<1>4. j.op \in Putting => Underway(j.blob)
  BY <1>1 DEF Underway
<1>5. j.op = "commit" /\ j.blob \in Large /\ j.blob \notin raced' => file'[j.blob] # 0
  BY <1>2, <1>3, <1>4 DEF JobSound, Respects, Putting
<1>6. j.op \in {"shred", "remove"} => j.blob \in tombs /\ j.blob \in tombs'
  BY <1>2 DEF JobSound, Respects
<1>7. ASSUME j.op = "remove", j.blob \notin raced'
      PROVE  key'[j.blob] = 0 /\ ~Underway(j.blob)'
  <2>1. ASSUME Underway(j.blob)
        PROVE  FALSE
    BY <1>2, <1>3, <1>7, <2>1 DEF JobSound, Respects
  <2>2. j.blob \in tombs
    BY <1>6, <1>7
  <2> QED
    BY <1>2, <1>7, <2>1, <2>2 DEF JobSound, Respects
<1>8. j.op \in {"exists", "rename", "commit"} => j.key # 0
  BY <1>2 DEF JobSound
<1>9. JobSound(j)'
  BY <1>5, <1>6, <1>7, <1>8 DEF JobSound
<1> QED
  BY <1>2, <1>9 DEF JobSound

\* A thread goes on with another job, which it may not have begun to put a
\* redacted blob with.
LEMMA Puts ==
  ASSUME NEW t \in Thread, BlobsTyped, NEW j \in {Idle} \cup Job,
         task' = [task EXCEPT ![t] = j], NEW b
  PROVE  Underway(b)' <=> \/ j.op \in Putting /\ j.blob = b
                          \/ \E u \in Thread \ {t} : task[u].op \in Putting /\ task[u].blob = b
<1>1. task'[t] = j /\ \A u \in Thread \ {t} : task'[u] = task[u]
  BY DEF BlobsTyped
<1> QED
  BY <1>1 DEF Underway

LEMMA JobTaken ==
  ASSUME NEW t \in Thread, BlobsInv, Respects, NEW j \in {Idle} \cup Job,
         task' = [task EXCEPT ![t] = j], JobSound(j)'
  PROVE  task' \in [Thread -> {Idle} \cup Job] /\ \A u \in Thread : JobSound(task[u])'
<1>1. /\ task' \in [Thread -> {Idle} \cup Job] /\ task'[t] = j
      /\ \A u \in Thread \ {t} : task'[u] = task[u]
  BY DEF BlobsInv, BlobsTyped
<1>2. JobSound(task[t])'
  BY <1>1 DEF JobSound
<1> QED
  BY <1>1, <1>2, OtherJob

LEMMA Jobs ==
  ASSUME NEW t \in Thread, BlobsInv
  PROVE  /\ task[t].op # "idle" => task[t].blob \in Blob /\ task[t].key \in Nat
         /\ JobSound(task[t])
BY DEF BlobsInv, BlobsTyped, Idle, Job

LEMMA MakeJob ==
  ASSUME NEW op \in Putting \cup {"shred", "remove"}, NEW b \in Blob, NEW k \in Nat
  PROVE  [op |-> op, blob |-> b, key |-> k] \in Job
BY DEF Job

\* A job that does not put the blob the thread was not putting already.
LEMMA NoneBegins ==
  ASSUME NEW t \in Thread, BlobsTyped, NEW j \in {Idle} \cup Job,
         task' = [task EXCEPT ![t] = j],
         j.op \in Putting => task[t].op \in Putting /\ task[t].blob = j.blob
  PROVE  \A b : Underway(b)' => Underway(b)
<1>1. ASSUME NEW b, Underway(b)' PROVE Underway(b)
  BY <1>1, Puts DEF Underway
<1> QED
  BY <1>1

LEMMA BlobsStep ==
  ASSUME NEW t \in Thread, BlobsInv,
         \/ \E b \in Blob : PutCheck(t, b) \/ RedactRecord(t, b)
         \/ PutLook(t) \/ PutExists(t) \/ PutRename(t) \/ PutCommit(t)
         \/ RedactKey(t) \/ RedactFile(t)
  PROVE  BlobsInv'
<1>0. /\ BlobsTyped /\ BlobsSound /\ Settled
      /\ JobSound(task[t])
      /\ task[t].op # "idle" => task[t].blob \in Blob /\ task[t].key \in Nat
  BY Jobs DEF BlobsInv
<1> DEFINE Does(j) == task' = [task EXCEPT ![t] = j]
           Rest == /\ row' = [b \in Blob |-> row'[b]]
                   /\ key' \in [Blob -> Nat] /\ file' \in [Blob -> Nat]
                   /\ tombs' \subseteq Blob /\ seals' \in Nat
                   /\ returned' = [put |-> returned'.put, redact |-> returned'.redact]
                   /\ BlobsSound' /\ Settled'
<1>1. ASSUME NEW j \in {Idle} \cup Job, Does(j), JobSound(j)', Respects, Rest
      PROVE  BlobsInv'
  <2>1. task' \in [Thread -> {Idle} \cup Job] /\ \A u \in Thread : JobSound(task[u])'
    BY <1>1, JobTaken
  <2> QED
    BY <1>1, <2>1 DEF BlobsInv, BlobsTyped
\* Only the job changes, and no put of a redacted blob begins.
<1>2. ASSUME UNCHANGED <<store, returned, raced>>, seals' \in Nat,
             \A b \in tombs : Underway(b)' => Underway(b)
      PROVE  Rest /\ Respects
  <2>1. Settled'
    BY <1>0, <1>2 DEF Settled, store
  <2> QED
    BY <1>0, <1>2, <2>1 DEF BlobsTyped, BlobsSound, Respects, store
<1>3. CASE \E b \in Blob : PutCheck(t, b)
  <2>1. PICK b \in Blob : PutCheck(t, b)
    BY <1>3
  <2>2. PICK j : j = [op |-> "look", blob |-> b, key |-> 0]
    OBVIOUS
  <2>3. /\ j \in Job /\ Does(j) /\ UNCHANGED <<store, returned, raced, seals>>
        /\ b \notin tombs /\ j.op = "look" /\ j.blob = b
    BY <1>0, <2>1, <2>2, MakeJob DEF PutCheck, Do, Putting
  <2>4. \A c \in tombs : Underway(c)' => Underway(c)
    BY <1>0, <2>3, Puts DEF Underway
  <2>5. JobSound(j)'
    BY <2>3 DEF JobSound
  <2> QED
    BY <1>0, <1>1, <1>2, <2>3, <2>4, <2>5 DEF BlobsTyped
<1>4. CASE PutLook(t)
  <2>1. CASE Does(Idle) /\ seals' = seals
    <3>1. UNCHANGED <<store, returned, raced>> /\ \A c : Underway(c)' => Underway(c)
      BY <1>0, <1>4, <2>1, NoneBegins, IdleSound DEF PutLook
    <3>2. Rest /\ Respects
      BY <1>0, <1>2, <2>1, <3>1 DEF BlobsTyped
    <3> QED
      BY <1>1, <2>1, <3>2, IdleSound
  <2>2. CASE ~(Does(Idle) /\ seals' = seals)
    <3>1. PICK b, k : b = task[t].blob /\ k = seals + 1
      OBVIOUS
    <3>2. PICK op \in {"exists", "commit"} : op = IF b \in Large THEN "exists" ELSE "commit"
      OBVIOUS
    <3>3. PICK j : j = [op |-> op, blob |-> b, key |-> k]
      OBVIOUS
    <3>4. /\ Doing(t, "look") /\ Does(j) /\ seals' = k /\ UNCHANGED <<store, returned, raced>>
          /\ j.op = op /\ j.blob = b /\ j.key = k
      BY <1>4, <2>2, <3>1, <3>2, <3>3 DEF PutLook, Return, Do
    <3>5. b \in Blob /\ k \in Nat /\ k # 0 /\ task[t].op \in Putting
      BY <1>0, <3>1, <3>4 DEF Doing, Putting, BlobsTyped
    <3>6. j \in Job
      BY <3>3, <3>5, MakeJob DEF Putting
    <3>7. Rest /\ Respects
      BY <1>0, <1>2, <3>1, <3>4, <3>5, <3>6, NoneBegins
    <3>8. JobSound(j)'
      BY <3>2, <3>4, <3>5 DEF JobSound
    <3> QED
      BY <1>1, <3>4, <3>6, <3>7, <3>8
  <2> QED
    BY <2>1, <2>2
<1>5. CASE PutExists(t)
  <2>1. PICK b, k : b = task[t].blob /\ k = task[t].key
    OBVIOUS
  <2>2. PICK op \in {"rename", "commit"} : op = IF file[b] # 0 THEN "commit" ELSE "rename"
    OBVIOUS
  <2>3. PICK j : j = [op |-> op, blob |-> b, key |-> k]
    OBVIOUS
  <2>4. /\ Doing(t, "exists") /\ Does(j) /\ UNCHANGED <<store, seals, returned, raced>>
        /\ j.op = op /\ j.blob = b /\ j.key = k
    BY <1>5, <2>1, <2>2, <2>3 DEF PutExists, Do
  <2>5. b \in Blob /\ k \in Nat /\ k # 0 /\ task[t].op \in Putting
    BY <1>0, <2>1, <2>4 DEF Doing, JobSound, Putting
  <2>6. j \in Job
    BY <2>3, <2>5, MakeJob DEF Putting
  <2>7. Rest /\ Respects
    BY <1>0, <1>2, <2>1, <2>4, <2>5, <2>6, NoneBegins DEF BlobsTyped
  <2>8. JobSound(j)'
    BY <2>2, <2>4, <2>5 DEF JobSound, store
  <2> QED
    BY <1>1, <2>4, <2>6, <2>7, <2>8
<1>6. CASE PutRename(t)
  <2>1. PICK b, k : b = task[t].blob /\ k = task[t].key
    OBVIOUS
  <2>2. PICK j : j = [op |-> "commit", blob |-> b, key |-> k]
    OBVIOUS
  <2>3. /\ Doing(t, "rename") /\ Does(j) /\ UNCHANGED <<row, key, tombs, seals, returned, raced>>
        /\ file' = [file EXCEPT ![b] = k]
        /\ j.op = "commit" /\ j.blob = b /\ j.key = k
    BY <1>6, <2>1, <2>2 DEF PutRename, Do
  <2>4. b \in Blob /\ k \in Nat /\ k # 0 /\ task[t].op \in Putting
    BY <1>0, <2>1, <2>3 DEF Doing, JobSound, Putting
  <2>5. file' \in [Blob -> Nat] /\ file'[b] = k /\ \A c \in Blob : c # b => file'[c] = file[c]
    BY <1>0, <2>3, <2>4 DEF BlobsTyped
  <2>6. j \in Job
    BY <2>2, <2>4, MakeJob DEF Putting
  <2>7. (\A c : Underway(c)' => Underway(c)) /\ Underway(b)
    BY <1>0, <2>1, <2>3, <2>4, <2>6, NoneBegins DEF Underway
  <2>8. BlobsSound' /\ Settled'
    BY <1>0, <2>3, <2>4, <2>5, <2>7 DEF BlobsSound, Settled, BlobsTyped
  <2>9. Respects
    BY <1>0, <2>3, <2>4, <2>5, <2>7 DEF Respects
  <2>10. Rest
    BY <1>0, <2>3, <2>5, <2>8 DEF BlobsTyped
  <2>11. JobSound(j)'
    BY <2>3, <2>4, <2>5 DEF JobSound
  <2> QED
    BY <1>1, <2>3, <2>6, <2>9, <2>10, <2>11
<1>7. CASE PutCommit(t)
  <2>1. PICK b, k : b = task[t].blob /\ k = task[t].key
    OBVIOUS
  <2>2. PICK r : r = [external |-> b \in Large, sealed |-> IF b \in Large THEN 0 ELSE k]
    OBVIOUS
  <2>3. /\ Doing(t, "commit") /\ Does(Idle) /\ UNCHANGED <<file, tombs, seals, raced>>
        /\ row' = [row EXCEPT ![b] = r] /\ key' = [key EXCEPT ![b] = k]
        /\ returned' = [returned EXCEPT !.put = @ \cup {b}]
    BY <1>7, <2>1, <2>2 DEF PutCommit, Return
  <2>4. /\ b \in Blob /\ k \in Nat /\ k # 0 /\ task[t].op \in Putting
        /\ b \in Large /\ b \notin raced => file[b] # 0
    BY <1>0, <2>1, <2>3 DEF Doing, JobSound, Putting
  <2>5. /\ key' \in [Blob -> Nat] /\ \A c \in Blob : c # b => key'[c] = key[c]
        /\ row' = [c \in Blob |-> row'[c]] /\ row'[b] = r
        /\ \A c \in Blob : c # b => row'[c] = row[c]
    BY <1>0, <2>3, <2>4 DEF BlobsTyped
  <2>6. /\ returned'.redact = returned.redact
        /\ returned' = [put |-> returned'.put, redact |-> returned'.redact]
    BY <1>0, <2>3 DEF BlobsTyped
  <2>7. r.external <=> b \in Large
    BY <2>2
  <2>8. (\A c : Underway(c)' => Underway(c)) /\ Underway(b)
    BY <1>0, <2>1, <2>3, <2>4, NoneBegins, IdleSound DEF Underway
  <2>9. Settled'
    BY <1>0, <2>3, <2>6, <2>8 DEF Settled
  <2>10. \A c \in Blob \ raced' : (row[c] # NoRow /\ key[c] # 0 /\ row[c].external => file[c] # 0)'
    BY <1>0, <2>3, <2>4, <2>5, <2>7 DEF BlobsSound
  <2>11. \A c \in returned'.redact : key'[c] = 0 /\ file'[c] = 0
    BY <1>0, <2>3, <2>5, <2>6, <2>8 DEF BlobsSound, Settled, BlobsTyped
  <2>12. Rest
    BY <1>0, <2>3, <2>5, <2>6, <2>9, <2>10, <2>11 DEF BlobsTyped, BlobsSound
  <2>13. Respects
    BY <1>0, <2>3, <2>5, <2>8 DEF Respects, BlobsTyped
  <2> QED
    BY <1>1, <2>3, <2>12, <2>13, IdleSound
<1>8. CASE \E b \in Blob : RedactRecord(t, b)
  <2>1. PICK b \in Blob : RedactRecord(t, b)
    BY <1>8
  <2>2. PICK j : j = [op |-> "shred", blob |-> b, key |-> 0]
    OBVIOUS
  <2>3. /\ Does(j) /\ tombs' = tombs \cup {b}
        /\ UNCHANGED <<row, key, file, seals, returned, raced>>
        /\ j.op = "shred" /\ j.blob = b /\ j.op \notin Putting
    BY <2>1, <2>2 DEF RedactRecord, Do, Putting
  <2>4. j \in Job
    BY <2>2, MakeJob
  <2>5. \A c : Underway(c)' => Underway(c)
    BY <1>0, <2>3, <2>4, NoneBegins
  <2>6. Rest
    BY <1>0, <2>3, <2>5 DEF BlobsTyped, BlobsSound, Settled
  <2>7. Respects
    BY <1>0, <2>3, <2>5 DEF Respects
  <2>8. JobSound(j)'
    BY <2>3 DEF JobSound
  <2> QED
    BY <1>1, <2>3, <2>4, <2>6, <2>7, <2>8
<1>9. CASE RedactKey(t)
  <2>1. PICK b : b = task[t].blob
    OBVIOUS
  <2>2. PICK j : j = [op |-> "remove", blob |-> b, key |-> 0]
    OBVIOUS
  <2>3. /\ Doing(t, "shred") /\ Does(j) /\ UNCHANGED <<row, file, tombs, seals, returned>>
        /\ key' = [key EXCEPT ![b] = 0]
        /\ raced' = IF Underway(b) THEN raced \cup {b} ELSE raced \ {b}
        /\ j.op = "remove" /\ j.blob = b /\ j.op \notin Putting
    BY <1>9, <2>1, <2>2 DEF RedactKey, Do, Putting
  <2>4. b \in Blob /\ b \in tombs
    BY <1>0, <2>1, <2>3 DEF Doing, JobSound
  <2>5. key' \in [Blob -> Nat] /\ key'[b] = 0 /\ \A c \in Blob : c # b => key'[c] = key[c]
    BY <1>0, <2>3, <2>4 DEF BlobsTyped
  <2>6. /\ b \notin raced' => ~Underway(b)
        /\ Underway(b) => b \in raced'
        /\ \A c : c # b => (c \in raced' <=> c \in raced)
    BY <2>3
  <2>7. j \in Job
    BY <2>2, <2>4, MakeJob
  <2>8. \A c : Underway(c)' => Underway(c)
    BY <1>0, <2>3, <2>7, NoneBegins
  <2>9. BlobsSound'
    BY <1>0, <2>3, <2>4, <2>5, <2>6 DEF BlobsSound, BlobsTyped
  <2>10. Settled'
    BY <1>0, <2>3, <2>6, <2>8 DEF Settled
  <2>11. Rest
    BY <1>0, <2>3, <2>5, <2>9, <2>10 DEF BlobsTyped
  <2>12. Respects
    BY <1>0, <2>3, <2>5, <2>6, <2>8 DEF Respects, BlobsTyped
  <2>13. JobSound(j)'
    BY <2>3, <2>4, <2>5, <2>6, <2>8 DEF JobSound
  <2> QED
    BY <1>1, <2>3, <2>7, <2>11, <2>12, <2>13
<1>10. CASE RedactFile(t)
  <2>1. PICK b : b = task[t].blob
    OBVIOUS
  <2>2. /\ Doing(t, "remove") /\ Does(Idle) /\ UNCHANGED <<row, key, tombs, seals, raced>>
        /\ file' = [file EXCEPT ![b] = 0]
        /\ returned' = [returned EXCEPT !.redact = IF b \in raced THEN @ ELSE @ \cup {b}]
    BY <1>10, <2>1 DEF RedactFile, Return
  <2>3. b \in Blob /\ b \in tombs /\ (b \notin raced => key[b] = 0 /\ ~Underway(b))
    BY <1>0, <2>1, <2>2 DEF Doing, JobSound
  <2>4. file' \in [Blob -> Nat] /\ file'[b] = 0 /\ \A c \in Blob : c # b => file'[c] = file[c]
    BY <1>0, <2>2, <2>3 DEF BlobsTyped
  <2>5. /\ \A c \in returned'.redact : c \in returned.redact \/ (c = b /\ b \notin raced)
        /\ returned' = [put |-> returned'.put, redact |-> returned'.redact]
    BY <1>0, <2>2 DEF BlobsTyped
  <2>6. \A c : Underway(c)' => Underway(c)
    BY <1>0, <2>2, NoneBegins, IdleSound
  <2>7. BlobsSound'
    BY <1>0, <2>2, <2>3, <2>4, <2>5 DEF BlobsSound, Settled, BlobsTyped
  <2>8. Settled'
    BY <1>0, <2>2, <2>3, <2>5, <2>6 DEF Settled
  <2>9. Rest
    BY <1>0, <2>2, <2>4, <2>5, <2>7, <2>8 DEF BlobsTyped
  <2>10. Respects
    BY <1>0, <2>2, <2>3, <2>4, <2>6 DEF Respects
  <2> QED
    BY <1>1, <2>2, <2>9, <2>10, IdleSound
<1> QED
  BY <1>3, <1>4, <1>5, <1>6, <1>7, <1>8, <1>9, <1>10

\* Whatever a crash cuts off and whatever the threads do: an entry with a key has
\* its ciphertext, and what redact returned for has neither key nor file, unless
\* another thread was putting the blob when its key was deleted (put_blob_record,
\* crypto_shred).
THEOREM BlobsStaySound == BlobsSpec => []BlobsSound
<1>1. BlobsInit => BlobsInv
  <2> SUFFICES ASSUME BlobsInit PROVE BlobsInv
    OBVIOUS
  <2>1. BlobsTyped
    BY DEF BlobsInit, BlobsTyped
  <2>2. BlobsSound /\ Settled
    BY DEF BlobsInit, BlobsSound, Settled
  <2>3. \A t \in Thread : task[t] = Idle
    BY DEF BlobsInit
  <2> QED
    BY <2>1, <2>2, <2>3, IdleSound DEF BlobsInv
<1>2. BlobsInv /\ [BlobsNext]_blobVars => BlobsInv'
  <2> SUFFICES ASSUME BlobsInv, [BlobsNext]_blobVars PROVE BlobsInv'
    OBVIOUS
  <2>1. CASE StoreCrash
    <3>1. task' = [t \in Thread |-> Idle] /\ UNCHANGED <<store, seals, returned, raced>>
      BY <2>1 DEF StoreCrash
    <3>2. \A t \in Thread : task'[t] = Idle
      BY <3>1
    <3>3. \A b : ~Underway(b)'
      BY <3>2, IdleSound DEF Underway
    <3>4. BlobsTyped' /\ BlobsSound' /\ Settled'
      BY <3>1, <3>3 DEF BlobsInv, BlobsTyped, BlobsSound, Settled, store
    <3>5. \A t \in Thread : JobSound(task[t])'
      BY <3>2, IdleSound DEF JobSound
    <3> QED
      BY <3>4, <3>5 DEF BlobsInv
  <2>2. CASE UNCHANGED blobVars
    BY <2>2 DEF blobVars, store, BlobsInv, BlobsTyped, BlobsSound, JobSound, Settled, Underway
  <2> QED
    BY <2>1, <2>2, BlobsStep DEF BlobsNext
<1>3. BlobsInv => BlobsSound
  BY DEF BlobsInv
<1> QED
  BY <1>1, <1>2, <1>3, PTL DEF BlobsSpec

-----------------------------------------------------------------------------
(* Recovery. *)
(* For any number of runs, messages, crashes and errors: recovery drops    *)
(* nothing and repeats nothing.  The argument for the checkpoints is about *)
(* the newest one, since that is all `discover' looks at.  Runs are        *)
(* numbered, recover_thread handles journals in the order of the runs, and *)
(* the run of the current turn is the last of them: so either no checkpoint*)
(* knows of it, or the newest one is its own and nobody can have resumed it.*)

Entry == [kind : {"record"}, run : Runs, n : Nat]
           \cup [kind : {"checkpoint"}, run : Runs, runs : SUBSET Runs]
           \cup [kind : {"consumed"}, of : Nat]
Journal == [n : Nat, finished : BOOLEAN, stopped : BOOLEAN, runs : SUBSET Runs]
Place == {"down", "recovering", "idle", "consumed", "running", "persisting", "saving"}

\* The runs there have been.
Started == {r \in Runs : produced[r] # -1}

RecoveryTyped ==
  /\ log \in Seq(Entry)
  /\ DOMAIN journals \subseteq Started
  /\ journals \in [DOMAIN journals -> Journal]
  /\ place \in Place
  /\ run \in 0..MaxRuns
  /\ cp \in Nat
  /\ todo \subseteq DOMAIN journals
  /\ history \subseteq Started /\ lineage \subseteq Started
  /\ resumed \in Seq(Nat)
  /\ produced \in [Runs -> Nat \cup {-1}]
  /\ cutoff \subseteq Started

\* Runs are numbered as they start, and the current one is the last.
RunsInOrder ==
  /\ \E k \in 0..MaxRuns : Started = 1..k /\ (run # 0 => run = k)
  /\ \A r \in DOMAIN journals : journals[r].runs \subseteq 1..r

\* Where the process is, a turn is under way or not.
TurnPlaces ==
  /\ place \in {"down", "idle", "consumed"} => run = 0
  /\ place \in {"running", "persisting", "saving"} => run # 0
  /\ run = 0 => turn = {}
  /\ run # 0 => run \in lineage
  /\ place # "recovering" => todo = {}
  /\ place = "running" =>
       run \in DOMAIN journals /\ ~journals[run].finished /\ run \notin cutoff
  /\ place = "recovering" /\ run # 0 => run \in cutoff

\* A journal holds what its run produced, and one that was cut short shows it.
JournalsTrue ==
  \A r \in DOMAIN journals :
    /\ journals[r].n = produced[r]
    /\ r \in journals[r].runs
    /\ r \in cutoff => ~journals[r].finished \/ journals[r].stopped

\* What the events of the log refer to.
LogSound ==
  \A i \in DOMAIN log :
    /\ log[i].kind = "checkpoint" => log[i].run \in log[i].runs /\ log[i].runs \subseteq Started
    /\ log[i].kind = "consumed" => log[i].of \in 1..Len(log)

\* No checkpoint holds the current run, or the newest is its own and not consumed.
CheckpointOnce ==
  /\ place = "running" => ~CheckpointSaved(run)
  /\ place \in {"persisting", "saving"} => ~CheckpointSaved(run) \/ AlreadySaved
  /\ place = "recovering" /\ run # 0 =>
       \/ run \in todo /\ ~CheckpointSaved(run)
       \/ todo \subseteq {run} /\ AlreadySaved

\* What may be resumed was not consumed, and what was resumed was.
ResumedOnce ==
  /\ cp # 0 => cp \in 1..Len(log) /\ log[cp].kind = "checkpoint" /\ cp \notin Consumed
  /\ \A i \in DOMAIN resumed : resumed[i] \in Consumed

RecoveryInv ==
  /\ RecoveryTyped /\ RunsInOrder /\ TurnPlaces /\ JournalsTrue /\ LogSound
  /\ CheckpointOnce /\ ResumedOnce
  /\ NothingDropped /\ NothingTwice

-----------------------------------------------------------------------------
(* The log. *)

\* The newest of some positions is one of them and none is newer.
LEMMA NewestOf ==
  ASSUME NEW k \in Nat, NEW S \in SUBSET (1..k), S # {}
  PROVE  Newest(S) \in S /\ \A i \in S : i <= Newest(S)
<1>1. PICK n \in S : \A m \in S : m <= n
  <2>1. S \in SUBSET (0..k)
    OBVIOUS
  <2> QED BY <2>1, GreatestBelow
<1> QED BY <1>1 DEF Newest

\* The three kinds of events.
LEMMA EntryKinds ==
  /\ \A r \in Runs, n \in Nat : Record(r, n) \in Entry /\ Record(r, n).kind = "record"
  /\ \A r \in Runs, rs \in SUBSET Runs :
       /\ CheckpointEvent(r, rs) \in Entry /\ CheckpointEvent(r, rs).kind = "checkpoint"
       /\ CheckpointEvent(r, rs).run = r /\ CheckpointEvent(r, rs).runs = rs
  /\ \A i \in Nat : ConsumedEvent(i) \in Entry /\ ConsumedEvent(i).kind = "consumed"
                    /\ ConsumedEvent(i).of = i
BY DEF Entry, Record, CheckpointEvent, ConsumedEvent

\* A commit adds one event at the end.
LEMMA CommitAppends ==
  ASSUME log \in Seq(Entry), NEW e \in Entry, Commit(e)
  PROVE  /\ log' \in Seq(Entry)
         /\ Len(log) \in Nat /\ Len(log') = Len(log) + 1
         /\ DOMAIN log = 1..Len(log) /\ DOMAIN log' = 1..(Len(log) + 1)
         /\ \A i \in 1..Len(log) : log'[i] = log[i]
         /\ log'[Len(log) + 1] = e
         /\ Logged' = Logged \cup {e}
<1>1. /\ log' \in Seq(Entry)
      /\ Len(log) \in Nat /\ Len(log') = Len(log) + 1
      /\ DOMAIN log = 1..Len(log) /\ DOMAIN log' = 1..(Len(log) + 1)
      /\ \A i \in 1..Len(log) : log'[i] = log[i]
      /\ log'[Len(log) + 1] = e
  BY DEF Commit
<1>2. Logged' = Logged \cup {e}
  BY <1>1 DEF Logged
<1> QED BY <1>1, <1>2

\* What the log says of checkpoints depends on the log alone.
LEMMA SameLog ==
  ASSUME log' = log
  PROVE  /\ Logged' = Logged /\ Checkpoints' = Checkpoints /\ Consumed' = Consumed
         /\ Discover' = Discover
         /\ \A r : CheckpointSaved(r)' <=> CheckpointSaved(r)
BY DEF Logged, Checkpoints, Consumed, Discover, CheckpointSaved

\* A message says nothing of checkpoints.
LEMMA RecordCommitted ==
  ASSUME log \in Seq(Entry), NEW e \in Entry, e.kind = "record", Commit(e)
  PROVE  /\ Checkpoints' = Checkpoints /\ Consumed' = Consumed
         /\ Discover' = Discover
         /\ \A r : CheckpointSaved(r)' <=> CheckpointSaved(r)
         /\ \A i \in Checkpoints : log'[i] = log[i]
<1>1. Checkpoints' = Checkpoints
  BY CommitAppends DEF Checkpoints
<1>2. {i \in DOMAIN log' : log'[i].kind = "consumed"} = {i \in DOMAIN log : log[i].kind = "consumed"}
  BY CommitAppends
<1>3. \A i \in DOMAIN log : log'[i] = log[i]
  BY CommitAppends
<1>4. Consumed' = Consumed
  BY <1>2, <1>3 DEF Consumed
<1>5. \A i \in Checkpoints : log'[i] = log[i]
  BY <1>3 DEF Checkpoints
<1>6. \A r : CheckpointSaved(r)' <=> CheckpointSaved(r)
  BY <1>1, <1>5 DEF CheckpointSaved
<1>7. Discover' = Discover
  BY <1>1, <1>4 DEF Discover
<1> QED BY <1>1, <1>4, <1>5, <1>6, <1>7

\* A new checkpoint is the newest, and nobody can have consumed it.
LEMMA CheckpointCommitted ==
  ASSUME log \in Seq(Entry), LogSound, NEW r \in Runs, NEW rs \in SUBSET Runs,
         Commit(CheckpointEvent(r, rs))
  PROVE  /\ Checkpoints' = Checkpoints \cup {Len(log) + 1} /\ Consumed' = Consumed
         /\ Consumed \subseteq 1..Len(log) /\ Len(log) \in Nat
         /\ Discover' = Len(log) + 1
         /\ log'[Len(log) + 1] = CheckpointEvent(r, rs)
         /\ \A i \in Checkpoints : i \in 1..Len(log) /\ log'[i] = log[i]
         /\ \A q : CheckpointSaved(q)' <=> CheckpointSaved(q) \/ q \in rs
<1> DEFINE e == CheckpointEvent(r, rs)
<1>1. e \in Entry /\ e.kind = "checkpoint" /\ e.runs = rs
  BY EntryKinds
<1> HIDE DEF e
<1>2. /\ Len(log) \in Nat /\ DOMAIN log = 1..Len(log) /\ DOMAIN log' = 1..(Len(log) + 1)
      /\ \A i \in 1..Len(log) : log'[i] = log[i]
      /\ log'[Len(log) + 1] = e
  BY <1>1, CommitAppends DEF e
<1>3. Checkpoints' = Checkpoints \cup {Len(log) + 1}
  BY <1>1, <1>2 DEF Checkpoints
<1>4. {i \in DOMAIN log' : log'[i].kind = "consumed"} = {i \in DOMAIN log : log[i].kind = "consumed"}
  BY <1>1, <1>2
<1>5. Consumed' = Consumed
  BY <1>2, <1>4 DEF Consumed
<1>6. Consumed \subseteq 1..Len(log)
  BY <1>2 DEF Consumed, LogSound
<1>7. Newest(Checkpoints') = Len(log) + 1
  <2> DEFINE S == Checkpoints \cup {Len(log) + 1}
             k == Len(log) + 1
  <2>1. S \in SUBSET (1..k) /\ k \in S /\ k \in Nat
    BY <1>2 DEF Checkpoints
  <2> HIDE DEF S, k
  <2>2. Newest(S) \in S /\ \A i \in S : i <= Newest(S)
    BY <2>1, NewestOf
  <2>3. \A n \in 1..k : k <= n => n = k
    BY <2>1
  <2>4. Newest(S) \in 1..k /\ k <= Newest(S)
    BY <2>1, <2>2, Zenon
  <2>5. Newest(S) = k
    BY <2>3, <2>4, Zenon
  <2> QED BY <1>3, <2>5 DEF S, k
<1>8. Discover' = Len(log) + 1
  <2>1. Len(log) + 1 \notin Consumed'
    BY <1>2, <1>5, <1>6
  <2> QED BY <1>7, <2>1 DEF Discover
<1>9. \A i \in Checkpoints : i \in 1..Len(log) /\ log'[i] = log[i]
  BY <1>2 DEF Checkpoints
<1>10. \A q : CheckpointSaved(q)' <=> CheckpointSaved(q) \/ q \in rs
  BY <1>1, <1>2, <1>3, <1>9 DEF CheckpointSaved
<1> QED BY <1>2, <1>3, <1>5, <1>6, <1>8, <1>9, <1>10 DEF e

\* Consuming leaves the checkpoints as they are.
LEMMA ConsumptionCommitted ==
  ASSUME log \in Seq(Entry), NEW c \in Nat, Commit(ConsumedEvent(c))
  PROVE  /\ Checkpoints' = Checkpoints /\ Consumed' = Consumed \cup {c}
         /\ \A i \in Checkpoints : log'[i] = log[i]
         /\ \A r : CheckpointSaved(r)' <=> CheckpointSaved(r)
<1> DEFINE e == ConsumedEvent(c)
<1>1. e \in Entry /\ e.kind = "consumed" /\ e.of = c
  BY EntryKinds
<1> HIDE DEF e
<1>2. /\ Len(log) \in Nat /\ DOMAIN log = 1..Len(log) /\ DOMAIN log' = 1..(Len(log) + 1)
      /\ \A i \in 1..Len(log) : log'[i] = log[i]
      /\ log'[Len(log) + 1] = e
  BY <1>1, CommitAppends DEF e
<1>3. Checkpoints' = Checkpoints
  BY <1>1, <1>2 DEF Checkpoints
<1>4. {i \in DOMAIN log' : log'[i].kind = "consumed"}
        = {i \in DOMAIN log : log[i].kind = "consumed"} \cup {Len(log) + 1}
  BY <1>1, <1>2
<1>5. Consumed' = Consumed \cup {c}
  BY <1>1, <1>2, <1>4 DEF Consumed
<1>6. \A i \in Checkpoints : log'[i] = log[i]
  BY <1>2 DEF Checkpoints
<1>7. \A r : CheckpointSaved(r)' <=> CheckpointSaved(r)
  BY <1>3, <1>6 DEF CheckpointSaved
<1> QED BY <1>3, <1>5, <1>6, <1>7

\* What discover returns can be resumed.
LEMMA DiscoverSound ==
  ASSUME log \in Seq(Entry), Discover # 0
  PROVE  Discover \in 1..Len(log) /\ log[Discover].kind = "checkpoint" /\ Discover \notin Consumed
<1>1. Discover = Newest(Checkpoints) /\ Checkpoints # {} /\ Discover \notin Consumed
  BY DEF Discover, Newest
<1>2. Checkpoints \in SUBSET (1..Len(log)) /\ Len(log) \in Nat
  BY DEF Checkpoints
<1>3. Discover \in Checkpoints
  BY <1>1, <1>2, NewestOf
<1> QED BY <1>1, <1>2, <1>3 DEF Checkpoints

-----------------------------------------------------------------------------
(* Steps of the session that leave log and journals as they are. *)

\* Where the process goes and what it remembers may change; a run that fails or
\* dies is cut short.
SessionStep ==
  /\ UNCHANGED <<log, journals, resumed, produced>>
  /\ place' \in Place /\ run' \in {0, run} /\ cp' \in {cp, 0, Discover}
  /\ todo' \in {todo, {}, DOMAIN journals}
  /\ history' \subseteq Started /\ lineage' \subseteq Started
  /\ cutoff' = cutoff \/ (place = "running" /\ cutoff' = cutoff \cup {run})

\* Such a step keeps what is said of log, journals and runs.
LEMMA SessionStepKeeps ==
  ASSUME RecoveryInv, SessionStep, TurnPlaces', CheckpointOnce'
  PROVE  RecoveryInv'
<1> USE DEF SessionStep
<1>1. Started' = Started
  BY DEF Started
<1>2. /\ Logged' = Logged /\ Checkpoints' = Checkpoints /\ Consumed' = Consumed
      /\ Discover' = Discover
      /\ \A r : CheckpointSaved(r)' <=> CheckpointSaved(r)
  BY SameLog
<1>3. place = "running" => run \in DOMAIN journals /\ ~journals[run].finished
  BY DEF RecoveryInv, TurnPlaces
<1>4. Discover \in Nat
  <2>1. Discover # 0 => Discover \in 1..Len(log)
    BY DiscoverSound DEF RecoveryInv, RecoveryTyped
  <2> QED BY <2>1 DEF RecoveryInv, RecoveryTyped
<1>5. RecoveryTyped'
  <2>1. run' \in 0..MaxRuns /\ cp' \in Nat
    BY <1>4, RecoveryBounds DEF RecoveryInv, RecoveryTyped
  <2>2. cutoff' \subseteq Started /\ todo' \subseteq DOMAIN journals'
    BY <1>3 DEF RecoveryInv, RecoveryTyped
  <2> QED BY <1>1, <2>1, <2>2 DEF RecoveryInv, RecoveryTyped
<1>6. RunsInOrder'
  BY <1>1 DEF RecoveryInv, RunsInOrder
<1>7. JournalsTrue'
  BY <1>3 DEF RecoveryInv, JournalsTrue
<1>8. LogSound'
  BY <1>1 DEF RecoveryInv, LogSound
<1>9. ResumedOnce'
  <2>1. cp' # 0 => cp' \in 1..Len(log) /\ log[cp'].kind = "checkpoint" /\ cp' \notin Consumed
    BY DiscoverSound DEF RecoveryInv, RecoveryTyped, ResumedOnce
  <2> QED BY <1>2, <2>1 DEF RecoveryInv, ResumedOnce
<1>10. NothingDropped'
  BY <1>2, <1>3 DEF RecoveryInv, NothingDropped
<1>11. NothingTwice'
  BY DEF RecoveryInv, NothingTwice
<1> QED BY <1>5, <1>6, <1>7, <1>8, <1>9, <1>10, <1>11 DEF RecoveryInv

\* The current run, if there is one, is a run.
LEMMA RunIsRun ==
  ASSUME RecoveryInv
  PROVE  run # 0 => run \in Started /\ run \in Runs
<1>1. PICK k \in 0..MaxRuns : Started = 1..k /\ (run # 0 => run = k)
  BY DEF RecoveryInv, RunsInOrder
<1>2. run # 0 => run \in 1..k
  BY <1>1, RecoveryBounds
<1>3. Started \subseteq Runs
  BY DEF Started
<1>4. run # 0 => run \in Started
  BY <1>1, <1>2
<1> QED BY <1>3, <1>4

\* Failing turns, failing runs and failing saves.
LEMMA FailuresKeep ==
  ASSUME RecoveryInv, TurnFailsAtOnce \/ RunFails \/ PersistFails \/ Open
  PROVE  RecoveryInv'
<1> USE DEF durable, account, BeginRecovery, Place
<1>0. \A r : CheckpointSaved(r)' <=> CheckpointSaved(r)
  BY SameLog DEF TurnFailsAtOnce, RunFails, PersistFails, Open
<1>1. CASE TurnFailsAtOnce \/ Open
  <2>1. SessionStep
    BY <1>1 DEF TurnFailsAtOnce, Open, SessionStep, RecoveryInv, RecoveryTyped
  <2>2. run = 0 /\ run' = 0 /\ turn' = turn /\ place' = "recovering"
    BY <1>1 DEF TurnFailsAtOnce, Open, RecoveryInv, TurnPlaces
  <2>3. TurnPlaces' /\ CheckpointOnce'
    BY <2>2 DEF RecoveryInv, TurnPlaces, CheckpointOnce
  <2> QED BY <2>1, <2>3, SessionStepKeeps
<1>2. CASE RunFails
  <2>1. SessionStep
    BY <1>2 DEF RunFails, SessionStep, RecoveryInv, RecoveryTyped
  <2>2. TurnPlaces'
    BY <1>2 DEF RunFails, RecoveryInv, TurnPlaces
  <2>3. CheckpointOnce'
    BY <1>0, <1>2 DEF RunFails, RecoveryInv, TurnPlaces, CheckpointOnce
  <2> QED BY <2>1, <2>2, <2>3, SessionStepKeeps
<1>3. CASE PersistFails
  <2>1. SessionStep
    BY <1>3 DEF PersistFails, SessionStep, RecoveryInv, RecoveryTyped
  <2>2. TurnPlaces'
    BY <1>3 DEF PersistFails, RecoveryInv, TurnPlaces
  <2>3. CheckpointOnce'
    <3>1. AlreadySaved' <=> AlreadySaved
      BY <1>3, SameLog DEF PersistFails, AlreadySaved
    <3> QED BY <1>0, <1>3, <3>1 DEF PersistFails, RecoveryInv, CheckpointOnce
  <2> QED BY <2>1, <2>2, <2>3, SessionStepKeeps
<1> QED BY <1>1, <1>2, <1>3

\* The end of a turn that commits nothing, and of the process.
LEMMA ReturnsKeep ==
  ASSUME RecoveryInv, NothingToSave \/ ReuseCheckpoint \/ CheckpointNotSaved \/ Crash
  PROVE  RecoveryInv'
<1>1. SessionStep
  BY DEF NothingToSave, ReuseCheckpoint, CheckpointNotSaved, Crash, Back, durable, account,
         Place, SessionStep, RecoveryInv, RecoveryTyped
<1>2. run' = 0 /\ turn' = {} /\ place' \in {"idle", "down"} /\ todo' = {}
  BY DEF NothingToSave, ReuseCheckpoint, CheckpointNotSaved, Crash, Back, RecoveryInv, TurnPlaces
<1>3. TurnPlaces' /\ CheckpointOnce'
  BY <1>2 DEF TurnPlaces, CheckpointOnce
<1> QED BY <1>1, <1>3, SessionStepKeeps

\* The end of recovery: with a turn to reconcile its run has its checkpoint.
LEMMA RecoverDoneKeeps ==
  ASSUME RecoveryInv, RecoverDone
  PROVE  RecoveryInv'
<1> USE DEF durable, account
<1>1. CASE Reconciling
  <2>1. run # 0
    <3>1. Cardinality({}) = 0
      BY FS_EmptySet
    <3> QED BY <1>1, <3>1 DEF Reconciling, RecoveryInv, TurnPlaces
  <2>2. place = "recovering" /\ place' = "persisting" /\ todo = {} /\ todo' = {}
        /\ UNCHANGED <<log, journals, run, turn, cp, history, lineage, resumed, produced, cutoff>>
    BY <1>1 DEF RecoverDone
  <2>3. SessionStep
    BY <2>2 DEF SessionStep, Place, RecoveryInv, RecoveryTyped
  <2>4. TurnPlaces'
    BY <2>1, <2>2 DEF RecoveryInv, TurnPlaces
  <2>5. CheckpointOnce'
    <3>1. AlreadySaved
      BY <2>1, <2>2 DEF RecoveryInv, CheckpointOnce
    <3>2. AlreadySaved'
      BY <2>2, <3>1, SameLog DEF AlreadySaved
    <3> QED BY <2>2, <3>2 DEF CheckpointOnce
  <2> QED BY <2>3, <2>4, <2>5, SessionStepKeeps
<1>2. CASE ~Reconciling
  <2>1. /\ place' = "idle" /\ run' = 0 /\ turn' = {} /\ lineage' = {} /\ cp' = Discover
        /\ todo = {} /\ todo' = {}
        /\ UNCHANGED <<log, journals, resumed, produced, cutoff>>
        /\ history' = IF Discover = 0 THEN history ELSE log[Discover].runs
    BY <1>2 DEF RecoverDone, Back
  <2>2. history' \subseteq Started
    <3>1. Discover # 0 => log[Discover].runs \subseteq Started
      BY DiscoverSound DEF RecoveryInv, RecoveryTyped, LogSound
    <3> QED BY <2>1, <3>1 DEF RecoveryInv, RecoveryTyped
  <2>3. SessionStep
    BY <2>1, <2>2 DEF SessionStep, Place
  <2>4. TurnPlaces' /\ CheckpointOnce'
    BY <2>1 DEF TurnPlaces, CheckpointOnce
  <2> QED BY <2>3, <2>4, SessionStepKeeps
<1> QED BY <1>1, <1>2

-----------------------------------------------------------------------------
(* Runs and their journals. *)

\* The number of the next run is the one after the last.
LEMMA NextRunIsNext ==
  ASSUME RecoveryInv, NextRun \in Runs
  PROVE  \E k \in 0..MaxRuns : /\ Started = 1..k /\ NextRun = k + 1
                               /\ k + 1 \in Runs /\ k + 1 \notin Started
<1>1. PICK k \in 0..MaxRuns : Started = 1..k
  BY DEF RecoveryInv, RunsInOrder
<1>2. Cardinality(1..k) = k
  <2>1. Cardinality(1..k) = IF 1 > k THEN 0 ELSE k - 1 + 1
    BY FS_Interval, RecoveryBounds
  <2> QED BY <2>1, RecoveryBounds
<1>3. NextRun = k + 1
  BY <1>1, <1>2 DEF NextRun, Started
<1>4. k + 1 \notin 1..k
  BY RecoveryBounds
<1> QED BY <1>1, <1>3, <1>4

\* A run starts: a new turn, a repair or a resumed turn.
LEMMA StartRunKeeps ==
  ASSUME RecoveryInv, NEW rs, NEW line \in SUBSET Started, StartRun(rs, line),
         place # "recovering",
         UNCHANGED <<log, cp, todo, history, resumed, cutoff>>
  PROVE  RecoveryInv'
<1>1. PICK k \in 0..MaxRuns : /\ Started = 1..k /\ NextRun = k + 1
                              /\ k + 1 \in Runs /\ k + 1 \notin Started
  BY NextRunIsNext DEF StartRun
<1> DEFINE r == k + 1
           j == [n |-> 0, finished |-> FALSE, stopped |-> FALSE, runs |-> line \cup {r}]
<1>2. /\ journals' = [q \in DOMAIN journals \cup {r} |-> IF q = r THEN j ELSE journals[q]]
      /\ place' = "running" /\ run' = r /\ turn' = rs \cup {r} /\ lineage' = line \cup {r}
      /\ produced' = [produced EXCEPT ![r] = 0]
  BY <1>1 DEF StartRun, SaveJournal
<1>3. r \in Runs /\ r \notin Started /\ r # 0 /\ r \in 0..MaxRuns /\ r \in 1..r
  BY <1>1, RecoveryBounds DEF Runs
<1>4. Started' = Started \cup {r} /\ Started' = 1..r
  <2>1. Started' = Started \cup {r}
    BY <1>2, <1>3 DEF Started, RecoveryInv, RecoveryTyped
  <2>2. (1..k) \cup {r} = 1..r
    BY RecoveryBounds
  <2> QED BY <1>1, <2>1, <2>2
<1>5. /\ Logged' = Logged /\ Checkpoints' = Checkpoints /\ Consumed' = Consumed
      /\ \A q : CheckpointSaved(q)' <=> CheckpointSaved(q)
  BY SameLog
<1>6. line \subseteq 1..r /\ line \subseteq Runs
  BY <1>1, <1>4 DEF Started
<1>7. r \notin DOMAIN journals /\ DOMAIN journals' = DOMAIN journals \cup {r}
      /\ journals'[r] = j /\ (\A q \in DOMAIN journals : journals'[q] = journals[q])
  BY <1>2, <1>3 DEF RecoveryInv, RecoveryTyped
<1>8. r \notin cutoff
  BY <1>3 DEF RecoveryInv, RecoveryTyped
<1>9. j \in Journal /\ j.n = 0 /\ ~j.finished /\ ~j.stopped /\ j.runs = line \cup {r}
  BY <1>3, <1>6 DEF Journal
<1>10. produced' \in [Runs -> Nat \cup {-1}] /\ produced'[r] = 0
       /\ \A q \in Runs : q # r => produced'[q] = produced[q]
  BY <1>2, <1>3 DEF RecoveryInv, RecoveryTyped
<1>11. todo = {}
  BY DEF RecoveryInv, TurnPlaces
<1> HIDE DEF r, j
<1>12. RecoveryTyped'
  BY <1>2, <1>3, <1>4, <1>7, <1>9, <1>10, <1>11
     DEF RecoveryInv, RecoveryTyped, Place
<1>13. RunsInOrder'
  <2>1. \A q \in DOMAIN journals' : journals'[q].runs \subseteq 1..q
    BY <1>3, <1>6, <1>7, <1>9 DEF RecoveryInv, RunsInOrder
  <2> QED BY <1>2, <1>3, <1>4, <2>1 DEF RunsInOrder
<1>14. TurnPlaces'
  BY <1>2, <1>3, <1>7, <1>8, <1>9, <1>11 DEF TurnPlaces
<1>15. JournalsTrue'
  <2>1. \A q \in DOMAIN journals : q # r /\ q \in Runs
    BY <1>7 DEF RecoveryInv, RecoveryTyped, Started
  <2> QED BY <1>7, <1>8, <1>9, <1>10, <2>1 DEF RecoveryInv, JournalsTrue
<1>16. LogSound'
  BY <1>4 DEF RecoveryInv, LogSound
<1>17. CheckpointOnce'
  <2>1. ~CheckpointSaved(r)
    BY <1>3 DEF RecoveryInv, LogSound, CheckpointSaved, Checkpoints
  <2> QED BY <1>2, <1>5, <2>1 DEF CheckpointOnce
<1>18. ResumedOnce'
  BY <1>5 DEF RecoveryInv, ResumedOnce
<1>19. NothingDropped'
  <2>1. \A n \in 1..produced'[r] : FALSE
    BY <1>10
  <2> QED BY <1>5, <1>7, <1>10, <2>1 DEF RecoveryInv, NothingDropped
<1>20. NothingTwice'
  BY DEF RecoveryInv, NothingTwice
<1> QED BY <1>12, <1>13, <1>14, <1>15, <1>16, <1>17, <1>18, <1>19, <1>20
   DEF RecoveryInv

\* A turn starts at the prompt, after a consumption, or over a rejected answer.
LEMMA TurnsStartKeep ==
  ASSUME RecoveryInv, NewTurn \/ StartResumed \/ Repair
  PROVE  RecoveryInv'
<1>1. history \in SUBSET Started /\ lineage \in SUBSET Started
  BY DEF RecoveryInv, RecoveryTyped
<1>2. CASE NewTurn
  BY <1>1, <1>2, StartRunKeeps DEF NewTurn
<1>3. CASE StartResumed
  BY <1>1, <1>3, StartRunKeeps DEF StartResumed
<1>4. CASE Repair
  BY <1>1, <1>4, StartRunKeeps DEF Repair
<1> QED BY <1>2, <1>3, <1>4

\* A message is saved, or the outcome of the run: its journal is written.
LEMMA JournalKeeps ==
  ASSUME RecoveryInv, Produce \/ \E stopped \in BOOLEAN : RunEnds(stopped)
  PROVE  RecoveryInv'
<1>1. place = "running" /\ run \in DOMAIN journals /\ run \in Runs /\ run # 0
      /\ run \in Started /\ run \notin cutoff
  <2>1. place = "running"
    BY DEF Produce, RunEnds
  <2>2. run \in DOMAIN journals /\ run \notin cutoff /\ run # 0
    BY <2>1 DEF RecoveryInv, TurnPlaces
  <2> QED BY <2>1, <2>2, RunIsRun
<1>2. UNCHANGED <<log, run, turn, cp, todo, history, lineage, resumed>>
  BY DEF Produce, RunEnds, session
<1>3. /\ Logged' = Logged /\ Checkpoints' = Checkpoints /\ Consumed' = Consumed
      /\ Discover' = Discover
      /\ \A q : CheckpointSaved(q)' <=> CheckpointSaved(q)
  BY <1>2, SameLog
<1>4. /\ DOMAIN journals' = DOMAIN journals
      /\ \A q \in DOMAIN journals : q # run => journals'[q] = journals[q]
  BY DEF Produce, RunEnds
<1>5. /\ journals[run] \in Journal /\ journals'[run] \in Journal
      /\ journals'[run].runs = journals[run].runs
      /\ journals'[run].n = produced'[run]
      /\ produced' \in [Runs -> Nat \cup {-1}]
      /\ produced'[run] # -1
      /\ \A q \in Runs : q # run => produced'[q] = produced[q]
      /\ \/ /\ place' = "running" /\ cutoff' = cutoff
            /\ journals'[run].finished = journals[run].finished
         \/ /\ place' = "persisting"
            /\ cutoff' = IF journals'[run].stopped THEN cutoff \cup {run} ELSE cutoff
  <2>1. journals[run] \in Journal /\ journals[run].n = produced[run] /\ produced[run] \in Nat
    BY <1>1 DEF RecoveryInv, RecoveryTyped, JournalsTrue, Started
  <2>2. CASE Produce
    <3>1. /\ journals' = [journals EXCEPT ![run].n = @ + 1]
          /\ produced' = [produced EXCEPT ![run] = @ + 1]
          /\ place' = place /\ cutoff' = cutoff
      BY <2>2 DEF Produce, session
    <3>2. produced' \in [Runs -> Nat \cup {-1}] /\ produced'[run] = produced[run] + 1
          /\ \A q \in Runs : q # run => produced'[q] = produced[q]
      BY <1>1, <2>1, <3>1 DEF RecoveryInv, RecoveryTyped
    <3>3. journals'[run] = [journals[run] EXCEPT !.n = @ + 1]
      BY <1>1, <3>1
    <3> QED BY <1>1, <2>1, <3>1, <3>2, <3>3 DEF Journal
  <2>3. ASSUME NEW stopped \in BOOLEAN, RunEnds(stopped)
        PROVE  /\ journals'[run] \in Journal
               /\ journals'[run].runs = journals[run].runs
               /\ journals'[run].n = produced'[run]
               /\ produced' = produced
               /\ place' = "persisting"
               /\ cutoff' = IF journals'[run].stopped THEN cutoff \cup {run} ELSE cutoff
    <3>1. /\ journals' = [journals EXCEPT ![run].finished = TRUE, ![run].stopped = stopped]
          /\ place' = "persisting" /\ produced' = produced
          /\ cutoff' = IF stopped THEN cutoff \cup {run} ELSE cutoff
      BY <2>3 DEF RunEnds
    <3>2. journals'[run] = [journals[run] EXCEPT !.finished = TRUE, !.stopped = stopped]
      BY <1>1, <3>1
    <3> QED BY <1>1, <2>1, <3>1, <3>2 DEF Journal
  <2>4. produced \in [Runs -> Nat \cup {-1}]
    BY DEF RecoveryInv, RecoveryTyped
  <2> QED BY <2>1, <2>2, <2>3, <2>4
<1>6. Started' = Started
  <2>1. produced[run] # -1 /\ produced \in [Runs -> Nat \cup {-1}]
    BY <1>1 DEF Started, RecoveryInv, RecoveryTyped
  <2> QED BY <1>1, <1>5, <2>1 DEF Started
<1>7. RecoveryTyped'
  <2>1. journals' \in [DOMAIN journals' -> Journal]
    <3>1. journals' = [q \in DOMAIN journals |-> journals'[q]]
      BY DEF Produce, RunEnds, RecoveryInv, RecoveryTyped
    <3>2. \A q \in DOMAIN journals : journals'[q] \in Journal
      BY <1>4, <1>5 DEF RecoveryInv, RecoveryTyped
    <3> QED BY <1>4, <3>1, <3>2
  <2>2. cutoff' \subseteq Started' /\ place' \in Place
    BY <1>1, <1>5, <1>6 DEF RecoveryInv, RecoveryTyped, Place
  <2> QED BY <1>2, <1>4, <1>5, <1>6, <2>1, <2>2 DEF RecoveryInv, RecoveryTyped
<1>8. RunsInOrder'
  BY <1>2, <1>4, <1>5, <1>6 DEF RecoveryInv, RunsInOrder
<1>9. TurnPlaces'
  BY <1>1, <1>2, <1>4, <1>5 DEF RecoveryInv, TurnPlaces
<1>10. JournalsTrue'
  <2>1. \A q \in DOMAIN journals : q \in Runs
    BY DEF RecoveryInv, RecoveryTyped, Started
  <2>2. run \in cutoff' => journals'[run].stopped
    BY <1>1, <1>5
  <2>3. \A q : q # run => (q \in cutoff' => q \in cutoff)
    BY <1>5
  <2> QED BY <1>1, <1>4, <1>5, <2>1, <2>2, <2>3 DEF RecoveryInv, JournalsTrue
<1>11. LogSound'
  BY <1>2, <1>6 DEF RecoveryInv, LogSound
<1>12. CheckpointOnce'
  BY <1>1, <1>2, <1>3, <1>5 DEF RecoveryInv, CheckpointOnce
<1>13. ResumedOnce'
  BY <1>2, <1>3 DEF RecoveryInv, ResumedOnce
<1>14. NothingDropped'
  BY <1>1, <1>3, <1>4, <1>5 DEF RecoveryInv, NothingDropped
<1>15. NothingTwice'
  BY <1>2 DEF RecoveryInv, NothingTwice
<1> QED BY <1>7, <1>8, <1>9, <1>10, <1>11, <1>12, <1>13, <1>14, <1>15 DEF RecoveryInv

-----------------------------------------------------------------------------
(* Commits. *)

\* No event repeats one of the log: a commit keeps that for an event that is new
\* of its kind.
LEMMA NothingTwiceGrows ==
  ASSUME RecoveryInv, NEW e \in Entry, Commit(e), resumed' = resumed,
         e.kind = "record" => e \notin Logged,
         e.kind = "checkpoint" => \A i \in Checkpoints : log[i].run # e.run
  PROVE  NothingTwice'
<1>1. /\ Len(log) \in Nat /\ DOMAIN log = 1..Len(log) /\ DOMAIN log' = 1..(Len(log) + 1)
      /\ \A i \in DOMAIN log : log'[i] = log[i]
      /\ log'[Len(log) + 1] = e
  BY CommitAppends DEF RecoveryInv, RecoveryTyped
<1>2. \A i \in DOMAIN log : log[i] \in Logged
  BY DEF Logged
<1>3. \A i \in DOMAIN log : log[i].kind = "checkpoint" => i \in Checkpoints
  BY DEF Checkpoints
<1>4. ASSUME NEW i \in DOMAIN log', NEW k \in DOMAIN log', i # k,
             log'[i].kind = log'[k].kind
      PROVE  /\ log'[i].kind = "record" => log'[i] # log'[k]
             /\ log'[i].kind = "checkpoint" => log'[i].run # log'[k].run
  <2>1. CASE i \in DOMAIN log /\ k \in DOMAIN log
    <3>1. log'[i] = log[i] /\ log'[k] = log[k]
      BY <1>1, <2>1
    <3> QED BY <1>4, <2>1, <3>1 DEF RecoveryInv, NothingTwice
  <2>2. CASE i = Len(log) + 1 /\ k \in DOMAIN log
    BY <1>1, <1>2, <1>3, <1>4, <2>2
  <2>3. CASE k = Len(log) + 1 /\ i \in DOMAIN log
    BY <1>1, <1>2, <1>3, <1>4, <2>3
  <2> QED BY <1>1, <1>4, <2>1, <2>2, <2>3
<1> QED BY <1>4 DEF RecoveryInv, NothingTwice

\* What is lacking are messages that are not in the log.
LEMMA LackingIsNew ==
  ASSUME RecoveryInv, NEW rs, NEW e \in Lacking(rs)
  PROVE  e \in Entry /\ e.kind = "record" /\ e \notin Logged
<1>1. e \notin Logged
  BY DEF Lacking
<1>2. PICK r \in DOMAIN journals : e \in Required(r)
  BY DEF Lacking
<1>3. r \in Runs /\ journals[r].n \in Nat
  BY DEF RecoveryInv, RecoveryTyped, Started, Journal
<1>4. \E n \in Nat : e = Record(r, n)
  <2>1. \/ \E n \in 1..journals[r].n : e = Record(r, n)
        \/ e = Record(r, 0)
    BY <1>2, Zenon DEF Required
  <2>2. \A n \in 1..journals[r].n : n \in Nat
    BY <1>3
  <2>3. 0 \in Nat
    OBVIOUS
  <2> QED BY <2>1, <2>2, <2>3, Zenon
<1> QED BY <1>1, <1>3, <1>4, EntryKinds

\* A message is committed, after a run or in recovery.
LEMMA RecordKeeps ==
  ASSUME RecoveryInv, PersistRecord \/ RecoverRecord
  PROVE  RecoveryInv'
<1>1. PICK e : /\ e \in Entry /\ e.kind = "record" /\ e \notin Logged
               /\ Commit(e)
  BY LackingIsNew DEF PersistRecord, RecoverRecord
<1>2. UNCHANGED <<journals, place, run, turn, cp, todo, history, lineage, resumed, produced, cutoff>>
  BY DEF PersistRecord, RecoverRecord, session, account
<1>3. log \in Seq(Entry)
  BY DEF RecoveryInv, RecoveryTyped
<1>4. /\ log' \in Seq(Entry) /\ Len(log) \in Nat /\ Len(log') = Len(log) + 1
      /\ DOMAIN log = 1..Len(log) /\ DOMAIN log' = 1..(Len(log) + 1)
      /\ \A i \in DOMAIN log : log'[i] = log[i]
      /\ log'[Len(log) + 1] = e
      /\ Logged \subseteq Logged'
  BY <1>1, <1>3, CommitAppends
<1>5. /\ Checkpoints' = Checkpoints /\ Consumed' = Consumed
      /\ Discover' = Discover
      /\ \A r : CheckpointSaved(r)' <=> CheckpointSaved(r)
      /\ \A i \in Checkpoints : log'[i] = log[i]
  BY <1>1, <1>3, RecordCommitted
<1>6. Started' = Started
  BY <1>2 DEF Started
<1>7. RecoveryTyped' /\ RunsInOrder' /\ TurnPlaces' /\ JournalsTrue'
  BY <1>2, <1>4, <1>6 DEF RecoveryInv, RecoveryTyped, RunsInOrder, TurnPlaces, JournalsTrue
<1>8. LogSound'
  <2>1. \A n \in 1..Len(log) : n \in 1..Len(log')
    BY <1>4
  <2>2. \A i \in DOMAIN log' : i \in DOMAIN log \/ log'[i] = e
    BY <1>4
  <2> QED BY <1>1, <1>4, <1>6, <2>1, <2>2 DEF RecoveryInv, LogSound
<1>9. CheckpointOnce'
  <2>1. AlreadySaved => AlreadySaved'
    <3>1. Discover # 0 => Discover \in Checkpoints
      BY <1>3, <1>4, DiscoverSound DEF Checkpoints
    <3> QED BY <1>2, <1>5, <3>1 DEF AlreadySaved
  <2> QED BY <1>2, <1>5, <2>1 DEF RecoveryInv, CheckpointOnce
<1>10. ResumedOnce'
  BY <1>2, <1>4, <1>5 DEF RecoveryInv, ResumedOnce
<1>11. NothingDropped'
  BY <1>2, <1>4, <1>5 DEF RecoveryInv, NothingDropped
<1>12. NothingTwice'
  BY <1>1, <1>2, NothingTwiceGrows
<1> QED BY <1>7, <1>8, <1>9, <1>10, <1>11, <1>12 DEF RecoveryInv

\* A checkpoint is committed for a run that no checkpoint holds.
LEMMA CheckpointKeeps ==
  ASSUME RecoveryInv, NEW r \in Runs, NEW rs \in SUBSET Started, r \in rs,
         ~CheckpointSaved(r), Commit(CheckpointEvent(r, rs)),
         UNCHANGED <<journals, todo, history, resumed, produced, cutoff>>,
         place' \in Place, run' \in {0, run}, lineage' \subseteq Started,
         cp' \in {0, cp, Len(log')},
         TurnPlaces', CheckpointOnce'
  PROVE  RecoveryInv'
<1> DEFINE e == CheckpointEvent(r, rs)
<1>1. log \in Seq(Entry) /\ LogSound /\ rs \in SUBSET Runs
  BY DEF RecoveryInv, RecoveryTyped, Started
<1>2. e \in Entry /\ e.kind = "checkpoint" /\ e.run = r /\ e.runs = rs
  BY <1>1, EntryKinds
<1>3. /\ log' \in Seq(Entry) /\ Len(log) \in Nat /\ Len(log') = Len(log) + 1
      /\ DOMAIN log = 1..Len(log) /\ DOMAIN log' = 1..(Len(log) + 1)
      /\ \A i \in DOMAIN log : log'[i] = log[i]
      /\ log'[Len(log) + 1] = e
      /\ Logged \subseteq Logged'
  BY <1>1, <1>2, CommitAppends
<1>4. /\ Consumed' = Consumed /\ Consumed \subseteq 1..Len(log)
      /\ \A q : CheckpointSaved(q)' <=> CheckpointSaved(q) \/ q \in rs
  BY <1>1, CheckpointCommitted
<1>5. Started' = Started
  BY DEF Started
<1> HIDE DEF e
<1>6. RecoveryTyped'
  <2>1. run' \in 0..MaxRuns /\ cp' \in Nat
    BY <1>3, RecoveryBounds DEF RecoveryInv, RecoveryTyped
  <2> QED BY <1>3, <1>5, <2>1 DEF RecoveryInv, RecoveryTyped
<1>7. RunsInOrder' /\ JournalsTrue'
  BY <1>5 DEF RecoveryInv, RunsInOrder, JournalsTrue
<1>8. LogSound'
  <2>1. \A n \in 1..Len(log) : n \in 1..Len(log')
    BY <1>3
  <2>2. \A i \in DOMAIN log' : i \in DOMAIN log \/ log'[i] = e
    BY <1>3
  <2> QED BY <1>1, <1>2, <1>3, <1>5, <2>1, <2>2 DEF LogSound
<1>9. ResumedOnce'
  <2>1. CASE cp' = Len(log')
    <3>1. cp' = Len(log) + 1 /\ cp' \in 1..Len(log') /\ cp' \notin Consumed'
      BY <1>3, <1>4, <2>1
    <3> QED BY <1>2, <1>3, <1>4, <3>1 DEF RecoveryInv, ResumedOnce
  <2>2. CASE cp' \in {0, cp}
    BY <1>3, <1>4, <2>2 DEF RecoveryInv, ResumedOnce
  <2> QED BY <2>1, <2>2
<1>10. NothingDropped'
  BY <1>3, <1>4 DEF RecoveryInv, NothingDropped
<1>11. NothingTwice'
  <2>1. \A i \in Checkpoints : log[i].run # r
    BY <1>1 DEF LogSound, CheckpointSaved, Checkpoints
  <2> QED BY <1>2, <2>1, NothingTwiceGrows DEF e
<1> QED BY <1>6, <1>7, <1>8, <1>9, <1>10, <1>11 DEF RecoveryInv

\* The oldest journal is one of those to handle, and none is older.
LEMMA OldestIs ==
  ASSUME RecoveryInv, todo # {}
  PROVE  Oldest \in todo /\ \A q \in todo : Oldest <= q
<1>1. todo \in SUBSET Nat
  BY DEF RecoveryInv, RecoveryTyped, Started, Runs
<1>2. PICK r \in todo : \A q \in todo : r <= q
  BY <1>1, LeastNatural
<1> QED BY <1>2 DEF Oldest

\* The checkpoint of the outcome of a turn.
LEMMA StoreCheckpointKeeps ==
  ASSUME RecoveryInv, StoreCheckpoint
  PROVE  RecoveryInv'
<1>1. place = "saving" /\ ~AlreadySaved /\ Commit(CheckpointEvent(run, lineage))
      /\ cp' \in {0, Len(log')} /\ UNCHANGED <<journals, todo, history, resumed, produced, cutoff>>
      /\ place' = "idle" /\ run' = 0 /\ turn' = {} /\ lineage' = {}
  BY DEF StoreCheckpoint, Back, account
<1>2. run # 0 /\ run \in lineage /\ todo = {}
  BY <1>1 DEF RecoveryInv, TurnPlaces
<1>3. run \in Runs /\ lineage \in SUBSET Started
  BY <1>2, RunIsRun DEF RecoveryInv, RecoveryTyped
<1>4. ~CheckpointSaved(run)
  BY <1>1 DEF RecoveryInv, CheckpointOnce
<1>5. TurnPlaces' /\ CheckpointOnce'
  BY <1>1, <1>2 DEF TurnPlaces, CheckpointOnce
<1>6. place' \in Place /\ lineage' \subseteq Started
  BY <1>1 DEF Place
<1> QED BY <1>1, <1>2, <1>3, <1>4, <1>5, <1>6, CheckpointKeeps

\* The checkpoint that recovery makes of a journal.  Those of older runs do not
\* hold the current run, and its own is the last one.
LEMMA RecoverCheckpointKeeps ==
  ASSUME RecoveryInv, RecoverCheckpoint
  PROVE  RecoveryInv'
<1> DEFINE r == Oldest
           rs == journals[r].runs
<1>1. place = "recovering" /\ todo # {} /\ NeedsCheckpoint(r) /\ Commit(CheckpointEvent(r, rs))
      /\ UNCHANGED <<journals, place, run, turn, cp, todo, history, lineage, resumed, produced, cutoff>>
  BY DEF RecoverCheckpoint, Recovering, session, account
<1>2. r \in todo /\ \A q \in todo : r <= q
  BY <1>1, OldestIs
<1> HIDE DEF r
<1>3. r \in DOMAIN journals /\ r \in Runs /\ rs \subseteq 1..r /\ r \in rs /\ r \in Started
  BY <1>2 DEF RecoveryInv, RecoveryTyped, RunsInOrder, JournalsTrue, Started
<1>4. PICK k \in 0..MaxRuns : Started = 1..k /\ (run # 0 => run = k)
  BY DEF RecoveryInv, RunsInOrder
<1>5. rs \in SUBSET Started
  BY <1>3, <1>4, RecoveryBounds DEF Runs
<1>6. ~CheckpointSaved(r)
  BY <1>1 DEF NeedsCheckpoint
<1>7. TurnPlaces'
  BY <1>1 DEF RecoveryInv, TurnPlaces
<1>8. CheckpointOnce'
  <2> SUFFICES ASSUME run # 0
               PROVE  \/ run \in todo /\ ~CheckpointSaved(run)'
                      \/ todo \subseteq {run} /\ AlreadySaved'
    BY <1>1 DEF CheckpointOnce
  <2>1. log \in Seq(Entry) /\ LogSound /\ rs \in SUBSET Runs
    BY <1>5 DEF RecoveryInv, RecoveryTyped, Started
  <2>2. /\ Discover' = Len(log) + 1 /\ Len(log) \in Nat
        /\ log'[Len(log) + 1] = CheckpointEvent(r, rs)
        /\ \A q : CheckpointSaved(q)' <=> CheckpointSaved(q) \/ q \in rs
    BY <1>1, <1>3, <2>1, CheckpointCommitted
  <2>3. CASE r = run
    <3>1. \A q \in todo : q = run
      <4>1. \A q \in todo : q \in 1..run /\ run <= q
        BY <1>2, <1>4, <2>3 DEF RecoveryInv, RecoveryTyped
      <4>2. run \in Nat
        BY <1>4, RecoveryBounds
      <4> QED BY <4>1, <4>2
    <3>2. AlreadySaved'
      BY <1>1, <1>3, <2>1, <2>2, <2>3, EntryKinds DEF AlreadySaved
    <3> QED BY <3>1, <3>2
  <2>4. CASE r # run
    <3>1. run \in todo /\ ~CheckpointSaved(run)
      BY <1>1, <1>2, <2>4 DEF RecoveryInv, CheckpointOnce
    <3>2. run \notin rs
      <4>1. r <= run /\ run \in Nat /\ r \in Nat
        BY <1>2, <1>3, <1>4, <3>1, RecoveryBounds DEF Runs
      <4>2. run \notin 1..r
        BY <2>4, <4>1
      <4> QED BY <1>3, <4>2
    <3>3. run' = run
      BY <1>1
    <3> QED BY <2>2, <3>1, <3>2, <3>3
  <2> QED BY <2>3, <2>4
<1>9. place' \in Place /\ lineage' \subseteq Started
  BY <1>1 DEF RecoveryInv, RecoveryTyped
<1> QED BY <1>1, <1>3, <1>5, <1>6, <1>7, <1>8, <1>9, CheckpointKeeps

\* A checkpoint is consumed, and resumed or lost to this session.
LEMMA ConsumeKeeps ==
  ASSUME RecoveryInv, place = "idle", cp # 0, Commit(ConsumedEvent(cp)), cp' = 0,
         place' \in {"idle", "consumed"}, resumed' \in {resumed, Append(resumed, cp)},
         lineage' \subseteq Started,
         UNCHANGED <<journals, run, turn, todo, history, produced, cutoff>>
  PROVE  RecoveryInv'
<1> DEFINE e == ConsumedEvent(cp)
<1>1. log \in Seq(Entry) /\ cp \in Nat /\ cp \notin Consumed /\ cp \in 1..Len(log)
  BY DEF RecoveryInv, RecoveryTyped, ResumedOnce
<1>2. e \in Entry /\ e.kind = "consumed" /\ e.of = cp
  BY <1>1, EntryKinds
<1>3. /\ log' \in Seq(Entry) /\ Len(log) \in Nat /\ Len(log') = Len(log) + 1
      /\ DOMAIN log = 1..Len(log) /\ DOMAIN log' = 1..(Len(log) + 1)
      /\ \A i \in DOMAIN log : log'[i] = log[i]
      /\ log'[Len(log) + 1] = e
      /\ Logged \subseteq Logged'
  BY <1>1, <1>2, CommitAppends
<1>4. /\ Consumed' = Consumed \cup {cp}
      /\ \A r : CheckpointSaved(r)' <=> CheckpointSaved(r)
  BY <1>1, ConsumptionCommitted
<1>5. Started' = Started
  BY DEF Started
<1>6. run = 0 /\ turn = {} /\ todo = {}
  BY DEF RecoveryInv, TurnPlaces
<1>7. /\ resumed' \in Seq(Nat)
      /\ \A i \in DOMAIN resumed' :
           \/ i \in DOMAIN resumed /\ resumed'[i] = resumed[i]
           \/ i = Len(resumed) + 1 /\ resumed'[i] = cp
  <2>1. resumed \in Seq(Nat)
    BY DEF RecoveryInv, RecoveryTyped
  <2>2. CASE resumed' = Append(resumed, cp)
    BY <1>1, <2>1, <2>2
  <2> QED BY <2>1, <2>2
<1> HIDE DEF e
<1>8. RecoveryTyped' /\ RunsInOrder' /\ TurnPlaces' /\ JournalsTrue'
  <2>1. RecoveryTyped'
    BY <1>3, <1>5, <1>7 DEF RecoveryInv, RecoveryTyped, Place
  <2>2. RunsInOrder' /\ JournalsTrue'
    BY <1>5 DEF RecoveryInv, RunsInOrder, JournalsTrue
  <2>3. TurnPlaces'
    BY <1>6 DEF TurnPlaces
  <2> QED BY <2>1, <2>2, <2>3
<1>9. LogSound'
  <2>1. \A n \in 1..Len(log) : n \in 1..Len(log')
    BY <1>3
  <2>2. \A i \in DOMAIN log' : i \in DOMAIN log \/ log'[i] = e
    BY <1>3
  <2> QED BY <1>1, <1>2, <1>3, <1>5, <2>1, <2>2 DEF RecoveryInv, LogSound
<1>10. CheckpointOnce'
  BY <1>6 DEF CheckpointOnce
<1>11. ResumedOnce'
  BY <1>4, <1>7 DEF RecoveryInv, ResumedOnce
<1>12. NothingDropped'
  BY <1>3, <1>4 DEF RecoveryInv, NothingDropped
<1>13. NothingTwice'
  <2>1. \A i, k \in DOMAIN log' : i # k /\ log'[i].kind = log'[k].kind =>
          /\ log'[i].kind = "record" => log'[i] # log'[k]
          /\ log'[i].kind = "checkpoint" => log'[i].run # log'[k].run
    <3>1. \A i \in DOMAIN log' : log'[i].kind # "consumed" => i \in DOMAIN log
      BY <1>2, <1>3
    <3>2. \A i, k \in DOMAIN log : i # k /\ log[i].kind = log[k].kind =>
            /\ log[i].kind = "record" => log[i] # log[k]
            /\ log[i].kind = "checkpoint" => log[i].run # log[k].run
      BY DEF RecoveryInv, NothingTwice
    <3> QED BY <1>3, <3>1, <3>2
  <2>2. \A i, k \in DOMAIN resumed' : i # k => resumed'[i] # resumed'[k]
    <3>1. \A i \in DOMAIN resumed : resumed[i] # cp
      BY <1>1 DEF RecoveryInv, ResumedOnce
    <3> QED BY <1>7, <3>1 DEF RecoveryInv, NothingTwice
  <2> QED BY <2>1, <2>2 DEF NothingTwice
<1> QED BY <1>8, <1>9, <1>10, <1>11, <1>12, <1>13 DEF RecoveryInv

\* Consume and its indeterminate variant.
LEMMA ConsumptionsKeep ==
  ASSUME RecoveryInv, Consume \/ ConsumeIndeterminate
  PROVE  RecoveryInv'
<1>1. CASE Consume
  <2>1. log[cp].runs \subseteq Started
    BY <1>1 DEF Consume, RecoveryInv, RecoveryTyped, ResumedOnce, LogSound
  <2> QED BY <1>1, <2>1, ConsumeKeeps DEF Consume
<1>2. CASE ConsumeIndeterminate /\ Commit(ConsumedEvent(cp))
  <2>1. lineage \subseteq Started
    BY DEF RecoveryInv, RecoveryTyped
  <2> QED BY <1>2, <2>1, ConsumeKeeps DEF ConsumeIndeterminate, account
<1>3. CASE ConsumeIndeterminate /\ log' = log
  <2>1. SessionStep
    BY <1>3 DEF ConsumeIndeterminate, account, SessionStep, RecoveryInv, RecoveryTyped
  <2>2. run = 0 /\ run' = 0 /\ turn' = turn /\ place' = "idle" /\ todo' = {} /\ turn = {}
    BY <1>3 DEF ConsumeIndeterminate, RecoveryInv, TurnPlaces
  <2>3. TurnPlaces' /\ CheckpointOnce'
    BY <2>2 DEF TurnPlaces, CheckpointOnce
  <2> QED BY <2>1, <2>3, SessionStepKeeps
<1> QED BY <1>1, <1>2, <1>3 DEF ConsumeIndeterminate

-----------------------------------------------------------------------------
(* Journals are dropped. *)

\* A journal goes when its messages are in the log, and that of a run cut short
\* only when a checkpoint holds the run.
LEMMA DropKeeps ==
  ASSUME RecoveryInv, NEW S, journals' = Without(S),
         \A r \in S \cap DOMAIN journals :
           Required(r) \subseteq Logged /\ (r \in cutoff => CheckpointSaved(r)),
         UNCHANGED <<log, run, turn, cp, history, lineage, resumed, produced, cutoff>>,
         place' \in Place, todo' \subseteq DOMAIN journals \ S,
         TurnPlaces', CheckpointOnce'
  PROVE  RecoveryInv'
<1>1. /\ Logged' = Logged /\ Checkpoints' = Checkpoints /\ Consumed' = Consumed
      /\ \A r : CheckpointSaved(r)' <=> CheckpointSaved(r)
  BY SameLog
<1>2. Started' = Started
  BY DEF Started
<1>3. /\ DOMAIN journals' = DOMAIN journals \ S
      /\ journals' = [r \in DOMAIN journals \ S |-> journals[r]]
      /\ \A r \in DOMAIN journals' : journals'[r] = journals[r]
  BY DEF Without
<1>4. RecoveryTyped'
  BY <1>2, <1>3 DEF RecoveryInv, RecoveryTyped
<1>5. RunsInOrder' /\ JournalsTrue'
  BY <1>2, <1>3 DEF RecoveryInv, RunsInOrder, JournalsTrue
<1>6. LogSound'
  BY <1>2 DEF RecoveryInv, LogSound
<1>7. ResumedOnce' /\ NothingTwice'
  BY <1>1 DEF RecoveryInv, ResumedOnce, NothingTwice
<1>8. NothingDropped'
  <2>1. \A r \in S \cap DOMAIN journals : \A n \in 1..produced[r] : Record(r, n) \in Logged
    BY DEF RecoveryInv, JournalsTrue, Required
  <2> QED BY <1>1, <1>3, <2>1 DEF RecoveryInv, NothingDropped
<1> QED BY <1>4, <1>5, <1>6, <1>7, <1>8 DEF RecoveryInv

\* Completed ordinary runs may go.
LEMMA CompleteMayGo ==
  ASSUME RecoveryInv, NEW r \in Complete
  PROVE  r \in DOMAIN journals /\ Required(r) \subseteq Logged /\ r \notin cutoff
BY DEF Complete, Ordinary, RecoveryInv, JournalsTrue

\* persist and recover_thread drop journals.
LEMMA DropsKeep ==
  ASSUME RecoveryInv, PersistDone \/ RecoverClear
  PROVE  RecoveryInv'
<1>1. AlreadySaved' <=> AlreadySaved
  BY SameLog DEF PersistDone, RecoverClear, AlreadySaved
<1>2. \A q : CheckpointSaved(q)' <=> CheckpointSaved(q)
  BY SameLog DEF PersistDone, RecoverClear
<1>3. CASE PersistDone
  <2>1. /\ place = "persisting" /\ place' = "saving" /\ journals' = Without(Complete) /\ todo' = todo
        /\ UNCHANGED <<log, run, turn, cp, history, lineage, resumed, produced, cutoff>>
    BY <1>3 DEF PersistDone, account
  <2>2. todo = {} /\ run # 0
    BY <2>1 DEF RecoveryInv, TurnPlaces
  <2>3. TurnPlaces'
    BY <2>1, <2>2 DEF RecoveryInv, TurnPlaces
  <2>4. CheckpointOnce'
    BY <1>1, <1>2, <2>1 DEF RecoveryInv, CheckpointOnce
  <2>5. place' \in Place
    BY <2>1 DEF Place
  <2> QED BY <2>1, <2>2, <2>3, <2>4, <2>5, CompleteMayGo, DropKeeps
<1>4. CASE RecoverClear
  <2> DEFINE r == Oldest
             S == Complete \cup {r}
  <2>1. /\ place = "recovering" /\ todo # {} /\ Lacking({r}) = {} /\ ~NeedsCheckpoint(r)
        /\ journals' = Without(S) /\ todo' = todo \ S /\ place' = place
        /\ UNCHANGED <<log, run, turn, cp, history, lineage, resumed, produced, cutoff>>
    BY <1>4 DEF RecoverClear, Recovering, account
  <2>2. r \in todo /\ r \in DOMAIN journals
    BY <2>1, OldestIs DEF RecoveryInv, RecoveryTyped
  <2> HIDE DEF r
  <2>3. Required(r) \subseteq Logged
    BY <2>1, <2>2 DEF Lacking
  <2>4. r \in cutoff => CheckpointSaved(r)
    BY <2>1, <2>2 DEF NeedsCheckpoint, RecoveryInv, JournalsTrue
  <2>5. \A q \in S \cap DOMAIN journals :
          Required(q) \subseteq Logged /\ (q \in cutoff => CheckpointSaved(q))
    BY <2>3, <2>4, CompleteMayGo
  <2>6. TurnPlaces'
    BY <2>1 DEF RecoveryInv, TurnPlaces
  <2>7. CheckpointOnce'
    <3> SUFFICES ASSUME run # 0
                 PROVE  \/ run \in todo' /\ ~CheckpointSaved(run)
                        \/ todo' \subseteq {run} /\ AlreadySaved
      BY <1>1, <1>2, <2>1 DEF CheckpointOnce
    <3>1. run \in cutoff
      BY <2>1 DEF RecoveryInv, TurnPlaces
    <3>2. run \notin Complete
      BY <3>1, CompleteMayGo
    <3>3. CASE run \in todo /\ ~CheckpointSaved(run)
      <4>1. run # r
        BY <2>4, <3>1, <3>3
      <4> QED BY <2>1, <3>2, <3>3, <4>1
    <3>4. CASE todo \subseteq {run} /\ AlreadySaved
      BY <2>1, <3>4
    <3> QED BY <2>1, <3>3, <3>4 DEF RecoveryInv, CheckpointOnce
  <2>8. place' \in Place /\ todo' \subseteq DOMAIN journals \ S
    BY <2>1 DEF RecoveryInv, RecoveryTyped
  <2> HIDE DEF S
  <2> QED BY <2>1, <2>5, <2>6, <2>7, <2>8, DropKeeps
<1> QED BY <1>3, <1>4

-----------------------------------------------------------------------------

\* Every step keeps the invariant.
LEMMA RecoveryInvHolds == RecoverySpec => []RecoveryInv
<1>1. RecoveryInit => RecoveryInv
  <2> SUFFICES ASSUME RecoveryInit  PROVE  RecoveryInv
    OBVIOUS
  <2> USE DEF RecoveryInit
  <2>1. Started = {} /\ Started = 1..0 /\ 0 \in 0..MaxRuns
    BY RecoveryBounds DEF Started
  <2>2. DOMAIN log = {} /\ DOMAIN journals = {} /\ DOMAIN resumed = {} /\ log \in Seq(Entry) /\ resumed \in Seq(Nat)
    OBVIOUS
  <2>3. RecoveryTyped
    BY <2>1, <2>2 DEF RecoveryTyped, Place
  <2>4. RunsInOrder /\ TurnPlaces /\ JournalsTrue /\ LogSound /\ CheckpointOnce
    BY <2>1, <2>2 DEF RunsInOrder, TurnPlaces, JournalsTrue, LogSound, CheckpointOnce
  <2>5. ResumedOnce /\ NothingTwice
    BY <2>2 DEF ResumedOnce, NothingTwice
  <2>6. NothingDropped
    <3>1. \A r \in Runs : \A n \in 1..produced[r] : FALSE
      OBVIOUS
    <3> QED BY <3>1 DEF NothingDropped
  <2> QED BY <2>3, <2>4, <2>5, <2>6 DEF RecoveryInv
<1>2. RecoveryInv /\ [RecoveryNext]_recoveryVars => RecoveryInv'
  <2> SUFFICES ASSUME RecoveryInv, [RecoveryNext]_recoveryVars  PROVE  RecoveryInv'
    OBVIOUS
  <2>1. CASE RecoveryNext
    BY <2>1, FailuresKeep, ReturnsKeep, RecoverDoneKeeps, TurnsStartKeep, JournalKeeps,
       RecordKeeps, StoreCheckpointKeeps, RecoverCheckpointKeeps, ConsumptionsKeep, DropsKeep
       DEF RecoveryNext, Turns, Recover
  <2>2. CASE UNCHANGED recoveryVars
    <3>1. SessionStep
      BY <2>2 DEF recoveryVars, durable, session, account, SessionStep, RecoveryInv, RecoveryTyped
    <3>2. TurnPlaces'
      BY <2>2 DEF recoveryVars, durable, session, account, RecoveryInv, TurnPlaces
    <3>3. CheckpointOnce'
      <4>1. (AlreadySaved' <=> AlreadySaved) /\ (CheckpointSaved(run)' <=> CheckpointSaved(run))
        BY <2>2, SameLog DEF recoveryVars, durable, session, AlreadySaved, CheckpointSaved
      <4> QED BY <2>2, <4>1 DEF recoveryVars, session, RecoveryInv, CheckpointOnce
    <3> QED BY <3>1, <3>2, <3>3, SessionStepKeeps
  <2> QED BY <2>1, <2>2
<1> QED BY <1>1, <1>2, PTL DEF RecoverySpec

\* A journal goes only when all it held is in the log, and a run that was stopped
\* or cut short has its journal until a checkpoint holds it, whatever crashes and
\* errors come between (persist, recover_thread).
THEOREM RecoveryDropsNothing == RecoverySpec => []NothingDropped
<1>1. RecoveryInv => NothingDropped
  BY DEF RecoveryInv
<1> QED BY <1>1, RecoveryInvHolds, PTL

\* No message is recorded twice, no run has two checkpoints, and no checkpoint is
\* resumed twice (persist, checkpoint_from_outcome, prepare_checkpoint_resume).
THEOREM RecoveryRepeatsNothing == RecoverySpec => []NothingTwice
<1>1. RecoveryInv => NothingTwice
  BY DEF RecoveryInv
<1> QED BY <1>1, RecoveryInvHolds, PTL

=============================================================================
