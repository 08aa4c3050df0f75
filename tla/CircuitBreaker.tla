--------------------------- MODULE CircuitBreaker ---------------------------
(***************************************************************************)
(* The circuit breakers of the chat loop (spine-cli: resilience.rs) and    *)
(* the order in which one turn consults them (main.rs).  A channel refuses *)
(* calls after too many failures in a row, and after a cooldown admits one *)
(* probe; whoever is admitted has to report back, or nobody is admitted    *)
(* again.  The loop asks `available' when a line arrives and much later    *)
(* asserts that `allow' admits the model call.                             *)
(*                                                                         *)
(* Time is the age of the last failure, which matters only up to the       *)
(* cooldown.  Memory and affect calls are synchronous: admission, call and *)
(* report are one step; a model call lasts.  total_failures is only shown. *)
(* A resume ends like a turn but neither updates the risk model nor        *)
(* maintains memory: those steps may be skipped.  An error that leaves the *)
(* loop (`?') ends the process and the breakers with it.                   *)
(***************************************************************************)
EXTENDS Naturals

CONSTANTS
  MaxFailures, \* channel -> maximum_failures
  Cooldown,    \* channel -> cooldown in ticks
  Never        \* last_failure is None

Channel == {"llm", "thymos", "dcmdb"}

ASSUME LimitAssumption == /\ MaxFailures \in [Channel -> Nat \ {0}]
                          /\ Cooldown \in [Channel -> Nat]
ASSUME NeverAssumption == Never \notin Nat

VARIABLES
  channel, \* channel -> state, consecutive failures, age of the last, probe
  at       \* where the turn is; "prompt" between turns

vars == <<channel, at>>

-----------------------------------------------------------------------------
(* One channel. *)

Closed == [state |-> "closed", failures |-> 0, age |-> Never, probe |-> FALSE]

CooledDown(c) == channel[c].age # Never /\ channel[c].age >= Cooldown[c]

\* Mutation of Available: the cooldown of an open channel is not looked at.
OpenForGood(c) ==
  \/ channel[c].state = "closed"
  \/ channel[c].state = "half-open" /\ ~channel[c].probe

Available(c) ==
  \/ channel[c].state = "closed"
  \/ channel[c].state = "open" /\ CooledDown(c)
  \/ channel[c].state = "half-open" /\ ~channel[c].probe

\* allow, once it says yes: an open channel becomes half-open with a probe.
Admitted(c) ==
  IF channel[c].state = "closed" THEN channel[c]
  ELSE [channel[c] EXCEPT !.state = "half-open", !.probe = TRUE]

\* The count is only compared with the limit, so it stops there.
OneMore(c, n) == IF n < MaxFailures[c] THEN n + 1 ELSE n

\* record_failure: a probe, or too many in a row, opens the channel.
Failed(c, ch) ==
  [state |-> IF ch.state = "half-open" \/ OneMore(c, ch.failures) = MaxFailures[c]
             THEN "open" ELSE ch.state,
   failures |-> OneMore(c, ch.failures), age |-> 0, probe |-> FALSE]

Cancelled(ch) ==
  IF ch.state = "half-open" /\ ch.probe
  THEN [state |-> "open", failures |-> ch.failures, age |-> 0, probe |-> FALSE]
  ELSE ch

Set(c, ch) == channel' = [channel EXCEPT ![c] = ch]

\* record_success and reset leave the same state.
RecordSuccess(c) == Set(c, Closed)
RecordFailure(c) == Set(c, Failed(c, channel[c]))

-----------------------------------------------------------------------------
(* A turn. *)

Go(from, to) == at = from /\ at' = to

\* A call that is skipped when its channel refuses.
Guarded(c, from, to) ==
  /\ Go(from, to)
  /\ \/ Available(c) /\ (RecordSuccess(c) \/ Set(c, Failed(c, Admitted(c))))
     \/ ~Available(c) /\ UNCHANGED channel

Skip(from, to) == Go(from, to) /\ UNCHANGED channel

\* Mutation of Accepts: the model channel is not asked.
LooksAvailable == Available("dcmdb")

\* Both a new turn and a resume ask for model and memory first.
Accepts == Available("llm") /\ Available("dcmdb")

Accept == Accepts /\ (Skip("prompt", "embed") \/ Skip("prompt", "consume"))

\* The task is embedded before memory is asked whether it may be used.
Embed ==
  \/ Skip("embed", "context")
  \/ Go("embed", "prompt") /\ RecordFailure("dcmdb")

Context == Guarded("dcmdb", "context", "commit")

\* Mutation of CommitUser: a failed commit is not reported.
CommitUnreported ==
  \/ ~Available("dcmdb") /\ Skip("commit", "prompt")
  \/ /\ Available("dcmdb")
     /\ \/ Go("commit", "recall") /\ RecordSuccess("dcmdb")
        \/ Go("commit", "prompt") /\ Set("dcmdb", Admitted("dcmdb"))

\* The user's message must be in the heart before the model sees it.
CommitUser ==
  \/ ~Available("dcmdb") /\ Skip("commit", "prompt")
  \/ /\ Available("dcmdb")
     /\ \/ Go("commit", "recall") /\ RecordSuccess("dcmdb")
        \/ Go("commit", "prompt") /\ Set("dcmdb", Failed("dcmdb", Admitted("dcmdb")))

Recall == Guarded("dcmdb", "recall", "risk")
Risk == Guarded("thymos", "risk", "again")

\* A riskier turn recalls once more.
RecallAgain == Guarded("dcmdb", "again", "model") \/ Skip("again", "model")

\* prepare_checkpoint_resume: a failing write whose marker is found in the log
\* resumes all the same; the projection may or may not have been caught up.
\* Memory is asked again and cannot refuse: nothing used it since Accepts.
ConsumeCheckpoint ==
  /\ Available("dcmdb")
  /\ LET once == Failed("dcmdb", Admitted("dcmdb"))
     IN  \/ Go("consume", "model") /\ RecordSuccess("dcmdb")
         \/ at = "consume" /\ at' \in {"model", "prompt"} /\ Set("dcmdb", Failed("dcmdb", once))
         \/ Go("consume", "prompt") /\ Set("dcmdb", once)

\* assert!(allow(Llm)), then the run of the harness.
CallModel ==
  /\ Go("model", "running")
  /\ Set("llm", Admitted("llm"))

ModelAnswers == Go("running", "verify") /\ RecordSuccess("llm")
ModelFails == Go("running", "prompt") /\ RecordFailure("llm")
ModelInterrupted == Go("running", "prompt") /\ Set("llm", Cancelled(channel["llm"]))

\* Grounding may call the model again for a repair, without asking.
Verify ==
  \/ Skip("verify", "update")
  \/ /\ Go("verify", "update")
     /\ \/ RecordSuccess("llm")
        \/ RecordFailure("llm")
        \/ Set("llm", Cancelled(channel["llm"]))

UpdateRisk == Guarded("thymos", "update", "persist") \/ Skip("update", "persist")
Persist == Guarded("dcmdb", "persist", "compact")
Compact == Guarded("dcmdb", "compact", "maintain") \/ Skip("compact", "maintain")
Maintain == Guarded("dcmdb", "maintain", "save") \/ Skip("maintain", "save")
SaveCheckpoint == Guarded("dcmdb", "save", "prompt") \/ Skip("save", "prompt")

\* /reset at the prompt.
Reset ==
  /\ at = "prompt" /\ at' = at
  /\ \/ \E c \in Channel : RecordSuccess(c)
     \/ channel' = [c \in Channel |-> Closed]

\* Time passes.
Tick ==
  /\ channel' = [c \in Channel |->
       [channel[c] EXCEPT !.age = IF @ = Never \/ @ >= Cooldown[c] THEN @ ELSE @ + 1]]
  /\ UNCHANGED at

Init == channel = [c \in Channel |-> Closed] /\ at = "prompt"

Turn ==
  \/ Embed \/ Context \/ CommitUser \/ Recall \/ Risk \/ RecallAgain
  \/ ConsumeCheckpoint \/ CallModel \/ ModelAnswers \/ ModelFails \/ ModelInterrupted
  \/ Verify \/ UpdateRisk \/ Persist \/ Compact \/ Maintain \/ SaveCheckpoint

Next == Accept \/ Turn \/ Reset \/ Tick

Spec == Init /\ [][Next]_vars

\* Time passes, and a turn that was begun goes on: the harness ends every run.
FairSpec == Spec /\ WF_vars(Tick) /\ WF_vars(Turn)

-----------------------------------------------------------------------------
(* Properties. *)

Stage == {"prompt", "embed", "context", "commit", "recall", "risk", "again", "consume",
          "model", "running", "verify", "update", "persist", "compact", "maintain", "save"}

ChannelState == [state : {"closed", "open", "half-open"}, failures : Nat,
                 age : Nat \cup {Never}, probe : BOOLEAN]

\* A closed channel has not reached its limit; any other knows when it failed,
\* without which it would stay open for ever.  Only a half-open one is probed.
Sound(c, ch) ==
  /\ ch.state = "closed" => ch.failures < MaxFailures[c]
  /\ ch.state # "closed" => ch.age # Never
  /\ ch.probe => ch.state = "half-open"

\* Types, and every channel is Sound (the fields of Channel).
TypeOK ==
  /\ channel \in [Channel -> ChannelState]
  /\ at \in Stage
  /\ \A c \in Channel : Sound(c, channel[c])

\* From the check when the line arrives to the assertion before the model call,
\* through every use of the other channels and however much time passes, the
\* model stays available: the assert! of the turn and of the resume never fail.
ModelAdmitted ==
  at \in {"embed", "context", "commit", "recall", "risk", "again", "consume", "model"}
    => Available("llm")

\* Every admitted probe reports back before the turn returns to the prompt,
\* on every path: a probe is in flight only while the model runs.
ProbesReported ==
  \A c \in Channel : channel[c].probe => c = "llm" /\ at = "running"

\* No refusal is for ever: a channel that refuses admits again by time alone.
RefusalEnds == \A c \in Channel : []<>Available(c)

=============================================================================
