------------------------------- MODULE Harness -------------------------------
(***************************************************************************)
(* The agent loop of spine-runtime (harness.rs, plan.rs): ask the model,   *)
(* run the tools it calls one after another, ask again, until it answers.  *)
(* An operator queues guidance or a graceful stop while the loop waits;    *)
(* progress is journaled before and after every tool call; a run that is   *)
(* cut short (crash, /interrupt, a provider error, a journal that cannot   *)
(* be written) is turned into a checkpoint from its journal by             *)
(* transcript.rs and may be resumed.                                       *)
(*                                                                         *)
(* The loop and the operator share one task (main.rs                       *)
(* run_with_operator_controls): the operator acts only while the loop      *)
(* awaits the model, a tool or a final summary, so the code between two    *)
(* awaits is one or a few consecutive steps with no operator in between.   *)
(* A crash may come anywhere.                                              *)
(*                                                                         *)
(* A message keeps its role, the number n of calls of an assistant message *)
(* (the call answered by a tool message, the lines of an operator message) *)
(* and its kind of text; the history of earlier turns, token usage, events *)
(* and wording are left out.                                               *)
(***************************************************************************)
EXTENDS Integers, FiniteSets, Sequences, SequencesExt

CONSTANTS
  Kind,             \* categories of the tools called, "missing" for no such tool
  MaxBatch,         \* bound: calls in one model turn
  MaxRounds,        \* policy.max_tool_rounds, NoLimit unless the user sets one
  MaxActions,       \* policy.max_action_calls, which conversations always set
  NoLimit,          \* None of such an option
  MaxToolTurns,     \* bound: turns with tool calls that the model makes
  EnforcePlans,     \* config.enforce_host_plans
  PlanLength,       \* lengths of the plans the model writes
  MaxContinuations, \* config.max_empty_plan_continuations
  MaxGuidance,      \* bound: lines of guidance queued during one run
  MaxRuns,          \* bound: runs, resumes and repairs
  MaxCuts,          \* bound: crashes, interruptions, provider and journal errors
  NoPlan,
  NoJournal,
  NoCheckpoint

ASSUME KindAssumption == Kind \subseteq {"context", "action", "both", "missing"}
ASSUME PolicyAssumption == /\ NoLimit \notin Nat
                           /\ {MaxRounds, MaxActions} \subseteq (Nat \ {0}) \cup {NoLimit}
                           /\ MaxContinuations \in Nat \ {0} /\ EnforcePlans \in BOOLEAN
                           /\ PlanLength \subseteq 2..8
ASSUME BoundAssumption == /\ MaxBatch \in Nat \ {0} /\ MaxGuidance \in Nat
                          /\ MaxToolTurns \in Nat
                          /\ MaxRuns \in Nat /\ MaxCuts \in Nat

VARIABLES
  phase,      \* where the loop is, or "idle", "done" and "cut"
  messages,   \* the transcript in memory
  work,       \* CompletedWork: tool calls, tool rounds, action calls
  plan,       \* host_plan
  tries,      \* empty_plan_continuations and empty_model_retries
  batch,      \* the calls of this turn and the one the loop is at
  stopping,   \* initially_stopping in "model", stopped_gracefully in "summary"
  control,    \* the ControlPlane: stop flag and pending guidance
  journal,    \* the progress last saved for this run
  checkpoint, \* the newest checkpoint that can be resumed
  runs, cuts, \* bounds
  ghost       \* what really happened, for the properties

loop == <<messages, work, plan, tries, batch, stopping>>
vars == <<phase, loop, control, journal, checkpoint, runs, cuts, ghost>>

-----------------------------------------------------------------------------
(* Transcripts. *)

\* The text of a message is blank, text, guidance, or what is said of a call:
\* result, skipped, unknown; n is the number of
\* its calls or of its lines of guidance, or the call a result answers.
System == [role |-> "system", n |-> 0, text |-> "text"]
User == [role |-> "user", n |-> 0, text |-> "text"]
Said == [role |-> "assistant", n |-> 0, text |-> "text"]
Assistant(text, n) == [role |-> "assistant", n |-> n, text |-> text]
ToolResult(i, text) == [role |-> "tool", n |-> i, text |-> text]

Positions(ms, role) == {i \in DOMAIN ms : ms[i].role = role}
CallsAt(ms, i) == IF ms[i].role = "assistant" THEN ms[i].n ELSE 0

\* A call is the position of the assistant message that makes it and its index.
Calls(ms) == UNION {{i} \X (1..CallsAt(ms, i)) : i \in DOMAIN ms}

\* The call that the tool message at j answers: one of the batch before it.
Answered(ms, j) ==
  LET at == {i \in 1..(j - 1) : CallsAt(ms, i) > 0}
  IN  <<IF at = {} THEN 0 ELSE CHOOSE i \in at : \A k \in at : k <= i, ms[j].n>>

Results(ms) == {Answered(ms, j) : j \in Positions(ms, "tool")}
Unanswered(ms) == Calls(ms) \ Results(ms)

-----------------------------------------------------------------------------
(* Host plans: the steps before the cursor are done, the one at it active. *)

Open(p) == p # NoPlan /\ p.cursor < p.length

MarkCurrentDone(p) == IF Open(p) THEN [p EXCEPT !.cursor = @ + 1] ELSE p

\* maybe_install_plan: the first plan of 2 to 8 steps the model writes.
Install(p, turn) ==
  IF EnforcePlans /\ p = NoPlan /\ turn.steps # 0
  THEN [length |-> turn.steps, cursor |-> 0]
  ELSE p

OpenPlanPrompt(p) == IF EnforcePlans /\ Open(p) THEN <<User>> ELSE <<>>

-----------------------------------------------------------------------------
(* Checkpoints and the journal. *)

\* A count and a limit that may be None.
Reached(n, limit) == limit # NoLimit /\ n >= limit
Exceeds(n, limit) == limit # NoLimit /\ n > limit

\* `past' is the history behind the checkpoint, for the properties.
Checkpoint(ms, w, p, g) == [messages |-> ms, work |-> w, plan |-> p, past |-> g]

\* HarnessCheckpoint::validate: a complete exchange in which every batch of
\* calls is followed at once by one result for each.
Validate(c) ==
  LET ms == c.messages
  IN  /\ Len(ms) >= 3 /\ ms[1].role = "system"
      /\ Last(ms) = Said /\ Positions(ms, "user") # {}
      /\ \A i \in DOMAIN ms :
           LET n == CallsAt(ms, i)
           IN  n > 0 => /\ i + n <= Len(ms)
                        /\ {<<ms[j].role, ms[j].n>> : j \in (i + 1)..(i + n)}
                             = {"tool"} \X (1..n)
      /\ Cardinality(Positions(ms, "tool")) = Cardinality(Calls(ms))
      /\ c.work.actions <= c.work.calls /\ ~Exceeds(c.work.actions, MaxActions)
      /\ c.work.rounds <= Cardinality({i \in DOMAIN ms : CallsAt(ms, i) > 0})
      /\ c.work.calls <= Cardinality(Positions(ms, "tool"))
      /\ c.plan # NoPlan => c.plan.length \in 2..8 /\ c.plan.cursor <= c.plan.length

Progress(ms, w, p, finished, stopped) ==
  [messages |-> ms, work |-> w, plan |-> p, finished |-> finished, stopped |-> stopped]

\* The k-th number in S.
Nth(S, k) == CHOOSE i \in S : Cardinality({j \in S : j < i}) = k - 1

\* Mutation of Unknown: a call cut short counts as not executed.
UnknownAsSkipped(calls) ==
  [k \in 1..Cardinality(calls) |-> ToolResult(Nth({c[2] : c \in calls}, k), "skipped")]

\* recover_thread adds a result for every call without one, and a summary.
Unknown(calls) ==
  [k \in 1..Cardinality(calls) |-> ToolResult(Nth({c[2] : c \in calls}, k), "unknown")]

\* The checkpoint made of the journal of a run that is over or dead.
Recovered(j, g) ==
  Checkpoint(IF j.finished THEN j.messages
             ELSE j.messages \o Unknown(Unanswered(j.messages)) \o <<Said>>,
             j.work, j.plan, g)

-----------------------------------------------------------------------------
(* Saving, waiting, ending. *)

\* Where the operator can act, and where a run is under way.
Awaiting == {"model", "tool", "summary"}
Active == Awaiting \cup {"next", "boundary"}

Quiet == [stop |-> FALSE, guidance |-> 0]
Drain == control' = Quiet

\* An error leaves the loop; what is in memory is forgotten.
Cut(lost) ==
  /\ cuts < MaxCuts
  /\ cuts' = cuts + 1
  /\ phase' = "cut"
  /\ ghost' = [ghost EXCEPT !.lost = @ + lost]

Save(ms, w, p, next) ==
  /\ journal' = Progress(ms, w, p, FALSE, FALSE)
  /\ phase' = next
  /\ UNCHANGED <<cuts, ghost>>

\* save_progress(..)?: the journal is written, or the run ends with an error.
SaveOrFail(ms, w, p, next) ==
  /\ messages' = ms /\ work' = w /\ plan' = p
  /\ \/ Save(ms, w, p, next)
     \/ Cut(0) /\ UNCHANGED journal

\* The head of the loop: save, note whether a stop is pending, ask the model.
Loop(ms, p) ==
  /\ SaveOrFail(ms, work, p, "model")
  /\ stopping' = control'.stop
  /\ UNCHANGED <<batch, checkpoint, runs>>

\* finish_without_tools: ask for a summary; nothing is saved before it ends.
AskSummary(ms, p, stopped) ==
  /\ phase' = "summary" /\ stopping' = stopped
  /\ messages' = ms /\ plan' = p
  /\ UNCHANGED <<work, batch, journal, checkpoint, runs, cuts, ghost>>

\* An outcome: the last save of run_messages, then a checkpoint if stopped.
Finish(ms, p, stopped) ==
  /\ messages' = ms /\ plan' = p
  /\ \/ /\ journal' = Progress(ms, work, p, TRUE, stopped)
        /\ phase' = "done"
        /\ checkpoint' = IF stopped THEN Checkpoint(ms, work, p, ghost) ELSE checkpoint
        /\ ghost' = [ghost EXCEPT !.stopped = stopped]
        /\ UNCHANGED cuts
     \/ Cut(0) /\ UNCHANGED <<journal, checkpoint>>
  /\ UNCHANGED <<work, batch, stopping, runs>>

-----------------------------------------------------------------------------
(* Starting a run. *)

NoWork == [calls |-> 0, rounds |-> 0, actions |-> 0]
NoTries == [continuations |-> 0, retries |-> 0]
NoCalls == [calls |-> <<>>, at |-> 0, evidence |-> FALSE, promised |-> FALSE]
NoGhost == [started |-> {}, acted |-> 0, lost |-> 0, asked |-> FALSE, late |-> 0,
            stopped |-> FALSE, told |-> 0, queued |-> 0, from |-> 0]

\* run_messages: a fresh journal record and the head of the loop.
Start(ms, w, p, g) ==
  /\ runs < MaxRuns
  /\ runs' = runs + 1
  /\ messages' = ms /\ work' = w /\ plan' = p
  /\ tries' = NoTries /\ batch' = NoCalls /\ stopping' = control.stop
  /\ \/ /\ journal' = Progress(ms, w, p, FALSE, FALSE)
        /\ phase' = "model" /\ cuts' = cuts
     \/ /\ journal' = NoJournal
        /\ phase' = "cut" /\ cuts < MaxCuts /\ cuts' = cuts + 1
  /\ ghost' = [g EXCEPT !.asked = control.stop, !.late = 0, !.stopped = FALSE,
                        !.told = 0, !.queued = 0, !.from = Len(ms)]
  /\ UNCHANGED control

Run ==
  /\ phase \in {"idle", "done"}
  /\ Start(<<System, User>>, NoWork, NoPlan, NoGhost)
  /\ UNCHANGED checkpoint

\* Mutation of Resume: the budget of actions starts again.
ResumeAfresh ==
  /\ phase \in {"idle", "done"}
  /\ checkpoint # NoCheckpoint
  /\ Start(Append(checkpoint.messages, User) \o OpenPlanPrompt(checkpoint.plan),
           NoWork, checkpoint.plan, checkpoint.past)
  /\ checkpoint' = NoCheckpoint

\* The checkpoint is taken by the resume that uses it.
Resume ==
  /\ phase \in {"idle", "done"}
  /\ checkpoint # NoCheckpoint
  /\ Validate(checkpoint)
  /\ Start(Append(checkpoint.messages, User) \o OpenPlanPrompt(checkpoint.plan),
           checkpoint.work, checkpoint.plan, checkpoint.past)
  /\ checkpoint' = NoCheckpoint

\* The host asks for a corrected answer; a stopped outcome is not repaired.
Repair ==
  /\ phase = "done" /\ ~ghost.stopped
  /\ Start(Append(messages, User), work, plan, ghost)
  /\ UNCHANGED checkpoint

-----------------------------------------------------------------------------
(* The model answers. *)

\* What the host tells apart in a model turn.
Turn == [text : IF EnforcePlans THEN {"blank", "brief", "writeup"} ELSE {"blank", "brief"},
         promised : IF EnforcePlans THEN BOOLEAN ELSE {FALSE},
         steps : {0} \cup IF EnforcePlans THEN PlanLength ELSE {},
         calls : BoundedSeq(Kind, MaxBatch)]

\* A blank turn neither promises nor plans; length matters only without calls.
Turns == {t \in Turn : /\ t.text = "blank" => ~t.promised /\ t.steps = 0
                       /\ t.calls # <<>> => t.text = "brief"}

TextOf(turn) == IF turn.text = "blank" THEN "blank" ELSE "text"

\* Mutation of ControlMessages: guidance next to a stop is dropped.
StopMessageOnly ==
  IF control.stop THEN <<User>>
  ELSE IF control.guidance > 0
  THEN <<[role |-> "user", n |-> control.guidance, text |-> "guidance"]>>
  ELSE <<>>

\* append_controls: one message for the guidance, one for the stop.
ControlMessages ==
  (IF control.guidance > 0
   THEN <<[role |-> "user", n |-> control.guidance, text |-> "guidance"]>>
   ELSE <<>>) \o (IF control.stop THEN <<User>> ELSE <<>>)

Heard(turn) == messages \o <<Assistant(TextOf(turn), 0)>> \o ControlMessages

\* A turn without tool calls: the controls are drained before anything else.
Says(turn) == phase = "model" /\ turn.calls = <<>> /\ Drain

TurnStops(turn) ==
  /\ Says(turn) /\ control.stop
  /\ AskSummary(Heard(turn), Install(plan, turn), TRUE)
  /\ UNCHANGED tries

TurnGuided(turn) ==
  /\ Says(turn) /\ ~control.stop /\ control.guidance > 0
  /\ LET p == Install(plan, turn) IN Loop(Heard(turn) \o OpenPlanPrompt(p), p)
  /\ UNCHANGED tries

Unguided(turn) == Says(turn) /\ control = Quiet

TurnEmpty(turn) ==
  /\ Unguided(turn) /\ turn.text = "blank"
  /\ tries.retries < 1
  /\ tries' = [tries EXCEPT !.retries = @ + 1]
  /\ Loop(Append(Heard(turn), User) \o OpenPlanPrompt(plan), plan)

TurnEmptyAgain(turn) ==
  /\ Unguided(turn) /\ turn.text = "blank"
  /\ tries.retries >= 1
  /\ Finish(Append(Heard(turn), Said), plan, FALSE)
  /\ UNCHANGED tries

\* A long last answer that promises nothing completes the last step.
AfterWriteup(turn) ==
  LET p == Install(plan, turn)
  IN  IF /\ EnforcePlans /\ p # NoPlan
         /\ p.cursor + 1 = p.length /\ turn.text = "writeup" /\ ~turn.promised
      THEN MarkCurrentDone(p)
      ELSE p

CountContinuation ==
  tries' = [continuations |-> tries.continuations + 1, retries |-> 0]

\* The model talks although a step is open: it is sent back to the step.
TurnOpenPlan(turn) ==
  /\ Unguided(turn) /\ turn.text # "blank"
  /\ EnforcePlans /\ Open(AfterWriteup(turn))
  /\ CountContinuation
  /\ LET p == AfterWriteup(turn)
     IN  IF tries'.continuations > MaxContinuations
         THEN AskSummary(Append(Heard(turn), User), p, FALSE)
         ELSE Loop(Heard(turn) \o OpenPlanPrompt(p), p)

\* The model promises work without a plan: it is asked for one.
NeedsPlan(turn) == /\ EnforcePlans /\ AfterWriteup(turn) = NoPlan /\ turn.promised
                   /\ tries.continuations < MaxContinuations

TurnNeedsPlan(turn) ==
  /\ Unguided(turn) /\ turn.text # "blank"
  /\ NeedsPlan(turn)
  /\ CountContinuation
  /\ Loop(Append(Heard(turn), User), plan)

TurnAnswers(turn) ==
  /\ Unguided(turn) /\ turn.text # "blank"
  /\ ~(EnforcePlans /\ Open(AfterWriteup(turn))) /\ ~NeedsPlan(turn)
  /\ Finish(Heard(turn), AfterWriteup(turn), FALSE)
  /\ tries' = [tries EXCEPT !.retries = 0]

\* A turn with tool calls beyond the ceiling: its calls are dropped.
TurnCeiling(turn) ==
  /\ phase = "model" /\ turn.calls # <<>>
  /\ Reached(work.rounds, MaxRounds)
  /\ tries' = [tries EXCEPT !.retries = 0]
  /\ AskSummary(messages \o <<Said, User>>, Install(plan, turn), FALSE)
  /\ UNCHANGED control

\* The intent is saved before any of the calls is executed.
TurnTools(turn) ==
  /\ phase = "model" /\ turn.calls # <<>>
  /\ ~Reached(work.rounds, MaxRounds)
  /\ work.rounds < MaxToolTurns
  /\ tries' = [tries EXCEPT !.retries = 0]
  /\ batch' = [calls |-> turn.calls, at |-> 1, evidence |-> FALSE,
               promised |-> turn.promised]
  /\ SaveOrFail(Append(messages, Assistant("text", Len(turn.calls))),
                [work EXCEPT !.rounds = @ + 1], Install(plan, turn), "next")
  /\ UNCHANGED <<stopping, control, checkpoint, runs>>

ModelTurn(turn) ==
  \/ TurnStops(turn) \/ TurnGuided(turn) \/ TurnEmpty(turn) \/ TurnEmptyAgain(turn)
  \/ TurnOpenPlan(turn) \/ TurnNeedsPlan(turn) \/ TurnAnswers(turn)
  \/ TurnCeiling(turn) \/ TurnTools(turn)

\* The journal tick saves what has been streamed so far as one more message.
JournalTick ==
  /\ phase = "model"
  /\ \/ /\ journal' = Progress(Append(messages, Said), work, plan, FALSE, FALSE)
        /\ UNCHANGED <<phase, cuts, ghost>>
     \/ Cut(0) /\ UNCHANGED journal
  /\ UNCHANGED <<loop, control, checkpoint, runs>>

-----------------------------------------------------------------------------
(* The model does not answer. *)

Partial == {<<>>, <<Said>>}

\* With a stop pending the work is checkpointed and what else is queued is
\* dropped; without one the streamed part is saved and the error returned.
CompletionError(partial) ==
  /\ phase = "model"
  /\ IF control.stop
     THEN /\ Drain
          /\ Finish(messages \o partial \o <<Said>>, plan, TRUE)
          /\ UNCHANGED tries
     ELSE /\ messages' = messages \o partial
          /\ Cut(0)
          /\ \/ journal' = Progress(messages \o partial, work, plan, FALSE, FALSE)
             \/ UNCHANGED journal
          /\ UNCHANGED <<work, plan, tries, batch, stopping, control, checkpoint, runs>>

\* Provider errors count as cuts even when a stop turns them into an outcome.
ProviderFails(partial) == cuts < MaxCuts /\ CompletionError(partial)

\* The `stopped()' branch of the select, for a stop that comes while waiting.
StopWakes(partial) == control.stop /\ ~stopping /\ CompletionError(partial)

\* Mutation of StopDeadline: a stopped request waits for the provider.
NoDeadline(partial) == FALSE

\* Five seconds for a stop that was already pending when the model was asked.
StopDeadline(partial) == stopping /\ CompletionError(partial)

-----------------------------------------------------------------------------
(* Tools. *)

Current == batch.calls[batch.at]
IsAction(kind) == kind \in {"action", "both"}
OverBudget(kind) == IsAction(kind) /\ Reached(work.actions, MaxActions)

Dispatch ==
  /\ phase = "next" /\ ~OverBudget(Current)
  /\ phase' = "tool"
  /\ work' = [work EXCEPT !.actions = @ + IF IsAction(Current) THEN 1 ELSE 0]
  /\ ghost' = [ghost EXCEPT
       !.started = @ \cup {<<Len(messages) - batch.at + 1, batch.at>>},
       !.acted = @ + IF IsAction(Current) THEN 1 ELSE 0,
       !.late = @ + IF ghost.asked THEN 1 ELSE 0]
  /\ UNCHANGED <<messages, plan, tries, batch, stopping, control, journal, checkpoint,
                 runs, cuts>>

\* A save after the result; a failing one loses the call just made.
SaveResult(m, w, made) ==
  /\ messages' = Append(messages, m) /\ work' = w
  /\ \/ Save(messages', w, plan, "boundary")
     \/ Cut(IF made /\ IsAction(Current) THEN 1 ELSE 0) /\ UNCHANGED journal
  /\ UNCHANGED <<plan, tries, stopping, control, checkpoint, runs>>

ToolReturns(success) ==
  /\ phase = "tool"
  /\ batch' = [batch EXCEPT !.evidence =
       @ \/ Current \in {"context", "both"} \/ (Current = "action" /\ success)]
  /\ SaveResult(ToolResult(batch.at, "result"),
                [work EXCEPT !.calls = @ + 1], TRUE)

SkipOverBudget ==
  /\ phase = "next" /\ OverBudget(Current)
  /\ SaveResult(ToolResult(batch.at, "skipped"), work, FALSE)
  /\ UNCHANGED batch

NextCall ==
  /\ phase = "boundary" /\ control = Quiet /\ batch.at < Len(batch.calls)
  /\ batch' = [batch EXCEPT !.at = @ + 1]
  /\ phase' = "next"
  /\ UNCHANGED <<messages, work, plan, tries, stopping, control, journal, checkpoint,
                 runs, cuts, ghost>>

AfterTools ==
  IF batch.evidence /\ ~batch.promised THEN MarkCurrentDone(plan) ELSE plan

EndBatch ==
  /\ phase = "boundary" /\ control = Quiet /\ batch.at = Len(batch.calls)
  /\ UNCHANGED <<tries, control>>
  /\ Loop(messages \o OpenPlanPrompt(AfterTools), AfterTools)

\* Mutation of SkippedRest: calls after a stop get no result.
NothingSkipped == <<>>

\* Every call after a control is answered, not executed.
SkippedRest ==
  [k \in 1..(Len(batch.calls) - batch.at) |-> ToolResult(batch.at + k, "skipped")]

\* An operator control at the boundary ends the batch.
ControlBatch ==
  /\ phase = "boundary" /\ control # Quiet
  /\ Drain
  /\ LET ms == messages \o SkippedRest \o ControlMessages
     IN  IF control.stop
         THEN AskSummary(ms, AfterTools, TRUE)
         ELSE Loop(ms \o OpenPlanPrompt(AfterTools), AfterTools)
  /\ UNCHANGED tries

-----------------------------------------------------------------------------
(* The final summary. *)

\* Mutation of StoppedAtLast: a stop queued since the last look is not seen.
StoppedAtFirst == stopping

StoppedAtLast == stopping \/ control.stop
\* Whatever the model says, or a stand-in for it, ends the run.
SummaryEnds ==
  /\ phase = "summary"
  /\ Drain
  /\ Finish(Append(messages, Said), plan, StoppedAtLast)
  /\ UNCHANGED tries

SummaryArrives == SummaryEnds

\* Mutation of SummaryGivenUp: only a stop ends the attempts at a summary.
GivenUpOnStop == control.stop /\ SummaryEnds

\* The timeout of 5 or 60 seconds, or a stop.
SummaryGivenUp == SummaryEnds

-----------------------------------------------------------------------------
(* The operator, crashes and recovery. *)

QueueGuidance ==
  /\ phase \in Awaiting /\ ghost.queued < MaxGuidance
  /\ control' = [control EXCEPT !.guidance = @ + 1]
  /\ ghost' = [ghost EXCEPT !.queued = @ + 1, !.told = @ + IF phase = "tool" THEN 1 ELSE 0]
  /\ UNCHANGED <<phase, loop, journal, checkpoint, runs, cuts>>

RequestStop ==
  /\ phase \in Awaiting /\ ~control.stop
  /\ control' = [control EXCEPT !.stop = TRUE]
  /\ ghost' = [ghost EXCEPT !.asked = TRUE]
  /\ UNCHANGED <<phase, loop, journal, checkpoint, runs, cuts>>

InFlight == IF phase = "tool" /\ IsAction(Current) THEN 1 ELSE 0

\* /interrupt drops the run; the ControlPlane belongs to the harness and stays.
Interrupt ==
  /\ phase \in Awaiting
  /\ Cut(InFlight)
  /\ UNCHANGED <<loop, control, journal, checkpoint, runs>>

Crash ==
  /\ phase \in Active \cup {"done"}
  /\ Cut(InFlight)
  /\ control' = Quiet
  /\ UNCHANGED <<loop, journal, checkpoint, runs>>

\* recover_thread: nothing is executed; an unfinished or stopped run becomes
\* the newest checkpoint.
Recover ==
  /\ phase = "cut"
  /\ phase' = "idle"
  /\ checkpoint' = IF journal # NoJournal /\ (~journal.finished \/ journal.stopped)
                   THEN Recovered(journal, ghost)
                   ELSE checkpoint
  /\ messages' = <<>> /\ work' = NoWork /\ plan' = NoPlan
  /\ tries' = NoTries /\ batch' = NoCalls /\ stopping' = FALSE
  /\ journal' = NoJournal
  /\ UNCHANGED <<control, runs, cuts, ghost>>

-----------------------------------------------------------------------------

Init ==
  /\ phase = "idle" /\ messages = <<>> /\ work = NoWork /\ plan = NoPlan
  /\ tries = NoTries /\ batch = NoCalls /\ stopping = FALSE
  /\ control = Quiet /\ journal = NoJournal /\ checkpoint = NoCheckpoint
  /\ runs = 0 /\ cuts = 0 /\ ghost = NoGhost

Answer == \E turn \in Turns : ModelTurn(turn)
Stopped == \E partial \in Partial : StopWakes(partial) \/ StopDeadline(partial)
Host == Run \/ Resume \/ Repair \/ Recover
Tools == \/ Dispatch \/ SkipOverBudget \/ NextCall \/ EndBatch \/ ControlBatch
         \/ \E success \in BOOLEAN : ToolReturns(success)

Next ==
  \/ Host \/ Answer \/ JournalTick \/ Stopped \/ Tools
  \/ \E partial \in Partial : ProviderFails(partial)
  \/ SummaryArrives \/ SummaryGivenUp
  \/ QueueGuidance \/ RequestStop \/ Interrupt \/ Crash

Spec == Init /\ [][Next]_vars

\* Timers, wake-ups and tools: what a stop relies on.  The provider may hang.
StopSpec == Spec /\ WF_vars(Stopped) /\ WF_vars(Tools) /\ WF_vars(SummaryGivenUp)

\* The provider answers or fails.
AnswerSpec == StopSpec /\ WF_vars(Answer)

-----------------------------------------------------------------------------
(* Properties. *)

\* Every checkpoint the loop produces at a stop, at a failed completion or from
\* the journal of a dead run is one that resume accepts
\* (HarnessCheckpoint::validate): no batch is left half answered.
CheckpointsValid == checkpoint # NoCheckpoint => Validate(checkpoint)

Truthful(ms, started) ==
  \A j \in Positions(ms, "tool") :
    /\ ms[j].text = "result" => Answered(ms, j) \in started
    /\ ms[j].text = "skipped" => Answered(ms, j) \notin started

\* A call is executed only after its intent is in the journal, and at most one
\* executed call has no result there: that one alone is uncertain after a crash
\* (save_progress before and after execute_tool).  So no transcript says that a
\* call that was executed was skipped, or that one that was not executed has a
\* result, neither in memory nor in a checkpoint: the model that resumes decides
\* from these lines what to do again.
ResultsTruthful ==
  /\ journal # NoJournal =>
       /\ ghost.started \subseteq Calls(journal.messages)
       /\ Cardinality(ghost.started \ Results(journal.messages)) <= 1
  /\ phase \in Active \cup {"done"} => Truthful(messages, ghost.started)
  /\ checkpoint # NoCheckpoint => Truthful(checkpoint.messages, checkpoint.past.started)

\* Over a task with all its resumes and repairs no more actions are executed
\* than a policy with a limit allows, plus one for each cut that hit a running action.
BudgetHolds == MaxActions # NoLimit => ghost.acted <= MaxActions + ghost.lost

\* A run that ends by itself after a stop was requested ends with a checkpoint
\* (README: /stop saves a checkpoint and stops gracefully), and until then at
\* most one more call is executed: the first of a turn already on its way.
StopHonoured ==
  /\ phase = "done" /\ ghost.asked => ghost.stopped
  /\ ghost.late <= 1

\* The lines of guidance after the first messages of a transcript.
GuidanceLines(ms, first) ==
  UNION {{i} \X (1..ms[i].n) : i \in {j \in (first + 1)..Len(ms) : ms[j].text = "guidance"}}

\* Guidance queued while a tool ran is in the transcript before the model is
\* asked again and when the run ends, even if a stop came with it (README:
\* queues your guidance for the next completed-tool boundary).
GuidanceHeard ==
  phase \in {"model", "summary", "done"} =>
    ghost.told <= Cardinality(GuidanceLines(messages, ghost.from))

\* A stop ends the run although the provider never answers: it depends on
\* timers, wake-ups and the running tool alone (the `stopped()' branches, the
\* stop deadline and the summary deadline).
StopEnds == (phase \in Active /\ control.stop) ~> (phase \notin Active)

\* With a provider that answers, a run in which the model calls tools finitely
\* often ends: the retries after empty turns, the continuations of open plans,
\* guidance and stops leave no endless conversation.  By default nothing else ends
\* a run whose model calls tools for ever, since max_tool_rounds is None.
RunEnds == (phase \in Active) ~> (phase \notin Active)

=============================================================================
