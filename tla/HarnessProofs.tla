---------------------------- MODULE HarnessProofs ----------------------------
(***************************************************************************)
(* Proofs about the agent loop: the budget of actions over all resumes and *)
(* repairs of a task, what a graceful stop leads to, what transcripts,     *)
(* journals and checkpoints say of the calls that were executed, that      *)
(* every checkpoint, recovered ones too, is one that resume accepts, and   *)
(* that guidance given during a tool is heard.                             *)
(***************************************************************************)
EXTENDS Harness, NumberLemmas, SequenceTheorems, FiniteSetTheorems, TLAPS

-----------------------------------------------------------------------------
(* The records of the loop. *)

\* A record of what happened, with the counts the invariants are about.
IsPast(g) ==
  /\ g = [started |-> g.started, acted |-> g.acted, lost |-> g.lost, asked |-> g.asked,
          late |-> g.late, stopped |-> g.stopped, told |-> g.told, queued |-> g.queued,
          from |-> g.from]
  /\ g.acted \in Nat /\ g.lost \in Nat /\ g.late \in Nat

IsWork(w) ==
  /\ w = [calls |-> w.calls, rounds |-> w.rounds, actions |-> w.actions]
  /\ w.actions \in Nat

\* The counts that the loop, the journal and the newest checkpoint keep.
Forms ==
  /\ IsPast(ghost) /\ IsWork(work)
  /\ journal # NoJournal => IsWork(journal.work)
  /\ checkpoint # NoCheckpoint => IsPast(checkpoint.past) /\ IsWork(checkpoint.work)

\* A dispatch changes three fields of the record.
Dispatched(g, t, a, l) == [g EXCEPT !.started = t, !.acted = a, !.late = l]

LEMMA DispatchedCounts ==
  ASSUME NEW g, IsPast(g), NEW t, NEW a \in Nat, NEW l \in Nat,
         NEW h, h = Dispatched(g, t, a, l)
  PROVE  /\ IsPast(h) /\ h.started = t /\ h.acted = a /\ h.late = l
         /\ h.lost = g.lost /\ h.asked = g.asked /\ h.stopped = g.stopped
<1>1. h = [started |-> t, acted |-> a, lost |-> g.lost, asked |-> g.asked, late |-> l,
           stopped |-> g.stopped, told |-> g.told, queued |-> g.queued, from |-> g.from]
  BY DEF IsPast, Dispatched
<1>2. g.lost \in Nat
  BY DEF IsPast
<1> QED
  BY <1>1, <1>2 DEF IsPast

LEMMA DispatchPast ==
  ASSUME IsPast(ghost), Dispatch
  PROVE  /\ IsPast(ghost') /\ ghost'.lost = ghost.lost /\ ghost'.asked = ghost.asked
         /\ ghost'.started = ghost.started \cup {<<Len(messages) - batch.at + 1, batch.at>>}
         /\ ghost'.acted = ghost.acted + (IF IsAction(Current) THEN 1 ELSE 0)
         /\ ghost'.late = ghost.late + (IF ghost.asked THEN 1 ELSE 0)
<1>1. PICK t, a, l, g : /\ t = ghost.started \cup {<<Len(messages) - batch.at + 1, batch.at>>}
                        /\ a = ghost.acted + (IF IsAction(Current) THEN 1 ELSE 0)
                        /\ l = ghost.late + (IF ghost.asked THEN 1 ELSE 0)
                        /\ g = ghost
  OBVIOUS
<1>2. a \in Nat /\ l \in Nat
  BY <1>1 DEF IsPast
<1>3. ghost' = Dispatched(g, t, a, l)
  BY <1>1 DEF Dispatch, Dispatched
<1> QED
  BY <1>1, <1>2, <1>3, DispatchedCounts

LEMMA Constants ==
  /\ IsPast(NoGhost) /\ IsWork(NoWork)
  /\ Active = {"model", "tool", "summary", "next", "boundary"}
  /\ Awaiting = {"model", "tool", "summary"}
  /\ MaxActions # NoLimit => MaxActions \in Nat \ {0}
  /\ ~Exceeds(0, MaxActions)
BY PolicyAssumption DEF Exceeds, IsPast, NoGhost, IsWork, NoWork, Active, Awaiting

-----------------------------------------------------------------------------
(* The budget. *)

\* The actions a transcript counts are within the budget, and no fewer than the
\* ones that were executed, except for those that were cut short.
Within(w, g) == ~Exceeds(w.actions, MaxActions) /\ g.acted <= w.actions + g.lost

BudgetInv ==
  /\ Forms
  /\ BudgetHolds
  /\ phase \in Active \cup {"done"} => Within(work, ghost)
  /\ phase \in Active \cup {"done"} /\ journal # NoJournal =>
       journal.work.actions + InFlight = work.actions
  /\ phase = "cut" /\ journal # NoJournal => Within(journal.work, ghost)
  /\ checkpoint # NoCheckpoint => Within(checkpoint.work, checkpoint.past)

\* A cut loses the action in flight, if there is one.
LEMMA CutBudget ==
  ASSUME BudgetInv, phase \in Active \cup {"done"}, Cut(InFlight), UNCHANGED checkpoint,
         IsWork(work'),
         \/ journal' = journal
         \/ journal'.work = work /\ phase # "tool"
  PROVE  BudgetInv'
<1>1. /\ phase' = "cut" /\ InFlight \in {0, 1}
      /\ IsPast(ghost') /\ ghost'.acted = ghost.acted /\ ghost'.lost = ghost.lost + InFlight
  BY DEF Cut, BudgetInv, Forms, IsPast, InFlight
<1>2. phase # "tool" => InFlight = 0
  BY DEF InFlight
<1>3. Forms'
  BY <1>1 DEF BudgetInv, Forms
<1>4. journal' # NoJournal => Within(journal'.work, ghost')
  <2>1. CASE journal' = journal
    BY <1>1, <2>1, Constants DEF BudgetInv, Within, Exceeds, Forms, IsPast, IsWork
  <2>2. CASE journal'.work = work /\ phase # "tool"
    BY <1>1, <1>2, <2>2 DEF BudgetInv, Within, Forms, IsPast, IsWork
  <2> QED
    BY <2>1, <2>2
<1>5. BudgetHolds'
  BY <1>1, Constants DEF BudgetInv, BudgetHolds, Forms, IsPast
<1> QED
  BY <1>1, <1>3, <1>4, <1>5, Constants DEF BudgetInv, Active

\* save_progress.
LEMMA SaveBudget ==
  ASSUME BudgetInv, NEW ms, NEW w, NEW p, NEW next \in Active \ {"tool"},
         IsWork(w), w.actions = work.actions, phase \in Active \ {"tool"},
         SaveOrFail(ms, w, p, next), UNCHANGED checkpoint
  PROVE  BudgetInv'
<1>1. CASE Save(ms, w, p, next)
  <2>1. /\ phase' = next /\ ghost' = ghost /\ work' = w
        /\ journal'.work = w
    BY <1>1 DEF Save, SaveOrFail, Progress
  <2>2. InFlight' = 0
    BY <2>1 DEF InFlight
  <2> QED
    BY <2>1, <2>2, Constants DEF BudgetInv, BudgetHolds, Forms, IsWork, Within
<1>2. CASE Cut(0) /\ UNCHANGED journal
  BY <1>2, CutBudget DEF InFlight, SaveOrFail
<1> QED
  BY <1>1, <1>2 DEF SaveOrFail

\* finish_without_tools.
LEMMA SummaryBudget ==
  ASSUME BudgetInv, NEW ms, NEW p, NEW stopped, phase \in Active \ {"tool"},
         AskSummary(ms, p, stopped)
  PROVE  BudgetInv'
<1>1. phase' = "summary" /\ UNCHANGED <<work, journal, checkpoint, ghost>>
  BY DEF AskSummary
<1>2. InFlight' = InFlight
  BY <1>1 DEF InFlight
<1> QED
  BY <1>1, <1>2, Constants DEF BudgetInv, BudgetHolds, Forms, Within

\* An outcome.
LEMMA FinishBudget ==
  ASSUME BudgetInv, NEW ms, NEW p, NEW stopped \in BOOLEAN, phase \in Active \ {"tool"},
         Finish(ms, p, stopped)
  PROVE  BudgetInv'
<1>1. CASE Cut(0) /\ UNCHANGED <<journal, checkpoint>>
  BY <1>1, CutBudget DEF InFlight, Finish, BudgetInv, Forms
<1>2. CASE phase' = "done"
  <2>1. /\ work' = work /\ journal'.work = work
        /\ checkpoint' = checkpoint \/ (checkpoint'.work = work /\ checkpoint'.past = ghost)
        /\ ghost' = [ghost EXCEPT !.stopped = stopped]
    BY <1>2 DEF Finish, Progress, Checkpoint, Cut
  <2>2. IsPast(ghost') /\ ghost'.acted = ghost.acted /\ ghost'.lost = ghost.lost
    BY <2>1 DEF BudgetInv, Forms, IsPast
  <2>3. Forms'
    BY <2>1, <2>2 DEF BudgetInv, Forms
  <2>4. InFlight' = 0
    BY <1>2 DEF InFlight
  <2>5. Within(work, ghost) /\ Within(work', ghost')
    BY <2>1, <2>2, Constants DEF BudgetInv, Within
  <2>6. checkpoint' # NoCheckpoint => Within(checkpoint'.work, checkpoint'.past)
    BY <2>1, <2>5 DEF BudgetInv
  <2>7. journal'.work.actions + InFlight' = work'.actions
    BY <2>1, <2>4 DEF BudgetInv, Forms, IsWork
  <2>8. BudgetHolds'
    BY <2>2 DEF BudgetInv, BudgetHolds
  <2> QED
    BY <1>2, <2>3, <2>5, <2>6, <2>7, <2>8, Constants DEF BudgetInv
<1> QED
  BY <1>1, <1>2 DEF Finish

\* run_messages.
LEMMA StartBudget ==
  ASSUME BudgetInv, NEW ms, NEW w, NEW p, NEW g, IsWork(w), IsPast(g), Within(w, g),
         Start(ms, w, p, g), checkpoint' = checkpoint \/ checkpoint' = NoCheckpoint
  PROVE  BudgetInv'
<1>0. ghost' = [g EXCEPT !.asked = control.stop, !.late = 0, !.stopped = FALSE,
                         !.told = 0, !.queued = 0, !.from = Len(ms)]
  BY DEF Start
<1>1. ghost'.acted = g.acted /\ ghost'.lost = g.lost /\ work' = w
  BY <1>0 DEF Start, IsPast
<1>2. /\ phase' \in {"model", "cut"}
      /\ journal' = NoJournal \/ journal'.work = w
      /\ phase' = "cut" => journal' = NoJournal
  BY DEF Start, Progress
<1>3. InFlight' = 0
  BY <1>2 DEF InFlight
<1>4. IsPast(ghost')
  BY <1>0 DEF IsPast
<1>5. Forms'
  BY <1>1, <1>2, <1>4 DEF BudgetInv, Forms
<1>6. Within(work', ghost') /\ BudgetHolds'
  BY <1>1, Constants DEF Exceeds, Within, BudgetHolds, IsPast, IsWork
<1>7. journal' # NoJournal => journal'.work.actions + InFlight' = work'.actions
  BY <1>1, <1>2, <1>3 DEF IsWork
<1> QED
  BY <1>1, <1>2, <1>5, <1>6, <1>7 DEF BudgetInv

\* Answers of the model.
LEMMA TurnBudget ==
  ASSUME BudgetInv, NEW turn, ModelTurn(turn)
  PROVE  BudgetInv'
<1>0. phase = "model" /\ phase \in Active \ {"tool"}
  BY Constants DEF ModelTurn, TurnStops, TurnGuided, TurnEmpty, TurnEmptyAgain, TurnOpenPlan,
         TurnNeedsPlan, TurnAnswers, TurnCeiling, TurnTools, Unguided, Says
<1>l. ASSUME NEW ms, NEW p, Loop(ms, p)
      PROVE  BudgetInv'
  BY <1>0, <1>l, SaveBudget, Constants DEF Loop, BudgetInv, Forms
<1>1. CASE TurnStops(turn) \/ TurnCeiling(turn)
  BY <1>0, <1>1, SummaryBudget DEF TurnStops, TurnCeiling
<1>2. CASE TurnGuided(turn) \/ TurnEmpty(turn) \/ TurnNeedsPlan(turn)
  BY <1>2, <1>l DEF TurnGuided, TurnEmpty, TurnNeedsPlan
<1>3. CASE TurnOpenPlan(turn)
  <2>1. \/ \E ms, p : AskSummary(ms, p, FALSE)
        \/ \E ms, p : Loop(ms, p)
    BY <1>3 DEF TurnOpenPlan
  <2> QED
    BY <1>0, <1>l, <2>1, SummaryBudget
<1>4. CASE TurnEmptyAgain(turn) \/ TurnAnswers(turn)
  BY <1>0, <1>4, FinishBudget DEF TurnEmptyAgain, TurnAnswers
<1>5. CASE TurnTools(turn)
  <2>1. PICK w : w = [work EXCEPT !.rounds = @ + 1]
    OBVIOUS
  <2>2. \E ms, p : SaveOrFail(ms, w, p, "next") /\ UNCHANGED checkpoint
    BY <1>5, <2>1 DEF TurnTools
  <2>3. IsWork(w) /\ w.actions = work.actions
    BY <2>1 DEF BudgetInv, Forms, IsWork
  <2> QED
    BY <1>0, <2>2, <2>3, SaveBudget, Constants
<1> QED
  BY <1>1, <1>2, <1>3, <1>4, <1>5 DEF ModelTurn

\* No answer of the model, and the journal tick.
LEMMA ErrorBudget ==
  ASSUME BudgetInv, JournalTick \/ \E partial \in Partial : CompletionError(partial)
  PROVE  BudgetInv'
<1>0. phase = "model" /\ phase \in Active \ {"tool"} /\ InFlight = 0
  BY Constants DEF JournalTick, CompletionError, InFlight
<1>1. ASSUME NEW partial, CompletionError(partial), control.stop
      PROVE  BudgetInv'
  BY <1>0, <1>1, FinishBudget DEF CompletionError
<1>2. ASSUME NEW partial, CompletionError(partial), ~control.stop
      PROVE  BudgetInv'
  <2>1. /\ Cut(0) /\ work' = work /\ checkpoint' = checkpoint
        /\ journal' = journal \/ journal'.work = work
    BY <1>2 DEF CompletionError, Progress
  <2> QED
    BY <1>0, <2>1, CutBudget DEF BudgetInv, Forms
<1>3. ASSUME JournalTick, Cut(0), UNCHANGED journal
      PROVE  BudgetInv'
  BY <1>0, <1>3, CutBudget DEF JournalTick, loop, BudgetInv, Forms
<1>4. ASSUME JournalTick, UNCHANGED <<phase, cuts, ghost>>,
             journal' = Progress(Append(messages, Said), work, plan, FALSE, FALSE)
      PROVE  BudgetInv'
  <2>1. work' = work /\ journal'.work = work /\ checkpoint' = checkpoint /\ batch' = batch
    BY <1>4 DEF JournalTick, loop, Progress
  <2>2. InFlight' = 0
    BY <1>0, <1>4 DEF InFlight
  <2>3. Forms'
    BY <1>4, <2>1 DEF BudgetInv, Forms
  <2>4. Within(work', ghost') /\ BudgetHolds'
    BY <1>0, <1>4, <2>1 DEF BudgetInv, BudgetHolds, Within
  <2>5. journal'.work.actions + InFlight' = work'.actions
    BY <2>1, <2>2 DEF BudgetInv, Forms, IsWork
  <2> QED
    BY <1>0, <1>4, <2>1, <2>3, <2>4, <2>5, Constants DEF BudgetInv
<1> QED
  BY <1>1, <1>2, <1>3, <1>4 DEF JournalTick

\* Tools: an action counts from its dispatch.
LEMMA ToolsBudget ==
  ASSUME BudgetInv, Tools
  PROVE  BudgetInv'
<1>1. CASE Dispatch
  <2>1. /\ phase = "next" /\ phase' = "tool" /\ ~OverBudget(Current)
        /\ UNCHANGED <<batch, journal, checkpoint>>
    BY <1>1 DEF Dispatch
  <2>k. PICK k \in {0, 1} : k = IF IsAction(Current) THEN 1 ELSE 0
    OBVIOUS
  <2>w. work' = [work EXCEPT !.actions = work.actions + k]
    BY <1>1, <2>k DEF Dispatch
  <2>b. IsPast(ghost') /\ ghost'.acted = ghost.acted + k /\ ghost'.lost = ghost.lost
    BY <1>1, <2>k, DispatchPast DEF BudgetInv, Forms
  <2>c. IsWork(work') /\ work'.actions = work.actions + k
    BY <2>w DEF BudgetInv, Forms, IsWork
  <2>2. /\ IsWork(work') /\ work'.actions = work.actions + k
        /\ IsPast(ghost') /\ ghost'.acted = ghost.acted + k /\ ghost'.lost = ghost.lost
    BY <2>b, <2>c
  <2>3. InFlight' = k /\ InFlight = 0
    BY <2>1, <2>k DEF InFlight, Current
  <2>4. ~Exceeds(work.actions + k, MaxActions)
    BY <2>1, <2>k, Constants, PolicyAssumption
       DEF OverBudget, Reached, Exceeds, BudgetInv, Within, Forms, IsWork
  <2>5. Within(work', ghost')
    BY <2>1, <2>2, <2>4, Constants DEF BudgetInv, Within, Forms, IsWork, IsPast
  <2>6. BudgetHolds'
    BY <2>2, <2>5, Constants, PolicyAssumption DEF Exceeds, Within, BudgetHolds, IsPast, IsWork
  <2>7. Forms'
    BY <2>1, <2>2 DEF BudgetInv, Forms
  <2>8. journal' # NoJournal => journal'.work.actions + InFlight' = work'.actions
    BY <2>1, <2>2, <2>3, Constants DEF BudgetInv, Forms, IsWork
  <2> QED
    BY <2>1, <2>5, <2>6, <2>7, <2>8 DEF BudgetInv
<1>r. ASSUME NEW m, NEW w, NEW made \in BOOLEAN, SaveResult(m, w, made), IsWork(w),
             w.actions = work.actions, phase \in {"tool", "next"}, made <=> phase = "tool"
      PROVE  BudgetInv'
  <2>0. work' = w /\ checkpoint' = checkpoint
    BY <1>r DEF SaveResult
  <2>1. CASE \E ms : Save(ms, w, plan, "boundary")
    <3>1. /\ phase' = "boundary" /\ ghost' = ghost /\ journal'.work = w
      BY <2>1 DEF Save, Progress
    <3>2. InFlight' = 0
      BY <3>1 DEF InFlight
    <3> QED
      BY <1>r, <2>0, <3>1, <3>2, Constants DEF BudgetInv, BudgetHolds, Forms, IsWork, Within
  <2>2. CASE Cut(IF made /\ IsAction(Current) THEN 1 ELSE 0) /\ UNCHANGED journal
    <3>1. InFlight = IF made /\ IsAction(Current) THEN 1 ELSE 0
      BY <1>r DEF InFlight
    <3> QED
      BY <1>r, <2>0, <2>2, <3>1, CutBudget, Constants
  <2> QED
    BY <1>r, <2>1, <2>2 DEF SaveResult
<1>2. ASSUME NEW success \in BOOLEAN, ToolReturns(success)
      PROVE  BudgetInv'
  <2>1. PICK w : w = [work EXCEPT !.calls = @ + 1]
    OBVIOUS
  <2>2. IsWork(w) /\ w.actions = work.actions
    BY <2>1 DEF BudgetInv, Forms, IsWork
  <2>3. phase = "tool" /\ \E m : SaveResult(m, w, TRUE)
    BY <1>2, <2>1 DEF ToolReturns
  <2> QED
    BY <1>r, <2>2, <2>3
<1>3. CASE SkipOverBudget
  <2>1. phase = "next" /\ \E m : SaveResult(m, work, FALSE)
    BY <1>3 DEF SkipOverBudget
  <2>2. IsWork(work)
    BY DEF BudgetInv, Forms
  <2> QED
    BY <1>r, <2>1, <2>2
<1>4. CASE NextCall
  <2>1. phase = "boundary" /\ phase' = "next" /\ UNCHANGED <<work, journal, checkpoint, ghost>>
    BY <1>4 DEF NextCall
  <2>2. InFlight' = InFlight
    BY <2>1 DEF InFlight
  <2> QED
    BY <2>1, <2>2, Constants DEF BudgetInv, BudgetHolds, Forms, Within
<1>5. CASE EndBatch \/ ControlBatch
  <2>1. /\ phase = "boundary"
        /\ \/ \E ms, p : Loop(ms, p)
           \/ \E ms, p : AskSummary(ms, p, TRUE)
    BY <1>5 DEF EndBatch, ControlBatch
  <2> QED
    BY <2>1, SaveBudget, SummaryBudget, Constants DEF Loop, BudgetInv, Forms
<1> QED
  BY <1>1, <1>2, <1>3, <1>4, <1>5 DEF Tools

\* The operator, crashes and recovery.
LEMMA OtherBudget ==
  ASSUME BudgetInv, QueueGuidance \/ RequestStop \/ Interrupt \/ Crash \/ Recover
  PROVE  BudgetInv'
<1>1. CASE QueueGuidance \/ RequestStop
  <2>1. UNCHANGED <<phase, batch, work, journal, checkpoint>>
    BY <1>1 DEF QueueGuidance, RequestStop, loop
  <2>2. IsPast(ghost') /\ ghost'.acted = ghost.acted /\ ghost'.lost = ghost.lost
    BY <1>1 DEF QueueGuidance, RequestStop, BudgetInv, Forms, IsPast
  <2>3. InFlight' = InFlight
    BY <2>1 DEF InFlight, Current
  <2>4. Forms'
    BY <2>1, <2>2 DEF BudgetInv, Forms
  <2> QED
    BY <2>1, <2>2, <2>3, <2>4 DEF BudgetInv, BudgetHolds, Within
<1>2. CASE Interrupt \/ Crash
  <2>1. /\ phase \in Active \cup {"done"} /\ Cut(InFlight)
        /\ UNCHANGED <<work, journal, checkpoint>>
    BY <1>2, Constants DEF Interrupt, Crash, loop
  <2> QED
    BY <2>1, CutBudget DEF BudgetInv, Forms
<1>3. CASE Recover
  <2>1. /\ phase = "cut" /\ phase' = "idle" /\ work' = NoWork /\ journal' = NoJournal
        /\ ghost' = ghost
    BY <1>3 DEF Recover
  <2>2. \/ checkpoint' = checkpoint
        \/ journal # NoJournal /\ checkpoint'.work = journal.work /\ checkpoint'.past = ghost
    BY <1>3 DEF Recover, Recovered, Checkpoint
  <2>3. Forms'
    BY <2>1, <2>2, Constants DEF BudgetInv, Forms
  <2>4. checkpoint' # NoCheckpoint => Within(checkpoint'.work, checkpoint'.past)
    BY <2>1, <2>2 DEF BudgetInv
  <2> QED
    BY <2>1, <2>3, <2>4, Constants DEF BudgetInv, BudgetHolds
<1> QED
  BY <1>1, <1>2, <1>3

LEMMA BudgetStep == BudgetInv /\ [Next]_vars => BudgetInv'
<1> SUFFICES ASSUME BudgetInv, [Next]_vars PROVE BudgetInv'
  OBVIOUS
<1>1. CASE Run
  <2>1. Within(NoWork, NoGhost)
    BY Constants DEF Within, NoWork, NoGhost
  <2> QED
    BY <1>1, <2>1, StartBudget, Constants DEF Run
<1>2. CASE Resume
  <2>1. PICK c : c = checkpoint
    OBVIOUS
  <2>2. IsWork(c.work) /\ IsPast(c.past) /\ Within(c.work, c.past)
    BY <1>2, <2>1 DEF Resume, BudgetInv, Forms
  <2>3. \E ms : Start(ms, c.work, c.plan, c.past)
    BY <1>2, <2>1 DEF Resume
  <2> QED
    BY <1>2, <2>2, <2>3, StartBudget DEF Resume
<1>3. CASE Repair
  <2>1. IsWork(work) /\ IsPast(ghost) /\ Within(work, ghost)
    BY <1>3 DEF Repair, BudgetInv, Forms
  <2> QED
    BY <1>3, <2>1, StartBudget DEF Repair
<1>4. CASE Answer
  BY <1>4, TurnBudget DEF Answer
<1>5. CASE JournalTick \/ Stopped \/ \E partial \in Partial : ProviderFails(partial)
  BY <1>5, ErrorBudget DEF Stopped, ProviderFails, StopWakes, StopDeadline
<1>6. CASE Tools
  BY <1>6, ToolsBudget
<1>7. CASE SummaryEnds
  <2>1. phase \in Active \ {"tool"}
    BY <1>7, Constants DEF SummaryEnds
  <2>2. PICK s : s = StoppedAtLast
    OBVIOUS
  <2>3. s \in BOOLEAN
    BY <2>2 DEF StoppedAtLast
  <2> QED
    BY <1>7, <2>1, <2>2, <2>3, FinishBudget DEF SummaryEnds
<1>8. CASE Recover \/ QueueGuidance \/ RequestStop \/ Interrupt \/ Crash
  BY <1>8, OtherBudget
<1>9. CASE UNCHANGED vars
  <2>1. UNCHANGED <<phase, batch, work, journal, checkpoint, ghost>>
    BY <1>9 DEF vars, loop
  <2>2. InFlight' = InFlight
    BY <2>1 DEF InFlight, Current
  <2> QED
    BY <2>1, <2>2 DEF BudgetInv, BudgetHolds, Forms, Within
<1> QED
  BY <1>1, <1>2, <1>3, <1>4, <1>5, <1>6, <1>7, <1>8, <1>9
     DEF Next, Host, SummaryArrives, SummaryGivenUp

\* Over a task with all its resumes and repairs the loop executes no more
\* actions than the policy allows, plus one for each cut that hit a running
\* action, whatever the model calls and wherever the run is cut.
THEOREM BudgetNeverExceeded == Spec => []BudgetHolds
<1>1. Init => BudgetInv
  BY Constants DEF Init, BudgetInv, Forms, BudgetHolds, NoGhost
<1>2. BudgetInv => BudgetHolds
  BY DEF BudgetInv
<1> QED
  BY <1>1, <1>2, BudgetStep, PTL DEF Spec

-----------------------------------------------------------------------------
(* The graceful stop. *)

\* A stop that was asked for is pending until the loop has noticed it, and
\* no call has been executed since when the model is asked.
StopInv ==
  /\ control.stop \in BOOLEAN /\ control = [stop |-> control.stop, guidance |-> control.guidance]
  /\ stopping \in BOOLEAN /\ ghost.asked \in BOOLEAN
  /\ StopHonoured
  /\ ~ghost.asked => ghost.late = 0
  /\ phase \in {"model", "next"} => ghost.late = 0
  /\ phase \in Active \ {"summary"} /\ ghost.asked => control.stop
  /\ phase = "summary" /\ ghost.asked => control.stop \/ stopping

\* What the record says of a stop does not change.
SameStop == ghost'.asked = ghost.asked /\ ghost'.late = ghost.late

LEMMA QuietIsQuiet ==
  Quiet.stop = FALSE /\ Quiet = [stop |-> Quiet.stop, guidance |-> Quiet.guidance]
BY DEF Quiet

LEMMA CutStop ==
  ASSUME Forms, StopInv, NEW n, Cut(n), stopping' \in BOOLEAN,
         control' = control \/ control' = Quiet
  PROVE  StopInv'
<1>1. phase' = "cut" /\ SameStop
  BY DEF Cut, Forms, IsPast, SameStop
<1> QED
  BY <1>1, QuietIsQuiet, Constants DEF StopInv, StopHonoured, SameStop

\* The head of the loop is reached with the stop pending, or with none.
LEMMA LoopStop ==
  ASSUME Forms, StopInv, NEW ms, NEW p, Loop(ms, p), phase = "model" \/ ~ghost.asked,
         control' = control \/ (control' = Quiet /\ ~ghost.asked)
  PROVE  StopInv'
<1>1. stopping' \in BOOLEAN
  BY QuietIsQuiet DEF Loop, StopInv
<1>2. CASE Cut(0)
  BY <1>1, <1>2, CutStop
<1>3. CASE phase' = "model" /\ UNCHANGED ghost
  BY <1>1, <1>3, QuietIsQuiet, Constants DEF StopInv, StopHonoured, Active
<1> QED
  BY <1>2, <1>3 DEF Loop, SaveOrFail, Save

LEMMA SummaryStop ==
  ASSUME StopInv, NEW ms, NEW p, NEW s \in BOOLEAN, AskSummary(ms, p, s),
         control' = control \/ control' = Quiet,
         ghost.asked => (s \/ (control' = control /\ control.stop))
  PROVE  StopInv'
<1>1. phase' = "summary" /\ stopping' = s /\ UNCHANGED ghost
  BY DEF AskSummary
<1> QED
  BY <1>1, QuietIsQuiet, Constants DEF StopInv, StopHonoured, Active

LEMMA FinishStop ==
  ASSUME Forms, StopInv, NEW ms, NEW p, NEW s \in BOOLEAN, Finish(ms, p, s),
         control' = control \/ control' = Quiet, ghost.asked => s
  PROVE  StopInv'
<1>1. UNCHANGED stopping
  BY DEF Finish
<1>2. CASE Cut(0)
  BY <1>1, <1>2, CutStop DEF StopInv
<1>3. CASE phase' = "done" /\ ghost' = [ghost EXCEPT !.stopped = s]
  <2>1. SameStop /\ ghost'.stopped = s
    BY <1>3 DEF SameStop, Forms, IsPast
  <2> QED
    BY <1>1, <1>3, <2>1, QuietIsQuiet, Constants DEF StopInv, StopHonoured, SameStop
<1> QED
  BY <1>2, <1>3 DEF Finish

\* A run starts with the stop that is pending, if any.
LEMMA StartStop ==
  ASSUME StopInv, NEW ms, NEW w, NEW p, NEW g, IsPast(g), Start(ms, w, p, g)
  PROVE  StopInv'
<1>1. /\ phase' \in {"model", "cut"} /\ stopping' = control.stop /\ control' = control
      /\ ghost' = [g EXCEPT !.asked = control.stop, !.late = 0, !.stopped = FALSE,
                            !.told = 0, !.queued = 0, !.from = Len(ms)]
  BY DEF Start
<1>2. ghost'.asked = control.stop /\ ghost'.late = 0
  BY <1>1 DEF IsPast
<1> QED
  BY <1>1, <1>2, Constants DEF StopInv, StopHonoured

\* Answers of the model: without tool calls the controls are drained first.
LEMMA TurnStop ==
  ASSUME Forms, StopInv, NEW turn, ModelTurn(turn)
  PROVE  StopInv'
<1>0. /\ phase = "model" /\ phase \in Active \ {"summary"}
      /\ ghost.asked => control.stop
  BY Constants DEF ModelTurn, TurnStops, TurnGuided, TurnEmpty, TurnEmptyAgain, TurnOpenPlan,
         TurnNeedsPlan, TurnAnswers, TurnCeiling, TurnTools, Unguided, Says, StopInv
<1>q. Unguided(turn) => control' = Quiet /\ ~ghost.asked
  BY <1>0, QuietIsQuiet DEF Unguided, Says, Drain
<1>1. CASE TurnStops(turn)
  BY <1>1, SummaryStop DEF TurnStops, Says, Drain
<1>2. CASE TurnCeiling(turn)
  BY <1>0, <1>2, SummaryStop DEF TurnCeiling
<1>3. CASE TurnGuided(turn)
  BY <1>0, <1>3, LoopStop DEF TurnGuided, Says, Drain
<1>4. CASE TurnEmpty(turn) \/ TurnNeedsPlan(turn)
  BY <1>0, <1>q, <1>4, LoopStop DEF TurnEmpty, TurnNeedsPlan
<1>5. CASE TurnOpenPlan(turn)
  <2>1. \/ \E ms, p : AskSummary(ms, p, FALSE)
        \/ \E ms, p : Loop(ms, p)
    BY <1>5 DEF TurnOpenPlan
  <2>2. Unguided(turn)
    BY <1>5 DEF TurnOpenPlan
  <2> QED
    BY <1>0, <1>q, <2>1, <2>2, LoopStop, SummaryStop
<1>6. CASE TurnEmptyAgain(turn) \/ TurnAnswers(turn)
  BY <1>q, <1>6, FinishStop DEF TurnEmptyAgain, TurnAnswers
<1>7. CASE TurnTools(turn)
  <2>1. UNCHANGED <<stopping, control>> /\ (Cut(0) \/ (phase' = "next" /\ UNCHANGED ghost))
    BY <1>7 DEF TurnTools, SaveOrFail, Save
  <2> QED
    BY <1>0, <2>1, CutStop, Constants DEF StopInv, StopHonoured
<1> QED
  BY <1>1, <1>2, <1>3, <1>4, <1>5, <1>6, <1>7 DEF ModelTurn

LEMMA ErrorStop ==
  ASSUME Forms, StopInv, JournalTick \/ \E partial \in Partial : CompletionError(partial)
  PROVE  StopInv'
<1>1. ASSUME NEW partial, CompletionError(partial), control.stop
      PROVE  StopInv'
  BY <1>1, FinishStop DEF CompletionError, Drain
<1>2. ASSUME NEW partial, CompletionError(partial), ~control.stop
      PROVE  StopInv'
  <2>1. Cut(0) /\ UNCHANGED <<stopping, control>>
    BY <1>2 DEF CompletionError
  <2> QED
    BY <2>1, CutStop DEF StopInv
<1>3. CASE JournalTick
  <2>1. UNCHANGED <<stopping, control>> /\ (Cut(0) \/ UNCHANGED <<phase, ghost>>)
    BY <1>3 DEF JournalTick, loop
  <2> QED
    BY <2>1, CutStop DEF StopInv, StopHonoured
<1> QED
  BY <1>1, <1>2, <1>3

\* A call is dispatched after a stop at most once: the boundary after it
\* finds the stop.
LEMMA ToolsStop ==
  ASSUME Forms, StopInv, Tools
  PROVE  StopInv'
<1>b. phase = "boundary" /\ control = Quiet => ~ghost.asked
  BY QuietIsQuiet, Constants DEF StopInv
<1>1. CASE Dispatch
  <2>1. /\ phase = "next" /\ phase' = "tool" /\ UNCHANGED <<control, stopping>>
        /\ IsPast(ghost') /\ ghost'.asked = ghost.asked
        /\ ghost'.late = ghost.late + (IF ghost.asked THEN 1 ELSE 0)
    BY <1>1, DispatchPast DEF Dispatch, Forms
  <2>2. ghost.late = 0
    BY <2>1 DEF StopInv
  <2> QED
    BY <2>1, <2>2, Constants DEF StopInv, StopHonoured
<1>r. ASSUME NEW m, NEW w, NEW made, SaveResult(m, w, made), phase \in {"tool", "next"}
      PROVE  StopInv'
  <2>1. /\ UNCHANGED <<stopping, control>>
        /\ \/ phase' = "boundary" /\ UNCHANGED ghost
           \/ \E n : Cut(n)
    BY <1>r DEF SaveResult, Save
  <2> QED
    BY <1>r, <2>1, CutStop, Constants DEF StopInv, StopHonoured
<1>2. ASSUME NEW success \in BOOLEAN, ToolReturns(success)
      PROVE  StopInv'
  BY <1>2, <1>r DEF ToolReturns
<1>3. CASE SkipOverBudget
  BY <1>3, <1>r DEF SkipOverBudget
<1>4. CASE NextCall
  <2>1. /\ phase = "boundary" /\ control = Quiet /\ phase' = "next"
        /\ UNCHANGED <<stopping, control, ghost>>
    BY <1>4 DEF NextCall
  <2> QED
    BY <1>b, <2>1, Constants DEF StopInv, StopHonoured
<1>5. CASE EndBatch
  BY <1>b, <1>5, LoopStop DEF EndBatch
<1>6. CASE ControlBatch
  <2>1. /\ phase = "boundary" /\ control' = Quiet
        /\ \/ \E ms, p : AskSummary(ms, p, TRUE)
           \/ ~control.stop /\ \E ms, p : Loop(ms, p)
    BY <1>6 DEF ControlBatch, Drain
  <2>2. ghost.asked => control.stop
    BY <2>1, Constants DEF StopInv
  <2> QED
    BY <2>1, <2>2, LoopStop, SummaryStop
<1> QED
  BY <1>1, <1>2, <1>3, <1>4, <1>5, <1>6 DEF Tools

LEMMA StopStep == BudgetInv /\ StopInv /\ [Next]_vars => StopInv'
<1> SUFFICES ASSUME BudgetInv, StopInv, [Next]_vars PROVE StopInv'
  OBVIOUS
<1>0. Forms
  BY DEF BudgetInv
<1>1. CASE Run \/ Repair
  BY <1>0, <1>1, StartStop, Constants DEF Run, Repair, Forms
<1>2. CASE Resume
  <2>1. IsPast(checkpoint.past)
    BY <1>0, <1>2 DEF Resume, Forms
  <2> QED
    BY <1>2, <2>1, StartStop DEF Resume
<1>3. CASE Answer
  BY <1>0, <1>3, TurnStop DEF Answer
<1>4. CASE JournalTick \/ Stopped \/ \E partial \in Partial : ProviderFails(partial)
  BY <1>0, <1>4, ErrorStop DEF Stopped, ProviderFails, StopWakes, StopDeadline
<1>5. CASE Tools
  BY <1>0, <1>5, ToolsStop
<1>6. CASE SummaryEnds
  <2>1. PICK s : s = StoppedAtLast
    OBVIOUS
  <2>2. s \in BOOLEAN /\ (ghost.asked => s)
    BY <1>6, <2>1 DEF StoppedAtLast, SummaryEnds, StopInv
  <2> QED
    BY <1>0, <1>6, <2>1, <2>2, FinishStop DEF SummaryEnds, Drain
<1>7. CASE QueueGuidance
  <2>1. UNCHANGED <<phase, stopping>> /\ SameStop /\ ghost'.stopped = ghost.stopped
    BY <1>0, <1>7 DEF QueueGuidance, loop, SameStop, Forms, IsPast
  <2>2. /\ control'.stop = control.stop
        /\ control' = [stop |-> control'.stop, guidance |-> control'.guidance]
    BY <1>7 DEF QueueGuidance, StopInv
  <2> QED
    BY <2>1, <2>2 DEF StopInv, StopHonoured, SameStop
<1>8. CASE RequestStop
  <2>1. /\ phase \in Awaiting /\ UNCHANGED <<phase, stopping>>
        /\ ghost'.asked = TRUE /\ ghost'.late = ghost.late
    BY <1>0, <1>8 DEF RequestStop, loop, Forms, IsPast
  <2>2. control'.stop /\ control' = [stop |-> control'.stop, guidance |-> control'.guidance]
    BY <1>8 DEF RequestStop, StopInv
  <2>3. control'.stop \in BOOLEAN
    BY <1>8 DEF RequestStop, StopInv
  <2> QED
    BY <2>1, <2>2, <2>3, Constants DEF StopInv, StopHonoured
<1>9. CASE Interrupt \/ Crash
  <2>1. Cut(InFlight) /\ stopping' = stopping /\ (control' = control \/ control' = Quiet)
    BY <1>9 DEF Interrupt, Crash, loop
  <2> QED
    BY <1>0, <2>1, CutStop DEF StopInv
<1>10. CASE Recover
  <2>1. phase' = "idle" /\ stopping' = FALSE /\ UNCHANGED <<control, ghost>>
    BY <1>10 DEF Recover
  <2> QED
    BY <2>1, Constants DEF StopInv, StopHonoured
<1>11. CASE UNCHANGED vars
  BY <1>11 DEF vars, loop, StopInv, StopHonoured
<1> QED
  BY <1>1, <1>2, <1>3, <1>4, <1>5, <1>6, <1>7, <1>8, <1>9, <1>10, <1>11
     DEF Next, Host, SummaryArrives, SummaryGivenUp

LEMMA InitStop == Init => StopInv
<1> SUFFICES ASSUME Init PROVE StopInv
  OBVIOUS
<1>1. phase = "idle" /\ ~stopping /\ stopping \in BOOLEAN /\ control = Quiet
  BY DEF Init
<1>2. ghost.asked = FALSE /\ ghost.late = 0
  BY DEF Init, NoGhost
<1>3. /\ control.stop = FALSE
      /\ control = [stop |-> control.stop, guidance |-> control.guidance]
  BY <1>1, QuietIsQuiet
<1>4. ~ghost.asked /\ ghost.asked \in BOOLEAN /\ control.stop \in BOOLEAN
  BY <1>2, <1>3
<1>5. StopHonoured
  BY <1>1, <1>2 DEF StopHonoured
<1> QED
  BY <1>1, <1>2, <1>3, <1>4, <1>5 DEF StopInv

\* A run that ends by itself after a stop was asked for ends as stopped, with
\* its checkpoint, and executes at most one call in between: in every order of
\* operator, model, tools and errors.
THEOREM StopsAreHonoured == Spec => []StopHonoured
<1>1. Init => BudgetInv
  BY Constants DEF Init, BudgetInv, Forms, BudgetHolds, NoGhost
<1>2. Init => StopInv
  BY InitStop
<1>3. StopInv => StopHonoured
  BY DEF StopInv
<1> QED
  BY <1>1, <1>2, <1>3, BudgetStep, StopStep, PTL DEF Spec

-----------------------------------------------------------------------------
(* Transcripts. *)

\* The numbers of calls, of lines and of answered calls; which call an unknown
\* result is of, in the order recover_thread gives them, does not matter.
Number == Nat \cup
  UNION {{Unknown(c)[k].n : k \in 1..Cardinality(c)} : c \in SUBSET (Nat \X Nat)}

Message ==
  {m \in [role : {"system", "user", "assistant", "tool"}, n : Number,
          text : {"text", "blank", "guidance", "result", "skipped", "unknown"}] :
     m.role = "assistant" \/ m.text = "guidance" => m.n \in Nat}
Transcript == Seq(Message)

\* Nothing in ms claims that a call was executed, or that it was not.
Harmless(ms) ==
  \A j \in DOMAIN ms : ms[j].role = "tool" => ms[j].text \notin {"result", "skipped"}

LEMMA Messages ==
  /\ System \in Message /\ User \in Message /\ Said \in Message
  /\ \A n \in Nat : \A text \in {"text", "blank"} : Assistant(text, n) \in Message
  /\ \A n \in Nat : \A text \in {"result", "skipped"} : ToolResult(n, text) \in Message
  /\ \A n \in Nat : [role |-> "user", n |-> n, text |-> "guidance"] \in Message
<1>1. Nat \subseteq Number
  BY DEF Number
<1> QED
  BY <1>1 DEF Message, System, User, Said, Assistant, ToolResult

LEMMA CallsAtType ==
  ASSUME NEW ms \in Transcript, NEW i \in DOMAIN ms
  PROVE  CallsAt(ms, i) \in Nat
<1>1. ms[i] \in Message
  BY LenProperties DEF Transcript
<1> QED
  BY <1>1 DEF CallsAt, Message

LEMMA InCalls ==
  ASSUME NEW ms \in Transcript, NEW i, NEW k
  PROVE  <<i, k>> \in Calls(ms) <=> (i \in DOMAIN ms /\ k \in 1..CallsAt(ms, i))
BY DEF Calls

\* A call is a position in the transcript and an index.
LEMMA CallsType ==
  ASSUME NEW ms \in Transcript
  PROVE  /\ Calls(ms) \subseteq (1..Len(ms)) \X Nat /\ Calls(ms) \subseteq Nat \X Nat
         /\ IsFiniteSet(Calls(ms))
<1>1. Len(ms) \in Nat /\ DOMAIN ms = 1..Len(ms)
  BY LenProperties DEF Transcript
<1>2. \A i \in DOMAIN ms : CallsAt(ms, i) \in Nat
  BY CallsAtType
<1>3. Calls(ms) \subseteq (1..Len(ms)) \X Nat
  BY <1>1, <1>2 DEF Calls
<1>4. Calls(ms) \subseteq Nat \X Nat
  BY <1>1, <1>3
<1>5. PICK f : f = [i \in DOMAIN ms |-> {i} \X (1..CallsAt(ms, i))]
  OBVIOUS
<1>6. PICK T : T = {f[i] : i \in DOMAIN ms}
  OBVIOUS
<1>7. f \in Surjection(DOMAIN ms, T)
  BY <1>5, <1>6 DEF Surjection
<1>8. IsFiniteSet(DOMAIN ms)
  BY <1>1, FS_Interval
<1>9. IsFiniteSet(T)
  BY <1>7, <1>8, FS_Surjection
<1>10. \A i \in DOMAIN ms : IsFiniteSet({i} \X (1..CallsAt(ms, i)))
  <2> TAKE i \in DOMAIN ms
  <2>1. PICK A, B : A = {i} /\ B = 1..CallsAt(ms, i)
    OBVIOUS
  <2>2. CallsAt(ms, i) \in Int /\ 1 \in Int
    BY <1>2
  <2>3. IsFiniteSet(A)
    BY <2>1, FS_Singleton
  <2>4. IsFiniteSet(B)
    <3>1. IsFiniteSet(1..CallsAt(ms, i))
      BY <2>2, FS_Interval
    <3> QED
      BY <2>1, <3>1
  <2>5. IsFiniteSet(A \X B)
    BY <2>3, <2>4, FS_Product
  <2> QED
    BY <2>1, <2>5
<1>11. \A S \in T : IsFiniteSet(S)
  BY <1>5, <1>6, <1>10
<1>12. Calls(ms) = UNION T
  BY <1>5, <1>6 DEF Calls
<1>13. IsFiniteSet(Calls(ms))
  BY <1>9, <1>11, <1>12, FS_UNION
<1> QED
  BY <1>3, <1>4, <1>13

\* What a transcript says stays where it is when messages are added.
LEMMA Extended ==
  ASSUME NEW ms \in Transcript, NEW x \in Transcript
  PROVE  /\ ms \o x \in Transcript /\ Len(ms \o x) = Len(ms) + Len(x)
         /\ Len(ms) \in Nat /\ Len(x) \in Nat
         /\ DOMAIN ms = 1..Len(ms) /\ DOMAIN (ms \o x) = 1..(Len(ms) + Len(x))
         /\ DOMAIN x = 1..Len(x)
         /\ \A i \in 1..Len(ms) : (ms \o x)[i] = ms[i]
         /\ \A i \in 1..Len(x) : (ms \o x)[Len(ms) + i] = x[i]
         /\ DOMAIN ms \subseteq DOMAIN (ms \o x)
         /\ \A j \in DOMAIN (ms \o x) \ DOMAIN ms :
              \E k \in DOMAIN x : j = Len(ms) + k /\ (ms \o x)[j] = x[k]
<1>1. ms \o x \in Transcript /\ Len(ms \o x) = Len(ms) + Len(x)
  BY ConcatProperties DEF Transcript
<1>2. Len(ms) \in Nat /\ Len(x) \in Nat /\ DOMAIN ms = 1..Len(ms) /\ DOMAIN x = 1..Len(x)
  BY LenProperties DEF Transcript
<1>3. DOMAIN (ms \o x) = 1..(Len(ms) + Len(x))
  BY <1>1, LenProperties DEF Transcript
<1>4. \A i \in 1..(Len(ms) + Len(x)) :
        (ms \o x)[i] = IF i <= Len(ms) THEN ms[i] ELSE x[i - Len(ms)]
  BY ConcatProperties DEF Transcript
<1>5. \A i \in 1..Len(ms) : (ms \o x)[i] = ms[i]
  BY <1>2, <1>4
<1>6. \A i \in 1..Len(x) : (ms \o x)[Len(ms) + i] = x[i]
  BY <1>2, <1>4
<1>7. DOMAIN ms \subseteq DOMAIN (ms \o x)
  BY <1>2, <1>3
<1>8. ASSUME NEW j \in DOMAIN (ms \o x) \ DOMAIN ms
      PROVE  \E k \in DOMAIN x : j = Len(ms) + k /\ (ms \o x)[j] = x[k]
  <2>1. j - Len(ms) \in DOMAIN x /\ j = Len(ms) + (j - Len(ms))
    BY <1>2, <1>3
  <2>2. PICK k \in DOMAIN x : j = Len(ms) + k
    BY <2>1
  <2>3. (ms \o x)[Len(ms) + k] = x[k]
    BY <1>2, <1>6
  <2> QED
    BY <2>2, <2>3
<1> QED
  BY <1>1, <1>2, <1>3, <1>5, <1>6, <1>7, <1>8

LEMMA Added ==
  ASSUME NEW ms \in Transcript, NEW x \in Transcript, NEW j \in DOMAIN (ms \o x), j \notin DOMAIN ms
  PROVE  \E k \in DOMAIN x : j = Len(ms) + k /\ (ms \o x)[j] = x[k]
<1>1. \A i \in DOMAIN (ms \o x) \ DOMAIN ms :
        \E k \in DOMAIN x : i = Len(ms) + k /\ (ms \o x)[i] = x[k]
  BY Extended, Zenon
<1> QED
  BY <1>1, Zenon

LEMMA OneMore ==
  ASSUME NEW ms \in Transcript, NEW m \in Message
  PROVE  <<m>> \in Transcript /\ Append(ms, m) = ms \o <<m>> /\ Len(<<m>>) = 1
BY AppendIsConcat, LenProperties DEF Transcript

\* A result answers a call of a batch before it.
LEMMA AnsweredBefore ==
  ASSUME NEW ms, NEW j \in Nat \ {0}
  PROVE  /\ Answered(ms, j)[1] \in Nat /\ Answered(ms, j)[1] < j
         /\ Answered(ms, j)[2] = ms[j].n
<1> DEFINE at == {i \in 1..(j - 1) : CallsAt(ms, i) > 0}
<1>1. j - 1 \in Nat /\ at \in SUBSET (0..(j - 1))
  OBVIOUS
<1>2. at = {} \/ \E i \in at : \A k \in at : k <= i
  BY <1>1, GreatestBelow
<1>3. at # {} => (CHOOSE i \in at : \A k \in at : k <= i) \in at
  BY <1>2
<1> QED
  BY <1>1, <1>3 DEF Answered

\* Namely of the nearest one.
LEMMA AnsweredIs ==
  ASSUME NEW ms, NEW j \in Nat, NEW i \in 1..(j - 1), CallsAt(ms, i) > 0,
         \A k \in (i + 1)..(j - 1) : CallsAt(ms, k) = 0
  PROVE  Answered(ms, j) = <<i, ms[j].n>>
<1> DEFINE at == {l \in 1..(j - 1) : CallsAt(ms, l) > 0}
<1>1. i \in at /\ \A k \in at : k <= i
  OBVIOUS
<1>2. \A l \in at : (\A k \in at : k <= l) => l = i
  BY <1>1
<1>3. i = CHOOSE l \in at : \A k \in at : k <= l
  BY <1>1, <1>2
<1> QED
  BY <1>1, <1>3 DEF Answered

\* It depends on the batches before it.
BatchesBefore(ms, j) == {i \in 1..(j - 1) : CallsAt(ms, i) > 0}
Latest(S) == IF S = {} THEN 0 ELSE CHOOSE i \in S : \A k \in S : k <= i

LEMMA AnsweredByPosition ==
  \A ms, j : Answered(ms, j) = <<Latest(BatchesBefore(ms, j)), ms[j].n>>
BY DEF Answered, BatchesBefore, Latest

LEMMA AnsweredStays ==
  ASSUME NEW ms \in Transcript, NEW x \in Transcript, NEW j \in DOMAIN ms
  PROVE  Answered(ms \o x, j) = Answered(ms, j)
<1>0. Len(ms) \in Nat /\ j \in 1..Len(ms)
  BY LenProperties DEF Transcript
<1>1. \A i \in 1..(j - 1) : i \in 1..Len(ms)
  BY <1>0
<1>2. \A i \in 1..(j - 1) : CallsAt(ms \o x, i) = CallsAt(ms, i)
  <2>1. \A i \in 1..Len(ms) : (ms \o x)[i] = ms[i]
    BY Extended
  <2> QED
    BY <1>1, <2>1 DEF CallsAt
<1>3. BatchesBefore(ms \o x, j) = BatchesBefore(ms, j)
  BY <1>2 DEF BatchesBefore
<1>4. (ms \o x)[j].n = ms[j].n
  BY <1>0, Extended
<1> QED
  BY <1>3, <1>4, AnsweredByPosition

LEMMA CallsGrow ==
  ASSUME NEW ms \in Transcript, NEW x \in Transcript
  PROVE  Calls(ms) \subseteq Calls(ms \o x) /\ Results(ms) \subseteq Results(ms \o x)
<1>0. DOMAIN ms = 1..Len(ms) /\ \A i \in 1..Len(ms) : (ms \o x)[i] = ms[i]
  BY Extended
<1>1. DOMAIN ms \subseteq DOMAIN (ms \o x) /\ \A i \in DOMAIN ms : (ms \o x)[i] = ms[i]
  BY <1>0, Extended, Zenon
<1>2. Calls(ms) \subseteq Calls(ms \o x)
  BY <1>1 DEF Calls, CallsAt
<1>3. \A j \in DOMAIN ms : Answered(ms \o x, j) = Answered(ms, j)
  BY AnsweredStays
<1>4. Results(ms) \subseteq Results(ms \o x)
  BY <1>1, <1>3 DEF Results, Positions
<1> QED
  BY <1>2, <1>4

\* More messages tell the truth if the results among them do.
LEMMA TruthfulMore ==
  ASSUME NEW ms \in Transcript, NEW x \in Transcript, NEW started, Truthful(ms, started),
         \A j \in DOMAIN x : x[j].role = "tool" =>
           /\ x[j].text = "result" => Answered(ms \o x, Len(ms) + j) \in started
           /\ x[j].text = "skipped" => Answered(ms \o x, Len(ms) + j) \notin started
  PROVE  Truthful(ms \o x, started)
<1> SUFFICES ASSUME NEW j \in DOMAIN (ms \o x), (ms \o x)[j].role = "tool"
             PROVE  /\ (ms \o x)[j].text = "result" => Answered(ms \o x, j) \in started
                    /\ (ms \o x)[j].text = "skipped" => Answered(ms \o x, j) \notin started
  BY DEF Truthful, Positions
<1>1. /\ Len(ms) \in Nat /\ Len(x) \in Nat /\ DOMAIN ms = 1..Len(ms) /\ DOMAIN x = 1..Len(x)
      /\ DOMAIN (ms \o x) = 1..(Len(ms) + Len(x))
  BY Extended
<1>2. CASE j \in DOMAIN ms
  <2>1. (ms \o x)[j] = ms[j] /\ Answered(ms \o x, j) = Answered(ms, j)
    BY <1>1, <1>2, Extended, AnsweredStays
  <2> QED
    BY <1>2, <2>1 DEF Truthful, Positions
<1>3. CASE j \notin DOMAIN ms
  <2>1. PICK k \in DOMAIN x : j = Len(ms) + k /\ (ms \o x)[j] = x[k]
    BY <1>3, Added
  <2> QED
    BY <2>1
<1> QED
  BY <1>2, <1>3

\* A transcript in which every executed call is found, all but the open ones
\* have a result, and no result is a lie.
Tells(ms, started, open) ==
  /\ ms \in Transcript
  /\ started \subseteq Calls(ms) /\ started \ Results(ms) \subseteq open
  /\ Truthful(ms, started)

LEMMA TellsMore ==
  ASSUME NEW ms, NEW x \in Transcript, Harmless(x), NEW started, NEW open,
         Tells(ms, started, open)
  PROVE  Tells(ms \o x, started, open)
<1>1. ms \in Transcript
  BY DEF Tells
<1>2. Truthful(ms \o x, started)
  BY <1>1, TruthfulMore DEF Tells, Harmless
<1>3. ms \o x \in Transcript
  BY <1>1, Extended
<1> QED
  BY <1>1, <1>2, <1>3, CallsGrow DEF Tells

\* Messages that make no claim.
LEMMA HarmlessParts ==
  /\ <<>> \in Transcript /\ Harmless(<<>>)
  /\ \A m \in Message : m.role # "tool" => <<m>> \in Transcript /\ Harmless(<<m>>)
  /\ \A x, y \in Transcript : Harmless(x) /\ Harmless(y) =>
       x \o y \in Transcript /\ Harmless(x \o y)
<1>1. <<>> \in Transcript /\ Harmless(<<>>)
  BY EmptySeq DEF Transcript, Harmless
<1>2. ASSUME NEW m \in Message, m.role # "tool"
      PROVE  <<m>> \in Transcript /\ Harmless(<<m>>)
  BY <1>2 DEF Transcript, Harmless
<1>3. ASSUME NEW x \in Transcript, NEW y \in Transcript, Harmless(x), Harmless(y)
      PROVE  x \o y \in Transcript /\ Harmless(x \o y)
  <2>1. x \o y \in Transcript
    BY Extended
  <2>2. ASSUME NEW j \in DOMAIN (x \o y)
        PROVE  (x \o y)[j].role = "tool" => (x \o y)[j].text \notin {"result", "skipped"}
    <3>1. CASE j \in DOMAIN x
      BY <1>3, <3>1, Extended DEF Harmless
    <3>2. CASE j \notin DOMAIN x
      <4>3. PICK k \in DOMAIN y : (x \o y)[j] = y[k]
        BY <3>2, Added
      <4> QED
        BY <1>3, <4>3 DEF Harmless
    <3> QED
      BY <3>1, <3>2
  <2> QED
    BY <2>1, <2>2 DEF Harmless
<1> QED
  BY <1>1, <1>2, <1>3

-----------------------------------------------------------------------------
(* Batches. *)

\* The last batch of ms is at b, and only results follow it.
LastBatch(ms, b, n) ==
  /\ b \in 1..Len(ms) /\ ms[b].role = "assistant" /\ ms[b].n = n
  /\ \A k \in (b + 1)..Len(ms) : ms[k].role = "tool" /\ ms[k].n = k - b

\* Results that follow are of the same batch.
LEMMA BatchAnswered ==
  ASSUME NEW ms \in Transcript, NEW x \in Transcript, NEW b, NEW n \in Nat \ {0},
         LastBatch(ms, b, n), \A k \in DOMAIN x : x[k].role = "tool", NEW j \in DOMAIN x
  PROVE  Answered(ms \o x, Len(ms) + j) = <<b, x[j].n>>
<1>1. /\ Len(ms) \in Nat /\ Len(x) \in Nat /\ DOMAIN x = 1..Len(x)
      /\ \A i \in 1..Len(ms) : (ms \o x)[i] = ms[i]
      /\ \A i \in 1..Len(x) : (ms \o x)[Len(ms) + i] = x[i]
  BY Extended
<1>2. b \in 1..(Len(ms) + j - 1) /\ Len(ms) + j \in Nat /\ j \in 1..Len(x)
  BY <1>1 DEF LastBatch
<1>3. CallsAt(ms \o x, b) > 0
  BY <1>1 DEF CallsAt, LastBatch
<1>4. ASSUME NEW k \in (b + 1)..(Len(ms) + j - 1)
      PROVE  CallsAt(ms \o x, k) = 0
  <2>1. CASE k <= Len(ms)
    BY <1>1, <1>2, <2>1 DEF CallsAt, LastBatch
  <2>2. CASE k > Len(ms)
    <3>1. k - Len(ms) \in 1..Len(x) /\ k = Len(ms) + (k - Len(ms))
      BY <1>1, <1>2, <2>2 DEF LastBatch
    <3>2. PICK i \in 1..Len(x) : k = Len(ms) + i
      BY <3>1
    <3> QED
      BY <1>1, <3>2 DEF CallsAt
  <2> QED
    BY <1>1, <1>2, <2>1, <2>2
<1>5. (ms \o x)[Len(ms) + j] = x[j]
  BY <1>1
<1>6. PICK z, l : z = ms \o x /\ l = Len(ms) + j
  OBVIOUS
<1>7. l \in Nat /\ b \in 1..(l - 1) /\ CallsAt(z, b) > 0
  BY <1>2, <1>3, <1>6
<1>8. \A k \in (b + 1)..(l - 1) : CallsAt(z, k) = 0
  BY <1>4, <1>6
<1>9. Answered(z, l) = <<b, z[l].n>>
  BY <1>7, <1>8, AnsweredIs
<1> QED
  BY <1>5, <1>6, <1>9

\* The calls of a checkpoint that is accepted have their results.
LEMMA ValidAnswers ==
  ASSUME NEW c, c.messages \in Transcript, Validate(c)
  PROVE  Calls(c.messages) \subseteq Results(c.messages)
<1>1. PICK ms : ms = c.messages
  OBVIOUS
<1>2. ms \in Transcript /\ Len(ms) \in Nat /\ DOMAIN ms = 1..Len(ms)
  BY <1>1, LenProperties DEF Transcript
<1>3. \A i \in DOMAIN ms : CallsAt(ms, i) > 0 =>
        /\ i + CallsAt(ms, i) <= Len(ms)
        /\ {<<ms[j].role, ms[j].n>> : j \in (i + 1)..(i + CallsAt(ms, i))}
             = {"tool"} \X (1..CallsAt(ms, i))
  BY <1>1 DEF Validate
<1> SUFFICES ASSUME NEW i, NEW k, <<i, k>> \in Calls(ms) PROVE <<i, k>> \in Results(ms)
  BY <1>1, <1>2, CallsType
<1>4. i \in 1..Len(ms) /\ k \in 1..CallsAt(ms, i)
  BY <1>2, InCalls
<1>5. PICK n \in Nat : n = CallsAt(ms, i)
  BY <1>2, <1>4, CallsAtType
<1>6. /\ n > 0 /\ i + n <= Len(ms)
      /\ {<<ms[j].role, ms[j].n>> : j \in (i + 1)..(i + n)} = {"tool"} \X (1..n)
  BY <1>2, <1>3, <1>4, <1>5
<1>7. ASSUME NEW j \in (i + 1)..(i + n) PROVE ms[j].role = "tool"
  <2>1. <<ms[j].role, ms[j].n>> \in {"tool"} \X (1..n)
    BY <1>6
  <2> QED
    BY <2>1
<1>8. PICK j \in (i + 1)..(i + n) : ms[j].n = k
  <2>1. <<"tool", k>> \in {<<ms[j].role, ms[j].n>> : j \in (i + 1)..(i + n)}
    BY <1>4, <1>5, <1>6
  <2> QED
    BY <2>1
<1>9. i \in 1..(j - 1) /\ j \in Nat /\ j \in DOMAIN ms
  BY <1>2, <1>4, <1>6
<1>10. \A l \in (i + 1)..(j - 1) : CallsAt(ms, l) = 0
  BY <1>4, <1>7, <1>9 DEF CallsAt
<1>11. Answered(ms, j) = <<i, k>>
  BY <1>5, <1>6, <1>8, <1>9, <1>10, AnsweredIs
<1> QED
  BY <1>7, <1>9, <1>11 DEF Results, Positions

-----------------------------------------------------------------------------
(* What the loop, the journal and the checkpoint tell. *)

IsBatch(b) ==
  b = [calls |-> b.calls, at |-> b.at, evidence |-> b.evidence, promised |-> b.promised]

InBatch == {"next", "tool", "boundary"}

\* Where the batch is that the loop works through.
Base(ph, ms, b) == IF ph = "boundary" THEN Len(ms) - b.at ELSE (Len(ms) - b.at) + 1

\* The calls of the batch that were executed are the ones up to the current one,
\* which is executed between "next" and "tool".
BatchOk(ph, ms, b, started) ==
  /\ Len(b.calls) \in Nat /\ b.at \in 1..Len(b.calls)
  /\ LastBatch(ms, Base(ph, ms, b), Len(b.calls))
  /\ \A k : <<Base(ph, ms, b), k>> \in started =>
       k \in 1..b.at /\ (ph = "next" => k # b.at)
  /\ ph = "tool" => <<Base(ph, ms, b), b.at>> \in started

\* The call whose result the transcripts do not have yet.
Uncertain == IF phase = "tool" THEN {<<Base(phase, messages, batch), batch.at>>} ELSE {}

\* The inductive invariant of ResultsAreTruthful: where the batch is, and what the
\* loop's transcript, the journal and the checkpoint tell of the executed calls.
TranscriptInv ==
  /\ phase \in Active \cup {"done", "cut", "idle"}
  /\ IsBatch(batch) /\ control.guidance \in Nat
  /\ phase \in InBatch => BatchOk(phase, messages, batch, ghost.started)
  /\ phase \in Active \cup {"done"} => Tells(messages, ghost.started, Uncertain)
  /\ phase \in Active \cup {"done"} /\ journal # NoJournal =>
       Tells(journal.messages, ghost.started, Uncertain)
  /\ phase = "cut" /\ journal # NoJournal =>
       \E c : Tells(journal.messages, ghost.started, {c})
  /\ phase \in InBatch /\ journal # NoJournal => journal.messages = messages
  /\ phase = "idle" => journal = NoJournal
  /\ checkpoint # NoCheckpoint =>
       /\ checkpoint.messages \in Transcript
       /\ checkpoint.past.started \subseteq Calls(checkpoint.messages)
       /\ Truthful(checkpoint.messages, checkpoint.past.started)

LEMMA TranscriptTruth == TranscriptInv => ResultsTruthful
<1> SUFFICES ASSUME TranscriptInv PROVE ResultsTruthful
  OBVIOUS
<1>1. ASSUME journal # NoJournal
      PROVE  \E c : Tells(journal.messages, ghost.started, {c})
  <2>1. CASE phase = "cut"
    BY <1>1, <2>1 DEF TranscriptInv
  <2>2. CASE phase \in Active \cup {"done"}
    <3>1. PICK c : Uncertain \subseteq {c}
      BY DEF Uncertain
    <3> QED
      BY <1>1, <2>2, <3>1 DEF TranscriptInv, Tells
  <2> QED
    BY <1>1, <2>1, <2>2 DEF TranscriptInv
<1>2. ASSUME NEW S, NEW c, S \subseteq {c}
      PROVE  Cardinality(S) <= 1
  <2>1. S = {} \/ S = {c}
    BY <1>2
  <2>2. Cardinality({}) = 0 /\ Cardinality({c}) = 1
    BY FS_EmptySet, FS_Singleton, Zenon
  <2> QED
    BY <2>1, <2>2
<1>3. ASSUME journal # NoJournal
      PROVE  /\ ghost.started \subseteq Calls(journal.messages)
             /\ Cardinality(ghost.started \ Results(journal.messages)) <= 1
  BY <1>1, <1>2, <1>3 DEF Tells
<1> QED
  BY <1>3 DEF TranscriptInv, Tells, ResultsTruthful

\* The run goes on, or ends, outside a batch.
LEMMA OutsideBatch ==
  ASSUME TranscriptInv, phase' \in {"model", "summary", "done"},
         ghost'.started = ghost.started, Tells(messages', ghost.started, {}),
         journal' # NoJournal => Tells(journal'.messages, ghost.started, {}),
         IsBatch(batch'), control'.guidance \in Nat,
         \/ checkpoint' = checkpoint
         \/ checkpoint'.messages = messages' /\ checkpoint'.past = ghost
  PROVE  TranscriptInv'
<1>1. phase' \notin InBatch /\ Uncertain' = {} /\ phase' \in Active \cup {"done", "cut", "idle"}
  BY Constants DEF Uncertain, InBatch
<1>2. checkpoint' # NoCheckpoint =>
       /\ checkpoint'.messages \in Transcript
       /\ checkpoint'.past.started \subseteq Calls(checkpoint'.messages)
       /\ Truthful(checkpoint'.messages, checkpoint'.past.started)
  BY DEF TranscriptInv, Tells
<1> QED
  BY <1>1, <1>2 DEF TranscriptInv

LEMMA CutTranscript ==
  ASSUME TranscriptInv, phase \in Active \cup {"done"}, phase' = "cut",
         ghost'.started = ghost.started, IsBatch(batch'), control'.guidance \in Nat,
         journal' = journal \/ Tells(journal'.messages, ghost.started, {}),
         checkpoint' = checkpoint
  PROVE  TranscriptInv'
<1>1. phase' \notin InBatch /\ phase' \notin Active \cup {"done"}
  BY Constants DEF InBatch
<1>2. journal' # NoJournal => \E c : Tells(journal'.messages, ghost.started, {c})
  <2>1. PICK c : Uncertain \subseteq {c}
    BY DEF Uncertain
  <2> QED
    BY <2>1 DEF TranscriptInv, Tells
<1> QED
  BY <1>1, <1>2 DEF TranscriptInv

LEMMA CutRecord ==
  ASSUME IsPast(ghost), NEW n, Cut(n)
  PROVE  phase' = "cut" /\ ghost'.started = ghost.started
BY DEF Cut, IsPast

\* save_progress outside a batch.
LEMMA LoopTranscript ==
  ASSUME TranscriptInv, Forms, NEW ms, NEW p, Loop(ms, p), phase \in Active,
         Tells(ms, ghost.started, {}), control'.guidance \in Nat
  PROVE  TranscriptInv'
<1>1. messages' = ms /\ batch' = batch /\ checkpoint' = checkpoint
  BY DEF Loop, SaveOrFail
<1>2. CASE Cut(0) /\ UNCHANGED journal
  BY <1>1, <1>2, CutRecord, CutTranscript DEF Forms, TranscriptInv
<1>3. CASE Save(ms, work, p, "model")
  <2>1. phase' = "model" /\ journal'.messages = ms /\ ghost' = ghost
    BY <1>3 DEF Save, Progress
  <2> QED
    BY <1>1, <2>1, OutsideBatch DEF TranscriptInv
<1> QED
  BY <1>2, <1>3 DEF Loop, SaveOrFail

LEMMA SummaryTranscript ==
  ASSUME TranscriptInv, NEW ms, NEW p, NEW s, AskSummary(ms, p, s),
         phase \in Active \ {"tool"}, Tells(ms, ghost.started, {}), control'.guidance \in Nat
  PROVE  TranscriptInv'
<1>1. /\ phase' = "summary" /\ messages' = ms
      /\ UNCHANGED <<batch, journal, checkpoint, ghost>>
  BY DEF AskSummary
<1>2. Uncertain = {}
  BY Constants DEF Uncertain
<1> QED
  BY <1>1, <1>2, OutsideBatch DEF TranscriptInv

LEMMA FinishTranscript ==
  ASSUME TranscriptInv, Forms, NEW ms, NEW p, NEW s, Finish(ms, p, s), phase \in Active,
         Tells(ms, ghost.started, {}), control'.guidance \in Nat
  PROVE  TranscriptInv'
<1>1. messages' = ms /\ batch' = batch
  BY DEF Finish
<1>2. CASE Cut(0) /\ UNCHANGED <<journal, checkpoint>>
  BY <1>1, <1>2, CutRecord, CutTranscript DEF Forms, TranscriptInv
<1>3. CASE phase' = "done"
  <2>1. /\ journal'.messages = ms /\ ghost' = [ghost EXCEPT !.stopped = s]
        /\ \/ checkpoint' = checkpoint
           \/ checkpoint'.messages = ms /\ checkpoint'.past = ghost
    BY <1>3 DEF Finish, Progress, Checkpoint, Cut
  <2>2. ghost'.started = ghost.started
    BY <2>1 DEF Forms, IsPast
  <2> QED
    BY <1>1, <1>3, <2>1, <2>2, OutsideBatch DEF TranscriptInv
<1> QED
  BY <1>2, <1>3 DEF Finish

LEMMA StartTranscript ==
  ASSUME TranscriptInv, NEW ms, NEW w, NEW p, NEW g, IsPast(g), Tells(ms, g.started, {}),
         Start(ms, w, p, g), checkpoint' = checkpoint \/ checkpoint' = NoCheckpoint
  PROVE  TranscriptInv'
<1>1. /\ messages' = ms /\ batch' = NoCalls /\ control' = control
      /\ ghost' = [g EXCEPT !.asked = control.stop, !.late = 0, !.stopped = FALSE,
                            !.told = 0, !.queued = 0, !.from = Len(ms)]
  BY DEF Start
<1>2. ghost'.started = g.started
  BY <1>1 DEF IsPast
<1>3. IsBatch(batch')
  BY <1>1 DEF IsBatch, NoCalls
<1>4. \/ phase' = "model" /\ journal'.messages = ms
      \/ phase' = "cut" /\ journal' = NoJournal
  BY DEF Start, Progress
<1>5. /\ phase' \notin InBatch /\ Uncertain' = {} /\ phase' # "idle"
      /\ phase' \in Active \cup {"done", "cut", "idle"}
  BY <1>4, Constants DEF InBatch, Uncertain
<1>6. checkpoint' # NoCheckpoint =>
       /\ checkpoint'.messages \in Transcript
       /\ checkpoint'.past.started \subseteq Calls(checkpoint'.messages)
       /\ Truthful(checkpoint'.messages, checkpoint'.past.started)
  BY DEF TranscriptInv
<1>7. phase' \in Active \cup {"done"} => phase' = "model"
  BY <1>4, Constants
<1>8. phase' \in Active \cup {"done"} /\ journal' # NoJournal =>
        Tells(journal'.messages, ghost'.started, Uncertain')
  BY <1>2, <1>4, <1>5, Constants
<1>9. Tells(messages', ghost'.started, Uncertain')
  BY <1>1, <1>2, <1>5
<1>10. control'.guidance \in Nat
  BY <1>1 DEF TranscriptInv
<1>11. phase' = "cut" => journal' = NoJournal
  BY <1>4
<1> QED
  BY <1>3, <1>5, <1>6, <1>8, <1>9, <1>10, <1>11 DEF TranscriptInv

-----------------------------------------------------------------------------
(* The messages that the loop adds. *)

LEMMA AppendTells ==
  ASSUME NEW ms, NEW m \in Message, m.role # "tool", NEW started, NEW open,
         Tells(ms, started, open)
  PROVE  Tells(Append(ms, m), started, open)
<1>1. <<m>> \in Transcript /\ Harmless(<<m>>)
  BY HarmlessParts
<1>2. Append(ms, m) = ms \o <<m>>
  BY OneMore DEF Tells
<1> QED
  BY <1>1, <1>2, TellsMore

LEMMA Speech ==
  /\ User.role # "tool" /\ Said.role # "tool"
  /\ \A text, n : Assistant(text, n).role # "tool"
BY DEF User, Said, Assistant

LEMMA PromptHarmless ==
  \A p : OpenPlanPrompt(p) \in Transcript /\ Harmless(OpenPlanPrompt(p))
BY Messages, Speech, HarmlessParts DEF OpenPlanPrompt

LEMMA ControlHarmless ==
  ASSUME control.guidance \in Nat
  PROVE  ControlMessages \in Transcript /\ Harmless(ControlMessages)
<1>1. PICK m : m = [role |-> "user", n |-> control.guidance, text |-> "guidance"]
  OBVIOUS
<1>2. m \in Message /\ m.role # "tool"
  BY <1>1, Messages
<1>3. PICK x, y : /\ x = IF control.guidance > 0 THEN <<m>> ELSE <<>>
                  /\ y = IF control.stop THEN <<User>> ELSE <<>>
  OBVIOUS
<1>4. ControlMessages = x \o y
  BY <1>1, <1>3 DEF ControlMessages
<1>5. x \in Transcript /\ Harmless(x)
  BY <1>2, <1>3, HarmlessParts
<1>6. y \in Transcript /\ Harmless(y)
  BY <1>3, Messages, Speech, HarmlessParts
<1> QED
  BY <1>4, <1>5, <1>6, HarmlessParts

LEMMA HeardTells ==
  ASSUME TranscriptInv, phase = "model", NEW turn
  PROVE  Tells(Heard(turn), ghost.started, {})
<1>1. Tells(messages, ghost.started, {}) /\ control.guidance \in Nat
  BY Constants DEF TranscriptInv, Uncertain
<1>2. PICK m : m = Assistant(TextOf(turn), 0)
  OBVIOUS
<1>3. m \in Message /\ m.role # "tool"
  BY <1>2, Messages, Speech DEF TextOf
<1>4. Tells(messages \o <<m>>, ghost.started, {})
  BY <1>1, <1>3, TellsMore, HarmlessParts
<1>5. Tells((messages \o <<m>>) \o ControlMessages, ghost.started, {})
  BY <1>1, <1>4, TellsMore, ControlHarmless
<1> QED
  BY <1>2, <1>5 DEF Heard

\* The calls of a turn.
LEMMA TurnCalls ==
  ASSUME NEW turn \in Turns
  PROVE  Len(turn.calls) \in Nat /\ (turn.calls # <<>> => Len(turn.calls) >= 1)
<1>1. turn.calls \in BoundedSeq(Kind, MaxBatch)
  BY DEF Turns, Turn
<1>2. PICK n \in 0..MaxBatch : turn.calls \in [1..n -> Kind]
  BY <1>1 DEF BoundedSeq, SeqOf
<1>3. turn.calls \in Seq(Kind)
  BY <1>2, BoundAssumption, SeqDef
<1> QED
  BY <1>3, EmptySeq, LenProperties

LEMMA QuietGuidance == Quiet.guidance \in Nat
BY DEF Quiet

LEMMA TurnTranscript ==
  ASSUME TranscriptInv, Forms, NEW turn \in Turns, ModelTurn(turn)
  PROVE  TranscriptInv'
<1>0. phase = "model" /\ phase \in Active \ {"tool"}
  BY Constants DEF ModelTurn, TurnStops, TurnGuided, TurnEmpty, TurnEmptyAgain, TurnOpenPlan,
         TurnNeedsPlan, TurnAnswers, TurnCeiling, TurnTools, Unguided, Says
<1>h. PICK h : h = Heard(turn)
  OBVIOUS
<1>t. Tells(h, ghost.started, {}) /\ Tells(Append(h, User), ghost.started, {})
  BY <1>0, <1>h, HeardTells, AppendTells, Messages, Speech
<1>p. ASSUME NEW ms, Tells(ms, ghost.started, {}), NEW p
      PROVE  Tells(ms \o OpenPlanPrompt(p), ghost.started, {})
  BY <1>p, TellsMore, PromptHarmless
<1>c. Says(turn) => control'.guidance \in Nat
  BY QuietGuidance DEF Says, Drain
<1>1. CASE TurnStops(turn)
  BY <1>0, <1>h, <1>t, <1>c, <1>1, SummaryTranscript DEF TurnStops
<1>2. CASE TurnGuided(turn)
  <2>1. \E p : Loop(h \o OpenPlanPrompt(p), p)
    BY <1>h, <1>2 DEF TurnGuided
  <2> QED
    BY <1>0, <1>t, <1>p, <1>c, <1>2, <2>1, LoopTranscript DEF TurnGuided
<1>3. CASE TurnEmpty(turn)
  <2>1. \E p : Loop(Append(h, User) \o OpenPlanPrompt(p), p)
    BY <1>h, <1>3 DEF TurnEmpty
  <2> QED
    BY <1>0, <1>t, <1>p, <1>c, <1>3, <2>1, LoopTranscript DEF TurnEmpty, Unguided
<1>4. CASE TurnNeedsPlan(turn)
  <2>1. Loop(Append(h, User), plan)
    BY <1>h, <1>4 DEF TurnNeedsPlan
  <2> QED
    BY <1>0, <1>t, <1>c, <1>4, <2>1, LoopTranscript DEF TurnNeedsPlan, Unguided
<1>5. CASE TurnOpenPlan(turn)
  <2>1. \/ \E p : AskSummary(Append(h, User), p, FALSE)
        \/ \E p : Loop(h \o OpenPlanPrompt(p), p)
    BY <1>h, <1>5 DEF TurnOpenPlan
  <2>2. control'.guidance \in Nat
    BY <1>c, <1>5 DEF TurnOpenPlan, Unguided
  <2> QED
    BY <1>0, <1>t, <1>p, <2>1, <2>2, LoopTranscript, SummaryTranscript
<1>6. CASE TurnEmptyAgain(turn)
  <2>1. Tells(Append(h, Said), ghost.started, {})
    BY <1>t, AppendTells, Messages, Speech
  <2>2. Finish(Append(h, Said), plan, FALSE)
    BY <1>h, <1>6 DEF TurnEmptyAgain
  <2> QED
    BY <1>0, <1>c, <1>6, <2>1, <2>2, FinishTranscript DEF TurnEmptyAgain, Unguided
<1>7. CASE TurnAnswers(turn)
  <2>1. \E p : Finish(h, p, FALSE)
    BY <1>h, <1>7 DEF TurnAnswers
  <2> QED
    BY <1>0, <1>t, <1>c, <1>7, <2>1, FinishTranscript DEF TurnAnswers, Unguided
<1>m. Tells(messages, ghost.started, {}) /\ control.guidance \in Nat
  BY <1>0, Constants DEF TranscriptInv, Uncertain
<1>8. CASE TurnCeiling(turn)
  <2>1. <<Said, User>> = <<Said>> \o <<User>>
    OBVIOUS
  <2>2. <<Said, User>> \in Transcript /\ Harmless(<<Said, User>>)
    BY <2>1, Messages, Speech, HarmlessParts
  <2>3. PICK ms : ms = messages \o <<Said, User>>
    OBVIOUS
  <2>4. Tells(ms, ghost.started, {})
    BY <1>m, <2>2, <2>3, TellsMore
  <2>5. (\E p : AskSummary(ms, p, FALSE)) /\ control' = control
    BY <1>8, <2>3 DEF TurnCeiling
  <2> QED
    BY <1>0, <1>m, <2>4, <2>5, SummaryTranscript
<1>9. CASE TurnTools(turn)
  <2>1. PICK n : n = Len(turn.calls)
    OBVIOUS
  <2>2. n \in Nat /\ n >= 1
    BY <1>9, <2>1, TurnCalls DEF TurnTools
  <2>3. PICK m : m = Assistant("text", n)
    OBVIOUS
  <2>4. m \in Message /\ m.role = "assistant" /\ m.n = n
    BY <2>2, <2>3, Messages DEF Assistant
  <2>5. /\ messages' = Append(messages, m) /\ control' = control /\ checkpoint' = checkpoint
        /\ batch' = [calls |-> turn.calls, at |-> 1, evidence |-> FALSE,
                     promised |-> turn.promised]
        /\ \/ /\ journal'.messages = Append(messages, m) /\ phase' = "next" /\ ghost' = ghost
           \/ Cut(0) /\ journal' = journal
    BY <1>9, <2>1, <2>3 DEF TurnTools, SaveOrFail, Save, Progress
  <2>6. IsBatch(batch') /\ batch'.calls = turn.calls /\ batch'.at = 1
    BY <2>5 DEF IsBatch
  <2>7. Tells(messages', ghost.started, {})
    BY <1>m, <2>4, <2>5, AppendTells
  <2>8. CASE Cut(0) /\ journal' = journal
    BY <1>0, <1>m, <2>5, <2>6, <2>8, CutRecord, CutTranscript DEF Forms
  <2>9. CASE /\ journal'.messages = Append(messages, m) /\ phase' = "next" /\ ghost' = ghost
    <3>1. /\ Len(messages) \in Nat /\ Len(messages') = Len(messages) + 1
          /\ messages'[Len(messages) + 1] = m
      BY <1>m, <2>4, <2>5, AppendProperties, LenProperties DEF Tells, Transcript
    <3>2. Base(phase', messages', batch') = Len(messages) + 1
      BY <2>6, <2>9, <3>1 DEF Base
    <3>3. \A k : <<Len(messages) + 1, k>> \notin ghost.started
      BY <1>m, <3>1, CallsType DEF Tells
    <3>4. LastBatch(messages', Len(messages) + 1, n)
      BY <2>4, <3>1 DEF LastBatch
    <3>5. BatchOk(phase', messages', batch', ghost'.started)
      BY <2>1, <2>2, <2>6, <2>9, <3>2, <3>3, <3>4 DEF BatchOk
    <3>6. Uncertain' = {} /\ phase' \in Active
      BY <2>9, Constants DEF Uncertain
    <3> QED
      BY <1>m, <2>5, <2>6, <2>7, <2>9, <3>5, <3>6 DEF TranscriptInv
  <2> QED
    BY <2>5, <2>8, <2>9
<1> QED
  BY <1>1, <1>2, <1>3, <1>4, <1>5, <1>6, <1>7, <1>8, <1>9 DEF ModelTurn

LEMMA ErrorTranscript ==
  ASSUME TranscriptInv, Forms, JournalTick \/ \E partial \in Partial : CompletionError(partial)
  PROVE  TranscriptInv'
<1>0. phase = "model" /\ phase \in Active
  BY Constants DEF JournalTick, CompletionError
<1>1. Tells(messages, ghost.started, {}) /\ control.guidance \in Nat /\ IsBatch(batch)
  BY <1>0 DEF TranscriptInv, Uncertain
<1>2. ASSUME NEW partial \in Partial, CompletionError(partial)
      PROVE  TranscriptInv'
  <2>1. partial \in Transcript /\ Harmless(partial)
    BY Messages, Speech, HarmlessParts DEF Partial
  <2>2. Tells(messages \o partial, ghost.started, {})
    BY <1>1, <2>1, TellsMore
  <2>3. CASE control.stop
    <3>1. PICK ms : ms = (messages \o partial) \o <<Said>>
      OBVIOUS
    <3>2. Tells(ms, ghost.started, {})
      BY <2>2, <3>1, TellsMore, Messages, Speech, HarmlessParts
    <3>3. Finish(ms, plan, TRUE) /\ control' = Quiet
      BY <1>2, <2>3, <3>1 DEF CompletionError, Drain
    <3> QED
      BY <1>0, <3>2, <3>3, FinishTranscript, QuietGuidance
  <2>4. CASE ~control.stop
    <3>1. /\ Cut(0) /\ UNCHANGED <<batch, control, checkpoint>>
          /\ journal' = journal \/ journal'.messages = messages \o partial
      BY <1>2, <2>4 DEF CompletionError, Progress
    <3> QED
      BY <1>0, <1>1, <2>2, <3>1, CutRecord, CutTranscript DEF Forms
  <2> QED
    BY <2>3, <2>4
<1>3. CASE JournalTick
  <2>1. UNCHANGED <<messages, batch, control, checkpoint>>
    BY <1>3 DEF JournalTick, loop
  <2>2. CASE Cut(0) /\ journal' = journal
    BY <1>0, <1>1, <2>1, <2>2, CutRecord, CutTranscript DEF Forms
  <2>3. CASE UNCHANGED <<phase, ghost>> /\ journal'.messages = Append(messages, Said)
    <3>1. Tells(Append(messages, Said), ghost.started, {})
      BY <1>1, AppendTells, Messages, Speech
    <3> QED
      BY <1>0, <1>1, <2>1, <2>3, <3>1, OutsideBatch
  <2> QED
    BY <1>3, <2>2, <2>3 DEF JournalTick, Progress
<1> QED
  BY <1>2, <1>3

-----------------------------------------------------------------------------
(* Tools. *)

\* A batch as it stands.
LEMMA BatchFacts ==
  ASSUME TranscriptInv, phase \in InBatch
  PROVE  /\ messages \in Transcript /\ Len(messages) \in Nat
         /\ Tells(messages, ghost.started, Uncertain)
         /\ BatchOk(phase, messages, batch, ghost.started) /\ IsBatch(batch)
         /\ control.guidance \in Nat /\ phase \in Active
         /\ journal # NoJournal => journal.messages = messages
<1>1. phase \in Active
  BY Constants DEF InBatch
<1>2. Tells(messages, ghost.started, Uncertain)
  BY <1>1 DEF TranscriptInv
<1> QED
  BY <1>1, <1>2, LenProperties DEF TranscriptInv, Tells, Transcript

LEMMA DispatchTranscript ==
  ASSUME TranscriptInv, Forms, Dispatch
  PROVE  TranscriptInv'
<1>0. /\ phase = "next" /\ phase \in InBatch /\ phase' = "tool" /\ phase' \in Active
      /\ UNCHANGED <<messages, batch, control, journal, checkpoint>>
  BY Constants DEF Dispatch, InBatch
<1>1. PICK b : b = (Len(messages) - batch.at) + 1
  OBVIOUS
<1>2. Base(phase, messages, batch) = b /\ Base(phase', messages', batch') = b
  BY <1>0, <1>1 DEF Base
<1>3. /\ Len(messages) \in Nat /\ messages \in Transcript
      /\ Tells(messages, ghost.started, {}) /\ IsBatch(batch)
      /\ Len(batch.calls) \in Nat /\ batch.at \in 1..Len(batch.calls)
      /\ LastBatch(messages, b, Len(batch.calls))
      /\ \A k : <<b, k>> \in ghost.started => k \in 1..batch.at /\ k # batch.at
  BY <1>0, <1>2, BatchFacts DEF BatchOk, Uncertain
<1>4. PICK c : c = <<b, batch.at>>
  OBVIOUS
<1>5. ghost'.started = ghost.started \cup {c}
  BY <1>1, <1>4, DispatchPast DEF Forms
<1>6. c \in Calls(messages)
  <2>1. b \in DOMAIN messages /\ batch.at \in 1..CallsAt(messages, b)
    BY <1>3, LenProperties DEF LastBatch, CallsAt, Transcript
  <2> QED
    BY <1>3, <1>4, <2>1, InCalls
<1>7. ASSUME NEW j \in DOMAIN messages, messages[j].role = "tool"
      PROVE  Answered(messages, j) # c
  <2>1. j \in 1..Len(messages) /\ b \in Nat
    BY <1>3, LenProperties DEF LastBatch, Transcript
  <2>2. /\ Answered(messages, j)[1] \in Nat /\ Answered(messages, j)[1] < j
        /\ Answered(messages, j)[2] = messages[j].n
    BY <2>1, AnsweredBefore
  <2>3. c[1] = b /\ c[2] = batch.at
    BY <1>4
  <2>4. CASE j <= b
    <3>1. Answered(messages, j)[1] # b
      BY <2>1, <2>2, <2>4
    <3> QED
      BY <2>3, <3>1
  <2>5. CASE j > b
    <3>1. j \in (b + 1)..Len(messages)
      BY <1>3, <2>1, <2>5
    <3>2. messages[j].n = j - b
      BY <1>3, <3>1 DEF LastBatch
    <3>3. PICK a \in Nat : a = batch.at
      BY <1>3
    <3>4. j - b # a
      BY <1>1, <1>3, <2>1, <3>1, <3>3
    <3> QED
      BY <2>2, <2>3, <3>2, <3>3, <3>4
  <2> QED
    BY <2>1, <2>4, <2>5
<1>8. Truthful(messages, ghost'.started)
  BY <1>3, <1>5, <1>7 DEF Truthful, Tells, Positions
<1>9. Tells(messages, ghost'.started, {c})
  BY <1>3, <1>5, <1>6, <1>8 DEF Tells
<1>10. Uncertain' = {c}
  BY <1>0, <1>2, <1>4 DEF Uncertain
<1>11. BatchOk(phase', messages', batch', ghost'.started)
  <2>1. \A k : <<b, k>> \in ghost'.started => k \in 1..batch.at
    BY <1>3, <1>4, <1>5
  <2> QED
    BY <1>0, <1>2, <1>3, <1>4, <1>5, <2>1 DEF BatchOk
<1>12. journal # NoJournal => journal.messages = messages
  BY <1>0, BatchFacts
<1> QED
  BY <1>0, <1>9, <1>10, <1>11, <1>12 DEF TranscriptInv

\* A result is written for the current call, a true one.
LEMMA ResultTranscript ==
  ASSUME TranscriptInv, Forms, phase \in {"tool", "next"}, IsBatch(batch'),
         batch'.calls = batch.calls, batch'.at = batch.at, NEW w,
         SaveResult(ToolResult(batch.at, IF phase = "tool" THEN "result" ELSE "skipped"),
                    w, phase = "tool")
  PROVE  TranscriptInv'
<1>0. phase \in InBatch /\ phase # "boundary"
  BY DEF InBatch
<1>1. PICK b, c, x : /\ b = (Len(messages) - batch.at) + 1 /\ c = <<b, batch.at>>
                     /\ x = <<ToolResult(batch.at, IF phase = "tool" THEN "result" ELSE "skipped")>>
  OBVIOUS
<1>2. Base(phase, messages, batch) = b
  BY <1>0, <1>1 DEF Base
<1>3. /\ Len(messages) \in Nat /\ messages \in Transcript /\ phase \in Active
      /\ Tells(messages, ghost.started, Uncertain) /\ control.guidance \in Nat
      /\ Len(batch.calls) \in Nat /\ batch.at \in 1..Len(batch.calls)
      /\ LastBatch(messages, b, Len(batch.calls))
      /\ \A k : <<b, k>> \in ghost.started => k \in 1..batch.at
      /\ phase = "next" => c \notin ghost.started
      /\ phase = "tool" => c \in ghost.started
  BY <1>0, <1>1, <1>2, BatchFacts DEF BatchOk
<1>4. batch.at \in Nat
  BY <1>3
<1>5. /\ x \in Transcript /\ Len(x) = 1 /\ x[1].role = "tool" /\ x[1].n = batch.at
      /\ x[1].text = (IF phase = "tool" THEN "result" ELSE "skipped")
      /\ DOMAIN x = {1}
  <2>1. PICK text \in {"result", "skipped"} : text = IF phase = "tool" THEN "result" ELSE "skipped"
    OBVIOUS
  <2>2. PICK m : m = ToolResult(batch.at, text)
    OBVIOUS
  <2>3. m \in Message
    BY <1>4, <2>2, Messages
  <2>4. m.role = "tool" /\ m.n = batch.at /\ m.text = text
    BY <2>2 DEF ToolResult
  <2>5. x = <<m>>
    BY <1>1, <2>1, <2>2
  <2>6. x \in Transcript /\ Len(x) = 1 /\ DOMAIN x = {1} /\ x[1] = m
    BY <1>3, <2>3, <2>5, OneMore
  <2> QED
    BY <2>1, <2>4, <2>6
<1>6. /\ messages' = messages \o x /\ UNCHANGED <<control, checkpoint>>
      /\ \/ phase' = "boundary" /\ journal'.messages = messages' /\ ghost' = ghost
         \/ journal' = journal /\ \E n : Cut(n)
  <2>1. messages' = messages \o x
    BY <1>1, <1>3, <1>4, Messages, OneMore DEF SaveResult
  <2> QED
    BY <2>1 DEF SaveResult, Save, Progress
<1>7. CASE journal' = journal /\ \E n : Cut(n)
  BY <1>3, <1>6, <1>7, CutRecord, CutTranscript DEF Forms
<1>8. CASE phase' = "boundary" /\ journal'.messages = messages' /\ ghost' = ghost
  <2>1. /\ messages' \in Transcript /\ Len(messages') = Len(messages) + 1
        /\ messages'[Len(messages) + 1] = x[1]
        /\ \A i \in 1..Len(messages) : messages'[i] = messages[i]
    <3>1. PICK z : z = messages \o x
      OBVIOUS
    <3>2. /\ z \in Transcript /\ Len(z) = Len(messages) + Len(x)
          /\ \A i \in 1..Len(messages) : z[i] = messages[i]
          /\ \A i \in 1..Len(x) : z[Len(messages) + i] = x[i]
      BY <1>3, <1>5, <3>1, Extended, Zenon
    <3>3. 1 \in 1..Len(x)
      BY <1>5
    <3> QED
      BY <1>5, <1>6, <3>1, <3>2, <3>3
  <2>2. Base(phase', messages', batch') = b
    BY <1>1, <1>3, <1>8, <2>1 DEF Base
  <2>3. Answered(messages', Len(messages) + 1) = c
    <3>1. Len(batch.calls) \in Nat \ {0}
      BY <1>3
    <3>2. 1 \in DOMAIN x /\ \A k \in DOMAIN x : x[k].role = "tool"
      BY <1>5
    <3>3. Answered(messages \o x, Len(messages) + 1) = <<b, x[1].n>>
      BY <1>3, <1>5, <3>1, <3>2, BatchAnswered
    <3> QED
      BY <1>1, <1>5, <1>6, <3>3
  <2>4. Truthful(messages', ghost.started)
    BY <1>3, <1>5, <1>6, <2>3, TruthfulMore DEF Tells
  <2>5. c \in Results(messages')
    <3>1. Len(messages) + 1 \in DOMAIN messages'
      BY <1>3, <2>1, LenProperties DEF Transcript
    <3> QED
      BY <1>5, <2>1, <2>3, <3>1 DEF Results, Positions
  <2>6. Uncertain \subseteq {c}
    BY <1>1, <1>2 DEF Uncertain
  <2>7. Tells(messages', ghost.started, {})
    BY <1>3, <1>5, <1>6, <2>1, <2>4, <2>5, <2>6, CallsGrow DEF Tells
  <2>8. LastBatch(messages', b, Len(batch.calls))
    <3>1. PICK a \in Nat : a = batch.at
      BY <1>4
    <3>2. /\ b \in 1..Len(messages) /\ b \in 1..Len(messages')
          /\ (Len(messages) + 1) - b = a
      BY <1>1, <1>3, <2>1, <3>1 DEF LastBatch
    <3>3. ASSUME NEW k \in (b + 1)..Len(messages')
          PROVE  messages'[k].role = "tool" /\ messages'[k].n = k - b
      <4>1. CASE k \in (b + 1)..Len(messages)
        <5>1. k \in 1..Len(messages)
          BY <3>2, <4>1
        <5>2. messages[k].role = "tool" /\ messages[k].n = k - b
          BY <1>3, <4>1 DEF LastBatch
        <5> QED
          BY <2>1, <5>1, <5>2
      <4>2. CASE k = Len(messages) + 1
        BY <1>5, <2>1, <3>1, <3>2, <4>2
      <4> QED
        BY <1>3, <2>1, <3>2, <4>1, <4>2
    <3> QED
      BY <1>3, <2>1, <3>2, <3>3 DEF LastBatch
  <2>9. BatchOk(phase', messages', batch', ghost'.started)
    BY <1>3, <1>8, <2>2, <2>8 DEF BatchOk
  <2>10. Uncertain' = {} /\ phase' \in Active
    BY <1>8, Constants DEF Uncertain
  <2> QED
    BY <1>3, <1>6, <1>8, <2>7, <2>9, <2>10 DEF TranscriptInv
<1> QED
  BY <1>6, <1>7, <1>8

\* The calls after a control are none that were executed.
LEMMA SkippedTells ==
  ASSUME TranscriptInv, phase = "boundary"
  PROVE  Tells(messages \o SkippedRest, ghost.started, {})
<1>1. PICK b, a, x, l : /\ b = Len(messages) - batch.at /\ a = batch.at /\ x = SkippedRest
                        /\ l = Len(batch.calls)
  OBVIOUS
<1>2. phase \in InBatch /\ Base(phase, messages, batch) = b /\ Uncertain = {}
  BY <1>1 DEF InBatch, Base, Uncertain
<1>3. /\ Len(messages) \in Nat /\ messages \in Transcript
      /\ Tells(messages, ghost.started, {})
      /\ l \in Nat /\ a \in 1..l /\ LastBatch(messages, b, l)
      /\ \A k : <<b, k>> \in ghost.started => k \in 1..a
  BY <1>1, <1>2, BatchFacts DEF BatchOk
<1>4. PICK n \in Nat : n = l - a
  BY <1>3
<1>5. x = [k \in 1..n |-> ToolResult(a + k, "skipped")]
  BY <1>1, <1>4 DEF SkippedRest
<1>6. \A k \in 1..n : ToolResult(a + k, "skipped") \in Message
  BY <1>3, Messages
<1>7. x \in [1..n -> Message]
  BY <1>5, <1>6
<1>8. x \in Transcript /\ DOMAIN x = 1..n
  BY <1>7, SeqDef DEF Transcript
<1>9. \A k \in DOMAIN x : x[k].role = "tool" /\ x[k].n = a + k /\ x[k].text = "skipped"
  BY <1>5, <1>8 DEF ToolResult
<1>10. l \in Nat \ {0}
  BY <1>3
<1>11. \A k \in DOMAIN x : Answered(messages \o x, Len(messages) + k) = <<b, a + k>>
  BY <1>3, <1>8, <1>9, <1>10, BatchAnswered
<1>12. \A k \in DOMAIN x : <<b, a + k>> \notin ghost.started
  BY <1>3, <1>8
<1>13. Truthful(messages \o x, ghost.started)
  BY <1>3, <1>8, <1>9, <1>11, <1>12, TruthfulMore DEF Tells
<1>14. messages \o x \in Transcript
  BY <1>3, <1>8, Extended
<1> QED
  BY <1>1, <1>3, <1>8, <1>13, <1>14, CallsGrow DEF Tells

LEMMA ToolsTranscript ==
  ASSUME TranscriptInv, Forms, Tools
  PROVE  TranscriptInv'
<1>1. CASE Dispatch
  BY <1>1, DispatchTranscript
<1>2. ASSUME NEW success \in BOOLEAN, ToolReturns(success)
      PROVE  TranscriptInv'
  <2>1. /\ phase = "tool"
        /\ \E w : SaveResult(ToolResult(batch.at, "result"), w, TRUE)
    BY <1>2 DEF ToolReturns
  <2>2. PICK e : batch' = [batch EXCEPT !.evidence = e]
    BY <1>2 DEF ToolReturns
  <2>3. IsBatch(batch') /\ batch'.calls = batch.calls /\ batch'.at = batch.at
    BY <2>2 DEF TranscriptInv, IsBatch
  <2>4. (IF phase = "tool" THEN "result" ELSE "skipped") = "result" /\ (phase = "tool") = TRUE
    BY <2>1
  <2> QED
    BY <2>1, <2>3, <2>4, ResultTranscript
<1>3. CASE SkipOverBudget
  <2>1. /\ phase = "next" /\ batch' = batch
        /\ SaveResult(ToolResult(batch.at, "skipped"), work, FALSE)
    BY <1>3 DEF SkipOverBudget
  <2>2. IsBatch(batch)
    BY DEF TranscriptInv
  <2>3. (IF phase = "tool" THEN "result" ELSE "skipped") = "skipped" /\ (phase = "tool") = FALSE
    BY <2>1
  <2> QED
    BY <2>1, <2>2, <2>3, ResultTranscript
<1>4. CASE NextCall
  <2>1. /\ phase = "boundary" /\ phase' = "next" /\ batch.at < Len(batch.calls)
        /\ batch' = [batch EXCEPT !.at = batch.at + 1]
        /\ UNCHANGED <<messages, control, journal, checkpoint, ghost>>
    BY <1>4 DEF NextCall
  <2>2. IsBatch(batch') /\ batch'.calls = batch.calls /\ batch'.at = batch.at + 1
    BY <2>1 DEF TranscriptInv, IsBatch
  <2>3. PICK b, a : b = Len(messages) - batch.at /\ a = batch.at
    OBVIOUS
  <2>4. phase \in InBatch /\ Base(phase, messages, batch) = b /\ Uncertain = {}
    BY <2>1, <2>3 DEF InBatch, Base, Uncertain
  <2>5. /\ Len(messages) \in Nat /\ Len(batch.calls) \in Nat /\ a \in 1..Len(batch.calls)
        /\ LastBatch(messages, b, Len(batch.calls))
        /\ \A k : <<b, k>> \in ghost.started => k \in 1..a
        /\ Tells(messages, ghost.started, {})
        /\ journal # NoJournal => journal.messages = messages
    BY <2>3, <2>4, BatchFacts DEF BatchOk
  <2>6. Base(phase', messages', batch') = b
    BY <2>1, <2>2, <2>3, <2>5 DEF Base
  <2>7. BatchOk(phase', messages', batch', ghost'.started)
    <3>1. a + 1 \in 1..Len(batch.calls) /\ \A k \in 1..a : k \in 1..(a + 1) /\ k # a + 1
      BY <2>1, <2>3, <2>5
    <3> QED
      BY <2>1, <2>2, <2>3, <2>5, <2>6, <3>1 DEF BatchOk
  <2>8. Uncertain' = {} /\ phase' \in Active /\ phase' \in InBatch
    BY <2>1, Constants DEF Uncertain, InBatch
  <2> QED
    BY <2>1, <2>2, <2>5, <2>7, <2>8 DEF TranscriptInv
<1>p. ASSUME NEW ms, Tells(ms, ghost.started, {}), NEW p
      PROVE  Tells(ms \o OpenPlanPrompt(p), ghost.started, {})
  BY <1>p, TellsMore, PromptHarmless
<1>b. ASSUME phase = "boundary"
      PROVE  /\ phase \in Active \ {"tool"} /\ control.guidance \in Nat
             /\ Tells(messages, ghost.started, {})
  BY <1>b, Constants DEF TranscriptInv, Uncertain
<1>5. CASE EndBatch
  <2>1. /\ phase = "boundary" /\ control' = control
        /\ \E p : Loop(messages \o OpenPlanPrompt(p), p)
    BY <1>5 DEF EndBatch
  <2> QED
    BY <1>b, <1>p, <2>1, LoopTranscript
<1>6. CASE ControlBatch
  <2>1. PICK ms : ms = (messages \o SkippedRest) \o ControlMessages
    OBVIOUS
  <2>2. /\ phase = "boundary" /\ control' = Quiet
        /\ \/ \E p : AskSummary(ms, p, TRUE)
           \/ \E p : Loop(ms \o OpenPlanPrompt(p), p)
    BY <1>6, <2>1 DEF ControlBatch, Drain
  <2>3. Tells(ms, ghost.started, {})
    BY <1>b, <2>1, <2>2, SkippedTells, ControlHarmless, TellsMore
  <2> QED
    BY <1>b, <1>p, <2>2, <2>3, LoopTranscript, SummaryTranscript, QuietGuidance
<1> QED
  BY <1>1, <1>2, <1>3, <1>4, <1>5, <1>6 DEF Tools

-----------------------------------------------------------------------------
(* Recovery. *)

LEMMA UnknownResults ==
  ASSUME NEW calls \in SUBSET (Nat \X Nat), IsFiniteSet(calls)
  PROVE  Unknown(calls) \in Transcript /\ Harmless(Unknown(calls))
<1>1. PICK n : n = Cardinality(calls)
  OBVIOUS
<1>2. n \in Nat
  BY <1>1, FS_CardinalityType
<1>3. PICK x : x = Unknown(calls)
  OBVIOUS
<1>4. DOMAIN x = 1..n /\ x = [k \in DOMAIN x |-> x[k]]
  BY <1>1, <1>3, Zenon DEF Unknown
<1>5. \A k \in 1..n : x[k] = [role |-> "tool", n |-> x[k].n, text |-> "unknown"]
  BY <1>1, <1>3 DEF Unknown, ToolResult
<1>6. \A k \in 1..n : x[k].n \in Number
  BY <1>1, <1>3 DEF Number
<1>7. \A k \in 1..n : x[k] \in Message
  <2>1. \A v \in Number : [role |-> "tool", n |-> v, text |-> "unknown"] \in Message
    BY DEF Message
  <2> TAKE k \in 1..n
  <2>2. PICK m, v : m = x[k] /\ v = x[k].n
    OBVIOUS
  <2>3. v \in Number
    BY <1>6, <2>2, Zenon
  <2>4. m = [role |-> "tool", n |-> v, text |-> "unknown"]
    BY <1>5, <2>2, Zenon
  <2>5. m \in Message
    BY <2>1, <2>3, <2>4, Zenon
  <2> QED
    BY <2>2, <2>5
<1>8. x \in [1..n -> Message]
  BY <1>4, <1>7
<1>9. x \in Transcript
  BY <1>2, <1>8, SeqDef DEF Transcript
<1>10. Harmless(x)
  BY <1>4, <1>5 DEF Harmless
<1> QED
  BY <1>3, <1>9, <1>10

LEMMA RecoverTranscript ==
  ASSUME TranscriptInv, Recover
  PROVE  TranscriptInv'
<1>1. /\ phase = "cut" /\ phase' = "idle" /\ batch' = NoCalls /\ journal' = NoJournal
      /\ UNCHANGED <<control, ghost>>
  BY DEF Recover
<1>2. phase' \notin InBatch /\ phase' \notin Active \cup {"done"} /\ IsBatch(batch')
  BY <1>1, Constants DEF InBatch, IsBatch, NoCalls
<1>3. checkpoint' # NoCheckpoint =>
        /\ checkpoint'.messages \in Transcript
        /\ checkpoint'.past.started \subseteq Calls(checkpoint'.messages)
        /\ Truthful(checkpoint'.messages, checkpoint'.past.started)
  <2>1. CASE checkpoint' = checkpoint
    BY <2>1 DEF TranscriptInv
  <2>2. CASE journal # NoJournal /\ checkpoint' = Recovered(journal, ghost)
    <3>1. PICK c : Tells(journal.messages, ghost.started, {c})
      BY <1>1, <2>2 DEF TranscriptInv
    <3>2. PICK ms, x : ms = journal.messages /\ x = Unknown(Unanswered(ms))
      OBVIOUS
    <3>3. ms \in Transcript
      BY <3>1, <3>2 DEF Tells
    <3>4. Unanswered(ms) \in SUBSET (Nat \X Nat) /\ IsFiniteSet(Unanswered(ms))
      <4>1. Unanswered(ms) \in SUBSET Calls(ms)
        BY DEF Unanswered
      <4> QED
        BY <3>3, <4>1, CallsType, FS_Subset
    <3>5. x \in Transcript /\ Harmless(x)
      BY <3>2, <3>4, UnknownResults
    <3>6. Tells((ms \o x) \o <<Said>>, ghost.started, {c})
      BY <3>1, <3>2, <3>5, TellsMore, Messages, Speech, HarmlessParts
    <3>7. /\ checkpoint'.past = ghost
          /\ checkpoint'.messages = ms \/ checkpoint'.messages = (ms \o x) \o <<Said>>
      BY <2>2, <3>2 DEF Recovered, Checkpoint
    <3> QED
      BY <3>1, <3>2, <3>6, <3>7 DEF Tells
  <2> QED
    BY <2>1, <2>2 DEF Recover
<1> QED
  BY <1>1, <1>2, <1>3 DEF TranscriptInv

LEMMA TranscriptStep == BudgetInv /\ StopInv /\ TranscriptInv /\ [Next]_vars => TranscriptInv'
<1> SUFFICES ASSUME BudgetInv, StopInv, TranscriptInv, [Next]_vars PROVE TranscriptInv'
  OBVIOUS
<1>0. Forms
  BY DEF BudgetInv
<1>1. CASE Run
  <2>1. <<System, User>> \in Transcript /\ Harmless(<<System, User>>)
    <3>1. <<System, User>> = <<System>> \o <<User>> /\ System.role # "tool"
      BY DEF System
    <3> QED
      BY <3>1, Messages, Speech, HarmlessParts
  <2>2. NoGhost.started = {} /\ IsPast(NoGhost)
    BY Constants DEF NoGhost
  <2>3. Tells(<<System, User>>, NoGhost.started, {})
    BY <2>1, <2>2 DEF Tells, Truthful, Harmless, Positions
  <2> QED
    BY <1>1, <2>2, <2>3, StartTranscript DEF Run
<1>2. CASE Resume
  <2>1. PICK c : c = checkpoint
    OBVIOUS
  <2>2. /\ c.messages \in Transcript /\ c.past.started \subseteq Calls(c.messages)
        /\ Truthful(c.messages, c.past.started) /\ Validate(c) /\ IsPast(c.past)
    BY <1>0, <1>2, <2>1 DEF Resume, TranscriptInv, Forms
  <2>3. Tells(c.messages, c.past.started, {})
    BY <2>2, ValidAnswers DEF Tells
  <2>4. PICK ms : ms = Append(c.messages, User) \o OpenPlanPrompt(c.plan)
    OBVIOUS
  <2>5. Tells(ms, c.past.started, {})
    BY <2>3, <2>4, AppendTells, TellsMore, PromptHarmless, Messages, Speech
  <2>6. Start(ms, c.work, c.plan, c.past) /\ checkpoint' = NoCheckpoint
    BY <1>2, <2>1, <2>4 DEF Resume
  <2> QED
    BY <2>2, <2>5, <2>6, StartTranscript
<1>3. CASE Repair
  <2>1. Tells(messages, ghost.started, {})
    BY <1>3 DEF Repair, TranscriptInv, Uncertain
  <2>2. Tells(Append(messages, User), ghost.started, {})
    BY <2>1, AppendTells, Messages, Speech
  <2> QED
    BY <1>0, <1>3, <2>2, StartTranscript DEF Repair, Forms
<1>4. CASE Answer
  BY <1>0, <1>4, TurnTranscript DEF Answer
<1>5. CASE JournalTick \/ Stopped \/ \E partial \in Partial : ProviderFails(partial)
  BY <1>0, <1>5, ErrorTranscript DEF Stopped, ProviderFails, StopWakes, StopDeadline
<1>6. CASE Tools
  BY <1>0, <1>6, ToolsTranscript
<1>7. CASE SummaryEnds
  <2>1. /\ phase = "summary" /\ phase \in Active /\ control' = Quiet
        /\ \E s : Finish(Append(messages, Said), plan, s)
    BY <1>7, Constants DEF SummaryEnds, Drain
  <2>2. Tells(messages, ghost.started, {})
    BY <2>1 DEF TranscriptInv, Uncertain
  <2>3. Tells(Append(messages, Said), ghost.started, {})
    BY <2>2, AppendTells, Messages, Speech
  <2> QED
    BY <1>0, <2>1, <2>3, FinishTranscript, QuietGuidance
<1>8. CASE QueueGuidance \/ RequestStop
  <2>1. UNCHANGED <<phase, messages, batch, journal, checkpoint>>
    BY <1>8 DEF QueueGuidance, RequestStop, loop
  <2>2. ghost'.started = ghost.started
    BY <1>0, <1>8 DEF QueueGuidance, RequestStop, Forms, IsPast
  <2>3. control'.guidance \in Nat
    BY <1>8 DEF QueueGuidance, RequestStop, StopInv, TranscriptInv
  <2>4. Uncertain' = Uncertain
    BY <2>1 DEF Uncertain
  <2> QED
    BY <2>1, <2>2, <2>3, <2>4 DEF TranscriptInv
<1>9. CASE Interrupt \/ Crash
  <2>1. /\ phase \in Active \cup {"done"} /\ Cut(InFlight)
        /\ UNCHANGED <<batch, journal, checkpoint>>
        /\ control' = control \/ control' = Quiet
    BY <1>9, Constants DEF Interrupt, Crash, loop
  <2>2. control'.guidance \in Nat /\ IsBatch(batch')
    BY <2>1, QuietGuidance DEF TranscriptInv
  <2> QED
    BY <1>0, <2>1, <2>2, CutRecord, CutTranscript DEF Forms
<1>10. CASE Recover
  BY <1>10, RecoverTranscript
<1>11. CASE UNCHANGED vars
  <2>1. UNCHANGED <<phase, messages, batch, control, journal, checkpoint, ghost>>
    BY <1>11 DEF vars, loop
  <2>2. Uncertain' = Uncertain
    BY <2>1 DEF Uncertain
  <2> QED
    BY <2>1, <2>2 DEF TranscriptInv
<1> QED
  BY <1>1, <1>2, <1>3, <1>4, <1>5, <1>6, <1>7, <1>8, <1>9, <1>10, <1>11
     DEF Next, Host, SummaryArrives, SummaryGivenUp

LEMMA InitialRecord == Init => BudgetInv /\ StopInv /\ TranscriptInv
<1>1. Init => BudgetInv
  BY Constants DEF Init, BudgetInv, Forms, BudgetHolds, NoGhost
<1>2. Init => StopInv
  BY InitStop
<1>3. ASSUME Init PROVE TranscriptInv
  <2>1. /\ phase = "idle" /\ batch = NoCalls /\ control = Quiet
        /\ journal = NoJournal /\ checkpoint = NoCheckpoint
    BY <1>3 DEF Init
  <2>2. IsBatch(batch) /\ control.guidance \in Nat
    BY <2>1, QuietGuidance DEF IsBatch, NoCalls
  <2> QED
    BY <2>1, <2>2, Constants DEF TranscriptInv, InBatch
<1> QED
  BY <1>1, <1>2, <1>3

\* A call is executed only after its intent is in the journal, at most one
\* executed call has no result there, and no transcript, in memory or in a
\* checkpoint, calls an executed call skipped or claims a result of one that was
\* not executed: for batches of any length and wherever the run is cut.
THEOREM ResultsAreTruthful == Spec => []ResultsTruthful
BY InitialRecord, TranscriptTruth, BudgetStep, StopStep, TranscriptStep, PTL DEF Spec

-----------------------------------------------------------------------------
(* Checkpoints. *)

\* The batch at i is followed by a result for each of its calls.
Closed(ms, i) ==
  /\ i + CallsAt(ms, i) <= Len(ms)
  /\ {<<ms[j].role, ms[j].n>> : j \in (i + 1)..(i + CallsAt(ms, i))}
       = {"tool"} \X (1..CallsAt(ms, i))

Batches(ms) == {i \in DOMAIN ms : CallsAt(ms, i) > 0}
ResultCount(ms) == Cardinality(Positions(ms, "tool"))
CallCount(ms) == Cardinality(Calls(ms))
BatchCount(ms) == Cardinality(Batches(ms))

\* A conversation in which every batch but the one at b is closed, and r results are missing.
Proper(ms, b, r) ==
  /\ ms \in Transcript /\ Len(ms) >= 2 /\ ms[1].role = "system" /\ Positions(ms, "user") # {}
  /\ \A i \in Batches(ms) : i # b => Closed(ms, i)
  /\ ResultCount(ms) + r = CallCount(ms)

Complete(ms) == Proper(ms, 0, 0)

\* The last batch has n calls, and results for the first of them.
Pending(ms, b, n) ==
  n \in Nat \ {0} /\ LastBatch(ms, b, n) /\ Len(ms) <= b + n /\ Proper(ms, b, b + n - Len(ms))

\* What CompletedWork counts is in the transcript.
Counts(ms, w) == /\ w.rounds \in Nat /\ w.calls \in Nat
                 /\ w.rounds <= BatchCount(ms) /\ w.calls <= ResultCount(ms)

LEMMA Shape ==
  ASSUME NEW ms \in Transcript
  PROVE  /\ Len(ms) \in Nat /\ DOMAIN ms = 1..Len(ms) /\ IsFiniteSet(DOMAIN ms)
         /\ \A i \in DOMAIN ms : ms[i] \in Message /\ CallsAt(ms, i) \in Nat
         /\ IsFiniteSet(Batches(ms)) /\ BatchCount(ms) \in Nat
         /\ IsFiniteSet(Positions(ms, "tool")) /\ ResultCount(ms) \in Nat
         /\ IsFiniteSet(Calls(ms)) /\ CallCount(ms) \in Nat
<1>1. Len(ms) \in Nat /\ DOMAIN ms = 1..Len(ms)
  BY LenProperties DEF Transcript
<1>2. \A i \in DOMAIN ms : ms[i] \in Message /\ CallsAt(ms, i) \in Nat
  BY <1>1, CallsAtType DEF Transcript
<1>3. \A b \in Int : IsFiniteSet(1..b)
  BY FS_Interval
<1>4. IsFiniteSet(DOMAIN ms)
  BY <1>1, <1>3
<1>5. Batches(ms) \in SUBSET DOMAIN ms /\ Positions(ms, "tool") \in SUBSET DOMAIN ms
  BY DEF Batches, Positions
<1>6. IsFiniteSet(Batches(ms)) /\ IsFiniteSet(Positions(ms, "tool")) /\ IsFiniteSet(Calls(ms))
  BY <1>4, <1>5, FS_Subset, CallsType
<1> QED
  BY <1>1, <1>2, <1>4, <1>6, FS_CardinalityType DEF BatchCount, ResultCount, CallCount

\* What is added neither calls nor answers.
Talk(x) == x \in Transcript /\ \A j \in DOMAIN x : x[j].role # "tool" /\ CallsAt(x, j) = 0

LEMMA ClosedStays ==
  ASSUME NEW ms \in Transcript, NEW x \in Transcript, NEW i \in DOMAIN ms, Closed(ms, i)
  PROVE  Closed(ms \o x, i)
<1>1. PICK z : z = ms \o x
  OBVIOUS
<1>2. /\ Len(ms) \in Nat /\ Len(x) \in Nat /\ i \in 1..Len(ms) /\ Len(z) = Len(ms) + Len(x)
      /\ \A j \in 1..Len(ms) : z[j] = ms[j]
  BY <1>1, Extended
<1>3. PICK n \in Nat : n = CallsAt(ms, i)
  BY CallsAtType
<1>4. CallsAt(z, i) = n
  BY <1>2, <1>3 DEF CallsAt
<1>5. i + n <= Len(ms) /\ {<<ms[j].role, ms[j].n>> : j \in (i + 1)..(i + n)} = {"tool"} \X (1..n)
  BY <1>3 DEF Closed
<1>6. \A j \in (i + 1)..(i + n) : z[j] = ms[j]
  BY <1>2, <1>5
<1>7. {<<z[j].role, z[j].n>> : j \in (i + 1)..(i + n)}
        = {<<ms[j].role, ms[j].n>> : j \in (i + 1)..(i + n)}
  BY <1>6
<1>8. i + n <= Len(z)
  BY <1>2, <1>5
<1> QED
  BY <1>1, <1>4, <1>5, <1>7, <1>8 DEF Closed

\* What of z, which is ms and x, comes from where.
Joined(ms, x, z) ==
  /\ DOMAIN ms \subseteq DOMAIN z
  /\ \A i \in DOMAIN ms : CallsAt(z, i) = CallsAt(ms, i) /\ z[i] = ms[i]
  /\ \A i \in DOMAIN z \ DOMAIN ms :
       \E k \in DOMAIN x : i = Len(ms) + k /\ CallsAt(z, i) = CallsAt(x, k) /\ z[i] = x[k]

LEMMA Joining ==
  ASSUME NEW ms \in Transcript, NEW x \in Transcript, NEW z, z = ms \o x
  PROVE  Joined(ms, x, z)
<1>1. DOMAIN ms = 1..Len(ms) /\ DOMAIN ms \subseteq DOMAIN (ms \o x)
  BY Extended, Zenon
<1>2. \A i \in DOMAIN ms : (ms \o x)[i] = ms[i]
  BY <1>1, Extended
<1>3. \A i \in DOMAIN z \ DOMAIN ms : \E k \in DOMAIN x : i = Len(ms) + k /\ z[i] = x[k]
  BY Added
<1>4. \A i \in DOMAIN ms : CallsAt(z, i) = CallsAt(ms, i) /\ z[i] = ms[i]
  BY <1>2 DEF CallsAt
<1>5. ASSUME NEW i \in DOMAIN z \ DOMAIN ms
      PROVE  \E k \in DOMAIN x : i = Len(ms) + k /\ CallsAt(z, i) = CallsAt(x, k) /\ z[i] = x[k]
  <2>1. PICK k \in DOMAIN x : i = Len(ms) + k /\ z[i] = x[k]
    BY <1>3
  <2> QED
    BY <2>1 DEF CallsAt
<1> QED
  BY <1>1, <1>4, <1>5 DEF Joined

LEMMA TalkCounts ==
  ASSUME NEW ms \in Transcript, NEW x, Talk(x)
  PROVE  /\ Batches(ms \o x) = Batches(ms) /\ Calls(ms \o x) = Calls(ms)
         /\ Positions(ms \o x, "tool") = Positions(ms, "tool")
         /\ Positions(ms, "user") \subseteq Positions(ms \o x, "user")
<1>1. PICK z : z = ms \o x
  OBVIOUS
<1>2. /\ \A i \in DOMAIN z :
           \/ i \in DOMAIN ms /\ CallsAt(z, i) = CallsAt(ms, i) /\ z[i] = ms[i]
           \/ i \notin DOMAIN ms /\ CallsAt(z, i) = 0 /\ z[i].role # "tool"
      /\ DOMAIN ms \subseteq DOMAIN z
  <2>1. x \in Transcript
    BY DEF Talk
  <2>2. Joined(ms, x, z)
    BY <1>1, <2>1, Joining
  <2>3. ASSUME NEW i \in DOMAIN z \ DOMAIN ms PROVE CallsAt(z, i) = 0 /\ z[i].role # "tool"
    <3>1. PICK k \in DOMAIN x : CallsAt(z, i) = CallsAt(x, k) /\ z[i] = x[k]
      BY <2>2 DEF Joined
    <3> QED
      BY <3>1 DEF Talk
  <2> QED
    BY <2>2, <2>3 DEF Joined
<1>3. Batches(z) = Batches(ms)
  BY <1>2 DEF Batches
<1>4. /\ Positions(z, "tool") = Positions(ms, "tool")
      /\ Positions(ms, "user") \subseteq Positions(z, "user")
  BY <1>2 DEF Positions
<1>5. \A i, k : (i \in DOMAIN z /\ k \in 1..CallsAt(z, i))
                  <=> (i \in DOMAIN ms /\ k \in 1..CallsAt(ms, i))
  BY <1>2
<1>6. Calls(z) = Calls(ms)
  <2>1. \A c : c \in Calls(z) <=> c \in Calls(ms)
    BY <1>5 DEF Calls
  <2> QED
    BY <2>1
<1> QED
  BY <1>1, <1>3, <1>4, <1>6

LEMMA TalkComplete ==
  ASSUME NEW ms, NEW x, Talk(x), Complete(ms)
  PROVE  /\ Complete(ms \o x) /\ Len(ms \o x) = Len(ms) + Len(x)
         /\ \A w : Counts(ms, w) => Counts(ms \o x, w)
<1>1. PICK z : z = ms \o x
  OBVIOUS
<1>2. ms \in Transcript /\ x \in Transcript
  BY DEF Complete, Proper, Talk
<1>3. /\ Batches(z) = Batches(ms) /\ Calls(z) = Calls(ms)
      /\ Positions(z, "tool") = Positions(ms, "tool")
      /\ Positions(ms, "user") \subseteq Positions(z, "user")
  BY <1>1, <1>2, TalkCounts
<1>4. /\ z \in Transcript /\ Len(z) = Len(ms) + Len(x) /\ Len(ms) \in Nat /\ Len(x) \in Nat
      /\ \A i \in 1..Len(ms) : z[i] = ms[i]
  BY <1>1, <1>2, Extended
<1>5. Len(ms) >= 2 /\ ms[1].role = "system" /\ Positions(ms, "user") # {}
  BY DEF Complete, Proper
<1>6. Len(z) >= 2 /\ z[1].role = "system" /\ Positions(z, "user") # {}
  BY <1>3, <1>4, <1>5
<1>7. ASSUME NEW i \in Batches(z), i # 0 PROVE Closed(z, i)
  <2>1. i \in Batches(ms) /\ i \in DOMAIN ms /\ Closed(ms, i)
    BY <1>3, <1>7 DEF Batches, Complete, Proper
  <2> QED
    BY <1>1, <1>2, <2>1, ClosedStays
<1>8. /\ ResultCount(z) = ResultCount(ms) /\ CallCount(z) = CallCount(ms)
      /\ BatchCount(z) = BatchCount(ms)
  BY <1>3 DEF ResultCount, CallCount, BatchCount
<1>9. Complete(z)
  BY <1>4, <1>6, <1>7, <1>8 DEF Complete, Proper
<1> QED
  BY <1>1, <1>4, <1>8, <1>9 DEF Counts

LEMMA IntervalCount ==
  ASSUME NEW a \in Nat, NEW b \in Nat, a <= b
  PROVE  IsFiniteSet((a + 1)..b) /\ Cardinality((a + 1)..b) = b - a
<1>1. \A l, h \in Int : IsFiniteSet(l..h) /\ Cardinality(l..h) = IF l > h THEN 0 ELSE h - l + 1
  BY FS_Interval
<1>2. /\ IsFiniteSet((a + 1)..b)
      /\ Cardinality((a + 1)..b) = IF a + 1 > b THEN 0 ELSE b - (a + 1) + 1
  BY <1>1
<1> QED
  BY <1>2

LEMMA DisjointCount ==
  ASSUME NEW S, NEW T, IsFiniteSet(S), IsFiniteSet(T), S \cap T = {}
  PROVE  Cardinality(S \cup T) = Cardinality(S) + Cardinality(T)
<1>1. Cardinality(S \cup T) = Cardinality(S) + Cardinality(T) - Cardinality(S \cap T)
  BY FS_Union
<1>2. Cardinality(S) \in Nat /\ Cardinality(T) \in Nat /\ Cardinality(S \cap T) = 0
  BY FS_CardinalityType, FS_EmptySet
<1> QED
  BY <1>1, <1>2

\* A model turn with calls opens a batch.
LEMMA BatchOpens ==
  ASSUME NEW ms, Complete(ms), NEW n \in Nat \ {0}, NEW m, m = Assistant("text", n),
         NEW z, z = Append(ms, m)
  PROVE  /\ Pending(z, Len(ms) + 1, n) /\ Len(z) = Len(ms) + 1
         /\ BatchCount(z) = BatchCount(ms) + 1 /\ ResultCount(z) = ResultCount(ms)
<1>1. ms \in Transcript /\ Len(ms) \in Nat /\ DOMAIN ms = 1..Len(ms)
  BY Shape DEF Complete, Proper
<1>2. m \in Message /\ m.role = "assistant" /\ m.n = n
  BY Messages DEF Assistant
<1>3. PICK x : x = <<m>>
  OBVIOUS
<1>4. x \in Transcript /\ z = ms \o x /\ Len(x) = 1 /\ DOMAIN x = {1} /\ x[1] = m
  BY <1>1, <1>2, <1>3, OneMore
<1>5. Joined(ms, x, z)
  BY <1>1, <1>4, Joining
<1>6. CallsAt(x, 1) = n
  BY <1>2, <1>4 DEF CallsAt
<1>7. z \in Transcript /\ Len(z) = Len(ms) + 1 /\ DOMAIN z = 1..(Len(ms) + 1)
  <2>1. /\ ms \o x \in Transcript /\ Len(ms \o x) = Len(ms) + Len(x)
        /\ DOMAIN (ms \o x) = 1..(Len(ms) + Len(x))
    BY <1>1, <1>4, Extended
  <2> QED
    BY <1>4, <2>1
<1>8. PICK b \in Nat : b = Len(ms) + 1
  BY <1>1
<1>9. b \in DOMAIN z /\ b \notin DOMAIN ms /\ DOMAIN z = DOMAIN ms \cup {b}
  BY <1>1, <1>7, <1>8
<1>10. CallsAt(z, b) = n /\ z[b] = m
  <2>1. b \in DOMAIN z \ DOMAIN ms
    BY <1>9
  <2>2. PICK k \in DOMAIN x : CallsAt(z, b) = CallsAt(x, k) /\ z[b] = x[k]
    BY <1>5, <2>1 DEF Joined
  <2>3. k = 1
    BY <1>4
  <2> QED
    BY <1>4, <1>6, <2>2, <2>3
<1>11. \A i \in DOMAIN ms : CallsAt(z, i) = CallsAt(ms, i) /\ z[i] = ms[i]
  BY <1>5 DEF Joined
<1>12. Batches(z) = Batches(ms) \cup {b}
  BY <1>9, <1>10, <1>11 DEF Batches
<1>13. /\ Positions(z, "tool") = Positions(ms, "tool")
       /\ Positions(ms, "user") \subseteq Positions(z, "user")
  BY <1>2, <1>9, <1>10, <1>11 DEF Positions
<1>14. Calls(z) = Calls(ms) \cup ({b} \X (1..n))
  <2>1. \A i, k : (i \in DOMAIN z /\ k \in 1..CallsAt(z, i)) <=>
                  (i \in DOMAIN ms /\ k \in 1..CallsAt(ms, i)) \/ (i = b /\ k \in 1..n)
    BY <1>9, <1>10, <1>11
  <2>2. \A c : c \in Calls(z) <=> c \in Calls(ms) \/ c \in {b} \X (1..n)
    BY <2>1 DEF Calls
  <2> QED
    BY <2>2
<1>15. BatchCount(z) = BatchCount(ms) + 1
  <2>1. b \notin Batches(ms) /\ IsFiniteSet(Batches(ms))
    BY <1>1, <1>9, Shape DEF Batches
  <2> QED
    BY <1>12, <2>1, FS_AddElement DEF BatchCount
<1>16. CallCount(z) = CallCount(ms) + n
  <2>1. PICK S, T : S = Calls(ms) /\ T = {b} \X (1..n)
    OBVIOUS
  <2>2. IsFiniteSet(S) /\ S \cap T = {}
    BY <1>1, <1>9, <2>1, Shape DEF Calls
  <2>3. IsFiniteSet(1..n) /\ Cardinality(1..n) = n
    <3>1. \A h \in Int : IsFiniteSet(1..h) /\ Cardinality(1..h) = IF 1 > h THEN 0 ELSE h - 1 + 1
      BY FS_Interval
    <3> QED
      BY <3>1
  <2>4. IsFiniteSet({b}) /\ Cardinality({b}) = 1
    BY FS_Singleton
  <2>5. IsFiniteSet(T) /\ Cardinality(T) = n
    <3>1. PICK A, B : A = {b} /\ B = 1..n
      OBVIOUS
    <3>2. IsFiniteSet(A \X B) /\ Cardinality(A \X B) = Cardinality(A) * Cardinality(B)
      BY <2>3, <2>4, <3>1, FS_Product
    <3>3. Cardinality(A \X B) = 1 * n /\ 1 * n = n
      BY <2>3, <2>4, <3>1, <3>2
    <3> QED
      BY <2>1, <3>1, <3>2, <3>3
  <2>6. Cardinality(S \cup T) = Cardinality(S) + Cardinality(T)
    BY <2>2, <2>5, DisjointCount
  <2> QED
    BY <1>14, <2>1, <2>5, <2>6 DEF CallCount
<1>17. /\ ResultCount(z) = ResultCount(ms) /\ ResultCount(ms) + 0 = CallCount(ms)
       /\ ResultCount(ms) \in Nat
  BY <1>1, <1>13, Shape DEF ResultCount, Complete, Proper
<1>18. ASSUME NEW i \in Batches(z), i # b PROVE Closed(z, i)
  <2>1. i \in Batches(ms) /\ i \in DOMAIN ms /\ i # 0
    BY <1>1, <1>12, <1>18 DEF Batches
  <2>2. Closed(ms, i)
    BY <2>1 DEF Complete, Proper
  <2>3. Closed(ms \o x, i)
    BY <1>1, <1>4, <2>1, <2>2, ClosedStays
  <2> QED
    BY <1>4, <2>3
<1>19. Len(z) >= 2 /\ z[1].role = "system" /\ Positions(z, "user") # {}
  <2>1. Len(ms) >= 2 /\ ms[1].role = "system" /\ Positions(ms, "user") # {}
    BY DEF Complete, Proper
  <2> QED
    BY <1>1, <1>7, <1>11, <1>13, <2>1
<1>20. b + n - Len(z) = n
  BY <1>1, <1>7, <1>8
<1>21. ResultCount(z) + n = CallCount(z)
  BY <1>16, <1>17
<1>22. Proper(z, b, b + n - Len(z))
  BY <1>7, <1>18, <1>19, <1>20, <1>21 DEF Proper
<1>23. LastBatch(z, b, n)
  BY <1>1, <1>2, <1>7, <1>8, <1>10 DEF LastBatch
<1> QED
  BY <1>1, <1>7, <1>8, <1>15, <1>17, <1>22, <1>23 DEF Pending

\* The next results of the batch.
Answers(x, a) == \A k \in DOMAIN x : x[k].role = "tool" /\ x[k].n = a + k

Answering(ms, b, n, x, z) ==
  /\ Pending(z, b, n) /\ Len(z) = Len(ms) + Len(x)
  /\ BatchCount(z) = BatchCount(ms) /\ ResultCount(z) = ResultCount(ms) + Len(x)

LEMMA BatchAnswers ==
  ASSUME NEW ms, NEW b, NEW n, Pending(ms, b, n), NEW x \in Transcript,
         Answers(x, Len(ms) - b), Len(ms) + Len(x) <= b + n, NEW z, z = ms \o x
  PROVE  Answering(ms, b, n, x, z)
<1>1. /\ ms \in Transcript /\ Len(ms) \in Nat /\ DOMAIN ms = 1..Len(ms) /\ n \in Nat \ {0}
      /\ LastBatch(ms, b, n) /\ Len(ms) <= b + n /\ b \in 1..Len(ms)
      /\ ResultCount(ms) \in Nat /\ IsFiniteSet(Positions(ms, "tool"))
      /\ ResultCount(ms) + (b + n - Len(ms)) = CallCount(ms)
  BY Shape DEF Pending, Proper, LastBatch
<1>2. /\ z \in Transcript /\ Len(z) = Len(ms) + Len(x) /\ Len(x) \in Nat
      /\ DOMAIN z = 1..(Len(ms) + Len(x)) /\ DOMAIN x = 1..Len(x)
      /\ \A i \in 1..Len(x) : z[Len(ms) + i] = x[i]
  BY <1>1, Extended
<1>3. Joined(ms, x, z)
  BY <1>1, Joining
<1>l. PICK l \in Nat : l = Len(ms)
  BY <1>1
<1>h. PICK h \in Nat : h = Len(ms) + Len(x)
  BY <1>1, <1>2
<1>4. l = Len(ms) /\ h = Len(ms) + Len(x)
  BY <1>l, <1>h
<1>5. l <= h /\ DOMAIN z = DOMAIN ms \cup (l + 1)..h /\ DOMAIN ms \cap (l + 1)..h = {}
  BY <1>1, <1>2, <1>4
<1>6. ASSUME NEW i \in (l + 1)..h PROVE z[i].role = "tool" /\ z[i].n = i - b /\ CallsAt(z, i) = 0
  <2>1. i - l \in DOMAIN x /\ z[i] = x[i - l]
    <3>1. i - l \in 1..Len(x) /\ Len(ms) + (i - l) = i
      BY <1>2, <1>4, <1>6
    <3> QED
      BY <1>2, <3>1
  <2>2. x[i - l].role = "tool" /\ x[i - l].n = (l - b) + (i - l)
    BY <1>4, <2>1 DEF Answers
  <2>3. (l - b) + (i - l) = i - b
    BY <1>1, <1>4
  <2> QED
    BY <2>1, <2>2, <2>3 DEF CallsAt
<1>7. \A i \in DOMAIN ms : CallsAt(z, i) = CallsAt(ms, i) /\ z[i] = ms[i]
  BY <1>3 DEF Joined
<1>8. Batches(z) = Batches(ms)
  BY <1>5, <1>6, <1>7 DEF Batches
<1>9. /\ Positions(z, "tool") = Positions(ms, "tool") \cup (l + 1)..h
      /\ Positions(ms, "user") \subseteq Positions(z, "user")
  BY <1>5, <1>6, <1>7 DEF Positions
<1>10. Calls(z) = Calls(ms)
  <2>1. \A i, k : (i \in DOMAIN z /\ k \in 1..CallsAt(z, i))
                    <=> (i \in DOMAIN ms /\ k \in 1..CallsAt(ms, i))
    BY <1>5, <1>6, <1>7
  <2>2. \A c : c \in Calls(z) <=> c \in Calls(ms)
    BY <2>1 DEF Calls
  <2> QED
    BY <2>2
<1>11. ResultCount(z) = ResultCount(ms) + (h - l)
  <2>1. PICK S, T : S = Positions(ms, "tool") /\ T = (l + 1)..h
    OBVIOUS
  <2>2. IsFiniteSet(S) /\ IsFiniteSet(T) /\ Cardinality(T) = h - l
    BY <1>1, <1>5, <2>1, IntervalCount
  <2>3. S \cap T = {}
    BY <1>5, <2>1 DEF Positions
  <2>4. Cardinality(S \cup T) = Cardinality(S) + Cardinality(T)
    BY <2>2, <2>3, DisjointCount
  <2> QED
    BY <1>9, <2>1, <2>2, <2>4 DEF ResultCount
<1>12. CallCount(z) = CallCount(ms) /\ BatchCount(z) = BatchCount(ms)
  BY <1>8, <1>10 DEF CallCount, BatchCount
<1>13. ASSUME NEW i \in Batches(z), i # b PROVE Closed(z, i)
  <2>1. i \in Batches(ms) /\ i \in DOMAIN ms
    BY <1>8, <1>13 DEF Batches
  <2>2. Closed(ms, i)
    BY <1>13, <2>1 DEF Pending, Proper
  <2> QED
    BY <1>1, <2>1, <2>2, ClosedStays
<1>14. Len(z) >= 2 /\ z[1].role = "system" /\ Positions(z, "user") # {}
  <2>1. Len(ms) >= 2 /\ ms[1].role = "system" /\ Positions(ms, "user") # {}
    BY DEF Pending, Proper
  <2> QED
    BY <1>1, <1>2, <1>7, <1>9, <2>1
<1>15. ResultCount(z) + (b + n - Len(z)) = CallCount(z)
  BY <1>1, <1>2, <1>4, <1>11, <1>12
<1>16. Proper(z, b, b + n - Len(z))
  BY <1>2, <1>13, <1>14, <1>15 DEF Proper
<1>17. LastBatch(z, b, n)
  <2>1. b \in 1..Len(z) /\ z[b].role = "assistant" /\ z[b].n = n
    BY <1>1, <1>2, <1>7 DEF LastBatch
  <2>2. ASSUME NEW k \in (b + 1)..Len(z) PROVE z[k].role = "tool" /\ z[k].n = k - b
    <3>1. CASE k \in (l + 1)..h
      BY <1>6, <3>1
    <3>2. CASE k \notin (l + 1)..h
      <4>1. k \in (b + 1)..Len(ms) /\ k \in DOMAIN ms
        BY <1>1, <1>2, <1>4, <3>2
      <4> QED
        BY <1>1, <1>7, <4>1 DEF LastBatch
    <3> QED
      BY <3>1, <3>2
  <2> QED
    BY <2>1, <2>2 DEF LastBatch
<1> QED
  BY <1>1, <1>2, <1>4, <1>11, <1>12, <1>16, <1>17 DEF Answering, Pending

\* A batch with all its results is closed.
LEMMA BatchCloses ==
  ASSUME NEW ms, NEW b, NEW n, Pending(ms, b, n), Len(ms) = b + n
  PROVE  Complete(ms)
<1>1. /\ ms \in Transcript /\ Len(ms) \in Nat /\ n \in Nat \ {0} /\ b \in 1..Len(ms)
      /\ LastBatch(ms, b, n) /\ Proper(ms, b, b + n - Len(ms))
  BY Shape DEF Pending, Proper, LastBatch
<1>2. b + n - Len(ms) = 0
  BY <1>1
<1>3. CallsAt(ms, b) = n
  BY <1>1 DEF CallsAt, LastBatch
<1>4. \A j \in (b + 1)..(b + n) : ms[j].role = "tool" /\ ms[j].n = j - b /\ j - b \in 1..n
  BY <1>1 DEF LastBatch
<1>5. \A k \in 1..n : k + b \in (b + 1)..(b + n) /\ (k + b) - b = k
  BY <1>1
<1>6. {<<ms[j].role, ms[j].n>> : j \in (b + 1)..(b + n)} = {"tool"} \X (1..n)
  <2>1. ASSUME NEW c, c \in {<<ms[j].role, ms[j].n>> : j \in (b + 1)..(b + n)}
        PROVE  c \in {"tool"} \X (1..n)
    BY <1>4, <2>1
  <2>2. ASSUME NEW k \in 1..n
        PROVE  <<"tool", k>> \in {<<ms[j].role, ms[j].n>> : j \in (b + 1)..(b + n)}
    <3>1. PICK j \in (b + 1)..(b + n) : j - b = k
      BY <1>5
    <3>2. <<"tool", k>> = <<ms[j].role, ms[j].n>>
      BY <1>4, <3>1
    <3> QED
      BY <3>2
  <2> QED
    BY <2>1, <2>2
<1>7. Closed(ms, b)
  BY <1>3, <1>6 DEF Closed
<1> QED
  BY <1>1, <1>2, <1>7 DEF Complete, Proper

LEMMA ClosedAnswered ==
  ASSUME NEW ms \in Transcript, NEW i \in DOMAIN ms, Closed(ms, i), NEW k \in 1..CallsAt(ms, i)
  PROVE  <<i, k>> \in Results(ms)
<1>1. Len(ms) \in Nat /\ DOMAIN ms = 1..Len(ms)
  BY Shape
<1>2. PICK n \in Nat : n = CallsAt(ms, i)
  BY Shape
<1>3. /\ n > 0 /\ i + n <= Len(ms) /\ k \in 1..n
      /\ {<<ms[j].role, ms[j].n>> : j \in (i + 1)..(i + n)} = {"tool"} \X (1..n)
  BY <1>2 DEF Closed
<1>4. ASSUME NEW j \in (i + 1)..(i + n) PROVE ms[j].role = "tool"
  <2>1. <<ms[j].role, ms[j].n>> \in {"tool"} \X (1..n)
    BY <1>3
  <2> QED
    BY <2>1
<1>5. PICK j \in (i + 1)..(i + n) : ms[j].n = k
  <2>1. <<"tool", k>> \in {<<ms[j].role, ms[j].n>> : j \in (i + 1)..(i + n)}
    BY <1>3
  <2> QED
    BY <2>1
<1>6. i \in 1..(j - 1) /\ j \in Nat /\ j \in DOMAIN ms
  BY <1>1, <1>3
<1>7. \A l \in (i + 1)..(j - 1) : CallsAt(ms, l) = 0
  BY <1>1, <1>4, <1>6 DEF CallsAt
<1>8. Answered(ms, j) = <<i, k>>
  BY <1>2, <1>3, <1>5, <1>6, <1>7, AnsweredIs
<1> QED
  BY <1>4, <1>6, <1>8 DEF Results, Positions

LEMMA NoneUnanswered ==
  ASSUME NEW ms, Complete(ms)
  PROVE  Unanswered(ms) = {}
<1>1. ms \in Transcript /\ DOMAIN ms = 1..Len(ms) /\ \A i \in DOMAIN ms : CallsAt(ms, i) \in Nat
  BY Shape DEF Complete, Proper
<1>2. ASSUME NEW i, NEW k, <<i, k>> \in Calls(ms) PROVE <<i, k>> \in Results(ms)
  <2>1. i \in DOMAIN ms /\ k \in 1..CallsAt(ms, i)
    BY <1>1, <1>2, InCalls
  <2>2. i \in Batches(ms) /\ i # 0
    BY <1>1, <2>1 DEF Batches
  <2>3. Closed(ms, i)
    BY <2>2 DEF Complete, Proper
  <2> QED
    BY <1>1, <2>1, <2>3, ClosedAnswered
<1>3. Calls(ms) \subseteq Nat \X Nat
  BY <1>1, CallsType
<1> QED
  BY <1>2, <1>3 DEF Unanswered

\* The calls without a result are the last ones of the last batch.
LEMMA LastUnanswered ==
  ASSUME NEW ms, NEW b, NEW n, Pending(ms, b, n)
  PROVE  Unanswered(ms) = {b} \X ((Len(ms) - b + 1)..n)
<1>1. /\ ms \in Transcript /\ Len(ms) \in Nat /\ DOMAIN ms = 1..Len(ms)
      /\ \A i \in DOMAIN ms : CallsAt(ms, i) \in Nat
      /\ LastBatch(ms, b, n) /\ n \in Nat \ {0} /\ Len(ms) <= b + n /\ b \in 1..Len(ms)
      /\ \A i \in Batches(ms) : i # b => Closed(ms, i)
  BY Shape DEF Pending, Proper, LastBatch
<1>2. CallsAt(ms, b) = n
  BY <1>1 DEF CallsAt, LastBatch
<1>3. ASSUME NEW i, NEW k, <<i, k>> \in Calls(ms), <<i, k>> \notin Results(ms)
      PROVE  i = b /\ k \in (Len(ms) - b + 1)..n
  <2>1. i \in DOMAIN ms /\ k \in 1..CallsAt(ms, i)
    BY <1>1, <1>3, InCalls
  <2>2. i \in Batches(ms)
    BY <1>1, <2>1 DEF Batches
  <2>3. i = b
    BY <1>1, <1>3, <2>1, <2>2, ClosedAnswered
  <2>4. k \in 1..n
    BY <1>2, <2>1, <2>3
  <2>5. ~(k <= Len(ms) - b)
    <3> SUFFICES ASSUME k <= Len(ms) - b PROVE FALSE
      OBVIOUS
    <3>1. PICK j \in Nat : j = b + k
      BY <1>1, <2>4
    <3>2. j \in (b + 1)..Len(ms) /\ j \in DOMAIN ms /\ b \in 1..(j - 1) /\ j - b = k
      BY <1>1, <2>4, <3>1
    <3>3. ms[j].role = "tool" /\ ms[j].n = k
      BY <1>1, <3>2 DEF LastBatch
    <3>4. \A l \in (b + 1)..(j - 1) : CallsAt(ms, l) = 0
      BY <1>1, <3>2 DEF LastBatch, CallsAt
    <3>5. Answered(ms, j) = <<b, ms[j].n>>
      BY <1>1, <1>2, <3>2, <3>4, AnsweredIs
    <3> QED
      BY <1>3, <2>3, <3>2, <3>3, <3>5 DEF Results, Positions
  <2> QED
    BY <1>1, <2>3, <2>4, <2>5
<1>4. ASSUME NEW k \in (Len(ms) - b + 1)..n
      PROVE  <<b, k>> \in Calls(ms) /\ <<b, k>> \notin Results(ms)
  <2>1. <<b, k>> \in Calls(ms)
    BY <1>1, <1>2, InCalls
  <2>2. ASSUME NEW j \in Positions(ms, "tool"), Answered(ms, j) = <<b, k>> PROVE FALSE
    <3>1. j \in Nat \ {0} /\ j \in 1..Len(ms)
      BY <1>1 DEF Positions
    <3>2. Answered(ms, j)[1] < j /\ Answered(ms, j)[2] = ms[j].n
      BY <3>1, AnsweredBefore
    <3>3. b < j /\ ms[j].n = k
      BY <2>2, <3>2
    <3>4. ms[j].n = j - b
      BY <1>1, <3>1, <3>3 DEF LastBatch
    <3> QED
      BY <1>1, <3>1, <3>3, <3>4
  <2> QED
    BY <2>1, <2>2 DEF Results
<1>5. Calls(ms) \subseteq Nat \X Nat
  BY <1>1, CallsType
<1>6. \A c : c \in Unanswered(ms) <=> c \in {b} \X ((Len(ms) - b + 1)..n)
  BY <1>3, <1>4, <1>5 DEF Unanswered
<1> QED
  BY <1>6

\* recover_thread answers them in their order.
LEMMA UnknownAnswers ==
  ASSUME NEW b \in Nat, NEW a \in Nat, NEW n \in Nat, a <= n,
         NEW x, x = Unknown({b} \X ((a + 1)..n))
  PROVE  x \in Transcript /\ Len(x) = n - a /\ Answers(x, a)
<1>1. PICK S, C : S = (a + 1)..n /\ C = {b} \X S
  OBVIOUS
<1>2. IsFiniteSet(S) /\ Cardinality(S) = n - a
  BY <1>1, IntervalCount
<1>3. PICK r \in Nat : r = n - a
  OBVIOUS
<1>4. IsFiniteSet(C) /\ Cardinality(C) = r
  <2>1. PICK A : A = {b}
    OBVIOUS
  <2>2. IsFiniteSet(A) /\ Cardinality(A) = 1
    BY <2>1, FS_Singleton
  <2>3. IsFiniteSet(A \X S) /\ Cardinality(A \X S) = Cardinality(A) * Cardinality(S)
    BY <1>2, <2>2, FS_Product
  <2>4. 1 * r = r
    OBVIOUS
  <2> QED
    BY <1>1, <1>2, <1>3, <2>1, <2>2, <2>3, <2>4
<1>5. {c[2] : c \in C} = S
  <2>1. \A c \in C : c[2] \in S
    BY <1>1
  <2>2. \A i \in S : <<b, i>> \in C /\ <<b, i>>[2] = i
    BY <1>1
  <2> QED
    BY <2>1, <2>2
<1>6. ASSUME NEW i \in S PROVE Cardinality({j \in S : j < i}) = i - a - 1
  <2>2. PICK h \in Nat : h = i - 1 /\ a <= h
    BY <1>1
  <2>1. {j \in S : j < i} = (a + 1)..h
    BY <1>1, <2>2
  <2>3. Cardinality((a + 1)..h) = h - a
    BY <2>2, IntervalCount
  <2>4. h - a = i - a - 1
    BY <1>1, <2>2
  <2> QED
    BY <2>1, <2>3, <2>4
<1>7. ASSUME NEW k \in 1..r PROVE Nth(S, k) = a + k
  <2>1. a + k \in S /\ (a + k) - a - 1 = k - 1
    BY <1>1, <1>3
  <2>2. Cardinality({j \in S : j < a + k}) = k - 1
    BY <1>6, <2>1
  <2>3. \A i \in S : Cardinality({j \in S : j < i}) = k - 1 => i = a + k
    BY <1>1, <1>6
  <2> QED
    BY <2>1, <2>2, <2>3 DEF Nth
<1>8. x = [k \in 1..r |-> ToolResult(Nth(S, k), "unknown")]
  <2>1. x = Unknown(C)
    BY <1>1
  <2>2. Unknown(C) = [k \in 1..Cardinality(C) |-> ToolResult(Nth({c[2] : c \in C}, k), "unknown")]
    BY DEF Unknown
  <2> QED
    BY <1>4, <1>5, <2>1, <2>2
<1>9. DOMAIN x = 1..r /\ \A k \in 1..r : x[k] = ToolResult(a + k, "unknown")
  BY <1>7, <1>8
<1>10. Answers(x, a)
  <2>1. \A i, t : ToolResult(i, t).role = "tool" /\ ToolResult(i, t).n = i
    BY DEF ToolResult
  <2>2. ASSUME NEW k \in 1..r PROVE x[k].role = "tool" /\ x[k].n = a + k
    <3>1. PICK i : i = a + k
      OBVIOUS
    <3>2. x[k] = ToolResult(i, "unknown")
      BY <1>9, <3>1
    <3> QED
      BY <2>1, <3>1, <3>2
  <2> QED
    BY <1>9, <2>2 DEF Answers
<1>11. x \in Transcript
  <2>1. C \in SUBSET (Nat \X Nat)
    BY <1>1
  <2> QED
    BY <1>1, <1>4, <2>1, UnknownResults
<1>12. Len(x) \in Nat /\ DOMAIN x = 1..Len(x)
  BY <1>11, Shape
<1>13. Len(x) = r
  BY <1>9, <1>12
<1> QED
  BY <1>3, <1>10, <1>11, <1>13

PlanOk(p) ==
  p # NoPlan => /\ p = [length |-> p.length, cursor |-> p.cursor]
                /\ p.length \in 2..8 /\ p.cursor \in Nat /\ p.cursor <= p.length

\* What CompletedWork and the plan say, for a transcript ms.
Accounted(ms, w, p) ==
  /\ Counts(ms, w) /\ w.actions \in Nat /\ w.actions <= w.calls /\ ~Exceeds(w.actions, MaxActions)
  /\ PlanOk(p)

\* All of a checkpoint but its last message.
Fit(ms, w, p) == Complete(ms) /\ Accounted(ms, w, p)

Concluded(ms) == Len(ms) >= 3 /\ Last(ms) = Said

\* A journal holds a complete conversation, or one that ends in the middle of a batch.
JournalFit(j) ==
  /\ Accounted(j.messages, j.work, j.plan)
  /\ Complete(j.messages) \/ (~j.finished /\ \E b, n : Pending(j.messages, b, n))
  /\ j.finished /\ j.stopped => Concluded(j.messages)

\* The loop in the middle of a batch: the call in flight may be counted as an action already.
BatchFit ==
  /\ Pending(messages, Base(phase, messages, batch), Len(batch.calls))
  /\ Counts(messages, work) /\ work.actions <= work.calls + InFlight /\ ~Exceeds(work.actions, MaxActions)
  /\ PlanOk(plan)

\* The inductive invariant of CheckpointsAccepted.
ValidInv ==
  /\ phase \in {"model", "summary", "done"} => Fit(messages, work, plan)
  /\ phase \in InBatch => BatchFit
  /\ journal # NoJournal => JournalFit(journal)
  /\ checkpoint # NoCheckpoint =>
       Validate(checkpoint) /\ Fit(checkpoint.messages, checkpoint.work, checkpoint.plan)

LEMMA FitValid ==
  ASSUME NEW ms, NEW w, NEW p, NEW g, Fit(ms, w, p), Concluded(ms),
         NEW c, c = Checkpoint(ms, w, p, g)
  PROVE  Validate(c) /\ Fit(c.messages, c.work, c.plan)
<1>1. c.messages = ms /\ c.work = w /\ c.plan = p
  BY DEF Checkpoint
<1>2. /\ ms \in Transcript /\ ms[1].role = "system" /\ Positions(ms, "user") # {}
      /\ \A i \in Batches(ms) : i # 0 => Closed(ms, i)
      /\ ResultCount(ms) + 0 = CallCount(ms)
  BY DEF Fit, Complete, Proper
<1>3. DOMAIN ms = 1..Len(ms) /\ Len(ms) \in Nat /\ ResultCount(ms) \in Nat
  BY <1>2, Shape
<1>4. \A i \in DOMAIN ms : CallsAt(ms, i) > 0 => Closed(ms, i)
  BY <1>2, <1>3 DEF Batches
<1>5. Cardinality(Positions(ms, "tool")) = Cardinality(Calls(ms))
  BY <1>2, <1>3 DEF ResultCount, CallCount
<1>6. /\ w.actions <= w.calls /\ ~Exceeds(w.actions, MaxActions)
      /\ w.rounds <= Cardinality({i \in DOMAIN ms : CallsAt(ms, i) > 0})
      /\ w.calls <= Cardinality(Positions(ms, "tool"))
  BY DEF Fit, Accounted, Counts, BatchCount, Batches, ResultCount
<1>7. p # NoPlan => p.length \in 2..8 /\ p.cursor <= p.length
  BY DEF Fit, Accounted, PlanOk
<1>8. \A i \in DOMAIN ms : CallsAt(ms, i) > 0 =>
        /\ i + CallsAt(ms, i) <= Len(ms)
        /\ {<<ms[j].role, ms[j].n>> : j \in (i + 1)..(i + CallsAt(ms, i))}
             = {"tool"} \X (1..CallsAt(ms, i))
  BY <1>4 DEF Closed
<1>9. Len(ms) >= 3 /\ Last(ms) = Said
  BY DEF Concluded
<1>10. Validate(c)
  BY <1>1, <1>2, <1>5, <1>6, <1>7, <1>8, <1>9 DEF Validate
<1> QED
  BY <1>1, <1>10

LEMMA TalkParts ==
  /\ Talk(<<>>)
  /\ \A m \in Message : m.role # "tool" /\ (m.role = "assistant" => m.n = 0) => Talk(<<m>>)
  /\ \A x, y : Talk(x) /\ Talk(y) => Talk(x \o y)
<1>1. Talk(<<>>)
  BY HarmlessParts DEF Talk
<1>2. ASSUME NEW m \in Message, m.role # "tool", m.role = "assistant" => m.n = 0
      PROVE  Talk(<<m>>)
  <2>1. <<m>> \in Transcript
    BY <1>2, HarmlessParts
  <2>2. \A j \in DOMAIN <<m>> : <<m>>[j] = m
    OBVIOUS
  <2> QED
    BY <1>2, <2>1, <2>2 DEF Talk, CallsAt
<1>3. ASSUME NEW x, NEW y, Talk(x), Talk(y) PROVE Talk(x \o y)
  <2>1. x \in Transcript /\ y \in Transcript
    BY <1>3 DEF Talk
  <2>2. PICK z : z = x \o y
    OBVIOUS
  <2>3. z \in Transcript /\ Joined(x, y, z)
    BY <2>1, <2>2, Joining, Extended
  <2>4. ASSUME NEW j \in DOMAIN z PROVE z[j].role # "tool" /\ CallsAt(z, j) = 0
    <3>1. CASE j \in DOMAIN x
      BY <1>3, <2>3, <3>1 DEF Joined, Talk
    <3>2. CASE j \notin DOMAIN x
      <4>1. PICK k \in DOMAIN y : CallsAt(z, j) = CallsAt(y, k) /\ z[j] = y[k]
        BY <2>3, <3>2 DEF Joined
      <4> QED
        BY <1>3, <4>1 DEF Talk
    <3> QED
      BY <3>1, <3>2
  <2> QED
    BY <2>2, <2>3, <2>4 DEF Talk
<1> QED
  BY <1>1, <1>2, <1>3

LEMMA Talks ==
  /\ Talk(<<User>>) /\ Talk(<<Said>>) /\ \A p : Talk(OpenPlanPrompt(p))
  /\ \A turn : Talk(<<Assistant(TextOf(turn), 0)>>)
  /\ \A partial \in Partial : Talk(partial)
<1>1. Talk(<<User>>) /\ Talk(<<Said>>)
  <2>1. User.role = "user" /\ Said.role = "assistant" /\ Said.n = 0
    BY DEF User, Said
  <2> QED
    BY <2>1, Messages, TalkParts
<1>2. \A p : Talk(OpenPlanPrompt(p))
  BY <1>1, TalkParts DEF OpenPlanPrompt
<1>3. ASSUME NEW turn PROVE Talk(<<Assistant(TextOf(turn), 0)>>)
  <2>1. PICK m : m = Assistant(TextOf(turn), 0)
    OBVIOUS
  <2>2. m \in Message /\ m.role = "assistant" /\ m.n = 0
    BY <2>1, Messages DEF TextOf, Assistant
  <2> QED
    BY <2>1, <2>2, TalkParts
<1> QED
  BY <1>1, <1>2, <1>3, TalkParts DEF Partial

LEMMA ControlTalk ==
  ASSUME control.guidance \in Nat
  PROVE  Talk(ControlMessages)
<1>1. PICK m : m = [role |-> "user", n |-> control.guidance, text |-> "guidance"]
  OBVIOUS
<1>2. m \in Message /\ m.role = "user"
  BY <1>1, Messages
<1>3. PICK x, y : /\ x = IF control.guidance > 0 THEN <<m>> ELSE <<>>
                  /\ y = IF control.stop THEN <<User>> ELSE <<>>
  OBVIOUS
<1>4. ControlMessages = x \o y
  BY <1>1, <1>3 DEF ControlMessages
<1>5. Talk(x) /\ Talk(y)
  BY <1>2, <1>3, TalkParts, Talks
<1> QED
  BY <1>4, <1>5, TalkParts

LEMMA FitTalk ==
  ASSUME NEW ms, NEW w, NEW p, Fit(ms, w, p), NEW x, Talk(x)
  PROVE  Fit(ms \o x, w, p)
<1>1. Complete(ms \o x) /\ \A v : Counts(ms, v) => Counts(ms \o x, v)
  BY TalkComplete DEF Fit
<1> QED
  BY <1>1 DEF Fit, Accounted

LEMMA FitPlan ==
  ASSUME NEW ms, NEW w, NEW p, Fit(ms, w, p), NEW q, PlanOk(q)
  PROVE  Fit(ms, w, q)
BY DEF Fit, Accounted

LEMMA FitAppend ==
  ASSUME NEW ms, NEW w, NEW p, Fit(ms, w, p), NEW m \in {User, Said}
  PROVE  Append(ms, m) = ms \o <<m>> /\ Fit(Append(ms, m), w, p)
<1>1. ms \in Transcript /\ m \in Message /\ Talk(<<m>>)
  BY Messages, Talks DEF Fit, Complete, Proper
<1>2. Append(ms, m) = ms \o <<m>>
  BY <1>1, OneMore
<1> QED
  BY <1>1, <1>2, FitTalk

\* With a last word it is a checkpoint.
LEMMA FitConcluded ==
  ASSUME NEW ms, NEW w, NEW p, Fit(ms, w, p), NEW z, z = ms \o <<Said>>
  PROVE  Fit(z, w, p) /\ Concluded(z)
<1>1. ms \in Transcript /\ Len(ms) >= 2 /\ Len(ms) \in Nat
  BY Shape DEF Fit, Complete, Proper
<1>2. <<Said>> \in Transcript /\ Len(<<Said>>) = 1 /\ <<Said>>[1] = Said
  BY <1>1, Messages, OneMore
<1>3. /\ Len(z) = Len(ms) + 1
      /\ \A i \in 1..Len(<<Said>>) : z[Len(ms) + i] = <<Said>>[i]
  BY <1>1, <1>2, Extended
<1>4. z[Len(z)] = Said
  <2>1. 1 \in 1..Len(<<Said>>)
    BY <1>2
  <2>2. z[Len(ms) + 1] = <<Said>>[1]
    BY <1>3, <2>1
  <2> QED
    BY <1>2, <1>3, <2>2
<1>5. Concluded(z)
  BY <1>1, <1>3, <1>4 DEF Concluded, Last
<1>6. Fit(z, w, p)
  BY FitTalk, Talks
<1> QED
  BY <1>5, <1>6

LEMMA PlansOk ==
  ASSUME NEW p, PlanOk(p)
  PROVE  PlanOk(MarkCurrentDone(p)) /\ \A turn \in Turns : PlanOk(Install(p, turn))
<1>1. PlanOk(MarkCurrentDone(p))
  <2>1. CASE Open(p)
    <3>1. p # NoPlan /\ p.cursor < p.length
      BY <2>1 DEF Open
    <3>2. /\ p = [length |-> p.length, cursor |-> p.cursor]
          /\ p.length \in 2..8 /\ p.cursor \in Nat
      BY <3>1 DEF PlanOk
    <3>3. PICK q : q = [p EXCEPT !.cursor = @ + 1]
      OBVIOUS
    <3>4. q = [length |-> p.length, cursor |-> p.cursor + 1]
      BY <3>2, <3>3
    <3>5. PlanOk(q)
      BY <3>1, <3>2, <3>4 DEF PlanOk
    <3> QED
      BY <2>1, <3>3, <3>5 DEF MarkCurrentDone
  <2>2. CASE ~Open(p)
    BY <2>2 DEF MarkCurrentDone
  <2> QED
    BY <2>1, <2>2
<1>2. ASSUME NEW turn \in Turns PROVE PlanOk(Install(p, turn))
  <2>1. turn.steps = 0 \/ turn.steps \in 2..8
    BY PolicyAssumption DEF Turns, Turn
  <2>2. ASSUME NEW s \in 2..8 PROVE PlanOk([length |-> s, cursor |-> 0])
    BY DEF PlanOk
  <2> QED
    BY <2>1, <2>2 DEF Install
<1> QED
  BY <1>1, <1>2

LEMMA InBatchApart ==
  /\ "cut" \notin InBatch /\ "idle" \notin InBatch
  /\ \A ph \in {"model", "summary", "done"} : ph \notin InBatch
BY DEF InBatch

LEMMA SavedFit ==
  ASSUME NEW ms, NEW w, NEW p, Fit(ms, w, p), NEW f, NEW s, f /\ s => Concluded(ms),
         NEW j, j = Progress(ms, w, p, f, s)
  PROVE  JournalFit(j)
<1>1. j.messages = ms /\ j.work = w /\ j.plan = p /\ j.finished = f /\ j.stopped = s
  BY DEF Progress
<1> QED
  BY <1>1 DEF Fit, JournalFit

\* The run goes on, or ends, outside a batch.
LEMMA OutsideValid ==
  ASSUME ValidInv, phase' \in {"model", "summary", "done"}, Fit(messages', work', plan'),
         journal' = journal \/ JournalFit(journal'),
         \/ checkpoint' = checkpoint \/ checkpoint' = NoCheckpoint
         \/ Validate(checkpoint') /\ Fit(checkpoint'.messages, checkpoint'.work, checkpoint'.plan)
  PROVE  ValidInv'
<1>1. phase' \notin InBatch
  BY InBatchApart
<1>2. journal' # NoJournal => JournalFit(journal')
  BY DEF ValidInv
<1>3. checkpoint' # NoCheckpoint =>
        Validate(checkpoint') /\ Fit(checkpoint'.messages, checkpoint'.work, checkpoint'.plan)
  BY DEF ValidInv
<1> QED
  BY <1>1, <1>2, <1>3 DEF ValidInv

LEMMA CutValid ==
  ASSUME ValidInv, phase' = "cut",
         journal' = journal \/ journal' = NoJournal \/ JournalFit(journal'),
         checkpoint' = checkpoint \/ checkpoint' = NoCheckpoint
  PROVE  ValidInv'
<1>1. phase' \notin InBatch /\ phase' \notin {"model", "summary", "done"}
  BY InBatchApart
<1>2. journal' # NoJournal => JournalFit(journal')
  BY DEF ValidInv
<1>3. checkpoint' # NoCheckpoint =>
        Validate(checkpoint') /\ Fit(checkpoint'.messages, checkpoint'.work, checkpoint'.plan)
  BY DEF ValidInv
<1> QED
  BY <1>1, <1>2, <1>3 DEF ValidInv

LEMMA LoopValid ==
  ASSUME ValidInv, NEW ms, NEW p, Loop(ms, p), Fit(ms, work, p)
  PROVE  ValidInv'
<1>1. messages' = ms /\ work' = work /\ plan' = p /\ checkpoint' = checkpoint
  BY DEF Loop, SaveOrFail
<1>2. CASE Cut(0) /\ UNCHANGED journal
  BY <1>1, <1>2, CutValid DEF Cut
<1>3. CASE Save(ms, work, p, "model")
  <2>1. phase' = "model" /\ journal' = Progress(ms, work, p, FALSE, FALSE)
    BY <1>3 DEF Save
  <2>2. JournalFit(journal')
    BY <2>1, SavedFit
  <2> QED
    BY <1>1, <2>1, <2>2, OutsideValid
<1> QED
  BY <1>2, <1>3 DEF Loop, SaveOrFail

LEMMA SummaryValid ==
  ASSUME ValidInv, NEW ms, NEW p, NEW s, AskSummary(ms, p, s), Fit(ms, work, p)
  PROVE  ValidInv'
<1>1. /\ phase' = "summary" /\ messages' = ms /\ plan' = p
      /\ UNCHANGED <<work, journal, checkpoint>>
  BY DEF AskSummary
<1> QED
  BY <1>1, OutsideValid

LEMMA FinishValid ==
  ASSUME ValidInv, NEW ms, NEW p, NEW s \in BOOLEAN, Finish(ms, p, s), Fit(ms, work, p),
         s => Concluded(ms)
  PROVE  ValidInv'
<1>1. messages' = ms /\ plan' = p /\ work' = work
  BY DEF Finish
<1>2. CASE Cut(0) /\ UNCHANGED <<journal, checkpoint>>
  BY <1>2, CutValid DEF Cut
<1>3. CASE phase' = "done"
  <2>1. /\ journal' = Progress(ms, work, p, TRUE, s)
        /\ checkpoint' = IF s THEN Checkpoint(ms, work, p, ghost) ELSE checkpoint
    BY <1>3 DEF Finish, Cut
  <2>2. JournalFit(journal')
    BY <2>1, SavedFit
  <2>3. s => Validate(checkpoint') /\ Fit(checkpoint'.messages, checkpoint'.work, checkpoint'.plan)
    BY <2>1, FitValid
  <2> QED
    BY <1>1, <1>3, <2>1, <2>2, <2>3, OutsideValid
<1> QED
  BY <1>2, <1>3 DEF Finish

LEMMA StartValid ==
  ASSUME ValidInv, NEW ms, NEW w, NEW p, NEW g, Start(ms, w, p, g), Fit(ms, w, p),
         checkpoint' = checkpoint \/ checkpoint' = NoCheckpoint
  PROVE  ValidInv'
<1>1. messages' = ms /\ work' = w /\ plan' = p
  BY DEF Start
<1>2. CASE journal' = Progress(ms, w, p, FALSE, FALSE) /\ phase' = "model"
  <2>1. JournalFit(journal')
    BY <1>2, SavedFit
  <2> QED
    BY <1>1, <1>2, <2>1, OutsideValid
<1>3. CASE journal' = NoJournal /\ phase' = "cut"
  BY <1>3, CutValid
<1> QED
  BY <1>2, <1>3 DEF Start

-----------------------------------------------------------------------------
\* The model answers, or does not.

LEMMA TurnPlan ==
  ASSUME NEW turn \in Turns, PlanOk(plan)
  PROVE  PlanOk(Install(plan, turn)) /\ PlanOk(AfterWriteup(turn))
<1>1. PlanOk(Install(plan, turn))
  BY PlansOk
<1>2. PlanOk(MarkCurrentDone(Install(plan, turn)))
  BY <1>1, PlansOk
<1> QED
  BY <1>1, <1>2 DEF AfterWriteup

LEMMA TurnToolsValid ==
  ASSUME ValidInv, TranscriptInv, Forms, NEW turn \in Turns, TurnTools(turn)
  PROVE  ValidInv'
<1>1. phase = "model" /\ Fit(messages, work, plan)
  BY DEF TurnTools, ValidInv
<1>2. PICK n \in Nat \ {0} : n = Len(turn.calls)
  BY TurnCalls DEF TurnTools
<1>3. PICK m, q, w : /\ m = Assistant("text", n) /\ q = Install(plan, turn)
                     /\ w = [work EXCEPT !.rounds = @ + 1]
  OBVIOUS
<1>4. /\ messages' = Append(messages, m) /\ work' = w /\ plan' = q /\ checkpoint' = checkpoint
      /\ batch' = [calls |-> turn.calls, at |-> 1, evidence |-> FALSE, promised |-> turn.promised]
      /\ \/ journal' = Progress(Append(messages, m), w, q, FALSE, FALSE) /\ phase' = "next"
         \/ Cut(0) /\ journal' = journal
  BY <1>2, <1>3 DEF TurnTools, SaveOrFail, Save
<1>5. CASE Cut(0) /\ journal' = journal
  BY <1>4, <1>5, CutValid DEF Cut
<1>6. CASE journal' = Progress(Append(messages, m), w, q, FALSE, FALSE) /\ phase' = "next"
  <2>1. /\ w.calls = work.calls /\ w.actions = work.actions /\ w.rounds = work.rounds + 1
    BY <1>3 DEF Forms, IsWork
  <2>2. /\ Pending(messages', Len(messages) + 1, n) /\ Len(messages') = Len(messages) + 1
        /\ BatchCount(messages') = BatchCount(messages) + 1
        /\ ResultCount(messages') = ResultCount(messages)
    BY <1>1, <1>3, <1>4, BatchOpens DEF Fit
  <2>3. BatchCount(messages) \in Nat /\ Len(messages) \in Nat
    BY <1>1, Shape DEF Fit, Complete, Proper
  <2>4. Accounted(messages, work, plan)
    BY <1>1 DEF Fit
  <2>5. PlanOk(q)
    BY <1>3, <2>4, TurnPlan DEF Accounted
  <2>6. Accounted(messages', w, q)
    BY <2>1, <2>2, <2>3, <2>4, <2>5 DEF Accounted, Counts
  <2>7. batch'.at = 1 /\ Len(batch'.calls) = n
    BY <1>2, <1>4
  <2>8. Base(phase', messages', batch') = Len(messages) + 1
    BY <1>6, <2>2, <2>3, <2>7 DEF Base
  <2>9. InFlight' = 0
    BY <1>6 DEF InFlight
  <2>10. work'.actions <= work'.calls + 0
    BY <1>4, <2>6 DEF Accounted, Counts
  <2>11. BatchFit'
    BY <1>4, <2>2, <2>6, <2>7, <2>8, <2>9, <2>10 DEF BatchFit, Accounted
  <2>12. JournalFit(journal')
    <3>1. PICK j : j = journal'
      OBVIOUS
    <3>2. j.messages = messages' /\ j.work = w /\ j.plan = q /\ j.finished = FALSE
      BY <1>4, <1>6, <3>1 DEF Progress
    <3> QED
      BY <2>2, <2>6, <3>1, <3>2 DEF JournalFit
  <2>13. phase' \notin {"model", "summary", "done"}
    BY <1>6
  <2> QED
    BY <1>4, <2>11, <2>12, <2>13 DEF ValidInv
<1> QED
  BY <1>4, <1>5, <1>6

LEMMA TurnValid ==
  ASSUME ValidInv, TranscriptInv, Forms, NEW turn \in Turns, ModelTurn(turn)
  PROVE  ValidInv'
<1>0. phase = "model"
  BY DEF ModelTurn, TurnStops, TurnGuided, TurnEmpty, TurnEmptyAgain, TurnOpenPlan,
         TurnNeedsPlan, TurnAnswers, TurnCeiling, TurnTools, Unguided, Says
<1>1. Fit(messages, work, plan) /\ PlanOk(plan) /\ control.guidance \in Nat
  BY <1>0 DEF ValidInv, Fit, Accounted, TranscriptInv
<1>2. PICK h : h = Heard(turn)
  OBVIOUS
<1>3. Fit(h, work, plan)
  <2>1. Fit(messages \o <<Assistant(TextOf(turn), 0)>>, work, plan)
    BY <1>1, FitTalk, Talks
  <2> QED
    BY <1>1, <1>2, <2>1, FitTalk, ControlTalk DEF Heard
<1>4. PICK g : g = Append(h, User)
  OBVIOUS
<1>5. Fit(g, work, plan)
  BY <1>3, <1>4, FitAppend
<1>6. ASSUME NEW ms, Fit(ms, work, plan), NEW p, PlanOk(p)
      PROVE  Fit(ms, work, p) /\ Fit(ms \o OpenPlanPrompt(p), work, p)
  BY <1>6, FitPlan, FitTalk, Talks
<1>7. PlanOk(Install(plan, turn)) /\ PlanOk(AfterWriteup(turn))
  BY <1>1, TurnPlan
<1>8. CASE TurnStops(turn)
  <2>1. AskSummary(h, Install(plan, turn), TRUE)
    BY <1>2, <1>8 DEF TurnStops
  <2> QED
    BY <1>3, <1>6, <1>7, <2>1, SummaryValid
<1>9. CASE TurnGuided(turn)
  <2>1. PICK p : p = Install(plan, turn)
    OBVIOUS
  <2>2. Loop(h \o OpenPlanPrompt(p), p)
    BY <1>2, <1>9, <2>1 DEF TurnGuided
  <2> QED
    BY <1>3, <1>6, <1>7, <2>1, <2>2, LoopValid
<1>10. CASE TurnEmpty(turn)
  <2>1. Loop(g \o OpenPlanPrompt(plan), plan)
    BY <1>2, <1>4, <1>10 DEF TurnEmpty
  <2> QED
    BY <1>1, <1>5, <1>6, <2>1, LoopValid
<1>11. CASE TurnEmptyAgain(turn)
  <2>1. Finish(Append(h, Said), plan, FALSE)
    BY <1>2, <1>11 DEF TurnEmptyAgain
  <2>2. Fit(Append(h, Said), work, plan)
    BY <1>3, FitAppend
  <2> QED
    BY <2>1, <2>2, FinishValid
<1>12. CASE TurnOpenPlan(turn)
  <2>1. PICK p : p = AfterWriteup(turn)
    OBVIOUS
  <2>2. AskSummary(g, p, FALSE) \/ Loop(h \o OpenPlanPrompt(p), p)
    BY <1>2, <1>4, <1>12, <2>1 DEF TurnOpenPlan
  <2> QED
    BY <1>3, <1>5, <1>6, <1>7, <2>1, <2>2, LoopValid, SummaryValid
<1>13. CASE TurnNeedsPlan(turn)
  <2>1. Loop(g, plan)
    BY <1>2, <1>4, <1>13 DEF TurnNeedsPlan
  <2> QED
    BY <1>5, <2>1, LoopValid
<1>14. CASE TurnAnswers(turn)
  <2>1. Finish(h, AfterWriteup(turn), FALSE)
    BY <1>2, <1>14 DEF TurnAnswers
  <2> QED
    BY <1>3, <1>6, <1>7, <2>1, FinishValid
<1>15. CASE TurnCeiling(turn)
  <2>1. PICK ms : ms = messages \o <<Said, User>>
    OBVIOUS
  <2>2. AskSummary(ms, Install(plan, turn), FALSE)
    BY <1>15, <2>1 DEF TurnCeiling
  <2>3. <<Said, User>> = <<Said>> \o <<User>>
    OBVIOUS
  <2>4. Talk(<<Said, User>>)
    BY <2>3, Talks, TalkParts
  <2>5. Fit(ms, work, plan)
    BY <1>1, <2>1, <2>4, FitTalk
  <2> QED
    BY <1>6, <1>7, <2>2, <2>5, SummaryValid
<1>16. CASE TurnTools(turn)
  BY <1>16, TurnToolsValid
<1> QED
  BY <1>8, <1>9, <1>10, <1>11, <1>12, <1>13, <1>14, <1>15, <1>16 DEF ModelTurn

LEMMA ErrorValid ==
  ASSUME ValidInv, JournalTick \/ \E partial \in Partial : CompletionError(partial)
  PROVE  ValidInv'
<1>1. phase = "model" /\ Fit(messages, work, plan)
  BY DEF JournalTick, CompletionError, ValidInv
<1>2. ASSUME NEW partial \in Partial, CompletionError(partial) PROVE ValidInv'
  <2>1. PICK ms : ms = messages \o partial
    OBVIOUS
  <2>2. Fit(ms, work, plan)
    BY <1>1, <2>1, FitTalk, Talks
  <2>3. CASE control.stop
    <3>1. PICK z : z = ms \o <<Said>>
      OBVIOUS
    <3>2. Finish(z, plan, TRUE)
      BY <1>2, <2>1, <2>3, <3>1 DEF CompletionError
    <3>3. Fit(z, work, plan) /\ Concluded(z)
      BY <2>2, <3>1, FitConcluded
    <3> QED
      BY <3>2, <3>3, FinishValid
  <2>4. CASE ~control.stop
    <3>1. /\ phase' = "cut" /\ checkpoint' = checkpoint
          /\ journal' = Progress(ms, work, plan, FALSE, FALSE) \/ journal' = journal
      BY <1>2, <2>1, <2>4 DEF CompletionError, Cut
    <3>2. JournalFit(Progress(ms, work, plan, FALSE, FALSE))
      BY <2>2, SavedFit
    <3> QED
      BY <3>1, <3>2, CutValid
  <2> QED
    BY <2>3, <2>4
<1>3. CASE JournalTick
  <2>1. UNCHANGED <<messages, work, plan, checkpoint>>
    BY <1>3 DEF JournalTick, loop
  <2>2. CASE Cut(0) /\ journal' = journal
    BY <2>1, <2>2, CutValid DEF Cut
  <2>3. CASE phase' = phase /\ journal' = Progress(Append(messages, Said), work, plan, FALSE, FALSE)
    <3>1. Fit(Append(messages, Said), work, plan)
      BY <1>1, FitAppend
    <3>2. JournalFit(journal')
      BY <2>3, <3>1, SavedFit
    <3> QED
      BY <1>1, <2>1, <2>3, <3>2, OutsideValid
  <2> QED
    BY <1>3, <2>2, <2>3 DEF JournalTick
<1> QED
  BY <1>2, <1>3

-----------------------------------------------------------------------------
(* Tools. *)

\* Where the loop is in the batch.
LEMMA BatchPlace ==
  ASSUME ValidInv, TranscriptInv, phase \in InBatch
  PROVE  /\ Len(messages) \in Nat /\ messages \in Transcript /\ IsBatch(batch)
         /\ Len(batch.calls) \in Nat \ {0} /\ batch.at \in 1..Len(batch.calls)
         /\ BatchFit /\ control.guidance \in Nat
         /\ Base(phase, messages, batch) \in 1..Len(messages)
         /\ Pending(messages, Base(phase, messages, batch), Len(batch.calls))
<1>1. /\ Len(messages) \in Nat /\ messages \in Transcript /\ IsBatch(batch)
      /\ BatchOk(phase, messages, batch, ghost.started) /\ control.guidance \in Nat
  BY BatchFacts
<1>2. /\ Len(batch.calls) \in Nat /\ batch.at \in 1..Len(batch.calls)
      /\ Base(phase, messages, batch) \in 1..Len(messages)
  BY <1>1 DEF BatchOk, LastBatch
<1>3. BatchFit
  BY DEF ValidInv
<1> QED
  BY <1>1, <1>2, <1>3 DEF BatchFit

LEMMA DispatchValid ==
  ASSUME ValidInv, TranscriptInv, Forms, Dispatch
  PROVE  ValidInv'
<1>1. /\ phase = "next" /\ phase' = "tool" /\ ~OverBudget(Current)
      /\ UNCHANGED <<messages, plan, batch, journal, checkpoint>>
  BY DEF Dispatch
<1>2. phase \in InBatch
  BY <1>1 DEF InBatch
<1>3. BatchFit
  BY <1>2, BatchPlace
<1>4. PICK d \in {0, 1} : d = IF IsAction(Current) THEN 1 ELSE 0
  OBVIOUS
<1>5. work' = [work EXCEPT !.actions = @ + d]
  BY <1>4 DEF Dispatch
<1>6. /\ work'.calls = work.calls /\ work'.rounds = work.rounds
      /\ work'.actions = work.actions + d /\ work.actions \in Nat
  BY <1>5 DEF Forms, IsWork
<1>7. InFlight = 0 /\ InFlight' = d
  BY <1>1, <1>4 DEF InFlight, Current
<1>8. Base(phase', messages', batch') = Base(phase, messages, batch)
  BY <1>1 DEF Base
<1>9. Counts(messages, work) /\ work.calls \in Nat /\ work.actions <= work.calls + 0
  BY <1>3, <1>7 DEF BatchFit, Counts
<1>10. Counts(messages', work')
  BY <1>1, <1>6, <1>9 DEF Counts
<1>11. work'.actions <= work'.calls + InFlight'
  BY <1>6, <1>7, <1>9
<1>12. ~Exceeds(work'.actions, MaxActions)
  BY <1>1, <1>3, <1>4, <1>6, PolicyAssumption DEF OverBudget, Reached, Exceeds, BatchFit
<1>13. BatchFit'
  BY <1>1, <1>3, <1>8, <1>10, <1>11, <1>12 DEF BatchFit
<1>14. phase' \notin {"model", "summary", "done"}
  BY <1>1
<1> QED
  BY <1>1, <1>13, <1>14 DEF ValidInv

LEMMA ResultValid ==
  ASSUME ValidInv, TranscriptInv, Forms, phase \in {"tool", "next"},
         batch'.calls = batch.calls, batch'.at = batch.at,
         NEW w, NEW text \in {"result", "skipped"}, NEW made,
         SaveResult(ToolResult(batch.at, text), w, made),
         w.rounds = work.rounds, w.calls \in {work.calls, work.calls + 1},
         w.actions = work.actions, w.actions <= w.calls
  PROVE  ValidInv'
<1>1. phase \in InBatch /\ phase # "boundary"
  BY DEF InBatch
<1>2. PICK b, a, n, m : /\ b = Base(phase, messages, batch) /\ a = batch.at
                        /\ n = Len(batch.calls) /\ m = ToolResult(a, text)
  OBVIOUS
<1>3. /\ Len(messages) \in Nat /\ messages \in Transcript /\ BatchFit
      /\ n \in Nat \ {0} /\ a \in 1..n /\ b \in 1..Len(messages) /\ Pending(messages, b, n)
  BY <1>1, <1>2, BatchPlace
<1>4. b = (Len(messages) - a) + 1
  BY <1>1, <1>2 DEF Base
<1>5. a \in Nat /\ b \in Nat /\ Len(messages) - b = a - 1
  BY <1>3, <1>4
<1>6. m \in Message /\ m.role = "tool" /\ m.n = a
  BY <1>2, <1>5, Messages DEF ToolResult
<1>7. PICK x : x = <<m>>
  OBVIOUS
<1>8. x \in Transcript /\ Len(x) = 1 /\ Append(messages, m) = messages \o x
  BY <1>3, <1>6, <1>7, OneMore
<1>9. Answers(x, Len(messages) - b)
  <2>1. \A k \in DOMAIN x : k = 1 /\ x[k] = m
    BY <1>7
  <2>2. (a - 1) + 1 = a
    BY <1>5
  <2> QED
    BY <1>5, <1>6, <2>1, <2>2 DEF Answers
<1>10. /\ messages' = messages \o x /\ work' = w
       /\ UNCHANGED <<plan, checkpoint>>
       /\ \/ Save(messages', w, plan, "boundary")
          \/ \E l : Cut(l) /\ journal' = journal
  BY <1>2, <1>8 DEF SaveResult
<1>11. Len(messages) + Len(x) <= b + n
  BY <1>3, <1>4, <1>8
<1>12. /\ Pending(messages', b, n) /\ Len(messages') = Len(messages) + Len(x)
       /\ BatchCount(messages') = BatchCount(messages)
       /\ ResultCount(messages') = ResultCount(messages) + Len(x)
  <2>1. Answering(messages, b, n, x, messages')
    BY <1>3, <1>8, <1>9, <1>10, <1>11, BatchAnswers
  <2> QED
    BY <2>1 DEF Answering
<1>13. Counts(messages, work) /\ PlanOk(plan) /\ ~Exceeds(work.actions, MaxActions)
  BY <1>3 DEF BatchFit
<1>14. ResultCount(messages) \in Nat
  BY <1>3, Shape
<1>15. Counts(messages', w)
  BY <1>8, <1>12, <1>13, <1>14 DEF Counts
<1>16. w.actions \in Nat
  BY DEF Forms, IsWork
<1>17. CASE \E l : Cut(l) /\ journal' = journal
  BY <1>10, <1>17, CutValid DEF Cut
<1>18. CASE Save(messages', w, plan, "boundary")
  <2>1. phase' = "boundary" /\ journal' = Progress(messages', w, plan, FALSE, FALSE)
    BY <1>18 DEF Save
  <2>2. Accounted(messages', w, plan)
    BY <1>13, <1>15, <1>16 DEF Accounted
  <2>3. JournalFit(journal')
    <3>1. PICK j : j = journal'
      OBVIOUS
    <3>2. j.messages = messages' /\ j.work = w /\ j.plan = plan /\ j.finished = FALSE
      BY <2>1, <3>1 DEF Progress
    <3> QED
      BY <1>12, <2>2, <3>1, <3>2 DEF JournalFit
  <2>4. Base(phase', messages', batch') = b
    <3>1. Base(phase', messages', batch') = Len(messages') - a
      BY <1>2, <2>1 DEF Base
    <3> QED
      BY <1>3, <1>4, <1>8, <1>12, <3>1
  <2>5. InFlight' = 0
    BY <2>1 DEF InFlight
  <2>6. w.calls \in Nat /\ w.actions <= w.calls + 0
    BY <1>15, <1>16 DEF Counts
  <2>7. BatchFit'
    BY <1>2, <1>10, <1>12, <1>13, <1>15, <2>4, <2>5, <2>6 DEF BatchFit
  <2>8. phase' \notin {"model", "summary", "done"}
    BY <2>1
  <2> QED
    BY <1>10, <2>3, <2>7, <2>8 DEF ValidInv
<1> QED
  BY <1>10, <1>17, <1>18

LEMMA ToolValid ==
  ASSUME ValidInv, TranscriptInv, Forms,
         (\E success \in BOOLEAN : ToolReturns(success)) \/ SkipOverBudget
  PROVE  ValidInv'
<1>1. ASSUME NEW success \in BOOLEAN, ToolReturns(success) PROVE ValidInv'
  <2>1. PICK w : w = [work EXCEPT !.calls = @ + 1]
    OBVIOUS
  <2>2. phase = "tool" /\ SaveResult(ToolResult(batch.at, "result"), w, TRUE)
    BY <1>1, <2>1 DEF ToolReturns
  <2>3. PICK e : batch' = [batch EXCEPT !.evidence = e]
    BY <1>1 DEF ToolReturns
  <2>4. batch'.calls = batch.calls /\ batch'.at = batch.at
    BY <2>3 DEF TranscriptInv, IsBatch
  <2>5. w.calls = work.calls + 1 /\ w.rounds = work.rounds /\ w.actions = work.actions
    BY <2>1 DEF Forms, IsWork
  <2>6. BatchFit
    BY <2>2, BatchPlace DEF InBatch
  <2>7. InFlight \in {0, 1} /\ work.calls \in Nat /\ work.actions \in Nat
        /\ work.actions <= work.calls + InFlight
    BY <2>6 DEF BatchFit, Counts, Forms, IsWork, InFlight
  <2>8. w.actions <= w.calls
    BY <2>5, <2>7
  <2> QED
    BY <2>2, <2>4, <2>5, <2>8, ResultValid
<1>2. CASE SkipOverBudget
  <2>1. /\ phase = "next" /\ batch' = batch
        /\ SaveResult(ToolResult(batch.at, "skipped"), work, FALSE)
    BY <1>2 DEF SkipOverBudget
  <2>2. BatchFit /\ InFlight = 0
    BY <2>1, BatchPlace DEF InBatch, InFlight
  <2>3. work.calls \in Nat /\ work.actions <= work.calls + 0
    BY <2>2 DEF BatchFit, Counts
  <2>4. work.actions <= work.calls
    BY <2>3
  <2> QED
    BY <2>1, <2>4, ResultValid
<1> QED
  BY <1>1, <1>2

LEMMA NextCallValid ==
  ASSUME ValidInv, TranscriptInv, NextCall
  PROVE  ValidInv'
<1>1. /\ phase = "boundary" /\ phase' = "next"
      /\ batch' = [batch EXCEPT !.at = batch.at + 1]
      /\ UNCHANGED <<messages, work, plan, journal, checkpoint>>
  BY DEF NextCall
<1>2. phase \in InBatch
  BY <1>1 DEF InBatch
<1>3. /\ BatchFit /\ IsBatch(batch) /\ Len(messages) \in Nat /\ batch.at \in Nat
  BY <1>2, BatchPlace
<1>4. batch'.calls = batch.calls /\ batch'.at = batch.at + 1
  BY <1>1, <1>3 DEF IsBatch
<1>5. Base(phase', messages', batch') = Base(phase, messages, batch)
  BY <1>1, <1>3, <1>4 DEF Base
<1>6. InFlight = 0 /\ InFlight' = 0
  BY <1>1 DEF InFlight
<1>7. BatchFit'
  BY <1>1, <1>3, <1>4, <1>5, <1>6 DEF BatchFit
<1>8. phase' \notin {"model", "summary", "done"}
  BY <1>1
<1> QED
  BY <1>1, <1>7, <1>8 DEF ValidInv

\* The calls after a control are answered, and the batch with them.
LEMMA SkippedFit ==
  ASSUME ValidInv, TranscriptInv, Forms, phase = "boundary"
  PROVE  /\ Fit(messages \o SkippedRest, work, AfterTools) /\ PlanOk(AfterTools)
         /\ batch.at = Len(batch.calls) => Fit(messages, work, AfterTools)
<1>1. PICK b, a, n, x : /\ b = Base(phase, messages, batch) /\ a = batch.at
                        /\ n = Len(batch.calls) /\ x = SkippedRest
  OBVIOUS
<1>2. phase \in InBatch
  BY DEF InBatch
<1>3. /\ Len(messages) \in Nat /\ messages \in Transcript /\ BatchFit
      /\ n \in Nat \ {0} /\ a \in 1..n /\ b \in 1..Len(messages) /\ Pending(messages, b, n)
  BY <1>1, <1>2, BatchPlace
<1>4. Len(messages) - b = a
  <2>1. b = Len(messages) - a
    BY <1>1 DEF Base
  <2> QED
    BY <1>3, <2>1
<1>5. PICK r \in Nat : r = n - a
  BY <1>3
<1>6. x = [k \in 1..r |-> ToolResult(a + k, "skipped")]
  BY <1>1, <1>5 DEF SkippedRest
<1>7. \A k \in 1..r : ToolResult(a + k, "skipped") \in Message
  BY <1>3, Messages
<1>8. x \in [1..r -> Message]
  BY <1>6, <1>7
<1>9. x \in Transcript /\ DOMAIN x = 1..r /\ Len(x) = r
  BY <1>8, SeqDef, LenProperties DEF Transcript
<1>10. Answers(x, Len(messages) - b)
  BY <1>4, <1>6, <1>9 DEF Answers, ToolResult
<1>11. PICK z : z = messages \o x
  OBVIOUS
<1>12. Len(messages) + Len(x) = b + n
  BY <1>3, <1>4, <1>5, <1>9
<1>13. /\ Pending(z, b, n) /\ Len(z) = Len(messages) + Len(x)
       /\ BatchCount(z) = BatchCount(messages) /\ ResultCount(z) = ResultCount(messages) + Len(x)
  <2>1. Len(messages) + Len(x) <= b + n
    BY <1>3, <1>9, <1>12
  <2>2. Answering(messages, b, n, x, z)
    BY <1>3, <1>9, <1>10, <1>11, <2>1, BatchAnswers
  <2> QED
    BY <2>2 DEF Answering
<1>14. Complete(z)
  BY <1>12, <1>13, BatchCloses
<1>15. /\ Counts(messages, work) /\ PlanOk(plan) /\ ~Exceeds(work.actions, MaxActions)
       /\ work.actions <= work.calls + InFlight /\ InFlight = 0
  BY <1>3 DEF BatchFit, InFlight
<1>16. PlanOk(AfterTools)
  BY <1>15, PlansOk DEF AfterTools
<1>17. work.actions \in Nat /\ work.actions <= work.calls
  <2>1. work.actions \in Nat /\ work.calls \in Nat /\ work.actions <= work.calls + 0
    BY <1>15 DEF Forms, IsWork, Counts
  <2> QED
    BY <2>1
<1>18. ResultCount(messages) \in Nat
  BY <1>3, Shape
<1>19. Counts(z, work)
  BY <1>9, <1>13, <1>15, <1>18 DEF Counts
<1>20. Fit(z, work, AfterTools)
  BY <1>14, <1>15, <1>16, <1>17, <1>19 DEF Fit, Accounted
<1>21. ASSUME batch.at = Len(batch.calls) PROVE Fit(messages, work, AfterTools)
  <2>1. Len(messages) = b + n
    BY <1>1, <1>3, <1>4, <1>21
  <2>2. Complete(messages)
    BY <1>3, <2>1, BatchCloses
  <2> QED
    BY <1>15, <1>16, <1>17, <2>2 DEF Fit, Accounted
<1> QED
  BY <1>1, <1>11, <1>16, <1>20, <1>21

LEMMA ToolsValid ==
  ASSUME ValidInv, TranscriptInv, Forms, Tools
  PROVE  ValidInv'
<1>1. CASE Dispatch
  BY <1>1, DispatchValid
<1>2. CASE (\E success \in BOOLEAN : ToolReturns(success)) \/ SkipOverBudget
  BY <1>2, ToolValid
<1>3. CASE NextCall
  BY <1>3, NextCallValid
<1>4. CASE EndBatch
  <2>1. PICK p : p = AfterTools
    OBVIOUS
  <2>2. /\ phase = "boundary" /\ batch.at = Len(batch.calls)
        /\ Loop(messages \o OpenPlanPrompt(p), p)
    BY <1>4, <2>1 DEF EndBatch
  <2>3. Fit(messages, work, p)
    BY <2>1, <2>2, SkippedFit
  <2>4. Fit(messages \o OpenPlanPrompt(p), work, p)
    BY <2>3, FitTalk, Talks
  <2> QED
    BY <2>2, <2>4, LoopValid
<1>5. CASE ControlBatch
  <2>1. PICK p, y, ms : p = AfterTools /\ y = messages \o SkippedRest /\ ms = y \o ControlMessages
    OBVIOUS
  <2>2. /\ phase = "boundary"
        /\ AskSummary(ms, p, TRUE) \/ Loop(ms \o OpenPlanPrompt(p), p)
    BY <1>5, <2>1 DEF ControlBatch
  <2>3. Fit(y, work, p)
    BY <2>1, <2>2, SkippedFit
  <2>4. Fit(ms, work, p)
    BY <2>1, <2>3, FitTalk, ControlTalk DEF TranscriptInv
  <2>5. Fit(ms \o OpenPlanPrompt(p), work, p)
    BY <2>4, FitTalk, Talks
  <2> QED
    BY <2>2, <2>4, <2>5, LoopValid, SummaryValid
<1> QED
  BY <1>1, <1>2, <1>3, <1>4, <1>5 DEF Tools

-----------------------------------------------------------------------------
(* Recovery. *)

\* Whatever a batch lacks is answered as unknown.
LEMMA RecoveredFit ==
  ASSUME NEW j, JournalFit(j), ~j.finished, NEW z, z = j.messages \o Unknown(Unanswered(j.messages))
  PROVE  Fit(z, j.work, j.plan)
<1>1. PICK ms, w, p : ms = j.messages /\ w = j.work /\ p = j.plan
  OBVIOUS
<1>2. /\ Accounted(ms, w, p) /\ z = ms \o Unknown(Unanswered(ms))
      /\ Complete(ms) \/ \E b, n : Pending(ms, b, n)
  BY <1>1 DEF JournalFit
<1>3. Complete(z) /\ Counts(z, w)
  <2>1. CASE Complete(ms)
    <3>1. PICK x : x = Unknown(Unanswered(ms))
      OBVIOUS
    <3>2. Unanswered(ms) = {} /\ Cardinality({}) = 0
      BY <2>1, NoneUnanswered, FS_EmptySet
    <3>3. x = [k \in 1..0 |-> ToolResult(Nth({c[2] : c \in {}}, k), "unknown")]
      BY <3>1, <3>2 DEF Unknown
    <3>4. x = <<>>
      BY <3>3
    <3>5. ms \in Transcript
      BY <2>1 DEF Complete, Proper
    <3>6. z = ms
      BY <1>2, <3>1, <3>4, <3>5 DEF Transcript
    <3> QED
      BY <1>2, <2>1, <3>6 DEF Accounted
  <2>2. ASSUME NEW b, NEW n, Pending(ms, b, n) PROVE Complete(z) /\ Counts(z, w)
    <3>1. /\ ms \in Transcript /\ Len(ms) \in Nat /\ n \in Nat \ {0} /\ b \in 1..Len(ms)
          /\ Len(ms) <= b + n
      BY <2>2, Shape DEF Pending, Proper, LastBatch
    <3>2. PICK a \in Nat : a = Len(ms) - b
      BY <3>1
    <3>3. PICK x : x = Unknown({b} \X ((a + 1)..n))
      OBVIOUS
    <3>4. a <= n /\ b \in Nat /\ n \in Nat
      BY <3>1, <3>2
    <3>5. x \in Transcript /\ Len(x) = n - a /\ Answers(x, a)
      BY <3>3, <3>4, UnknownAnswers
    <3>6. z = ms \o x
      BY <1>2, <2>2, <3>2, <3>3, LastUnanswered
    <3>7. Len(ms) + Len(x) = b + n
      BY <3>1, <3>2, <3>5
    <3>8. Len(ms) + Len(x) <= b + n
      BY <3>1, <3>7
    <3>9. Answering(ms, b, n, x, z)
      BY <2>2, <3>2, <3>5, <3>6, <3>8, BatchAnswers
    <3>10. /\ Pending(z, b, n) /\ Len(z) = b + n
           /\ BatchCount(z) = BatchCount(ms) /\ ResultCount(z) = ResultCount(ms) + (n - a)
      BY <3>5, <3>7, <3>9 DEF Answering
    <3>11. Complete(z)
      BY <3>10, BatchCloses
    <3>12. ResultCount(ms) \in Nat /\ n - a \in Nat /\ Counts(ms, w)
      BY <1>2, <3>1, <3>4, Shape DEF Accounted
    <3>13. Counts(z, w)
      BY <3>10, <3>12 DEF Counts
    <3> QED
      BY <3>11, <3>13
  <2> QED
    BY <1>2, <2>1, <2>2
<1> QED
  BY <1>1, <1>2, <1>3 DEF Fit, Accounted

LEMMA RecoverValid ==
  ASSUME ValidInv, Recover
  PROVE  ValidInv'
<1>1. phase' = "idle" /\ journal' = NoJournal
  BY DEF Recover
<1>2. phase' \notin InBatch /\ phase' \notin {"model", "summary", "done"}
  BY <1>1, InBatchApart
<1>3. checkpoint' # NoCheckpoint =>
        Validate(checkpoint') /\ Fit(checkpoint'.messages, checkpoint'.work, checkpoint'.plan)
  <2>1. CASE checkpoint' = checkpoint
    BY <2>1 DEF ValidInv
  <2>2. CASE /\ journal # NoJournal /\ (~journal.finished \/ journal.stopped)
             /\ checkpoint' = Recovered(journal, ghost)
    <3>1. PICK j, c : j = journal /\ c = checkpoint'
      OBVIOUS
    <3>2. JournalFit(j) /\ c = Recovered(j, ghost)
      BY <2>2, <3>1 DEF ValidInv
    <3>3. CASE j.finished
      <4>1. c = Checkpoint(j.messages, j.work, j.plan, ghost)
        BY <3>2, <3>3 DEF Recovered
      <4>2. Concluded(j.messages) /\ Fit(j.messages, j.work, j.plan)
        BY <2>2, <3>1, <3>2, <3>3 DEF JournalFit, Fit
      <4> QED
        BY <3>1, <4>1, <4>2, FitValid
    <3>4. CASE ~j.finished
      <4>1. PICK y, z : y = j.messages \o Unknown(Unanswered(j.messages)) /\ z = y \o <<Said>>
        OBVIOUS
      <4>2. c = Checkpoint(z, j.work, j.plan, ghost)
        BY <3>2, <3>4, <4>1 DEF Recovered
      <4>3. Fit(y, j.work, j.plan)
        BY <3>2, <3>4, <4>1, RecoveredFit
      <4>4. Fit(z, j.work, j.plan) /\ Concluded(z)
        BY <4>1, <4>3, FitConcluded
      <4> QED
        BY <3>1, <4>2, <4>4, FitValid
    <3> QED
      BY <3>3, <3>4
  <2> QED
    BY <2>1, <2>2 DEF Recover
<1> QED
  BY <1>1, <1>2, <1>3 DEF ValidInv

-----------------------------------------------------------------------------

\* A conversation begins with the system prompt and the request.
LEMMA FirstFit == Fit(<<System, User>>, NoWork, NoPlan)
<1>1. PICK ms : ms = <<System, User>>
  OBVIOUS
<1>2. Len(ms) = 2 /\ DOMAIN ms = 1..2 /\ ms[1] = System /\ ms[2] = User
  BY <1>1
<1>3. ms \in Transcript
  <2>1. System \in Message /\ User \in Message
    BY Messages
  <2> QED
    BY <1>1, <2>1 DEF Transcript
<1>4. System.role = "system" /\ User.role = "user"
  BY DEF System, User
<1>5. \A i \in DOMAIN ms : ms[i].role # "tool" /\ CallsAt(ms, i) = 0
  BY <1>2, <1>4 DEF CallsAt
<1>6. Batches(ms) = {} /\ Positions(ms, "tool") = {}
  BY <1>5 DEF Batches, Positions
<1>7. Calls(ms) = {}
  <2>1. \A i \in DOMAIN ms : {i} \X (1..CallsAt(ms, i)) = {}
    BY <1>5
  <2> QED
    BY <2>1 DEF Calls
<1>8. BatchCount(ms) = 0 /\ ResultCount(ms) = 0 /\ CallCount(ms) = 0
  BY <1>6, <1>7, FS_EmptySet DEF BatchCount, ResultCount, CallCount
<1>9. Positions(ms, "user") # {}
  BY <1>2, <1>4 DEF Positions
<1>10. Complete(ms)
  <2>1. Len(ms) >= 2 /\ ms[1].role = "system" /\ ResultCount(ms) + 0 = CallCount(ms)
    BY <1>2, <1>4, <1>8
  <2>2. \A i \in Batches(ms) : i # 0 => Closed(ms, i)
    BY <1>6
  <2> QED
    BY <1>3, <1>9, <2>1, <2>2 DEF Complete, Proper
<1>11. Accounted(ms, NoWork, NoPlan)
  BY <1>8, Constants DEF Accounted, Counts, NoWork, PlanOk
<1> QED
  BY <1>1, <1>10, <1>11 DEF Fit

LEMMA ValidStep ==
  BudgetInv /\ StopInv /\ TranscriptInv /\ ValidInv /\ [Next]_vars => ValidInv'
<1> SUFFICES ASSUME BudgetInv, StopInv, TranscriptInv, ValidInv, [Next]_vars PROVE ValidInv'
  OBVIOUS
<1>0. Forms
  BY DEF BudgetInv
<1>1. CASE Run
  BY <1>1, FirstFit, StartValid DEF Run
<1>2. CASE Resume
  <2>1. PICK c, y, ms : /\ c = checkpoint /\ y = Append(c.messages, User)
                        /\ ms = y \o OpenPlanPrompt(c.plan)
    OBVIOUS
  <2>2. /\ checkpoint # NoCheckpoint /\ checkpoint' = NoCheckpoint
        /\ Start(ms, c.work, c.plan, c.past)
    BY <1>2, <2>1 DEF Resume
  <2>3. Fit(c.messages, c.work, c.plan)
    BY <2>1, <2>2 DEF ValidInv
  <2>4. Fit(y, c.work, c.plan)
    BY <2>1, <2>3, FitAppend
  <2>5. Fit(ms, c.work, c.plan)
    BY <2>1, <2>4, FitTalk, Talks
  <2> QED
    BY <2>2, <2>5, StartValid
<1>3. CASE Repair
  <2>1. /\ phase = "done" /\ checkpoint' = checkpoint
        /\ Start(Append(messages, User), work, plan, ghost)
    BY <1>3 DEF Repair
  <2>2. Fit(Append(messages, User), work, plan)
    BY <2>1, FitAppend DEF ValidInv
  <2> QED
    BY <2>1, <2>2, StartValid
<1>4. CASE Answer
  BY <1>0, <1>4, TurnValid DEF Answer
<1>5. CASE JournalTick \/ Stopped \/ \E partial \in Partial : ProviderFails(partial)
  BY <1>5, ErrorValid DEF Stopped, ProviderFails, StopWakes, StopDeadline
<1>6. CASE Tools
  BY <1>0, <1>6, ToolsValid
<1>7. CASE SummaryEnds
  <2>1. PICK z, s : z = messages \o <<Said>> /\ s = StoppedAtLast
    OBVIOUS
  <2>2. phase = "summary" /\ Finish(Append(messages, Said), plan, s)
    BY <1>7, <2>1 DEF SummaryEnds
  <2>3. Fit(messages, work, plan)
    BY <2>2 DEF ValidInv
  <2>4. Append(messages, Said) = z
    BY <2>1, <2>3, FitAppend
  <2>5. Fit(z, work, plan) /\ Concluded(z)
    BY <2>1, <2>3, FitConcluded
  <2>6. s \in BOOLEAN
    BY <2>1 DEF StoppedAtLast
  <2> QED
    BY <2>2, <2>4, <2>5, <2>6, FinishValid
<1>8. CASE QueueGuidance \/ RequestStop \/ UNCHANGED vars
  <2>1. UNCHANGED <<phase, messages, work, plan, batch, journal, checkpoint>>
    BY <1>8 DEF QueueGuidance, RequestStop, loop, vars
  <2>2. InFlight' = InFlight
    BY <2>1 DEF InFlight, Current
  <2>3. BatchFit' = BatchFit
    BY <2>1, <2>2 DEF BatchFit
  <2> QED
    BY <2>1, <2>3 DEF ValidInv
<1>9. CASE Interrupt \/ Crash
  BY <1>9, CutValid DEF Interrupt, Crash, Cut
<1>10. CASE Recover
  BY <1>10, RecoverValid
<1> QED
  BY <1>1, <1>2, <1>3, <1>4, <1>5, <1>6, <1>7, <1>8, <1>9, <1>10
     DEF Next, Host, SummaryArrives, SummaryGivenUp

\* Every checkpoint that a graceful stop, a failed completion or the recovery of a
\* dead run (recover_thread) leaves behind passes HarnessCheckpoint::validate, so
\* resume accepts it: each batch is followed at once by one result for each of its
\* calls, what CompletedWork counts is in the transcript, and the plan's cursor is
\* within its steps; for batches of any length and wherever the run is cut.
THEOREM CheckpointsAccepted == Spec => []CheckpointsValid
<1>1. Init => BudgetInv /\ StopInv /\ TranscriptInv
  BY InitialRecord
<1>2. Init => ValidInv
  BY InBatchApart DEF Init, ValidInv
<1>3. ValidInv => CheckpointsValid
  BY DEF ValidInv, CheckpointsValid
<1> QED
  BY <1>1, <1>2, <1>3, BudgetStep, StopStep, TranscriptStep, ValidStep, PTL DEF Spec

-----------------------------------------------------------------------------
(* Guidance. *)

\* The transcript goes on.
Longer(ms, z) ==
  /\ ms \in Transcript /\ z \in Transcript /\ Len(ms) <= Len(z)
  /\ \A i \in 1..Len(ms) : z[i] = ms[i]

\* The lines told while a tool ran are in the transcript of the run, up to `rest'.
Told(ms, g, rest) ==
  /\ ms \in Transcript /\ g.from \in Nat /\ g.from <= Len(ms) /\ g.told \in Nat
  /\ g.told <= Cardinality(GuidanceLines(ms, g.from)) + rest

\* The inductive invariant of GuidanceIsHeard.
GuidanceInv ==
  /\ phase \in {"model", "summary", "done"} => Told(messages, ghost, 0)
  /\ phase \in InBatch => Told(messages, ghost, control.guidance)

LEMMA Lengthen ==
  /\ \A ms \in Transcript : Longer(ms, ms)
  /\ \A ms, x \in Transcript : Longer(ms, ms \o x)
  /\ \A ms, y, z : Longer(ms, y) /\ Longer(y, z) => Longer(ms, z)
<1>1. ASSUME NEW ms \in Transcript PROVE Longer(ms, ms)
  BY Shape DEF Longer
<1>2. ASSUME NEW ms \in Transcript, NEW x \in Transcript PROVE Longer(ms, ms \o x)
  BY Extended DEF Longer
<1>3. ASSUME NEW ms, NEW y, NEW z, Longer(ms, y), Longer(y, z) PROVE Longer(ms, z)
  <2>1. /\ ms \in Transcript /\ y \in Transcript /\ z \in Transcript
        /\ Len(ms) \in Nat /\ Len(y) \in Nat /\ Len(z) \in Nat
    BY <1>3, Shape DEF Longer
  <2> QED
    BY <1>3, <2>1 DEF Longer
<1> QED
  BY <1>1, <1>2, <1>3

Block(ms, i) == {i} \X (1..ms[i].n)
Guiding(ms, f) == {j \in (f + 1)..Len(ms) : ms[j].text = "guidance"}

LEMMA BlockCount ==
  ASSUME NEW i, NEW n \in Nat
  PROVE  IsFiniteSet({i} \X (1..n)) /\ Cardinality({i} \X (1..n)) = n
<1>1. PICK A, B : A = {i} /\ B = 1..n
  OBVIOUS
<1>2. \A b \in Int : IsFiniteSet(1..b) /\ Cardinality(1..b) = IF 1 > b THEN 0 ELSE b - 1 + 1
  BY FS_Interval
<1>3. IsFiniteSet(B) /\ Cardinality(B) = n
  BY <1>1, <1>2
<1>4. IsFiniteSet(A) /\ Cardinality(A) = 1
  BY <1>1, FS_Singleton
<1>5. IsFiniteSet(A \X B) /\ Cardinality(A \X B) = Cardinality(A) * Cardinality(B)
  BY <1>3, <1>4, FS_Product
<1>6. 1 * n = n
  OBVIOUS
<1> QED
  BY <1>1, <1>3, <1>4, <1>5, <1>6

LEMMA InLines ==
  ASSUME NEW ms, NEW f, NEW c
  PROVE  c \in GuidanceLines(ms, f) <=> \E i \in Guiding(ms, f) : c \in Block(ms, i)
BY DEF GuidanceLines, Guiding, Block

LEMMA LinesFinite ==
  ASSUME NEW ms \in Transcript, NEW f \in Nat
  PROVE  IsFiniteSet(GuidanceLines(ms, f)) /\ Cardinality(GuidanceLines(ms, f)) \in Nat
<1>1. PICK S, T : S = Guiding(ms, f) /\ T = {Block(ms, i) : i \in S}
  OBVIOUS
<1>2. Len(ms) \in Nat /\ DOMAIN ms = 1..Len(ms)
  BY Shape
<1>3. \A a, b \in Int : IsFiniteSet(a..b)
  BY FS_Interval
<1>4. PICK I : I = (f + 1)..Len(ms)
  OBVIOUS
<1>5. S \in SUBSET I /\ IsFiniteSet(I)
  BY <1>1, <1>2, <1>3, <1>4 DEF Guiding
<1>6. IsFiniteSet(S)
  BY <1>5, FS_Subset
<1>7. \A i \in S : IsFiniteSet(Block(ms, i))
  <2> TAKE i \in S
  <2>1. i \in 1..Len(ms) /\ ms[i].text = "guidance"
    BY <1>1, <1>2 DEF Guiding
  <2>2. ms[i] \in Message
    BY <1>2, <2>1, Shape
  <2>3. ms[i].n \in Nat
    BY <2>1, <2>2 DEF Message
  <2> QED
    BY <2>3, BlockCount DEF Block
<1>8. IsFiniteSet(T) /\ \A X \in T : IsFiniteSet(X)
  <2>1. PICK h : h = [i \in S |-> Block(ms, i)]
    OBVIOUS
  <2>2. h \in Surjection(S, T)
    BY <1>1, <2>1 DEF Surjection
  <2>3. IsFiniteSet(T)
    BY <1>6, <2>2, FS_Surjection
  <2> QED
    BY <1>1, <1>7, <2>3
<1>9. GuidanceLines(ms, f) = UNION T
  BY <1>1 DEF GuidanceLines, Guiding, Block
<1>10. IsFiniteSet(GuidanceLines(ms, f))
  BY <1>8, <1>9, FS_UNION
<1> QED
  BY <1>10, FS_CardinalityType

LEMMA LinesStay ==
  ASSUME NEW ms, NEW z, Longer(ms, z), NEW f \in Nat
  PROVE  GuidanceLines(ms, f) \subseteq GuidanceLines(z, f)
<1>1. /\ Len(ms) \in Nat /\ Len(z) \in Nat /\ Len(ms) <= Len(z)
      /\ \A i \in 1..Len(ms) : z[i] = ms[i]
  BY Shape DEF Longer
<1>2. \A i \in Guiding(ms, f) : i \in Guiding(z, f) /\ Block(z, i) = Block(ms, i)
  BY <1>1 DEF Guiding, Block
<1> QED
  BY <1>2, InLines

LEMMA ToldMore ==
  ASSUME NEW ms, NEW z, Longer(ms, z), NEW g, NEW rest \in Nat, Told(ms, g, rest)
  PROVE  Told(z, g, rest)
<1>1. /\ ms \in Transcript /\ z \in Transcript /\ g.from \in Nat /\ g.told \in Nat
      /\ Len(ms) \in Nat /\ Len(z) \in Nat /\ Len(ms) <= Len(z) /\ g.from <= Len(ms)
  BY Shape DEF Longer, Told
<1>2. PICK S, T : S = GuidanceLines(ms, g.from) /\ T = GuidanceLines(z, g.from)
  OBVIOUS
<1>3. IsFiniteSet(T) /\ Cardinality(S) \in Nat /\ Cardinality(T) \in Nat
  BY <1>1, <1>2, LinesFinite
<1>4. S \in SUBSET T
  BY <1>1, <1>2, LinesStay
<1>5. Cardinality(S) <= Cardinality(T)
  BY <1>3, <1>4, FS_Subset
<1>6. g.told <= Cardinality(S) + rest
  BY <1>2 DEF Told
<1>7. g.told <= Cardinality(T) + rest
  BY <1>1, <1>3, <1>5, <1>6
<1> QED
  BY <1>1, <1>2, <1>7 DEF Told

\* append_controls settles what was left.
LEMMA ToldAll ==
  ASSUME NEW ms, NEW g, NEW n \in Nat, Told(ms, g, n),
         NEW m, m = [role |-> "user", n |-> n, text |-> "guidance"],
         NEW z, z = ms \o <<m>>
  PROVE  Told(z, g, 0)
<1>1. /\ ms \in Transcript /\ g.from \in Nat /\ g.told \in Nat
      /\ Len(ms) \in Nat /\ g.from <= Len(ms)
  BY Shape DEF Told
<1>2. m \in Message /\ m.n = n /\ m.text = "guidance"
  BY Messages
<1>3. PICK x : x = <<m>>
  OBVIOUS
<1>4. x \in Transcript /\ Len(x) = 1 /\ x[1] = m
  BY <1>1, <1>2, <1>3, OneMore
<1>5. PICK e \in Nat : e = Len(ms) + 1
  BY <1>1
<1>6. /\ z \in Transcript /\ Len(z) = e /\ Longer(ms, z)
      /\ \A i \in 1..Len(x) : z[Len(ms) + i] = x[i]
  <2>1. z = ms \o x
    BY <1>3
  <2>2. z \in Transcript /\ Len(z) = e /\ \A i \in 1..Len(x) : z[Len(ms) + i] = x[i]
    <3>1. /\ ms \o x \in Transcript /\ Len(ms \o x) = Len(ms) + Len(x)
          /\ \A i \in 1..Len(x) : (ms \o x)[Len(ms) + i] = x[i]
      BY <1>1, <1>4, Extended
    <3> QED
      BY <1>4, <1>5, <2>1, <3>1
  <2>3. Longer(ms, z)
    BY <1>1, <1>4, <2>1, Lengthen
  <2> QED
    BY <2>2, <2>3
<1>7. z[e] = m
  BY <1>4, <1>5, <1>6
<1>8. PICK S, T, B : /\ S = GuidanceLines(ms, g.from) /\ T = GuidanceLines(z, g.from)
                     /\ B = {e} \X (1..n)
  OBVIOUS
<1>9. IsFiniteSet(S) /\ Cardinality(S) \in Nat /\ IsFiniteSet(T) /\ Cardinality(T) \in Nat
  BY <1>1, <1>6, <1>8, LinesFinite
<1>10. IsFiniteSet(B) /\ Cardinality(B) = n
  BY <1>8, BlockCount
<1>11. B \subseteq T
  <2>1. e \in Guiding(z, g.from)
    BY <1>1, <1>2, <1>5, <1>6, <1>7 DEF Guiding
  <2>2. Block(z, e) = B
    BY <1>2, <1>7, <1>8 DEF Block
  <2> QED
    BY <1>8, <2>1, <2>2, InLines
<1>12. S \subseteq T
  BY <1>1, <1>6, <1>8, LinesStay
<1>13. S \cap B = {}
  <2>1. \A i \in Guiding(ms, g.from) : i # e
    BY <1>1, <1>5 DEF Guiding
  <2>2. \A i \in Guiding(ms, g.from) : Block(ms, i) \cap B = {}
    BY <1>8, <2>1 DEF Block
  <2> QED
    BY <1>8, <2>2, InLines
<1>14. Cardinality(S \cup B) = Cardinality(S) + n
  BY <1>9, <1>10, <1>13, DisjointCount
<1>15. S \cup B \in SUBSET T
  BY <1>11, <1>12
<1>16. Cardinality(S \cup B) <= Cardinality(T)
  BY <1>9, <1>15, FS_Subset
<1>17. g.told <= Cardinality(S) + n
  BY <1>8 DEF Told
<1>18. g.told <= Cardinality(T) + 0 /\ g.from <= Len(z)
  BY <1>1, <1>5, <1>6, <1>9, <1>14, <1>16, <1>17
<1> QED
  BY <1>1, <1>6, <1>8, <1>18 DEF Told

LEMMA ToldControls ==
  ASSUME NEW ms, NEW g, control.guidance \in Nat, Told(ms, g, control.guidance)
  PROVE  Told(ms \o ControlMessages, g, 0)
<1>1. PICK n \in Nat : n = control.guidance
  OBVIOUS
<1>2. PICK m : m = [role |-> "user", n |-> n, text |-> "guidance"]
  OBVIOUS
<1>3. PICK x, y : /\ x = IF n > 0 THEN <<m>> ELSE <<>>
                  /\ y = IF control.stop THEN <<User>> ELSE <<>>
  OBVIOUS
<1>4. ControlMessages = x \o y
  BY <1>1, <1>2, <1>3 DEF ControlMessages
<1>5. ms \in Transcript /\ x \in Transcript /\ y \in Transcript
  <2>1. m \in Message /\ m.role # "tool" /\ User \in Message /\ User.role # "tool"
    BY <1>2, Messages DEF User
  <2>2. <<m>> \in Transcript /\ <<User>> \in Transcript /\ <<>> \in Transcript
    BY <2>1, HarmlessParts
  <2> QED
    BY <1>3, <2>2 DEF Told
<1>6. Told(ms \o x, g, 0)
  <2>1. CASE n > 0
    BY <1>1, <1>2, <1>3, <2>1, ToldAll
  <2>2. CASE ~(n > 0)
    <3>1. n = 0 /\ x = <<>>
      BY <1>3, <2>2
    <3>2. ms \o x = ms
      BY <1>5, <3>1 DEF Transcript
    <3> QED
      BY <1>1, <3>1, <3>2
  <2> QED
    BY <2>1, <2>2
<1>7. Longer(ms \o x, (ms \o x) \o y)
  BY <1>5, Extended, Lengthen
<1>8. Told((ms \o x) \o y, g, 0)
  BY <1>6, <1>7, ToldMore
<1>9. (ms \o x) \o y = ms \o (x \o y)
  BY <1>5, ConcatAssociative DEF Transcript
<1> QED
  BY <1>4, <1>8, <1>9

SameTold == ghost'.from = ghost.from /\ ghost'.told = ghost.told

LEMMA CutHeard ==
  ASSUME phase' \in {"cut", "idle"}
  PROVE  GuidanceInv'
BY InBatchApart DEF GuidanceInv

LEMMA OutsideHeard ==
  ASSUME phase' \in {"model", "summary", "done"}, SameTold, Told(messages', ghost, 0)
  PROVE  GuidanceInv'
<1>1. phase' \notin InBatch
  BY InBatchApart
<1>2. Told(messages', ghost', 0)
  BY DEF SameTold, Told
<1> QED
  BY <1>1, <1>2 DEF GuidanceInv

LEMMA InsideHeard ==
  ASSUME phase' \in InBatch, SameTold, Told(messages', ghost, control.guidance),
         control' = control
  PROVE  GuidanceInv'
<1>1. phase' \notin {"model", "summary", "done"}
  BY InBatchApart
<1>2. Told(messages', ghost', control'.guidance)
  BY DEF SameTold, Told
<1> QED
  BY <1>1, <1>2 DEF GuidanceInv

LEMMA LoopHeard ==
  ASSUME NEW ms, NEW p, Loop(ms, p), Told(ms, ghost, 0)
  PROVE  GuidanceInv'
<1>1. CASE Cut(0)
  BY <1>1, CutHeard DEF Cut
<1>2. CASE Save(ms, work, p, "model")
  <2>1. phase' = "model" /\ ghost' = ghost /\ messages' = ms
    BY <1>2 DEF Save, Loop, SaveOrFail
  <2> QED
    BY <2>1, OutsideHeard DEF SameTold
<1> QED
  BY <1>1, <1>2 DEF Loop, SaveOrFail

LEMMA SummaryHeard ==
  ASSUME NEW ms, NEW p, NEW s, AskSummary(ms, p, s), Told(ms, ghost, 0)
  PROVE  GuidanceInv'
BY OutsideHeard DEF AskSummary, SameTold

LEMMA FinishHeard ==
  ASSUME Forms, NEW ms, NEW p, NEW s, Finish(ms, p, s), Told(ms, ghost, 0)
  PROVE  GuidanceInv'
<1>1. CASE Cut(0)
  BY <1>1, CutHeard DEF Cut
<1>2. CASE phase' = "done" /\ ghost' = [ghost EXCEPT !.stopped = s]
  <2>1. SameTold /\ messages' = ms
    BY <1>2 DEF Forms, IsPast, Finish, SameTold
  <2> QED
    BY <1>2, <2>1, OutsideHeard
<1> QED
  BY <1>1, <1>2 DEF Finish

LEMMA StartHeard ==
  ASSUME NEW ms \in Transcript, NEW w, NEW p, NEW g, IsPast(g), Start(ms, w, p, g)
  PROVE  GuidanceInv'
<1>1. CASE phase' = "cut"
  BY <1>1, CutHeard
<1>2. CASE phase' = "model"
  <2>1. /\ messages' = ms
        /\ ghost' = [g EXCEPT !.asked = control.stop, !.late = 0, !.stopped = FALSE,
                              !.told = 0, !.queued = 0, !.from = Len(ms)]
    BY DEF Start
  <2>2. ghost'.told = 0 /\ ghost'.from = Len(ms)
    BY <2>1 DEF IsPast
  <2>3. Len(ms) \in Nat /\ Cardinality(GuidanceLines(ms, Len(ms))) \in Nat
    BY Shape, LinesFinite
  <2>4. 0 <= Cardinality(GuidanceLines(ms, Len(ms))) + 0 /\ Len(ms) <= Len(ms)
    BY <2>3
  <2>5. Told(messages', ghost', 0)
    BY <2>1, <2>2, <2>3, <2>4 DEF Told
  <2>6. phase' \notin InBatch
    BY <1>2, InBatchApart
  <2> QED
    BY <2>5, <2>6 DEF GuidanceInv
<1> QED
  BY <1>1, <1>2 DEF Start

LEMMA Lengthenings ==
  /\ \A ms \in Transcript : \A m \in {User, Said} : Longer(ms, Append(ms, m))
  /\ \A ms \in Transcript : \A p : Longer(ms, ms \o OpenPlanPrompt(p))
  /\ \A ms, x : ms \in Transcript /\ Talk(x) => Longer(ms, ms \o x)
<1>1. \A ms, x : ms \in Transcript /\ Talk(x) => Longer(ms, ms \o x)
  BY Lengthen DEF Talk
<1>2. \A ms \in Transcript : \A p : Longer(ms, ms \o OpenPlanPrompt(p))
  BY <1>1, Talks
<1>3. ASSUME NEW ms \in Transcript, NEW m \in {User, Said} PROVE Longer(ms, Append(ms, m))
  BY <1>1, Talks, Messages, OneMore
<1> QED
  BY <1>1, <1>2, <1>3

LEMMA TurnHeard ==
  ASSUME GuidanceInv, TranscriptInv, Forms, NEW turn \in Turns, ModelTurn(turn)
  PROVE  GuidanceInv'
<1>0. phase = "model"
  BY DEF ModelTurn, TurnStops, TurnGuided, TurnEmpty, TurnEmptyAgain, TurnOpenPlan,
         TurnNeedsPlan, TurnAnswers, TurnCeiling, TurnTools, Unguided, Says
<1>1. Told(messages, ghost, 0) /\ messages \in Transcript /\ control.guidance \in Nat
  BY <1>0 DEF GuidanceInv, Told, TranscriptInv
<1>2. PICK h : h = Heard(turn)
  OBVIOUS
<1>3. Longer(messages, h)
  <2>1. PICK y : y = messages \o <<Assistant(TextOf(turn), 0)>>
    OBVIOUS
  <2>2. Longer(messages, y) /\ y \in Transcript
    BY <1>1, <2>1, Lengthenings, Talks DEF Longer
  <2>3. Longer(y, y \o ControlMessages)
    BY <1>1, <2>2, Lengthenings, ControlTalk
  <2>4. h = y \o ControlMessages
    BY <1>2, <2>1 DEF Heard
  <2> QED
    BY <2>2, <2>3, <2>4, Lengthen
<1>4. h \in Transcript
  BY <1>3 DEF Longer
<1>5. ASSUME NEW z, Longer(messages, z)
      PROVE  /\ Told(z, ghost, 0) /\ \A p : Told(z \o OpenPlanPrompt(p), ghost, 0)
             /\ \A m \in {User, Said} : Longer(messages, Append(z, m))
  <2>1. z \in Transcript
    BY <1>5 DEF Longer
  <2>2. Told(z, ghost, 0)
    BY <1>1, <1>5, ToldMore
  <2>3. ASSUME NEW p PROVE Told(z \o OpenPlanPrompt(p), ghost, 0)
    <3>1. Longer(z, z \o OpenPlanPrompt(p))
      BY <2>1, Lengthenings
    <3> QED
      BY <2>2, <3>1, ToldMore
  <2>4. ASSUME NEW m \in {User, Said} PROVE Longer(messages, Append(z, m))
    BY <1>5, <2>1, Lengthenings, Lengthen
  <2> QED
    BY <2>2, <2>3, <2>4
<1>6. PICK g, e : g = Append(h, User) /\ e = Append(h, Said)
  OBVIOUS
<1>7. Longer(messages, g) /\ Longer(messages, e)
  BY <1>3, <1>5, <1>6
<1>8. /\ Told(h, ghost, 0) /\ Told(g, ghost, 0) /\ Told(e, ghost, 0)
      /\ \A p : Told(h \o OpenPlanPrompt(p), ghost, 0) /\ Told(g \o OpenPlanPrompt(p), ghost, 0)
  BY <1>3, <1>5, <1>7
<1>9. CASE TurnStops(turn)
  BY <1>2, <1>8, <1>9, SummaryHeard DEF TurnStops
<1>10. CASE TurnGuided(turn)
  <2>1. \E p : Loop(h \o OpenPlanPrompt(p), p)
    BY <1>2, <1>10 DEF TurnGuided
  <2> QED
    BY <1>8, <2>1, LoopHeard
<1>11. CASE TurnEmpty(turn)
  BY <1>2, <1>6, <1>8, <1>11, LoopHeard DEF TurnEmpty
<1>12. CASE TurnEmptyAgain(turn)
  BY <1>2, <1>6, <1>8, <1>12, FinishHeard DEF TurnEmptyAgain
<1>13. CASE TurnOpenPlan(turn)
  <2>1. (\E p : AskSummary(g, p, FALSE)) \/ (\E p : Loop(h \o OpenPlanPrompt(p), p))
    BY <1>2, <1>6, <1>13 DEF TurnOpenPlan
  <2> QED
    BY <1>8, <2>1, LoopHeard, SummaryHeard
<1>14. CASE TurnNeedsPlan(turn)
  BY <1>2, <1>6, <1>8, <1>14, LoopHeard DEF TurnNeedsPlan
<1>15. CASE TurnAnswers(turn)
  BY <1>2, <1>8, <1>15, FinishHeard DEF TurnAnswers
<1>16. CASE TurnCeiling(turn)
  <2>1. PICK x, ms : x = <<Said, User>> /\ ms = messages \o x
    OBVIOUS
  <2>2. \E p : AskSummary(ms, p, FALSE)
    BY <1>16, <2>1 DEF TurnCeiling
  <2>3. x = <<Said>> \o <<User>>
    BY <2>1
  <2>4. Talk(x)
    BY <2>3, Talks, TalkParts
  <2>5. Longer(messages, ms)
    BY <1>1, <2>1, <2>4, Lengthenings
  <2> QED
    BY <1>5, <2>2, <2>5, SummaryHeard
<1>17. CASE TurnTools(turn)
  <2>1. PICK m : m = Assistant("text", Len(turn.calls))
    OBVIOUS
  <2>2. /\ messages' = Append(messages, m) /\ control' = control
        /\ (phase' = "next" /\ ghost' = ghost) \/ Cut(0)
    BY <1>17, <2>1 DEF TurnTools, SaveOrFail, Save
  <2>3. m \in Message
    BY <1>17, <2>1, TurnCalls, Messages DEF TurnTools
  <2>4. Longer(messages, messages')
    <3>1. Append(messages, m) = messages \o <<m>> /\ <<m>> \in Transcript
      BY <1>1, <2>3, OneMore
    <3> QED
      BY <1>1, <2>2, <3>1, Lengthen
  <2>5. Told(messages, ghost, control.guidance)
    <3>1. Cardinality(GuidanceLines(messages, ghost.from)) \in Nat /\ ghost.told \in Nat
      BY <1>1, LinesFinite DEF Told
    <3> QED
      BY <1>1, <3>1 DEF Told
  <2>6. Told(messages', ghost, control.guidance)
    BY <1>1, <2>4, <2>5, ToldMore
  <2> QED
    BY <2>2, <2>6, InsideHeard, CutHeard DEF Cut, SameTold, InBatch
<1> QED
  BY <1>9, <1>10, <1>11, <1>12, <1>13, <1>14, <1>15, <1>16, <1>17 DEF ModelTurn

LEMMA ErrorHeard ==
  ASSUME GuidanceInv, Forms, JournalTick \/ \E partial \in Partial : CompletionError(partial)
  PROVE  GuidanceInv'
<1>1. phase = "model" /\ Told(messages, ghost, 0) /\ messages \in Transcript
  BY DEF JournalTick, CompletionError, GuidanceInv, Told
<1>2. ASSUME NEW partial \in Partial, CompletionError(partial) PROVE GuidanceInv'
  <2>1. CASE control.stop
    <3>1. PICK y, z : y = messages \o partial /\ z = y \o <<Said>>
      OBVIOUS
    <3>2. Finish(z, plan, TRUE)
      BY <1>2, <2>1, <3>1 DEF CompletionError
    <3>3. Longer(messages, y) /\ y \in Transcript
      BY <1>1, <3>1, Lengthenings, Talks DEF Longer
    <3>4. Longer(y, z)
      BY <3>1, <3>3, Lengthenings, Talks
    <3>5. Told(z, ghost, 0)
      BY <1>1, <3>3, <3>4, Lengthen, ToldMore
    <3> QED
      BY <3>2, <3>5, FinishHeard
  <2>2. CASE ~control.stop
    BY <1>2, <2>2, CutHeard DEF CompletionError, Cut
  <2> QED
    BY <2>1, <2>2
<1>3. CASE JournalTick
  <2>1. (phase' = phase /\ ghost' = ghost /\ messages' = messages) \/ Cut(0)
    BY <1>3 DEF JournalTick, loop
  <2> QED
    BY <1>1, <2>1, CutHeard, OutsideHeard DEF Cut, SameTold
<1> QED
  BY <1>2, <1>3

LEMMA SkippedMessages ==
  ASSUME TranscriptInv, phase = "boundary"
  PROVE  SkippedRest \in Transcript
<1>1. PICK a, n : a = batch.at /\ n = Len(batch.calls)
  OBVIOUS
<1>2. n \in Nat /\ a \in 1..n
  BY <1>1, BatchFacts DEF BatchOk, InBatch
<1>3. PICK r \in Nat : r = n - a
  BY <1>2
<1>4. SkippedRest = [k \in 1..r |-> ToolResult(a + k, "skipped")]
  BY <1>1, <1>3 DEF SkippedRest
<1>5. \A k \in 1..r : ToolResult(a + k, "skipped") \in Message
  BY <1>2, Messages
<1>6. SkippedRest \in [1..r -> Message]
  BY <1>4, <1>5
<1> QED
  BY <1>6, SeqDef DEF Transcript

LEMMA ToolsHeard ==
  ASSUME GuidanceInv, TranscriptInv, Forms, StopInv, Tools
  PROVE  GuidanceInv'
<1>0. phase \in InBatch
  BY DEF Tools, Dispatch, ToolReturns, SkipOverBudget, NextCall, EndBatch, ControlBatch, InBatch
<1>1. /\ Told(messages, ghost, control.guidance) /\ messages \in Transcript
      /\ control.guidance \in Nat
  BY <1>0 DEF GuidanceInv, Told, TranscriptInv
<1>2. CASE Dispatch
  <2>1. phase' = "tool" /\ messages' = messages /\ control' = control
    BY <1>2 DEF Dispatch
  <2>2. SameTold
    <3>1. \E t, a, l : ghost' = Dispatched(ghost, t, a, l)
      BY <1>2 DEF Dispatch, Dispatched
    <3> QED
      BY <3>1 DEF Dispatched, Forms, IsPast, SameTold
  <2> QED
    BY <1>1, <2>1, <2>2, InsideHeard DEF InBatch
<1>3. ASSUME NEW text \in {"result", "skipped"}, NEW w, NEW made,
             SaveResult(ToolResult(batch.at, text), w, made)
      PROVE  GuidanceInv'
  <2>1. PICK m : m = ToolResult(batch.at, text)
    OBVIOUS
  <2>2. /\ messages' = Append(messages, m) /\ control' = control
        /\ (phase' = "boundary" /\ ghost' = ghost) \/ \E l : Cut(l)
    BY <1>3, <2>1 DEF SaveResult, Save
  <2>3. m \in Message
    <3>1. BatchOk(phase, messages, batch, ghost.started)
      BY <1>0, BatchFacts
    <3>2. batch.at \in Nat
      BY <3>1 DEF BatchOk
    <3> QED
      BY <2>1, <3>2, Messages
  <2>4. Longer(messages, messages')
    <3>1. Append(messages, m) = messages \o <<m>> /\ <<m>> \in Transcript
      BY <1>1, <2>3, OneMore
    <3> QED
      BY <1>1, <2>2, <3>1, Lengthen
  <2>5. Told(messages', ghost, control.guidance)
    BY <1>1, <2>4, ToldMore
  <2> QED
    BY <2>2, <2>5, InsideHeard, CutHeard DEF Cut, SameTold, InBatch
<1>4. CASE (\E success \in BOOLEAN : ToolReturns(success)) \/ SkipOverBudget
  BY <1>3, <1>4 DEF ToolReturns, SkipOverBudget
<1>5. CASE NextCall
  <2>1. phase' = "next" /\ UNCHANGED <<messages, ghost, control>>
    BY <1>5 DEF NextCall
  <2> QED
    BY <1>1, <2>1, InsideHeard DEF InBatch, SameTold
<1>6. CASE EndBatch
  <2>1. control.guidance = 0 /\ \E p : Loop(messages \o OpenPlanPrompt(p), p)
    BY <1>6 DEF EndBatch, Quiet
  <2>2. Told(messages, ghost, 0)
    BY <1>1, <2>1
  <2>3. \A p : Told(messages \o OpenPlanPrompt(p), ghost, 0)
    BY <1>1, <2>2, Lengthenings, ToldMore
  <2> QED
    BY <2>1, <2>3, LoopHeard
<1>7. CASE ControlBatch
  <2>1. PICK y, ms : y = messages \o SkippedRest /\ ms = y \o ControlMessages
    OBVIOUS
  <2>2. /\ phase = "boundary"
        /\ (\E p : AskSummary(ms, p, TRUE)) \/ (\E p : Loop(ms \o OpenPlanPrompt(p), p))
    BY <1>7, <2>1 DEF ControlBatch
  <2>3. Longer(messages, y)
    <3>1. SkippedRest \in Transcript
      BY <2>2, SkippedMessages
    <3> QED
      BY <1>1, <2>1, <3>1, Lengthen
  <2>4. Told(y, ghost, control.guidance)
    BY <1>1, <2>3, ToldMore
  <2>5. Told(ms, ghost, 0)
    BY <1>1, <2>1, <2>4, ToldControls
  <2>6. \A p : Told(ms \o OpenPlanPrompt(p), ghost, 0)
    BY <2>5, Lengthenings, ToldMore DEF Told
  <2> QED
    BY <2>2, <2>5, <2>6, LoopHeard, SummaryHeard
<1> QED
  BY <1>2, <1>4, <1>5, <1>6, <1>7 DEF Tools

LEMMA GuidanceStep ==
  BudgetInv /\ StopInv /\ TranscriptInv /\ GuidanceInv /\ [Next]_vars => GuidanceInv'
<1> SUFFICES ASSUME BudgetInv, StopInv, TranscriptInv, GuidanceInv, [Next]_vars
             PROVE  GuidanceInv'
  OBVIOUS
<1>0. Forms
  BY DEF BudgetInv
<1>1. CASE Run
  <2>1. <<System, User>> \in Transcript
    BY FirstFit DEF Fit, Complete, Proper
  <2> QED
    BY <1>1, <2>1, Constants, StartHeard DEF Run
<1>2. CASE Resume
  <2>1. PICK c, y, ms : /\ c = checkpoint /\ y = Append(c.messages, User)
                        /\ ms = y \o OpenPlanPrompt(c.plan)
    OBVIOUS
  <2>2. checkpoint # NoCheckpoint /\ Start(ms, c.work, c.plan, c.past)
    BY <1>2, <2>1 DEF Resume
  <2>3. c.messages \in Transcript /\ IsPast(c.past)
    BY <1>0, <2>1, <2>2 DEF TranscriptInv, Forms
  <2>4. y \in Transcript
    BY <2>1, <2>3, Lengthenings DEF Longer
  <2>5. ms \in Transcript
    BY <2>1, <2>4, Lengthenings DEF Longer
  <2> QED
    BY <2>2, <2>3, <2>5, StartHeard
<1>3. CASE Repair
  <2>1. phase = "done" /\ Start(Append(messages, User), work, plan, ghost)
    BY <1>3 DEF Repair
  <2>2. messages \in Transcript
    BY <2>1 DEF GuidanceInv, Told
  <2>3. Append(messages, User) \in Transcript
    BY <2>2, Lengthenings DEF Longer
  <2> QED
    BY <1>0, <2>1, <2>3, StartHeard DEF Forms
<1>4. CASE Answer
  BY <1>0, <1>4, TurnHeard DEF Answer
<1>5. CASE JournalTick \/ Stopped \/ \E partial \in Partial : ProviderFails(partial)
  BY <1>0, <1>5, ErrorHeard DEF Stopped, ProviderFails, StopWakes, StopDeadline
<1>6. CASE Tools
  BY <1>0, <1>6, ToolsHeard
<1>7. CASE SummaryEnds
  <2>1. phase = "summary" /\ Finish(Append(messages, Said), plan, StoppedAtLast)
    BY <1>7 DEF SummaryEnds
  <2>2. Told(messages, ghost, 0) /\ messages \in Transcript
    BY <2>1 DEF GuidanceInv, Told
  <2>3. Told(Append(messages, Said), ghost, 0)
    BY <2>2, Lengthenings, ToldMore
  <2> QED
    BY <1>0, <2>1, <2>3, FinishHeard
<1>8. CASE RequestStop
  <2>1. UNCHANGED <<phase, messages>> /\ control'.guidance = control.guidance
    BY <1>8 DEF RequestStop, loop, StopInv
  <2>2. SameTold
    BY <1>0, <1>8 DEF RequestStop, Forms, IsPast, SameTold
  <2> QED
    BY <2>1, <2>2 DEF GuidanceInv, Told, SameTold
<1>9. CASE QueueGuidance
  <2>1. PICK d \in {0, 1} : d = IF phase = "tool" THEN 1 ELSE 0
    OBVIOUS
  <2>2. /\ UNCHANGED <<phase, messages>> /\ control'.guidance = control.guidance + 1
        /\ phase \in Awaiting
    BY <1>9 DEF QueueGuidance, loop, StopInv
  <2>3. ghost'.from = ghost.from /\ ghost'.told = ghost.told + d
    BY <1>0, <1>9, <2>1 DEF QueueGuidance, Forms, IsPast
  <2>4. CASE phase = "tool"
    <3>1. d = 1 /\ phase \in InBatch /\ phase \notin {"model", "summary", "done"}
      BY <2>1, <2>4 DEF InBatch
    <3>2. Told(messages, ghost, control.guidance) /\ control.guidance \in Nat
      BY <3>1 DEF GuidanceInv, TranscriptInv
    <3>3. Cardinality(GuidanceLines(messages, ghost.from)) \in Nat /\ ghost.told \in Nat
      BY <3>2, LinesFinite DEF Told
    <3>4. Told(messages, ghost', control.guidance + 1)
      BY <2>3, <3>1, <3>2, <3>3 DEF Told
    <3> QED
      BY <2>2, <3>1, <3>4 DEF GuidanceInv
  <2>5. CASE phase \in {"model", "summary"}
    <3>1. SameTold
      <4>1. d = 0
        BY <2>1, <2>5
      <4>2. ghost.told \in Nat
        BY <2>5 DEF GuidanceInv, Told
      <4> QED
        BY <2>3, <4>1, <4>2 DEF SameTold
    <3> QED
      BY <2>2, <2>5, <3>1, OutsideHeard DEF GuidanceInv
  <2> QED
    BY <2>2, <2>4, <2>5, Constants
<1>10. CASE Interrupt \/ Crash \/ Recover
  BY <1>10, CutHeard DEF Interrupt, Crash, Cut, Recover
<1>11. CASE UNCHANGED vars
  BY <1>11 DEF vars, loop, GuidanceInv
<1> QED
  BY <1>1, <1>2, <1>3, <1>4, <1>5, <1>6, <1>7, <1>8, <1>9, <1>10, <1>11
     DEF Next, Host, SummaryArrives, SummaryGivenUp

\* Guidance queued while a tool ran is in the transcript before the model is asked
\* again and when the run ends (append_controls at the tool boundary), even if a
\* stop came with it; for any number of lines, calls and runs.
THEOREM GuidanceIsHeard == Spec => []GuidanceHeard
<1>1. Init => GuidanceInv
  BY InBatchApart DEF Init, GuidanceInv
<1>2. GuidanceInv => GuidanceHeard
  <2> SUFFICES ASSUME Told(messages, ghost, 0)
               PROVE  ghost.told <= Cardinality(GuidanceLines(messages, ghost.from))
    BY DEF GuidanceInv, GuidanceHeard
  <2>1. Cardinality(GuidanceLines(messages, ghost.from)) \in Nat
    BY LinesFinite DEF Told
  <2> QED
    BY <2>1 DEF Told
<1> QED
  BY <1>1, <1>2, InitialRecord, BudgetStep, StopStep, TranscriptStep, GuidanceStep, PTL DEF Spec

=============================================================================
