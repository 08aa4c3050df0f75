----------------------------- MODULE HostProofs -----------------------------
(***************************************************************************)
(* Proofs about the host around the conversation: temporary subagents, the *)
(* session in which terminal, web interface and chat loop meet, the first  *)
(* conversation, the file and web tools, the requests to the model and the *)
(* ingestion of documents.                                                 *)
(***************************************************************************)
EXTENDS Subagents, Session, HostTools, Provider, Ingest, NumberLemmas, FiniteSetTheorems, TLAPS

-----------------------------------------------------------------------------
(* Subagents. *)
(* For any number of children, errors and interruptions: no child and no   *)
(* final report is lost, and a settled thread stays settled.  Neither is   *)
(* inductive.  That check_results drops only what it has delivered rests on*)
(* the abort: a listed child is never told to abort, so a listed one that  *)
(* is over has pushed its final report; and what holds the lock of its     *)
(* reports keeps that report where it is.                                  *)

ChildState == {"none", "running", "stopping", "succeeded", "failed", "pushed",
               "finished", "aborted"}
JournalState == {"none", "open", "persisted", "recovered"}
Settled == {"persisted", "recovered"}
ReportsTool == [op : {"reports"}, left : SUBSET AgentId, holds : AgentId \cup {0},
                complete : SUBSET AgentId]
CancelTool == [op : {"cancel"}, left : SUBSET AgentId, on : AgentId \cup {0}]

AgentsTyped ==
  /\ counter \in 0..MaxAgents
  /\ jobs \subseteq AgentId
  /\ child \in [AgentId -> ChildState]
  /\ aborting \subseteq AgentId
  /\ reports \in [AgentId -> SUBSET {"news", "final"}]
  /\ journal \in [AgentId -> JournalState]
  /\ tool \in {Idle} \cup ReportsTool \cup CancelTool

\* An id that was not handed out has no child, no job and nothing to abort.
Numbered ==
  \A a \in AgentId : a > counter => child[a] = "none" /\ a \notin jobs \cup aborting

\* A listed child was not told to abort, and only those that were are aborted.
ListedLive ==
  /\ jobs \cap aborting = {}
  /\ \A a \in AgentId : child[a] = "aborted" => a \in aborting

\* Once pushed the final report waits, or the parent has it.
FinalKept ==
  \A a \in AgentId : child[a] \in {"pushed", "finished"} =>
    "final" \in reports[a] \/ a \in delivered

\* check_results goes through listed jobs and marks as complete the finished ones
\* whose final report it has shown.
ReportsSound ==
  tool.op = "reports" =>
    /\ tool.left \subseteq jobs
    /\ tool.holds # 0 => tool.holds \in tool.left
    /\ tool.complete \subseteq delivered
    /\ \A a \in tool.complete : child[a] = "finished"

\* cancel_agent goes through jobs that it has taken off the list.
CancelSound ==
  tool.op = "cancel" =>
    /\ tool.left \cap jobs = {}
    /\ \A a \in tool.left : a <= counter
    /\ tool.on # 0 => tool.on \in tool.left

\* A thread is settled only after its run.
SettledAfterRun ==
  \A a \in AgentId : journal[a] \in Settled =>
    child[a] \in {"succeeded", "failed", "pushed", "finished", "aborted"}

AgentsInv ==
  /\ AgentsTyped /\ Numbered /\ ListedLive /\ FinalKept
  /\ ReportsSound /\ CancelSound /\ SettledAfterRun
  /\ ChildrenAccounted

-----------------------------------------------------------------------------
(* The children. *)

RanOut == {"succeeded", "failed", "pushed", "finished", "aborted"}

\* What a step of one child or of its event task may do: it grows the reports,
\* never wakes a child that is over, ends one only as it should, and settles its
\* thread only when the run is over.
ChildStep(a) ==
  /\ UNCHANGED <<counter, jobs, aborting, tool, delivered, retired, broken>>
  /\ child' \in [AgentId -> ChildState]
  /\ reports' \in [AgentId -> SUBSET {"news", "final"}]
  /\ journal' \in [AgentId -> JournalState]
  /\ \A b \in AgentId : /\ b # a => child'[b] = child[b] /\ journal'[b] = journal[b]
                        /\ reports[b] \subseteq reports'[b]
  /\ child[a] \in {"none", "finished"} => child'[a] = child[a]
  /\ child'[a] \in {"running", "stopping"} => child[a] \in {"running", "stopping"}
  /\ child'[a] = "aborted" => a \in aborting
  /\ child'[a] \in {"pushed", "finished"} => "final" \in reports'[a] \/ a \in delivered
  /\ journal'[a] \in Settled => child'[a] \in RanOut
  /\ journal[a] \in Settled => journal'[a] = journal[a]

\* Such a step keeps the invariant.
LEMMA ChildStepKeeps ==
  ASSUME AgentsInv, NEW a \in AgentId, ChildStep(a)
  PROVE  AgentsInv'
<1>1. AgentsTyped'
  BY DEF AgentsInv, AgentsTyped, ChildStep, AgentId, ReportsTool, CancelTool, Idle
<1>2. Numbered'
  BY DEF AgentsInv, Numbered, ChildStep
<1>3. ListedLive'
  BY DEF AgentsInv, ListedLive, ChildStep
<1>4. FinalKept'
  BY DEF AgentsInv, FinalKept, ChildStep
<1>5. ReportsSound'
  <2>1. tool' = tool /\ jobs' = jobs /\ delivered' = delivered
    BY DEF ChildStep
  <2>2. \A b \in AgentId : child[b] = "finished" => child'[b] = "finished"
    BY DEF ChildStep
  <2>3. tool.op = "reports" => tool.complete \subseteq AgentId
    BY DEF AgentsInv, AgentsTyped, ReportsTool, CancelTool, Idle
  <2> QED BY <2>1, <2>2, <2>3 DEF AgentsInv, ReportsSound
<1>6. CancelSound'
  BY DEF AgentsInv, CancelSound, ChildStep
<1>7. SettledAfterRun'
  BY DEF AgentsInv, SettledAfterRun, ChildStep, RanOut
<1>8. ChildrenAccounted'
  BY DEF AgentsInv, ChildrenAccounted, Working, ChildStep
<1> QED BY <1>1, <1>2, <1>3, <1>4, <1>5, <1>6, <1>7, <1>8 DEF AgentsInv

\* The steps of a child and of its event task are such steps.
LEMMA ChildSteps ==
  ASSUME AgentsInv, NEW a \in AgentId,
         \/ Boundary(a) \/ CheckIn(a) \/ ReportProgress(a) \/ WatcherEnds(a)
         \/ RunOver(a) \/ PushFinal(a) \/ ChildEnds(a)
  PROVE  ChildStep(a)
<1> USE DEF AgentsInv, AgentsTyped, ChildStep, Push, manager, history, Working
<1>1. CASE Boundary(a)
  BY <1>1 DEF Boundary, JournalState, Settled, SettledAfterRun
<1>2. CASE CheckIn(a)
  BY <1>2 DEF CheckIn, ChildState, JournalState, Settled, SettledAfterRun
<1>3. CASE ReportProgress(a)
  BY <1>3 DEF ReportProgress, Settled, SettledAfterRun, RanOut, FinalKept, ListedLive
<1>4. CASE WatcherEnds(a)
  BY <1>4 DEF WatcherEnds, Settled, SettledAfterRun, RanOut, FinalKept, ListedLive
<1>5. CASE RunOver(a)
  BY <1>5 DEF RunOver, ChildState, JournalState, Settled, SettledAfterRun, RanOut
<1>6. CASE PushFinal(a)
  BY <1>6 DEF PushFinal, ChildState, Settled, SettledAfterRun, RanOut
<1>7. CASE ChildEnds(a)
  BY <1>7 DEF ChildEnds, ChildState, Settled, SettledAfterRun, RanOut, FinalKept
<1> QED BY <1>1, <1>2, <1>3, <1>4, <1>5, <1>6, <1>7

-----------------------------------------------------------------------------
(* The parent's tools. *)

\* The operation under way tells which record `tool' is.
LEMMA ToolKinds ==
  ASSUME AgentsInv
  PROVE  /\ tool.op = "reports" => tool \in ReportsTool
         /\ tool.op = "cancel" => tool \in CancelTool
BY DEF AgentsInv, AgentsTyped, ReportsTool, CancelTool, Idle

\* delegate keeps the invariant: the id is new.
LEMMA SpawnKeeps ==
  ASSUME AgentsInv, Spawn
  PROVE  AgentsInv'
<1> DEFINE a == counter + 1
<1>1. a \in AgentId /\ counter' = a /\ tool = Idle /\ tool' = tool /\ a > counter
      /\ UNCHANGED <<aborting, delivered, retired, broken>>
  BY DEF Spawn, history, AgentsInv, AgentsTyped
<1>2. \/ /\ jobs' = jobs \cup {a}
         /\ child' = [child EXCEPT ![a] = "running"]
         /\ journal' = [journal EXCEPT ![a] = "open"]
         /\ reports' = [reports EXCEPT ![a] = @ \cup {"news"}]
      \/ UNCHANGED <<jobs, child, journal, reports>>
  BY DEF Spawn, Push
<1>3. child[a] = "none" /\ a \notin jobs /\ a \notin aborting
  BY <1>1 DEF AgentsInv, Numbered
<1>4. tool.op = "idle"
  BY <1>1 DEF Idle
<1>5. \A b \in AgentId : b > a => b > counter
  BY DEF AgentId, AgentsInv, AgentsTyped
<1> HIDE DEF a
<1>6. AgentsTyped'
  <2>1. counter' \in 0..MaxAgents
    BY <1>1, AgentsAssumption DEF AgentId
  <2>2. child' \in [AgentId -> ChildState] /\ journal' \in [AgentId -> JournalState]
    BY <1>1, <1>2 DEF AgentsInv, AgentsTyped, ChildState, JournalState
  <2>3. reports' \in [AgentId -> SUBSET {"news", "final"}] /\ jobs' \subseteq AgentId
    BY <1>1, <1>2 DEF AgentsInv, AgentsTyped
  <2> QED BY <1>1, <2>1, <2>2, <2>3 DEF AgentsInv, AgentsTyped
<1>7. Numbered'
  <2> SUFFICES ASSUME NEW b \in AgentId, b > a
               PROVE  child'[b] = "none" /\ b \notin jobs' /\ b \notin aborting'
    BY <1>1 DEF Numbered
  <2>1. child[b] = "none" /\ b \notin jobs /\ b \notin aborting
    BY <1>5 DEF AgentsInv, Numbered
  <2>2. b # a
    BY <1>1 DEF AgentId
  <2> QED BY <1>1, <1>2, <2>1, <2>2 DEF AgentsInv, AgentsTyped
<1>8. ListedLive' /\ FinalKept'
  BY <1>1, <1>2, <1>3 DEF AgentsInv, AgentsTyped, ListedLive, FinalKept
<1>9. ReportsSound' /\ CancelSound'
  BY <1>1, <1>4 DEF ReportsSound, CancelSound
<1>10. SettledAfterRun'
  BY <1>1, <1>2, <1>3 DEF AgentsInv, AgentsTyped, SettledAfterRun, Settled
<1>11. ChildrenAccounted'
  BY <1>1, <1>2, <1>4 DEF AgentsInv, AgentsTyped, ChildrenAccounted, Working
<1> QED BY <1>6, <1>7, <1>8, <1>9, <1>10, <1>11 DEF AgentsInv

\* check_results keeps the invariant.
LEMMA ReportsKeep ==
  ASSUME AgentsInv,
         \/ BeginReports \/ EndReports
         \/ \E a \in AgentId : DrainReports(a) \/ CheckFinished(a)
  PROVE  AgentsInv'
<1> USE DEF manager, history
<1>1. CASE BeginReports
  <2>1. /\ tool' = [op |-> "reports", left |-> jobs, holds |-> 0, complete |-> {}]
        /\ tool.op = "idle"
        /\ UNCHANGED <<counter, jobs, child, aborting, reports, journal, delivered, retired, broken>>
    BY <1>1 DEF BeginReports, Idle
  <2>2. AgentsTyped'
    BY <2>1 DEF AgentsInv, AgentsTyped, ReportsTool
  <2>3. ReportsSound' /\ CancelSound'
    BY <2>1 DEF ReportsSound, CancelSound
  <2>4. Numbered' /\ ListedLive' /\ FinalKept' /\ SettledAfterRun'
    BY <2>1 DEF AgentsInv, Numbered, ListedLive, FinalKept, SettledAfterRun
  <2>5. ChildrenAccounted'
    BY <2>1 DEF AgentsInv, ChildrenAccounted, Working
  <2> QED BY <2>2, <2>3, <2>4, <2>5 DEF AgentsInv
<1>2. ASSUME NEW a \in AgentId, DrainReports(a)  PROVE  AgentsInv'
  <2>1. /\ tool.op = "reports" /\ a \in tool.left /\ tool \in ReportsTool
        /\ tool' = [tool EXCEPT !.holds = a]
        /\ delivered' = IF "final" \in reports[a] THEN delivered \cup {a} ELSE delivered
        /\ reports' = [reports EXCEPT ![a] = {}]
        /\ UNCHANGED <<counter, jobs, child, aborting, journal, retired, broken>>
    BY <1>2 DEF DrainReports, AgentsInv, AgentsTyped, ReportsTool, CancelTool, Idle
  <2>2. tool' \in ReportsTool /\ tool'.op = "reports" /\ tool'.holds = a
        /\ tool'.left = tool.left /\ tool'.complete = tool.complete
    BY <2>1 DEF ReportsTool
  <2>3. AgentsTyped'
    BY <2>1, <2>2 DEF AgentsInv, AgentsTyped
  <2>4. ReportsSound' /\ CancelSound'
    BY <2>1, <2>2 DEF AgentsInv, ReportsSound, CancelSound
  <2>5. FinalKept'
    BY <2>1 DEF AgentsInv, AgentsTyped, FinalKept
  <2>6. Numbered' /\ ListedLive' /\ SettledAfterRun'
    BY <2>1 DEF AgentsInv, Numbered, ListedLive, SettledAfterRun
  <2>7. ChildrenAccounted'
    BY <2>1, <2>2 DEF AgentsInv, ChildrenAccounted, Working
  <2> QED BY <2>3, <2>4, <2>5, <2>6, <2>7 DEF AgentsInv
<1>3. ASSUME NEW a \in AgentId, CheckFinished(a)  PROVE  AgentsInv'
  <2>1. /\ tool.op = "reports" /\ tool.holds = a /\ tool \in ReportsTool
        /\ tool' = [tool EXCEPT !.holds = 0, !.left = @ \ {a},
                                !.complete = IF IsComplete(a) THEN @ \cup {a} ELSE @]
        /\ UNCHANGED <<counter, jobs, child, aborting, reports, journal, delivered, retired, broken>>
    BY <1>3, ToolKinds DEF CheckFinished, Held
  <2>2. tool' \in ReportsTool /\ tool'.op = "reports" /\ tool'.holds = 0
        /\ tool'.left = tool.left \ {a}
        /\ tool'.complete = IF IsComplete(a) THEN tool.complete \cup {a} ELSE tool.complete
    BY <2>1 DEF ReportsTool
  <2>3. a \in jobs
    BY <2>1 DEF AgentsInv, ReportsSound, AgentId
  <2>4. IsComplete(a) => child[a] = "finished" /\ a \in delivered
    BY <2>3 DEF IsComplete, AgentsInv, ListedLive, FinalKept
  <2>5. AgentsTyped'
    BY <2>1, <2>2 DEF AgentsInv, AgentsTyped
  <2>6. ReportsSound' /\ CancelSound'
    BY <2>1, <2>2, <2>4 DEF AgentsInv, ReportsSound, CancelSound
  <2>7. Numbered' /\ ListedLive' /\ FinalKept' /\ SettledAfterRun'
    BY <2>1 DEF AgentsInv, Numbered, ListedLive, FinalKept, SettledAfterRun
  <2>8. ChildrenAccounted'
    BY <2>1, <2>2 DEF AgentsInv, ChildrenAccounted, Working
  <2> QED BY <2>5, <2>6, <2>7, <2>8 DEF AgentsInv
<1>4. CASE EndReports
  <2>1. /\ tool.op = "reports" /\ tool' = Idle
        /\ jobs' = jobs \ tool.complete /\ retired' = retired \cup tool.complete
        /\ UNCHANGED <<counter, child, aborting, reports, journal, delivered, broken>>
    BY <1>4 DEF EndReports
  <2>2. tool'.op = "idle"
    BY <2>1 DEF Idle
  <2>3. AgentsTyped'
    BY <2>1 DEF AgentsInv, AgentsTyped
  <2>4. ReportsSound' /\ CancelSound'
    BY <2>2 DEF ReportsSound, CancelSound
  <2>5. Numbered' /\ ListedLive' /\ FinalKept' /\ SettledAfterRun'
    BY <2>1 DEF AgentsInv, Numbered, ListedLive, FinalKept, SettledAfterRun
  <2>6. ChildrenAccounted'
    BY <2>1 DEF AgentsInv, ChildrenAccounted, ReportsSound, Working
  <2> QED BY <2>3, <2>4, <2>5, <2>6 DEF AgentsInv
<1> QED BY <1>1, <1>2, <1>3, <1>4

\* cancel_agent, cut short or not, keeps the invariant.
LEMMA CancelKeeps ==
  ASSUME AgentsInv, TakeJobs \/ AbortNext \/ SettleThread \/ InterruptCancel
  PROVE  AgentsInv'
<1> USE DEF manager, history
<1>1. CASE TakeJobs
  <2>1. PICK S \in SUBSET jobs :
          /\ tool = Idle /\ jobs' = jobs \ S
          /\ tool' = [op |-> "cancel", left |-> S, on |-> 0]
          /\ UNCHANGED <<counter, child, aborting, reports, journal, delivered, retired, broken>>
    BY <1>1 DEF TakeJobs
  <2>2. tool' \in CancelTool /\ tool'.op = "cancel" /\ tool'.left = S /\ tool'.on = 0
    BY <2>1 DEF CancelTool, AgentsInv, AgentsTyped
  <2>3. tool.op = "idle"
    BY <2>1 DEF Idle
  <2>4. AgentsTyped'
    BY <2>1, <2>2 DEF AgentsInv, AgentsTyped
  <2>5. Numbered' /\ ListedLive' /\ FinalKept' /\ SettledAfterRun'
    BY <2>1 DEF AgentsInv, Numbered, ListedLive, FinalKept, SettledAfterRun
  <2>6. \A a \in S : a <= counter
    BY DEF AgentsInv, AgentsTyped, Numbered, AgentId
  <2>7. ReportsSound' /\ CancelSound'
    BY <2>1, <2>2, <2>6 DEF ReportsSound, CancelSound
  <2>8. ChildrenAccounted'
    BY <2>1, <2>2, <2>3 DEF AgentsInv, ChildrenAccounted, Working
  <2> QED BY <2>4, <2>5, <2>7, <2>8 DEF AgentsInv
<1>2. CASE AbortNext
  <2>1. tool \in CancelTool /\ tool.left # {} /\ tool.left \subseteq AgentId
    BY <1>2 DEF AbortNext, AgentsInv, AgentsTyped, ReportsTool, CancelTool, Idle
  <2>2. PICK a \in tool.left : aborting' = aborting \cup {a} /\ tool' = [tool EXCEPT !.on = a]
    <3>1. PICK m \in tool.left : \A b \in tool.left : m <= b
      <4>1. tool.left \in SUBSET Nat
        BY <2>1 DEF AgentId
      <4> QED BY <2>1, <4>1, LeastNatural
    <3> QED BY <1>2, <3>1 DEF AbortNext
  <2>3. UNCHANGED <<counter, jobs, child, reports, journal, delivered, retired, broken>>
    BY <1>2 DEF AbortNext
  <2>4. tool' \in CancelTool /\ tool'.op = "cancel" /\ tool'.left = tool.left /\ tool'.on = a
        /\ tool.op = "cancel"
    BY <2>1, <2>2 DEF CancelTool
  <2>5. AgentsTyped'
    BY <2>1, <2>2, <2>3, <2>4 DEF AgentsInv, AgentsTyped
  <2>6. a <= counter /\ a \notin jobs /\ counter \in Nat /\ a \in AgentId
    BY <2>1, <2>4 DEF AgentsInv, AgentsTyped, CancelSound
  <2>7. Numbered'
    BY <2>2, <2>3, <2>6 DEF AgentsInv, Numbered, AgentId
  <2>8. ListedLive' /\ FinalKept' /\ SettledAfterRun'
    BY <2>2, <2>3, <2>6 DEF AgentsInv, ListedLive, FinalKept, SettledAfterRun
  <2>9. ReportsSound' /\ CancelSound'
    BY <2>2, <2>3, <2>4 DEF AgentsInv, ReportsSound, CancelSound
  <2>10. ChildrenAccounted'
    BY <2>3, <2>4 DEF AgentsInv, ChildrenAccounted, Working
  <2> QED BY <2>5, <2>7, <2>8, <2>9, <2>10 DEF AgentsInv
<1>3. CASE SettleThread \/ InterruptCancel
  <2> DEFINE a == tool.on
  <2>1. tool \in CancelTool /\ tool.op = "cancel" /\ a \in AgentId /\ a \in tool.left
    BY <1>3 DEF SettleThread, InterruptCancel, AgentsInv, AgentsTyped, CancelSound,
                ReportsTool, CancelTool, Idle
  <2>2. UNCHANGED <<counter, jobs, child, aborting, reports, delivered, retired>>
    BY <1>3 DEF SettleThread, InterruptCancel
  <2>3. \/ /\ Awaited(a) /\ broken' = broken
           /\ journal' = [journal EXCEPT ![a] = IF @ = "open" THEN "recovered" ELSE @]
           /\ tool' = IF tool.left = {a} THEN Idle
                      ELSE [tool EXCEPT !.left = @ \ {a}, !.on = 0]
        \/ /\ journal' = journal /\ tool' = Idle /\ broken' = broken \cup tool.left
    BY <1>3 DEF SettleThread, InterruptCancel
  <2> HIDE DEF a
  <2>4. \/ /\ tool' = Idle /\ tool'.op = "idle"
           /\ tool.left = {a} \/ broken' = broken \cup tool.left
        \/ /\ tool' \in CancelTool /\ tool'.op = "cancel" /\ tool'.on = 0
           /\ tool'.left = tool.left \ {a}
    <3>1. Idle.op = "idle"
      BY DEF Idle
    <3>2. CASE tool' = [tool EXCEPT !.left = @ \ {a}, !.on = 0]
      BY <2>1, <3>2 DEF CancelTool
    <3> QED BY <2>3, <3>1, <3>2
  <2>5. AgentsTyped'
    BY <2>1, <2>2, <2>3, <2>4 DEF AgentsInv, AgentsTyped, JournalState
  <2>6. Numbered' /\ ListedLive' /\ FinalKept'
    BY <2>2 DEF AgentsInv, Numbered, ListedLive, FinalKept
  <2>7. SettledAfterRun'
    BY <2>1, <2>2, <2>3 DEF AgentsInv, AgentsTyped, SettledAfterRun, Settled, Awaited
  <2>8. ReportsSound' /\ CancelSound'
    BY <2>1, <2>2, <2>4 DEF AgentsInv, ReportsSound, CancelSound
  <2>9. ChildrenAccounted'
    <3>1. \A b \in AgentId : Working(b) => b \in jobs \cup broken \/ b \in tool.left
      BY DEF AgentsInv, ChildrenAccounted
    <3>2. Awaited(a) => ~Working(a)
      BY DEF Working, Awaited
    <3>3. \A b \in AgentId : Working(b) =>
            b \in jobs' \cup broken' \/ (tool'.op = "cancel" /\ b \in tool'.left)
      <4> SUFFICES ASSUME NEW b \in AgentId, Working(b), b \notin jobs \cup broken,
                          b \in tool.left
                   PROVE  b \in broken' \/ (tool'.op = "cancel" /\ b \in tool'.left)
        BY <2>2, <2>3, <3>1
      <4>1. CASE Awaited(a) /\ b # a
        BY <2>4, <4>1
      <4>2. CASE ~Awaited(a) \/ b = a
        BY <2>3, <3>2, <4>2
      <4> QED BY <4>1, <4>2
    <3> QED BY <2>2, <3>3 DEF AgentsInv, ChildrenAccounted, Working
  <2> QED BY <2>5, <2>6, <2>7, <2>8, <2>9 DEF AgentsInv
<1> QED BY <1>1, <1>2, <1>3

-----------------------------------------------------------------------------

\* Every step keeps the invariant.
LEMMA AgentsInvHolds == AgentsSpec => []AgentsInv
<1>1. AgentsInit => AgentsInv
  BY AgentsAssumption
     DEF AgentsInit, AgentsInv, AgentsTyped, Numbered, ListedLive, FinalKept, ReportsSound,
         CancelSound, SettledAfterRun, ChildrenAccounted, Working, ChildState, JournalState,
         Settled, Idle, AgentId
<1>2. AgentsInv /\ [AgentsNext]_agentVars => AgentsInv'
  <2> SUFFICES ASSUME AgentsInv, [AgentsNext]_agentVars  PROVE  AgentsInv'
    OBVIOUS
  <2>1. CASE AgentsNext
    BY <2>1, SpawnKeeps, ReportsKeep, CancelKeeps, ChildSteps, ChildStepKeeps DEF AgentsNext
  <2>2. CASE UNCHANGED agentVars
    BY <2>2 DEF agentVars, manager, history, AgentsInv, AgentsTyped, Numbered, ListedLive,
                FinalKept, ReportsSound, CancelSound, SettledAfterRun, ChildrenAccounted, Working
  <2> QED BY <2>1, <2>2
<1> QED BY <1>1, <1>2, PTL DEF AgentsSpec

\* What check_results drops has delivered its final report, and a child that runs
\* is listed, or in the hands of a cancellation, or that one was cut short.
THEOREM NoChildForgotten == AgentsSpec => []ChildrenAccounted
<1>1. AgentsInv => ChildrenAccounted
  BY DEF AgentsInv
<1> QED BY <1>1, AgentsInvHolds, PTL

\* After recover_thread or persist nothing writes to the thread again: cancel
\* settles a thread only when the task it aborted is over, and a task that is
\* over does not start again.
THEOREM ThreadsSettleOnce == AgentsSpec => SettledForGood
<1> DEFINE Stays == \A a \in AgentId : journal[a] \in {"persisted", "recovered"} => journal'[a] = journal[a]
<1>1. AgentsInv /\ [AgentsNext]_agentVars => [Stays]_agentVars
  <2> SUFFICES ASSUME AgentsInv, AgentsNext  PROVE  Stays
    OBVIOUS
  <2>1. CASE Spawn
    <3>1. counter + 1 \in AgentId /\ journal[counter + 1] \notin Settled
      BY <2>1 DEF Spawn, AgentsInv, AgentsTyped, Numbered, SettledAfterRun
    <3> QED BY <2>1, <3>1 DEF Spawn, AgentsInv, AgentsTyped, Settled
  <2>2. CASE SettleThread
    BY <2>2 DEF SettleThread, AgentsInv, AgentsTyped
  <2>3. ASSUME NEW a \in AgentId, ChildStep(a)  PROVE  Stays
    BY <2>3 DEF ChildStep, Settled
  <2>4. CASE BeginReports \/ EndReports \/ TakeJobs \/ AbortNext \/ InterruptCancel
    BY <2>4 DEF BeginReports, EndReports, TakeJobs, AbortNext, InterruptCancel
  <2>5. ASSUME NEW a \in AgentId, DrainReports(a) \/ CheckFinished(a)  PROVE  Stays
    BY <2>5 DEF DrainReports, CheckFinished
  <2> HIDE DEF Stays
  <2> QED BY <2>1, <2>2, <2>3, <2>4, <2>5, ChildSteps DEF AgentsNext
<1> QED BY <1>1, AgentsInvHolds, PTL DEF AgentsSpec, SettledForGood

-----------------------------------------------------------------------------
(* The session. *)
(* For any number of clients, lines and launches: at the prompt nobody is  *)
(* left unheard.  That the snapshot is not busy for nothing is inductive   *)
(* once it is said of every place from which the loop reaches the prompt   *)
(* without clearing it, and of lines on their way as well as queued ones;  *)
(* that a /quit ended the session needs to know which flag remembers it    *)
(* at each stage of a turn.                                                *)

Snapshot == [busy : BOOLEAN, checkpoint : BOOLEAN]

SessionTypes ==
  /\ lines \in Seq(Line)
  /\ framer \in Line \cup {"empty"}
  /\ api \in [Client -> Posted \cup {"idle", "marking"}]
  /\ web \in Snapshot
  /\ checkpoint \in BOOLEAN

\* A line the loop will not pass over, in the queue or on its way to it.
LineToCome(ls, posts) ==
  (\E i \in DOMAIN ls : ls[i] # "blank") \/ (\E c \in Client : posts[c] # "idle")

\* Where the loop neither runs a turn nor talks to the user for the first time:
\* the snapshot is busy only for a line that is still to come.
BusyForSomeone ==
  loop \in {"start", "ready", "failed", "prompt"} /\ web.busy => LineToCome(lines, api)

\* Where a /quit that a run took is remembered until the turn ends.
QuitRemembered ==
  CASE loop = "run"    -> heard \subseteq {"run"} /\ (heard # {} => quitting)
    [] loop = "failed" -> heard # {} => quitting
    [] loop = "repair" -> /\ heard \subseteq {"run", "repair"}
                          /\ "run" \in heard => quit_after
                          /\ "repair" \in heard => quitting
    [] loop = "verify" -> heard \subseteq {"run"} /\ (heard # {} => quit_after)
    [] loop = "save"   -> heard # {} => quit_after
    [] loop = "closed" -> TRUE
    [] OTHER           -> heard = {}

SessionInv == SessionTypes /\ BusyForSomeone /\ QuitRemembered

LEMMA Snapshots ==
  ASSUME web \in Snapshot
  PROVE  /\ \A b, a \in BOOLEAN : Shown(b, a) \in Snapshot /\ Shown(b, a).busy = b
         /\ \A b \in BOOLEAN : Busy(b) \in Snapshot /\ Busy(b).busy = b
         /\ \A a \in BOOLEAN : /\ SetCheckpointAvailable(a) \in Snapshot
                               /\ SetCheckpointAvailable(a).busy = web.busy
BY DEF Snapshot, Shown, Busy, SetCheckpointAvailable

\* The queue grows at its end and shrinks at its head.
LEMMA Queued ==
  ASSUME NEW ls \in Seq(Line), NEW x \in Line
  PROVE  /\ Append(ls, x) \in Seq(Line)
         /\ \A i \in DOMAIN ls : i \in DOMAIN Append(ls, x) /\ Append(ls, x)[i] = ls[i]
         /\ \E i \in DOMAIN Append(ls, x) : Append(ls, x)[i] = x
<1>1. Append(ls, x) \in Seq(Line) /\ DOMAIN Append(ls, x) = 1..(Len(ls) + 1)
  OBVIOUS
<1>2. Len(ls) \in Nat /\ DOMAIN ls = 1..Len(ls)
  OBVIOUS
<1>3. Append(ls, x)[Len(ls) + 1] = x /\ \A i \in 1..Len(ls) : Append(ls, x)[i] = ls[i]
  OBVIOUS
<1> QED
  BY <1>1, <1>2, <1>3

LEMMA Dequeued ==
  ASSUME NEW ls \in Seq(Line), ls # <<>>
  PROVE  /\ Tail(ls) \in Seq(Line) /\ Head(ls) \in Line
         /\ Head(ls) = "blank" /\ (\E i \in DOMAIN ls : ls[i] # "blank")
              => \E i \in DOMAIN Tail(ls) : Tail(ls)[i] # "blank"
<1>1. Tail(ls) \in Seq(Line) /\ Head(ls) \in Line
  OBVIOUS
<1>2. ASSUME Head(ls) = "blank", NEW i \in DOMAIN ls, ls[i] # "blank"
      PROVE  \E k \in DOMAIN Tail(ls) : Tail(ls)[k] # "blank"
  <2>1. i \in 2..Len(ls)
    BY <1>2
  <2>2. i - 1 \in DOMAIN Tail(ls) /\ Tail(ls)[i - 1] = ls[i]
    BY <2>1
  <2> QED
    BY <1>2, <2>2
<1> QED
  BY <1>1, <1>2

\* More in the queue, nothing taken from the posts.
LEMMA LineStillToCome ==
  ASSUME NEW ls \in Seq(Line), NEW x \in Line, NEW posts, LineToCome(ls, posts)
  PROVE  LineToCome(Append(ls, x), posts)
BY Queued DEF LineToCome
\* What the loop remembers stays true while the loop does not move.
LEMMA QuitKept ==
  ASSUME QuitRemembered, UNCHANGED <<loop, quitting, quit_after, heard>>
  PROVE  QuitRemembered'
BY DEF QuitRemembered

\* A step that leaves nobody waiting, or goes where the snapshot may be busy.
LEMMA NobodyWaits ==
  ASSUME ~web'.busy \/ loop' \notin {"start", "ready", "failed", "prompt"}
  PROVE  BusyForSomeone'
BY DEF BusyForSomeone

LEMMA TerminalSafe ==
  ASSUME SessionInv, (\E line \in Line : TypeLine(line)) \/ BurstEnds
  PROVE  SessionInv'
<1> USE DEF SessionInv
<1>1. /\ UNCHANGED <<api, web, loop, checkpoint, quitting, quit_after, heard>>
      /\ framer' \in Line \cup {"empty"}
  BY DEF SessionTypes, TypeLine, BurstEnds, turn, Join, Line, Command
<1>2. \/ lines' = lines
      \/ \E x \in Line : lines' = Append(lines, x)
      \/ \E x, y \in Line : lines' = Append(Append(lines, x), y)
  <2>1. CASE BurstEnds
    BY <2>1 DEF SessionTypes, BurstEnds
  <2>2. ASSUME NEW line \in Line, TypeLine(line), line # "error" PROVE lines' = lines
    BY <2>2 DEF TypeLine
  <2>3. ASSUME NEW line \in Line, TypeLine(line), line = "error"
        PROVE  \/ \E x \in Line : lines' = Append(lines, x)
               \/ \E x, y \in Line : lines' = Append(Append(lines, x), y)
    <3>1. \A ls \in Seq(Line) : ls \o <<"error">> = Append(ls, "error")
      OBVIOUS
    <3>2. "error" \in Line
      BY DEF Line
    <3>3. CASE framer = "empty"
      BY <2>3, <3>1, <3>2, <3>3 DEF TypeLine, SessionTypes
    <3>4. CASE framer # "empty"
      <4>1. framer \in Line /\ lines \in Seq(Line)
        BY <3>4 DEF SessionTypes
      <4>2. lines' = Append(lines, framer) \o <<"error">>
        BY <2>3, <3>4 DEF TypeLine
      <4> QED
        BY <3>1, <3>2, <4>1, <4>2, Queued
    <3> QED
      BY <3>3, <3>4
  <2> QED
    BY <2>1, <2>2, <2>3
<1>3. /\ lines' \in Seq(Line)
      /\ LineToCome(lines, api) => LineToCome(lines', api)
  <2>1. lines \in Seq(Line)
    BY DEF SessionTypes
  <2>2. \A ls \in Seq(Line), x \in Line : Append(ls, x) \in Seq(Line)
    OBVIOUS
  <2>3. \A ls \in Seq(Line), x \in Line : LineToCome(ls, api) => LineToCome(Append(ls, x), api)
    BY LineStillToCome
  <2> QED
    BY <1>2, <2>1, <2>2, <2>3, Zenon
<1>5. SessionTypes'
  BY <1>1, <1>3 DEF SessionTypes
<1>6. BusyForSomeone'
  BY <1>1, <1>3 DEF BusyForSomeone
<1> QED
  BY <1>1, <1>5, <1>6, QuitKept

LEMMA WebSafe ==
  ASSUME SessionInv,
         NEW c \in Client,
         \/ \E line \in Posted : ApiMessage(c, line) \/ ApiGuidance(c, line) \/ ApiControl(c, line)
         \/ ApiMarks(c) \/ ApiSends(c)
  PROVE  SessionInv'
<1> USE DEF SessionInv
<1>1. UNCHANGED <<framer, loop, checkpoint, quitting, quit_after, heard>>
  BY DEF ApiMessage, ApiGuidance, ApiControl, ApiMarks, ApiSends, Handle, turn
<1>2. web' \in Snapshot
  BY Snapshots
     DEF ApiMessage, ApiGuidance, ApiControl, ApiMarks, ApiSends, SessionTypes
<1>3. /\ api' \in [Client -> Posted \cup {"idle", "marking"}]
      /\ lines' \in Seq(Line)
      /\ LineToCome(lines', api')
  <2>1. CASE \E line \in Posted : Handle(c, line) \/ Handle(c, "marking")
    <3>1. PICK x \in Posted \cup {"marking"} : api' = [api EXCEPT ![c] = x] /\ lines' = lines
      BY <2>1 DEF Handle
    <3>2. x # "idle"
      BY DEF Posted, Command
    <3>3. api'[c] # "idle"
      BY <3>1, <3>2 DEF SessionTypes
    <3> QED
      BY <3>1, <3>3 DEF SessionTypes, LineToCome
  <2>2. CASE ApiMarks(c)
    <3>1. api' = [api EXCEPT ![c] = "/resume"] /\ lines' = lines
      BY <2>2 DEF ApiMarks
    <3>2. "/resume" \in Posted
      BY DEF Posted, Command
    <3>3. api'[c] # "idle"
      BY <3>1 DEF SessionTypes
    <3> QED
      BY <3>1, <3>2, <3>3 DEF SessionTypes, LineToCome
  <2>3. CASE ApiSends(c)
    <3>1. api' = [api EXCEPT ![c] = "idle"] /\ lines' = Append(lines, api[c]) /\ api[c] \in Line
      BY <2>3 DEF ApiSends
    <3>2. api[c] # "blank" /\ lines \in Seq(Line)
      BY DEF SessionTypes, Posted, Command
    <3>3. \E i \in DOMAIN lines' : lines'[i] # "blank"
      BY <3>1, <3>2, Queued
    <3> QED
      BY <3>1, <3>2, <3>3, Queued DEF SessionTypes, LineToCome
  <2> QED
    BY <2>1, <2>2, <2>3 DEF ApiMessage, ApiGuidance, ApiControl
<1>4. SessionTypes'
  BY <1>1, <1>2, <1>3 DEF SessionTypes
<1>5. BusyForSomeone'
  BY <1>3 DEF BusyForSomeone
<1> QED
  BY <1>1, <1>4, <1>5, QuitKept
\* The queue, the terminal and the handlers after a step of the loop.
LEMMA LoopTypes ==
  ASSUME SessionInv, UNCHANGED <<framer, api>>,
         lines' = lines \/ (lines # <<>> /\ lines' = Tail(lines)),
         web' \in Snapshot, checkpoint' \in BOOLEAN
  PROVE  SessionTypes'
BY Dequeued DEF SessionInv, SessionTypes

LEMMA FirstTalkSafe ==
  ASSUME SessionInv,
         \/ Launch \/ Greet \/ ModelUnavailable \/ Close \/ Ask \/ TakeAnswer \/ Ready
         \/ \E first, second \in ModelReply : ModelAnswers(first, second)
  PROVE  SessionInv'
<1>0. /\ SessionTypes /\ BusyForSomeone /\ QuitRemembered
      /\ web \in Snapshot /\ checkpoint \in BOOLEAN
  BY DEF SessionInv, SessionTypes
<1>1. /\ UNCHANGED <<framer, api, quitting, quit_after, heard>>
      /\ lines' = lines \/ (lines # <<>> /\ lines' = Tail(lines))
      /\ loop \in {"start", "greet", "thinking", "closing", "ask", "answer", "ready"}
      /\ loop' \in {"ready", "ask", "greet", "thinking", "closing", "answer", "closed", "prompt"}
  BY DEF Launch, Greet, ModelUnavailable, Close, Ask, TakeAnswer, Ready, ModelAnswers, people, turn
<1>2. web' \in Snapshot /\ checkpoint' \in BOOLEAN
  <2>1. CASE Ready
    BY <1>0, <2>1, Snapshots DEF Ready
  <2>2. CASE ~Ready
    <3>1. checkpoint' = checkpoint
      BY <2>2 DEF Launch, Greet, ModelUnavailable, Close, Ask, TakeAnswer, ModelAnswers
    <3>2. web' = web \/ web' = Busy(TRUE) \/ web' = Busy(FALSE)
      BY <2>2 DEF Launch, Greet, ModelUnavailable, Close, Ask, TakeAnswer, ModelAnswers,
           BeginOnboarding, FinishOnboarding, PauseOnboarding
    <3> QED
      BY <1>0, <3>1, <3>2, Snapshots
  <2> QED
    BY <2>1, <2>2
<1>3. BusyForSomeone'
  <2>1. CASE loop' \notin {"ready", "prompt"}
    BY <1>1, <2>1, NobodyWaits
  <2>2. CASE web' = Busy(FALSE)
    BY <1>0, <2>2, Snapshots, NobodyWaits
  <2>3. CASE /\ loop \in {"start", "ready"} /\ web'.busy = web.busy
             /\ UNCHANGED <<lines, api>>
    BY <1>0, <2>3 DEF BusyForSomeone
  <2>4. CASE Launch
    BY <2>1, <2>2, <2>3, <2>4 DEF Launch, people, FinishOnboarding
  <2>5. CASE Ready
    <3>1. web'.busy = web.busy
      BY <1>0, <2>5, Snapshots DEF Ready
    <3> QED
      BY <2>3, <2>5, <3>1 DEF Ready, people
  <2> QED
    BY <2>1, <2>2, <2>4, <2>5
       DEF Greet, ModelUnavailable, Close, Ask, TakeAnswer, ModelAnswers,
           FinishOnboarding, PauseOnboarding
<1>4. QuitRemembered'
  BY <1>0, <1>1 DEF QuitRemembered
<1> QED
  BY <1>1, <1>2, <1>3, <1>4, LoopTypes DEF SessionInv
LEMMA PromptSafe ==
  ASSUME SessionInv,
         PromptEnds \/ PromptBlank \/ PromptCommand \/ PromptResume \/ PromptTask
  PROVE  SessionInv'
<1>0. /\ SessionTypes /\ BusyForSomeone /\ QuitRemembered
      /\ web \in Snapshot /\ checkpoint \in BOOLEAN /\ lines \in Seq(Line)
  BY DEF SessionInv, SessionTypes
<1>1. /\ UNCHANGED <<framer, api>> /\ lines # <<>> /\ lines' = Tail(lines)
      /\ loop = "prompt" /\ loop' \in {"closed", "prompt", "run", "recall"}
      /\ heard' = heard \/ heard' = {}
  BY DEF PromptEnds, PromptBlank, PromptCommand, PromptResume, PromptTask, people, turn
<1>2. checkpoint' \in BOOLEAN
  BY <1>0 DEF PromptEnds, PromptBlank, PromptCommand, PromptResume, PromptTask
<1>3. web' \in Snapshot
  BY <1>0, <1>2, Snapshots
     DEF PromptEnds, PromptBlank, PromptCommand, PromptResume, PromptTask,
         CommandCompleted, Completed, BeginResume, BeginTurn
<1>4. BusyForSomeone'
  <2>1. CASE loop' # "prompt"
    BY <1>1, <2>1, NobodyWaits
  <2>2. CASE PromptCommand
    <3>1. web' = Shown(FALSE, checkpoint')
      BY <2>2 DEF PromptCommand, CommandCompleted, Completed
    <3> QED
      BY <1>0, <1>2, <3>1, Snapshots, NobodyWaits
  <2>3. CASE PromptBlank
    <3>1. Head(lines) = "blank" /\ UNCHANGED <<web, loop>>
      BY <2>3 DEF PromptBlank
    <3>2. LineToCome(lines, api) => LineToCome(lines', api')
      BY <1>0, <1>1, <3>1, Dequeued DEF LineToCome
    <3> QED
      BY <1>0, <3>1, <3>2 DEF BusyForSomeone
  <2> QED
    BY <2>1, <2>2, <2>3 DEF PromptEnds, PromptResume, PromptTask
<1>5. QuitRemembered'
  BY <1>0, <1>1 DEF QuitRemembered
<1> QED
  BY <1>1, <1>2, <1>3, <1>4, <1>5, LoopTypes DEF SessionInv

LEMMA TurnSafe ==
  ASSUME SessionInv,
         \/ TurnNotSent \/ RunStarts \/ RunTakesLine \/ RunInterrupted \/ InterruptRecovered
         \/ RunFails \/ FailureRecovered \/ RunReturns \/ Verified \/ RepairReturns \/ Saved
  PROVE  SessionInv'
<1>0. /\ SessionTypes /\ BusyForSomeone /\ QuitRemembered
      /\ web \in Snapshot /\ checkpoint \in BOOLEAN
  BY DEF SessionInv, SessionTypes
<1>1. /\ UNCHANGED <<framer, api>>
      /\ lines' = lines \/ (lines # <<>> /\ lines' = Tail(lines))
  BY DEF TurnNotSent, RunStarts, RunTakesLine, RunInterrupted, InterruptRecovered, RunFails,
         FailureRecovered, RunReturns, Verified, RepairReturns, Saved, people
<1>2. checkpoint' \in BOOLEAN
  BY <1>0 DEF TurnNotSent, RunStarts, RunTakesLine, RunInterrupted, InterruptRecovered, RunFails,
         FailureRecovered, RunReturns, Verified, RepairReturns, Saved
<1>3. \/ web' = web /\ loop' \notin {"start", "ready", "failed", "prompt"}
      \/ web' = Busy(FALSE)
      \/ \E a \in BOOLEAN : web' = Shown(FALSE, a)
      \/ FailureRecovered
  BY <1>2 DEF TurnNotSent, RunStarts, RunTakesLine, RunInterrupted, InterruptRecovered, RunFails,
         RunReturns, Verified, RepairReturns, Saved, Failed, Completed, Controlled
<1>4. web' \in Snapshot /\ BusyForSomeone'
  <2>1. CASE FailureRecovered
    <3>1. web' \in Snapshot /\ web'.busy = web.busy
      BY <1>0, <1>2, <2>1, Snapshots DEF FailureRecovered
    <3>2. loop = "failed" /\ UNCHANGED <<lines, api>>
      BY <2>1 DEF FailureRecovered, people
    <3> QED
      BY <1>0, <3>1, <3>2 DEF BusyForSomeone
  <2> QED
    BY <1>0, <1>3, <2>1, Snapshots, NobodyWaits
<1>5. QuitRemembered'
  <2>1. CASE TurnNotSent \/ RunStarts \/ InterruptRecovered
    BY <1>0, <2>1 DEF TurnNotSent, RunStarts, InterruptRecovered, turn, QuitRemembered
  <2>2. CASE RunTakesLine
    BY <1>0, <2>2 DEF RunTakesLine, Controlled, QuitRemembered
  <2>3. CASE RunInterrupted
    BY <1>0, <2>3 DEF RunInterrupted, Controlled, AfterRepair, QuitRemembered
  <2>4. CASE RunFails \/ FailureRecovered
    BY <1>0, <2>4 DEF RunFails, FailureRecovered, turn, QuitRemembered
  <2>5. CASE RunReturns \/ Verified
    BY <1>0, <2>5 DEF RunReturns, Verified, QuitRemembered
  <2>6. CASE RepairReturns \/ Saved
    BY <1>0, <2>6 DEF RepairReturns, Saved, AfterRepair, turn, QuitRemembered
  <2> QED
    BY <2>1, <2>2, <2>3, <2>4, <2>5, <2>6
<1> QED
  BY <1>1, <1>2, <1>4, <1>5, LoopTypes DEF SessionInv

\* What the terminal and the handlers are when the program starts.
LEMMA NothingSaid ==
  /\ <<>> \in Seq(Line)
  /\ [c \in Client |-> "idle"] \in [Client -> Posted \cup {"idle", "marking"}]
OBVIOUS

LEMMA SessionStep == SessionInv /\ [SessionNext]_sessionVars => SessionInv'
<1> SUFFICES ASSUME SessionInv, [SessionNext]_sessionVars PROVE SessionInv'
  OBVIOUS
<1>1. CASE Dies
  <2>1. /\ UNCHANGED <<lines, framer, api, web, checkpoint, quitting, quit_after, heard>>
        /\ loop' = "closed"
    BY <1>1 DEF Dies, people, turn
  <2> QED
    BY <2>1 DEF SessionInv, SessionTypes, BusyForSomeone, QuitRemembered
<1>2. CASE Relaunch
  <2>1. /\ lines' = <<>> /\ framer' = "empty" /\ api' = [c \in Client |-> "idle"]
        /\ web' = Shown(FALSE, FALSE) /\ checkpoint' = FALSE /\ loop' = "start" /\ heard' = {}
    BY <1>2 DEF Relaunch
  <2>2. web' \in Snapshot /\ ~web'.busy
    BY <2>1 DEF Shown, Snapshot
  <2>3. SessionTypes'
    BY <2>1, <2>2, NothingSaid, Zenon DEF SessionTypes
  <2> QED
    BY <2>1, <2>2, <2>3 DEF SessionInv, BusyForSomeone, QuitRemembered
<1>3. CASE UNCHANGED sessionVars
  BY <1>3 DEF sessionVars, SessionInv, SessionTypes, BusyForSomeone, QuitRemembered
<1> QED
  BY <1>1, <1>2, <1>3, TerminalSafe, WebSafe, FirstTalkSafe, PromptSafe, TurnSafe DEF SessionNext

\* At the prompt the snapshot is busy only while a line is still to come, and a
\* /quit that a run or its repair took has ended the session with that turn, for
\* any number of clients, lines and launches (web_server.rs, the loop of main).
THEOREM SessionHearsEverybody == SessionSpec => []NobodyUnheard
<1>1. SessionInit => SessionInv
  <2> SUFFICES ASSUME SessionInit PROVE SessionInv
    OBVIOUS
  <2>1. /\ lines = <<>> /\ framer = "empty" /\ api = [c \in Client |-> "idle"]
        /\ web = Shown(FALSE, FALSE) /\ checkpoint = FALSE /\ loop = "start" /\ heard = {}
    BY DEF SessionInit
  <2>2. web \in Snapshot /\ ~web.busy
    BY <2>1 DEF Shown, Snapshot
  <2>3. SessionTypes
    BY <2>1, <2>2, NothingSaid, Zenon DEF SessionTypes
  <2> QED
    BY <2>1, <2>2, <2>3 DEF SessionInv, BusyForSomeone, QuitRemembered
<1>2. SessionInv => NobodyUnheard
  BY DEF SessionInv, SessionTypes, BusyForSomeone, QuitRemembered, NobodyUnheard, LineToCome
<1> QED
  BY <1>1, <1>2, SessionStep, PTL DEF SessionSpec

-----------------------------------------------------------------------------
(* The first conversation. *)
(* For any number of launches, crashes and answers.  Of the log alone the  *)
(* property is not inductive: what may be recorded depends on where the    *)
(* loop is, and that a question is not joined by another after a restart   *)
(* on whether the transcript ends with one.                                *)

TalkOver == Has("profile") \/ Has("skipped")

TalkPlace ==
  /\ loop \in {"greet", "thinking"} => ~WaitingForAnswer /\ ~TalkOver
  /\ loop \in {"ask", "answer"} => WaitingForAnswer /\ ~TalkOver

\* A question is on record only as long as there is room for its answer.
RoomToAnswer == WaitingForAnswer => Answers < MaximumAnswers

TalkInv == /\ talk \in Seq(OnboardingTag)
           /\ TalkPlace /\ RoomToAnswer /\ FirstTalkSound

\* What is recorded comes last.
LEMMA TalkGrows ==
  ASSUME talk \in Seq(OnboardingTag), NEW tag \in OnboardingTag, Record(tag)
  PROVE  /\ talk' \in Seq(OnboardingTag)
         /\ DOMAIN talk = 1..Len(talk) /\ Len(talk) \in Nat
         /\ DOMAIN talk' = 1..(Len(talk) + 1)
         /\ talk'[Len(talk) + 1] = tag
         /\ \A i \in DOMAIN talk : i \in DOMAIN talk' /\ talk'[i] = talk[i]
         /\ \A i \in DOMAIN talk' : i \in DOMAIN talk \/ i = Len(talk) + 1
BY DEF Record

LEMMA AnswersCounted ==
  ASSUME talk \in Seq(OnboardingTag), NEW tag \in OnboardingTag, Record(tag)
  PROVE  /\ Answers \in Nat
         /\ tag = "answer" => Answers' = Answers + 1
         /\ tag # "answer" => Answers' = Answers
<1> DEFINE S == {i \in DOMAIN talk : talk[i] = "answer"}
           n == Len(talk) + 1
<1>1. IsFiniteSet(S) /\ n \notin S
  <2>1. IsFiniteSet(1..Len(talk)) /\ S \subseteq 1..Len(talk)
    BY FS_Interval
  <2> QED
    BY <2>1, FS_Subset
<1>2. Cardinality(S) \in Nat
  BY <1>1, FS_CardinalityType
<1>3. CASE tag = "answer"
  <2>1. {i \in DOMAIN talk' : talk'[i] = "answer"} = S \cup {n}
    BY <1>3, TalkGrows
  <2>2. Cardinality(S \cup {n}) = Cardinality(S) + 1
    BY <1>1, FS_AddElement
  <2> QED
    BY <1>2, <1>3, <2>1, <2>2 DEF Answers
<1>4. CASE tag # "answer"
  <2>1. {i \in DOMAIN talk' : talk'[i] = "answer"} = S
    BY <1>4, TalkGrows
  <2> QED
    BY <1>2, <1>4, <2>1 DEF Answers
<1> QED
  BY <1>3, <1>4

\* What a tag does to what is read back from the log.
LEMMA RecordedHas ==
  ASSUME talk \in Seq(OnboardingTag), NEW tag \in OnboardingTag, Record(tag), NEW other
  PROVE  Has(other)' <=> Has(other) \/ other = tag
<1>1. PICK n : n = Len(talk) + 1
  OBVIOUS
<1>2. /\ n \in DOMAIN talk' /\ talk'[n] = tag
      /\ \A i \in DOMAIN talk : i \in DOMAIN talk' /\ talk'[i] = talk[i]
      /\ \A i \in DOMAIN talk' : i \in DOMAIN talk \/ i = n
  BY <1>1, TalkGrows
<1> QED
  BY <1>2 DEF Has

LEMMA RecordedWaiting ==
  ASSUME talk \in Seq(OnboardingTag), NEW tag \in OnboardingTag, Record(tag)
  PROVE  /\ tag = "question" => WaitingForAnswer'
         /\ tag = "answer" => ~WaitingForAnswer'
         /\ tag \notin Spoken => (WaitingForAnswer' <=> WaitingForAnswer)
<1>1. PICK n \in Nat : n = Len(talk) + 1
  BY TalkGrows
<1>2. /\ n \in DOMAIN talk' /\ talk'[n] = tag
      /\ \A i \in DOMAIN talk : i \in DOMAIN talk' /\ talk'[i] = talk[i] /\ i < n /\ i \in Nat
      /\ \A i \in DOMAIN talk' : i \in DOMAIN talk \/ i = n
  BY <1>1, TalkGrows
<1>3. CASE tag = "question"
  <2>1. \A j \in DOMAIN talk' : ~(j > n)
    BY <1>2
  <2> QED
    BY <1>2, <1>3, <2>1 DEF WaitingForAnswer, Spoken
<1>4. CASE tag = "answer"
  BY <1>2, <1>4 DEF WaitingForAnswer, Spoken
<1>5. CASE tag \notin Spoken
  <2>1. ASSUME WaitingForAnswer PROVE WaitingForAnswer'
    BY <1>2, <1>5, <2>1 DEF WaitingForAnswer
  <2>2. ASSUME WaitingForAnswer' PROVE WaitingForAnswer
    <3>1. PICK i \in DOMAIN talk' : /\ talk'[i] = "question"
                                    /\ \A j \in DOMAIN talk' : j > i => talk'[j] \notin Spoken
      BY <2>2 DEF WaitingForAnswer
    <3>2. i \in DOMAIN talk
      BY <1>2, <1>5, <3>1 DEF Spoken
    <3> QED
      BY <1>2, <3>1, <3>2 DEF WaitingForAnswer
  <2> QED
    BY <1>5, <2>1, <2>2 DEF Spoken
<1> QED
  BY <1>3, <1>4, <1>5 DEF Spoken

\* When the transcript does not end with a question, an answer follows each one.
LEMMA EachAnswered ==
  ASSUME talk \in Seq(OnboardingTag), ~WaitingForAnswer,
         NEW i \in DOMAIN talk, talk[i] = "question"
  PROVE  \E k \in DOMAIN talk : i < k /\ talk[k] = "answer"
<1> DEFINE S == {k \in DOMAIN talk : talk[k] \in Spoken /\ i <= k}
<1>1. Len(talk) \in Nat /\ DOMAIN talk = 1..Len(talk)
  OBVIOUS
<1>2. S \in SUBSET (0..Len(talk)) /\ i \in S
  BY <1>1 DEF Spoken
<1>3. PICK m \in S : \A k \in S : k <= m
  BY <1>1, <1>2, GreatestBelow
<1>4. \A j \in DOMAIN talk : j > m => talk[j] \notin Spoken
  BY <1>1, <1>2, <1>3
<1>5. talk[m] # "question"
  BY <1>3, <1>4 DEF WaitingForAnswer
<1> QED
  BY <1>1, <1>2, <1>3, <1>5 DEF Spoken

Alternating ==
  /\ \A i, j \in DOMAIN talk :
       i < j /\ talk[i] = talk[j] /\ talk[i] \in Spoken =>
         \E k \in DOMAIN talk : i < k /\ k < j /\ talk[k] \in Spoken \ {talk[i]}
  /\ \A j \in DOMAIN talk : talk[j] = "answer" =>
       \E i \in DOMAIN talk : i < j /\ talk[i] = "question"

ClosedForGood ==
  \A i \in DOMAIN talk : talk[i] \in {"profile", "skipped"} =>
    \A j \in DOMAIN talk : j > i => talk[j] = "closing"

LEMMA AlternatingKept ==
  ASSUME talk \in Seq(OnboardingTag), Alternating, NEW tag \in OnboardingTag, Record(tag),
         tag = "question" => ~WaitingForAnswer, tag = "answer" => WaitingForAnswer
  PROVE  Alternating'
<1>1. PICK n \in Nat : n = Len(talk) + 1
  BY TalkGrows
<1>2. /\ n \in DOMAIN talk' /\ talk'[n] = tag
      /\ \A i \in DOMAIN talk : i \in DOMAIN talk' /\ talk'[i] = talk[i] /\ i < n /\ i \in Nat
      /\ \A i \in DOMAIN talk' : i \in DOMAIN talk \/ i = n
  BY <1>1, TalkGrows
<1>3. ASSUME NEW i \in DOMAIN talk, talk[i] = tag, tag \in Spoken
      PROVE  \E k \in DOMAIN talk : i < k /\ talk[k] \in Spoken \ {tag}
  <2>1. CASE tag = "question"
    <3>1. PICK k \in DOMAIN talk : i < k /\ talk[k] = "answer"
      BY <1>3, <2>1, EachAnswered
    <3> QED
      BY <2>1, <3>1 DEF Spoken
  <2>2. CASE tag = "answer"
    <3>1. PICK k \in DOMAIN talk : /\ talk[k] = "question"
                                   /\ \A j \in DOMAIN talk : j > k => talk[j] \notin Spoken
      BY <2>2 DEF WaitingForAnswer
    <3>2. i # k /\ ~(i > k)
      BY <1>3, <2>2, <3>1 DEF Spoken
    <3>3. i < k
      BY <1>2, <3>1, <3>2
    <3> QED
      BY <2>2, <3>1, <3>3 DEF Spoken
  <2> QED
    BY <1>3, <2>1, <2>2 DEF Spoken
<1>4. ASSUME NEW i \in DOMAIN talk', NEW j \in DOMAIN talk', i < j, talk'[i] = talk'[j],
             talk'[i] \in Spoken
      PROVE  \E k \in DOMAIN talk' : i < k /\ k < j /\ talk'[k] \in Spoken \ {talk'[i]}
  <2>1. i \in DOMAIN talk
    BY <1>2, <1>4
  <2>2. CASE j \in DOMAIN talk
    <3>1. PICK k \in DOMAIN talk : i < k /\ k < j /\ talk[k] \in Spoken \ {talk[i]}
      BY <1>2, <1>4, <2>1, <2>2 DEF Alternating
    <3> QED
      BY <1>2, <2>1, <3>1
  <2>3. CASE j = n
    <3>1. PICK k \in DOMAIN talk : i < k /\ talk[k] \in Spoken \ {tag}
      BY <1>2, <1>3, <1>4, <2>1, <2>3
    <3> QED
      BY <1>2, <1>4, <2>1, <2>3, <3>1
  <2> QED
    BY <1>2, <2>2, <2>3
<1>5. ASSUME NEW j \in DOMAIN talk', talk'[j] = "answer"
      PROVE  \E i \in DOMAIN talk' : i < j /\ talk'[i] = "question"
  <2>1. CASE j \in DOMAIN talk
    BY <1>2, <1>5, <2>1 DEF Alternating
  <2>2. CASE j = n
    BY <1>2, <1>5, <2>2 DEF WaitingForAnswer
  <2> QED
    BY <1>2, <2>1, <2>2
<1> QED
  BY <1>4, <1>5 DEF Alternating

LEMMA ClosedKept ==
  ASSUME talk \in Seq(OnboardingTag), ClosedForGood, NEW tag \in OnboardingTag, Record(tag),
         TalkOver => tag = "closing"
  PROVE  ClosedForGood'
<1>1. PICK n \in Nat : n = Len(talk) + 1
  BY TalkGrows
<1>2. /\ n \in DOMAIN talk' /\ talk'[n] = tag
      /\ \A i \in DOMAIN talk : i \in DOMAIN talk' /\ talk'[i] = talk[i] /\ i < n /\ i \in Nat
      /\ \A i \in DOMAIN talk' : i \in DOMAIN talk \/ i = n
  BY <1>1, TalkGrows
<1> SUFFICES ASSUME NEW i \in DOMAIN talk', talk'[i] \in {"profile", "skipped"},
                    NEW j \in DOMAIN talk', j > i
             PROVE  talk'[j] = "closing"
  BY DEF ClosedForGood
<1>3. i \in DOMAIN talk
  BY <1>2
<1>4. CASE j \in DOMAIN talk
  BY <1>2, <1>3, <1>4 DEF ClosedForGood
<1>5. CASE j = n
  <2>1. TalkOver
    BY <1>2, <1>3 DEF TalkOver, Has
  <2> QED
    BY <1>2, <1>5, <2>1
<1> QED
  BY <1>2, <1>4, <1>5

\* One lemma for everything that is recorded: the rule of each tag, and the place
\* the loop is in afterwards.
LEMMA RecordSafe ==
  ASSUME TalkInv, NEW tag \in OnboardingTag, Record(tag),
         tag = "question" => ~WaitingForAnswer /\ Answers < MaximumAnswers,
         tag = "answer" => WaitingForAnswer,
         tag = "profile" => Answers >= MinimumAnswers,
         TalkOver => tag = "closing",
         loop' \in {"greet", "thinking"} => tag = "answer",
         loop' \in {"ask", "answer"} => tag = "question"
  PROVE  TalkInv'
<1>1. talk \in Seq(OnboardingTag) /\ Alternating /\ ClosedForGood
  BY DEF TalkInv, FirstTalkSound, Alternating, ClosedForGood
<1>2. talk' \in Seq(OnboardingTag)
  BY <1>1, TalkGrows
<1>3. Alternating' /\ ClosedForGood'
  BY <1>1, AlternatingKept, ClosedKept
<1>4. /\ Answers \in Nat /\ (tag = "answer" => Answers' = Answers + 1)
      /\ tag # "answer" => Answers' = Answers
  BY <1>1, AnswersCounted
<1>5. Answers' <= MaximumAnswers
  BY <1>4, AnswerBounds DEF TalkInv, FirstTalkSound, RoomToAnswer
<1>6. Has("profile")' => Answers' >= MinimumAnswers
  BY <1>1, <1>4, RecordedHas, AnswerBounds DEF TalkInv, FirstTalkSound
<1>7. /\ tag = "question" => WaitingForAnswer'
      /\ tag = "answer" => ~WaitingForAnswer'
      /\ tag \notin Spoken => (WaitingForAnswer' <=> WaitingForAnswer)
  BY <1>1, RecordedWaiting
<1>8. RoomToAnswer'
  <2>1. CASE tag = "answer"
    BY <1>7, <2>1 DEF RoomToAnswer
  <2>2. CASE tag # "answer"
    BY <1>4, <1>7, <2>2 DEF RoomToAnswer, TalkInv, Spoken
  <2> QED
    BY <2>1, <2>2
<1>9. TalkPlace'
  <2>1. tag \in Spoken => ~TalkOver'
    <3>1. tag \in Spoken => ~TalkOver /\ tag # "profile" /\ tag # "skipped"
      BY DEF Spoken
    <3> QED
      BY <1>1, <3>1, RecordedHas DEF TalkOver
  <2> QED
    BY <1>7, <2>1 DEF TalkPlace, Spoken
<1>10. FirstTalkSound'
  BY <1>3, <1>5, <1>6 DEF FirstTalkSound, Alternating, ClosedForGood
<1> QED
  BY <1>2, <1>8, <1>9, <1>10 DEF TalkInv

\* Nothing is recorded, and the loop does not enter the conversation.
LEMMA TalkKept ==
  ASSUME TalkInv, UNCHANGED talk,
         loop' \in {"greet", "thinking", "ask", "answer"} => TalkPlace'
  PROVE  TalkInv'
<1>1. Answers' = Answers /\ WaitingForAnswer' = WaitingForAnswer
  BY DEF Answers, WaitingForAnswer
<1>2. RoomToAnswer'
  BY <1>1 DEF TalkInv, RoomToAnswer
<1>3. FirstTalkSound'
  BY <1>1 DEF TalkInv, FirstTalkSound, Has
<1>4. TalkPlace'
  BY DEF TalkPlace
<1> QED
  BY <1>2, <1>3, <1>4 DEF TalkInv

LEMMA TalkStays ==
  ASSUME TalkInv, UNCHANGED talk,
         loop' = loop \/ loop' \notin {"greet", "thinking", "ask", "answer"}
  PROVE  TalkInv'
<1>1. loop' = loop => TalkPlace'
  BY DEF TalkInv, TalkPlace, WaitingForAnswer, TalkOver, Has
<1> QED
  BY <1>1, TalkKept

LEMMA LaunchTalk ==
  ASSUME TalkInv, Launch PROVE TalkInv'
<1>1. CASE loop' = "ready" /\ UNCHANGED talk
  BY <1>1, TalkStays
<1>2. ASSUME ShouldOnboard PROVE ~TalkOver
  BY <1>2 DEF ShouldOnboard, InProgress, TalkOver, Has
<1>3. CASE ShouldOnboard /\ Record("skipped") /\ loop' = "ready"
  BY <1>2, <1>3, RecordSafe DEF OnboardingTag
<1>4. CASE ShouldOnboard /\ UNCHANGED talk /\ loop' = (IF WaitingForAnswer THEN "ask" ELSE "greet")
  <2>1. TalkPlace'
    BY <1>2, <1>4 DEF TalkPlace, WaitingForAnswer, TalkOver, Has
  <2> QED
    BY <1>4, <2>1, TalkKept
<1> QED
  BY <1>1, <1>3, <1>4 DEF Launch

LEMMA ModelTalk ==
  ASSUME TalkInv, NEW first, NEW second, ModelAnswers(first, second) PROVE TalkInv'
<1>1. loop = "thinking" /\ ~WaitingForAnswer /\ ~TalkOver
  BY DEF ModelAnswers, TalkInv, TalkPlace
<1>2. Answers \in Nat
  <2>1. IsFiniteSet(DOMAIN talk)
    BY FS_Interval DEF TalkInv
  <2> QED
    BY <2>1, FS_Subset, FS_CardinalityType DEF Answers
<1>3. PICK c : c = ConstraintFor(Answers)
  OBVIOUS
<1>4. PICK t : GenerateTurn(first, second) = FinalizeTurn(t, c)
  BY <1>3 DEF GenerateTurn
<1>5. /\ Answers < MinimumAnswers => c = "continue"
      /\ Answers >= MaximumAnswers => c = "finish"
  BY <1>2, <1>3, AnswerBounds DEF ConstraintFor
<1>6. CASE GenerateTurn(first, second) = "complete" /\ Record("profile") /\ loop' = "closing"
  <2>1. c # "continue"
    BY <1>4, <1>6 DEF FinalizeTurn
  <2>2. Answers >= MinimumAnswers
    BY <1>2, <1>5, <2>1, AnswerBounds
  <2> QED
    BY <1>1, <1>6, <2>2, RecordSafe DEF OnboardingTag
<1>7. CASE GenerateTurn(first, second) = "question" /\ Record("question") /\ loop' = "ask"
  <2>1. c # "finish"
    BY <1>4, <1>7 DEF FinalizeTurn
  <2>2. Answers < MaximumAnswers
    BY <1>2, <1>5, <2>1, AnswerBounds
  <2> QED
    BY <1>1, <1>7, <2>2, RecordSafe DEF OnboardingTag
<1> QED
  BY <1>6, <1>7 DEF ModelAnswers

LEMMA AnswerTalk ==
  ASSUME TalkInv, TakeAnswer PROVE TalkInv'
<1>1. loop = "answer" /\ WaitingForAnswer /\ ~TalkOver
  BY DEF TakeAnswer, TalkInv, TalkPlace
<1>2. \/ UNCHANGED <<talk, loop>>
      \/ UNCHANGED talk /\ loop' = "closed"
      \/ Record("skipped") /\ loop' = "ready"
      \/ Record("answer") /\ loop' = "greet"
  BY DEF TakeAnswer
<1>3. CASE Record("skipped") /\ loop' = "ready"
  BY <1>1, <1>3, RecordSafe DEF OnboardingTag
<1>4. CASE Record("answer") /\ loop' = "greet"
  BY <1>1, <1>4, RecordSafe DEF OnboardingTag
<1>5. CASE UNCHANGED talk /\ (loop' = loop \/ loop' = "closed")
  BY <1>5, TalkStays
<1> QED
  BY <1>2, <1>3, <1>4, <1>5

LEMMA OwnTalk ==
  ASSUME TalkInv, Greet \/ ModelUnavailable \/ Close \/ Ask \/ Ready PROVE TalkInv'
<1>1. CASE Greet \/ Ask
  <2>1. /\ UNCHANGED talk
        /\ \/ loop = "greet" /\ loop' = "thinking"
           \/ loop = "ask" /\ loop' = "answer"
    BY <1>1 DEF Greet, Ask
  <2>2. TalkPlace'
    BY <2>1 DEF TalkInv, TalkPlace, WaitingForAnswer, TalkOver, Has
  <2> QED
    BY <2>1, <2>2, TalkKept
<1>2. CASE ModelUnavailable
  <2>1. Record("pending") /\ loop' = "ready" /\ ~TalkOver
    BY <1>2 DEF ModelUnavailable, TalkInv, TalkPlace
  <2> QED
    BY <2>1, RecordSafe DEF OnboardingTag
<1>3. CASE Close
  <2>1. Record("closing") /\ loop' = "ready"
    BY <1>3 DEF Close
  <2> QED
    BY <2>1, RecordSafe DEF OnboardingTag
<1>4. CASE Ready
  BY <1>4, TalkStays DEF Ready
<1> QED
  BY <1>1, <1>2, <1>3, <1>4

LEMMA TalkStep == TalkInv /\ [SessionNext]_sessionVars => TalkInv'
<1> SUFFICES ASSUME TalkInv, [SessionNext]_sessionVars PROVE TalkInv'
  OBVIOUS
<1>1. ASSUME NEW line \in Line, TypeLine(line) PROVE TalkInv'
  BY <1>1, TalkStays DEF TypeLine
<1>2. CASE BurstEnds
  BY <1>2, TalkStays DEF BurstEnds
<1>3. ASSUME NEW c \in Client, NEW line \in Posted,
             ApiMessage(c, line) \/ ApiGuidance(c, line) \/ ApiControl(c, line)
      PROVE  TalkInv'
  BY <1>3, TalkStays DEF ApiMessage, ApiGuidance, ApiControl, Handle
<1>4. ASSUME NEW c \in Client, ApiMarks(c) \/ ApiSends(c) PROVE TalkInv'
  BY <1>4, TalkStays DEF ApiMarks, ApiSends
<1>5. CASE PromptEnds \/ PromptBlank \/ PromptCommand \/ PromptResume \/ PromptTask
  BY <1>5, TalkStays DEF PromptEnds, PromptBlank, PromptCommand, PromptResume, PromptTask
<1>6. CASE TurnNotSent \/ RunStarts \/ RunTakesLine \/ RunInterrupted \/ InterruptRecovered
  BY <1>6, TalkStays DEF TurnNotSent, RunStarts, RunTakesLine, RunInterrupted, InterruptRecovered
<1>7. CASE RunFails \/ FailureRecovered \/ RunReturns \/ Verified \/ RepairReturns \/ Saved
  BY <1>7, TalkStays DEF RunFails, FailureRecovered, RunReturns, Verified, RepairReturns, Saved
<1>8. CASE Dies \/ Relaunch
  BY <1>8, TalkStays DEF Dies, Relaunch
<1>9. CASE UNCHANGED sessionVars
  BY <1>9, TalkStays DEF sessionVars
<1> QED
  BY <1>1, <1>2, <1>3, <1>4, <1>5, <1>6, <1>7, <1>8, <1>9, LaunchTalk, ModelTalk, AnswerTalk,
     OwnTalk DEF SessionNext

\* Questions and answers alternate, a profile rests on enough answers, nobody is
\* asked too often and what is over stays over, for every number of launches,
\* crashes and lines (OnboardingState::inspect, run_onboarding).
THEOREM FirstTalkStaysSound == SessionSpec => []FirstTalkSound
<1>1. SessionInit => TalkInv
  <2> SUFFICES ASSUME SessionInit PROVE TalkInv
    OBVIOUS
  <2>1. talk = <<>> /\ loop = "start" /\ DOMAIN talk = {}
    BY DEF SessionInit
  <2>2. Answers = 0
    <3>1. {i \in DOMAIN talk : talk[i] = "answer"} = {}
      BY <2>1
    <3> QED
      BY <3>1, FS_EmptySet DEF Answers
  <2>3. FirstTalkSound /\ ~WaitingForAnswer
    BY <2>1, <2>2, AnswerBounds DEF FirstTalkSound, WaitingForAnswer, Has
  <2> QED
    BY <2>1, <2>3 DEF TalkInv, TalkPlace, RoomToAnswer
<1>2. TalkInv => FirstTalkSound
  BY DEF TalkInv
<1> QED
  BY <1>1, <1>2, TalkStep, PTL DEF SessionSpec

-----------------------------------------------------------------------------
(* The file and web tools. *)
(* For any file, output budget and page size, any number of writes and of  *)
(* agents at the browser: pages fit, move on and cover the file.  That a   *)
(* page fits rests on its header being no wider than the one reserved      *)
(* before the page was known, for which the number of digits has to be     *)
(* monotone; that a complete reading is one of an unchanged file rests on  *)
(* versions that a reader cannot be ahead of.                              *)

LEMMA DigitsMonotone ==
  ASSUME NEW n \in Nat, NEW m \in Nat, n <= m
  PROVE  Digits(n) \in Nat /\ Digits(m) \in Nat /\ Digits(n) <= Digits(m)
<1> DEFINE S(k) == {d \in 1..8 : 10 ^ d <= k}
<1>1. IsFiniteSet(1..8)
  <2>1. \A b \in Nat : IsFiniteSet(1..b)
    BY FS_Interval
  <2> QED
    BY <2>1
<1>2. S(n) \subseteq S(m) /\ S(m) \subseteq 1..8
  OBVIOUS
<1>3. IsFiniteSet(S(m))
  BY <1>1, <1>2, FS_Subset
<1>4. IsFiniteSet(S(n)) /\ Cardinality(S(n)) <= Cardinality(S(m))
  BY <1>2, <1>3, FS_Subset
<1>5. Cardinality(S(n)) \in Nat /\ Cardinality(S(m)) \in Nat
  BY <1>3, <1>4, FS_CardinalityType
<1>6. Digits(n) = 1 + Cardinality(S(n)) /\ Digits(m) = 1 + Cardinality(S(m))
  BY DEF Digits
<1> QED
  BY <1>4, <1>5, <1>6

\* No page has a wider header than the one that is reserved.
LEMMA HeaderReserved ==
  ASSUME NEW total \in Nat, NEW offset \in Nat, NEW end \in Nat, end <= total
  PROVE  /\ Header(total, offset, end) \in Nat
         /\ Reserved(total, offset) \in Nat
         /\ Header(total, offset, end) <= Reserved(total, offset)
<1>1. /\ Digits(total) \in Nat /\ Digits(offset) \in Nat /\ Digits(end) \in Nat
      /\ total # 0 => Digits(total - 1) \in Nat
  BY DigitsMonotone
<1>2. end < total => Digits(end) <= Digits(total - 1)
  BY DigitsMonotone
<1> QED
  BY <1>1, <1>2, FileNumbers DEF Header, Reserved

LEMMA PageFits ==
  ASSUME NEW total \in Nat, NEW offset \in Nat, NEW budget \in Nat, NEW requested \in Nat \ {0},
         NEW p, p = ReadPage(total, offset, budget, requested), p.ok
  PROVE  /\ p.chars \in Nat /\ offset + p.chars <= total
         /\ p.cost <= p.budget
         /\ p.chars > 0 \/ offset + p.chars = total
<1> DEFINE r == Reserved(total, offset)
           S == {requested, budget - r, total - offset}
<1>1. /\ ~(offset > total) /\ ~(budget < r) /\ ~(budget = r /\ offset < total)
      /\ p = LET n == Least(S)
             IN  [ok |-> TRUE, chars |-> n, budget |-> budget,
                  cost |-> n + Header(total, offset, offset + n)]
  BY DEF ReadPage
<1>2. r \in Nat
  BY HeaderReserved
<1>3. PICK n \in S : \A m \in S : n <= m
  BY <1>1, <1>2
<1>4. Least(S) \in S /\ \A m \in S : Least(S) <= m
  BY <1>3 DEF Least
<1>5. PICK c : c = Least(S)
  OBVIOUS
<1>6. c \in Nat /\ c <= budget - r /\ offset + c <= total /\ (c > 0 \/ offset + c = total)
  <2>1. PICK q \in Nat : q = r
    BY <1>2
  <2>2. c \in {requested, budget - q, total - offset}
    BY <1>4, <1>5, <2>1
  <2>3. c <= budget - q /\ c <= total - offset
    BY <1>4, <1>5, <2>1
  <2>4. offset <= total /\ q <= budget /\ (q = budget => offset = total)
    BY <1>1, <2>1
  <2> QED
    BY <2>1, <2>2, <2>3, <2>4
<1>7. PICK h : h = Header(total, offset, offset + c)
  OBVIOUS
<1>8. h \in Nat /\ h <= r
  <2>1. offset + c \in Nat /\ offset + c <= total
    BY <1>6
  <2> QED
    BY <1>7, <2>1, HeaderReserved
<1>9. p = [ok |-> TRUE, chars |-> c, budget |-> budget, cost |-> c + h]
  BY <1>1, <1>5, <1>7
<1> QED
  BY <1>2, <1>6, <1>8, <1>9

\* The pager has what it read so far of the version it began with, and the
\* cursor of the browser is on one of its pages.
PagerTyped ==
  /\ file = [size |-> file.size, version |-> file.version]
  /\ file.size \in Nat /\ file.version \in {0, 1}
  /\ pager.next \in Nat /\ pager.has \in Nat
  /\ pager.of \in 0..file.version

BrowserTyped ==
  /\ request \in [Surfer -> [engines : Int, page : Nat]]
  /\ fetched \in Nat
  /\ pages \in Seq(Nat)
  /\ cursor \in 0..Len(pages)
  /\ pages # <<>> => cursor # 0

PageSound ==
  page.ok => page.cost <= page.budget /\ (page.chars > 0 \/ pager.eof)

PagerSound ==
  pager.of = file.version => pager.has = pager.next /\ (pager.eof => pager.has = file.size)

ToolsInv == PagerTyped /\ BrowserTyped /\ PageSound /\ PagerSound

LEMMA FileReadSound ==
  ASSUME ToolsInv, NEW b \in Budgets, NEW r \in Requests, FileRead(b, r)
  PROVE  PagerTyped' /\ PageSound' /\ PagerSound'
<1> DEFINE end == pager.next + page'.chars
<1>1. b \in Nat /\ r \in Nat \ {0} /\ file.size \in Nat /\ pager.next \in Nat
  BY FileNumbers DEF ToolsInv, PagerTyped
<1>2. /\ page' = ReadPage(file.size, pager.next, b, r)
      /\ file' = file
  BY DEF FileRead
<1>3. CASE page'.ok
  <2>1. /\ page'.chars \in Nat
        /\ page'.cost <= page'.budget
        /\ page'.chars > 0 \/ end = file.size
    BY <1>1, <1>2, <1>3, PageFits
  <2>2. pager' = [next |-> end, eof |-> end = file.size,
                  has |-> pager.has + page'.chars, of |-> pager.of]
    BY <1>3 DEF FileRead
  <2>3. /\ pager'.next = end /\ pager'.eof = (end = file.size)
        /\ pager'.has = pager.has + page'.chars /\ pager'.of = pager.of
    BY <2>2
  <2>4. PICK c \in Nat : c = page'.chars
    BY <2>1
  <2>5. PagerTyped'
    BY <1>2, <2>3, <2>4 DEF ToolsInv, PagerTyped
  <2>6. PageSound'
    BY <2>1, <2>3 DEF PageSound
  <2>7. PagerSound'
    BY <1>1, <1>2, <2>3, <2>4 DEF ToolsInv, PagerTyped, PagerSound
  <2> QED
    BY <2>5, <2>6, <2>7
<1>4. CASE ~page'.ok
  <2>1. pager' = Beginning(file.version)
    BY <1>4 DEF FileRead
  <2>2. pager'.next = 0 /\ pager'.eof = FALSE /\ pager'.has = 0 /\ pager'.of = file.version
    BY <2>1 DEF Beginning
  <2> QED
    BY <1>2, <1>4, <2>2 DEF ToolsInv, PagerTyped, PageSound, PagerSound
<1> QED
  BY <1>3, <1>4

LEMMA ReopenSound ==
  ASSUME ToolsInv, Reopen PROVE PagerTyped' /\ PageSound' /\ PagerSound'
<1>1. pager' = Beginning(file.version) /\ page' = [ok |-> FALSE] /\ file' = file
  BY DEF Reopen
<1>2. /\ pager'.next = 0 /\ pager'.eof = FALSE /\ pager'.has = 0 /\ pager'.of = file.version
      /\ ~page'.ok
  BY <1>1 DEF Beginning
<1> QED
  BY <1>1, <1>2 DEF ToolsInv, PagerTyped, PageSound, PagerSound

LEMMA FileWriteSound ==
  ASSUME ToolsInv, NEW n \in FileSizes, FileWrite(n)
  PROVE  PagerTyped' /\ PageSound' /\ PagerSound'
<1>1. /\ file' = [size |-> n, version |-> 1] /\ file.version = 0
      /\ UNCHANGED <<pager, page>> /\ n \in Nat
  BY FileNumbers DEF FileWrite
<1>2. file'.size = n /\ file'.version = 1 /\ file' = [size |-> file'.size, version |-> file'.version]
  BY <1>1
<1> QED
  BY <1>1, <1>2 DEF ToolsInv, PagerTyped, PageSound, PagerSound

\* A page is recorded behind the cursor, and the cursor moves on to it.
LEMMA PageArrivesSound ==
  ASSUME ToolsInv, NEW a \in Surfer, PageArrives(a) PROVE BrowserTyped'
<1>1. /\ request[a].page \in Nat /\ cursor \in 0..Len(pages) /\ pages \in Seq(Nat)
      /\ request' \in [Surfer -> [engines : Int, page : Nat]]
      /\ fetched' \in Nat
  BY DEF ToolsInv, BrowserTyped, PageArrives, NoRequest
<1>2. PICK p \in Nat : p = request[a].page
  BY <1>1
<1>3. SubSeq(pages, 1, cursor) \in Seq(Nat) /\ Len(SubSeq(pages, 1, cursor)) = cursor
  BY <1>1
<1>4. PICK s \in Seq(Nat) : s = SubSeq(pages, 1, cursor)
  BY <1>3
<1>5. pages' = s \o <<p>> /\ cursor' = Len(pages')
  BY <1>2, <1>4 DEF PageArrives, Recorded
<1>6. pages' \in Seq(Nat) /\ Len(pages') = Len(s) + 1
  BY <1>5
<1> QED
  BY <1>1, <1>5, <1>6 DEF BrowserTyped

LEMMA BrowserSound ==
  ASSUME ToolsInv, NEW a \in Surfer,
         SendRequest(a, 1) \/ SendRequest(a, Engines) \/ PageArrives(a) \/ FetchFails(a)
  PROVE  BrowserTyped'
<1>1. CASE PageArrives(a)
  BY <1>1, PageArrivesSound
<1>2. ASSUME NEW e \in Nat, SendRequest(a, e) PROVE BrowserTyped'
  BY <1>2, WebNumbers DEF ToolsInv, BrowserTyped, SendRequest
<1>3. CASE FetchFails(a)
  <2>1. request[a] \in [engines : Int, page : Nat] /\ NoRequest \in [engines : Int, page : Nat]
    BY DEF ToolsInv, BrowserTyped, NoRequest
  <2>2. request' \in [Surfer -> [engines : Int, page : Nat]]
    BY <1>3, <2>1 DEF ToolsInv, BrowserTyped, FetchFails
  <2> QED
    BY <1>3, <2>2 DEF ToolsInv, BrowserTyped, FetchFails
<1> QED
  BY <1>1, <1>2, <1>3, WebNumbers

LEMMA ToolsStep == ToolsInv /\ [ToolsNext]_toolVars => ToolsInv'
<1> SUFFICES ASSUME ToolsInv, [ToolsNext]_toolVars PROVE ToolsInv'
  OBVIOUS
<1>1. ASSUME UNCHANGED browserVars PROVE BrowserTyped'
  BY <1>1 DEF browserVars, ToolsInv, BrowserTyped
<1>2. ASSUME UNCHANGED fileVars PROVE PagerTyped' /\ PageSound' /\ PagerSound'
  BY <1>2 DEF fileVars, ToolsInv, PagerTyped, PageSound, PagerSound
<1>3. ASSUME NEW b \in Budgets, NEW r \in Requests, FileRead(b, r) PROVE ToolsInv'
  BY <1>3, <1>1, FileReadSound DEF ToolsInv, FileRead
<1>4. CASE Reopen
  BY <1>4, <1>1, ReopenSound DEF ToolsInv, Reopen
<1>5. ASSUME NEW n \in FileSizes, FileWrite(n) PROVE ToolsInv'
  BY <1>5, <1>1, FileWriteSound DEF ToolsInv, FileWrite
<1>6. ASSUME NEW a \in Surfer,
             SendRequest(a, 1) \/ SendRequest(a, Engines) \/ PageArrives(a) \/ FetchFails(a)
      PROVE  ToolsInv'
  <2>1. UNCHANGED fileVars
    BY <1>6 DEF SendRequest, PageArrives, FetchFails
  <2> QED
    BY <1>6, <1>2, <2>1, BrowserSound DEF ToolsInv
<1>7. CASE MoveHistory(cursor - 1) \/ MoveHistory(cursor + 1)
  <2>1. UNCHANGED <<fileVars, pages, request, fetched>> /\ cursor' \in 1..Len(pages)
    BY <1>7 DEF MoveHistory
  <2>2. BrowserTyped'
    BY <2>1 DEF ToolsInv, BrowserTyped
  <2> QED
    BY <1>2, <2>1, <2>2 DEF ToolsInv
<1>8. CASE UNCHANGED toolVars
  BY <1>8, <1>1, <1>2 DEF toolVars, ToolsInv
<1> QED
  BY <1>3, <1>4, <1>5, <1>6, <1>7, <1>8 DEF ToolsNext

\* Every page fits its budget and moves on, a reader of an unchanged file has all
\* of it at the end, and the browser shows a page it has, for every file, budget,
\* number of agents and of requests (FileReadTool::execute, fetch, move_history).
THEOREM FileReadCovers == ToolsSpec => []PagesCover
<1>1. ToolsInit => ToolsInv
  <2> SUFFICES ASSUME ToolsInit PROVE ToolsInv
    OBVIOUS
  <2>1. PICK n \in FileSizes : file = [size |-> n, version |-> 0]
    BY DEF ToolsInit
  <2>2. n \in Nat
    BY FileNumbers
  <2>3. PagerTyped /\ PageSound /\ PagerSound
    BY <2>1, <2>2 DEF ToolsInit, Beginning, PagerTyped, PageSound, PagerSound
  <2>4. BrowserTyped
    BY DEF ToolsInit, BrowserTyped, NoRequest
  <2> QED
    BY <2>3, <2>4 DEF ToolsInv
<1>2. ToolsInv => PagesCover
  <2> SUFFICES ASSUME ToolsInv, pages # <<>> PROVE cursor \in DOMAIN pages
    BY DEF ToolsInv, PageSound, PagerSound, PagesCover
  <2> QED
    BY DEF ToolsInv, BrowserTyped
<1> QED
  BY <1>1, <1>2, ToolsStep, PTL DEF ToolsSpec

-----------------------------------------------------------------------------
(* The model provider. *)
(* For any conversation, context, retries and stream: what is posted is a  *)
(* whole part of the conversation, and nothing is left behind at the       *)
(* endpoint.  A turn may be dropped several times over; the invariant says *)
(* that what is left is, but for the texts, the conversation cut once.     *)

\* A list of messages, whatever the length of their texts.
IsMessage(m) == m = [role |-> m.role, chars |-> m.chars, metadata |-> m.metadata, id |-> m.id]
IsMessages(ms) == (\E S : ms \in Seq(S)) /\ \A i \in DOMAIN ms : IsMessage(ms[i])

\* The same messages but for their texts.
Alike(ms, ns) ==
  /\ DOMAIN ms = DOMAIN ns
  /\ \A i \in DOMAIN ms : /\ ms[i].role = ns[i].role /\ ms[i].metadata = ns[i].metadata
                          /\ ms[i].id = ns[i].id

CutFrom(ms, ns) == Alike(ms, ns) \/ \E u \in Users(ns) \ {1} : Alike(ms, CutTo(ns, u))

PromptInv ==
  /\ IsMessages(conversation) /\ Answering(conversation)
  /\ IsMessages(prompt) /\ CutFrom(prompt, conversation)

LEMMA Listed ==
  ASSUME NEW ms, IsMessages(ms)
  PROVE  Len(ms) \in Nat /\ DOMAIN ms = 1..Len(ms)
BY DEF IsMessages

LEMMA CutAt ==
  ASSUME NEW ms, IsMessages(ms), NEW u \in DOMAIN ms
  PROVE  /\ IsMessages(CutTo(ms, u))
         /\ DOMAIN CutTo(ms, u) = 1..(Len(ms) - u + 2)
         /\ CutTo(ms, u)[1] = ms[1]
         /\ \A k \in 2..(Len(ms) - u + 2) : CutTo(ms, u)[k] = ms[u + k - 2]
<1>1. PICK S : ms \in Seq(S)
  BY DEF IsMessages
<1>2. Len(ms) \in Nat /\ DOMAIN ms = 1..Len(ms) /\ u \in 1..Len(ms) /\ ms[1] \in S
  BY <1>1
<1>3. PICK s : s = SubSeq(ms, u, Len(ms))
  OBVIOUS
<1>4. s \in Seq(S) /\ Len(s) = Len(ms) - u + 1 /\ \A k \in 1..Len(s) : s[k] = ms[u + k - 1]
  BY <1>1, <1>2, <1>3
<1>5. PICK x \in S : x = ms[1]
  BY <1>2
<1>6. CutTo(ms, u) = <<x>> \o s
  BY <1>3, <1>5 DEF CutTo
<1>7. PICK c : c = <<x>> \o s
  OBVIOUS
<1>8. /\ c \in Seq(S) /\ Len(c) = Len(s) + 1 /\ c[1] = x
      /\ \A k \in 2..(Len(s) + 1) : c[k] = s[k - 1]
  BY <1>4, <1>7
<1>9. DOMAIN c = 1..(Len(ms) - u + 2)
  BY <1>2, <1>4, <1>8
<1>10. \A k \in 2..(Len(ms) - u + 2) : c[k] = ms[u + k - 2]
  BY <1>2, <1>4, <1>8
<1>11. \A k \in DOMAIN c : \E i \in DOMAIN ms : c[k] = ms[i]
  <2> SUFFICES ASSUME NEW k \in DOMAIN c PROVE \E i \in DOMAIN ms : c[k] = ms[i]
    OBVIOUS
  <2>1. CASE k = 1
    BY <1>2, <1>5, <1>8, <2>1
  <2>2. CASE k # 1
    BY <1>2, <1>9, <1>10, <2>2
  <2> QED
    BY <2>1, <2>2
<1>12. IsMessages(c)
  BY <1>8, <1>11 DEF IsMessages
<1> QED
  BY <1>5, <1>6, <1>7, <1>8, <1>9, <1>10, <1>12

LEMMA UsersBounded ==
  ASSUME NEW ms, IsMessages(ms), LatestUser(ms) > 2
  PROVE  /\ NextTurn(ms) \in Users(ms) /\ NextTurn(ms) > 2
         /\ NextTurn(ms) \in DOMAIN ms
<1>1. Len(ms) \in Nat /\ Users(ms) \subseteq 1..Len(ms) /\ Users(ms) \subseteq DOMAIN ms
  BY Listed DEF Users
<1>2. Users(ms) # {}
  BY DEF LatestUser
<1>3. \E n \in Users(ms) : \A m \in Users(ms) : m <= n
  <2>1. Users(ms) \in SUBSET (0..Len(ms))
    BY <1>1
  <2> QED
    BY <1>1, <1>2, <2>1, GreatestBelow
<1>4. LatestUser(ms) \in Users(ms)
  <2>1. LatestUser(ms) = CHOOSE x \in Users(ms) : \A y \in Users(ms) : x >= y
    BY <1>2 DEF LatestUser, Max
  <2>2. \E x \in Users(ms) : \A y \in Users(ms) : x >= y
    BY <1>1, <1>3
  <2> QED
    BY <2>1, <2>2
<1> DEFINE T == {i \in Users(ms) : i > 2}
<1>5. T # {} /\ T \in SUBSET Nat
  BY <1>1, <1>4
<1>6. \E x \in T : \A y \in T : x <= y
  BY <1>5, LeastNatural
<1>7. NextTurn(ms) = CHOOSE x \in T : \A y \in T : x <= y
  BY DEF NextTurn, Min
<1>8. NextTurn(ms) \in T
  BY <1>6, <1>7
<1> QED
  BY <1>1, <1>8

\* Cut again, a cut conversation is one that was cut once.
LEMMA CutAgain ==
  ASSUME NEW ms, NEW ns, IsMessages(ms), IsMessages(ns), CutFrom(ms, ns),
         NEW n \in Users(ms), n > 2
  PROVE  CutFrom(CutTo(ms, n), ns)
<1>0. n \in DOMAIN ms /\ ms[n].role = "user"
  BY DEF Users
<1>1. /\ DOMAIN CutTo(ms, n) = 1..(Len(ms) - n + 2) /\ CutTo(ms, n)[1] = ms[1]
      /\ \A k \in 2..(Len(ms) - n + 2) : CutTo(ms, n)[k] = ms[n + k - 2]
      /\ Len(ms) \in Nat /\ n \in 1..Len(ms)
  BY <1>0, CutAt, Listed
<1>2. Len(ns) \in Nat /\ DOMAIN ns = 1..Len(ns) /\ DOMAIN ms = 1..Len(ms)
  BY Listed
<1>3. CASE Alike(ms, ns)
  <2>0. DOMAIN ms = DOMAIN ns /\ ns[n].role = "user"
    BY <1>0, <1>3 DEF Alike
  <2>1. Len(ms) = Len(ns) /\ n \in DOMAIN ns /\ ns[n].role = "user"
    <3>1. \A a, b \in Nat : 1..a = 1..b => a = b
      OBVIOUS
    <3> QED
      BY <1>0, <1>1, <1>2, <2>0, <3>1
  <2>2. n \in Users(ns) \ {1}
    BY <2>1, <1>1 DEF Users
  <2>3. /\ DOMAIN CutTo(ns, n) = 1..(Len(ns) - n + 2) /\ CutTo(ns, n)[1] = ns[1]
        /\ \A k \in 2..(Len(ns) - n + 2) : CutTo(ns, n)[k] = ns[n + k - 2]
    BY <2>1, CutAt
  <2>4. \A k \in 2..(Len(ns) - n + 2) : n + k - 2 \in DOMAIN ms
    BY <1>1, <1>2, <2>1
  <2>5. 1 \in DOMAIN ms
    BY <1>1, <1>2
  <2>6. Alike(CutTo(ms, n), CutTo(ns, n))
    <3> SUFFICES ASSUME NEW k \in 1..(Len(ns) - n + 2)
                 PROVE  /\ CutTo(ms, n)[k].role = CutTo(ns, n)[k].role
                        /\ CutTo(ms, n)[k].metadata = CutTo(ns, n)[k].metadata
                        /\ CutTo(ms, n)[k].id = CutTo(ns, n)[k].id
      BY <1>1, <2>1, <2>3 DEF Alike
    <3>1. CASE k = 1
      BY <1>1, <1>3, <2>3, <2>5, <3>1 DEF Alike
    <3>2. CASE k # 1
      <4>1. k \in 2..(Len(ns) - n + 2)
        BY <1>1, <2>1, <3>2
      <4> QED
        BY <1>1, <1>3, <2>1, <2>3, <2>4, <4>1 DEF Alike
    <3> QED
      BY <3>1, <3>2
  <2> QED
    BY <2>2, <2>6 DEF CutFrom
<1>4. ASSUME NEW u \in Users(ns) \ {1}, Alike(ms, CutTo(ns, u)) PROVE CutFrom(CutTo(ms, n), ns)
  <2>0. u \in 2..Len(ns) /\ u \in DOMAIN ns
    BY <1>2, <1>4 DEF Users
  <2>1. /\ DOMAIN CutTo(ns, u) = 1..(Len(ns) - u + 2) /\ CutTo(ns, u)[1] = ns[1]
        /\ \A k \in 2..(Len(ns) - u + 2) : CutTo(ns, u)[k] = ns[u + k - 2]
    BY <2>0, CutAt
  <2>2. Len(ms) = Len(ns) - u + 2
    <3>1. \A a, b \in Nat : 1..a = 1..b => a = b
      OBVIOUS
    <3> QED
      BY <1>1, <1>2, <1>4, <2>0, <2>1, <3>1 DEF Alike
  <2> DEFINE v == u + n - 2
  <2>3. v \in 2..Len(ns)
    BY <1>1, <1>2, <2>0, <2>2
  <2>4. ns[v].role = "user"
    <3>1. n \in 2..(Len(ns) - u + 2) /\ n \in DOMAIN ms
      BY <1>1, <1>2, <2>2
    <3>2. CutTo(ns, u)[n] = ns[v]
      BY <2>1, <3>1
    <3> QED
      BY <1>0, <1>4, <3>1, <3>2 DEF Alike
  <2>5. v \in Users(ns) \ {1} /\ v \in DOMAIN ns
    BY <1>2, <2>3, <2>4 DEF Users
  <2>6. /\ DOMAIN CutTo(ns, v) = 1..(Len(ns) - v + 2) /\ CutTo(ns, v)[1] = ns[1]
        /\ \A k \in 2..(Len(ns) - v + 2) : CutTo(ns, v)[k] = ns[v + k - 2]
    BY <2>5, CutAt
  <2>7. Len(ns) - v + 2 = Len(ms) - n + 2
    BY <1>1, <1>2, <2>0, <2>2
  <2>8. Alike(CutTo(ms, n), CutTo(ns, v))
    <3> SUFFICES ASSUME NEW k \in 1..(Len(ms) - n + 2)
                 PROVE  /\ CutTo(ms, n)[k].role = CutTo(ns, v)[k].role
                        /\ CutTo(ms, n)[k].metadata = CutTo(ns, v)[k].metadata
                        /\ CutTo(ms, n)[k].id = CutTo(ns, v)[k].id
      BY <1>1, <2>6, <2>7 DEF Alike
    <3>1. CASE k = 1
      <4>1. 1 \in DOMAIN ms
        BY <1>1, <1>2
      <4> QED
        BY <1>1, <1>4, <2>1, <2>6, <3>1, <4>1 DEF Alike
    <3>2. CASE k # 1
      <4>1. PICK q : q = n + k - 2
        OBVIOUS
      <4>2. q \in DOMAIN ms /\ q \in 2..(Len(ns) - u + 2) /\ u + q - 2 = v + k - 2
        <5>1. PICK L \in Nat, M \in Nat : L = Len(ms) /\ M = Len(ns)
          BY <1>1, <1>2
        <5>2. /\ k \in 2..(L - n + 2) /\ n \in 3..L /\ u \in 2..M /\ L = M - u + 2
              /\ DOMAIN ms = 1..L
          BY <1>1, <1>2, <2>0, <2>2, <3>2, <5>1
        <5>3. q \in 2..L /\ u + q - 2 = v + k - 2
          BY <4>1, <5>1, <5>2
        <5> QED
          BY <5>1, <5>2, <5>3
      <4>3. CutTo(ns, u)[q] = ns[v + k - 2]
        BY <2>1, <4>2
      <4>4. CutTo(ms, n)[k] = ms[q] /\ CutTo(ns, v)[k] = ns[v + k - 2]
        <5>1. k \in 2..(Len(ms) - n + 2) /\ k \in 2..(Len(ns) - v + 2)
          BY <1>1, <2>7, <3>2
        <5> QED
          BY <1>1, <2>6, <4>1, <5>1
      <4> QED
        BY <1>4, <4>2, <4>3, <4>4 DEF Alike
    <3> QED
      BY <3>1, <3>2
  <2> QED
    BY <2>5, <2>8 DEF CutFrom
<1> QED
  BY <1>3, <1>4 DEF CutFrom

\* The texts of messages change, the messages stay.
LEMMA AlikeCut ==
  ASSUME NEW ms, NEW ns, NEW cs, Alike(ms, ns), CutFrom(ns, cs)
  PROVE  CutFrom(ms, cs)
BY DEF Alike, CutFrom

LEMMA MessageMade ==
  ASSUME NEW r, NEW c, NEW d, NEW n, NEW m, m = [role |-> r, chars |-> c, metadata |-> d, id |-> n]
  PROVE  IsMessage(m) /\ m.role = r /\ m.metadata = d /\ m.id = n
BY DEF IsMessage

LEMMA TextReplaced ==
  ASSUME NEW m, IsMessage(m), NEW c
  PROVE  [m EXCEPT !.chars = c] = [role |-> m.role, chars |-> c, metadata |-> m.metadata, id |-> m.id]
BY DEF IsMessage

\* What Compacted leaves of the text of a message.
CharsOf(ms) == [i \in DOMAIN ms |-> ms[i].chars]
AheadIn(ms, i) == {j \in DOMAIN ms : Priority(ms, j) < Priority(ms, i)}
Characters(ms) == Larger(1, 4 * Less(room, Framing(ms)))
CutChars(ms, i) ==
  CompactText(ms[i].chars, Less(Characters(ms), SumFunctionOnSet(CharsOf(ms), AheadIn(ms, i))))

LEMMA CompactedTexts ==
  ASSUME NEW ms
  PROVE  Compacted(ms) = [i \in DOMAIN ms |-> [ms[i] EXCEPT !.chars = CutChars(ms, i)]]
BY DEF Compacted, CutChars, CharsOf, AheadIn, Characters

LEMMA CompactedAlike ==
  ASSUME NEW ms, IsMessages(ms)
  PROVE  IsMessages(Compacted(ms)) /\ Alike(Compacted(ms), ms)
<1>1. PICK S : ms \in Seq(S)
  BY DEF IsMessages
<1>2. Len(ms) \in Nat /\ DOMAIN ms = 1..Len(ms)
  BY <1>1
<1>3. PICK g : Compacted(ms) = [i \in DOMAIN ms |-> [ms[i] EXCEPT !.chars = g[i]]]
  <2>1. PICK h : h = [i \in DOMAIN ms |-> CutChars(ms, i)]
    OBVIOUS
  <2>2. \A i \in DOMAIN ms : h[i] = CutChars(ms, i)
    BY <2>1
  <2>3. Compacted(ms) = [i \in DOMAIN ms |-> [ms[i] EXCEPT !.chars = h[i]]]
    BY <2>2, CompactedTexts
  <2> QED
    BY <2>3
<1>4. PICK c : c = Compacted(ms)
  OBVIOUS
<1>5. DOMAIN c = 1..Len(ms) /\ \A i \in 1..Len(ms) : c[i] = [ms[i] EXCEPT !.chars = g[i]]
  BY <1>2, <1>3, <1>4
<1>6. \A i \in 1..Len(ms) :
        c[i] = [role |-> ms[i].role, chars |-> g[i], metadata |-> ms[i].metadata, id |-> ms[i].id]
  <2> SUFFICES ASSUME NEW i \in 1..Len(ms)
               PROVE c[i] = [role |-> ms[i].role, chars |-> g[i],
                             metadata |-> ms[i].metadata, id |-> ms[i].id]
    OBVIOUS
  <2>1. IsMessage(ms[i])
    BY <1>2 DEF IsMessages
  <2> QED
    BY <1>5, <2>1, TextReplaced
<1>7. \A i \in 1..Len(ms) : /\ IsMessage(c[i]) /\ c[i].role = ms[i].role
                            /\ c[i].metadata = ms[i].metadata /\ c[i].id = ms[i].id
  <2> SUFFICES ASSUME NEW i \in 1..Len(ms)
               PROVE  /\ IsMessage(c[i]) /\ c[i].role = ms[i].role
                      /\ c[i].metadata = ms[i].metadata /\ c[i].id = ms[i].id
    OBVIOUS
  <2>1. PICK x, r, t, d, n : /\ x = c[i] /\ r = ms[i].role /\ t = g[i] /\ d = ms[i].metadata
                             /\ n = ms[i].id
    OBVIOUS
  <2>2. x = [role |-> r, chars |-> t, metadata |-> d, id |-> n]
    BY <1>6, <2>1
  <2> QED
    BY <2>1, <2>2, MessageMade
<1>8. \E R : c \in Seq(R)
  <2>1. c = [i \in 1..Len(ms) |-> [ms[i] EXCEPT !.chars = g[i]]]
    BY <1>2, <1>3, <1>4
  <2>2. PICK R : R = {c[i] : i \in 1..Len(ms)}
    OBVIOUS
  <2>3. c \in [1..Len(ms) -> R]
    BY <2>1, <2>2, <1>5
  <2>4. \A n \in Nat : [1..n -> R] \subseteq Seq(R)
    OBVIOUS
  <2> QED
    BY <1>2, <2>3, <2>4
<1> QED
  BY <1>2, <1>4, <1>5, <1>7, <1>8 DEF IsMessages, Alike

\* The tools as text are in the first system message or in a new first message.
LEMMA CatalogueSound ==
  ASSUME NEW ms, IsMessages(ms), Answering(ms)
  PROVE  IsMessages(WithCatalogue(ms)) /\ Answering(WithCatalogue(ms))
<1>1. PICK S : ms \in Seq(S)
  BY DEF IsMessages
<1>2. Len(ms) \in Nat /\ DOMAIN ms = 1..Len(ms)
  BY <1>1
<1> DEFINE system == {i \in DOMAIN ms : ms[i].role = "system"}
           x == [role |-> "system", chars |-> CatalogueChars, metadata |-> 0, id |-> 0]
<1>3. CASE offered /\ detected.tools = "no" /\ system # {}
  <2>1. PICK f : f = Min(system)
    OBVIOUS
  <2>2. WithCatalogue(ms) = [ms EXCEPT ![f].chars = @ + CatalogueChars]
    BY <1>3, <2>1 DEF WithCatalogue
  <2>3. f \in DOMAIN ms
    <3>1. system \in SUBSET Nat
      BY <1>2
    <3>2. \E y \in system : \A z \in system : y <= z
      BY <1>3, <3>1, LeastNatural
    <3>3. f = CHOOSE y \in system : \A z \in system : y <= z
      BY <2>1 DEF Min
    <3> QED
      BY <3>2, <3>3
  <2>4. PICK c : c = WithCatalogue(ms)
    OBVIOUS
  <2>5. PICK q : q = ms[f].chars + CatalogueChars
    OBVIOUS
  <2>6. c = [ms EXCEPT ![f] = [ms[f] EXCEPT !.chars = q]]
    BY <2>2, <2>4, <2>5
  <2>7. IsMessage(ms[f])
    BY <2>3 DEF IsMessages
  <2>8. PICK y : y = [role |-> ms[f].role, chars |-> q, metadata |-> ms[f].metadata, id |-> ms[f].id]
    OBVIOUS
  <2>9. c = [ms EXCEPT ![f] = y]
    BY <2>6, <2>7, <2>8, TextReplaced
  <2>10. /\ DOMAIN c = DOMAIN ms
         /\ \A i \in DOMAIN ms : c[i] = IF i = f THEN y ELSE ms[i]
         /\ c \in Seq(S \cup {y})
    BY <1>1, <2>3, <2>9
  <2>11. \A i \in DOMAIN ms : IsMessage(c[i]) /\ c[i].role = ms[i].role /\ c[i].id = ms[i].id
    BY <2>8, <2>10, MessageMade DEF IsMessages
  <2>12. IsMessages(c)
    BY <2>10, <2>11 DEF IsMessages
  <2>13. Answering(c)
    <3> SUFFICES ASSUME NEW i \in DOMAIN c, c[i].role = "tool"
                 PROVE  \E j \in 1..(i - 1) : /\ c[j].role = "assistant" /\ c[j].id = c[i].id
                                              /\ \A k \in j..i : c[k].role # "user"
      BY DEF Answering
    <3>1. PICK j \in 1..(i - 1) : /\ ms[j].role = "assistant" /\ ms[j].id = ms[i].id
                                  /\ \A k \in j..i : ms[k].role # "user"
      BY <2>10, <2>11 DEF Answering
    <3>2. i \in 1..Len(ms) /\ j \in DOMAIN ms /\ \A k \in j..i : k \in DOMAIN ms
      BY <1>2, <2>10, <3>1
    <3> QED
      BY <2>10, <2>11, <3>1, <3>2
  <2> QED
    BY <2>4, <2>12, <2>13
<1>4. CASE offered /\ detected.tools = "no" /\ system = {}
  <2>1. WithCatalogue(ms) = <<x>> \o ms
    BY <1>4 DEF WithCatalogue
  <2>2. PICK c, y : c = <<y>> \o ms /\ y = x
    OBVIOUS
  <2>3. c = WithCatalogue(ms) /\ IsMessage(y) /\ y.role = "system"
    BY <2>1, <2>2 DEF IsMessage
  <2>4. ms \in Seq(S \cup {y})
    BY <1>1
  <2>5. /\ c \in Seq(S \cup {y}) /\ Len(c) = Len(ms) + 1 /\ c[1] = y
        /\ \A k \in 2..(Len(ms) + 1) : c[k] = ms[k - 1]
    BY <2>2, <2>4
  <2>6. DOMAIN c = 1..(Len(ms) + 1)
    BY <2>5
  <2>7. \A k \in DOMAIN c : k # 1 => k - 1 \in DOMAIN ms /\ c[k] = ms[k - 1]
    BY <1>2, <2>5, <2>6
  <2>8. IsMessages(c)
    BY <2>3, <2>5, <2>7 DEF IsMessages
  <2>9. Answering(c)
    <3> SUFFICES ASSUME NEW i \in DOMAIN c, c[i].role = "tool"
                 PROVE  \E j \in 1..(i - 1) : /\ c[j].role = "assistant" /\ c[j].id = c[i].id
                                              /\ \A k \in j..i : c[k].role # "user"
      BY DEF Answering
    <3>1. i # 1
      BY <2>3, <2>5
    <3>2. PICK p : p = i - 1
      OBVIOUS
    <3>3. p \in DOMAIN ms /\ p \in 1..Len(ms) /\ i = p + 1 /\ c[i] = ms[p]
      BY <1>2, <2>6, <2>7, <3>1, <3>2
    <3>4. PICK j \in 1..(p - 1) : /\ ms[j].role = "assistant" /\ ms[j].id = ms[p].id
                                  /\ \A k \in j..p : ms[k].role # "user"
      BY <3>3 DEF Answering
    <3>5. j + 1 \in 2..(i - 1) /\ j + 1 \in DOMAIN c /\ c[j + 1] = ms[j]
      BY <1>2, <2>5, <2>6, <3>3, <3>4
    <3>6. \A k \in (j + 1)..i : c[k].role # "user"
      <4> SUFFICES ASSUME NEW k \in (j + 1)..i PROVE c[k].role # "user"
        OBVIOUS
      <4>1. k - 1 \in j..p /\ k \in 2..(Len(ms) + 1)
        BY <3>3, <3>4, <1>2
      <4> QED
        BY <2>5, <3>4, <4>1
    <3> QED
      BY <3>3, <3>4, <3>5, <3>6
  <2> QED
    BY <2>3, <2>8, <2>9
<1>5. CASE ~(offered /\ detected.tools = "no")
  BY <1>5 DEF WithCatalogue
<1> QED
  BY <1>3, <1>4, <1>5

LEMMA PromptStep == PromptInv /\ [ProviderNext]_providerVars => PromptInv'
<1> SUFFICES ASSUME PromptInv, [ProviderNext]_providerVars PROVE PromptInv'
  OBVIOUS
<1>1. ASSUME UNCHANGED <<conversation, prompt>> PROVE PromptInv'
  BY <1>1 DEF PromptInv
<1>2. CASE Prepare
  <2>1. conversation' = WithCatalogue(conversation) /\ prompt' = conversation'
    BY <1>2 DEF Prepare
  <2>2. IsMessages(conversation') /\ Answering(conversation')
    BY <2>1, CatalogueSound DEF PromptInv
  <2>3. CutFrom(conversation', conversation')
    BY DEF CutFrom, Alike
  <2> QED
    BY <2>1, <2>2, <2>3 DEF PromptInv
<1>3. CASE DropOldest
  <2>1. /\ prompt' = CutTo(prompt, NextTurn(prompt)) /\ conversation' = conversation
        /\ LatestUser(prompt) > 2
    BY <1>3 DEF DropOldest, MustDrop
  <2>2. /\ NextTurn(prompt) \in Users(prompt) /\ NextTurn(prompt) > 2
        /\ NextTurn(prompt) \in DOMAIN prompt
    BY <2>1, UsersBounded DEF PromptInv
  <2>3. CutFrom(prompt', conversation)
    BY <2>1, <2>2, CutAgain DEF PromptInv
  <2>4. IsMessages(prompt')
    BY <2>1, <2>2, CutAt DEF PromptInv
  <2> QED
    BY <2>1, <2>3, <2>4 DEF PromptInv
<1>4. CASE Trimmed
  <2>1. conversation' = conversation /\ (prompt' = prompt \/ prompt' = Compacted(prompt))
    BY <1>4 DEF Trimmed
  <2>2. CASE prompt' = Compacted(prompt)
    <3>1. IsMessages(prompt') /\ Alike(prompt', prompt)
      BY <2>2, CompactedAlike DEF PromptInv
    <3>2. CutFrom(prompt', conversation)
      BY <3>1, AlikeCut DEF PromptInv
    <3> QED
      BY <2>1, <3>1, <3>2 DEF PromptInv
  <2> QED
    BY <1>1, <2>1, <2>2
<1>5. ASSUME NEW tools, NEW context, Health(tools, context) PROVE PromptInv'
  BY <1>1, <1>5 DEF Health
<1>6. ASSUME NEW status, Refused(status) PROVE PromptInv'
  BY <1>1, <1>6 DEF Refused, promptVars
<1>7. ASSUME NEW r, Answered(r) PROVE PromptInv'
  BY <1>1, <1>7 DEF Answered, promptVars
<1>8. CASE \/ Post \/ TransportFails \/ Slept \/ StreamEvent \/ StreamEnds \/ StreamBreaks
           \/ Parse \/ Dropped \/ Delete
  BY <1>1, <1>8 DEF Post, TransportFails, Slept, StreamEvent, StreamEnds, StreamBreaks, Parse,
     Dropped, Delete, promptVars
<1>9. CASE UNCHANGED providerVars
  BY <1>1, <1>9 DEF providerVars, promptVars
<1> QED
  BY <1>2, <1>3, <1>4, <1>5, <1>6, <1>7, <1>8, <1>9 DEF ProviderNext

\* A tool result that is kept keeps its call: no message of the user is between
\* them, so no cut is.
LEMMA CutAnswering ==
  ASSUME NEW ms, NEW ns, IsMessages(ms), IsMessages(ns), Answering(ns), CutFrom(ms, ns),
         NEW i \in DOMAIN ms, ms[i].role = "tool"
  PROVE  \E j \in 1..(i - 1) : ms[j].role = "assistant" /\ ms[j].id = ms[i].id
<1>1. /\ Len(ns) \in Nat /\ DOMAIN ns = 1..Len(ns)
      /\ Len(ms) \in Nat /\ DOMAIN ms = 1..Len(ms)
  BY Listed
<1>2. CASE Alike(ms, ns)
  <2>1. i \in DOMAIN ns /\ ns[i].role = "tool"
    BY <1>2 DEF Alike
  <2>2. PICK j \in 1..(i - 1) : ns[j].role = "assistant" /\ ns[j].id = ns[i].id
    BY <2>1 DEF Answering
  <2>3. j \in DOMAIN ms
    BY <1>1, <2>2
  <2> QED
    BY <1>2, <2>2, <2>3 DEF Alike
<1>3. ASSUME NEW u \in Users(ns) \ {1}, Alike(ms, CutTo(ns, u))
      PROVE  \E j \in 1..(i - 1) : ms[j].role = "assistant" /\ ms[j].id = ms[i].id
  <2>1. u \in 2..Len(ns) /\ u \in DOMAIN ns /\ ns[u].role = "user"
    BY <1>1, <1>3 DEF Users
  <2>2. /\ DOMAIN CutTo(ns, u) = 1..(Len(ns) - u + 2) /\ CutTo(ns, u)[1] = ns[1]
        /\ \A k \in 2..(Len(ns) - u + 2) : CutTo(ns, u)[k] = ns[u + k - 2]
    BY <2>1, CutAt
  <2>3. DOMAIN ms = 1..(Len(ns) - u + 2)
    BY <1>3, <2>2 DEF Alike
  <2>4. i # 1
    <3> SUFFICES ASSUME i = 1 PROVE FALSE
      OBVIOUS
    <3>1. 1 \in DOMAIN ns /\ ns[1].role = "tool"
      BY <1>1, <1>3, <2>1, <2>2 DEF Alike
    <3>2. \E j \in 1..(1 - 1) : ns[j].role = "assistant"
      BY <3>1 DEF Answering
    <3> QED
      BY <3>2
  <2>5. PICK p : p = u + i - 2
    OBVIOUS
  <2>6. i \in 2..(Len(ns) - u + 2) /\ p \in DOMAIN ns /\ p \in 1..Len(ns) /\ u <= p
    BY <1>1, <2>1, <2>3, <2>4, <2>5
  <2>7. ns[p].role = "tool" /\ ns[p].id = ms[i].id
    BY <1>3, <2>2, <2>5, <2>6 DEF Alike
  <2>8. PICK j \in 1..(p - 1) : /\ ns[j].role = "assistant" /\ ns[j].id = ns[p].id
                                /\ \A k \in j..p : ns[k].role # "user"
    BY <2>6, <2>7 DEF Answering
  <2>9. j > u
    <3>1. ~(u \in j..p)
      BY <2>1, <2>8
    <3> QED
      BY <2>1, <2>6, <2>8, <3>1
  <2>10. PICK q : q = j - u + 2
    OBVIOUS
  <2>11. q \in 2..(Len(ns) - u + 2) /\ q \in 1..(i - 1) /\ u + q - 2 = j /\ q \in DOMAIN ms
    <3>1. PICK M \in Nat : M = Len(ns)
      BY <1>1
    <3>2. /\ u \in 2..M /\ i \in 2..(M - u + 2) /\ p = u + i - 2 /\ j \in 1..(p - 1) /\ j > u
          /\ DOMAIN ms = 1..(M - u + 2)
      BY <2>1, <2>3, <2>5, <2>6, <2>8, <2>9, <3>1
    <3>3. q \in 2..(M - u + 2) /\ q \in 1..(i - 1) /\ u + q - 2 = j
      BY <2>10, <3>1, <3>2
    <3> QED
      BY <3>1, <3>2, <3>3
  <2>12. ms[q].role = "assistant" /\ ms[q].id = ms[i].id
    BY <1>3, <2>2, <2>7, <2>8, <2>11 DEF Alike
  <2> QED
    BY <2>11, <2>12
<1> QED
  BY <1>2, <1>3 DEF CutFrom

LEMMA PromptStart == ProviderInit => PromptInv
<1> SUFFICES ASSUME ProviderInit PROVE PromptInv
  OBVIOUS
<1>1. conversation \in Seq(Message) /\ Answering(conversation) /\ prompt = conversation
  BY HistoriesSound DEF ProviderInit
<1>2. IsMessages(conversation)
  <2>1. \A m \in Message : IsMessage(m)
    BY DEF Message, IsMessage
  <2> QED
    BY <1>1, <2>1 DEF IsMessages
<1>3. CutFrom(prompt, conversation)
  BY <1>1 DEF CutFrom, Alike
<1> QED
  BY <1>1, <1>2, <1>3 DEF PromptInv

\* Whatever is dropped and cut to make room, the posted prompt is the first message
\* and the conversation from a user message on, and no tool result lost its call,
\* for every conversation, context and endpoint (prepare_messages).
THEOREM PromptStaysWhole == ProviderSpec => []PromptWhole
<1>1. PromptInv => PromptWhole
  <2> SUFFICES ASSUME PromptInv PROVE PromptWhole
    OBVIOUS
  <2>1. \A ms, ns : Alike(ms, ns) => Shape(ms) = Shape(ns)
    BY DEF Alike, Shape
  <2>2. \/ Shape(prompt) = Shape(conversation)
        \/ \E i \in Users(conversation) \ {1} : Shape(prompt) = Shape(CutTo(conversation, i))
    BY <2>1 DEF PromptInv, CutFrom
  <2>3. \A i \in DOMAIN prompt : prompt[i].role = "tool" =>
          \E j \in 1..(i - 1) : prompt[j].role = "assistant" /\ prompt[j].id = prompt[i].id
    BY CutAnswering DEF PromptInv
  <2> QED
    BY <2>2, <2>3 DEF PromptWhole
<1> QED
  BY <1>1, PromptStart, PromptStep, PTL DEF ProviderSpec

\* The guard is armed while a request is out, the accumulator is finished only
\* with the whole reply, and a finished reply is not generated for any more.
RequestInv ==
  /\ finished \in BOOLEAN
  /\ call \in {"sent", "sleep", "stream"} => armed
  /\ finished => call \in {"stream", "parse", "turn", "error", "dropped"} /\ got = Pieces
  /\ call = "stream" /\ finished => attempt \notin generating
  /\ call = "parse" => got = Pieces /\ attempt \notin generating
  /\ NothingLeftBehind

LEMMA RequestStep == RequestInv /\ [ProviderNext]_providerVars => RequestInv'
<1> SUFFICES ASSUME RequestInv, [ProviderNext]_providerVars PROVE RequestInv'
  OBVIOUS
<1> USE DEF RequestInv, NothingLeftBehind
<1>1. ASSUME NEW tools, NEW context, Health(tools, context) PROVE RequestInv'
  BY <1>1 DEF Health, requestVars
<1>2. CASE Prepare
  BY <1>2 DEF Prepare
<1>3. CASE DropOldest \/ Trimmed
  BY <1>3 DEF DropOldest, Trimmed, requestVars
<1>4. CASE Post
  BY <1>4 DEF Post
<1>5. CASE TransportFails
  <2>1. /\ call = "sent" /\ armed /\ armed' = armed /\ call' \in {"error", "sleep"}
        /\ UNCHANGED <<attempt, got, finished>>
    BY <1>5 DEF TransportFails, Return
  <2> QED
    BY <2>1
<1>6. CASE Slept
  BY <1>6 DEF Slept
<1>7. CASE StreamEvent
  BY <1>7 DEF StreamEvent
<1>8. CASE StreamEnds
  BY <1>8 DEF StreamEnds, Return, Complete
<1>9. CASE StreamBreaks
  BY <1>9 DEF StreamBreaks, Return
<1>10. ASSUME NEW status, Refused(status) PROVE RequestInv'
  BY <1>10 DEF Refused, Return
<1>11. ASSUME NEW r, Answered(r) PROVE RequestInv'
  BY <1>11 DEF Answered, Return
<1>12. CASE Parse
  BY <1>12 DEF Parse, Return
<1>13. CASE Dropped
  BY <1>13 DEF Dropped, Return
<1>14. CASE Delete
  BY <1>14 DEF Delete
<1>15. CASE UNCHANGED providerVars
  BY <1>15 DEF providerVars, requestVars
<1> QED
  BY <1>1, <1>2, <1>3, <1>4, <1>5, <1>6, <1>7, <1>8, <1>9, <1>10, <1>11, <1>12, <1>13, <1>14,
     <1>15 DEF ProviderNext

\* A turn is made of a whole reply, and a call that is over with its last attempt
\* still generating is being cancelled, for any number of retries and any stream
\* (complete, CancellationGuard, Accumulator::response).
THEOREM RequestsEndClean == ProviderSpec => []NothingLeftBehind
<1>1. ProviderInit => RequestInv
  BY DEF ProviderInit, RequestInv, NothingLeftBehind
<1>2. RequestInv => NothingLeftBehind
  BY DEF RequestInv
<1> QED
  BY <1>1, <1>2, RequestStep, PTL DEF ProviderSpec

-----------------------------------------------------------------------------
(* The room of a prompt.                                                   *)
(*                                                                         *)
(* In quarters of a token: a message whose text is cut to c characters is  *)
(* estimated at no more than its framing and c, less one, because the      *)
(* framing has one token for what rounding may add.  Summed up, the texts  *)
(* are given no more than the characters that the framing leaves of the    *)
(* room, each in the order of Priority what those before it have left.     *)

\* Messages with sizes.
Sized(ms) == \A i \in DOMAIN ms : ms[i].chars \in Nat /\ ms[i].metadata \in Nat

LEMMA QuartersCut ==
  ASSUME NEW c \in Nat, NEW m \in Nat
  PROVE  /\ Quarters(c + m) \in Nat /\ Quarters(m) \in Nat
         /\ 4 * (Quarters(c + m) + 8) <= 4 * (Quarters(m) + 9) + c - 1
BY DEF Quarters

\* A priority is a place of its own.
LEMMA LatestUserPlace ==
  ASSUME NEW ms, IsMessages(ms)
  PROVE  LatestUser(ms) \in 0..Len(ms)
<1>1. Len(ms) \in Nat /\ Users(ms) \subseteq 1..Len(ms)
  BY Listed DEF Users
<1>2. CASE Users(ms) = {}
  BY <1>1, <1>2 DEF LatestUser
<1>3. CASE Users(ms) # {}
  <2>1. Users(ms) \in SUBSET (0..Len(ms))
    BY <1>1
  <2>2. \E x \in Users(ms) : \A y \in Users(ms) : y <= x
    BY <1>1, <1>3, <2>1, GreatestBelow
  <2>3. \E x \in Users(ms) : \A y \in Users(ms) : x >= y
    BY <1>1, <2>2
  <2>4. LatestUser(ms) = CHOOSE x \in Users(ms) : \A y \in Users(ms) : x >= y
    BY <1>3 DEF LatestUser, Max
  <2>5. LatestUser(ms) \in Users(ms)
    BY <2>3, <2>4
  <2> QED
    BY <1>1, <2>5
<1> QED
  BY <1>2, <1>3

LEMMA PriorityValue ==
  ASSUME NEW ms, NEW size \in Nat, size = Len(ms), NEW user \in 0..size, user = LatestUser(ms),
         NEW i \in 1..size
  PROVE  /\ i = user => Priority(ms, i) = 0
         /\ user # 0 /\ i > user => Priority(ms, i) = 1 + size - i
         /\ i # user /\ (user = 0 \/ i < user) /\ i = 1 => Priority(ms, i) = 1 + size
         /\ i # user /\ (user = 0 \/ i < user) /\ i # 1 => Priority(ms, i) = 2 * size + 2 - i
<1>1. i = user => Priority(ms, i) = 0
  BY DEF Priority
<1>2. user # 0 /\ i > user => Priority(ms, i) = 1 + size - i
  BY DEF Priority
<1>3. i # user /\ (user = 0 \/ i < user) /\ i = 1 => Priority(ms, i) = 1 + size
  BY DEF Priority
<1>4. i # user /\ (user = 0 \/ i < user) /\ i # 1 => Priority(ms, i) = 2 * size + 2 - i
  BY DEF Priority
<1> QED
  BY <1>1, <1>2, <1>3, <1>4

LEMMA PriorityDistinct ==
  ASSUME NEW ms, IsMessages(ms)
  PROVE  /\ \A i \in 1..Len(ms) : Priority(ms, i) \in 0..(2 * Len(ms) + 2)
         /\ \A i, j \in 1..Len(ms) : Priority(ms, i) = Priority(ms, j) => i = j
<1>1. PICK size \in Nat : size = Len(ms)
  BY Listed
<1>2. PICK user \in 0..size : user = LatestUser(ms)
  BY <1>1, LatestUserPlace
<1>3. \A i \in 1..size :
        /\ i = user => Priority(ms, i) = 0
        /\ user # 0 /\ i > user => Priority(ms, i) = 1 + size - i
        /\ i # user /\ (user = 0 \/ i < user) /\ i = 1 => Priority(ms, i) = 1 + size
        /\ i # user /\ (user = 0 \/ i < user) /\ i # 1 => Priority(ms, i) = 2 * size + 2 - i
  BY <1>1, <1>2, PriorityValue
<1>4. \A i \in 1..size : Priority(ms, i) \in 0..(2 * size + 2)
  BY <1>2, <1>3
<1>5. \A i, j \in 1..size : Priority(ms, i) = Priority(ms, j) => i = j
  BY <1>2, <1>3
<1> QED
  BY <1>1, <1>4, <1>5

\* The functions that are summed.
SizeOf(ms) == [i \in DOMAIN ms |-> Quarters(ms[i].chars + ms[i].metadata) + 8]
FrameOf(ms) == [i \in DOMAIN ms |-> Quarters(ms[i].metadata) + 9]

LEMMA SumsOfMessages ==
  ASSUME NEW ms
  PROVE  /\ Estimated(ms) = SumOver(SizeOf(ms), DOMAIN ms)
         /\ Framing(ms) = SumOver(FrameOf(ms), DOMAIN ms)
<1>1. DOMAIN SizeOf(ms) = DOMAIN ms /\ DOMAIN FrameOf(ms) = DOMAIN ms
  BY DEF SizeOf, FrameOf
<1>2. Estimated(ms) = SumFunction(SizeOf(ms)) /\ Framing(ms) = SumFunction(FrameOf(ms))
  BY DEF Estimated, Framing, SizeOf, FrameOf
<1> QED
  BY <1>1, <1>2 DEF SumFunction, SumOver

LEMMA FiniteMessages ==
  ASSUME NEW ms, IsMessages(ms)
  PROVE  IsFiniteSet(DOMAIN ms) /\ Cardinality(DOMAIN ms) = Len(ms)
<1>1. Len(ms) \in Nat /\ DOMAIN ms = 1..Len(ms)
  BY Listed
<1>2. \A n \in Nat : IsFiniteSet(1..n) /\ Cardinality(1..n) = n
  <2>1. \A a, b \in Int : IsFiniteSet(a..b) /\ Cardinality(a..b) = IF a > b THEN 0 ELSE b - a + 1
    BY FS_Interval
  <2> SUFFICES ASSUME NEW n \in Nat PROVE IsFiniteSet(1..n) /\ Cardinality(1..n) = n
    OBVIOUS
  <2>2. IsFiniteSet(1..n) /\ Cardinality(1..n) = IF 1 > n THEN 0 ELSE n - 1 + 1
    BY <2>1
  <2> QED
    BY <2>2
<1> QED
  BY <1>1, <1>2

\* What an estimate and a framing are for messages with sizes.
LEMMA EstimateBounded ==
  ASSUME NEW ms, IsMessages(ms), Sized(ms)
  PROVE  /\ Estimated(ms) \in Int /\ Framing(ms) \in Int
         /\ SumOver(CharsOf(ms), DOMAIN ms) \in Int
         /\ 4 * Estimated(ms) <= 4 * Framing(ms) + SumOver(CharsOf(ms), DOMAIN ms) - Len(ms)
<1>1. IsFiniteSet(DOMAIN ms) /\ Cardinality(DOMAIN ms) = Len(ms)
  BY FiniteMessages
<1>2. PICK e, f, c : e = SizeOf(ms) /\ f = FrameOf(ms) /\ c = CharsOf(ms)
  OBVIOUS
<1>3. \A i \in DOMAIN ms : /\ e[i] = Quarters(ms[i].chars + ms[i].metadata) + 8
                           /\ f[i] = Quarters(ms[i].metadata) + 9 /\ c[i] = ms[i].chars
  BY <1>2 DEF SizeOf, FrameOf, CharsOf
<1>4. \A i \in DOMAIN ms : /\ e[i] \in Int /\ f[i] \in Int /\ c[i] \in Int
                           /\ 4 * e[i] <= 4 * f[i] + c[i] - 1
  <2> SUFFICES ASSUME NEW i \in DOMAIN ms
               PROVE  /\ e[i] \in Int /\ f[i] \in Int /\ c[i] \in Int
                      /\ 4 * e[i] <= 4 * f[i] + c[i] - 1
    OBVIOUS
  <2>1. PICK a \in Nat : a = ms[i].chars
    BY DEF Sized
  <2>2. PICK b \in Nat : b = ms[i].metadata
    BY DEF Sized
  <2>3. /\ Quarters(a + b) \in Nat /\ Quarters(b) \in Nat
        /\ 4 * (Quarters(a + b) + 8) <= 4 * (Quarters(b) + 9) + a - 1
    BY QuartersCut
  <2>4. e[i] = Quarters(a + b) + 8 /\ f[i] = Quarters(b) + 9 /\ c[i] = a
    BY <1>3, <2>1, <2>2
  <2> QED
    BY <2>3, <2>4
<1>5. 4 * SumOver(e, DOMAIN ms) <= 4 * SumOver(f, DOMAIN ms) + SumOver(c, DOMAIN ms) - Len(ms)
  <2>1. 4 * SumOver(e, DOMAIN ms)
          <= 4 * SumOver(f, DOMAIN ms) + SumOver(c, DOMAIN ms) - Cardinality(DOMAIN ms)
    BY <1>1, <1>4, SumQuarters
  <2> QED
    BY <1>1, <2>1
<1>6. SumOver(e, DOMAIN ms) \in Int
  BY <1>1, <1>4, SumIsInt
<1>7. SumOver(f, DOMAIN ms) \in Int
  BY <1>1, <1>4, SumIsInt
<1>8. SumOver(c, DOMAIN ms) \in Int
  BY <1>1, <1>4, SumIsInt
<1> QED
  BY <1>2, <1>5, <1>6, <1>7, <1>8, SumsOfMessages

\* Messages that differ in their texts have the same framing.
LEMMA FramingSame ==
  ASSUME NEW ms, NEW ns, Alike(ms, ns)
  PROVE  Framing(ms) = Framing(ns)
<1>1. FrameOf(ms) = FrameOf(ns) /\ DOMAIN ms = DOMAIN ns
  BY DEF FrameOf, Alike
<1> QED
  BY <1>1, SumsOfMessages

LEMMA CompactedSizes ==
  ASSUME NEW ms, IsMessages(ms), Sized(ms), room \in Int
  PROVE  /\ \A i \in DOMAIN ms : /\ Compacted(ms)[i].chars = CutChars(ms, i)
                                 /\ Compacted(ms)[i].metadata = ms[i].metadata
         /\ DOMAIN Compacted(ms) = DOMAIN ms
<1>1. PICK h : h = [i \in DOMAIN ms |-> CutChars(ms, i)]
  OBVIOUS
<1>2. PICK c : c = Compacted(ms)
  OBVIOUS
<1>3. c = [i \in DOMAIN ms |-> [ms[i] EXCEPT !.chars = CutChars(ms, i)]]
  BY <1>2, CompactedTexts
<1>4. DOMAIN c = DOMAIN ms /\ \A i \in DOMAIN ms : c[i] = [ms[i] EXCEPT !.chars = CutChars(ms, i)]
  BY <1>3
<1>5. \A i \in DOMAIN ms : c[i].chars = CutChars(ms, i) /\ c[i].metadata = ms[i].metadata
  <2> SUFFICES ASSUME NEW i \in DOMAIN ms
               PROVE  c[i].chars = CutChars(ms, i) /\ c[i].metadata = ms[i].metadata
    OBVIOUS
  <2>1. PICK m, t : m = ms[i] /\ t = CutChars(ms, i)
    OBVIOUS
  <2>2. c[i] = [m EXCEPT !.chars = t]
    BY <1>4, <2>1
  <2>3. m = [role |-> m.role, chars |-> m.chars, metadata |-> m.metadata, id |-> m.id]
    BY <2>1 DEF IsMessages, IsMessage
  <2>4. c[i] = [role |-> m.role, chars |-> t, metadata |-> m.metadata, id |-> m.id]
    BY <2>2, <2>3
  <2> QED
    BY <2>1, <2>4
<1> QED
  BY <1>2, <1>4, <1>5

\* Cut texts are within the characters that are left of the room.
LEMMA TextsFit ==
  ASSUME NEW ms, IsMessages(ms), Sized(ms), room \in Int
  PROVE  /\ Characters(ms) \in Nat
         /\ Sized(Compacted(ms))
         /\ SumOver(CharsOf(Compacted(ms)), DOMAIN ms) <= Characters(ms)
<1>1. DOMAIN ms = 1..Len(ms) /\ Len(ms) \in Nat /\ IsFiniteSet(DOMAIN ms)
  BY Listed, FiniteMessages
<1>2. PICK k \in Nat : k = Characters(ms)
  <2>1. Framing(ms) \in Int
    BY EstimateBounded
  <2> QED
    BY <2>1 DEF Characters, Larger, Less
<1>3. PICK c : c = CharsOf(ms)
  OBVIOUS
<1>4. \A i \in DOMAIN ms : c[i] = ms[i].chars /\ c[i] \in Nat
  BY <1>3 DEF CharsOf, Sized
<1>5. PICK p : p = [i \in DOMAIN ms |-> Priority(ms, i)]
  OBVIOUS
<1>6. /\ \A i \in DOMAIN ms : p[i] \in 0..(2 * Len(ms) + 2)
      /\ \A i, j \in DOMAIN ms : p[i] = p[j] => i = j
  BY <1>1, <1>5, PriorityDistinct
<1>7. \A i \in DOMAIN ms : AheadIn(ms, i) = AheadOf(DOMAIN ms, p, i)
  BY <1>5 DEF AheadIn, AheadOf
<1>8. PICK d : d = CharsOf(Compacted(ms))
  OBVIOUS
<1>9. \A i \in DOMAIN ms :
        d[i] = CompactText(c[i], Less(k, SumOver(c, AheadOf(DOMAIN ms, p, i))))
  <2> SUFFICES ASSUME NEW i \in DOMAIN ms
               PROVE  d[i] = CompactText(c[i], Less(k, SumOver(c, AheadOf(DOMAIN ms, p, i))))
    OBVIOUS
  <2>1. d[i] = CutChars(ms, i)
    BY <1>8, CompactedSizes DEF CharsOf
  <2>2. CutChars(ms, i) =
          CompactText(ms[i].chars, Less(Characters(ms), SumOver(CharsOf(ms), AheadIn(ms, i))))
    BY DEF CutChars, SumOver
  <2> QED
    BY <1>2, <1>3, <1>4, <1>7, <2>1, <2>2
<1>10. \A i \in DOMAIN ms :
         /\ d[i] \in Nat /\ d[i] <= c[i]
         /\ d[i] <= k - SumOver(c, AheadOf(DOMAIN ms, p, i)) \/ d[i] <= 0
  <2> SUFFICES ASSUME NEW i \in DOMAIN ms
               PROVE  /\ d[i] \in Nat /\ d[i] <= c[i]
                      /\ d[i] <= k - SumOver(c, AheadOf(DOMAIN ms, p, i)) \/ d[i] <= 0
    OBVIOUS
  <2>1. PICK a \in Nat : a = c[i]
    BY <1>4
  <2>2. PICK b \in Int : b = SumOver(c, AheadOf(DOMAIN ms, p, i))
    <3>1. IsFiniteSet(AheadOf(DOMAIN ms, p, i)) /\ \A j \in AheadOf(DOMAIN ms, p, i) : c[j] \in Int
      <4>1. AheadOf(DOMAIN ms, p, i) \subseteq DOMAIN ms
        BY DEF AheadOf
      <4> QED
        BY <1>1, <1>4, <4>1, FS_Subset
    <3> QED
      BY <3>1, SumIsInt
  <2>3. d[i] = CompactText(a, Less(k, b))
    BY <1>9, <2>1, <2>2
  <2>4. /\ CompactText(a, Less(k, b)) \in Nat /\ CompactText(a, Less(k, b)) <= a
        /\ CompactText(a, Less(k, b)) <= k - b \/ CompactText(a, Less(k, b)) <= 0
    BY DEF CompactText, Less, Smaller
  <2> QED
    BY <2>1, <2>2, <2>3, <2>4
<1>11. Greedy(DOMAIN ms, p, c, d, k)
  BY <1>4, <1>10 DEF Greedy
<1>12. SumOver(d, DOMAIN ms) <= k
  <2>1. 2 * Len(ms) + 2 \in Nat
    BY <1>1
  <2> QED
    BY <1>1, <1>6, <1>11, <2>1, SumGreedy
<1>13. Sized(Compacted(ms))
  <2>0. PICK z : z = Compacted(ms)
    OBVIOUS
  <2>1. DOMAIN z = DOMAIN ms /\ \A i \in DOMAIN ms : z[i].metadata = ms[i].metadata
    BY <2>0, CompactedSizes
  <2>2. \A i \in DOMAIN ms : z[i].chars = d[i]
    BY <1>8, <2>0, <2>1 DEF CharsOf
  <2> QED
    BY <1>10, <2>0, <2>1, <2>2 DEF Sized
<1> QED
  BY <1>2, <1>8, <1>12, <1>13

LEMMA CompactedFits ==
  ASSUME NEW ms, IsMessages(ms), Sized(ms), room \in Int, room >= 0, Framing(ms) <= room
  PROVE  Estimated(Compacted(ms)) <= room
<1>1. PICK z : z = Compacted(ms)
  OBVIOUS
<1>2. IsMessages(z) /\ Alike(z, ms) /\ DOMAIN z = DOMAIN ms
  BY <1>1, CompactedAlike DEF Alike
<1>3. Characters(ms) \in Nat /\ Sized(z) /\ SumOver(CharsOf(z), DOMAIN z) <= Characters(ms)
  BY <1>1, <1>2, TextsFit
<1>4. PICK f \in Int : f = Framing(ms) /\ f = Framing(z)
  BY <1>2, EstimateBounded, FramingSame
<1>5. PICK e \in Int : e = Estimated(z)
  BY <1>2, <1>3, EstimateBounded
<1>6. PICK c \in Int : c = SumOver(CharsOf(z), DOMAIN z)
  BY <1>2, <1>3, EstimateBounded
<1>7. PICK n \in Nat : n = Len(z)
  BY <1>2, Listed
<1>8. 4 * e <= 4 * f + c - n
  BY <1>2, <1>3, <1>4, <1>5, <1>6, <1>7, EstimateBounded
<1>9. f <= room /\ c <= Characters(ms)
  BY <1>3, <1>4, <1>6
<1>10. CASE f < room
  <2>1. Characters(ms) = 4 * (room - f)
    BY <1>4, <1>10 DEF Characters, Larger, Less
  <2> QED
    BY <1>1, <1>5, <1>7, <1>8, <1>9, <2>1
<1>11. CASE f = room /\ n >= 1
  <2>1. Characters(ms) = 1
    BY <1>4, <1>11 DEF Characters, Larger, Less
  <2> QED
    BY <1>1, <1>5, <1>7, <1>8, <1>9, <1>11, <2>1
<1>12. CASE n = 0
  <2>1. DOMAIN z = {}
    <3>1. DOMAIN z = 1..Len(z)
      BY <1>2, Listed
    <3>2. 1..0 = {}
      OBVIOUS
    <3> QED
      BY <1>7, <1>12, <3>1, <3>2
  <2>2. e = 0
    BY <1>5, <2>1, SumsOfMessages, SumEmpty
  <2> QED
    BY <1>1, <1>5, <2>2
<1> QED
  BY <1>7, <1>9, <1>10, <1>11, <1>12

\* A prompt that is ready is cut to its room, where there is one.
Fitting == Framing(prompt) <= room => Estimated(prompt) <= room

RoomInv ==
  /\ Sized(conversation) /\ Sized(prompt)
  /\ detected.context \in Nat
  /\ room \in Nat
  /\ call \notin {"new", "trim"} /\ detected.context # 0 => Fitting

LEMMA BudgetIsNat ==
  ASSUME NEW context \in Nat, NEW reserved \in Nat
  PROVE  PromptBudget(context, reserved) \in Nat
<1>1. SafetyTokens \in Nat /\ MaxTokens \in Int
  BY PromptNumbers
<1>2. Larger(CompletionTokens(context), 0) \in Nat
  BY <1>1 DEF CompletionTokens, Larger, Smaller
<1>3. Smaller(SafetyTokens, context \div 8) \in Nat
  BY <1>1 DEF Smaller
<1>4. \A a, b \in Nat : Less(a, b) \in Nat /\ Larger(256, a) \in Nat
  BY DEF Less, Larger
<1> QED
  BY <1>2, <1>3, <1>4 DEF PromptBudget

LEMMA CatalogueSized ==
  ASSUME NEW ms, IsMessages(ms), Sized(ms)
  PROVE  Sized(WithCatalogue(ms))
<1>0. CatalogueChars \in Nat
  BY PromptNumbers
<1>1. PICK S : ms \in Seq(S)
  BY DEF IsMessages
<1>2. Len(ms) \in Nat /\ DOMAIN ms = 1..Len(ms)
  BY <1>1
<1> DEFINE x == [role |-> "system", chars |-> CatalogueChars, metadata |-> 0, id |-> 0]
<1>3. CASE WithCatalogue(ms) = ms
  BY <1>3
<1>4. CASE \E f : WithCatalogue(ms) = [ms EXCEPT ![f].chars = @ + CatalogueChars]
  <2>1. PICK f : WithCatalogue(ms) = [ms EXCEPT ![f].chars = @ + CatalogueChars]
    BY <1>4
  <2>2. PICK y : y = [ms[f] EXCEPT !.chars = ms[f].chars + CatalogueChars]
    OBVIOUS
  <2>3. PICK z : z = [ms EXCEPT ![f] = y]
    OBVIOUS
  <2>4. WithCatalogue(ms) = z
    BY <2>1, <2>2, <2>3
  <2>5. DOMAIN z = DOMAIN ms /\ \A i \in DOMAIN ms : z[i] = IF i = f THEN y ELSE ms[i]
    BY <2>3
  <2>6. f \in DOMAIN ms => y.chars \in Nat /\ y.metadata \in Nat
    <3> SUFFICES ASSUME f \in DOMAIN ms PROVE y.chars \in Nat /\ y.metadata \in Nat
      OBVIOUS
    <3>1. IsMessage(ms[f]) /\ ms[f].chars \in Nat /\ ms[f].metadata \in Nat
      BY DEF IsMessages, Sized
    <3>2. PICK c : c = ms[f].chars + CatalogueChars
      OBVIOUS
    <3>3. y = [role |-> ms[f].role, chars |-> c, metadata |-> ms[f].metadata, id |-> ms[f].id]
      BY <2>2, <3>1, <3>2, TextReplaced
    <3>4. c \in Nat
      BY <1>0, <3>1, <3>2
    <3> QED
      BY <3>1, <3>3, <3>4
  <2>7. Sized(z)
    BY <2>5, <2>6 DEF Sized
  <2> QED
    BY <2>4, <2>7
<1>5. CASE WithCatalogue(ms) = <<x>> \o ms
  <2>1. PICK y : y = x
    OBVIOUS
  <2>2. y.chars \in Nat /\ y.metadata \in Nat
    BY <1>0, <2>1
  <2>3. PICK z : z = <<y>> \o ms
    OBVIOUS
  <2>4. /\ DOMAIN z = 1..(Len(ms) + 1) /\ z[1] = y
        /\ \A k \in 2..(Len(ms) + 1) : k - 1 \in DOMAIN ms /\ z[k] = ms[k - 1]
    <3>1. ms \in Seq(S \cup {y})
      BY <1>1
    <3> QED
      BY <1>2, <2>3, <3>1
  <2>5. Sized(z)
    <3> SUFFICES ASSUME NEW k \in DOMAIN z PROVE z[k].chars \in Nat /\ z[k].metadata \in Nat
      BY DEF Sized
    <3>1. CASE k = 1
      BY <2>2, <2>4, <3>1
    <3>2. CASE k # 1
      <4>1. k \in 2..(Len(ms) + 1)
        BY <1>2, <2>4, <3>2
      <4> QED
        BY <2>4, <4>1 DEF Sized
    <3> QED
      BY <3>1, <3>2
  <2> QED
    BY <1>5, <2>1, <2>3, <2>5
<1> QED
  BY <1>3, <1>4, <1>5 DEF WithCatalogue

LEMMA CutSized ==
  ASSUME NEW ms, IsMessages(ms), Sized(ms), NEW u \in DOMAIN ms
  PROVE  Sized(CutTo(ms, u))
<1>1. Len(ms) \in Nat /\ DOMAIN ms = 1..Len(ms)
  BY Listed
<1>2. PICK z : z = CutTo(ms, u)
  OBVIOUS
<1>3. /\ DOMAIN z = 1..(Len(ms) - u + 2) /\ z[1] = ms[1]
      /\ \A k \in 2..(Len(ms) - u + 2) : z[k] = ms[u + k - 2]
  BY <1>2, CutAt
<1>4. \A k \in DOMAIN z : \E i \in DOMAIN ms : z[k] = ms[i]
  <2> SUFFICES ASSUME NEW k \in DOMAIN z PROVE \E i \in DOMAIN ms : z[k] = ms[i]
    OBVIOUS
  <2>1. CASE k = 1
    <3>1. 1 \in DOMAIN ms
      BY <1>1
    <3> QED
      BY <1>3, <2>1, <3>1
  <2>2. CASE k # 1
    <3>1. k \in 2..(Len(ms) - u + 2) /\ u + k - 2 \in DOMAIN ms
      BY <1>1, <1>3, <2>2
    <3> QED
      BY <1>3, <3>1
  <2> QED
    BY <2>1, <2>2
<1> QED
  BY <1>2, <1>4 DEF Sized

LEMMA RoomStep == RoomInv /\ PromptInv /\ [ProviderNext]_providerVars => RoomInv'
<1> SUFFICES ASSUME RoomInv, PromptInv, [ProviderNext]_providerVars PROVE RoomInv'
  OBVIOUS
<1>0. /\ Sized(conversation) /\ Sized(prompt) /\ IsMessages(conversation) /\ IsMessages(prompt)
      /\ detected.context \in Nat /\ room \in Nat
  BY DEF RoomInv, PromptInv
<1>1. ASSUME UNCHANGED promptVars, call \notin {"new", "trim"} PROVE RoomInv'
  BY <1>1 DEF RoomInv, promptVars, Fitting
<1>2. CASE Prepare
  <2>1. /\ conversation' = WithCatalogue(conversation) /\ prompt' = conversation'
        /\ detected' = detected /\ call' = (IF detected.context = 0 THEN "post" ELSE "trim")
    BY <1>2 DEF Prepare
  <2>2. Sized(conversation') /\ Sized(prompt')
    BY <1>0, <2>1, CatalogueSized
  <2>3. room' \in Nat
    <3>1. PICK r : r = IF offered /\ detected.tools # "no" THEN ToolTokens ELSE 0
      OBVIOUS
    <3>2. r \in Nat
      BY <3>1, PromptNumbers
    <3>3. room' = PromptBudget(detected.context, r)
      BY <1>2, <3>1 DEF Prepare
    <3> QED
      BY <1>0, <3>2, <3>3, BudgetIsNat
  <2> QED
    BY <1>0, <2>1, <2>2, <2>3 DEF RoomInv
<1>3. CASE DropOldest
  <2>1. /\ prompt' = CutTo(prompt, NextTurn(prompt)) /\ LatestUser(prompt) > 2
        /\ UNCHANGED <<conversation, detected, room, call>> /\ call = "trim"
    BY <1>3 DEF DropOldest, MustDrop, requestVars
  <2>2. NextTurn(prompt) \in DOMAIN prompt
    BY <1>0, <2>1, UsersBounded
  <2>3. Sized(prompt')
    BY <1>0, <2>1, <2>2, CutSized
  <2> QED
    BY <1>0, <2>1, <2>3 DEF RoomInv
<1>4. CASE Trimmed
  <2>1. UNCHANGED <<conversation, detected, room>>
    BY <1>4 DEF Trimmed
  <2>2. CASE Estimated(prompt) > room
    <3>1. prompt' = Compacted(prompt)
      BY <1>4, <2>2 DEF Trimmed
    <3>2. Sized(Compacted(prompt)) /\ Framing(Compacted(prompt)) = Framing(prompt)
      <4>1. Alike(Compacted(prompt), prompt)
        BY <1>0, CompactedAlike
      <4> QED
        BY <1>0, <4>1, TextsFit, FramingSame
    <3>3. Framing(prompt) <= room => Estimated(Compacted(prompt)) <= room
      BY <1>0, CompactedFits
    <3>4. Fitting'
      <4>1. PICK z : z = Compacted(prompt)
        OBVIOUS
      <4>2. Framing(z) <= room => Estimated(z) <= room
        BY <3>2, <3>3, <4>1
      <4>3. prompt' = z /\ room' = room
        BY <2>1, <3>1, <4>1
      <4>4. Framing(prompt)' = Framing(z) /\ Estimated(prompt)' = Estimated(z)
        BY <4>3 DEF Framing, Estimated
      <4> QED
        BY <4>2, <4>3, <4>4 DEF Fitting
    <3> QED
      BY <1>0, <2>1, <3>1, <3>2, <3>4 DEF RoomInv
  <2>3. CASE ~(Estimated(prompt) > room)
    <3>1. prompt' = prompt
      BY <1>4, <2>3 DEF Trimmed
    <3>2. Estimated(prompt) <= room
      <4>1. Estimated(prompt) \in Int
        BY <1>0, EstimateBounded
      <4> QED
        BY <1>0, <2>3, <4>1
    <3>3. Fitting'
      <4>1. Estimated(prompt)' = Estimated(prompt)
        BY <3>1 DEF Estimated
      <4> QED
        BY <2>1, <3>2, <4>1 DEF Fitting
    <3> QED
      BY <1>0, <2>1, <3>1, <3>3 DEF RoomInv
  <2> QED
    BY <2>2, <2>3
<1>5. ASSUME NEW tools \in {"yes", "no", "unknown"}, NEW context \in Contexts \union {0},
             Health(tools, context)
      PROVE  RoomInv'
  <2>1. /\ call = "new" /\ call' = call /\ UNCHANGED <<conversation, prompt, room>>
        /\ detected' = [context |-> IF ConfigContext # 0 \/ context = 0
                                    THEN detected.context ELSE context, tools |-> tools]
    BY <1>5 DEF Health, requestVars
  <2>2. detected'.context \in Nat
    BY <1>0, <2>1, PromptNumbers
  <2> QED
    BY <1>0, <2>1, <2>2 DEF RoomInv
<1>6. ASSUME NEW status, Refused(status) PROVE RoomInv'
  BY <1>1, <1>6 DEF Refused
<1>7. ASSUME NEW r, Answered(r) PROVE RoomInv'
  BY <1>1, <1>7 DEF Answered
<1>8. CASE \/ Post \/ TransportFails \/ Slept \/ StreamEvent \/ StreamEnds \/ StreamBreaks
           \/ Parse \/ Dropped \/ Delete
  <2>1. UNCHANGED promptVars /\ call \notin {"new", "trim"}
    BY <1>8 DEF Post, TransportFails, Slept, StreamEvent, StreamEnds, StreamBreaks, Parse, Dropped,
       Delete
  <2> QED
    BY <1>1, <2>1
<1>9. CASE UNCHANGED providerVars
  BY <1>9 DEF providerVars, promptVars, requestVars, RoomInv, Fitting
<1> QED
  BY <1>2, <1>3, <1>4, <1>5, <1>6, <1>7, <1>8, <1>9 DEF ProviderNext

\* What is posted is estimated at no more than the room that prepare_messages computed for it,
\* however many turns were dropped, whichever texts were cut to what the ones before them left and
\* however often a size was rounded up, unless the messages do not fit with no text at all.
THEOREM PromptsFit == ProviderSpec => []PromptFits
<1>1. ProviderInit => RoomInv /\ PromptInv
  <2> SUFFICES ASSUME ProviderInit PROVE RoomInv /\ PromptInv
    OBVIOUS
  <2>1. conversation \in Seq(Message) /\ prompt = conversation
    BY HistoriesSound DEF ProviderInit
  <2>2. Sized(conversation) /\ Sized(prompt)
    <3>1. \A i \in DOMAIN conversation : conversation[i] \in Message
      BY <2>1
    <3>2. \A m \in Message : m.chars \in Nat /\ m.metadata \in Nat
      BY DEF Message
    <3> QED
      BY <2>1, <3>1, <3>2 DEF Sized
  <2>3. detected.context \in Nat /\ room \in Nat /\ call = "new"
    BY PromptNumbers DEF ProviderInit
  <2> QED
    BY <2>2, <2>3, PromptStart DEF RoomInv
<1>2. RoomInv => PromptFits
  BY DEF RoomInv, Fitting, PromptFits
<1> QED
  BY <1>1, <1>2, RoomStep, PromptStep, PTL DEF ProviderSpec

\* A request is sound from its preparation to its end: the three theorems above together
\* (prepare_messages, complete, CancellationGuard).  Of what goes on generating it
\* speaks as NothingLeftBehind does, of the last attempt.
THEOREM CompletionsAreSound == ProviderSpec => []CompletionSound
BY PromptStaysWhole, PromptsFit, RequestsEndClean, PTL DEF CompletionSound

-----------------------------------------------------------------------------
(* Documents.                                                              *)
(*                                                                         *)
(* Completeness is judged by counts and indices alone, and calls with dif- *)
(* ferent chunk sizes may break off and share a count.  The inductive      *)
(* invariant is IngestInv: every record in the log has, for some one pair  *)
(* of sizes, all chunks up to its own in the log (IsBacked), because what  *)
(* is pending is committed in order, and the same of what is pending, with *)
(* what is pending before it.  So a last chunk has all the others, and     *)
(* chunks of one pair of sizes cover the content.                          *)

\* The number of chunks of a content.
CountOf(c, s) == ChunkCount(Words[c], s[1], s[2])

LEMMA Multiples ==
  ASSUME NEW a \in Nat, NEW d \in Nat, d > 0
  PROVE  a * d \in Nat /\ a * d >= a /\ (a + 1) * d = a * d + d
<1>1. a * d \in Nat /\ (a + 1) * d = a * d + d
  OBVIOUS
<1>2. a * d >= a
  <2>1. a * (d - 1) \in Nat /\ a * d = a * (d - 1) + a
    OBVIOUS
  <2> QED
    BY <1>1, <2>1
<1> QED
  BY <1>1, <1>2

\* Chunk n is the last: it reaches the last word.
Reaches(n, k, d, t) == (k - 1) * d + t >= n

LEMMA LastChunk ==
  ASSUME NEW n \in Nat, n > 0, NEW t \in Nat, NEW o \in Nat, o < t
  PROVE  ChunkCount(n, t, o) \in 1..n /\ Reaches(n, ChunkCount(n, t, o), t - o, t)
<1>1. PICK d \in Nat : d = t - o /\ d > 0
  OBVIOUS
<1>2. PICK K : K = {k \in 1..n : Reaches(n, k, d, t)}
  OBVIOUS
<1>3. n \in K
  <2>1. n - 1 \in Nat
    OBVIOUS
  <2>2. (n - 1) * d \in Nat /\ (n - 1) * d >= n - 1
    BY <1>1, <2>1, Multiples
  <2> QED
    BY <1>1, <1>2, <2>2 DEF Reaches
<1>4. PICK k \in K : \A j \in K : k <= j
  <2>1. K \in SUBSET Nat
    BY <1>2
  <2> QED
    BY <1>3, <2>1, LeastNatural
<1>5. k \in 1..n /\ Reaches(n, k, d, t)
  BY <1>2, <1>4
<1>6. \A j \in 1..(k - 1) : ~Reaches(n, j, d, t)
  <2> SUFFICES ASSUME NEW j \in 1..(k - 1), Reaches(n, j, d, t) PROVE FALSE
    OBVIOUS
  <2>1. j \in K
    BY <1>2, <1>5
  <2> QED
    BY <1>4, <1>5, <2>1
<1>7. \A j \in Nat : (j - 1) * d + t \in Int
  BY <1>1
<1>8. \A j \in 1..(k - 1) : (j - 1) * d + t < n
  BY <1>5, <1>6, <1>7 DEF Reaches
<1>9. ChunkCount(n, t, o) =
        CHOOSE i \in 1..n : Reaches(n, i, d, t) /\ \A j \in 1..(i - 1) : (j - 1) * d + t < n
  BY <1>1 DEF ChunkCount, Reaches
<1>10. ChunkCount(n, t, o) \in 1..n /\ Reaches(n, ChunkCount(n, t, o), d, t)
  BY <1>5, <1>8, <1>9, Zenon
<1> QED
  BY <1>1, <1>10

\* The words of a chunk.
WordsIn(x) == x[2]..x[3]

LEMMA ChunkWords ==
  ASSUME NEW c, NEW k, NEW s
  PROVE  /\ Chunk(c, k, s)[1] = c
         /\ WordsIn(Chunk(c, k, s)) =
              ((k - 1) * (s[1] - s[2]) + 1)..
              (IF (k - 1) * (s[1] - s[2]) + s[1] < Words[c]
               THEN (k - 1) * (s[1] - s[2]) + s[1] ELSE Words[c])
BY DEF Chunk, WordsIn

\* The chunks of a content that has words.
LEMMA CountedChunks ==
  ASSUME NEW c \in Content, NEW s \in Settings, Words[c] > 0
  PROVE  /\ CountOf(c, s) \in Nat /\ CountOf(c, s) >= 1
         /\ Reaches(Words[c], CountOf(c, s), s[1] - s[2], s[1])
<1>1. PICK n \in Nat : n = Words[c]
  BY IngestTypes DEF Content
<1>2. PICK t \in Nat : t = s[1]
  BY IngestTypes
<1>3. PICK o \in Nat : o = s[2] /\ o < t
  BY <1>2, IngestTypes
<1>4. ChunkCount(n, t, o) \in 1..n /\ Reaches(n, ChunkCount(n, t, o), t - o, t)
  BY <1>1, <1>3, LastChunk
<1> QED
  BY <1>1, <1>2, <1>3, <1>4 DEF CountOf

\* A chunk holds words of the content.
LEMMA ChunkInside ==
  ASSUME NEW c \in Content, NEW s \in Settings, NEW k \in 1..CountOf(c, s)
  PROVE  WordsIn(Chunk(c, k, s)) \subseteq 1..Words[c] /\ Words[c] > 0
<1>1. s[1] \in Nat /\ s[2] \in Nat /\ s[2] < s[1] /\ Words[c] \in Nat
  BY IngestTypes DEF Content
<1>2. Words[c] > 0
  <2> SUFFICES ASSUME Words[c] = 0 PROVE FALSE
    BY <1>1
  <2>1. CountOf(c, s) = 0
    BY DEF CountOf, ChunkCount
  <2> QED
    BY <2>1
<1>3. CountOf(c, s) \in Nat
  BY <1>2, CountedChunks
<1>4. PICK d \in Nat : d = s[1] - s[2] /\ d > 0
  BY <1>1
<1>5. k - 1 \in Nat /\ (k - 1) * d \in Nat
  <2>1. k - 1 \in Nat
    BY <1>3
  <2> QED
    BY <1>4, <2>1, Multiples
<1>6. PICK a \in Nat : a = (k - 1) * (s[1] - s[2])
  BY <1>4, <1>5
<1>7. PICK z : z = IF a + s[1] < Words[c] THEN a + s[1] ELSE Words[c]
  OBVIOUS
<1>8. WordsIn(Chunk(c, k, s)) = (a + 1)..z
  BY <1>6, <1>7, ChunkWords
<1>9. z \in Nat /\ z <= Words[c]
  BY <1>1, <1>6, <1>7
<1>10. PICK n \in Nat : n = Words[c]
  BY <1>1
<1>11. (a + 1)..z \subseteq 1..n
  BY <1>9, <1>10
<1> QED
  BY <1>2, <1>8, <1>10, <1>11

\* Every word of the content is in a chunk: the last chunk that begins before it.
LEMMA ChunksCover ==
  ASSUME NEW c \in Content, NEW s \in Settings, Words[c] > 0, NEW w \in 1..Words[c]
  PROVE  \E k \in 1..CountOf(c, s) : w \in WordsIn(Chunk(c, k, s))
<1>1. s[1] \in Nat /\ s[2] \in Nat /\ s[2] < s[1] /\ Words[c] \in Nat
  BY IngestTypes DEF Content
<1>2. PICK d \in Nat : d = s[1] - s[2] /\ d > 0 /\ d <= s[1]
  BY <1>1
<1>3. PICK n \in Nat : n = CountOf(c, s)
  BY CountedChunks
<1>4. n >= 1 /\ (n - 1) * d + s[1] >= Words[c]
  BY <1>2, <1>3, CountedChunks DEF Reaches
<1>5. PICK K : K = {k \in 1..n : (k - 1) * d < w}
  OBVIOUS
<1>6. 1 \in K
  BY <1>1, <1>2, <1>4, <1>5
<1>7. PICK k \in K : \A j \in K : j <= k
  <2>1. K \in SUBSET (0..n)
    BY <1>5
  <2> QED
    BY <1>6, <2>1, GreatestBelow
<1>8. k \in 1..n /\ (k - 1) * d < w
  BY <1>5, <1>7
<1>9. PICK a \in Nat : a = (k - 1) * d
  <2>1. k - 1 \in Nat
    BY <1>8
  <2> QED
    BY <1>2, <2>1, Multiples
<1>10. w <= a + s[1]
  <2>1. CASE k = n
    BY <1>1, <1>4, <1>9, <2>1
  <2>2. CASE k # n
    <3>1. k + 1 \in 1..n /\ k + 1 \notin K
      BY <1>7, <1>8, <2>2
    <3>2. ~((k + 1 - 1) * d < w)
      BY <1>5, <3>1
    <3>3. (k + 1 - 1) * d = a + d
      <4>1. k - 1 \in Nat /\ k - 1 + 1 = k /\ k + 1 - 1 = k
        BY <1>8
      <4>2. (k - 1 + 1) * d = (k - 1) * d + d
        BY <1>2, <4>1, Multiples
      <4> QED
        BY <1>9, <4>1, <4>2
    <3> QED
      BY <1>1, <1>2, <1>9, <3>2, <3>3
  <2> QED
    BY <2>1, <2>2
<1>11. a = (k - 1) * (s[1] - s[2])
  BY <1>2, <1>9
<1>12. w \in WordsIn(Chunk(c, k, s))
  <2>1. PICK z : z = IF a + s[1] < Words[c] THEN a + s[1] ELSE Words[c]
    OBVIOUS
  <2>2. WordsIn(Chunk(c, k, s)) = (a + 1)..z
    BY <1>11, <2>1, ChunkWords
  <2>3. z \in Nat /\ w <= z
    BY <1>1, <1>9, <1>10, <2>1
  <2> QED
    BY <1>1, <1>8, <1>9, <2>2, <2>3
<1> QED
  BY <1>3, <1>8, <1>12

-----------------------------------------------------------------------------
(* Records.                                                                *)

LEMMA ChunksCounted ==
  ASSUME NEW c \in Content, NEW s \in Settings
  PROVE  /\ CountOf(c, s) \in Nat /\ Len(Chunks(c, s)) = CountOf(c, s)
         /\ DOMAIN Chunks(c, s) = 1..CountOf(c, s)
<1>1. CountOf(c, s) \in Nat
  <2>1. CASE Words[c] = 0
    <3>1. CountOf(c, s) = 0
      BY <2>1 DEF CountOf, ChunkCount
    <3> QED
      BY <3>1
  <2>2. CASE Words[c] # 0
    <3>1. Words[c] > 0
      BY <2>2, IngestTypes DEF Content
    <3> QED
      BY <3>1, CountedChunks
  <2> QED
    BY <2>1, <2>2
<1>2. PICK n \in Nat : n = CountOf(c, s)
  BY <1>1
<1>3. PICK z : z = [k \in 1..n |-> Chunk(c, k, s)]
  OBVIOUS
<1>4. Chunks(c, s) = z
  BY <1>2, <1>3 DEF Chunks, CountOf
<1>5. DOMAIN z = 1..n /\ Len(z) = n
  BY <1>3
<1> QED
  BY <1>2, <1>4, <1>5

\* A record of the document of p with content c.
IsRecord(e, p, c, k, s) ==
  /\ e.path = p /\ e.doc = <<p, c>> /\ e.index = k /\ e.count = CountOf(c, s)
  /\ e.chunk = Chunk(c, k, s)

LEMMA EventFields ==
  ASSUME NEW p, NEW c \in Content, NEW k, NEW s \in Settings
  PROVE  IsRecord(ChunkEvent(p, c, k, s), p, c, k, s)
<1>1. Len(Chunks(c, s)) = CountOf(c, s)
  BY ChunksCounted
<1>2. PICK d : d = <<p, c>>
  OBVIOUS
<1>3. PICK x : x = Chunk(c, k, s)
  OBVIOUS
<1>4. ChunkEvent(p, c, k, s) =
        [path |-> p, doc |-> d, index |-> k, count |-> Len(Chunks(c, s)), chunk |-> x]
  BY <1>2, <1>3 DEF ChunkEvent
<1> QED
  BY <1>1, <1>2, <1>3, <1>4 DEF IsRecord

IsOldRecord(e, p, c, k, s) ==
  e.path = p /\ e.doc = Legacy /\ e.index = k /\ e.chunk = Chunk(c, k, s)

LEMMA LegacyFields ==
  ASSUME NEW p, NEW c, NEW k, NEW s
  PROVE  IsOldRecord(LegacyEvent(p, c, k, s), p, c, k, s)
<1>1. PICK d : d = <<p, c>>
  OBVIOUS
<1>2. PICK x : x = Chunk(c, k, s)
  OBVIOUS
<1>3. PICK n : n = Len(Chunks(c, s))
  OBVIOUS
<1>4. PICK l : l = Legacy
  OBVIOUS
<1>5. LegacyEvent(p, c, k, s) =
        [[path |-> p, doc |-> d, index |-> k, count |-> n, chunk |-> x]
           EXCEPT !.doc = l, !.count = 0]
  BY <1>1, <1>2, <1>3, <1>4 DEF LegacyEvent, ChunkEvent
<1>6. LegacyEvent(p, c, k, s) = [path |-> p, doc |-> l, index |-> k, count |-> 0, chunk |-> x]
  BY <1>5
<1> QED
  BY <1>2, <1>4, <1>6 DEF IsOldRecord

LEMMA NoDocument == \A p, c : <<p, c>> # Legacy
BY DEF Legacy

-----------------------------------------------------------------------------
(* The invariant of the ingestion.                                         *)

\* A record of the older tool.
IsOld(e) ==
  \E p \in Path, c \in Content, s \in Settings :
    \E k \in 1..CountOf(c, s) : e = LegacyEvent(p, c, k, s)

\* A record whose document has, for the same chunk sizes, every chunk up to it in L.
IsBacked(e, L) ==
  \E c \in Content, s \in Settings :
    \E k \in 1..CountOf(c, s) : /\ e = ChunkEvent(e.path, c, k, s)
                                /\ \A j \in 1..k : ChunkEvent(e.path, c, j, s) \in L

\* A record of this tool; nothing is missing before it unless its path is
\* one of those in T that lost a record.
IsFresh(e, T, L) ==
  /\ e.path \in Path
  /\ \E c \in Content, s \in Settings :
       \E k \in 1..CountOf(c, s) : e = ChunkEvent(e.path, c, k, s)
  /\ e.path \notin T => IsBacked(e, L)

IsPlan(P) ==
  /\ \A e \in P : IsFresh(e, torn, Logged \cup P)
  /\ ~forced => P \cap Logged = {}

CallOK(a) ==
  \/ ingest[a] = NotCalled
  \/ /\ ingest[a].at \in {"planned", "committing"} /\ holder = a
     /\ IsPlan(ingest[a].pending)

LogOK ==
  /\ \E S : log \in Seq(S)
  /\ \A i \in DOMAIN log : IsOld(log[i]) \/ IsFresh(log[i], torn, Logged)
  /\ ~forced => \A i, j \in DOMAIN log : log[i] = log[j] => i = j

IngestInv ==
  /\ LogOK
  /\ forced \in BOOLEAN
  /\ DOMAIN ingest = Caller
  /\ disk \in [Path -> Content]
  /\ \A a \in Caller : CallOK(a)

LEMMA LoggedIs ==
  Logged = {log[i] : i \in DOMAIN log}
BY DEF Logged, ToSet

-----------------------------------------------------------------------------
(* What the invariant says of a document.                                  *)

LEMMA RecordsInside ==
  ASSUME IngestInv, NEW e \in Logged
  PROVE  WordsIn(e.chunk) \subseteq 1..Words[e.chunk[1]]
<1>1. PICK i \in DOMAIN log : e = log[i]
  BY LoggedIs
<1>2. IsOld(e) \/ IsFresh(e, torn, Logged)
  BY <1>1 DEF IngestInv, LogOK
<1>3. ASSUME NEW c \in Content, NEW s \in Settings, NEW k \in 1..CountOf(c, s),
             e.chunk = Chunk(c, k, s)
      PROVE  WordsIn(e.chunk) \subseteq 1..Words[e.chunk[1]]
  <2>1. WordsIn(Chunk(c, k, s)) \subseteq 1..Words[c]
    BY ChunkInside
  <2>2. Chunk(c, k, s)[1] = c
    BY ChunkWords
  <2> QED
    BY <1>3, <2>1, <2>2
<1>4. CASE IsOld(e)
  <2>1. PICK p \in Path, c \in Content, s \in Settings :
          \E k \in 1..CountOf(c, s) : e = LegacyEvent(p, c, k, s)
    BY <1>4 DEF IsOld
  <2>2. PICK k \in 1..CountOf(c, s) : e = LegacyEvent(p, c, k, s)
    BY <2>1
  <2>3. e.chunk = Chunk(c, k, s)
    BY <2>2, LegacyFields DEF IsOldRecord
  <2> QED
    BY <1>3, <2>3
<1>5. CASE IsFresh(e, torn, Logged)
  <2>1. PICK c \in Content, s \in Settings :
          \E k \in 1..CountOf(c, s) : e = ChunkEvent(e.path, c, k, s)
    BY <1>5 DEF IsFresh
  <2>2. PICK k \in 1..CountOf(c, s) : e = ChunkEvent(e.path, c, k, s)
    BY <2>1
  <2>3. IsRecord(e, e.path, c, k, s)
    BY <2>2, EventFields
  <2>4. e.chunk = Chunk(c, k, s)
    BY <2>3 DEF IsRecord
  <2> QED
    BY <1>3, <2>4
<1> QED
  BY <1>2, <1>4, <1>5

\* The chunks of a document, under an identity or as legacy records, hold its words.
Holds(p, c, s) ==
  \A k \in 1..CountOf(c, s) :
    \E e \in Logged : e.path = p /\ e.doc \in {<<p, c>>, Legacy} /\ e.chunk = Chunk(c, k, s)

LEMMA HeldIsKept ==
  ASSUME IngestInv, NEW p, NEW c \in Content, NEW s \in Settings, Words[c] > 0, Holds(p, c, s)
  PROVE  Kept(p, c) = 1..Words[c]
<1>1. PICK R : R = {x \in Logged : x.path = p /\ x.doc \in {<<p, c>>, Legacy} /\ x.chunk[1] = c}
  OBVIOUS
<1>2. Kept(p, c) = UNION {WordsIn(e.chunk) : e \in R}
  BY <1>1 DEF Kept, WordsIn
<1>3. \A e \in R : WordsIn(e.chunk) \subseteq 1..Words[c]
  BY <1>1, RecordsInside
<1>4. \A w \in 1..Words[c] : \E e \in R : w \in WordsIn(e.chunk)
  <2> SUFFICES ASSUME NEW w \in 1..Words[c] PROVE \E e \in R : w \in WordsIn(e.chunk)
    OBVIOUS
  <2>1. PICK k \in 1..CountOf(c, s) : w \in WordsIn(Chunk(c, k, s))
    BY ChunksCover
  <2>2. PICK e \in Logged : /\ e.path = p /\ e.doc \in {<<p, c>>, Legacy}
                            /\ e.chunk = Chunk(c, k, s)
    BY <2>1 DEF Holds
  <2>3. e.chunk[1] = c
    BY <2>2, ChunkWords
  <2> QED
    BY <1>1, <2>1, <2>2, <2>3
<1> QED
  BY <1>2, <1>3, <1>4

LEMMA CompleteIsKept ==
  ASSUME IngestInv, NEW p \in Path \ torn, NEW c \in Content, DocumentIsComplete(p, c)
  PROVE  Kept(p, c) = 1..Words[c]
<1>1. PICK n \in 1..Words[c] : \A k \in 1..n :
        \E e \in Logged : e.doc = <<p, c>> /\ e.count = n /\ e.index = k
  BY DEF DocumentIsComplete
<1>2. Words[c] \in Nat
  BY IngestTypes DEF Content
<1>3. n \in Nat /\ n >= 1 /\ Words[c] > 0 /\ n \in 1..n
  BY <1>1, <1>2
<1>4. PICK e \in Logged : e.doc = <<p, c>> /\ e.count = n /\ e.index = n
  BY <1>1, <1>3
<1>5. PICK i \in DOMAIN log : e = log[i]
  BY LoggedIs
<1>6. ~IsOld(e)
  <2> SUFFICES ASSUME IsOld(e) PROVE FALSE
    OBVIOUS
  <2>1. e.doc = Legacy
    BY LegacyFields DEF IsOld, IsOldRecord
  <2> QED
    BY <1>4, <2>1, NoDocument
<1>7. IsFresh(e, torn, Logged)
  BY <1>5, <1>6 DEF IngestInv, LogOK
<1>8. e.path = p
  <2>1. PICK d \in Content, s \in Settings :
          \E k \in 1..CountOf(d, s) : e = ChunkEvent(e.path, d, k, s)
    BY <1>7 DEF IsFresh
  <2>2. PICK k \in 1..CountOf(d, s) : e = ChunkEvent(e.path, d, k, s)
    BY <2>1
  <2>3. IsRecord(e, e.path, d, k, s)
    BY <2>2, EventFields
  <2>4. <<e.path, d>> = <<p, c>>
    BY <1>4, <2>3 DEF IsRecord
  <2> QED
    BY <2>4
<1>9. IsBacked(e, Logged)
  BY <1>7, <1>8 DEF IsFresh
<1>10. PICK d \in Content, s \in Settings :
          \E k \in 1..CountOf(d, s) : /\ e = ChunkEvent(e.path, d, k, s)
                                      /\ \A j \in 1..k : ChunkEvent(e.path, d, j, s) \in Logged
  BY <1>9 DEF IsBacked
<1>11. PICK k \in 1..CountOf(d, s) : /\ e = ChunkEvent(e.path, d, k, s)
                                     /\ \A j \in 1..k : ChunkEvent(e.path, d, j, s) \in Logged
  BY <1>10
<1>12. IsRecord(e, e.path, d, k, s)
  BY <1>11, EventFields
<1>13. d = c /\ k = n /\ CountOf(c, s) = n
  <2>1. <<e.path, d>> = <<p, c>>
    BY <1>4, <1>12 DEF IsRecord
  <2>2. d = c
    BY <2>1
  <2> QED
    BY <1>4, <1>12, <2>2 DEF IsRecord
<1>14. Holds(p, c, s)
  <2> SUFFICES ASSUME NEW j \in 1..CountOf(c, s)
               PROVE  \E x \in Logged : /\ x.path = p /\ x.doc \in {<<p, c>>, Legacy}
                                        /\ x.chunk = Chunk(c, j, s)
    BY DEF Holds
  <2>1. PICK x : x = ChunkEvent(p, c, j, s)
    OBVIOUS
  <2>2. x \in Logged
    BY <1>8, <1>11, <1>13, <2>1
  <2>3. IsRecord(x, p, c, j, s)
    BY <2>1, EventFields
  <2> QED
    BY <2>2, <2>3 DEF IsRecord
<1> QED
  BY <1>3, <1>14, HeldIsKept

LEMMA LegacyIsKept ==
  ASSUME IngestInv, NEW p \in Path, NEW c \in Content, NEW s \in Settings,
         IsLegacyComplete(p, c, s)
  PROVE  Kept(p, c) = 1..Words[c]
<1>1. PICK old : old = {i \in DOMAIN log : log[i].path = p /\ log[i].doc = Legacy}
  OBVIOUS
<1>2. /\ old # {} /\ Cardinality(old) = CountOf(c, s)
      /\ \A i \in old : log[i].chunk = Chunk(c, Cardinality(UpTo(old, i)), s)
  BY <1>1, ChunksCounted DEF IsLegacyComplete, UpTo
<1>3. PICK b \in Nat : b = Len(log)
  BY DEF IngestInv, LogOK
<1>4. old \in SUBSET (0..b)
  <2>1. DOMAIN log = 1..b
    BY <1>3 DEF IngestInv, LogOK
  <2> QED
    BY <1>1, <2>1
<1>5. AllCounted(old)
  BY <1>4, Counted
<1>6. Holds(p, c, s)
  <2> SUFFICES ASSUME NEW k \in 1..CountOf(c, s)
               PROVE  \E x \in Logged : /\ x.path = p /\ x.doc \in {<<p, c>>, Legacy}
                                        /\ x.chunk = Chunk(c, k, s)
    BY DEF Holds
  <2>1. PICK i \in old : Cardinality(UpTo(old, i)) = k
    BY <1>2, <1>5 DEF AllCounted
  <2>2. log[i].chunk = Chunk(c, k, s) /\ log[i].path = p /\ log[i].doc = Legacy
    BY <1>1, <1>2, <2>1
  <2>3. log[i] \in Logged
    BY <1>1, <2>1, LoggedIs
  <2> QED
    BY <2>2, <2>3
<1>7. Words[c] > 0
  <2>1. PICK i \in old : TRUE
    BY <1>2
  <2>2. Cardinality(UpTo(old, i)) \in 1..CountOf(c, s)
    BY <1>2, <1>5, <2>1 DEF AllCounted
  <2> QED
    BY <2>2, ChunkInside
<1> QED
  BY <1>6, <1>7, HeldIsKept

LEMMA InvKeepsOnce == IngestInv => DocumentsKeptOnce
<1> SUFFICES ASSUME IngestInv PROVE DocumentsKeptOnce
  OBVIOUS
<1>1. \A p \in Path \ torn, c \in Content, s \in Settings :
        IsIngested(p, c, s) => Kept(p, c) = 1..Words[c]
  BY CompleteIsKept, LegacyIsKept DEF IsIngested
<1>2. ~forced => \A i, j \in DOMAIN log : log[i] = log[j] => i = j
  BY DEF IngestInv, LogOK
<1> QED
  BY <1>1, <1>2 DEF DocumentsKeptOnce

-----------------------------------------------------------------------------
(* One lemma per kind of step.                                             *)

LEMMA BackedByMore ==
  ASSUME NEW e, NEW L, NEW M, L \subseteq M, IsFresh(e, torn, L)
  PROVE  IsFresh(e, torn, M)
<1>1. IsBacked(e, L) => IsBacked(e, M)
  BY DEF IsBacked
<1> QED
  BY <1>1 DEF IsFresh

LEMMA IngestStart == IngestInit => IngestInv
<1> SUFFICES ASSUME IngestInit PROVE IngestInv
  OBVIOUS
<1>0. disk \in [Path -> Content] /\ forced = FALSE /\ ingest = [a \in Caller |-> NotCalled]
  BY DEF IngestInit
<1>1. PICK p \in Path, s \in Settings :
        LET all == [k \in DOMAIN Chunks(disk[p], s) |-> LegacyEvent(p, disk[p], k, s)]
        IN  \E n \in 0..Len(all) : log = SubSeq(all, 1, n)
  BY DEF IngestInit
<1>2. PICK c \in Content : c = disk[p]
  BY <1>0
<1>3. PICK m \in Nat : m = CountOf(c, s) /\ DOMAIN Chunks(c, s) = 1..m
  BY ChunksCounted
<1>4. PICK all : all = [k \in 1..m |-> LegacyEvent(p, c, k, s)]
  OBVIOUS
<1>5. \E n \in 0..Len(all) : log = SubSeq(all, 1, n)
  BY <1>1, <1>2, <1>3, <1>4
<1>6. Len(all) = m /\ all \in Seq({LegacyEvent(p, c, k, s) : k \in 1..m})
  BY <1>4
<1>7. PICK n \in 0..m : log = SubSeq(all, 1, n)
  BY <1>5, <1>6
<1>8. /\ \E S : log \in Seq(S)
      /\ DOMAIN log = 1..n /\ \A k \in 1..n : log[k] = all[k]
  <2>1. PICK S : all \in Seq(S)
    BY <1>6
  <2>2. 1..n \subseteq 1..Len(all) /\ n \in Nat
    BY <1>6, <1>7
  <2>3. SubSeq(all, 1, n) = [k \in 1..n |-> all[k]]
    BY <2>1, <2>2
  <2>4. \A k \in 1..n : all[k] \in S
    BY <2>1, <2>2
  <2>5. [k \in 1..n |-> all[k]] \in Seq(S)
    BY <2>2, <2>4
  <2> QED
    BY <1>7, <2>3, <2>5
<1>9. \A k \in 1..n : k \in 1..m /\ log[k] = LegacyEvent(p, c, k, s)
  <2>1. \A k \in 1..n : k \in 1..m
    OBVIOUS
  <2> QED
    BY <1>4, <1>8, <2>1
<1>10. \A i \in DOMAIN log : IsOld(log[i])
  BY <1>3, <1>8, <1>9 DEF IsOld
<1>11. \A i, j \in DOMAIN log : log[i] = log[j] => i = j
  <2>1. \A i \in DOMAIN log : log[i].index = i
    BY <1>8, <1>9, LegacyFields DEF IsOldRecord
  <2> QED
    BY <2>1
<1>12. LogOK
  BY <1>8, <1>10, <1>11 DEF LogOK
<1>13. \A a \in Caller : ingest[a] = NotCalled
  BY <1>0
<1> QED
  BY <1>0, <1>12, <1>13 DEF IngestInv, CallOK

\* Nobody else has a call while one has.
LEMMA OneCall ==
  ASSUME IngestInv, NEW a \in Caller, ingest[a] # NotCalled, NEW b \in Caller, b # a
  PROVE  ingest[b] = NotCalled /\ holder = a
BY DEF IngestInv, CallOK

LEMMA Planning ==
  ASSUME IngestInv, NEW a \in Caller, NEW ps \in SUBSET Path, NEW s \in Settings,
         NEW force \in BOOLEAN, BeginIngest(a, ps, s, force)
  PROVE  IngestInv'
<1>1. /\ holder = "free" /\ holder' = a /\ UNCHANGED <<log, disk, torn>>
      /\ ingest' = [ingest EXCEPT ![a] = [at |-> "planned", pending |-> PendingOfAll(ps, s, force)]]
      /\ forced' = (forced \/ force)
  BY DEF BeginIngest, LockFree, SetCaller
<1>2. PICK P : P = PendingOfAll(ps, s, force)
  OBVIOUS
<1>3. Logged' = Logged
  BY <1>1 DEF Logged
<1>4. \A e \in P : IsFresh(e, torn, Logged \cup P)
  <2> SUFFICES ASSUME NEW e \in P PROVE IsFresh(e, torn, Logged \cup P)
    OBVIOUS
  <2>1. PICK p \in ps : e \in PendingOf(p, s, force)
    BY <1>2 DEF PendingOfAll
  <2>2. PendingOf(p, s, force) \subseteq P
    BY <1>2, <2>1 DEF PendingOfAll
  <2>3. PICK c \in Content : c = disk[p]
    BY <2>1 DEF IngestInv
  <2>4. DOMAIN Chunks(c, s) = 1..CountOf(c, s) /\ CountOf(c, s) \in Nat
    BY ChunksCounted
  <2>5. PendingOf(p, s, force) =
          {x \in {ChunkEvent(p, c, k, s) : k \in 1..CountOf(c, s)} : force \/ x \notin Logged}
    BY <2>1, <2>3, <2>4 DEF PendingOf
  <2>6. PICK k \in 1..CountOf(c, s) : e = ChunkEvent(p, c, k, s)
    BY <2>1, <2>5
  <2>7. e.path = p
    BY <2>6, EventFields DEF IsRecord
  <2>8. \A j \in 1..k : ChunkEvent(p, c, j, s) \in Logged \cup P
    <3> SUFFICES ASSUME NEW j \in 1..k PROVE ChunkEvent(p, c, j, s) \in Logged \cup P
      OBVIOUS
    <3>1. j \in 1..CountOf(c, s)
      BY <2>4
    <3> QED
      BY <2>2, <2>5, <3>1
  <2>9. IsBacked(e, Logged \cup P)
    BY <2>6, <2>7, <2>8 DEF IsBacked
  <2> QED
    BY <2>6, <2>7, <2>9 DEF IsFresh
<1>5. ~forced' => P \cap Logged = {}
  <2> SUFFICES ASSUME ~forced', NEW e \in P, e \in Logged PROVE FALSE
    OBVIOUS
  <2>1. ~force
    BY <1>1
  <2>2. PICK p \in ps : e \in PendingOf(p, s, force)
    BY <1>2 DEF PendingOfAll
  <2> QED
    BY <2>1, <2>2 DEF PendingOf
<1>6. IsPlan(P)'
  BY <1>1, <1>3, <1>4, <1>5 DEF IsPlan
<1>7. \A b \in Caller : ingest[b] = NotCalled
  BY <1>1, IngestTypes DEF IngestInv, CallOK
<1>8. PICK r : r = [at |-> "planned", pending |-> P]
  OBVIOUS
<1>9. r.at = "planned" /\ r.pending = P
  BY <1>8
<1>10. /\ DOMAIN ingest' = Caller /\ ingest'[a] = r
       /\ \A b \in Caller : b # a => ingest'[b] = ingest[b]
  BY <1>1, <1>2, <1>8 DEF IngestInv
<1>11. \A b \in Caller : CallOK(b)'
  <2> SUFFICES ASSUME NEW b \in Caller PROVE CallOK(b)'
    OBVIOUS
  <2>1. CASE b = a
    <3>1. ingest'[a].at = "planned" /\ ingest'[a].pending = P
      BY <1>9, <1>10
    <3>2. IsPlan(ingest[a].pending)'
      BY <1>6, <3>1 DEF IsPlan
    <3> QED
      BY <1>1, <2>1, <3>1, <3>2 DEF CallOK
  <2>2. CASE b # a
    BY <1>7, <1>10, <2>2 DEF CallOK
  <2> QED
    BY <2>1, <2>2
<1>12. LogOK'
  <2>1. \E S : log' \in Seq(S)
    BY <1>1 DEF IngestInv, LogOK
  <2>2. \A i \in DOMAIN log' : IsOld(log[i])' \/ IsFresh(log[i], torn, Logged)'
    BY <1>1, <1>3 DEF IngestInv, LogOK
  <2>3. ~forced' => ~forced
    BY <1>1
  <2> QED
    BY <1>1, <2>1, <2>2, <2>3 DEF IngestInv, LogOK
<1> QED
  BY <1>1, <1>10, <1>11, <1>12 DEF IngestInv

\* The call goes on or is over, and the log is as it was.
LEMMA CallGoesOn ==
  ASSUME IngestInv, UNCHANGED <<log, torn, forced>>, disk' \in [Path -> Content],
         DOMAIN ingest' = Caller,
         \A b \in Caller : \/ ingest'[b] = NotCalled
                            \/ /\ ingest[b] # NotCalled /\ holder' = holder
                               /\ ingest'[b].at \in {"planned", "committing"}
                               /\ ingest'[b].pending = ingest[b].pending
  PROVE  IngestInv'
<1>1. LogOK'
  BY DEF IngestInv, LogOK, Logged
<1>2. \A P : IsPlan(P) => IsPlan(P)'
  BY DEF IsPlan, Logged
<1>3. \A b \in Caller : CallOK(b)'
  <2> SUFFICES ASSUME NEW b \in Caller, ingest'[b] # NotCalled PROVE CallOK(b)'
    BY DEF CallOK
  <2>1. /\ ingest[b] # NotCalled /\ holder' = holder
        /\ ingest'[b].at \in {"planned", "committing"} /\ ingest'[b].pending = ingest[b].pending
    OBVIOUS
  <2>2. holder = b /\ IsPlan(ingest[b].pending)
    BY <2>1 DEF IngestInv, CallOK
  <2>3. IsPlan(ingest[b].pending)'
    BY <1>2, <2>1, <2>2 DEF IsPlan
  <2> QED
    BY <2>1, <2>2, <2>3 DEF CallOK
<1> QED
  BY <1>1, <1>3 DEF IngestInv

\* What is committed is the first of what is pending: whatever its document needs before it is
\* in the log.
LEMMA Committing ==
  ASSUME IngestInv, NEW a \in Caller, CommitChunk(a)
  PROVE  IngestInv'
<1>1. PICK P : P = ingest[a].pending
  OBVIOUS
<1>2. PICK e \in P : /\ \A f \in P \ {e} : Precedes(e, f)
                     /\ log' = Append(log, e)
                     /\ ingest' = [ingest EXCEPT ![a] = [ingest[a] EXCEPT !.pending = @ \ {e}]]
  BY <1>1 DEF CommitChunk, SetCaller
<1>3. ingest[a].at = "committing" /\ UNCHANGED <<disk, holder, forced, torn>>
  BY DEF CommitChunk
<1>4. ingest[a] # NotCalled
  BY <1>3 DEF NotCalled
<1>5. holder = a /\ IsPlan(P)
  BY <1>1, <1>4 DEF IngestInv, CallOK
<1>6. PICK S : log \in Seq(S)
  BY DEF IngestInv, LogOK
<1>7. /\ log' \in Seq(S \cup {e}) /\ Len(log) \in Nat
      /\ DOMAIN log = 1..Len(log) /\ DOMAIN log' = 1..(Len(log) + 1)
      /\ \A i \in 1..Len(log) : log'[i] = log[i]
      /\ log'[Len(log) + 1] = e
  BY <1>2, <1>6
<1>8. Logged' = Logged \cup {e}
  <2>1. Logged' = {log'[i] : i \in DOMAIN log'}
    BY LoggedIs DEF Logged, ToSet
  <2>2. \A i \in DOMAIN log' : i \in DOMAIN log \/ i = Len(log) + 1
    BY <1>7
  <2>3. DOMAIN log \subseteq DOMAIN log' /\ Len(log) + 1 \in DOMAIN log'
    BY <1>7
  <2> QED
    BY <1>7, <2>1, <2>2, <2>3, LoggedIs
<1>9. IsFresh(e, torn, Logged \cup {e})
  <2>1. IsFresh(e, torn, Logged \cup P)
    BY <1>2, <1>5 DEF IsPlan
  <2>2. ASSUME IsBacked(e, Logged \cup P) PROVE IsBacked(e, Logged \cup {e})
    <3>1. PICK c \in Content, s \in Settings :
            \E k \in 1..CountOf(c, s) :
              /\ e = ChunkEvent(e.path, c, k, s)
              /\ \A j \in 1..k : ChunkEvent(e.path, c, j, s) \in Logged \cup P
      BY <2>2 DEF IsBacked
    <3>2. PICK k \in 1..CountOf(c, s) :
            /\ e = ChunkEvent(e.path, c, k, s)
            /\ \A j \in 1..k : ChunkEvent(e.path, c, j, s) \in Logged \cup P
      BY <3>1
    <3>3. e.index = k /\ e.path \in Nat /\ k \in Nat
      <4>1. IsRecord(e, e.path, c, k, s)
        BY <3>2, EventFields
      <4>2. e.path \in Nat
        BY <2>1, IngestTypes DEF IsFresh
      <4> QED
        BY <3>2, <4>1, <4>2, ChunksCounted DEF IsRecord
    <3>4. \A j \in 1..k : ChunkEvent(e.path, c, j, s) \in Logged \cup {e}
      <4> SUFFICES ASSUME NEW j \in 1..k, ChunkEvent(e.path, c, j, s) \notin Logged
                   PROVE  ChunkEvent(e.path, c, j, s) = e
        OBVIOUS
      <4>1. PICK x : x = ChunkEvent(e.path, c, j, s)
        OBVIOUS
      <4>2. x.path = e.path /\ x.index = j
        BY <4>1, EventFields DEF IsRecord
      <4>3. x \in P
        BY <3>2, <4>1
      <4>4. ~Precedes(e, x)
        BY <3>3, <4>2 DEF Precedes
      <4> QED
        BY <1>2, <4>1, <4>3, <4>4
    <3> QED
      BY <3>2, <3>4 DEF IsBacked
  <2> QED
    BY <2>1, <2>2 DEF IsFresh
<1>10. LogOK'
  <2>1. \A i \in DOMAIN log' : IsOld(log'[i]) \/ IsFresh(log'[i], torn, Logged \cup {e})
    <3> SUFFICES ASSUME NEW i \in DOMAIN log'
                 PROVE  IsOld(log'[i]) \/ IsFresh(log'[i], torn, Logged \cup {e})
      OBVIOUS
    <3>1. CASE i = Len(log) + 1
      BY <1>7, <1>9, <3>1
    <3>2. CASE i # Len(log) + 1
      <4>1. i \in DOMAIN log /\ log'[i] = log[i]
        BY <1>7, <3>2
      <4>2. IsOld(log[i]) \/ IsFresh(log[i], torn, Logged)
        BY <4>1 DEF IngestInv, LogOK
      <4> QED
        BY <4>1, <4>2, BackedByMore
    <3> QED
      BY <3>1, <3>2
  <2>2. ~forced' => \A i, j \in DOMAIN log' : log'[i] = log'[j] => i = j
    <3> SUFFICES ASSUME ~forced PROVE \A i, j \in DOMAIN log' : log'[i] = log'[j] => i = j
      BY <1>3
    <3>1. \A i \in 1..Len(log) : log[i] # e
      BY <1>2, <1>5, <1>7, LoggedIs DEF IsPlan
    <3>2. \A i, j \in 1..Len(log) : log[i] = log[j] => i = j
      BY <1>7 DEF IngestInv, LogOK
    <3>3. \A i \in DOMAIN log' : i \in 1..Len(log) \/ i = Len(log) + 1
      BY <1>7
    <3> QED
      BY <1>7, <3>1, <3>2, <3>3
  <2>3. \A i \in DOMAIN log' : IsOld(log[i])' \/ IsFresh(log[i], torn, Logged)'
    BY <1>3, <1>8, <2>1
  <2> QED
    BY <1>7, <2>2, <2>3 DEF LogOK
<1>11. PICK Q : Q = P \ {e}
  OBVIOUS
<1>12. IsPlan(Q)'
  <2>1. \A x \in Q : IsFresh(x, torn, Logged' \cup Q)
    BY <1>5, <1>8, <1>11, BackedByMore DEF IsPlan
  <2>2. ~forced => Q \cap Logged' = {}
    BY <1>5, <1>8, <1>11 DEF IsPlan
  <2> QED
    BY <1>3, <2>1, <2>2 DEF IsPlan
<1>13. /\ DOMAIN ingest' = Caller /\ ingest'[a].at = "committing" /\ ingest'[a].pending = Q
       /\ \A b \in Caller : b # a => ingest'[b] = ingest[b]
  BY <1>1, <1>2, <1>3, <1>11 DEF IngestInv
<1>14. \A b \in Caller : CallOK(b)'
  <2> SUFFICES ASSUME NEW b \in Caller PROVE CallOK(b)'
    OBVIOUS
  <2>1. CASE b = a
    <3>1. IsPlan(ingest[a].pending)'
      BY <1>12, <1>13 DEF IsPlan
    <3> QED
      BY <1>3, <1>5, <1>13, <2>1, <3>1 DEF CallOK
  <2>2. CASE b # a
    BY <1>4, <1>13, <2>2, OneCall DEF CallOK
  <2> QED
    BY <2>1, <2>2
<1> QED
  BY <1>3, <1>10, <1>13, <1>14 DEF IngestInv

\* A redaction tears the path of the record that is gone.
LEMMA Redacting ==
  ASSUME IngestInv, NEW i \in DOMAIN log, RedactChunk(i)
  PROVE  IngestInv'
<1>1. /\ holder = "free" /\ torn' = torn \cup {log[i].path} /\ log' = RemoveAt(log, i)
      /\ UNCHANGED <<disk, ingest, holder, forced>>
  BY DEF RedactChunk
<1>2. \A a \in Caller : ingest[a] = NotCalled
  BY <1>1, IngestTypes DEF IngestInv, CallOK
<1>3. PICK S : log \in Seq(S)
  BY DEF IngestInv, LogOK
<1>4. PICK n \in Nat : n = Len(log) /\ DOMAIN log = 1..n
  BY <1>3
<1>5. PICK z : z = log'
  OBVIOUS
<1>6. /\ z \in Seq(S) /\ Len(z) = n - 1 /\ DOMAIN z = 1..(n - 1)
      /\ \A j \in 1..(n - 1) : z[j] = log[IF j < i THEN j ELSE j + 1]
  <2>1. PICK x : x = SubSeq(log, 1, i - 1)
    OBVIOUS
  <2>2. PICK y : y = SubSeq(log, i + 1, n)
    OBVIOUS
  <2>3. x \in Seq(S) /\ Len(x) = i - 1 /\ \A j \in 1..(i - 1) : x[j] = log[j]
    BY <1>3, <1>4, <2>1
  <2>4. y \in Seq(S) /\ Len(y) = n - i /\ \A j \in 1..(n - i) : y[j] = log[j + i]
    BY <1>3, <1>4, <2>2
  <2>5. z = x \o y
    BY <1>1, <1>4, <1>5, <2>1, <2>2 DEF RemoveAt
  <2>6. z \in Seq(S) /\ Len(z) = (i - 1) + (n - i)
    <3>1. x \o y \in Seq(S) /\ Len(x \o y) = Len(x) + Len(y)
      BY <2>3, <2>4
    <3> QED
      BY <2>3, <2>4, <2>5, <3>1
  <2>7. (i - 1) + (n - i) = n - 1 /\ i \in Nat /\ i >= 1 /\ i <= n
    BY <1>4
  <2>8. \A j \in 1..(n - 1) : z[j] = IF j <= i - 1 THEN x[j] ELSE y[j - (i - 1)]
    <3>1. \A j \in 1..(Len(x) + Len(y)) :
            (x \o y)[j] = IF j <= Len(x) THEN x[j] ELSE y[j - Len(x)]
      BY <2>3, <2>4
    <3> QED
      BY <2>3, <2>4, <2>5, <2>7, <3>1
  <2>9. ASSUME NEW j \in 1..(n - 1) PROVE z[j] = log[IF j < i THEN j ELSE j + 1]
    <3>1. CASE j < i
      BY <2>3, <2>7, <2>8, <3>1
    <3>2. CASE ~(j < i)
      <4>1. j - (i - 1) \in 1..(n - i) /\ j - (i - 1) + i = j + 1 /\ ~(j <= i - 1)
        BY <2>7, <3>2
      <4>2. z[j] = y[j - (i - 1)]
        BY <2>8, <4>1
      <4>3. y[j - (i - 1)] = log[j - (i - 1) + i]
        BY <2>4, <4>1
      <4> QED
        BY <3>2, <4>1, <4>2, <4>3
    <3> QED
      BY <3>1, <3>2
  <2> QED
    BY <2>6, <2>7, <2>9
<1>7. PICK At : At = [j \in 1..(n - 1) |-> IF j < i THEN j ELSE j + 1]
  OBVIOUS
<1>8. /\ \A j \in 1..(n - 1) : At[j] \in DOMAIN log /\ z[j] = log[At[j]]
      /\ \A j, k \in 1..(n - 1) : At[j] = At[k] => j = k
      /\ \A k \in DOMAIN log : k # i => \E j \in 1..(n - 1) : At[j] = k
  <2>1. \A j \in 1..(n - 1) : At[j] \in DOMAIN log /\ z[j] = log[At[j]]
    <3> SUFFICES ASSUME NEW j \in 1..(n - 1) PROVE At[j] \in DOMAIN log /\ z[j] = log[At[j]]
      OBVIOUS
    <3>1. At[j] = IF j < i THEN j ELSE j + 1
      BY <1>7
    <3>2. z[j] = log[At[j]]
      BY <1>6, <3>1
    <3>3. At[j] \in 1..n
      BY <1>4, <3>1
    <3> QED
      BY <1>4, <3>2, <3>3
  <2>2. \A j, k \in 1..(n - 1) : At[j] = At[k] => j = k
    BY <1>4, <1>7
  <2>3. ASSUME NEW k \in DOMAIN log, k # i PROVE \E j \in 1..(n - 1) : At[j] = k
    <3>1. CASE k < i
      <4>1. k \in 1..(n - 1) /\ At[k] = k
        BY <1>4, <1>7, <3>1
      <4> QED
        BY <4>1
    <3>2. CASE ~(k < i)
      <4>1. k - 1 \in 1..(n - 1) /\ ~(k - 1 < i)
        BY <1>4, <2>3, <3>2
      <4>2. At[k - 1] = k
        BY <1>4, <1>7, <4>1
      <4> QED
        BY <4>1, <4>2
    <3> QED
      BY <3>1, <3>2
  <2> QED
    BY <2>1, <2>2, <2>3
<1>9. Logged' \subseteq Logged /\ \A e \in Logged : e.path # log[i].path => e \in Logged'
  <2>1. Logged' = {z[j] : j \in 1..(n - 1)}
    BY <1>5, <1>6 DEF Logged, ToSet
  <2> QED
    BY <1>8, <2>1, LoggedIs
<1>10. ASSUME NEW e, IsFresh(e, torn, Logged) PROVE IsFresh(e, torn', Logged')
  <2>1. ASSUME e.path \notin torn' PROVE IsBacked(e, Logged')
    <3>1. e.path # log[i].path /\ IsBacked(e, Logged)
      BY <1>1, <1>10, <2>1 DEF IsFresh
    <3>2. PICK c \in Content, s \in Settings :
            \E k \in 1..CountOf(c, s) :
              /\ e = ChunkEvent(e.path, c, k, s)
              /\ \A j \in 1..k : ChunkEvent(e.path, c, j, s) \in Logged
      BY <3>1 DEF IsBacked
    <3>3. PICK k \in 1..CountOf(c, s) :
            /\ e = ChunkEvent(e.path, c, k, s)
            /\ \A j \in 1..k : ChunkEvent(e.path, c, j, s) \in Logged
      BY <3>2
    <3>4. \A j \in 1..k : ChunkEvent(e.path, c, j, s) \in Logged'
      <4> SUFFICES ASSUME NEW j \in 1..k PROVE ChunkEvent(e.path, c, j, s) \in Logged'
        OBVIOUS
      <4>1. ChunkEvent(e.path, c, j, s).path = e.path
        BY EventFields DEF IsRecord
      <4> QED
        BY <1>9, <3>1, <3>3, <4>1
    <3> QED
      BY <3>3, <3>4 DEF IsBacked
  <2> QED
    BY <1>10, <2>1 DEF IsFresh
<1>11. \A j \in DOMAIN z : IsOld(z[j]) \/ IsFresh(z[j], torn', Logged')
  <2>1. \A j \in DOMAIN z : IsOld(z[j]) \/ IsFresh(z[j], torn, Logged)
    BY <1>6, <1>8 DEF IngestInv, LogOK
  <2> QED
    BY <1>10, <2>1
<1>12. ~forced => \A j, k \in DOMAIN z : z[j] = z[k] => j = k
  <2> SUFFICES ASSUME ~forced, NEW j \in DOMAIN z, NEW k \in DOMAIN z, z[j] = z[k] PROVE j = k
    OBVIOUS
  <2>1. log[At[j]] = log[At[k]] /\ At[j] \in DOMAIN log /\ At[k] \in DOMAIN log
    BY <1>6, <1>8
  <2>2. At[j] = At[k]
    BY <2>1 DEF IngestInv, LogOK
  <2> QED
    BY <1>6, <1>8, <2>2
<1>13. LogOK'
  BY <1>1, <1>5, <1>6, <1>11, <1>12 DEF LogOK
<1> QED
  BY <1>1, <1>2, <1>13 DEF IngestInv, CallOK

LEMMA IngestStep == IngestInv /\ [IngestNext]_ingestVars => IngestInv'
<1> SUFFICES ASSUME IngestInv, [IngestNext]_ingestVars PROVE IngestInv'
  OBVIOUS
<1>0. DOMAIN ingest = Caller /\ disk \in [Path -> Content]
  BY DEF IngestInv
<1>1. \A b \in Caller : ingest[b] = NotCalled \/ ingest[b].at \in {"planned", "committing"}
  BY DEF IngestInv, CallOK
<1>2. ASSUME UNCHANGED <<log, torn, forced, ingest, holder>>, disk' \in [Path -> Content]
      PROVE  IngestInv'
  BY <1>0, <1>1, <1>2, CallGoesOn
<1>3. CASE UNCHANGED ingestVars
  BY <1>0, <1>2, <1>3 DEF ingestVars
<1>4. CASE Restart
  <2>1. /\ ingest' = [a \in Caller |-> NotCalled]
        /\ UNCHANGED <<log, torn, forced, disk>>
    BY <1>4 DEF Restart
  <2> QED
    BY <1>0, <2>1, CallGoesOn
<1>5. ASSUME NEW a \in Caller, IngestFails(a) \/ EndBatch(a) \/ BatchBreaks(a)
      PROVE  IngestInv'
  <2>1. /\ ingest' = [ingest EXCEPT ![a] = NotCalled] /\ ingest[a].at \in {"planned", "committing"}
        /\ UNCHANGED <<log, torn, forced, disk>>
    BY <1>5 DEF IngestFails, EndBatch, BatchBreaks, Over, SetCaller
  <2>2. ingest[a] # NotCalled
    BY <2>1 DEF NotCalled
  <2>3. \A b \in Caller : ingest'[b] = NotCalled
    BY <1>0, <2>1, <2>2, OneCall
  <2>4. DOMAIN ingest' = Caller
    BY <1>0, <2>1
  <2> QED
    BY <1>0, <2>1, <2>3, <2>4, CallGoesOn
<1>6. ASSUME NEW a \in Caller, BeginBatch(a) PROVE IngestInv'
  <2>1. /\ ingest' = [ingest EXCEPT ![a] = [ingest[a] EXCEPT !.at = "committing"]]
        /\ ingest[a].at = "planned" /\ UNCHANGED <<log, torn, forced, disk, holder>>
    BY <1>6 DEF BeginBatch, SetCaller
  <2>2. ingest[a] # NotCalled
    BY <2>1 DEF NotCalled
  <2>3. /\ ingest'[a].at = "committing"
        /\ \A b \in Caller : b # a => ingest'[b] = ingest[b]
    BY <1>0, <2>1
  <2>4. ingest'[a].pending = ingest[a].pending
    BY <1>0, <2>1
  <2>5. DOMAIN ingest' = Caller
    BY <1>0, <2>1
  <2> QED
    BY <1>0, <1>1, <2>1, <2>2, <2>3, <2>4, <2>5, CallGoesOn
<1>7. ASSUME NEW a \in Caller, CommitChunk(a) PROVE IngestInv'
  BY <1>7, Committing
<1>8. ASSUME NEW a \in Caller, NEW ps \in SUBSET Path \ {{}}, NEW s \in Settings,
             NEW force \in BOOLEAN, BeginIngest(a, ps, s, force)
      PROVE  IngestInv'
  BY <1>8, Planning
<1>9. ASSUME NEW p \in Path, NEW c \in Content, Edit(p, c) PROVE IngestInv'
  <2>1. disk' \in [Path -> Content] /\ UNCHANGED <<log, torn, forced, ingest, holder>>
    BY <1>0, <1>9 DEF Edit
  <2> QED
    BY <1>2, <2>1
<1>10. ASSUME NEW i \in DOMAIN log, RedactChunk(i) PROVE IngestInv'
  BY <1>10, Redacting
<1> QED
  BY <1>3, <1>4, <1>5, <1>6, <1>7, <1>8, <1>9, <1>10 DEF IngestNext

\* What an ingestion skips as complete is in the heart word for word, whatever broke off before,
\* with whatever chunk sizes and whoever else ingested, unless somebody redacted a chunk of it, and
\* nothing is committed twice unless forced: for any number of files, words, chunk sizes and calls.
THEOREM DocumentsAreKept == IngestSpec => []DocumentsKeptOnce
BY IngestStart, IngestStep, InvKeepsOnce, PTL DEF IngestSpec

=============================================================================
