----------------------------- MODULE Subagents ------------------------------
(***************************************************************************)
(* Temporary subagents (spine-cli: agent_tools.rs): delegate starts a child*)
(* harness in a task of its own, check_results drains what children report,*)
(* cancel_agent aborts them and settles their threads.                     *)
(*                                                                         *)
(* Only the parent's harness owns these tools and it runs one tool at a    *)
(* time, so at most one of them is under way (`tool'); the children, and   *)
(* for each child the task that turns harness events into progress reports,*)
(* run beside it.  The parent may be interrupted where it awaits.  After   *)
(* its run a child has no await left: an abort cannot cut what follows.    *)
(*                                                                         *)
(* Reports are abstracted to whether some news and whether the final one   *)
(* are waiting, boundaries to whether the event task has one to look at,   *)
(* and check_in_every to a choice.  A journal is `open' while the child's  *)
(* run may still write to it and afterwards `persisted' (transcript and    *)
(* journal dealt with) or `recovered' (recover_thread; module Recovery).   *)
(***************************************************************************)
EXTENDS Naturals

CONSTANTS
  MaxAgents, \* bound: calls of delegate
  MaxFaults  \* bound: errors of the heart, and interruptions

ASSUME AgentsAssumption == MaxAgents \in Nat

VARIABLES
  counter,   \* ids handed out
  jobs,      \* ids the manager lists
  child,     \* id -> the child's task
  aborting,    \* ids whose task was told to abort
  events,    \* ids with harness events their event task has not seen
  watcher,   \* id -> the event task
  reports,   \* id -> kinds of report not drained yet
  journal,   \* id -> journal of the child's thread
  tool,      \* the parent's tool under way
  faults,
  delivered, \* history variable: ids whose final report the parent was shown
  retired,   \* history variable: ids check_results dropped as complete
  broken     \* history variable: ids a cancellation took and did not get to

manager == <<counter, jobs>>
history == <<delivered, retired, broken>>
agentVars == <<manager, child, aborting, events, watcher, reports, journal, tool,
               faults, history>>

AgentId == 1..MaxAgents
Idle == [op |-> "idle"]
Fault == faults < MaxFaults /\ faults' = faults + 1

\* The lock of a child's reports, which check_results holds from the drain to
\* the check.
Held(a) == tool.op = "reports" /\ tool.holds = a

Push(a, kind) == reports' = [reports EXCEPT ![a] = @ \cup {kind}]

-----------------------------------------------------------------------------
(* delegate *)

\* spawn, under the manager's lock.  When the task cannot be committed the id is
\* spent and nothing was started.
Spawn ==
  LET a == counter + 1
  IN  /\ tool = Idle
      /\ a \in AgentId
      /\ counter' = a
      /\ \/ /\ jobs' = jobs \cup {a}
            /\ child' = [child EXCEPT ![a] = "running"]
            /\ watcher' = [watcher EXCEPT ![a] = "watching"]
            /\ journal' = [journal EXCEPT ![a] = "open"]
            /\ Push(a, "news")
            /\ UNCHANGED faults
         \/ Fault /\ UNCHANGED <<jobs, child, watcher, journal, reports>>
      /\ UNCHANGED <<aborting, events, tool, history>>

-----------------------------------------------------------------------------
(* A child. *)

Working(a) == child[a] \in {"running", "stopping"}

\* A model turn or a tool call: journalled, and announced to the event task.
Boundary(a) ==
  /\ Working(a)
  /\ events' = events \cup {a}
  /\ journal' = [journal EXCEPT ![a] = "open"]
  /\ UNCHANGED <<manager, child, aborting, watcher, reports, tool, faults, history>>

\* check_in: a report; or final_message, which ends the run at the next boundary
\* and which the provider of the child repeats from then on.
CheckIn(a) ==
  /\ child[a] = "running"
  /\ \/ ~Held(a) /\ Push(a, "news") /\ UNCHANGED child
     \/ child' = [child EXCEPT ![a] = "stopping"] /\ UNCHANGED reports
  /\ UNCHANGED <<manager, aborting, events, watcher, journal, tool, faults, history>>

\* The event task counts boundaries and reports every so many of them.
ReportProgress(a) ==
  /\ watcher[a] # "gone" /\ a \in events
  /\ events' = events \ {a}
  /\ \/ ~Held(a) /\ Push(a, "news")
     \/ UNCHANGED reports
  /\ UNCHANGED <<manager, child, aborting, watcher, journal, tool, faults, history>>

\* An aborted event task, or one whose harness is gone and that has seen all.
WatcherEnds(a) ==
  /\ \/ watcher[a] = "dismissed"
     \/ watcher[a] = "watching" /\ child[a] = "aborted" /\ a \notin events
  /\ watcher' = [watcher EXCEPT ![a] = "gone"]
  /\ UNCHANGED <<manager, child, aborting, events, reports, journal, tool, faults, history>>

\* The run is over: the transcript is persisted; a failed run, or a failing
\* finish_child_checkin or persist, is recovered, which may fail in its turn.
RunOver(a) ==
  /\ Working(a)
  /\ watcher' = [watcher EXCEPT ![a] = "dismissed"]
  /\ \/ /\ child' = [child EXCEPT ![a] = "succeeded"]
        /\ journal' = [journal EXCEPT ![a] = "persisted"]
        /\ UNCHANGED faults
     \/ /\ child' = [child EXCEPT ![a] = "failed"]
        /\ \/ journal' = [journal EXCEPT ![a] = "recovered"] /\ UNCHANGED faults
           \/ Fault /\ UNCHANGED journal
  /\ UNCHANGED <<manager, aborting, events, reports, tool, history>>

\* The last thing the child's task does.
PushFinal(a) ==
  /\ child[a] \in {"succeeded", "failed"} /\ ~Held(a)
  /\ Push(a, "final")
  /\ child' = [child EXCEPT ![a] = "pushed"]
  /\ UNCHANGED <<manager, aborting, events, watcher, journal, tool, faults, history>>

\* From here is_finished holds.
ChildEnds(a) ==
  /\ \/ child[a] = "pushed" /\ child' = [child EXCEPT ![a] = "finished"]
     \/ a \in aborting /\ Working(a) /\ child' = [child EXCEPT ![a] = "aborted"]
  /\ UNCHANGED <<manager, aborting, events, watcher, reports, journal, tool, faults, history>>

-----------------------------------------------------------------------------
(* check_results *)

BeginReports ==
  /\ tool = Idle /\ jobs # {}
  /\ tool' = [op |-> "reports", left |-> jobs, holds |-> 0, complete |-> {}]
  /\ UNCHANGED <<manager, child, aborting, events, watcher, reports, journal, faults, history>>

DrainReports(a) ==
  /\ tool.op = "reports" /\ tool.holds = 0 /\ a \in tool.left
  /\ tool' = [tool EXCEPT !.holds = a]
  /\ delivered' = IF "final" \in reports[a] THEN delivered \cup {a} ELSE delivered
  /\ reports' = [reports EXCEPT ![a] = {}]
  /\ UNCHANGED <<manager, child, aborting, events, watcher, journal, faults, retired, broken>>

\* Mutation of IsComplete: the last report was pushed, so the child must be over.
PushedOrFinished(a) == child[a] \in {"pushed", "succeeded", "failed", "finished", "aborted"}

\* is_finished, while the reports cannot grow.
IsComplete(a) == child[a] \in {"finished", "aborted"} /\ reports[a] = {}

CheckFinished(a) ==
  /\ Held(a)
  /\ tool' = [tool EXCEPT !.holds = 0, !.left = @ \ {a},
                          !.complete = IF IsComplete(a) THEN @ \cup {a} ELSE @]
  /\ UNCHANGED <<manager, child, aborting, events, watcher, reports, journal, faults, history>>

EndReports ==
  /\ tool.op = "reports" /\ tool.left = {}
  /\ jobs' = jobs \ tool.complete
  /\ retired' = retired \cup tool.complete
  /\ tool' = Idle
  /\ UNCHANGED <<counter, child, aborting, events, watcher, reports, journal, faults, delivered, broken>>

-----------------------------------------------------------------------------
(* cancel_agent *)

\* The jobs leave the map, with the reports nobody drained, before anything else.
TakeJobs ==
  \E S \in {{a} : a \in jobs} \cup {jobs} :
    /\ tool = Idle /\ S # {}
    /\ jobs' = jobs \ S
    /\ tool' = [op |-> "cancel", left |-> S, on |-> 0]
    /\ UNCHANGED <<counter, child, aborting, events, watcher, reports, journal, faults, history>>

\* In the order of the ids: abort, then await the task.
AbortNext ==
  /\ tool.op = "cancel" /\ tool.on = 0 /\ tool.left # {}
  /\ LET a == CHOOSE a \in tool.left : \A b \in tool.left : a <= b
     IN  aborting' = aborting \cup {a} /\ tool' = [tool EXCEPT !.on = a]
  /\ UNCHANGED <<manager, child, events, watcher, reports, journal, faults, history>>

\* Mutation of Awaited: the abort is taken for the end of the task.
AbortIsEnough(a) == a \in aborting

Awaited(a) == child[a] \in {"finished", "aborted"}

\* recover_thread, and on to the next; an error leaves the others where they are.
SettleThread ==
  /\ tool.op = "cancel" /\ tool.on # 0 /\ Awaited(tool.on)
  /\ LET a == tool.on
     IN  \/ /\ journal' = [journal EXCEPT ![a] = IF @ = "open" THEN "recovered" ELSE @]
            /\ tool' = IF tool.left = {a} THEN Idle
                       ELSE [tool EXCEPT !.left = @ \ {a}, !.on = 0]
            /\ UNCHANGED <<faults, broken>>
         \/ /\ Fault
            /\ tool' = Idle
            /\ broken' = broken \cup tool.left
            /\ UNCHANGED journal
  /\ UNCHANGED <<manager, child, aborting, events, watcher, reports, delivered, retired>>

\* /interrupt drops the cancellation where it awaits: the jobs it holds are
\* detached, and nobody lists them any more.
InterruptCancel ==
  /\ tool.op = "cancel" /\ tool.on # 0
  /\ Fault
  /\ tool' = Idle
  /\ broken' = broken \cup tool.left
  /\ UNCHANGED <<manager, child, aborting, events, watcher, reports, journal, delivered, retired>>

-----------------------------------------------------------------------------

AgentsInit ==
  /\ counter = 0 /\ jobs = {} /\ tool = Idle /\ faults = 0
  /\ child = [a \in AgentId |-> "none"]
  /\ watcher = [a \in AgentId |-> "none"]
  /\ journal = [a \in AgentId |-> "none"]
  /\ reports = [a \in AgentId |-> {}]
  /\ aborting = {} /\ events = {} /\ delivered = {} /\ retired = {} /\ broken = {}

AgentsNext ==
  \/ Spawn \/ BeginReports \/ EndReports \/ TakeJobs \/ AbortNext \/ SettleThread \/ InterruptCancel
  \/ \E a \in AgentId :
       \/ Boundary(a) \/ CheckIn(a) \/ ReportProgress(a) \/ WatcherEnds(a)
       \/ RunOver(a) \/ PushFinal(a) \/ ChildEnds(a)
       \/ DrainReports(a) \/ CheckFinished(a)

AgentsSpec == AgentsInit /\ [][AgentsNext]_agentVars

-----------------------------------------------------------------------------
(* Properties. *)

\* No report of a child's end is lost and no child is forgotten: what
\* check_results drops has delivered its final report, though the child pushes
\* it while reports are drained; and a child that runs is listed or in the hands
\* of a cancellation, unless that one was cut short (reports and cancel).
ChildrenAccounted ==
  /\ retired \subseteq delivered
  /\ \A a \in AgentId : Working(a) =>
       \/ a \in jobs \cup broken
       \/ tool.op = "cancel" /\ a \in tool.left

\* A thread is settled once: after recover_thread or persist the child writes
\* nothing more, because cancel awaits the task it aborted (agent_tools.rs,
\* cancel; "Completed results retained; unfinished actions marked uncertain").
SettledForGood ==
  [][\A a \in AgentId : journal[a] \in {"persisted", "recovered"} => journal'[a] = journal[a]]_agentVars

=============================================================================
