----------------------------- MODULE HostTasks ------------------------------
(***************************************************************************)
(* Host tasks of the chat process (spine-cli: partner_tools.rs): the       *)
(* RunningTaskManager, and the two tools that run their work in a spawned  *)
(* task of their own, shell (cancellable) and ingest_documents (not).      *)
(*                                                                         *)
(* The runtime is multi-threaded: the parent's harness, its subagents (they*)
(* own every tool of the parent) and the operator at the prompt use the    *)
(* manager at the same time.  One action is one critical section of the    *)
(* `tasks' lock, or one stretch of a worker between two awaits.  An abort  *)
(* strikes at an await only: a worker that has its command's outcome in    *)
(* hand reaches `finish' whatever happens.  The call of a tool may be      *)
(* dropped while it awaits its worker (/interrupt); the worker goes on.    *)
(*                                                                         *)
(* Commands, output and elapsed time are left out; a result is whether it  *)
(* succeeded.  `audit' only appends to a file nothing reads.               *)
(***************************************************************************)
EXTENDS Naturals

CONSTANTS
  MaxTasks,  \* bound: calls of the two tools
  Unlimited  \* calls with timeout_s = 0, which no timeout ends

ASSUME TasksAssumption == MaxTasks \in Nat

VARIABLES
  issued,  \* `next' of the manager: tasks begun so far
  rec,     \* task -> RunningTaskRecord
  worker,  \* task -> the spawned task
  doomed,  \* tasks whose worker was told to abort
  process, \* task -> the child process, or the ingestion on its own thread
  call,    \* task -> the tool call that began it, then what it returned
  early    \* history variable: tasks cancelled before their handle was attached

taskVars == <<issued, rec, worker, doomed, process, call, early>>

TaskId == 1..MaxTasks
NoRecord == [status |-> "none", result |-> "none", abort |-> FALSE, cancellable |-> FALSE]

SetRec(t, r) == rec' = [rec EXCEPT ![t] = r]
SetWorker(t, w) == worker' = [worker EXCEPT ![t] = w]
SetCall(t, c) == call' = [call EXCEPT ![t] = c]

-----------------------------------------------------------------------------
(* The manager. *)

\* begin: the record is listed before there is anything to abort.
BeginTask(t, cancellable) ==
  /\ t = issued + 1
  /\ t \in TaskId
  /\ issued' = t
  /\ SetRec(t, [status |-> "running", result |-> "none", abort |-> FALSE,
                cancellable |-> cancellable])
  /\ SetCall(t, "begun")
  /\ UNCHANGED <<worker, doomed, process, early>>

\* attach stores the handle whatever became of the task in between.
Attach(t) ==
  /\ call[t] = "spawned"
  /\ SetCall(t, "waiting")
  /\ SetRec(t, [rec[t] EXCEPT !.abort = TRUE])
  /\ UNCHANGED <<issued, worker, doomed, process, early>>

\* Mutation of Finished: a cancelled record is left as it is.
FinishedUnlessCancelled(r, ok) ==
  IF r.status = "cancelled" THEN r
  ELSE [r EXCEPT !.status = IF ok THEN "completed" ELSE "failed",
                 !.result = IF ok THEN "success" ELSE "failure", !.abort = FALSE]

\* finish overwrites status and result, those of a cancellation too.
Finished(r, ok) ==
  [r EXCEPT !.status = IF ok THEN "completed" ELSE "failed",
            !.result = IF ok THEN "success" ELSE "failure", !.abort = FALSE]

Matching(which) == {t \in which : rec[t].status = "running" /\ rec[t].cancellable}

\* Mutation of Abortable: the handle is dropped, which detaches the worker.
NeverAborted(S) == {}

\* A task whose handle is not attached yet cannot be aborted.
Abortable(S) == {t \in S : rec[t].abort}

CancelledRecord(r) ==
  [r EXCEPT !.status = "cancelled", !.result = "failure", !.abort = FALSE]

\* The records are marked and the handles used under one lock.
CancelThese(S) ==
  /\ S # {}
  /\ rec' = [t \in TaskId |-> IF t \in S THEN CancelledRecord(rec[t]) ELSE rec[t]]
  /\ doomed' = doomed \cup Abortable(S)
  /\ early' = early \cup {t \in S : ~rec[t].abort}
  /\ UNCHANGED <<issued, worker, process, call>>

\* cancel, from cancel_task or from /cancel-task: one id or all of them.
CancelTask ==
  \E which \in {{t} : t \in TaskId} \cup {TaskId} : CancelThese(Matching(which))

-----------------------------------------------------------------------------
(* The worker and the call that waits for it. *)

\* execute: the worker is spawned, and may run before the caller goes on.
SpawnWorker(t) ==
  /\ call[t] = "begun"
  /\ SetCall(t, "spawned")
  /\ SetWorker(t, "ready")
  /\ UNCHANGED <<issued, rec, doomed, process, early>>

\* run_command: the process starts, or it does not and that is the result.
StartProcess(t) ==
  /\ worker[t] = "ready"
  /\ \/ SetWorker(t, "waiting") /\ process' = [process EXCEPT ![t] = "alive"]
     \/ rec[t].cancellable /\ SetWorker(t, "failure") /\ UNCHANGED process
  /\ UNCHANGED <<issued, rec, doomed, call, early>>

\* The process ends, or the timeout does it in: the child is killed on drop.
EndProcess(t) ==
  /\ worker[t] = "waiting"
  /\ process' = [process EXCEPT ![t] = "dead"]
  /\ \E w \in {"success", "failure"} : SetWorker(t, w)
  /\ UNCHANGED <<issued, rec, doomed, call, early>>

FinishWorker(t) ==
  /\ worker[t] \in {"success", "failure"}
  /\ SetRec(t, Finished(rec[t], worker[t] = "success"))
  /\ SetWorker(t, IF worker[t] = "success" THEN "returned success" ELSE "returned failure")
  /\ UNCHANGED <<issued, doomed, process, call, early>>

\* The abort reaches the worker at an await: its future and its child are gone.
AbortWorker(t) ==
  /\ t \in doomed
  /\ worker[t] \in {"ready", "waiting"}
  /\ SetWorker(t, "aborted")
  /\ process' = [process EXCEPT ![t] = IF @ = "alive" THEN "dead" ELSE @]
  /\ UNCHANGED <<issued, rec, doomed, call, early>>

\* The call returns the result of the worker, or that it was cancelled.
ReturnCall(t) ==
  /\ call[t] = "waiting"
  /\ \/ worker[t] = "returned success" /\ SetCall(t, "told success")
     \/ worker[t] = "returned failure" /\ SetCall(t, "told failure")
     \/ worker[t] = "aborted" /\ SetCall(t, "told cancelled")
  /\ UNCHANGED <<issued, rec, worker, doomed, process, early>>

\* /interrupt drops the call at its only await; the worker is not told.
DropCall(t) ==
  /\ call[t] = "waiting"
  /\ SetCall(t, "dropped")
  /\ UNCHANGED <<issued, rec, worker, doomed, process, early>>

-----------------------------------------------------------------------------

TasksInit ==
  /\ issued = 0
  /\ rec = [t \in TaskId |-> NoRecord]
  /\ worker = [t \in TaskId |-> "none"]
  /\ doomed = {} /\ early = {}
  /\ process = [t \in TaskId |-> "none"]
  /\ call = [t \in TaskId |-> "none"]

\* What goes on by itself once a tool was called.
TaskRuns(t) ==
  \/ SpawnWorker(t) \/ Attach(t) \/ StartProcess(t)
  \/ FinishWorker(t) \/ AbortWorker(t) \/ ReturnCall(t)

TasksNext ==
  \/ CancelTask
  \/ \E t \in TaskId : \/ \E c \in BOOLEAN : BeginTask(t, c)
                       \/ TaskRuns(t)
                       \/ EndProcess(t)
                       \/ DropCall(t)

\* A command with a timeout ends; one without may run for ever.
TasksFairness ==
  \A t \in TaskId : /\ WF_taskVars(TaskRuns(t))
                    /\ t \notin Unlimited => WF_taskVars(EndProcess(t))

TasksSpec == TasksInit /\ [][TasksNext]_taskVars /\ TasksFairness

-----------------------------------------------------------------------------
(* Properties. *)

\* Whatever races a cancellation ran into, the caller, check_tasks and the
\* process tell one story: what execute returned is what the record shows for
\* good, and a task shown as over has no process left (finish and cancel of
\* RunningTaskManager, execute of ShellTool).
OneVerdict ==
  \A t \in TaskId :
    /\ call[t] = "told success" => rec[t].status = "completed"
    /\ call[t] = "told failure" => rec[t].status = "failed"
    /\ call[t] = "told cancelled" => rec[t].status = "cancelled"
    /\ rec[t].status \in {"completed", "failed"} => process[t] # "alive"

\* A cancellation that found the handle ends the command, even one that runs
\* without a timeout and whose caller is gone: none stays cancelled and alive
\* for ever (cancel of RunningTaskManager).
CancelStops ==
  \A t \in TaskId :
    []<>~(rec[t].status = "cancelled" /\ t \notin early /\ process[t] = "alive")

=============================================================================
