----------------------------- MODULE MCServices -----------------------------
(***************************************************************************)
(* Model-checking instance of the services a conversation rests on: the    *)
(* circuit breakers, the manager of host tasks, the blobs in files, and    *)
(* the recovery of turns.  They share no state, so a behaviour of this run *)
(* is one of one component, chosen at the start, with the others at their  *)
(* initial states: the sum of their state spaces and not the product.      *)
(***************************************************************************)
EXTENDS CircuitBreaker, HostTasks, ColdBlobs, Recovery

VARIABLE subject

serviceVars == <<vars, taskVars, blobVars, recoveryVars, subject>>

\* CircuitBreaker::default, with cooldowns in units of 30 s.
DefaultFailures == [llm |-> 3, thymos |-> 1, dcmdb |-> 2]
DefaultCooldown == [llm |-> 1, thymos |-> 2, dcmdb |-> 1]

ServicesInit ==
  /\ subject \in {"breaker", "tasks", "blobs", "recovery"}
  /\ Init /\ TasksInit /\ BlobsInit /\ RecoveryInit

BreakerStep(A) ==
  subject = "breaker" /\ A /\ UNCHANGED <<taskVars, blobVars, recoveryVars, subject>>
TasksStep(A) ==
  subject = "tasks" /\ A /\ UNCHANGED <<vars, blobVars, recoveryVars, subject>>
BlobsStep(A) ==
  subject = "blobs" /\ A /\ UNCHANGED <<vars, taskVars, recoveryVars, subject>>
RecoveryStep(A) ==
  subject = "recovery" /\ A /\ UNCHANGED <<vars, taskVars, blobVars, subject>>

ServicesNext ==
  \/ BreakerStep(Next)
  \/ TasksStep(TasksNext)
  \/ BlobsStep(BlobsNext)
  \/ RecoveryStep(RecoveryNext)

\* The fairness of FairSpec, TasksFairness and RecoveryFairness, each while its
\* component is the subject.
ServicesFairness ==
  /\ WF_serviceVars(BreakerStep(Tick)) /\ WF_serviceVars(BreakerStep(Turn))
  /\ WF_serviceVars(RecoveryStep(Open)) /\ WF_serviceVars(RecoveryStep(Recover))
  /\ \A t \in TaskId : /\ WF_serviceVars(TasksStep(TaskRuns(t)))
                       /\ t \notin Unlimited => WF_serviceVars(TasksStep(EndProcess(t)))

ServicesSpec == ServicesInit /\ [][ServicesNext]_serviceVars /\ ServicesFairness

\* RecoveryEnds, for the behaviours whose subject is recovery: after a crash the
\* prompt comes back with no journal left (recover_thread, the start of main).
PromptComesBack == subject = "recovery" => RecoveryEnds

=============================================================================
