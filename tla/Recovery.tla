------------------------------ MODULE Recovery ------------------------------
(***************************************************************************)
(* What a conversation leaves behind in the heart (spine-cli: transcript.rs*)
(* and the turn loop of main.rs), seen across crashes and restarts of one  *)
(* device.  Every run of the harness keeps a device-local journal; its     *)
(* messages become records of the canonical log; a run that was stopped or *)
(* cut short becomes a checkpoint event; a resume first commits an event   *)
(* that consumes the checkpoint.                                           *)
(*                                                                         *)
(* The log is the canonical order of one device, which is the order of its *)
(* commits (HeartSync, CanonicalOrderFollowsDevice).  A run is a number; a *)
(* checkpoint is abstracted to the runs whose messages its transcript      *)
(* holds, a journal to the number of messages saved.  How the loop of one  *)
(* run produces its journal is the subject of module Harness.              *)
(*                                                                         *)
(* An error of a commit inside recover_thread ends the process (the `?' of *)
(* main.rs), with or without the event in the log: that is a Crash.        *)
(***************************************************************************)
EXTENDS Integers, FiniteSets, Sequences

CONSTANTS
  MaxRuns,    \* bound: runs of the harness
  MaxRecords, \* bound: messages of one run
  MaxCrash,   \* bound: crashes
  MaxErrors   \* bound: failing runs, journal writes, commits, open circuits

ASSUME RecoveryBounds == /\ MaxRuns \in Nat /\ MaxRecords \in Nat
                          /\ MaxCrash \in Nat /\ MaxErrors \in Nat

VARIABLES
  log,      \* the canonical events of this agent and thread
  journals, \* run -> journal, for the runs that have one
  place,       \* where the process is
  run,      \* the current run, 0 for none
  turn,     \* the runs of the current turn: a run and the one it repairs
  cp,       \* the `checkpoint' of the session: a position in log, or 0
  todo,     \* journals that recover_thread has still to handle
  history,  \* runs whose messages are in the chat history with their ids
  lineage,  \* runs whose messages are in the transcript of the current run
  resumed,  \* history variable: the checkpoints resumed so far, in order
  produced, \* history variable: run -> messages it saved
  cutoff,   \* history variable: runs that were cut short or stopped
  crashes, errors

durable == <<log, journals>>
session == <<place, run, turn, cp, todo, history, lineage>>
account == <<resumed, produced, cutoff>>
recoveryVars == <<durable, session, account, crashes, errors>>

Runs == 1..MaxRuns

-----------------------------------------------------------------------------
(* The canonical log. *)

Record(r, n) == [kind |-> "record", run |-> r, n |-> n]
CheckpointEvent(r, rs) == [kind |-> "checkpoint", run |-> r, runs |-> rs]
ConsumedEvent(i) == [kind |-> "consumed", of |-> i]

Logged == {log[i] : i \in DOMAIN log}
Checkpoints == {i \in DOMAIN log : log[i].kind = "checkpoint"}
Consumed == {log[i].of : i \in {k \in DOMAIN log : log[k].kind = "consumed"}}

Newest(S) == IF S = {} THEN 0 ELSE CHOOSE i \in S : \A k \in S : k <= i

\* Walking backwards, the first checkpoint decides: consumed means none.
Discover == IF Newest(Checkpoints) \in Consumed THEN 0 ELSE Newest(Checkpoints)

-----------------------------------------------------------------------------
(* Journals. *)

\* recover_thread adds a summary, record 0, to a run that did not finish.
Required(r) ==
  {Record(r, n) : n \in 1..journals[r].n}
    \cup IF journals[r].finished THEN {} ELSE {Record(r, 0)}

Ordinary == {r \in DOMAIN journals : journals[r].finished /\ ~journals[r].stopped}

\* persist drops the journals of completed ordinary runs once all is durable.
Complete == {r \in Ordinary : Required(r) \subseteq Logged}

Without(S) == [r \in DOMAIN journals \ S |-> journals[r]]

\* Some checkpoint holds a message of the run.
CheckpointSaved(r) == \E i \in Checkpoints : r \in log[i].runs

\* save_progress of a run, the first time and later.
SaveJournal(r, j) ==
  journals' = [k \in DOMAIN journals \cup {r} |-> IF k = r THEN j ELSE journals[k]]

Fail == errors < MaxErrors /\ errors' = errors + 1

-----------------------------------------------------------------------------
(* Runs. *)

NextRun == Cardinality({r \in Runs : produced[r] # -1}) + 1

\* run_messages: the first save of the journal starts a run.
StartRun(rs, line) ==
  LET r == NextRun
  IN  /\ r \in Runs
      /\ SaveJournal(r, [n |-> 0, finished |-> FALSE, stopped |-> FALSE,
                         runs |-> line \cup {r}])
      /\ place' = "running" /\ run' = r /\ turn' = rs \cup {r} /\ lineage' = line \cup {r}
      /\ produced' = [produced EXCEPT ![r] = 0]

NewTurn ==
  /\ place = "idle"
  /\ StartRun({}, history)
  /\ UNCHANGED <<log, cp, todo, history, resumed, cutoff, crashes, errors>>

\* Where recover_thread begins: with all the journals there are.
BeginRecovery == place' = "recovering" /\ todo' = DOMAIN journals

\* Not even the first save: the turn, new or resumed, fails and is recovered.
TurnFailsAtOnce ==
  /\ place \in {"idle", "consumed"}
  /\ Fail
  /\ BeginRecovery
  /\ UNCHANGED <<durable, run, turn, cp, history, lineage, account, crashes>>

\* A message or a tool result is saved.
Produce ==
  /\ place = "running" /\ produced[run] < MaxRecords
  /\ journals' = [journals EXCEPT ![run].n = @ + 1]
  /\ produced' = [produced EXCEPT ![run] = @ + 1]
  /\ UNCHANGED <<log, session, resumed, cutoff, crashes, errors>>

\* The run has an outcome and its last save succeeds.
RunEnds(stopped) ==
  /\ place = "running"
  /\ journals' = [journals EXCEPT ![run].finished = TRUE, ![run].stopped = stopped]
  /\ place' = "persisting"
  /\ cutoff' = IF stopped THEN cutoff \cup {run} ELSE cutoff
  /\ UNCHANGED <<log, run, turn, cp, todo, history, lineage, resumed, produced,
                 crashes, errors>>

\* A provider or journal error, or /interrupt: the thread is recovered at once.
RunFails ==
  /\ place = "running"
  /\ Fail
  /\ BeginRecovery
  /\ cutoff' = cutoff \cup {run}
  /\ UNCHANGED <<durable, run, turn, cp, history, lineage, resumed, produced, crashes>>

\* Grounding rejects the answer of a run that was not stopped: the same
\* transcript is continued by another run before anything is persisted.  (A
\* repair that fails before its first save leaves everything as it was.)
Repair ==
  /\ place = "persisting" /\ run \notin cutoff /\ turn = {run}
  /\ Required(run) \cap Logged = {}
  /\ StartRun({run}, lineage)
  /\ UNCHANGED <<log, cp, todo, history, resumed, cutoff, crashes, errors>>

-----------------------------------------------------------------------------
(* After a run: its messages, then its checkpoint. *)

\* Records of these runs that are not in the log yet, by their identities.
Lacking(rs) == (UNION {Required(r) : r \in rs \cap DOMAIN journals}) \ Logged

Commit(e) == log' = Append(log, e)

PersistRecord ==
  /\ place = "persisting"
  /\ \E e \in Lacking(turn) : Commit(e)
  /\ UNCHANGED <<journals, session, account, crashes, errors>>

PersistDone ==
  /\ place = "persisting"
  /\ Lacking(turn) = {}
  /\ journals' = Without(Complete)
  /\ place' = "saving"
  /\ UNCHANGED <<log, run, turn, cp, todo, history, lineage, account, crashes, errors>>

\* The memory circuit is open or a commit fails: the journal keeps the rest.
PersistFails ==
  /\ place = "persisting"
  /\ Fail
  /\ place' = "saving"
  /\ UNCHANGED <<durable, run, turn, cp, todo, history, lineage, account, crashes>>

Back == place' = "idle" /\ run' = 0 /\ turn' = {} /\ lineage' = {}

StoppedOutcome == run \in cutoff

NothingToSave ==
  /\ place = "saving" /\ ~StoppedOutcome
  /\ Back
  /\ UNCHANGED <<durable, cp, todo, history, account, crashes, errors>>

\* Mutation of AlreadySaved: a retry does not look for its first attempt.
NeverReused == FALSE

\* checkpoint_from_outcome reuses the checkpoint a repair recovery committed.
AlreadySaved == Discover # 0 /\ log[Discover].run = run

ReuseCheckpoint ==
  /\ place = "saving" /\ StoppedOutcome /\ AlreadySaved
  /\ cp' = Discover
  /\ Back
  /\ UNCHANGED <<durable, todo, history, account, crashes, errors>>

StoreCheckpoint ==
  /\ place = "saving" /\ StoppedOutcome /\ ~AlreadySaved
  /\ Commit(CheckpointEvent(run, lineage))
  /\ \/ cp' = Len(log') /\ UNCHANGED errors
     \/ cp' = 0 /\ Fail   \* the event is durable, its projection is not
  /\ Back
  /\ UNCHANGED <<journals, todo, history, account, crashes>>

CheckpointNotSaved ==
  /\ place = "saving" /\ StoppedOutcome /\ ~AlreadySaved
  /\ Fail
  /\ cp' = 0
  /\ Back
  /\ UNCHANGED <<durable, todo, history, account, crashes>>

-----------------------------------------------------------------------------
(* Resuming. *)

\* The checkpoint is consumed in the log before any resumed work starts; a
\* failing commit that left its marker there counts as done.
Consume ==
  /\ place = "idle" /\ cp # 0
  /\ Commit(ConsumedEvent(cp))
  /\ lineage' = log[cp].runs
  /\ resumed' = Append(resumed, cp)
  /\ cp' = 0
  /\ place' = "consumed"
  /\ UNCHANGED <<journals, run, turn, todo, history, produced, cutoff, crashes, errors>>

\* Neither the commit nor a look at the log succeeds: local resume is disabled.
ConsumeIndeterminate ==
  /\ place = "idle" /\ cp # 0
  /\ Fail
  /\ Commit(ConsumedEvent(cp)) \/ UNCHANGED log
  /\ cp' = 0
  /\ UNCHANGED <<journals, place, run, turn, todo, history, lineage, account, crashes>>

StartResumed ==
  /\ place = "consumed"
  /\ StartRun({}, lineage)
  /\ UNCHANGED <<log, cp, todo, history, resumed, cutoff, crashes, errors>>

-----------------------------------------------------------------------------
(* Recovery and restarts. *)

Open ==
  /\ place = "down"
  /\ BeginRecovery
  /\ UNCHANGED <<durable, run, turn, cp, history, lineage, account, crashes, errors>>

\* Journals are handled in the order of their run ids.
Oldest == CHOOSE r \in todo : \A k \in todo : r <= k

Recovering == place = "recovering" /\ todo # {}

\* Mutation of NeedsCheckpoint: a stopped run with a finished journal needs none.
NeedsItIfUnfinished(r) == ~journals[r].finished /\ ~CheckpointSaved(r)

NeedsCheckpoint(r) ==
  (~journals[r].finished \/ journals[r].stopped) /\ ~CheckpointSaved(r)

RecoverRecord ==
  /\ Recovering
  /\ \E e \in Lacking({Oldest}) : Commit(e)
  /\ UNCHANGED <<journals, session, account, crashes, errors>>

RecoverCheckpoint ==
  /\ Recovering
  /\ Lacking({Oldest}) = {} /\ NeedsCheckpoint(Oldest)
  /\ Commit(CheckpointEvent(Oldest, journals[Oldest].runs))
  /\ UNCHANGED <<journals, session, account, crashes, errors>>

\* Mutation of RecoverClear: the journal of a stopped run is left.
ClearUnlessStopped ==
  /\ Recovering
  /\ Lacking({Oldest}) = {} /\ ~NeedsCheckpoint(Oldest)
  /\ journals' = Without(Complete \cup (IF journals[Oldest].stopped THEN {} ELSE {Oldest}))
  /\ todo' = todo \ (Complete \cup {Oldest})
  /\ UNCHANGED <<log, place, run, turn, cp, history, lineage, account, crashes, errors>>

\* The journal goes last.
RecoverClear ==
  /\ Recovering
  /\ Lacking({Oldest}) = {} /\ ~NeedsCheckpoint(Oldest)
  /\ journals' = Without(Complete \cup {Oldest})
  /\ todo' = todo \ (Complete \cup {Oldest})
  /\ UNCHANGED <<log, place, run, turn, cp, history, lineage, account, crashes, errors>>

\* A failed repair goes on with its checkpoint as the outcome of the turn; all
\* else returns to the prompt, with the transcript of the checkpoint as history.
Reconciling == Cardinality(turn) = 2

RecoverDone ==
  /\ place = "recovering" /\ todo = {}
  /\ IF Reconciling
     THEN place' = "persisting" /\ UNCHANGED <<run, turn, cp, history, lineage>>
     ELSE /\ Back
          /\ cp' = Discover
          /\ history' = IF Discover = 0 THEN history ELSE log[Discover].runs
  /\ UNCHANGED <<durable, todo, account, crashes, errors>>

\* Anywhere; at the prompt it is also what quitting comes to.
Crash ==
  /\ place # "down" /\ crashes < MaxCrash
  /\ crashes' = crashes + 1
  /\ place' = "down" /\ run' = 0 /\ turn' = {} /\ cp' = 0 /\ todo' = {}
  /\ history' = {} /\ lineage' = {}
  /\ cutoff' = IF place = "running" THEN cutoff \cup {run} ELSE cutoff
  /\ UNCHANGED <<durable, resumed, produced, errors>>

-----------------------------------------------------------------------------

RecoveryInit ==
  /\ log = <<>> /\ journals = <<>>
  /\ place = "down" /\ run = 0 /\ turn = {} /\ cp = 0 /\ todo = {}
  /\ history = {} /\ lineage = {}
  /\ resumed = <<>>
  /\ produced = [r \in Runs |-> -1] /\ cutoff = {}
  /\ crashes = 0 /\ errors = 0

Turns ==
  \/ NewTurn \/ TurnFailsAtOnce \/ Produce \/ RunFails \/ Repair
  \/ \E stopped \in BOOLEAN : RunEnds(stopped)
  \/ PersistRecord \/ PersistDone \/ PersistFails
  \/ NothingToSave \/ ReuseCheckpoint \/ StoreCheckpoint \/ CheckpointNotSaved
  \/ Consume \/ ConsumeIndeterminate \/ StartResumed

Recover == RecoverRecord \/ RecoverCheckpoint \/ RecoverClear \/ RecoverDone

RecoveryNext == Turns \/ Recover \/ Open \/ Crash

\* The user opens Spine again, and recovery runs on.
RecoveryFairness == WF_recoveryVars(Open) /\ WF_recoveryVars(Recover)

RecoverySpec == RecoveryInit /\ [][RecoveryNext]_recoveryVars /\ RecoveryFairness

-----------------------------------------------------------------------------
(* Properties. *)

\* Recovery is idempotent: after any number of crashes and failing commits,
\* inside it too, no message is recorded twice, no run has two checkpoints
\* (persist, recover_thread, checkpoint_from_outcome), and no checkpoint was
\* resumed more than once (prepare_checkpoint_resume; README: it cannot be
\* replayed after another restart).
NothingTwice ==
  /\ \A i, k \in DOMAIN resumed : i # k => resumed[i] # resumed[k]
  /\ \A i, k \in DOMAIN log :
       i # k /\ log[i].kind = log[k].kind =>
         CASE log[i].kind = "record"     -> log[i] # log[k]
           [] log[i].kind = "checkpoint" -> log[i].run # log[k].run
           [] OTHER                      -> TRUE

\* A journal is dropped only when all that it held is in the log, and a run that
\* was stopped or cut short has its journal until it has become a checkpoint:
\* no crash and no error between the steps loses any of it.
NothingDropped ==
  /\ \A r \in Runs : \A n \in 1..produced[r] :
       r \in DOMAIN journals \/ Record(r, n) \in Logged
  /\ \A r \in cutoff : r \in DOMAIN journals \/ CheckpointSaved(r)

\* Recovery ends: after a crash the prompt comes back with no journal of a
\* stopped or dead run left (recover_thread over all the journals).
RecoveryEnds == (place = "down") ~> (place = "idle" /\ DOMAIN journals = {})

=============================================================================
