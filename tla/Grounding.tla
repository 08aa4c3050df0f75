------------------------------ MODULE Grounding ------------------------------
(***************************************************************************)
(* Answer grounding (grounding.rs of the command line, main.rs, the journal*)
(* of transcript.rs): what of a turn and of the memory counts as evidence, *)
(* the verification of an answer against it, the one repair, the caveat,   *)
(* and what a crash in between leaves for the recovery.                    *)
(*                                                                         *)
(* One factual claim is followed: a text says it or does not.  The verifier*)
(* is taken to be right about the evidence it is given, so what is checked *)
(* is which evidence that is and what becomes of the verdict.  Every text  *)
(* has an origin: the user, the world (files, pages, command output) or the*)
(* model.  What the model writes to a file and reads back is the world's.  *)
(***************************************************************************)
EXTENDS Integers, Sequences, FiniteSets, SequencesExt

CONSTANTS
  MaxLog,      \* canonical events (bound)
  MaxMessages, \* messages of a turn (bound)
  MaxTurns,    \* turns and crashes (bound)
  MaxDepth     \* nesting of recall results that is followed (8 in the code)

ASSUME DepthBound == MaxDepth \in Nat

VARIABLES
  log,      \* canonical records
  phase,    \* of the turn: idle, running, answered, repairing, reanswered, decided or
            \* finalized
  recalled, \* records recalled and rehydrated for the turn
  messages, \* messages of the turn
  answer,   \* outcome.response: says, caveated
  journals, \* journal envelopes of the turn: the answer saved and grounding_pending
  heard,    \* the claim was said by the user or the world
  turns     \* turns begun and crashes

groundVars == <<log, phase, recalled, messages, answer, journals, heard, turns>>

\* A text: role, the tool it is the result of, whether that succeeded and is named by one earlier
\* call, the records a recall returned, marks of model authorship, whether it says the claim.
Text(role, tool, sound, inner, marked, says) ==
  [role |-> role, tool |-> tool, sound |-> sound, inner |-> inner, marked |-> marked, says |-> says,
   caveated |-> FALSE]

NoAnswer == [says |-> FALSE, caveated |-> FALSE]

----------------------------------------------------------------------------
\* Mutation of Admissible: the role decides, whoever wrote the text.
AdmissibleByRole(r) == r.role = "user" \/ (r.role = "tool" /\ r.sound)

\* memory_records: supported_origin, and neither model_authored nor a model_task.
Admissible(r) ==
  /\ r.role = "user" \/ (r.role = "tool" /\ r.sound /\ r.tool # "model")
  /\ ~r.marked

\* memory_records_at_depth: a record supports the claim itself, or, as the result of a recall,
\* through the records in it, to a bounded depth.
Supports ==
  LET at[depth \in 0..MaxDepth] ==
        [i \in DOMAIN log |->
           /\ depth > 0
           /\ Admissible(log[i])
           /\ IF log[i].role = "tool" /\ log[i].tool = "recall"
              THEN \E j \in log[i].inner : at[depth - 1][j]
              ELSE log[i].says]
  IN at[MaxDepth]

\* evidence_from_recall_and_messages: the recall of the turn, the user's words, and the successful
\* results of tools that do not hand back model output; host instructions are no evidence.
Evidence ==
  \/ \E i \in recalled : Supports[i]
  \/ \E k \in DOMAIN messages :
       LET m == messages[k]
       IN \/ m.role = "user" /\ m.says
          \/ m.role = "tool" /\ m.sound /\ m.tool = "source" /\ m.says
          \/ m.role = "tool" /\ m.sound /\ m.tool = "recall" /\ \E i \in m.inner : Supports[i]

\* append_terminal_caveat.
Caveated(a) == [a EXCEPT !.caveated = TRUE]

\* HeartJournal::save with grounding enabled.
Journaled(a) == [answer |-> a, pending |-> TRUE]

\* finalize_grounding: the journal copies take the final text and are no longer pending.
Finalized(a) == {[answer |-> a, pending |-> FALSE]}

\* recover_thread: output whose grounding was not finalized is caveated.
Recovered(j) == IF j.pending THEN Caveated(j.answer) ELSE j.answer

Recorded(a) == [Text("assistant", "none", TRUE, {}, FALSE, a.says) EXCEPT !.caveated = a.caveated]

----------------------------------------------------------------------------
GroundInit ==
  /\ log = <<>> /\ phase = "idle" /\ recalled = {} /\ messages = <<>>
  /\ answer = NoAnswer /\ journals = {} /\ heard = FALSE /\ turns = 0

\* A turn begins: the task is committed, records are recalled and rehydrated for it.
BeginGroundedTurn(says, found) ==
  /\ phase = "idle" /\ turns < MaxTurns /\ Len(log) < MaxLog
  /\ log' = Append(log, Text("user", "none", TRUE, {}, FALSE, says))
  /\ messages' = <<Text("user", "none", TRUE, {}, FALSE, says)>>
  /\ recalled' = found
  /\ phase' = "running"
  /\ turns' = turns + 1
  /\ heard' = (heard \/ says)
  /\ UNCHANGED <<answer, journals>>

Working == phase \in {"running", "repairing"} /\ Len(messages) < MaxMessages

\* A tool of the host answers from the world; its call may fail or its identifier be used twice.
UseSource(says, sound) ==
  /\ Working
  /\ messages' = Append(messages, Text("tool", "source", sound, {}, FALSE, says))
  /\ heard' = (heard \/ says)
  /\ UNCHANGED <<log, phase, recalled, answer, journals, turns>>

\* heart_recall and search_memory return records of the log.
UseRecall(found) ==
  /\ Working
  /\ messages' = Append(messages, Text("tool", "recall", TRUE, found, FALSE, FALSE))
  /\ UNCHANGED <<log, phase, recalled, answer, journals, heard, turns>>

\* save_memory commits what the model says as its own record and answers without it.
SaveMemory(says) ==
  /\ Working /\ Len(log) < MaxLog
  /\ log' = Append(log, Text("assistant", "none", TRUE, {}, TRUE, says))
  /\ messages' = Append(messages, Text("tool", "model", TRUE, {}, FALSE, FALSE))
  /\ UNCHANGED <<phase, recalled, answer, journals, heard, turns>>

\* delegate commits the task that the model wrote in the role of a user, marked by its provider;
\* check_results hands back what the subagent says.
Delegate(says) ==
  /\ Working /\ Len(log) < MaxLog
  /\ log' = Append(log, Text("user", "none", TRUE, {}, TRUE, says))
  /\ messages' = Append(messages, Text("tool", "model", TRUE, {}, FALSE, says))
  /\ UNCHANGED <<phase, recalled, answer, journals, heard, turns>>

\* The run ends with an answer, which the journal has as a draft.
GiveAnswer(says) ==
  /\ phase \in {"running", "repairing"}
  /\ answer' = [says |-> says, caveated |-> FALSE]
  /\ journals' = journals \cup {Journaled(answer')}
  /\ phase' = IF phase = "running" THEN "answered" ELSE "reanswered"
  /\ UNCHANGED <<log, recalled, messages, heard, turns>>

\* The run is stopped at a boundary: its summary is caveated without a verification.
GiveSummary(says) ==
  /\ phase \in {"running", "repairing"}
  /\ answer' = [says |-> says, caveated |-> TRUE]
  /\ journals' = journals \cup {Journaled([says |-> says, caveated |-> FALSE])}
  /\ phase' = "decided"
  /\ UNCHANGED <<log, recalled, messages, heard, turns>>

\* ground_answer, first verification: supported, or without a factual claim.
VerifiedFirst ==
  /\ phase = "answered"
  /\ answer.says => Evidence
  /\ phase' = "decided"
  /\ UNCHANGED <<log, recalled, messages, answer, journals, heard, turns>>

\* Refuted: the draft is caveated in the journal before the repair begins, and without that there
\* is no repair.  The repair task quotes the rejected claim.
BeginRepair(written) ==
  /\ phase = "answered"
  /\ answer.says /\ ~Evidence
  /\ answer' = Caveated(answer)
  /\ \/ /\ written
        /\ journals' = Finalized(answer')
        /\ messages' = Append(messages, Text("host", "none", TRUE, {}, FALSE, TRUE))
        /\ phase' = "repairing"
     \/ ~written /\ phase' = "decided" /\ UNCHANGED <<journals, messages>>
  /\ UNCHANGED <<log, recalled, heard, turns>>

\* The second verification decides about the caveat.
VerifiedSecond ==
  /\ phase = "reanswered"
  /\ answer' = IF answer.says /\ ~Evidence THEN Caveated(answer) ELSE answer
  /\ phase' = "decided"
  /\ UNCHANGED <<log, recalled, messages, journals, heard, turns>>

\* The verifier fails.
VerifierFails ==
  /\ phase \in {"answered", "reanswered"}
  /\ answer' = Caveated(answer)
  /\ phase' = "decided"
  /\ UNCHANGED <<log, recalled, messages, journals, heard, turns>>

\* The repair is interrupted or fails: the caveated draft stands.
RepairLost ==
  /\ phase = "repairing"
  /\ phase' = "decided"
  /\ UNCHANGED <<log, recalled, messages, answer, journals, heard, turns>>

\* finalize_grounding of the decided answer; when the journal cannot be written the answer is
\* caveated and goes on.
Finalize(written) ==
  /\ phase = "decided"
  /\ answer' = IF written THEN answer ELSE Caveated(answer)
  /\ journals' = IF written THEN Finalized(answer) ELSE journals
  /\ phase' = "finalized"
  /\ UNCHANGED <<log, recalled, messages, heard, turns>>

\* transcript::persist: the results of a turn become records of the log, marked when the tool hands
\* back model output.
Results ==
  LET at == {k \in DOMAIN messages : messages[k].role = "tool"}
      nth(n) == messages[CHOOSE k \in at : Cardinality({j \in at : j < k}) = n - 1]
  IN [n \in 1..Cardinality(at) |-> [nth(n) EXCEPT !.marked = nth(n).tool = "model"]]

\* The log takes the results and answers, and nothing of the turn is left.
Close(answers) ==
  /\ Len(log) + Len(Results) + Len(answers) <= MaxLog
  /\ log' = log \o Results \o [k \in DOMAIN answers |-> Recorded(answers[k])]
  /\ journals' = {} /\ messages' = <<>> /\ recalled' = {} /\ answer' = NoAnswer
  /\ phase' = "idle"
  /\ UNCHANGED heard

\* The turn is persisted and its journals dropped.
PersistTurn ==
  /\ phase = "finalized"
  /\ Close(<<answer>>)
  /\ UNCHANGED turns

\* The process dies and recover persists what the journals of the turn hold.
CrashAndRecover ==
  /\ phase # "idle" /\ turns < MaxTurns
  /\ LET saved == SetToSeq(journals)
     IN Close([k \in DOMAIN saved |-> Recovered(saved[k])])
  /\ turns' = turns + 1

\* At most one record is found by a recall (bound).
Few(S) == {{}} \cup {{i} : i \in S}

GroundNext ==
  \/ \E says \in BOOLEAN, found \in Few(DOMAIN log) : BeginGroundedTurn(says, found)
  \/ \E says, sound \in BOOLEAN : UseSource(says, sound)
  \/ \E found \in Few(DOMAIN log) : UseRecall(found)
  \/ \E says \in BOOLEAN : SaveMemory(says) \/ Delegate(says) \/ GiveAnswer(says) \/ GiveSummary(says)
  \/ VerifiedFirst
  \/ VerifiedSecond
  \/ VerifierFails
  \/ RepairLost
  \/ \E written \in BOOLEAN : BeginRepair(written) \/ Finalize(written)
  \/ PersistTurn
  \/ CrashAndRecover

GroundSpec == GroundInit /\ [][GroundNext]_groundVars

----------------------------------------------------------------------------
(* Properties.                                                             *)

\* The model never corroborates itself: an answer in the log, or about to be shown, that states the
\* claim without a caveat was preceded by the user or the world saying it, whatever the model
\* saved, delegated, recalled and repeated, over any number of turns, repairs and crashes.
\* It is about the answer of a turn; what the model says on the way to it (text beside
\* calls, an answer that was sent back) is recorded as said and is not modelled.
AnswersGrounded ==
  LET given == {log[i] : i \in {i \in DOMAIN log : log[i].role = "assistant" /\ ~log[i].marked}}
               \cup (IF phase = "finalized" THEN {answer} ELSE {})
  IN \A a \in given : a.says /\ ~a.caveated => heard
=============================================================================
