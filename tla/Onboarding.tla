----------------------------- MODULE Onboarding -----------------------------
(***************************************************************************)
(* The first conversation (crates/spine-cli/src/onboarding.rs): a short    *)
(* model-led introduction on an empty heart, kept as tagged events of the  *)
(* log so that a later launch can continue where the last one stopped.     *)
(*                                                                         *)
(* The log is abstracted to the tags of its onboarding events, and a reply *)
(* of the model to what the host asks of it: does it have words, do they   *)
(* look like a question, does it claim to be complete, does it carry a     *)
(* meaningful profile.  The waiting for answers belongs to Session.        *)
(***************************************************************************)
EXTENDS Naturals, Sequences, FiniteSets

CONSTANTS MinimumAnswers, MaximumAnswers

ASSUME AnswerBounds == /\ MinimumAnswers \in Nat
                       /\ MaximumAnswers \in Nat
                       /\ MinimumAnswers < MaximumAnswers

VARIABLE talk            \* the tags of the onboarding events in the log

OnboardingTag == {"question", "answer", "profile", "closing", "skipped", "pending"}

-----------------------------------------------------------------------------
(* OnboardingState::inspect *)

Has(tag) == \E i \in DOMAIN talk : talk[i] = tag

\* The transcript is made of the questions and the answers.
Spoken == {"question", "answer"}

Answers == Cardinality({i \in DOMAIN talk : talk[i] = "answer"})

\* A question, an answer or a pause opens the conversation again; a profile
\* or a skip closes it; a closing line decides nothing.
Pending ==
  \E i \in DOMAIN talk :
    /\ talk[i] \in {"question", "answer", "pending"}
    /\ \A j \in DOMAIN talk : j > i => talk[j] = "closing"

InProgress ==
  /\ ~Has("profile") /\ ~Has("skipped")
  /\ Pending \/ \E tag \in Spoken : Has(tag)

\* Mutation of WaitingForAnswer: a restart takes the recorded question for answered.
NeverWaiting == FALSE

\* The transcript ends with a question.
WaitingForAnswer ==
  \E i \in DOMAIN talk :
    /\ talk[i] = "question"
    /\ \A j \in DOMAIN talk : j > i => talk[j] \notin Spoken

-----------------------------------------------------------------------------
(* One turn of the model *)

\* What one reply of the model may be, after parsing.  Plain text without the
\* JSON envelope counts as complete exactly when it is not a question.
ModelReply == [reply : {"none", "question", "statement"}, complete : BOOLEAN, profile : BOOLEAN]

ConstraintFor(count) ==
  CASE count < MinimumAnswers  -> "continue"
    [] count >= MaximumAnswers -> "finish"
    [] OTHER                   -> "flexible"

ValidForConstraint(turn, constraint) ==
  /\ turn.reply # "none"
  /\ CASE constraint = "continue" -> ~turn.complete /\ turn.reply = "question"
       [] constraint = "flexible" -> \/ ~turn.complete /\ turn.reply = "question"
                                     \/ turn.profile
       [] constraint = "finish"   -> turn.complete /\ turn.profile

\* What the host makes of a reply, valid or not: a question that was not asked
\* is replaced by a stock one, a missing profile by the answers themselves.
FinalizeTurn(turn, constraint) ==
  CASE constraint = "continue" -> "question"
    [] constraint = "flexible" -> IF turn.complete THEN "complete" ELSE "question"
    [] constraint = "finish"   -> "complete"

\* generate_turn: a first reply that breaks the host's rules is asked for once
\* more, and the second one is taken as it is.
GenerateTurn(first, second) ==
  LET constraint == ConstraintFor(Answers)
  IN  FinalizeTurn(IF ValidForConstraint(first, constraint) THEN first ELSE second, constraint)

\* commit_tagged
Record(tag) == talk' = Append(talk, tag)

-----------------------------------------------------------------------------
(* Questions and answers alternate from the first question on, however    *)
(* often the program crashed, was quit or was paused by an error in       *)
(* between: a question that was recorded and not answered is asked again  *)
(* and not joined by another.  A profile rests on enough answers, nobody  *)
(* is asked more than the maximum, and once there is a profile or a skip  *)
(* the conversation is over for good.                                     *)
FirstTalkSound ==
  /\ \A i, j \in DOMAIN talk :
       i < j /\ talk[i] = talk[j] /\ talk[i] \in Spoken =>
         \E k \in DOMAIN talk : i < k /\ k < j /\ talk[k] \in Spoken \ {talk[i]}
  /\ \A j \in DOMAIN talk : talk[j] = "answer" =>
       \E i \in DOMAIN talk : i < j /\ talk[i] = "question"
  /\ Answers <= MaximumAnswers
  /\ Has("profile") => Answers >= MinimumAnswers
  /\ \A i \in DOMAIN talk :
       talk[i] \in {"profile", "skipped"} =>
         \A j \in DOMAIN talk : j > i => talk[j] = "closing"

=============================================================================
