------------------------------ MODULE Provider ------------------------------
(***************************************************************************)
(* One completion request (spine-runtime: llama_cpp.rs, streaming.rs): the *)
(* conversation is cut to what the endpoint said it can read, posted with  *)
(* retries, read as a stream that may break anywhere, and cancelled at the *)
(* endpoint when it is given up.                                           *)
(*                                                                         *)
(* A message is its role, the number of its characters, the characters of  *)
(* the tool calls it makes and the call it makes or answers (0 for none).  *)
(* Of the endpoint, which is external, the model keeps which attempts it   *)
(* may still be generating for; a reply is its calls, native and in text,  *)
(* and the stream delivers it in pieces.  Prompt sizes are those of the    *)
(* code, in tokens of four characters.                                     *)
(***************************************************************************)
EXTENDS Integers, Sequences, FiniteSets, FiniteSetsExt, SequencesExt

CONSTANTS
  Histories,       \* conversations a request may carry
  ConfigContext,   \* config.max_context_tokens, 0 for None
  Contexts,        \* context lengths the endpoint may advertise
  SafetyTokens, MaxTokens, MaximumRetries,  \* of LlamaCppConfig
  ToolTokens,      \* estimated_json_tokens of the tools
  CatalogueChars,  \* length of the same tools as text
  Replies,         \* [native, text]: sequences of calls of a whole reply
  Pieces           \* events a streamed reply comes in

Message == [role : {"system", "user", "assistant", "tool"}, chars : Nat, metadata : Nat, id : Nat]

\* The harness puts every tool result behind the call it answers, before the next
\* message of the user.
Answering(messages) ==
  \A i \in DOMAIN messages : messages[i].role = "tool" =>
    \E j \in 1..(i - 1) : /\ messages[j].role = "assistant" /\ messages[j].id = messages[i].id
                          /\ \A k \in j..i : messages[k].role # "user"

ASSUME PromptNumbers ==
  /\ ConfigContext \in Nat /\ Contexts \subseteq Nat
  /\ SafetyTokens \in Nat /\ MaxTokens \in Int /\ ToolTokens \in Nat /\ CatalogueChars \in Nat

ASSUME HistoriesSound == \A h \in Histories : h \in Seq(Message) /\ Answering(h)

VARIABLES
  detected,   \* detected_context_tokens and detected_tools
  conversation,    \* the messages of the request
  offered,    \* the request allows tool calls
  prompt,     \* the messages as they will be posted
  room,       \* prompt_budget
  call,       \* where complete() is
  attempt,    \* attempt
  fallback,   \* stream_fallback
  armed,      \* CancellationGuard: armed
  reply,      \* what the endpoint answers
  got,        \* pieces of it the accumulator has
  finished,   \* Accumulator: finished
  result,     \* calls of the ModelTurn handed to the harness
  generating, \* attempts the endpoint may still be working on
  deletes     \* cancellations the dropped guard has still to try

promptVars == <<detected, conversation, offered, prompt, room>>
requestVars == <<call, attempt, fallback, armed, reply, got, finished, result, generating, deletes>>
providerVars == <<promptVars, requestVars>>

Less(a, b) == IF a > b THEN a - b ELSE 0
Larger(a, b) == IF a > b THEN a ELSE b
Smaller(a, b) == IF a < b THEN a ELSE b
Quarters(n) == (n + 3) \div 4

-----------------------------------------------------------------------------
(* What the endpoint can do *)

\* Three requests, of which one may answer for the others; what /props and
\* /v1/models do not say of the tools is unknown again, a context once known
\* stays.  An endpoint that rejects the key changes nothing.
Health(tools, context) ==
  /\ call = "new"
  /\ detected' = [context |-> IF ConfigContext # 0 \/ context = 0
                              THEN detected.context ELSE context,
                  tools |-> tools]
  /\ UNCHANGED <<conversation, offered, prompt, room, requestVars>>

-----------------------------------------------------------------------------
(* prepare_messages *)

CompletionTokens(context) ==
  IF MaxTokens < 0 \/ context = 0 THEN MaxTokens
  ELSE Smaller(MaxTokens, Larger(context \div 4, 256))

PromptBudget(context, reserved) ==
  Larger(256, Less(Less(Less(context, Smaller(SafetyTokens, context \div 8)),
                        Larger(CompletionTokens(context), 0)), reserved))

Estimated(messages) ==
  LET size == [i \in DOMAIN messages |-> Quarters(messages[i].chars + messages[i].metadata) + 8]
  IN  SumFunction(size)

\* Mutation of Framing: what rounding adds is forgotten.
FramingRounded(messages) ==
  SumFunction([i \in DOMAIN messages |-> Quarters(messages[i].metadata) + 8])

\* Messages whose text is gone, one token each for what rounding may add.
Framing(messages) ==
  SumFunction([i \in DOMAIN messages |-> Quarters(messages[i].metadata) + 9])

Users(messages) == {i \in DOMAIN messages : messages[i].role = "user"}
LatestUser(messages) == IF Users(messages) = {} THEN 0 ELSE Max(Users(messages))

\* The tools go along in the request, or as text in the system message.
WithCatalogue(messages) ==
  IF offered /\ detected.tools = "no"
  THEN IF \E i \in DOMAIN messages : messages[i].role = "system"
       THEN LET first == Min({i \in DOMAIN messages : messages[i].role = "system"})
            IN  [messages EXCEPT ![first].chars = @ + CatalogueChars]
       ELSE <<[role |-> "system", chars |-> CatalogueChars, metadata |-> 0, id |-> 0]>> \o messages
  ELSE messages

Prepare ==
  /\ call = "new"
  /\ conversation' = WithCatalogue(conversation)
  /\ prompt' = conversation'
  /\ room' = PromptBudget(detected.context,
                          IF offered /\ detected.tools # "no" THEN ToolTokens ELSE 0)
  /\ call' = (IF detected.context = 0 THEN "post" ELSE "trim")
  /\ UNCHANGED <<detected, offered, attempt, fallback, armed, reply, got, finished, result,
                 generating, deletes>>

\* There is a turn to drop: the latest user message stays.
MustDrop == Estimated(prompt) > room /\ LatestUser(prompt) > 2

\* The first message and the messages from i on.
CutTo(messages, i) == <<messages[1]>> \o SubSeq(messages, i, Len(messages))

\* Mutation of NextTurn: only the oldest message goes.
NextMessage(messages) == 3

NextTurn(messages) == Min({i \in Users(messages) : i > 2})

\* The oldest turn goes, from behind the first message to the next user message.
DropOldest ==
  /\ call = "trim" /\ MustDrop
  /\ prompt' = CutTo(prompt, NextTurn(prompt))
  /\ UNCHANGED <<detected, conversation, offered, room, requestVars>>

\* Who keeps its text first: the latest user message, what follows it, newest
\* first, the first message, and the rest, newest first.
Priority(messages, i) ==
  LET user == LatestUser(messages)
      size == Len(messages)
  IN  CASE i = user              -> 0
        [] user # 0 /\ i > user  -> 1 + size - i
        [] i = 1 /\ i # user     -> 1 + size
        [] OTHER                 -> 2 * size + 2 - i

\* A text cut in its middle has the length it was allowed.
CompactText(chars, maximum) == Smaller(chars, maximum)

\* Each message gets what the ones before it have left.
Compacted(messages) ==
  LET characters == Larger(1, 4 * Less(room, Framing(messages)))
      Before(i) == {j \in DOMAIN messages : Priority(messages, j) < Priority(messages, i)}
      chars == [j \in DOMAIN messages |-> messages[j].chars]
      Left(i) == Less(characters, SumFunctionOnSet(chars, Before(i)))
  IN  [i \in DOMAIN messages |-> [messages[i] EXCEPT !.chars = CompactText(@, Left(i))]]

Trimmed ==
  /\ call = "trim" /\ ~MustDrop
  /\ prompt' = IF Estimated(prompt) > room THEN Compacted(prompt) ELSE prompt
  /\ call' = "post"
  /\ UNCHANGED <<detected, conversation, offered, room, attempt, fallback, armed, reply, got,
                 finished, result, generating, deletes>>

-----------------------------------------------------------------------------
(* complete *)

\* The guard is dropped with the future: three DELETEs, if it is armed.
Return(outcome, guard) ==
  /\ call' = outcome
  /\ armed' = guard
  /\ deletes' = IF guard THEN 3 ELSE 0

Post ==
  /\ call = "post"
  /\ call' = "sent"
  /\ armed' = TRUE
  /\ generating' = generating \union {attempt}
  /\ UNCHANGED <<promptVars, attempt, fallback, reply, got, finished, result, deletes>>

Retryable(status) == status \in {"429", "5xx"}

\* The endpoint refuses: it generates nothing for this attempt.  A refusal that
\* speaks of streaming is tried again without it, once and without counting.
Refused(status) ==
  /\ call = "sent"
  /\ generating' = generating \ {attempt}
  /\ \/ /\ status = "400 stream" /\ ~fallback
        /\ fallback' = TRUE /\ call' = "post"
        /\ UNCHANGED <<attempt, armed, deletes>>
     \/ /\ status # "400 stream" \/ fallback
        /\ Retryable(status) /\ attempt < MaximumRetries
        /\ call' = "sleep"
        /\ UNCHANGED <<attempt, fallback, armed, deletes>>
     \/ /\ status # "400 stream" \/ fallback
        /\ ~(Retryable(status) /\ attempt < MaximumRetries)
        /\ Return("error", FALSE)
        /\ UNCHANGED <<attempt, fallback>>
     \/ /\ status \in {"400 stream", "400"} /\ ~fallback  \* its body cannot be read
        /\ Return("error", armed)
        /\ UNCHANGED <<attempt, fallback>>
  /\ UNCHANGED <<promptVars, reply, got, finished, result>>

\* No answer: the endpoint may have the request or not.
TransportFails ==
  /\ call = "sent"
  /\ generating' \in {generating, generating \ {attempt}}
  /\ \/ attempt >= MaximumRetries /\ Return("error", armed)
     \/ attempt < MaximumRetries /\ call' = "sleep" /\ UNCHANGED <<armed, deletes>>
  /\ UNCHANGED <<promptVars, attempt, fallback, reply, got, finished, result>>

Slept ==
  /\ call = "sleep"
  /\ attempt' = attempt + 1
  /\ call' = "post"
  /\ UNCHANGED <<promptVars, fallback, armed, reply, got, finished, result, generating, deletes>>

\* A stream begins, or the whole answer is there, or its body cannot be read.
Answered(r) ==
  /\ call = "sent"
  /\ reply' = r
  /\ \/ call' = "stream" /\ UNCHANGED <<got, armed, generating, deletes>>
     \/ call' = "parse" /\ got' = Pieces /\ armed' = FALSE
        /\ generating' = generating \ {attempt} /\ UNCHANGED deletes
     \/ Return("error", armed) /\ UNCHANGED <<got, generating>>
  /\ UNCHANGED <<promptVars, attempt, fallback, finished, result>>

\* Accumulator::event.  The mark comes with the last piece or after it.
StreamEvent ==
  /\ call = "stream" /\ ~finished
  /\ \/ got < Pieces /\ got' = got + 1 /\ finished' \in {FALSE, got' = Pieces}
     \/ got = Pieces /\ finished' = TRUE /\ UNCHANGED got
  /\ generating' = IF finished' THEN generating \ {attempt} ELSE generating
  /\ UNCHANGED <<promptVars, call, attempt, fallback, armed, reply, result, deletes>>

\* Mutation of Complete: an accumulator that has anything is complete.
HasSomething == got > 0

\* Accumulator::response
Complete == finished

\* The body ends, after the mark or, where the connection was cut, before it.
StreamEnds ==
  /\ call = "stream"
  /\ \/ Complete /\ call' = "parse" /\ armed' = FALSE /\ UNCHANGED deletes
     \/ ~Complete /\ Return("error", armed)
  /\ UNCHANGED <<promptVars, attempt, fallback, reply, got, finished, result, generating>>

\* An error event, broken JSON, a lost connection, more than MAX_STREAM_BYTES.
StreamBreaks ==
  /\ call = "stream"
  /\ Return("error", armed)
  /\ UNCHANGED <<promptVars, attempt, fallback, reply, got, finished, result, generating>>

\* The native calls as they are, then each call in the text that is not there yet.
Calls(r) ==
  IF offered
  THEN FoldLeft(LAMBDA calls, c : IF Contains(calls, c) THEN calls ELSE Append(calls, c),
                r.native, r.text)
  ELSE r.native

\* No choices, or arguments that are no JSON, are an error.
Parse ==
  /\ call = "parse"
  /\ \/ Return("turn", FALSE) /\ result' = Calls(reply)
     \/ Return("error", FALSE) /\ UNCHANGED result
  /\ UNCHANGED <<promptVars, attempt, fallback, reply, got, finished, generating>>

\* A stop or an interrupt drops the future where it awaits.
Dropped ==
  /\ call \in {"sent", "sleep", "stream"}
  /\ Return("dropped", armed)
  /\ UNCHANGED <<promptVars, attempt, fallback, reply, got, finished, result, generating>>

\* CancellationGuard::drop: a DELETE by conversation id reaches every attempt.
Delete ==
  /\ call \in {"error", "dropped"} /\ deletes > 0
  /\ \/ deletes' = 0 /\ generating' = {}
     \/ deletes' = deletes - 1 /\ UNCHANGED generating
  /\ UNCHANGED <<promptVars, call, attempt, fallback, armed, reply, got, finished, result>>

-----------------------------------------------------------------------------

ProviderInit ==
  /\ detected = [context |-> ConfigContext, tools |-> "unknown"]
  /\ conversation \in Histories /\ offered \in BOOLEAN
  /\ prompt = conversation /\ room = 0
  /\ call = "new" /\ attempt = 0 /\ fallback = FALSE /\ armed = FALSE
  /\ reply = [native |-> <<>>, text |-> <<>>] /\ got = 0 /\ finished = FALSE
  /\ result = <<>> /\ generating = {} /\ deletes = 0

ProviderNext ==
  \/ \E tools \in {"yes", "no", "unknown"}, context \in Contexts \union {0} : Health(tools, context)
  \/ Prepare \/ DropOldest \/ Trimmed
  \/ Post \/ TransportFails \/ Slept \/ StreamEvent \/ StreamEnds \/ StreamBreaks
  \/ \E status \in {"400 stream", "400", "429", "5xx"} : Refused(status)
  \/ \E r \in Replies : Answered(r)
  \/ Parse \/ Dropped \/ Delete

ProviderSpec == ProviderInit /\ [][ProviderNext]_providerVars

-----------------------------------------------------------------------------
(* Properties. *)

Shape(messages) ==
  [i \in DOMAIN messages |-> <<messages[i].role, messages[i].metadata, messages[i].id>>]

\* What is posted is the first message and the conversation from some user
\* message on, the latest one at least, and every tool result has its call before
\* it (prepare_messages: "Tool-call metadata cannot be truncated without breaking
\* the assistant/tool protocol").
PromptWhole ==
  call \notin {"new", "trim"} =>
    /\ \/ Shape(prompt) = Shape(conversation)
       \/ \E i \in Users(conversation) \ {1} : Shape(prompt) = Shape(CutTo(conversation, i))
    /\ \A i \in DOMAIN prompt : prompt[i].role = "tool" =>
         \E j \in 1..(i - 1) : prompt[j].role = "assistant" /\ prompt[j].id = prompt[i].id

\* What is posted fits the room that prepare_messages computed, whatever was cut
\* where and rounded how often, unless the messages without text do not.
PromptFits ==
  call \notin {"new", "trim"} /\ detected.context # 0 /\ Framing(prompt) <= room =>
    Estimated(prompt) <= room

\* A turn is made of a whole reply only ("partial tool calls were not executed",
\* streaming.rs), though the stream may end anywhere; and a call that is over
\* while the endpoint may still generate for its last attempt is being cancelled
\* there, until the three tries are used up (complete, CancellationGuard).
NothingLeftBehind ==
  /\ call = "turn" => got = Pieces
  /\ call \in {"turn", "error", "dropped"} /\ attempt \in generating => armed

\* A request is sound: the prompt that is posted is whole and fits, a turn is made
\* of a whole reply, and a request that is over while its last attempt may still be
\* generating is being cancelled.  (An earlier attempt, given up after a transport
\* failure, may go on: an answer to a later one disarms the guard.)
CompletionSound == PromptWhole /\ PromptFits /\ NothingLeftBehind

=============================================================================
