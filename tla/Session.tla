------------------------------- MODULE Session ------------------------------
(***************************************************************************)
(* One sitting at the partner: the terminal (terminal_input.rs), the web   *)
(* interface (web_server.rs) and the chat loop of main.rs, which meet in   *)
(* one unbounded queue of lines and in the snapshot the browser polls.     *)
(*                                                                         *)
(* A line is abstracted to what the loop tells apart.  "command" is every  *)
(* line answered at the prompt alone (/tasks apart): /circuit, the resets, *)
(* /cancel-task.  Of the snapshot the two fields that guard a handler are  *)
(* kept, `busy' and `checkpoint_available'; what is only shown is left out.*)
(* The run itself is Harness, its recovery Recovery and the circuits       *)
(* CircuitBreaker: their answers are choices here.                         *)
(***************************************************************************)
EXTENDS Onboarding

CONSTANTS
  Client,       \* concurrent requests of the web interface
  MaxInputs,    \* bound: lines typed or posted
  MaxLaunches   \* bound: times the program is started

VARIABLES
  lines,        \* the queue: line_sender / line_receiver
  framer,       \* PasteFramer: what the burst so far amounts to, or "empty"
  api,          \* client -> the line its handler has still to send, or "idle"
  web,          \* WebSnapshot
  loop,         \* where main's loop is
  checkpoint,   \* main's checkpoint is Some
  quitting,     \* quit_after inside run_with_operator_controls
  quit_after,   \* quit_after of the turn
  outcome,      \* the checkpoint of the outcome in hand is Some
  heard,        \* history variable: controlled runs whose last word was /quit
  inputs, launches

sessionVars == <<talk, lines, framer, api, web, loop, checkpoint, quitting, quit_after,
                 outcome, heard, inputs, launches>>

people == <<framer, api, inputs>>
turn == <<quitting, quit_after, outcome, heard>>

Command == {"/stop", "/interrupt", "/quit", "/resume", "/tasks", "/skip", "command"}
Line == Command \union {"text", "blank", "error"}

Shown(busy, available) == [busy |-> busy, checkpoint |-> available]
Busy(busy) == [web EXCEPT !.busy = busy]

\* What WebUi does to the snapshot, by the names of its methods.
BeginTurn == Busy(TRUE)
BeginResume == Shown(TRUE, FALSE)
SetCheckpointAvailable(available) == Shown(web.busy, available)
Completed(available) == Shown(FALSE, available)
Failed == Busy(FALSE)
BeginOnboarding == Busy(TRUE)
FinishOnboarding == Busy(FALSE)
PauseOnboarding == Busy(FALSE)

SessionInit ==
  /\ talk = <<>>
  /\ lines = <<>>
  /\ framer = "empty"
  /\ api = [c \in Client |-> "idle"]
  /\ web = Shown(FALSE, FALSE)
  /\ loop = "start"
  /\ checkpoint = FALSE
  /\ quitting = FALSE /\ quit_after = FALSE /\ outcome = FALSE
  /\ heard = {}
  /\ inputs = 0
  /\ launches = 1

-----------------------------------------------------------------------------
(* The terminal.  Lines less than 50 ms apart are one message: several     *)
(* lines are never a command, unless all but one are blank, because the    *)
(* message is trimmed before it is compared.                               *)

Join(a, b) == CASE a \in {"empty", "blank"} -> b
                [] b = "blank"              -> a
                [] OTHER                    -> "text"

TypeLine(line) ==
  /\ loop # "closed" /\ inputs < MaxInputs
  /\ inputs' = inputs + 1
  /\ \/ line = "error"        \* what was collected goes first, then the error
        /\ lines' = (IF framer = "empty" THEN lines ELSE Append(lines, framer)) \o <<"error">>
        /\ framer' = "empty"
     \/ line # "error"
        /\ framer' = Join(framer, line)
        /\ UNCHANGED lines
  /\ UNCHANGED <<talk, api, web, loop, checkpoint, turn, launches>>

\* PASTE_BURST_WINDOW passes.
BurstEnds ==
  /\ loop # "closed" /\ framer # "empty"
  /\ lines' = Append(lines, framer)
  /\ framer' = "empty"
  /\ UNCHANGED <<talk, api, web, loop, checkpoint, turn, inputs, launches>>

-----------------------------------------------------------------------------
(* The web interface.  Every handler ends in a send of its own, after what *)
(* it decided on may have changed.                                         *)

Posted == Command \union {"text"}

Handle(c, line) ==
  /\ loop # "closed" /\ inputs < MaxInputs /\ api[c] = "idle"
  /\ inputs' = inputs + 1
  /\ api' = [api EXCEPT ![c] = line]
  /\ UNCHANGED <<talk, lines, framer, loop, checkpoint, turn, launches>>

\* The test and the setting of busy are under one write lock.
ApiMessage(c, line) ==
  /\ ~web.busy
  /\ web' = Busy(TRUE)
  /\ Handle(c, line)

ApiGuidance(c, line) == web.busy /\ Handle(c, line) /\ UNCHANGED web

\* For a resume the handler marks the snapshot busy in a step of its own.
ApiControl(c, line) ==
  /\ CASE line \in {"/stop", "/interrupt"} -> web.busy
       [] line = "/resume"                 -> ~web.busy /\ web.checkpoint
       [] line = "/tasks"                  -> ~web.busy
       [] OTHER                            -> line = "/quit"
  /\ Handle(c, IF line = "/resume" THEN "marking" ELSE line)
  /\ UNCHANGED web

ApiMarks(c) ==
  /\ loop # "closed" /\ api[c] = "marking"
  /\ web' = Busy(TRUE)
  /\ api' = [api EXCEPT ![c] = "/resume"]
  /\ UNCHANGED <<talk, lines, framer, loop, checkpoint, turn, inputs, launches>>

ApiSends(c) ==
  /\ loop # "closed" /\ api[c] \in Line
  /\ lines' = Append(lines, api[c])
  /\ api' = [api EXCEPT ![c] = "idle"]
  /\ UNCHANGED <<talk, framer, web, loop, checkpoint, turn, inputs, launches>>

-----------------------------------------------------------------------------
(* The first conversation *)

ShouldOnboard == talk = <<>> \/ InProgress

Launch ==
  /\ loop = "start"
  /\ \/ ~ShouldOnboard /\ loop' = "ready" /\ UNCHANGED <<talk, web>>
     \/ ShouldOnboard    \* --skip-onboarding
        /\ Record("skipped") /\ web' = FinishOnboarding /\ loop' = "ready"
     \/ ShouldOnboard
        /\ loop' = (IF WaitingForAnswer THEN "ask" ELSE "greet")
        /\ UNCHANGED <<talk, web>>
  /\ UNCHANGED <<lines, people, checkpoint, turn, launches>>

Greet ==
  /\ loop = "greet"
  /\ web' = BeginOnboarding
  /\ loop' = "thinking"
  /\ UNCHANGED <<talk, lines, people, checkpoint, turn, launches>>

ModelAnswers(first, second) ==
  /\ loop = "thinking"
  /\ \/ GenerateTurn(first, second) = "complete" /\ Record("profile") /\ loop' = "closing"
     \/ GenerateTurn(first, second) = "question" /\ Record("question") /\ loop' = "ask"
  /\ UNCHANGED <<web, lines, people, checkpoint, turn, launches>>

ModelUnavailable ==
  /\ loop = "thinking"
  /\ Record("pending")
  /\ web' = PauseOnboarding
  /\ loop' = "ready"
  /\ UNCHANGED <<lines, people, checkpoint, turn, launches>>

Close ==
  /\ loop = "closing"
  /\ Record("closing")
  /\ web' = FinishOnboarding
  /\ loop' = "ready"
  /\ UNCHANGED <<lines, people, checkpoint, turn, launches>>

Ask ==
  /\ loop = "ask"
  /\ web' = FinishOnboarding
  /\ loop' = "answer"
  /\ UNCHANGED <<talk, lines, people, checkpoint, turn, launches>>

\* Any other line is an answer, /stop and /interrupt too.
TakeAnswer ==
  /\ loop = "answer" /\ lines # <<>>
  /\ lines' = Tail(lines)
  /\ LET line == Head(lines) IN
       \/ line \in {"error", "blank", "/tasks"} /\ UNCHANGED <<talk, web, loop>>
       \/ line = "/quit" /\ web' = PauseOnboarding /\ loop' = "closed" /\ UNCHANGED talk
       \/ line = "/skip" /\ Record("skipped") /\ web' = FinishOnboarding /\ loop' = "ready"
       \/ /\ line \notin {"error", "blank", "/tasks", "/quit", "/skip"}
          /\ Record("answer") /\ web' = BeginOnboarding /\ loop' = "greet"
  /\ UNCHANGED <<people, checkpoint, turn, launches>>

\* discover_persisted_checkpoint, of which Recovery says what it finds; the
\* heart of the first launch is new.
Ready ==
  /\ loop = "ready"
  /\ checkpoint' \in (IF launches = 1 THEN {FALSE} ELSE BOOLEAN)
  /\ web' = SetCheckpointAvailable(checkpoint')
  /\ loop' = "prompt"
  /\ UNCHANGED <<talk, lines, people, turn, launches>>

-----------------------------------------------------------------------------
(* The prompt *)

\* Mutation of CommandCompleted: a refused resume leaves the snapshot as it is.
CompletedUnlessRefused ==
  IF Head(lines) = "/resume" /\ ~checkpoint THEN web ELSE Completed(checkpoint')

\* WebUi::complete after a line answered at the prompt.
CommandCompleted == Completed(checkpoint')

PromptEnds ==
  /\ loop = "prompt" /\ lines # <<>>
  /\ Head(lines) \in {"/quit", "error"}
  /\ lines' = Tail(lines)
  /\ loop' = "closed"
  /\ UNCHANGED <<talk, people, web, checkpoint, turn, launches>>

PromptBlank ==
  /\ loop = "prompt" /\ lines # <<>>
  /\ Head(lines) = "blank"
  /\ lines' = Tail(lines)
  /\ UNCHANGED <<talk, people, web, loop, checkpoint, turn, launches>>

\* A command, a resume of nothing, a turn refused by an open circuit, or a
\* resume that could not mark its checkpoint consumed, which may then be gone.
PromptCommand ==
  /\ loop = "prompt" /\ lines # <<>>
  /\ Head(lines) \notin {"/quit", "error", "blank"}
  /\ lines' = Tail(lines)
  /\ \/ checkpoint' = checkpoint
     \/ Head(lines) = "/resume" /\ checkpoint' = FALSE
  /\ web' = CommandCompleted
  /\ UNCHANGED <<talk, people, loop, turn, launches>>

PromptResume ==
  /\ loop = "prompt" /\ lines # <<>>
  /\ Head(lines) = "/resume" /\ checkpoint
  /\ lines' = Tail(lines)
  /\ checkpoint' = FALSE
  /\ web' = BeginResume
  /\ quitting' = FALSE /\ heard' = {}
  /\ loop' = "run"
  /\ UNCHANGED <<talk, people, quit_after, outcome, launches>>

\* Whatever is no command of the prompt is a task for the model, a /stop or a
\* piece of guidance that came too late for its turn included.
PromptTask ==
  /\ loop = "prompt" /\ lines # <<>>
  /\ Head(lines) \in {"text", "/stop", "/interrupt", "/skip"}
  /\ lines' = Tail(lines)
  /\ web' = BeginTurn
  /\ loop' = "recall"
  /\ UNCHANGED <<talk, people, checkpoint, turn, launches>>

-----------------------------------------------------------------------------
(* A turn *)

\* The embedding, the recall or the user's own event fails: not sent.
TurnNotSent ==
  /\ loop = "recall"
  /\ web' = Failed
  /\ loop' = "prompt"
  /\ UNCHANGED <<talk, lines, people, checkpoint, turn, launches>>

RunStarts ==
  /\ loop = "recall"
  /\ quitting' = FALSE /\ heard' = {}
  /\ loop' = "run"
  /\ UNCHANGED <<talk, lines, people, web, checkpoint, quit_after, outcome, launches>>

Controlled == loop \in {"run", "repair"}

\* Guidance and /stop go to the harness; /quit is a stop that is remembered.
RunTakesLine ==
  /\ Controlled /\ lines # <<>> /\ Head(lines) # "/interrupt"
  /\ lines' = Tail(lines)
  /\ \/ Head(lines) = "/quit" /\ quitting' = TRUE /\ heard' = heard \union {loop}
     \/ Head(lines) # "/quit" /\ UNCHANGED <<quitting, heard>>
  /\ UNCHANGED <<talk, people, web, loop, checkpoint, quit_after, outcome, launches>>

\* What the turn's quit_after becomes when a repair returns.
AfterRepair(flag) == quit_after \/ flag

\* An interrupt forgets the /quit of the run it ends.  The first run is then
\* recovered from its journal; after a repair the caveated draft is kept.
RunInterrupted ==
  /\ Controlled /\ lines # <<>> /\ Head(lines) = "/interrupt"
  /\ lines' = Tail(lines)
  /\ heard' = heard \ {loop}
  /\ \/ loop = "run" /\ loop' = "interrupted" /\ UNCHANGED <<quit_after, outcome>>
     \/ loop = "repair" /\ loop' = "save" /\ quit_after' = AfterRepair(FALSE) /\ outcome' \in BOOLEAN
  /\ UNCHANGED <<talk, people, web, checkpoint, quitting, launches>>

InterruptRecovered ==
  /\ loop = "interrupted"
  /\ checkpoint' \in BOOLEAN
  /\ web' = Completed(checkpoint')
  /\ loop' = "prompt"
  /\ UNCHANGED <<talk, lines, people, turn, launches>>

RunFails ==
  /\ loop = "run"
  /\ web' = Failed
  /\ loop' = "failed"
  /\ UNCHANGED <<talk, lines, people, checkpoint, turn, launches>>

FailureRecovered ==
  /\ loop = "failed"
  /\ checkpoint' \in BOOLEAN
  /\ web' = SetCheckpointAvailable(checkpoint')
  /\ loop' = (IF quitting THEN "closed" ELSE "prompt")
  /\ UNCHANGED <<talk, lines, people, turn, launches>>

RunReturns ==
  /\ loop = "run"
  /\ outcome' \in BOOLEAN
  /\ quit_after' = quitting
  /\ loop' = "verify"
  /\ UNCHANGED <<talk, lines, people, web, checkpoint, quitting, heard, launches>>

\* ground_answer: a stopped run is not repaired, and only a stopped run has a
\* checkpoint.
Verified ==
  /\ loop = "verify"
  /\ \/ loop' = "save" /\ UNCHANGED quitting
     \/ ~outcome /\ loop' = "repair" /\ quitting' = FALSE
  /\ UNCHANGED <<talk, lines, people, web, checkpoint, quit_after, outcome, heard, launches>>

RepairReturns ==
  /\ loop = "repair"
  /\ outcome' \in BOOLEAN
  /\ quit_after' = AfterRepair(quitting)
  /\ loop' = "save"
  /\ UNCHANGED <<talk, lines, people, web, checkpoint, quitting, heard, launches>>

\* checkpoint_from_outcome, which may fail, and WebUi::complete.  The browser
\* is told of the outcome's checkpoint, the loop keeps an older one.
Saved ==
  /\ loop = "save"
  /\ \/ ~outcome /\ UNCHANGED checkpoint /\ web' = Completed(FALSE)
     \/ outcome /\ checkpoint' \in BOOLEAN /\ web' = Completed(checkpoint')
  /\ loop' = (IF quit_after THEN "closed" ELSE "prompt")
  /\ UNCHANGED <<talk, lines, people, turn, launches>>

\* An error the loop passes on with `?', or the end of the process.
Dies ==
  /\ loop \notin {"closed", "start"} /\ launches < MaxLaunches
  /\ loop' = "closed"
  /\ UNCHANGED <<talk, lines, people, web, checkpoint, turn, launches>>

Relaunch ==
  /\ loop = "closed" /\ launches < MaxLaunches
  /\ launches' = launches + 1
  /\ lines' = <<>> /\ framer' = "empty" /\ api' = [c \in Client |-> "idle"]
  /\ web' = Shown(FALSE, FALSE) /\ checkpoint' = FALSE
  /\ loop' = "start"
  /\ quitting' = FALSE /\ quit_after' = FALSE /\ outcome' = FALSE /\ heard' = {}
  /\ UNCHANGED <<talk, inputs>>

SessionNext ==
  \/ \E line \in Line : TypeLine(line)
  \/ BurstEnds
  \/ \E c \in Client, line \in Posted :
       ApiMessage(c, line) \/ ApiGuidance(c, line) \/ ApiControl(c, line)
  \/ \E c \in Client : ApiMarks(c) \/ ApiSends(c)
  \/ Launch \/ Greet \/ ModelUnavailable \/ Close \/ Ask \/ TakeAnswer \/ Ready
  \/ \E first, second \in ModelReply : ModelAnswers(first, second)
  \/ PromptEnds \/ PromptBlank \/ PromptCommand \/ PromptResume \/ PromptTask
  \/ TurnNotSent \/ RunStarts \/ RunTakesLine \/ RunInterrupted \/ InterruptRecovered
  \/ RunFails \/ FailureRecovered \/ RunReturns \/ Verified \/ RepairReturns \/ Saved
  \/ Dies \/ Relaunch

SessionSpec == SessionInit /\ [][SessionNext]_sessionVars

-----------------------------------------------------------------------------
(* Properties. *)

(* At the prompt nobody is left unheard.  The snapshot says busy only      *)
(* while something will end it: whatever lines were sent by whom, and      *)
(* whichever of them a running turn took as guidance, a browser is not     *)
(* answered `a turn is already active' for ever by a loop that waits.  And *)
(* a /quit taken by a run, or by the repair of its answer, has ended the   *)
(* session at the end of that turn, unless an /interrupt came after it in  *)
(* the same run (begin_turn and complete of web_server.rs, main).          *)
NobodyUnheard ==
  /\ loop = "prompt" /\ lines = <<>> /\ (\A c \in Client : api[c] = "idle") => ~web.busy
  /\ loop = "prompt" => heard = {}

=============================================================================
