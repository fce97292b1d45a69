------------------------------ MODULE AgentLoop ------------------------------
(****************************************************************************)
(* The control of one agent session: AgentLoop.run / run_stream (loop.py)   *)
(* driven by the REPL (cli.py).  One user input starts a run; a run makes   *)
(* up to MaxSteps turns; a turn prepares the context, asks the provider and *)
(* executes the batch of tool calls it answers with; every normal end of a  *)
(* run goes through the stop hooks.  run and run_stream have the same       *)
(* control, except that a stream may end with no response (AnswerEmpty).    *)
(*                                                                          *)
(* What the transcript holds is the subject of Conversation.tla; what the   *)
(* stop hooks do is the subject of StopHooks.tla.  Here a tool is its name  *)
(* and the effect it has on the loop's own fields.                          *)
(****************************************************************************)
EXTENDS Naturals, Sequences, FiniteSets

CONSTANTS
    MaxSteps,       \* max_steps: provider turns one run may take
    ReminderTurns,  \* todo_reminder_turns
    HasCompactor,   \* a ContextCompactor is configured
    LLMSummary,     \* its summarizer is LLMSummarizer, which may raise
    Tools,          \* the tools the provider may call (bound)
    MaxCalls,       \* calls in one response (bound)
    MaxInputs,      \* user inputs in the session (bound)
    MaxSlash        \* /plan commands in the session (bound)

ReadOnly == {"read_file", "todo_write", "enter_plan_mode", "exit_plan_mode"}

\* "unregistered" stands for any name the registry does not know.
ToolNames == ReadOnly \cup {"edit_file", "write_memory_entry", "unregistered"}

WriteQuota == 3

ASSUME StepsAssumption    == MaxSteps \in Nat \ {0}
ASSUME ReminderAssumption == ReminderTurns \in Nat \ {0}
ASSUME OptionAssumption   == HasCompactor \in BOOLEAN /\ LLMSummary \in BOOLEAN
ASSUME ToolsAssumption    == Tools \subseteq ToolNames
ASSUME BoundAssumption    ==
    MaxCalls \in Nat \ {0} /\ MaxInputs \in Nat /\ MaxSlash \in Nat

VARIABLES
    pc,            \* where the session is
    turn,          \* the turn of the for loop
    reactive,      \* reactive_compact_attempted
    memWrites,     \* _memory_writes_this_turn
    mode,          \* _permission_mode
    attachment,    \* _plan_mode_attachment: armed for this turn's payload
    sinceWrite,    \* _turns_since_last_todo_write
    sinceReminder, \* _turns_since_last_todo_reminder
    todoNudge,     \* _todo_nudge: offered to the next build()
    batch,         \* response.tool_calls being executed
    verdicts,      \* what became of the calls executed so far
    ledger,        \* the plan-mode counters of MetricsCollector
    result,        \* LoopResult.status of the last result built
    steps,         \* Len(LoopResult.steps)
    \* history, read by the properties only:
    inputs,        \* user inputs so far
    heard,         \* those whose memory recall was not interrupted
    slashes,       \* /plan commands so far
    calls,         \* provider calls of this run
    saved,         \* memory entries written by this run
    nudgedIn,      \* the heard inputs whose run armed the todo nudge
    todoIn,        \* the heard inputs whose run had a successful todo_write
    closed         \* how many runs ended in each of the four Endings

fields  == <<turn, reactive, memWrites, mode, attachment, sinceWrite, sinceReminder,
             todoNudge, batch, verdicts, ledger, result, steps>>
history == <<inputs, heard, slashes, calls, saved, nudgedIn, todoIn, closed>>
vars    == <<pc, fields, history>>

Statuses == {"none", "completed", "max_steps", "max_tokens", "malformed"}
Verdicts == {"ran", "failed", "denied"}
Working  == {"recall", "prepare", "call", "tools", "hooks"}
Counters == {"entries", "manual", "approved", "rejected", "denied"}

\* A run ends through its stop hooks, by ^C, or by an exception that leaves
\* run(): a prompt-too-long raised by the summarizer, or any other.
Endings  == {"hooks", "interrupted", "too_long", "crashed"}

Batches  == UNION {[1..n -> Tools] : n \in 1..MaxCalls}

RunTypes ==
    /\ pc \in {"idle", "exited", "dead"} \cup Working
    /\ turn \in 0..MaxSteps
    /\ result \in Statuses /\ steps \in Nat /\ calls \in Nat

BatchTypes == batch \in Seq(Tools) /\ verdicts \in Seq(Verdicts)

FlagTypes == reactive \in BOOLEAN /\ attachment \in BOOLEAN /\ todoNudge \in BOOLEAN

ModeTypes == mode \in {"normal", "plan"} /\ ledger \in [Counters -> Nat]

CounterTypes ==
    /\ memWrites \in Nat /\ saved \in Nat /\ slashes \in Nat
    /\ sinceWrite \in Nat /\ sinceReminder \in Nat

HistoryTypes ==
    /\ inputs \in Nat /\ heard \in Nat
    /\ nudgedIn \subseteq 1..heard /\ todoIn \subseteq 1..heard
    /\ closed \in [Endings -> Nat]

TypeOK == RunTypes /\ FlagTypes /\ BatchTypes /\ ModeTypes /\ CounterTypes /\ HistoryTypes

Init ==
    /\ pc = "idle" /\ turn = 0 /\ reactive = FALSE /\ memWrites = 0
    /\ mode = "normal" /\ attachment = FALSE
    /\ sinceWrite = 0 /\ sinceReminder = 0 /\ todoNudge = FALSE
    /\ batch = <<>> /\ verdicts = <<>>
    /\ ledger = [k \in Counters |-> 0]
    /\ result = "none" /\ steps = 0
    /\ inputs = 0 /\ heard = 0 /\ slashes = 0 /\ calls = 0 /\ saved = 0
    /\ nudgedIn = {} /\ todoIn = {}
    /\ closed = [k \in Endings |-> 0]

Bump(f, k) == [f EXCEPT ![k] = @ + 1]

-----------------------------------------------------------------------------
(* The start of a run. *)

\* The first lines of run(), up to inject_memory_attachments, which asks the
\* provider which memories to recall.
UserInput ==
    /\ pc = "idle" /\ inputs < MaxInputs
    /\ pc' = "recall" /\ turn' = 0 /\ inputs' = inputs + 1
    /\ reactive' = FALSE /\ memWrites' = 0
    /\ calls' = 0 /\ saved' = 0 /\ steps' = 0 /\ todoNudge' = FALSE
    /\ UNCHANGED <<mode, attachment, sinceWrite, sinceReminder, batch, verdicts, ledger,
                   result, heard, slashes, nudgedIn, todoIn, closed>>

\* Mutant: one counter alone arms the nudge.
NudgeDueByOneCounter == sinceWrite + 1 >= ReminderTurns

\* _maybe_inject_todo_nudge: both counters advance, and the nudge is armed when
\* both have reached the threshold.
NudgeDue == sinceWrite + 1 >= ReminderTurns /\ sinceReminder + 1 >= ReminderTurns

EnterTurns ==
    /\ pc = "recall" /\ pc' = "prepare" /\ turn' = 1 /\ heard' = heard + 1
    /\ sinceWrite' = sinceWrite + 1
    /\ sinceReminder' = IF NudgeDue THEN 0 ELSE sinceReminder + 1
    /\ todoNudge' = NudgeDue
    /\ nudgedIn' = IF NudgeDue THEN nudgedIn \cup {heard + 1} ELSE nudgedIn
    /\ UNCHANGED <<reactive, memWrites, mode, attachment, batch, verdicts, ledger, result,
                   steps, inputs, slashes, calls, saved, todoIn, closed>>

\* The end of the session by an exception that no caller catches.
Die(ending) ==
    /\ pc' = "dead" /\ closed' = Bump(closed, ending)
    /\ batch' = <<>> /\ verdicts' = <<>>

\* Mutant: the attachment is armed once per input, like the todo nudge.
ArmAttachmentInFirstTurn == attachment' = (mode = "plan" /\ turn = 1)

\* The top of a turn: microcompaction, snip and compaction change the
\* transcript only; the plan-mode attachment is armed from the current mode.
ArmPlanModeAttachment == attachment' = (mode = "plan")

Prepare ==
    /\ pc = "prepare" /\ pc' = "call"
    /\ ArmPlanModeAttachment
    /\ UNCHANGED <<turn, reactive, memWrites, mode, sinceWrite, sinceReminder, todoNudge,
                   batch, verdicts, ledger, result, steps, history>>

\* LLMSummarizer re-raises a prompt-too-long answer to its own request, and
\* _maybe_compact runs outside the try of the retry loop.
PrepareRaises ==
    /\ pc = "prepare" /\ HasCompactor /\ LLMSummary
    /\ Die("too_long")
    /\ UNCHANGED <<turn, reactive, memWrites, mode, attachment, sinceWrite, sinceReminder,
                   todoNudge, ledger, result, steps,
                   inputs, heard, slashes, calls, saved, nudgedIn, todoIn>>

-----------------------------------------------------------------------------
(* Every other exception of a run. *)

\* It leaves run() and the REPL: a selector answer that is no list of names, a
\* memory file that another process removes while the snippets are read, a large
\* result that cannot be written to disk.  A tool's own exception is a result.
RunRaises ==
    /\ pc \in Working \ {"hooks"}
    /\ Die("crashed")
    /\ UNCHANGED <<turn, reactive, memWrites, mode, attachment, sinceWrite, sinceReminder,
                   todoNudge, ledger, result, steps,
                   inputs, heard, slashes, calls, saved, nudgedIn, todoIn>>

-----------------------------------------------------------------------------
(* The provider's answer.  Every one but prompt-too-long drops the nudge. *)

Asked == pc = "call" /\ calls' = calls + 1

Finish(status) == pc' = "hooks" /\ result' = status

\* Mutant: the nudge is not dropped after the first answer.
AnsweredKeepingNudge ==
    /\ Asked
    /\ UNCHANGED <<turn, reactive, memWrites, mode, attachment, sinceWrite, sinceReminder,
                   todoNudge, ledger, inputs, heard, slashes, saved, nudgedIn, todoIn, closed>>

Answered ==
    /\ Asked /\ todoNudge' = FALSE
    /\ UNCHANGED <<turn, reactive, memWrites, mode, attachment, sinceWrite, sinceReminder,
                   ledger, inputs, heard, slashes, saved, nudgedIn, todoIn, closed>>

AnswerText ==
    /\ Answered /\ Finish("completed") /\ steps' = steps + 1
    /\ UNCHANGED <<batch, verdicts>>

\* Stopped by the output limit; a step is recorded only for a partial text.
AnswerTruncated ==
    /\ Answered /\ Finish("max_tokens") /\ steps' \in {steps, steps + 1}
    /\ UNCHANGED <<batch, verdicts>>

AnswerEmpty ==
    /\ Answered /\ Finish("malformed")
    /\ UNCHANGED <<steps, batch, verdicts>>

AnswerTools ==
    /\ Answered /\ pc' = "tools"
    /\ batch' \in Batches /\ verdicts' = <<>>
    /\ UNCHANGED <<steps, result>>

\* Mutant: reactive_compact_attempted is not set by the retry.
PromptTooLongRetriedForever ==
    /\ Asked
    /\ IF reactive \/ ~HasCompactor THEN Finish("max_tokens") ELSE UNCHANGED <<pc, result>>
    /\ UNCHANGED <<turn, reactive, memWrites, mode, attachment, sinceWrite, sinceReminder,
                   todoNudge, batch, verdicts, ledger, steps,
                   inputs, heard, slashes, saved, nudgedIn, todoIn, closed>>

PromptTooLong ==
    /\ Asked
    /\ IF reactive \/ ~HasCompactor
       THEN Finish("max_tokens") /\ UNCHANGED reactive
       ELSE reactive' = TRUE /\ UNCHANGED <<pc, result>>
    /\ UNCHANGED <<turn, memWrites, mode, attachment, sinceWrite, sinceReminder, todoNudge,
                   batch, verdicts, ledger, steps,
                   inputs, heard, slashes, saved, nudgedIn, todoIn, closed>>

\* The forced compaction of the retry is inside the handler, where a second
\* prompt-too-long, from the summarizer, is not caught.
CompactRaises ==
    /\ Asked /\ ~reactive /\ HasCompactor /\ LLMSummary
    /\ Die("too_long") /\ reactive' = TRUE
    /\ UNCHANGED <<turn, memWrites, mode, attachment, sinceWrite, sinceReminder, todoNudge,
                   ledger, result, steps, inputs, heard, slashes, saved, nudgedIn, todoIn>>

\* Any other provider exception leaves run() and the REPL.
ProviderRaises ==
    /\ Asked /\ Die("crashed")
    /\ UNCHANGED <<turn, reactive, memWrites, mode, attachment, sinceWrite, sinceReminder,
                   todoNudge, ledger, result, steps,
                   inputs, heard, slashes, saved, nudgedIn, todoIn>>

-----------------------------------------------------------------------------
(* _handle_tool_calls: the batch in order, one verdict per call. *)

Call == batch[Len(verdicts) + 1]

Executing(c) == pc = "tools" /\ Len(verdicts) < Len(batch) /\ Call = c

Verdict(v) == verdicts' = Append(verdicts, v)

\* Mutant: the mode is the one the turn began in, not the one in force.
DeniedByTurnMode(c) == attachment /\ c \notin ReadOnly

\* _execute_one: in plan mode a call that is not read-only, an unknown tool
\* included, is answered with an error and never reaches the executor.
Denied(c) == mode = "plan" /\ c \notin ReadOnly

SoftDeny ==
    /\ \E c \in Tools : Executing(c) /\ Denied(c)
    /\ Verdict("denied") /\ ledger' = Bump(ledger, "denied")
    /\ UNCHANGED <<pc, turn, reactive, memWrites, mode, attachment, sinceWrite, sinceReminder,
                   todoNudge, batch, result, steps, history>>

\* A tool that leaves the loop's own fields alone; an unknown one always fails.
RunPlainTool ==
    /\ \E c \in {"read_file", "edit_file", "unregistered"} :
          /\ Executing(c) /\ ~Denied(c)
          /\ \E v \in {"ran", "failed"} : Verdict(v) /\ (c = "unregistered" => v = "failed")
    /\ UNCHANGED <<pc, turn, reactive, memWrites, mode, attachment, sinceWrite, sinceReminder,
                   todoNudge, batch, ledger, result, steps, history>>

\* Mutant: off by one.
QuotaLeftOffByOne == memWrites <= WriteQuota

\* The closure registered by _register_tools: the quota counts attempts, and a
\* write that fails after the test has used its slot.
QuotaLeft == memWrites < WriteQuota

\* Mutant: over the quota the call is never answered.
WriteMemoryEntryUnanswered ==
    /\ Executing("write_memory_entry") /\ ~Denied("write_memory_entry")
    /\ QuotaLeft /\ memWrites' = memWrites + 1
    /\ \/ Verdict("ran") /\ saved' = saved + 1
       \/ Verdict("failed") /\ UNCHANGED saved
    /\ UNCHANGED <<pc, turn, reactive, mode, attachment, sinceWrite, sinceReminder, todoNudge,
                   batch, ledger, result, steps,
                   inputs, heard, slashes, calls, nudgedIn, todoIn, closed>>

WriteMemoryEntry ==
    /\ Executing("write_memory_entry") /\ ~Denied("write_memory_entry")
    /\ IF QuotaLeft
       THEN /\ memWrites' = memWrites + 1
            /\ \/ Verdict("ran") /\ saved' = saved + 1
               \/ Verdict("failed") /\ UNCHANGED saved
       ELSE Verdict("failed") /\ UNCHANGED <<memWrites, saved>>
    /\ UNCHANGED <<pc, turn, reactive, mode, attachment, sinceWrite, sinceReminder, todoNudge,
                   batch, ledger, result, steps,
                   inputs, heard, slashes, calls, nudgedIn, todoIn, closed>>

TodoWrite ==
    /\ Executing("todo_write")
    /\ \/ Verdict("ran") /\ sinceWrite' = 0 /\ todoIn' = todoIn \cup {heard}
       \/ Verdict("failed") /\ UNCHANGED <<sinceWrite, todoIn>>
    /\ UNCHANGED <<pc, turn, reactive, memWrites, mode, attachment, sinceReminder, todoNudge,
                   batch, ledger, result, steps,
                   inputs, heard, slashes, calls, saved, nudgedIn, closed>>

\* Mutant: a transition to the current mode is counted too.
SetPermissionModeCountingAll(m, source) ==
    /\ mode' = m
    /\ ledger' = Bump(ledger, IF m = "plan" THEN "entries"
                              ELSE IF source = "slash" THEN "manual" ELSE "approved")

\* _set_permission_mode: a transition to the current mode changes nothing.
SetPermissionMode(m, source) ==
    /\ mode' = m
    /\ ledger' = IF m = mode THEN ledger
                 ELSE Bump(ledger, IF m = "plan" THEN "entries"
                                   ELSE IF source = "slash" THEN "manual" ELSE "approved")

EnterPlanMode ==
    /\ Executing("enter_plan_mode")
    /\ \/ Verdict("ran") /\ SetPermissionMode("plan", "tool")
       \/ Verdict("failed") /\ UNCHANGED <<mode, ledger>>
    /\ UNCHANGED <<pc, turn, reactive, memWrites, attachment, sinceWrite, sinceReminder,
                   todoNudge, batch, result, steps, history>>

\* Approved by the user, rejected, or refused before the user is asked
\* (an empty plan).
ExitPlanMode ==
    /\ Executing("exit_plan_mode")
    /\ \/ Verdict("ran") /\ SetPermissionMode("normal", "tool")
       \/ Verdict("failed") /\ ledger' = Bump(ledger, "rejected") /\ UNCHANGED mode
       \/ Verdict("failed") /\ UNCHANGED <<mode, ledger>>
    /\ UNCHANGED <<pc, turn, reactive, memWrites, attachment, sinceWrite, sinceReminder,
                   todoNudge, batch, result, steps, history>>

\* Mutants: one turn too many; the last step is lost.
EndBatchOneTurnMore ==
    /\ pc = "tools" /\ Len(verdicts) = Len(batch)
    /\ batch' = <<>> /\ verdicts' = <<>> /\ steps' = steps + 1
    /\ IF turn <= MaxSteps
       THEN turn' = turn + 1 /\ pc' = "prepare" /\ UNCHANGED result
       ELSE Finish("max_steps") /\ UNCHANGED turn
    /\ UNCHANGED <<reactive, memWrites, mode, attachment, sinceWrite, sinceReminder, todoNudge,
                   ledger, history>>

EndBatchLosingLastStep ==
    /\ pc = "tools" /\ Len(verdicts) = Len(batch)
    /\ batch' = <<>> /\ verdicts' = <<>>
    /\ IF turn < MaxSteps
       THEN steps' = steps + 1 /\ turn' = turn + 1 /\ pc' = "prepare" /\ UNCHANGED result
       ELSE Finish("max_steps") /\ UNCHANGED <<turn, steps>>
    /\ UNCHANGED <<reactive, memWrites, mode, attachment, sinceWrite, sinceReminder, todoNudge,
                   ledger, history>>

EndBatch ==
    /\ pc = "tools" /\ Len(verdicts) = Len(batch)
    /\ batch' = <<>> /\ verdicts' = <<>> /\ steps' = steps + 1
    /\ IF turn < MaxSteps
       THEN turn' = turn + 1 /\ pc' = "prepare" /\ UNCHANGED result
       ELSE Finish("max_steps") /\ UNCHANGED turn
    /\ UNCHANGED <<reactive, memWrites, mode, attachment, sinceWrite, sinceReminder, todoNudge,
                   ledger, history>>

-----------------------------------------------------------------------------
(* The end of a run, and the REPL around it. *)

StopHooks ==
    /\ pc = "hooks" /\ pc' = "idle"
    /\ closed' = Bump(closed, "hooks")
    /\ UNCHANGED <<fields, inputs, heard, slashes, calls, saved, nudgedIn, todoIn>>

\* ^C anywhere in the run: the REPL keeps the loop and its transcript and asks
\* for the next input; the locals of run() are gone.
Interrupt ==
    /\ pc \in Working /\ pc' = "idle"
    /\ closed' = Bump(closed, "interrupted")
    /\ batch' = <<>> /\ verdicts' = <<>> /\ todoNudge' = FALSE
    /\ UNCHANGED <<turn, reactive, memWrites, mode, attachment, sinceWrite, sinceReminder,
                   ledger, result, steps, inputs, heard, slashes, calls, saved, nudgedIn, todoIn>>

SlashPlan ==
    /\ pc = "idle" /\ slashes < MaxSlash /\ slashes' = slashes + 1
    /\ SetPermissionMode(IF mode = "plan" THEN "normal" ELSE "plan", "slash")
    /\ UNCHANGED <<pc, turn, reactive, memWrites, attachment, sinceWrite, sinceReminder,
                   todoNudge, batch, verdicts, result, steps,
                   inputs, heard, calls, saved, nudgedIn, todoIn, closed>>

Exit == pc = "idle" /\ pc' = "exited" /\ UNCHANGED <<fields, history>>

Over == pc \in {"exited", "dead"} /\ UNCHANGED vars

RunStep ==
    \/ EnterTurns \/ Prepare \/ PrepareRaises
    \/ AnswerText \/ AnswerTruncated \/ AnswerEmpty \/ AnswerTools
    \/ PromptTooLong \/ CompactRaises \/ ProviderRaises
    \/ SoftDeny \/ RunPlainTool \/ WriteMemoryEntry \/ TodoWrite
    \/ EnterPlanMode \/ ExitPlanMode \/ EndBatch
    \/ StopHooks

Next == UserInput \/ RunStep \/ RunRaises \/ Interrupt \/ SlashPlan \/ Exit \/ Over

\* A run, once started, goes on: the loop is sequential code and a provider
\* call, a tool or an approval prompt returns or raises in the end.  Nothing
\* makes RunRaises happen, so it ends no run that would otherwise be stuck.
Spec == Init /\ [][Next]_vars /\ WF_vars(RunStep)
-----------------------------------------------------------------------------
(* Properties. *)

\* The mode in force when call i of the batch was executed, by definition: what
\* the last successful mode tool before it in the batch left, or else the mode
\* the turn began in, which is the mode its payload told the model about.
ModeTools == {"enter_plan_mode", "exit_plan_mode"}

ModeBefore(i) ==
    LET moves == {j \in 1..(i - 1) : batch[j] \in ModeTools /\ verdicts[j] = "ran"}
    IN  IF moves = {} THEN IF attachment THEN "plan" ELSE "normal"
        ELSE LET last == CHOOSE j \in moves : \A k \in moves : k <= j
             IN  IF batch[last] = "enter_plan_mode" THEN "plan" ELSE "normal"

\* _execute_one's soft-deny sees the mode as earlier calls of the SAME batch
\* left it: after an enter_plan_mode no later call of the batch that is not
\* read-only runs, after an approved exit_plan_mode none is denied, and a
\* rejected exit opens nothing.
PlanModeSealsBatch ==
    \A i \in 1..Len(verdicts) :
        (verdicts[i] = "denied") <=> (ModeBefore(i) = "plan" /\ batch[i] \notin ReadOnly)

\* MetricsCollector's plan-mode counters tell the mode: entries and exits
\* alternate however tools, approvals and /plan interleave, because
\* _set_permission_mode is idempotent and counts an exit once.
PlanLedgerBalanced ==
    ledger["entries"] = ledger["manual"] + ledger["approved"]
                        + (IF mode = "plan" THEN 1 ELSE 0)

\* The payload of every provider call, the retry after a reactive compaction
\* included, carries the plan-mode reminder exactly when the mode is PLAN
\* (_maybe_arm_plan_mode_attachment is evaluated once per turn).
AttachmentTellsMode == pc = "call" => (attachment <=> mode = "plan")

\* One run writes at most three entries through write_memory_entry, over all
\* the batches of all its turns.
MemoryQuota == saved <= WriteQuota

\* The todo nudge is armed for an input exactly when neither a successful
\* todo_write nor an earlier nudge falls in the ReminderTurns inputs before it:
\* the double-AND counters of _maybe_inject_todo_nudge mean what they say,
\* whatever interrupts and failed writes come between.  (An input interrupted
\* during memory recall never reaches the counters and is not counted.)
NudgeExactlyWhenDue ==
    \A n \in 1..heard :
        (n \in nudgedIn) <=>
            /\ n >= ReminderTurns
            /\ \A k \in 1..(n - 1) : k \in todoIn \cup nudgedIn => n - k >= ReminderTurns

\* A nudge is offered to the builds of the first turn only: the first answer
\* drops it, so no later turn of the same input repeats it.
NudgeOnlyInFirstTurn == todoNudge => turn = 1 /\ heard \in nudgedIn

\* The result handed to the stop hooks accounts for the turns taken: a run that
\* gave up at max_steps recorded a tool step for every turn, a completed one
\* its final step, a malformed one nothing for its last turn.
ResultAccountsForTurns ==
    pc = "hooks" =>
        CASE result = "max_steps"  -> turn = MaxSteps /\ steps = MaxSteps
          [] result = "completed"  -> steps = turn
          [] result = "malformed"  -> steps = turn - 1
          [] result = "max_tokens" -> steps \in {turn - 1, turn}
          [] OTHER                 -> FALSE

\* A run that has started ends: by an answer, by ^C or by an exception.
RunEnds == pc \in Working ~> pc \notin Working

\* What a session promises its user about runs and provider calls.
Contract == INSTANCE TurnContract WITH
    stage  <- IF pc \in Working THEN "running" ELSE IF pc = "idle" THEN "waiting" ELSE "over",
    asks   <- calls,
    ended  <- [answered |-> closed["hooks"], abandoned |-> closed["interrupted"],
               lost |-> closed["too_long"] + closed["crashed"]],
    begun  <- inputs,
    MaxAsks <- IF HasCompactor THEN MaxSteps + 1 ELSE MaxSteps

\* The loop implements that contract: at most MaxSteps provider calls per run
\* and one more for a reactive retry, and every run ends in exactly one way.
ImplementsTurnContract == Contract!Spec
=============================================================================
