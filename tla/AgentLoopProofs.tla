--------------------------- MODULE AgentLoopProofs ---------------------------
(****************************************************************************)
(* What AgentLoop guarantees for every MaxSteps, every set of tools, every  *)
(* batch length and any number of inputs.                                   *)
(****************************************************************************)
EXTENDS AgentLoop, Integers, TLAPS

\* A todo_write is credited to the current input, so there must be one.
WorkingIsHeard == pc \in {"prepare", "call", "tools"} => heard >= 1

TypeInv == TypeOK /\ WorkingIsHeard

-----------------------------------------------------------------------------
(* Lemmas about the operators of the model. *)

\* Counting one more of something keeps a function to the naturals.
LEMMA BumpType ==
    ASSUME NEW S, NEW f \in [S -> Nat], NEW k \in S
    PROVE  Bump(f, k) \in [S -> Nat]
  BY DEF Bump

\* The verdict of a call is appended to those before it.
LEMMA VerdictType ==
    ASSUME verdicts \in Seq(Verdicts), NEW v \in Verdicts, Verdict(v)
    PROVE  verdicts' \in Seq(Verdicts)
  BY DEF Verdict

\* A change of the permission mode leaves a mode and a ledger.
LEMMA SetPermissionModeType ==
    ASSUME ledger \in [Counters -> Nat], NEW m \in {"normal", "plan"}, NEW source,
           SetPermissionMode(m, source)
    PROVE  mode' \in {"normal", "plan"} /\ ledger' \in [Counters -> Nat]
<1>1. {"entries", "manual", "approved"} \subseteq Counters
  BY DEF Counters
<1>2. ledger' = ledger \/ \E k \in {"entries", "manual", "approved"} : ledger' = Bump(ledger, k)
  BY DEF SetPermissionMode
<1> QED
  BY <1>1, <1>2, BumpType DEF SetPermissionMode

-----------------------------------------------------------------------------
(* Types *)

LEMMA TypeInit == Init => TypeInv
<1> SUFFICES ASSUME Init PROVE TypeInv
  OBVIOUS
<1>1. RunTypes /\ WorkingIsHeard
  BY StepsAssumption DEF Init, RunTypes, WorkingIsHeard, Working, Statuses
<1>2. BatchTypes
  BY DEF Init, BatchTypes
<1>3. ModeTypes /\ HistoryTypes
  BY DEF Init, ModeTypes, HistoryTypes
<1>4. CounterTypes
  BY DEF Init, CounterTypes
<1>5. FlagTypes
  BY DEF Init, FlagTypes
<1> QED
  BY <1>1, <1>2, <1>3, <1>4, <1>5 DEF TypeInv, TypeOK

LEMMA RunStepTypes == ASSUME RunTypes, [Next]_vars PROVE RunTypes'
<1> USE DEF RunTypes, Working, Statuses
<1>1. CASE UserInput
  BY <1>1, StepsAssumption DEF UserInput
<1>e. CASE EnterTurns
  BY <1>e, StepsAssumption DEF EnterTurns
<1>2. CASE Prepare \/ PrepareRaises \/ RunRaises
  BY <1>2 DEF Prepare, PrepareRaises, RunRaises, Die, history
<1>3. CASE AnswerText \/ AnswerTruncated \/ AnswerEmpty \/ AnswerTools
  BY <1>3 DEF AnswerText, AnswerTruncated, AnswerEmpty, AnswerTools, Answered, Asked, Finish
<1>4. CASE PromptTooLong \/ CompactRaises \/ ProviderRaises
  BY <1>4 DEF PromptTooLong, CompactRaises, ProviderRaises, Asked, Finish, Die
<1>5. CASE SoftDeny \/ RunPlainTool \/ WriteMemoryEntry \/ TodoWrite \/ EnterPlanMode \/ ExitPlanMode
  BY <1>5 DEF SoftDeny, RunPlainTool, WriteMemoryEntry, TodoWrite, EnterPlanMode, ExitPlanMode,
     history
<1>6. CASE EndBatch
  BY <1>6, StepsAssumption DEF EndBatch, Finish, history
<1>7. CASE StopHooks \/ Interrupt \/ SlashPlan \/ Exit \/ UNCHANGED vars
  BY <1>7 DEF StopHooks, Interrupt, SlashPlan, Exit, vars, fields, history
<1> HIDE DEF RunTypes
<1> QED
  BY <1>1, <1>e, <1>2, <1>3, <1>4, <1>5, <1>6, <1>7 DEF Next, RunStep, Over

LEMMA FlagStepTypes == ASSUME FlagTypes, [Next]_vars PROVE FlagTypes'
<1> USE DEF FlagTypes
<1>1. CASE UserInput \/ EnterTurns
  <2>1. NudgeDue \in BOOLEAN
    BY Zenon DEF NudgeDue
  <2> QED
    BY <1>1, <2>1, Zenon DEF UserInput, EnterTurns
<1>2. CASE Prepare
  BY <1>2, Zenon DEF Prepare, ArmPlanModeAttachment
<1>3. CASE PromptTooLong \/ CompactRaises
  BY <1>3, Zenon DEF PromptTooLong, CompactRaises
<1>4. CASE AnswerText \/ AnswerTruncated \/ AnswerEmpty \/ AnswerTools
  BY <1>4, Zenon DEF AnswerText, AnswerTruncated, AnswerEmpty, AnswerTools, Answered
<1>5. CASE PrepareRaises \/ RunRaises \/ ProviderRaises
  BY <1>5, Zenon DEF PrepareRaises, RunRaises, ProviderRaises
<1>6. CASE SoftDeny \/ RunPlainTool \/ WriteMemoryEntry \/ TodoWrite \/ EnterPlanMode \/ ExitPlanMode
  BY <1>6, Zenon DEF SoftDeny, RunPlainTool, WriteMemoryEntry, TodoWrite, EnterPlanMode,
     ExitPlanMode
<1>7. CASE EndBatch \/ StopHooks \/ Interrupt \/ SlashPlan \/ Exit \/ UNCHANGED vars
  BY <1>7, Zenon DEF EndBatch, StopHooks, Interrupt, SlashPlan, Exit, vars, fields
<1> HIDE DEF FlagTypes
<1> QED
  BY <1>1, <1>2, <1>3, <1>4, <1>5, <1>6, <1>7 DEF Next, RunStep, Over

LEMMA BatchStepTypes == ASSUME BatchTypes, [Next]_vars PROVE BatchTypes'
<1> USE DEF BatchTypes
<1>1. CASE UserInput \/ EnterTurns \/ Prepare \/ StopHooks \/ SlashPlan \/ Exit \/ UNCHANGED vars
  BY <1>1 DEF UserInput, EnterTurns, Prepare, StopHooks, SlashPlan, Exit, vars, fields
<1>2. CASE PrepareRaises \/ RunRaises \/ CompactRaises \/ ProviderRaises \/ Interrupt \/ EndBatch
  <2>1. batch' = <<>> /\ verdicts' = <<>>
    BY <1>2, Zenon DEF PrepareRaises, RunRaises, CompactRaises, ProviderRaises, Interrupt, EndBatch, Die
  <2> QED
    BY <2>1
<1>3. CASE AnswerText \/ AnswerTruncated \/ AnswerEmpty \/ PromptTooLong
  BY <1>3 DEF AnswerText, AnswerTruncated, AnswerEmpty, PromptTooLong
<1>4. CASE AnswerTools
  <2>1. Batches \subseteq Seq(Tools)
    BY BoundAssumption DEF Batches
  <2> QED
    BY <1>4, <2>1 DEF AnswerTools
<1>5. CASE SoftDeny \/ RunPlainTool \/ WriteMemoryEntry \/ TodoWrite \/ EnterPlanMode \/ ExitPlanMode
  <2>1. batch' = batch /\ \E v \in Verdicts : Verdict(v)
    BY <1>5 DEF SoftDeny, RunPlainTool, WriteMemoryEntry, TodoWrite, EnterPlanMode,
       ExitPlanMode, Verdicts
  <2> QED
    BY <2>1, VerdictType
<1> HIDE DEF BatchTypes
<1> QED
  BY <1>1, <1>2, <1>3, <1>4, <1>5 DEF Next, RunStep, Over

LEMMA ModeStepTypes == ASSUME ModeTypes, [Next]_vars PROVE ModeTypes'
<1> USE DEF ModeTypes
<1>1. CASE UserInput \/ EnterTurns \/ Prepare \/ PrepareRaises \/ RunRaises \/ StopHooks \/ Exit \/ UNCHANGED vars
  BY <1>1 DEF UserInput, EnterTurns, Prepare, PrepareRaises, RunRaises, StopHooks, Exit, vars, fields
<1>2. CASE AnswerText \/ AnswerTruncated \/ AnswerEmpty \/ AnswerTools
  BY <1>2 DEF AnswerText, AnswerTruncated, AnswerEmpty, AnswerTools, Answered
<1>3. CASE PromptTooLong \/ CompactRaises \/ ProviderRaises \/ Interrupt \/ EndBatch
  BY <1>3 DEF PromptTooLong, CompactRaises, ProviderRaises, Interrupt, EndBatch
<1>4. CASE RunPlainTool \/ WriteMemoryEntry \/ TodoWrite
  BY <1>4 DEF RunPlainTool, WriteMemoryEntry, TodoWrite
<1>5. CASE SoftDeny
  <2>1. mode' = mode /\ ledger' = Bump(ledger, "denied")
    BY <1>5 DEF SoftDeny
  <2> QED
    BY <2>1, BumpType DEF Counters
<1>6. CASE EnterPlanMode
  BY <1>6, SetPermissionModeType DEF EnterPlanMode
<1>7. CASE ExitPlanMode
  <2>1. \/ SetPermissionMode("normal", "tool")
        \/ mode' = mode /\ (ledger' = Bump(ledger, "rejected") \/ ledger' = ledger)
    BY <1>7 DEF ExitPlanMode
  <2>2. Bump(ledger, "rejected") \in [Counters -> Nat]
    BY BumpType DEF Counters
  <2> QED
    BY <2>1, <2>2, SetPermissionModeType
<1>8. CASE SlashPlan
  <2>1. \E m \in {"normal", "plan"} : SetPermissionMode(m, "slash")
    BY <1>8 DEF SlashPlan
  <2> QED
    BY <2>1, SetPermissionModeType
<1> HIDE DEF ModeTypes
<1> QED
  BY <1>1, <1>2, <1>3, <1>4, <1>5, <1>6, <1>7, <1>8 DEF Next, RunStep, Over

LEMMA CounterStepTypes == ASSUME CounterTypes, [Next]_vars PROVE CounterTypes'
<1> USE DEF CounterTypes
<1>1. CASE UserInput \/ Prepare \/ PrepareRaises \/ RunRaises \/ StopHooks \/ Exit \/ UNCHANGED vars
  BY <1>1 DEF UserInput, Prepare, PrepareRaises, RunRaises, StopHooks, Exit, vars, fields, history
<1>2. CASE EnterTurns
  BY <1>2 DEF EnterTurns
<1>3. CASE AnswerText \/ AnswerTruncated \/ AnswerEmpty \/ AnswerTools
  BY <1>3 DEF AnswerText, AnswerTruncated, AnswerEmpty, AnswerTools, Answered
<1>4. CASE PromptTooLong \/ CompactRaises \/ ProviderRaises \/ Interrupt \/ EndBatch
  BY <1>4 DEF PromptTooLong, CompactRaises, ProviderRaises, Interrupt, EndBatch, history
<1>5. CASE SoftDeny \/ RunPlainTool \/ EnterPlanMode \/ ExitPlanMode
  BY <1>5 DEF SoftDeny, RunPlainTool, EnterPlanMode, ExitPlanMode, history
<1>6. CASE WriteMemoryEntry \/ TodoWrite \/ SlashPlan
  BY <1>6 DEF WriteMemoryEntry, TodoWrite, SlashPlan
<1> HIDE DEF CounterTypes
<1> QED
  BY <1>1, <1>2, <1>3, <1>4, <1>5, <1>6 DEF Next, RunStep, Over

LEMMA HistoryStepTypes ==
    ASSUME HistoryTypes, WorkingIsHeard, [Next]_vars
    PROVE  HistoryTypes' /\ WorkingIsHeard'
<1> USE DEF HistoryTypes, WorkingIsHeard
<1>1. CASE UserInput
  BY <1>1 DEF UserInput
<1>2. CASE EnterTurns
  BY <1>2 DEF EnterTurns
<1>3. CASE Prepare \/ Exit \/ UNCHANGED vars
  BY <1>3 DEF Prepare, Exit, vars, fields, history
<1>4. CASE AnswerText \/ AnswerTruncated \/ AnswerEmpty \/ AnswerTools
  BY <1>4 DEF AnswerText, AnswerTruncated, AnswerEmpty, AnswerTools, Answered, Asked, Finish
<1>5. CASE PromptTooLong \/ EndBatch
  BY <1>5 DEF PromptTooLong, EndBatch, Asked, Finish, history
<1>6. CASE PrepareRaises \/ RunRaises \/ CompactRaises \/ ProviderRaises \/ StopHooks \/ Interrupt
  <2>1. /\ inputs' = inputs /\ heard' = heard /\ nudgedIn' = nudgedIn /\ todoIn' = todoIn
        /\ pc' \in {"dead", "idle"}
        /\ \E k \in Endings : closed' = Bump(closed, k)
    BY <1>6 DEF PrepareRaises, RunRaises, CompactRaises, ProviderRaises, StopHooks, Interrupt, Die, Endings
  <2>2. closed' \in [Endings -> Nat]
    BY <2>1, BumpType
  <2> QED
    BY <2>1, <2>2
<1>7. CASE SoftDeny \/ RunPlainTool \/ WriteMemoryEntry \/ EnterPlanMode \/ ExitPlanMode
           \/ SlashPlan
  BY <1>7 DEF SoftDeny, RunPlainTool, WriteMemoryEntry, EnterPlanMode, ExitPlanMode,
     SlashPlan, history
<1>8. CASE TodoWrite
  <2>1. heard \in 1..heard
    BY <1>8 DEF TodoWrite, Executing
  <2> QED
    BY <1>8, <2>1 DEF TodoWrite
<1> HIDE DEF HistoryTypes, WorkingIsHeard
<1> QED
  BY <1>1, <1>2, <1>3, <1>4, <1>5, <1>6, <1>7, <1>8 DEF Next, RunStep, Over

LEMMA TypeStep == ASSUME TypeInv, [Next]_vars PROVE TypeInv'
BY RunStepTypes, FlagStepTypes, BatchStepTypes, ModeStepTypes, CounterStepTypes,
   HistoryStepTypes DEF TypeInv, TypeOK

LEMMA TypeInvariance == Spec => []TypeInv
<1>1. Init => TypeInv
  BY TypeInit
<1>2. TypeInv /\ [Next]_vars => TypeInv'
  BY TypeStep
<1> QED
  BY <1>1, <1>2, PTL DEF Spec

\* The loop's fields keep their types through every interleaving of answers,
\* tools, interrupts and slash commands.
THEOREM TypeCorrect == Spec => []TypeOK
<1>1. TypeInv => TypeOK
  BY DEF TypeInv
<1> QED
  BY <1>1, TypeInvariance, PTL

-----------------------------------------------------------------------------
(* The permission mode *)

\* A change of mode, idempotent as it is, keeps the ledger balanced.
LEMMA SetPermissionModeBalances ==
    ASSUME ModeTypes, PlanLedgerBalanced, NEW m \in {"normal", "plan"}, NEW source,
           SetPermissionMode(m, source)
    PROVE  PlanLedgerBalanced'
<1> USE DEF ModeTypes, PlanLedgerBalanced, SetPermissionMode, Bump, Counters
<1>1. CASE m = mode
  BY <1>1
<1>2. CASE m = "plan" /\ mode = "normal"
  BY <1>2
<1>3. CASE m = "normal" /\ mode = "plan" /\ source = "slash"
  BY <1>3
<1>4. CASE m = "normal" /\ mode = "plan" /\ source # "slash"
  BY <1>4
<1> QED
  BY <1>1, <1>2, <1>3, <1>4

\* Counting a denial or a rejection touches neither side of the balance.
LEMMA OtherCountersBalance ==
    ASSUME ModeTypes, PlanLedgerBalanced, NEW k \in {"denied", "rejected"},
           mode' = mode, ledger' = Bump(ledger, k)
    PROVE  PlanLedgerBalanced'
  BY DEF ModeTypes, PlanLedgerBalanced, Bump, Counters

LEMMA PlanLedgerStep ==
    ASSUME ModeTypes, PlanLedgerBalanced, [Next]_vars
    PROVE  PlanLedgerBalanced'
<1>1. CASE EnterPlanMode
  <2>1. SetPermissionMode("plan", "tool") \/ UNCHANGED <<mode, ledger>>
    BY <1>1 DEF EnterPlanMode
  <2>2. CASE UNCHANGED <<mode, ledger>>
    BY <2>2 DEF PlanLedgerBalanced
  <2> QED
    BY <2>1, <2>2, SetPermissionModeBalances
<1>2. CASE ExitPlanMode
  <2>1. \/ SetPermissionMode("normal", "tool")
        \/ mode' = mode /\ ledger' = Bump(ledger, "rejected")
        \/ UNCHANGED <<mode, ledger>>
    BY <1>2 DEF ExitPlanMode
  <2>2. CASE UNCHANGED <<mode, ledger>>
    BY <2>2 DEF PlanLedgerBalanced
  <2>3. CASE mode' = mode /\ ledger' = Bump(ledger, "rejected")
    BY <2>3, OtherCountersBalance
  <2> QED
    BY <2>1, <2>2, <2>3, SetPermissionModeBalances
<1>3. CASE SlashPlan
  <2>1. \E m \in {"normal", "plan"} : SetPermissionMode(m, "slash")
    BY <1>3 DEF SlashPlan
  <2> QED
    BY <2>1, SetPermissionModeBalances
<1>4. CASE SoftDeny
  <2>1. mode' = mode /\ ledger' = Bump(ledger, "denied")
    BY <1>4 DEF SoftDeny
  <2> QED
    BY <2>1, OtherCountersBalance
<1>5. CASE UNCHANGED <<mode, ledger>>
  BY <1>5 DEF PlanLedgerBalanced
<1>6. [Next]_vars => \/ EnterPlanMode \/ ExitPlanMode \/ SlashPlan \/ SoftDeny
                     \/ UNCHANGED <<mode, ledger>>
  BY Zenon DEF Next, RunStep, Over, UserInput, EnterTurns, Prepare, PrepareRaises, RunRaises, StopHooks, Exit,
     AnswerText, AnswerTruncated, AnswerEmpty, AnswerTools, Answered, PromptTooLong,
     CompactRaises, ProviderRaises, Interrupt, EndBatch, RunPlainTool, WriteMemoryEntry,
     TodoWrite, vars, fields
<1> QED
  BY <1>1, <1>2, <1>3, <1>4, <1>5, <1>6

\* The plan-mode counters tell the mode in every session.
THEOREM PlanLedgerAlwaysBalanced == Spec => []PlanLedgerBalanced
<1>1. Init => PlanLedgerBalanced
  BY DEF Init, PlanLedgerBalanced, Counters
<1>2. TypeInv => ModeTypes
  BY DEF TypeInv, TypeOK
<1>3. PlanLedgerBalanced /\ ModeTypes /\ [Next]_vars => PlanLedgerBalanced'
  BY PlanLedgerStep
<1> QED
  BY <1>1, <1>2, <1>3, TypeInvariance, PTL DEF Spec

\* Every provider call is told the mode in force.  The attachment is armed on
\* the way to the call and nothing between it and the answer moves the mode.
THEOREM AttachmentAlwaysTellsMode == Spec => []AttachmentTellsMode
<1>1. Init => AttachmentTellsMode
  BY DEF Init, AttachmentTellsMode
<1>2. AttachmentTellsMode /\ [Next]_vars => AttachmentTellsMode'
  <2> SUFFICES ASSUME AttachmentTellsMode, [Next]_vars, pc' = "call"
               PROVE  attachment' <=> mode' = "plan"
    BY DEF AttachmentTellsMode
  <2>1. CASE Prepare
    BY <2>1, Zenon DEF Prepare, ArmPlanModeAttachment
  <2>2. CASE PromptTooLong \/ UNCHANGED vars
    <3>1. pc = "call" /\ UNCHANGED <<attachment, mode>>
      BY <2>2 DEF PromptTooLong, Asked, Finish, vars, fields
    <3> QED
      BY <3>1, Zenon DEF AttachmentTellsMode
  <2>3. CASE SoftDeny \/ RunPlainTool \/ WriteMemoryEntry \/ TodoWrite \/ EnterPlanMode
             \/ ExitPlanMode \/ SlashPlan
    BY <2>3 DEF SoftDeny, RunPlainTool, WriteMemoryEntry, TodoWrite, EnterPlanMode,
       ExitPlanMode, SlashPlan, Executing
  <2>4. CASE AnswerText \/ AnswerTruncated \/ AnswerEmpty \/ AnswerTools
    BY <2>4 DEF AnswerText, AnswerTruncated, AnswerEmpty, AnswerTools, Finish
  <2>5. CASE PrepareRaises \/ RunRaises \/ CompactRaises \/ ProviderRaises \/ Interrupt \/ EndBatch
    BY <2>5 DEF PrepareRaises, RunRaises, CompactRaises, ProviderRaises, Interrupt, EndBatch, Die, Finish
  <2>6. CASE UserInput \/ EnterTurns \/ StopHooks \/ Exit
    BY <2>6 DEF UserInput, EnterTurns, StopHooks, Exit
  <2> QED
    BY <2>1, <2>2, <2>3, <2>4, <2>5, <2>6 DEF Next, RunStep, Over
<1> QED
  BY <1>1, <1>2, PTL DEF Spec

-----------------------------------------------------------------------------
(* The memory quota *)

\* What was written was attempted, and attempts stop at the quota.
QuotaInv == saved <= memWrites /\ memWrites <= WriteQuota

LEMMA QuotaStep == ASSUME CounterTypes, QuotaInv, [Next]_vars PROVE QuotaInv'
<1> USE DEF CounterTypes, QuotaInv, WriteQuota
<1>1. CASE WriteMemoryEntry
  BY <1>1 DEF WriteMemoryEntry, QuotaLeft
<1>2. CASE UserInput
  BY <1>2 DEF UserInput
<1>3. CASE UNCHANGED <<memWrites, saved>>
  BY <1>3
<1>4. [Next]_vars => WriteMemoryEntry \/ UserInput \/ UNCHANGED <<memWrites, saved>>
  BY Zenon DEF Next, RunStep, Over, EnterTurns, Prepare, PrepareRaises, RunRaises, StopHooks, Exit,
     AnswerText, AnswerTruncated, AnswerEmpty, AnswerTools, Answered, PromptTooLong,
     CompactRaises, ProviderRaises, Interrupt, EndBatch, RunPlainTool, SoftDeny,
     EnterPlanMode, ExitPlanMode, SlashPlan, TodoWrite, vars, fields, history
<1> QED
  BY <1>1, <1>2, <1>3, <1>4

\* No run writes more than three memory entries, however many turns it takes.
THEOREM MemoryQuotaKept == Spec => []MemoryQuota
<1>1. Init => QuotaInv
  BY DEF Init, QuotaInv, WriteQuota
<1>2. TypeInv => CounterTypes
  BY DEF TypeInv, TypeOK
<1>3. QuotaInv /\ CounterTypes /\ [Next]_vars => QuotaInv'
  BY QuotaStep
<1>4. QuotaInv /\ CounterTypes => MemoryQuota
  BY DEF QuotaInv, CounterTypes, MemoryQuota, WriteQuota
<1> QED
  BY <1>1, <1>2, <1>3, <1>4, TypeInvariance, PTL DEF Spec

-----------------------------------------------------------------------------
(* Plan mode inside one batch *)

\* The parts of ModeBefore, by name: the calls before i that moved the mode,
\* the last of them, what it left, and the mode the turn began in.
Moves(i)   == {j \in 1..(i - 1) : batch[j] \in ModeTools /\ verdicts[j] = "ran"}
LastOf(S)  == CHOOSE j \in S : \A k \in S : k <= j
LeftBy(c)  == IF c = "enter_plan_mode" THEN "plan" ELSE "normal"
TurnMode   == IF attachment THEN "plan" ELSE "normal"

LEMMA ModeBeforeParts ==
    ASSUME NEW i
    PROVE  ModeBefore(i) = IF Moves(i) = {} THEN TurnMode ELSE LeftBy(batch[LastOf(Moves(i))])
  BY Zenon DEF ModeBefore, Moves, LastOf, LeftBy, TurnMode

\* A new verdict changes nothing about the calls before it.
LEMMA VerdictKeepsPast ==
    ASSUME BatchTypes, NEW v \in Verdicts, Verdict(v), UNCHANGED <<batch, attachment>>,
           NEW i \in 1..(Len(verdicts) + 1)
    PROVE  ModeBefore(i)' = ModeBefore(i)
<1>1. Moves(i)' = Moves(i)
  BY DEF BatchTypes, Verdict, Moves
<1> QED
  BY <1>1, Zenon DEF ModeBefore, Moves

\* The mode after a call: what it left, if it is a mode tool that ran, or else
\* the mode before it.
LEMMA VerdictMovesMode ==
    ASSUME BatchTypes, NEW v \in Verdicts, Verdict(v), UNCHANGED <<batch, attachment>>,
           Len(verdicts) < Len(batch)
    PROVE  ModeBefore(Len(verdicts) + 1)'
             = IF Call \in ModeTools /\ v = "ran" THEN LeftBy(Call)
               ELSE ModeBefore(Len(verdicts) + 1)
<1>0. PICK n \in Nat : n = Len(verdicts)
  BY DEF BatchTypes
<1>1. Len(verdicts)' = n + 1 /\ verdicts'[n + 1] = v
      /\ \A j \in 1..n : verdicts'[j] = verdicts[j]
  BY <1>0 DEF BatchTypes, Verdict
<1>2. CASE Call \in ModeTools /\ v = "ran"
  <2>1. Moves(n + 2)' = Moves(n + 1) \cup {n + 1}
    BY <1>0, <1>1, <1>2 DEF Moves, Call
  <2>2. \A k \in Moves(n + 1) : k \in Int /\ k <= n
    BY <1>1 DEF Moves
  <2>3. LastOf(Moves(n + 1) \cup {n + 1}) = n + 1
    BY <1>1, <2>2 DEF LastOf
  <2>4. ModeBefore(n + 2)' = LeftBy(batch[LastOf(Moves(n + 1) \cup {n + 1})])
    <3>1. (Moves(n + 1) \cup {n + 1}) # {}
      OBVIOUS
    <3> QED
      BY <2>1, <3>1, Zenon DEF ModeBefore, Moves, LastOf, LeftBy
  <2>5. (Len(verdicts) + 1)' = n + 2
    BY <1>1
  <2> QED
    BY <1>0, <1>2, <2>3, <2>4, <2>5 DEF Call
<1>3. CASE ~(Call \in ModeTools /\ v = "ran")
  <2>1. Moves(n + 2)' = Moves(n + 1)
    BY <1>0, <1>1, <1>3 DEF Moves, Call
  <2>2. ModeBefore(n + 2)' = ModeBefore(n + 1)
    BY <2>1, Zenon DEF ModeBefore, Moves
  <2>3. (Len(verdicts) + 1)' = n + 2
    BY <1>1
  <2> QED
    BY <1>0, <1>3, <2>2, <2>3
<1> QED
  BY <1>2, <1>3

\* The seal, made inductive: the mode in force is the one the verdicts so far
\* account for, and outside a batch there are no verdicts.
SealInv ==
    /\ PlanModeSealsBatch /\ AttachmentTellsMode
    /\ pc = "tools" => Len(verdicts) <= Len(batch) /\ ModeBefore(Len(verdicts) + 1) = mode
    /\ pc # "tools" => verdicts = <<>>

\* One more call, answered as the mode in force asks.
CallAnswered(v) ==
    /\ pc = "tools" /\ Len(verdicts) < Len(batch) /\ Verdict(v)
    /\ UNCHANGED <<pc, batch, attachment>>
    /\ (v = "denied") <=> (mode = "plan" /\ Call \notin ReadOnly)
    /\ mode' = IF Call \in ModeTools /\ v = "ran" THEN LeftBy(Call) ELSE mode

LEMMA CallKeepsSeal ==
    ASSUME BatchTypes, SealInv, NEW v \in Verdicts, CallAnswered(v)
    PROVE  SealInv'
<1> DEFINE n == Len(verdicts)
<1>1. n \in Nat /\ n < Len(batch) /\ Len(verdicts)' = n + 1 /\ verdicts'[n + 1] = v
      /\ \A j \in 1..n : verdicts'[j] = verdicts[j]
  BY DEF BatchTypes, CallAnswered, Verdict
<1>2. ModeBefore(n + 1) = mode /\ Call = batch[n + 1]
  BY DEF SealInv, CallAnswered, Call
<1>3. (ModeBefore(Len(verdicts) + 1) = mode)'
  BY <1>2, VerdictMovesMode DEF CallAnswered
<1>4. PlanModeSealsBatch'
  <2> SUFFICES ASSUME NEW i \in 1..(n + 1)
               PROVE  (verdicts'[i] = "denied")
                        <=> (ModeBefore(i)' = "plan" /\ batch'[i] \notin ReadOnly)
    BY <1>1, Zenon DEF PlanModeSealsBatch
  <2>1. ModeBefore(i)' = ModeBefore(i) /\ batch' = batch
    BY VerdictKeepsPast DEF CallAnswered
  <2>2. CASE i = n + 1
    BY <1>1, <1>2, <2>1, <2>2, Zenon DEF CallAnswered
  <2>3. CASE i \in 1..n
    BY <1>1, <2>1, <2>3, Zenon DEF SealInv, PlanModeSealsBatch
  <2> QED
    BY <1>1, <2>2, <2>3
<1>5. AttachmentTellsMode' /\ pc' = "tools"
  BY DEF CallAnswered, AttachmentTellsMode
<1>6. (Len(verdicts) <= Len(batch))'
  BY <1>1 DEF CallAnswered
<1> QED
  BY <1>3, <1>4, <1>5, <1>6 DEF SealInv

\* Each of the six tool actions answers its call so.
LEMMA ToolsAnswerCalls ==
    ASSUME BatchTypes, ModeTypes,
           SoftDeny \/ RunPlainTool \/ WriteMemoryEntry \/ TodoWrite \/ EnterPlanMode \/ ExitPlanMode
    PROVE  \E v \in Verdicts : CallAnswered(v)
<1> USE DEF CallAnswered, Executing, Denied, ReadOnly, ModeTools, Verdicts
<1>1. CASE SoftDeny
  BY <1>1 DEF SoftDeny
<1>2. CASE RunPlainTool
  BY <1>2 DEF RunPlainTool
<1>3. CASE WriteMemoryEntry
  BY <1>3 DEF WriteMemoryEntry
<1>4. CASE TodoWrite
  BY <1>4 DEF TodoWrite
<1>5. CASE EnterPlanMode
  BY <1>5 DEF EnterPlanMode, SetPermissionMode, LeftBy
<1>6. CASE ExitPlanMode
  BY <1>6 DEF ExitPlanMode, SetPermissionMode, LeftBy
<1> QED
  BY <1>1, <1>2, <1>3, <1>4, <1>5, <1>6

LEMMA SealStep ==
    ASSUME BatchTypes, ModeTypes, SealInv, AttachmentTellsMode', [Next]_vars
    PROVE  SealInv'
<1>n. ASSUME verdicts' = <<>>, pc' # "tools" PROVE SealInv'
  <2>1. Len(verdicts)' = 0
    BY <1>n
  <2> QED
    BY <1>n, <2>1 DEF SealInv, PlanModeSealsBatch
<1>1. CASE SoftDeny \/ RunPlainTool \/ WriteMemoryEntry \/ TodoWrite \/ EnterPlanMode \/ ExitPlanMode
  BY <1>1, CallKeepsSeal, ToolsAnswerCalls
<1>2. CASE AnswerTools
  <2>1. pc = "call" /\ pc' = "tools" /\ UNCHANGED <<mode, attachment>>
        /\ verdicts' = <<>> /\ batch' \in Batches
    BY <1>2 DEF AnswerTools, Answered, Asked
  <2>2. Len(verdicts)' = 0 /\ Len(batch)' \in Nat
    BY <2>1, BoundAssumption DEF Batches
  <2>3. Moves(1)' = {}
    BY DEF Moves
  <2>4. ModeBefore(1)' = TurnMode
    BY <2>1, <2>3, Zenon DEF ModeBefore, Moves, TurnMode
  <2>5. TurnMode = mode
    <3>1. attachment <=> mode = "plan"
      BY <2>1 DEF SealInv, AttachmentTellsMode
    <3> QED
      BY <3>1 DEF TurnMode, ModeTypes
  <2>6. PlanModeSealsBatch'
    BY <2>2 DEF PlanModeSealsBatch
  <2>7. (Len(verdicts) + 1)' = 1
    BY <2>2
  <2> QED
    BY <2>1, <2>2, <2>4, <2>5, <2>6, <2>7 DEF SealInv
<1>3. CASE PrepareRaises \/ RunRaises \/ CompactRaises \/ ProviderRaises \/ Interrupt \/ EndBatch
  <2>1. verdicts' = <<>> /\ pc' # "tools"
    BY <1>3 DEF PrepareRaises, RunRaises, CompactRaises, ProviderRaises, Interrupt, EndBatch, Die, Finish
  <2> QED
    BY <2>1, <1>n
<1>4. CASE AnswerText \/ AnswerTruncated \/ AnswerEmpty \/ PromptTooLong \/ UserInput \/ EnterTurns
           \/ Prepare \/ StopHooks \/ SlashPlan \/ Exit
  <2>1. pc # "tools" /\ pc' # "tools" /\ verdicts' = verdicts
    BY <1>4 DEF AnswerText, AnswerTruncated, AnswerEmpty, PromptTooLong, Answered, Asked, Finish,
       UserInput, EnterTurns, Prepare, StopHooks, SlashPlan, Exit, fields
  <2> QED
    BY <2>1, <1>n DEF SealInv
<1>5. CASE UNCHANGED vars
  <2>1. /\ pc' = pc /\ batch' = batch /\ verdicts' = verdicts
        /\ attachment' = attachment /\ mode' = mode
    BY <1>5 DEF vars, fields
  <2>2. PlanModeSealsBatch'
    <3>1. Len(verdicts)' = Len(verdicts)
      BY <2>1
    <3> SUFFICES ASSUME NEW i \in 1..Len(verdicts)
                 PROVE  (verdicts'[i] = "denied")
                          <=> (ModeBefore(i)' = "plan" /\ batch'[i] \notin ReadOnly)
      BY <3>1, Zenon DEF PlanModeSealsBatch
    <3>2. ModeBefore(i)' = ModeBefore(i)
      BY <2>1, Zenon DEF ModeBefore
    <3> QED
      BY <2>1, <3>2, Zenon DEF SealInv, PlanModeSealsBatch
  <2>3. ModeBefore(Len(verdicts) + 1)' = ModeBefore(Len(verdicts) + 1)
    BY <2>1, Zenon DEF ModeBefore
  <2>4. AttachmentTellsMode'
    BY <2>1 DEF SealInv, AttachmentTellsMode
  <2> QED
    BY <2>1, <2>2, <2>3, <2>4 DEF SealInv
<1> QED
  BY <1>1, <1>2, <1>3, <1>4, <1>5 DEF Next, RunStep, Over

\* The soft-deny of plan mode follows the mode as the earlier calls of the same
\* batch left it, for batches of any length and any tools.
THEOREM PlanModeAlwaysSealsBatch == Spec => []PlanModeSealsBatch
<1>1. Init => SealInv
  <2> SUFFICES ASSUME Init PROVE SealInv
    OBVIOUS
  <2>1. Len(verdicts) = 0 /\ pc = "idle" /\ verdicts = <<>>
    BY DEF Init
  <2> QED
    BY <2>1 DEF SealInv, PlanModeSealsBatch, AttachmentTellsMode
<1>2. TypeInv => BatchTypes /\ ModeTypes
  BY DEF TypeInv, TypeOK
<1>3. SealInv /\ BatchTypes /\ ModeTypes /\ AttachmentTellsMode' /\ [Next]_vars => SealInv'
  BY SealStep
<1>4. SealInv => PlanModeSealsBatch
  BY DEF SealInv
<1> QED
  BY <1>1, <1>2, <1>3, <1>4, TypeInvariance, AttachmentAlwaysTellsMode, PTL DEF Spec

-----------------------------------------------------------------------------
(* Turns, steps and provider calls *)

\* The one call a reactive compaction adds.
Retries == IF reactive THEN 1 ELSE 0

\* Where a turn stands: the steps recorded and the calls made so far.
TurnInv ==
    /\ pc = "recall" => calls = 0 /\ steps = 0 /\ Retries = 0
    /\ pc \in {"prepare", "call"} => turn >= 1 /\ steps = turn - 1 /\ calls <= turn - 1 + Retries
    /\ pc = "tools" => turn >= 1 /\ steps = turn - 1 /\ calls <= turn + Retries
    /\ ResultAccountsForTurns
    /\ Retries \in {0, 1} /\ (Retries = 1 => HasCompactor)

LEMMA SameRetries == ASSUME reactive' = reactive PROVE Retries' = Retries
  BY Zenon DEF Retries

LEMMA TurnStep == ASSUME RunTypes, TurnInv, [Next]_vars PROVE TurnInv'
<1> USE DEF RunTypes, TurnInv, ResultAccountsForTurns
<1>1. CASE UserInput
  <2>1. Retries' = 0
    BY <1>1, Zenon DEF UserInput, Retries
  <2> QED
    BY <1>1, <2>1 DEF UserInput
<1>2. CASE EnterTurns \/ Prepare
  <2>1. Retries' = Retries
    BY <1>2, SameRetries DEF EnterTurns, Prepare
  <2> QED
    BY <1>2, <2>1, StepsAssumption DEF EnterTurns, Prepare, history
<1>3. CASE AnswerText \/ AnswerTruncated \/ AnswerEmpty \/ AnswerTools
  <2>1. Retries' = Retries
    BY <1>3, SameRetries DEF AnswerText, AnswerTruncated, AnswerEmpty, AnswerTools, Answered
  <2> QED
    BY <1>3, <2>1 DEF AnswerText, AnswerTruncated, AnswerEmpty, AnswerTools, Answered, Asked, Finish
<1>4. CASE PromptTooLong
  <2>1. CASE Finish("max_tokens") /\ UNCHANGED reactive
    <3>1. Retries' = Retries
      BY <2>1, SameRetries
    <3> QED
      BY <1>4, <2>1, <3>1 DEF PromptTooLong, Asked, Finish
  <2>2. CASE ~(reactive \/ ~HasCompactor) /\ reactive' = TRUE /\ UNCHANGED <<pc, result>>
    <3>1. Retries = 0 /\ Retries' = 1 /\ HasCompactor
      BY <2>2, Zenon DEF Retries
    <3> QED
      BY <1>4, <2>2, <3>1 DEF PromptTooLong, Asked
  <2> QED
    BY <1>4, <2>1, <2>2, Zenon DEF PromptTooLong
<1>5. CASE PrepareRaises \/ RunRaises \/ ProviderRaises \/ Interrupt \/ StopHooks \/ SlashPlan \/ Exit
  <2>1. Retries' = Retries
    BY <1>5, SameRetries DEF PrepareRaises, RunRaises, ProviderRaises, Interrupt, StopHooks, SlashPlan,
       Exit, fields
  <2>2. pc' \in {"dead", "idle", "exited"}
    BY <1>5 DEF PrepareRaises, RunRaises, ProviderRaises, Interrupt, StopHooks, SlashPlan, Exit, Die
  <2> QED
    BY <2>1, <2>2
<1>6. CASE CompactRaises
  <2>1. Retries' = 1 /\ HasCompactor
    BY <1>6, Zenon DEF CompactRaises, Retries
  <2> QED
    BY <1>6, <2>1 DEF CompactRaises, Die
<1>7. CASE SoftDeny \/ RunPlainTool \/ WriteMemoryEntry \/ TodoWrite \/ EnterPlanMode \/ ExitPlanMode
  <2>1. UNCHANGED <<pc, turn, reactive, steps, calls, result>>
    BY <1>7, Zenon DEF SoftDeny, RunPlainTool, WriteMemoryEntry, TodoWrite, EnterPlanMode,
       ExitPlanMode, history
  <2>2. Retries' = Retries
    BY <2>1, SameRetries
  <2> QED
    BY <2>1, <2>2
<1>8. CASE EndBatch
  <2>1. Retries' = Retries
    BY <1>8, SameRetries DEF EndBatch
  <2> QED
    BY <1>8, <2>1, StepsAssumption DEF EndBatch, Finish, history
<1>9. CASE UNCHANGED vars
  <2>1. Retries' = Retries
    BY <1>9, SameRetries DEF vars, fields
  <2> QED
    BY <1>9, <2>1 DEF vars, fields, history
<1> HIDE DEF RunTypes, TurnInv, ResultAccountsForTurns
<1> QED
  BY <1>1, <1>2, <1>3, <1>4, <1>5, <1>6, <1>7, <1>8, <1>9 DEF Next, RunStep, Over

LEMMA TurnInvariance == Spec => []TurnInv
<1>1. Init => TurnInv
  <2>1. Init => Retries = 0
    BY Zenon DEF Init, Retries
  <2> QED
    BY <2>1 DEF Init, TurnInv, ResultAccountsForTurns
<1>2. TypeInv => RunTypes
  BY DEF TypeInv, TypeOK
<1>3. TurnInv /\ RunTypes /\ [Next]_vars => TurnInv'
  BY TurnStep
<1> QED
  BY <1>1, <1>2, <1>3, TypeInvariance, PTL DEF Spec

\* The status of a result and the steps it lists agree with the turns taken.
THEOREM ResultAlwaysAccounts == Spec => []ResultAccountsForTurns
<1>1. TurnInv => ResultAccountsForTurns
  BY DEF TurnInv
<1> QED
  BY <1>1, TurnInvariance, PTL

-----------------------------------------------------------------------------
(* The refinement of TurnContract *)

\* What is left of the provider calls a run may make.
LEMMA CallsLeft ==
    ASSUME RunTypes, TurnInv, pc = "call"
    PROVE  calls < (IF HasCompactor THEN MaxSteps + 1 ELSE MaxSteps)
<1>1. CASE HasCompactor
  BY <1>1, StepsAssumption DEF RunTypes, TurnInv
<1>2. CASE ~HasCompactor
  <2>1. Retries = 0
    BY <1>2 DEF TurnInv
  <2> QED
    BY <1>2, <2>1, StepsAssumption DEF RunTypes, TurnInv
<1> QED
  BY <1>1, <1>2

\* One more run ended in one of the four ways.
LEMMA EndingCounted ==
    ASSUME closed \in [Endings -> Nat], NEW k \in Endings, closed' = Bump(closed, k)
    PROVE  \A e \in Endings : closed'[e] = IF e = k THEN closed[e] + 1 ELSE closed[e]
  BY DEF Bump

LEMMA ContractStep ==
    ASSUME RunTypes, HistoryTypes, TurnInv, [Next]_vars
    PROVE  [Contract!Next]_Contract!contractVars
<1> USE DEF Working, Endings
<1>1. CASE UserInput
  <2>1. Contract!Begin
    BY <1>1 DEF UserInput, Contract!Begin
  <2> QED
    BY <2>1 DEF Contract!Next
<1>2. CASE AnswerText \/ AnswerTruncated \/ AnswerEmpty \/ AnswerTools \/ PromptTooLong
  <2>1. /\ pc = "call" /\ pc' \in Working /\ calls' = calls + 1
        /\ UNCHANGED <<inputs, closed>>
    BY <1>2 DEF AnswerText, AnswerTruncated, AnswerEmpty, AnswerTools, PromptTooLong,
       Answered, Asked, Finish
  <2>2. Contract!Ask
    BY <2>1, CallsLeft DEF Contract!Ask
  <2> QED
    BY <2>2 DEF Contract!Next
<1>3. CASE StopHooks
  <2>1. pc = "hooks" /\ pc' = "idle" /\ closed' = Bump(closed, "hooks") /\ UNCHANGED <<inputs, calls>>
    BY <1>3 DEF StopHooks
  <2>2. Contract!Answer
    BY <2>1, EndingCounted DEF Contract!Answer, HistoryTypes
  <2> QED
    BY <2>2 DEF Contract!Next
<1>4. CASE Interrupt
  <2>1. /\ pc \in Working /\ pc' = "idle" /\ closed' = Bump(closed, "interrupted")
        /\ UNCHANGED <<inputs, calls>>
    BY <1>4 DEF Interrupt
  <2>2. Contract!Abandon
    BY <2>1, EndingCounted DEF Contract!Abandon, HistoryTypes
  <2> QED
    BY <2>2 DEF Contract!Next
<1>5. CASE PrepareRaises \/ RunRaises \/ CompactRaises \/ ProviderRaises
  <2>1. /\ pc \in Working /\ pc' = "dead" /\ inputs' = inputs
        /\ \E k \in {"too_long", "crashed"} : closed' = Bump(closed, k)
        /\ calls' = calls \/ (pc = "call" /\ calls' = calls + 1)
    BY <1>5 DEF PrepareRaises, RunRaises, CompactRaises, ProviderRaises, Asked, Die
  <2>2. PICK k \in {"too_long", "crashed"} : closed' = Bump(closed, k)
    BY <2>1
  <2>3. /\ closed'["hooks"] = closed["hooks"] /\ closed'["interrupted"] = closed["interrupted"]
        /\ closed'["too_long"] + closed'["crashed"] = closed["too_long"] + closed["crashed"] + 1
    BY <2>2, EndingCounted DEF HistoryTypes
  <2>4. Contract!Lose
    BY <2>1, <2>3, CallsLeft DEF Contract!Lose
  <2> QED
    BY <2>4 DEF Contract!Next
<1>6. CASE Exit
  <2>1. Contract!Quit
    BY <1>6 DEF Exit, history, Contract!Quit
  <2> QED
    BY <2>1 DEF Contract!Next
<1>7. CASE EnterTurns \/ Prepare \/ EndBatch \/ SlashPlan \/ UNCHANGED vars
  <2>1. UNCHANGED <<inputs, calls, closed>> /\ (pc' = pc \/ (pc \in Working /\ pc' \in Working))
    BY <1>7 DEF EnterTurns, Prepare, EndBatch, SlashPlan, Finish, vars, history
  <2> QED
    BY <2>1 DEF Contract!contractVars
<1>8. CASE SoftDeny \/ RunPlainTool \/ WriteMemoryEntry \/ TodoWrite \/ EnterPlanMode \/ ExitPlanMode
  <2>1. UNCHANGED <<pc, inputs, calls, closed>>
    BY <1>8, Zenon DEF SoftDeny, RunPlainTool, WriteMemoryEntry, TodoWrite, EnterPlanMode,
       ExitPlanMode, history
  <2> QED
    BY <2>1 DEF Contract!contractVars
<1> QED
  BY <1>1, <1>2, <1>3, <1>4, <1>5, <1>6, <1>7, <1>8 DEF Next, RunStep, Over

\* The loop implements the contract of a session: runs do not overlap, make at
\* most MaxSteps provider calls and one reactive retry, and end exactly once.
THEOREM LoopImplementsContract == Spec => ImplementsTurnContract
<1>1. Init => Contract!Init
  BY DEF Init, Working, Endings, Contract!Init
<1>2. TypeInv => RunTypes /\ HistoryTypes
  BY DEF TypeInv, TypeOK
<1>3. RunTypes /\ HistoryTypes /\ TurnInv /\ [Next]_vars
        => [Contract!Next]_Contract!contractVars
  BY ContractStep
<1> QED
  BY <1>1, <1>2, <1>3, TypeInvariance, TurnInvariance, PTL
     DEF Spec, ImplementsTurnContract, Contract!Spec, Contract!Safety

-----------------------------------------------------------------------------
(* The todo nudge *)

\* A counter tells how many heard inputs ago the last of a set of them was; it
\* is the number of all of them when there was none.
Since(count, S) ==
    /\ count <= heard /\ \A k \in S : k <= heard - count
    /\ count = heard \/ heard - count \in S

NudgeInv ==
    /\ Since(sinceWrite, todoIn) /\ Since(sinceReminder, nudgedIn)
    /\ NudgeExactlyWhenDue

LEMMA NudgeStep ==
    ASSUME CounterTypes, HistoryTypes, NudgeInv, [Next]_vars
    PROVE  NudgeInv'
<1> USE DEF CounterTypes, HistoryTypes, NudgeInv, Since
<1>1. CASE EnterTurns
  <2>1. /\ heard' = heard + 1 /\ todoIn' = todoIn /\ sinceWrite' = sinceWrite + 1
        /\ NudgeDue => nudgedIn' = nudgedIn \cup {heard + 1} /\ sinceReminder' = 0
        /\ ~NudgeDue => nudgedIn' = nudgedIn /\ sinceReminder' = sinceReminder + 1
    BY <1>1 DEF EnterTurns
  <2>2. NudgeDue <=> /\ heard + 1 >= ReminderTurns
                     /\ \A k \in 1..heard : k \in todoIn \cup nudgedIn => heard + 1 - k >= ReminderTurns
    <3>1. sinceWrite + 1 >= ReminderTurns <=>
            /\ heard + 1 >= ReminderTurns
            /\ \A k \in 1..heard : k \in todoIn => heard + 1 - k >= ReminderTurns
      BY ReminderAssumption
    <3>2. sinceReminder + 1 >= ReminderTurns <=>
            /\ heard + 1 >= ReminderTurns
            /\ \A k \in 1..heard : k \in nudgedIn => heard + 1 - k >= ReminderTurns
      BY ReminderAssumption
    <3> QED
      BY <3>1, <3>2 DEF NudgeDue
  <2>3. Since(sinceWrite, todoIn)' /\ Since(sinceReminder, nudgedIn)'
    <3>1. /\ sinceWrite' <= heard' /\ \A k \in todoIn' : k <= heard' - sinceWrite'
          /\ sinceWrite' = heard' \/ heard' - sinceWrite' \in todoIn'
      BY <2>1
    <3>2. CASE NudgeDue
      <4>1. sinceReminder' = 0 /\ heard' = heard + 1 /\ nudgedIn' = nudgedIn \cup {heard + 1}
        BY <2>1, <3>2
      <4>2. /\ sinceReminder' <= heard' /\ \A k \in nudgedIn' : k <= heard' - sinceReminder'
            /\ sinceReminder' = heard' \/ heard' - sinceReminder' \in nudgedIn'
        BY <4>1
      <4> QED
        BY <3>1, <4>2
    <3>3. CASE ~NudgeDue
      <4>1. /\ sinceReminder' <= heard' /\ \A k \in nudgedIn' : k <= heard' - sinceReminder'
            /\ sinceReminder' = heard' \/ heard' - sinceReminder' \in nudgedIn'
        <5>1. /\ sinceReminder' = sinceReminder + 1 /\ heard' = heard + 1 /\ nudgedIn' = nudgedIn
              /\ heard' - sinceReminder' = heard - sinceReminder
          BY <2>1, <3>3
        <5> QED
          BY <5>1
      <4> QED
        BY <3>1, <4>1
    <3> QED
      BY <3>2, <3>3
  <2>4. NudgeExactlyWhenDue'
    <3> SUFFICES ASSUME NEW n \in 1..(heard + 1)
                 PROVE  (n \in nudgedIn') <=>
                          /\ n >= ReminderTurns
                          /\ \A k \in 1..(n - 1) : k \in todoIn \cup nudgedIn' => n - k >= ReminderTurns
      BY <2>1 DEF NudgeExactlyWhenDue
    <3>1. \A k \in 1..(n - 1) : k \in nudgedIn' <=> k \in nudgedIn
      BY <2>1
    <3>2. CASE n = heard + 1
      <4>1. n \in nudgedIn' <=> NudgeDue
        BY <2>1, <3>2
      <4> QED
        BY <2>2, <3>1, <3>2, <4>1
    <3>3. CASE n \in 1..heard
      <4>1. n \in nudgedIn' <=> n \in nudgedIn
        BY <2>1, <3>3
      <4> QED
        BY <3>1, <3>3, <4>1 DEF NudgeExactlyWhenDue
    <3> QED
      BY <3>2, <3>3
  <2> QED
    BY <2>3, <2>4
<1>2. CASE TodoWrite
  <2>1. /\ UNCHANGED <<heard, nudgedIn, sinceReminder>>
        /\ \/ sinceWrite' = 0 /\ todoIn' = todoIn \cup {heard}
           \/ UNCHANGED <<sinceWrite, todoIn>>
    BY <1>2 DEF TodoWrite
  <2>2. Since(sinceWrite, todoIn)' /\ Since(sinceReminder, nudgedIn)'
    <3>1. /\ sinceWrite' <= heard' /\ \A k \in todoIn' : k <= heard' - sinceWrite'
          /\ sinceWrite' = heard' \/ heard' - sinceWrite' \in todoIn'
      <4>1. CASE sinceWrite' = 0 /\ todoIn' = todoIn \cup {heard}
        <5>1. heard' - sinceWrite' = heard
          BY <2>1, <4>1
        <5> QED
          BY <2>1, <4>1, <5>1
      <4>2. CASE UNCHANGED <<sinceWrite, todoIn>>
        BY <2>1, <4>2
      <4> QED
        BY <2>1, <4>1, <4>2
    <3>2. /\ sinceReminder' <= heard' /\ \A k \in nudgedIn' : k <= heard' - sinceReminder'
          /\ sinceReminder' = heard' \/ heard' - sinceReminder' \in nudgedIn'
      BY <2>1
    <3> QED
      BY <3>1, <3>2
  <2>3. NudgeExactlyWhenDue'
    BY <2>1 DEF NudgeExactlyWhenDue
  <2> QED
    BY <2>2, <2>3
<1>3. CASE UNCHANGED <<heard, nudgedIn, todoIn, sinceWrite, sinceReminder>>
  BY <1>3 DEF NudgeExactlyWhenDue
<1>4. [Next]_vars => EnterTurns \/ TodoWrite
                     \/ UNCHANGED <<heard, nudgedIn, todoIn, sinceWrite, sinceReminder>>
  BY Zenon DEF Next, RunStep, Over, UserInput, Prepare, PrepareRaises, RunRaises, StopHooks, Exit,
     AnswerText, AnswerTruncated, AnswerEmpty, AnswerTools, Answered, PromptTooLong,
     CompactRaises, ProviderRaises, Interrupt, EndBatch, RunPlainTool, SoftDeny,
     WriteMemoryEntry, EnterPlanMode, ExitPlanMode, SlashPlan, vars, fields, history
<1> QED
  BY <1>1, <1>2, <1>3, <1>4

\* The todo nudge is armed exactly when it is due, for every threshold.
THEOREM NudgeAlwaysExact == Spec => []NudgeExactlyWhenDue
<1>1. Init => NudgeInv
  BY DEF Init, NudgeInv, Since, NudgeExactlyWhenDue
<1>2. TypeInv => CounterTypes /\ HistoryTypes
  BY DEF TypeInv, TypeOK
<1>3. NudgeInv /\ CounterTypes /\ HistoryTypes /\ [Next]_vars => NudgeInv'
  BY NudgeStep
<1>4. NudgeInv => NudgeExactlyWhenDue
  BY DEF NudgeInv
<1> QED
  BY <1>1, <1>2, <1>3, <1>4, TypeInvariance, PTL DEF Spec

\* An armed nudge has not reached a batch of tools, so no turn follows it.
FirstTurnInv == NudgeOnlyInFirstTurn /\ (pc = "tools" => ~todoNudge)

LEMMA FirstTurnStep ==
    ASSUME FirstTurnInv, [Next]_vars
    PROVE  FirstTurnInv'
<1> USE DEF FirstTurnInv, NudgeOnlyInFirstTurn
<1>1. CASE UserInput \/ AnswerText \/ AnswerTruncated \/ AnswerEmpty \/ AnswerTools \/ Interrupt
  BY <1>1, Zenon DEF UserInput, AnswerText, AnswerTruncated, AnswerEmpty, AnswerTools,
     Answered, Interrupt
<1>2. CASE EnterTurns
  <2>1. todoNudge' => turn' = 1 /\ heard' \in nudgedIn'
    <3>1. todoNudge' = NudgeDue /\ turn' = 1 /\ heard' = heard + 1
          /\ nudgedIn' = IF NudgeDue THEN nudgedIn \cup {heard + 1} ELSE nudgedIn
      BY <1>2, Zenon DEF EnterTurns
    <3> QED
      BY <3>1, Zenon
  <2>2. pc' = "prepare"
    BY <1>2, Zenon DEF EnterTurns
  <2> QED
    BY <2>1, <2>2
<1>3. CASE EndBatch
  <2>1. pc = "tools" /\ todoNudge' = todoNudge
    BY <1>3, Zenon DEF EndBatch
  <2> QED
    BY <2>1, Zenon
<1>4. CASE \/ Prepare \/ PrepareRaises \/ RunRaises \/ PromptTooLong \/ CompactRaises \/ ProviderRaises
           \/ StopHooks \/ SlashPlan \/ Exit
  <2>1. UNCHANGED <<todoNudge, turn, heard, nudgedIn>> /\ (pc' = "tools" => pc = "tools")
    BY <1>4 DEF Prepare, PrepareRaises, RunRaises, PromptTooLong, CompactRaises, ProviderRaises, StopHooks,
       SlashPlan, Exit, Asked, Finish, Die, fields, history
  <2> QED
    BY <2>1, Zenon
<1>5. CASE SoftDeny \/ RunPlainTool \/ WriteMemoryEntry \/ TodoWrite \/ EnterPlanMode \/ ExitPlanMode
  <2>1. UNCHANGED <<pc, todoNudge, turn, heard, nudgedIn>>
    BY <1>5, Zenon DEF SoftDeny, RunPlainTool, WriteMemoryEntry, TodoWrite, EnterPlanMode,
       ExitPlanMode, history
  <2> QED
    BY <2>1, Zenon
<1>6. CASE UNCHANGED vars
  BY <1>6, Zenon DEF vars, fields, history
<1> HIDE DEF FirstTurnInv, NudgeOnlyInFirstTurn
<1> QED
  BY <1>1, <1>2, <1>3, <1>4, <1>5, <1>6 DEF Next, RunStep, Over

\* No turn after the first of an input repeats the nudge.
THEOREM NudgeNeverRepeated == Spec => []NudgeOnlyInFirstTurn
<1>1. Init => FirstTurnInv
  BY Zenon DEF Init, FirstTurnInv, NudgeOnlyInFirstTurn
<1>2. FirstTurnInv /\ [Next]_vars => FirstTurnInv'
  BY FirstTurnStep
<1>3. FirstTurnInv => NudgeOnlyInFirstTurn
  BY DEF FirstTurnInv
<1> QED
  BY <1>1, <1>2, <1>3, PTL DEF Spec
=============================================================================
