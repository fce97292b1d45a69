# Formal models of simple_coding_agent

TLA+ models of the coding agent in `src/simple_coding_agent/`, the TLC
configurations that check them on small instances, and TLAPS proofs of their
main properties for every value of the constants. Paths below are relative to
`src/simple_coding_agent/` of the repository.

## 1. The system

A session is one Python process: a REPL (`cli.py`, `openai_cli.py`) that drives
one `AgentLoop` (`loop.py`), which talks to one provider. There are no threads.
What makes it hard is not parallelism inside the process but that

- a **tool changes the loop's own state** while the loop is executing the batch
  the tool came in (plan mode, the transcript, the todo list, the write quota);
- **^C** can arrive at any moment and the session goes on afterwards;
- the **transcript is rewritten in four ways** that do not know of each other,
  while cursors (uuids of messages) are kept across runs;
- the **memory directory is shared** by several processes, and the only
  coordination is one lock file;
- a **provider error** is retried by an operation that asks the provider.

| Part | Files | State it keeps | Operations | How others reach it |
|---|---|---|---|---|
| Agent loop | `loop.py`, `models.py` | permission mode, todo counters, write quota, retry and snip flags, extraction and fold cursors, last summary | `run`, `run_stream`, `_handle_tool_calls`, `_execute_one`, `_run_stop_hooks` | called by the REPL; tools call back into it through closures |
| REPL | `cli.py`, `openai_cli.py` | the loop, the session memory | input, `/plan`, `/save`, `/load`, `/exit`, ^C | calls the loop, replaces its transcript on `/load` |
| Plan mode | `permission.py`, `plan_mode_tools.py` | (in the loop) | `enter_plan_mode`, `exit_plan_mode`, soft-deny | tools and `/plan` set the loop's mode |
| Todo list | `todo.py`, `todo_tool.py` | the list; counters in the loop | `todo_write`, the nudge | read when a payload is built |
| Transcript, payload | `transcript.py`, `context.py` | the messages | append, slice at boundary, normalise, trim, drop orphans | every other part reads or rewrites it |
| Compaction | `compact.py` | none of its own | `compact`, `microcompact` | the loop at the top of a turn and in the retry |
| Snip | `snip.py`, `snip_tool_model.py` | none of its own | engine `snip`; the model's `snip_history` | the loop; a tool in the middle of a batch |
| Stop hooks | `extraction_hooks.py`, `session_memory_state.py` | (cursors in the loop), session memory | extraction, session-memory fold | the loop at every normal end of a run |
| Sub-agents | `forked_agent.py`, `extract_memories.py` | a private message list | bounded provider loop with a tool whitelist | stop hooks, dream |
| Dream | `dream.py`, `consolidation_lock.py` | the lock file (mtime and pid) | gate, acquire, consolidate, record, rollback | REPL at `/exit`, `memory dream` command |
| Memory store | `memory.py`, `memory_cli.py` | entry files, manifest, legacy file | save, update, delete, rewrite manifest | tools, extraction, dream, command line |
| Recall | `memdir.py`, `recall_hooks.py` | surfaced set, byte budget | select, read, attach | the loop at the start of a run |
| Tool result store | `tool_result_store.py` | externalised files, cached decisions | process a result or a batch | the loop and the context builder |
| Session files | `session_store.py` | files | save, load | `/save`, `/load`, `--resume` |
| Providers | `provider.py` | none across calls | call, streamed call, selector call | the loop, the summarizer, recall |
| Tools | `tools.py`, `tool_registry_factory.py`, `coding_tools.py` | registry | look up, execute | the loop |
| Rest | `metrics.py`, `trace.py`, `auto_learn.py`, `claude_md.py` | counters | output, text helpers | everywhere |

What correctness means for each part:

- *loop*: a run asks the provider a bounded number of times and ends in exactly
  one way; its result accounts for its turns; each tool call of a batch is
  judged under the mode in force at that call; quota and nudge mean what they say;
- *transcript, compaction, snip*: every payload is one the API accepts, contains
  no message twice, and keeps the results the cleaning promises to keep;
- *stop hooks*: extraction happens when due and not after the agent wrote
  memory itself; no message is missed by the session memory;
- *dream*: consolidations exclude each other, leave no stale holder behind, and
  the time gate tells the last successful one;
- *memory store*: the manifest agrees with the entries; what was replaced does
  not come back; a dream deletes only what something else stands for;
- *providers*: the calls that are run are the calls the model made, whole;
- *recall, result store*: no memory is attached by two inputs, nor without bound; a
  payload stays within its limits and shows each result as itself, and always alike.

The hazards behind these statements are listed one by one in `PROJECT.json`,
each with its line and with the properties that cover it, or the reason why
none does.

## 2. The modules

### AgentLoop (refines TurnContract)

`AgentLoop.tla` is the control of `run` / `run_stream` with the REPL around it.
`pc` is the place in the run:

    idle --UserInput--> recall --EnterTurns--> prepare --Prepare--> call
      ^                                          ^                   | \
      |                                          +-----EndBatch----tools \
      +-------------StopHooks-------------- hooks <-----------------------+

One action is one handler: `EnterTurns` is `_maybe_inject_todo_nudge`, `Prepare`
the top of a turn, the `Answer...` actions the branches on the response,
`PromptTooLong` the `except` of the retry, `SoftDeny` and the tool actions
`_execute_one` for one call of the batch, `EndBatch` the end of the tool branch
with the loop's bound. `Interrupt` is ^C, possible wherever a run is;
`PrepareRaises`, `CompactRaises`, `ProviderRaises` and `RunRaises` are the
exceptions no caller catches. The variables carry the names of the fields with
the underscore dropped; the variables after `steps` are history that no guard reads
except to bound the session.

A tool is its name and its effect on the loop. The tool set is a constant, and
the proofs hold for every subset of `ToolNames`; `edit_file` stands for every
tool that is not read-only, `read_file` for every one that is, `unregistered`
for a name the registry does not know.

`TurnContract.tla` is the abstract promise: waiting, running or over; a run asks
at most `MaxAsks` times; it ends answered, abandoned or lost, once. AgentLoop
implements it with `MaxAsks = MaxSteps + 1` when a compactor is configured (the
one retry of the run) and `MaxSteps` otherwise.

### Transcript, Compaction, Conversation

`Transcript.tla` has the messages as values and the payload as an operator:
slice at the last boundary, drop boundaries, trim from the front, remove orphan
results. The amount of trimming depends on sizes, so `Payloads` is the set over
all places where trimming can stop. A message is uuid, kind and tool blocks.
`Pick(s, I)` is a comprehension with a condition: the elements of `s` at the places
of `I`. It stands wherever the code filters a list. It and `OpenAIMessages` are recursive
functions (not `SelectSeq` or a fold) so that the proofs can speak of them.
`Compaction.tla` holds the four ways a transcript shrinks, as functions from
sequence to sequence; a `read_file` or `list_files` call is written with its
path, because the snip keeps the newest result of each path. `Conversation.tla`
composes them with the loop's steps: at the top of a turn microcompaction, snip
and compaction run in this order, each or none; during a batch `ExecuteSnip`
may replace the transcript; ^C leaves what has been appended. Token counts,
ages and budgets that decide *whether* an operation runs are left to choice;
*what* it does is computed.

`OpenAIMessages` is the provider's conversion of a payload: it collects the
results of one message behind the calls they answer, so it decides what "a
result answers its call" means at the API.

Left out: memory attachments in the transcript, the blocks that `build` puts in
front of a payload, and the text of summaries.

### StopHooks

`StopHooks.tla` models what a run's end does and what a run did to the
transcript before it: `EnterHooks` is `_run_stop_hooks` up to its call of
`maybe_extract_memories`, where it counts the turn and sets the flag, `Gates` that
function up to gate 7, `Extracted` / `ExtractFails` the extraction, `Fold` /
`FoldFails` the session-memory fold. A hook that found the flag set is "held" at the
gates, so that ^C can come there too and leave the flag set once more. `HasMemoryWritesSince` and `MessagesSince`
are translated as they are, including what they do with a cursor that is gone.
The session memory is `memory`: `Cold`, or for each section the message its
text comes from. `ParseSections` keeps the first line of each section, because
the code's multi-line `$` ends a section there (`session_memory_state.py:84`). A fold
replaces every section that has content, and "(none)" is content; so only the current
work keeps what the previous memory said, after a last answer whose first line is
blank. Whether it is blank is left to choice at each fold.
`CompactTranscript` uses `Compaction!Compact` and `SnipHistory`
`Compaction!SnipHistory`, for any results of earlier runs. `EngineSnip` evicts any
tool messages, copies one by one, but the run's own memory writes: those are never
cleared and lose their results to no snip of their own run. That is more than the
engine's snip takes, and all that matters to a cursor. When it takes one copy of a
message and leaves another, the one that is left may lie in front of the fold's
cursor and never be read; `parted` remembers these ids, and `FoldMissesNothing`
excepts them. `Save` and `Load` are `/save` and `/load`: a load keeps the
extraction cursor of the old transcript.

### MemoryStore

`MemoryStore.tla` is one memory directory and the processes that work on it, one
system call per step; a listing of the directory, with the reads of its files, is
one step. `Begin` takes one
of the operations asked for; then

    save     truncate - write - scan - replace
    delete   look - unlink - lookjson - unlinkjson - scan - replace
    update   load, then a save
    migrate  a save without scan and replace for each legacy entry
    dream    headers - entries - plan, then a delete for each entry it chose (purge)
    agent    ask and dispatch in turn; a dispatched call may be a save

The two columns of the directory are `md` (time of the last write and text) and
`json`, the legacy files. `UnlinkRaces` is the exception when another process
was faster, `Fails` any other failing system call, `Dies` a kill or ^C at any
point; what each caller does with the exception is `Back`. A dream lists the directory
twice, for the mtimes (`ListHeaders`) and for the texts (`ReadEntries`), and the legacy
files with `Plan`; other processes may work in between, and what the first listing did
not have counts as the oldest (`TimeOf`). The duplicate removal is `Twins`, the pairwise comparison in listing order with its early ends, as two
recursive functions for the two loops; `Doomed` adds the pruning. The sub-agent is its conversation: it may save,
and it ends within `MaxTurns`.

### ProviderStream, ToolResultStore, Recall, Session

These four are the data of a session. `ProviderStream.tla` has what
`OpenAIProvider` makes of an answer: the deltas of its calls in any order
(`Orders`), cut at any place, or a whole message, to the calls and stop reason that
reach the loop. Of arguments it knows which fragments they hold and which
beginnings of them parse; the lenient parser's acceptance of a beginning that
ends in a brace is one of these. Fragments without an index are only sent as
whole calls. `ToolResultStore.tla` has both passes of the result store, with
`Process` for one result. The loops of both modules (`Gathered`, `PassOne`, `Total`,
`PassTwo`) are recursive functions over the number of turns, so that the proofs can
speak of the state after each turn. `Recall.tla` has what becomes of a selector's answer
and of the fallback's ranking. `Session.tla` composes them: recall, then
payload, answer and results in turn, with microcompaction, ^C or an exception
anywhere (`Breaks`), `/save`, `/load` and `--resume`. A resumed process may have
other limits and starts without decisions and surfaced memories; the files of
the store are in the shared temporary directory and survive. `RecallInterrupted` is ^C
in the attaching loop: the first attachments are made and surfaced, and not counted.
The append of one attachment and its mark as surfaced are one step.

### ConsolidationLock

`ConsolidationLock.tla` runs `consolidate()` in several processes, one system
call per step: the gate's stat, `Stat`, `Read`, `Write`, `Verify` of the
acquisition, and the clear and utime of a record or a rollback. The clock ticks
at any time; `Crash` is a kill or a ^C. The pid in the body and the mtime of the
file are separate variables because the code sets them separately.

## 3. What is checked

Each `MC` module holds the values of one component's constants, each `.cfg` is
one run.

| Run | Shows | Bounds |
|---|---|---|
| `loop_plan` | plan mode judges each call of a batch under the mode the calls before it left; counters and attachment tell the mode | 2 inputs, 2 turns, batches of 1 or 2 calls over a write, an unknown tool and both mode tools, one `/plan` |
| `loop_session` | quota, nudge, accounting of results, runs end, refinement of TurnContract | 4 inputs, 4 turns, reminder after 2; one call per batch so that the quota of 3 can be exceeded only across turns |
| `lock` | what the lock gives, pid never left behind, mtime tells the last dream | 3 processes, forced and unforced, gate of 2 ticks, stale after 1, clock 2..4 |
| `conv` | payloads are without duplicates and every result answers its call in what the provider sends, the newest result arrives, `snip_history` spares the turn, snip keeps the newest of a path | 11 uuids; a per-path call, a global tool and `snip_history`; quotas scaled down (keep 3, 1, 1, 1; thresholds 2 and 3) |
| `hooks` | throttle and guard, no extraction over the agent's own writes, complete folds, a session memory that tells an input there is | 7 uuids, throttle 2, keep 3 |
| `memory` | the manifest tells the entries, superseded texts stay dead, what a dream may delete, operations end | 2 processes, 2 operations, 3 entries, a chain of duplicates a~b~c where a and c are not alike, legacy files with and without a rewritten one, manifest of 2, sub-agent of 2 turns |
| `session` | calls run as they were sent, limits of a payload, results shown as themselves and alike, files behind pointers, recall once and bounded | 2 inputs, 3 calls, 2 calls of 2 fragments in an answer, outputs over either limit or not, both presets, 2 memories, 2 attached at a time, selector answers of 3 names |

Why these are enough: the nudge's pattern repeats after `ReminderTurns` inputs;
eleven uuids reach two compactions, a snip and a `snip_history` in one session,
seven reach two folds with a compaction, a snip, a save and a load between them;
three processes are a thief, its victim and a third that enters after the
victim's release; two operations are what an overlap takes, and three entries a
chain; three calls are two that share an id or a total and one that comes
later. The thresholds of the code (3 paths, 10 pairs, keep 5, 200 lines, 5
memories, 2000 characters) are scaled so that each is crossed within the bound;
the definitions do not depend on their values. `lock` and `session` use symmetry
over processes and memories, which are interchangeable; neither checks liveness.
Deadlock is not checked in `conv`, `hooks` and `session`, whose bounds stop them;
the other models end in an explicit stuttering step.

Fairness is assumed twice. `WF_vars(RunStep)` in AgentLoop, for `RunEnds`: a run
is sequential code, and a provider call, a tool or an approval prompt returns or
raises in the end. Nothing is assumed of the user or of the exceptions that may
come at any point: `UserInput`, `Interrupt`, `SlashPlan`, `Exit` and `RunRaises` are
not in `RunStep`, so none of them rescues a run that would be stuck. And
`WF_vars(Step(p))` for each process of MemoryStore, for `OperationsEnd`: a process
that runs gets on, whatever the other one does; beginnings, failures and deaths
are not in `Step`. The sub-agent's provider may go on asking for tools for ever,
and the loop's bound ends it. The other modules need none.

### Where the code and its documents differ

Five runs check a statement a document or comment makes and find it violated:

| Run | Statement | What happens |
|---|---|---|
| `lock_mutex` | the lock file is a PID mutex | write A, verify A, write B, verify B: both consolidate |
| `conv_pairs` | the engine guarantees API validity | after `snip_history` or ^C a tool_use is sent without its result |
| `conv_evict` | only cleared pairs are evicted | the call of the full copy goes with the cleared copy |
| `memory_dream` | of two duplicates a dream keeps the newest | one saved between its two listings counts as the oldest and is deleted |
| `session_cut` | a broken call drops the turn's calls, so that nothing is done in part | arguments cut behind a brace inside a string parse, and the call runs with a part of them |

Beside each there is what remains true: `LockIsExclusive` (without two
overlapping lock operations and without a holder of more than an hour, at most
one process consolidates), `ResultsAnswerTheirCalls` (the half of API validity
that does hold), `ExtractionWhenDue` (without a memory write in the transcript extraction runs when it is
due), `DreamSpares` (whatever came between the listings, something that stands for what
is deleted stays, with a file no older than the deleted entry was when it was listed),
`RunsWhatWasSent` (of an answer that was not cut all calls are
run and whole, of a cut one a call's arguments are a beginning of what was meant).

### What the models follow and a reader may not expect

- A fold of the session memory keeps the first line of each section of the new
  messages and nothing of the previous memory, except for the current work after a
  blank first line; a compaction with a warm session memory uses that as its summary and
  says nothing else of what it puts away (`compact.py:620`).
- After a skip because the agent wrote memory the extraction cursor stays where it is,
  so the write is found again at each later hook for as long as it is in the transcript
  (`extraction_hooks.py:134`). `ExtractionWhenDue` speaks of transcripts without one.
- A second prompt-too-long ends the run with the status MAX_TOKENS when the retried call
  raises it (`PromptTooLong`). Raised by the LLM summarizer, at the top of a turn
  (`PrepareRaises`) or inside the compaction that the first one forced
  (`CompactRaises`), a prompt-too-long leaves `run()` as an exception and ends the
  session, without stop hooks (`compact.py:248`). The runs of the loop take both ways;
  `ImplementsTurnContract` counts such a run as lost.
- `GuardHeals` counts from the last ^C within a stop hook: a hook that is held back
  and interrupted before it clears the flag holds back the next one as well.
- A name that the selector gives twice in one answer is attached twice by that input:
  the surfaced set is asked before the attachments are made (`memdir.py:252`).
  `RecalledOnce` speaks of two inputs. What an interrupted recall attached is not in
  the byte count, which `RecallBounded` speaks of.
- After `--resume` with the aggressive preset a saved pointer is longer than the
  limit and is externalised itself, over the file with the full result;
  `FilesKeepResults` speaks of the process that wrote the file.
- Calls whose id the service reused, or left out of a message that is not
  streamed, share their decisions in the store; `ShowsOwnResult` speaks of the
  others.
- Two processes that overlap, a migration, a failure or a death leave the manifest
  behind the entries until the next save or delete that runs alone
  (`ManifestTellsEntries`); a death in the middle of a delete can bring an old text
  back (`SupersededStaysDead`).
- In a chain of duplicates the twin for whose sake an entry is deleted may go as
  well; `DreamSpares` promises the end of the chain. It speaks of the entries as the
  dream read them: an entry rewritten after the listings is judged by its old text.
- A memory stays surfaced when the transcript that showed it is compacted or
  replaced by `/load`, or when it could not be read: it is not attached again.

## 4. What is proved

The proofs are in the eight `Proofs` modules. They use only the named assumptions on the
constants, for all of their values: no bound of a run is needed. `TranscriptProofs` and
`CompactionProofs` hold the facts about the operators that the modules with states
share; `ConversationProofs`, `StopHooksProofs` and `SessionProofs` build on them.

| Theorem | Argument |
|---|---|
| AgentLoop `TypeCorrect`, `PlanLedgerAlwaysBalanced`, `AttachmentAlwaysTellsMode`, `MemoryQuotaKept` | inductive with the type invariant; the quota with `saved <= memWrites <= WriteQuota` |
| `PlanModeAlwaysSealsBatch` | `SealInv`: the mode now is `ModeBefore` of the next call. Needed because the property speaks of the mode at past calls; the lemma about appending a verdict says that earlier values of `ModeBefore` do not change |
| `ResultAlwaysAccounts` | `TurnInv`: while a turn is running, `steps = turn - 1` |
| `NudgeAlwaysExact` | `NudgeInv` relates each counter to the distance from the last input in `todoIn` or `nudgedIn` |
| `NudgeNeverRepeated` | `FirstTurnInv`: the nudge is armed only in turn 1 and dropped before turn 2 can begin |
| `LoopImplementsContract` | initial states map to initial states; each action maps to a step of TurnContract or a stutter, with the invariant that calls are bounded by turns plus the retry |
| ConsolidationLock `TypeCorrect`, `PidNeverLeaks` | inductive with types |
| `LockIsExclusiveAlways` | `LInv`: without overlap and overstay at most one process is taking or giving back the lock (`OneBusy`), and one that has written its pid owns the file, body and mtime, while nobody else is past the freshness test; so a reader sees the holder and the time it began (`OwnerInv`) |
| `GateAlwaysTellsLastDream` | `GateInv`: without overlap, overstay and death, a holder's `seen` is `recorded`, so either way of releasing restores it |
| Conversation `TypeCorrect`, `OncePerPayload` | `Invariant`, whose part on the transcript is `Sound`: the copies of a message are of one kind, between two of them lies the boundary of a compaction unless they are boundaries themselves (`CopiesApart`), no message has two blocks for one call, and copies of a result are cleared oldest first. A payload lies on one side of the last boundary, so it has one copy. `NoMessageTwice` says nothing of what lies in front of the boundary and is not inductive: a compaction can copy the old boundary behind the new one |
| `TurnIsSpared` | the same `Invariant`, which also says that the input of a running turn is in the transcript and that a result newer than it has a copy behind every user message (`ResultsFollow`): so what a snip at the last user message takes is older |
| `ResultsAreAnswers` | `Invariant` and `Paired`: the uses of a call are in copies of one message (`OneUsePerCall`), and between a use and a later result of its call lie only snip boundaries unless a compaction's boundary does (`AnsweredNext`). A payload takes what follows the last boundary and drops what it has no call for, so a result is right behind its call in it (`PayloadAnswers`); by induction over the payload `OpenAIMessages` keeps it there (`OpenAIAnswers`). `ResultsAnswerTheirCalls` speaks of the payload only and is not inductive |
| `NewestIsKept` | no invariant of states but well-formed messages: what is folded is never the newest full result of its path, and what is evicted is cleared |
| `NewestReachesModel` | `Turn`: a batch's calls and results are in the last two messages and, at the top of the next turn and in the retry, each of microcompaction, snip and compaction hands on a transcript whose last result is in full and has its call in the slice (`Arrives`). Under `KeepMicro # 0` and `KeepCompact # 1`: the code's `keep_recent` are 5 and 10, or 2 in the aggressive preset (`compact.py:359`, `compact.py:523`, `cli.py:154`). With `--microcompact-keep-recent 0` every result is cleared, as `compact.py:448` says; a compactor that keeps one message would keep a result without its call |
| StopHooks `HookTypeCorrect`, `FoldIsComplete`, `WritersAreLeftAlone`, `MemoryTellsInput` | `CursorInv`. Its core is `Trails(ms, X, Y)`: behind every message whose id is in `Y` there is a copy of every message of `X`. What is unread trails the fold's cursor, and the run's input and memory writes trail all that was there before the run. A cursor names the first copy of its message, and compaction copies an end of the transcript, so what trails a message trails its copies; a snip keeps it where it takes all copies or none, which is why `parted` is needed |
| StopHooks `GuardIsReleased`, `ExtractionRunsWhenDue` | `HookInv`: the flag is set exactly within a stop hook, from its gates to the end of its extraction, and after one was cut off there, and a hook is held back only after that (`FlagInv`), and the throttle equals the hooks since the last success (`ThrottleInv`); so a hook decides as the history says. The transcript plays no part: the proof holds for any of its values |
| MemoryStore `TypeCorrect` | one step per action, with lemmas on what a rewritten job and a stamped file are |
| `ManifestIsTrue` | `ManifestInv`: while nothing is tainted whoever works is alone; what one that is alone has scanned is what there is; outside the middle of an operation the manifest is that. The property speaks of rest only and is not inductive: a save that runs alone must carry it through its four steps |
| `OldTextsStayDead` | `LegacyInv`: a superseded text whose `.md` is gone has a process about to look it up or unlink it. Needed because a delete removes `.md` first |
| `DreamIsSparing` | `SeenInv`: while a dream plans, what it holds of the first listing is no newer than the files now, since other processes only write later; so an mtime it has of an entry is a lower bound. `Covered`, kept by each comparison (`CompareCovers`) and so, by induction over both loops, true at their end: whatever is dead has a duplicate that is newer, or as old and further behind in the list. In this order the places an entry leads to have a greatest one (`GreatestExists`), and that one is not dead. If it is pruned, `MaxLines` of those newer than it are kept (`NewerAreKept`). That the loser's twin may die later does no harm, since its own twin is greater still. Under `Mutual`, the Jaccard index is symmetric (`memory.py:345`), and `Finite`, an id has at most 128 characters (`memory.py:50`) |
| Session `TypeCorrect` | `TypeInv`: the batch, the transcript and the rest, each typed. Its lemmas give the type of what each loop of the stream and of the store returns |
| `RunsAsSent` | the run of a batch is the response of one answer, so the proof is about `Answers`. `Holds`: after `k` deltas what is gathered of a call begun is its id, its name and as many of its first fragments as deltas came behind the first, by induction over the deltas, in any order; `InOrder` reads it by index. What is whole is the call itself, and what parses of a cut answer is a beginning |
| `PayloadsFit` | `Handed`: what is still inline keeps its length and everything else is a pointer. Each turn of pass 2 takes one result out of the inline ones, so after as many turns as there are results the rest fits (`Fits`); by induction over the turns |
| `ShownAreOwn`, `FilesAreKept`, `ServesStably` | `DataInv`, kept for the transcript, for the saved one and for the payload: a result holds its own content, calls are in rising order, a call has one id, and a decision of the store is a pointer to a result with this id. Until a resume every pointer that is there was decided on by this store, and its file holds that result in full |
| `RecallsOnce` | `RecallInv`: whatever was attached is surfaced, and both ways of selecting leave out what is |
| `RecallStaysBounded` | `BytesInv` with lemmas that `Cut` takes at most `MaxAttached` places and that as many attachments fit in the room left |

Induction over data is done without the library's induction theorems, which take an
operator as a parameter: `LeastNumber` follows from the theorem that `<` on the naturals
is well-founded, and `SetInduction`, over sets, from it. Each use names the set of the
numbers for which the claim holds. So is shown what a comprehension keeps
(`PickKeepsPlaces`), on which the proofs about compaction and snips rest. Where a definition is a recursive function, it is first
shown to satisfy its equation.

Only model-checked: the liveness properties `RunEnds` and `OperationsEnd`, because liveness
under fairness is out of the prover's reach. Every other property of a passing run is a
theorem.

## 5. Not modelled

- *Prompt helpers* (`auto_learn.py`, `claude_md.py` and the like), *tracing*,
  argument parsing and printing: pure functions or output, no state others use.
- *Coding tools*: input and output of the operating system; only their
  effect on the loop and the memory directory is there.
- *Content of the todo list*, and that the CLI's closure mutates in place the list
  the loop rebinds: a question of aliasing in one process that one unit test settles.
- *Memory store*: search, secret and path checks, and the 25 KB limit of the
  manifest, which works as the limit of lines does. One
  `write` is a step: a file is just opened (`Torn`) or whole.
- *Session files*: the format, names and path checks. The write is a rename.
- *Thresholds in tokens* and the text of summaries: whether an operation runs is
  a choice, except where a count of messages or bytes decides.
- *The blocks in front of a payload*, which can push it over the budget, since the
  trimming comes before (`context.py:481`).
- *`update_session_memory_llm`* and `retrieve`, which nothing calls.
- *Lock and directory together*: ConsolidationLock and MemoryStore stand side by
  side. MemoryStore assumes no lock, so what it shows holds when two dreams run.

The parts called "partly" in `PROJECT.json` say there what is left out of them.

## 6. Plan

All modules of the first plan are written. What would come next:

1. The stale time gate in ConsolidationLock: two dreams within `MinHours` only
   when the second had read the gate before the first recorded.
2. Attachments in Conversation, and the budget of a payload with them.

## 7. Running

    tlc -workers 2 -config MCAgentLoop_plan.cfg MCAgentLoop
    tlc -workers 2 -config MCSession.cfg MCSession
    tlapm MemoryStoreProofs.tla

`PROJECT.json` lists the components, the runs with their properties, for every
property a mutated definition that must violate it, the source lines of each
definition, the findings, the hazards and the theorems.
