----------------------------- MODULE StopHooks -----------------------------
(****************************************************************************)
(* The stop hooks of a run: _run_stop_hooks (loop.py), memory extraction    *)
(* and the session-memory fold (extraction_hooks.py), and the fields they   *)
(* keep from run to run.  Both hooks remember how far they got as the uuid  *)
(* of a message in a transcript that is compacted, snipped, interrupted and *)
(* replaced by /load between two runs of theirs.  Extraction and session    *)
(* memory are both enabled; disabled, each hook is a no-op.                 *)
(****************************************************************************)
EXTENDS Transcript

CONSTANTS
    Throttle,     \* _extract_throttle_n
    KeepCompact,  \* ContextCompactor.keep_recent
    MaxIds        \* uuids handed out in the session (bound)

ASSUME Parameters ==
    Throttle \in Nat \ {0} /\ KeepCompact \in Nat /\ MaxIds \in Nat

\* A call writes memory through write_memory_entry, or not.
Tools == {"write_memory_entry", "read_file"}

Shrink == INSTANCE Compaction WITH
    PerPath <- {}, Global <- {}, OtherTools <- Tools, KeepMicro <- 1, KeepSnip <- 1,
    KeepHistory <- 1, PathThreshold <- 1, PairThreshold <- 1

VARIABLES
    messages,      \* Transcript._messages
    pc,            \* where the run is
    lastId,        \* uuids handed out so far
    extractCursor, \* _last_memory_message_uuid, 0 for None
    turnsSince,    \* _turns_since_last_extraction
    inProgress,    \* _extraction_in_progress
    foldCursor,    \* _session_memory_cursor, 0 for None
    memory,        \* _session_memory_state
    slot,          \* what /save stored: the transcript and the session memory
    \* history, read by the properties only:
    folded,        \* the messages the folds have read
    parted,        \* the messages of which a snip took a copy and left another
    request,       \* the uuid of the input of the current run
    wrote,         \* the current run called write_memory_entry
    hooksSince,    \* stop hooks run since the last successful extraction
    cut,           \* the last stop hook was interrupted in its gates or its extraction
    guarded        \* stop hooks in a row stopped by the re-entrancy guard since then

fields  == <<extractCursor, turnsSince, inProgress, foldCursor, memory, folded, parted>>
history == <<wrote, hooksSince, cut, guarded>>
vars    == <<messages, pc, lastId, fields, slot, request, history>>

\* A stop hook whose guard was set when it came is "held" at the gates.
Stages == {"idle", "run", "tools", "hooks", "gates", "held", "extracting", "fold"}
\* A session memory says for each of its sections which message it tells, 0 when it tells
\* none; an empty one has no content in any.
Cold == <<>>

Message(n)  == [id : 1..n, kind : Kinds,
                items : Seq([call : Nat, tool : Tools]) \cup Seq([call : Nat, body : Bodies])]
Memories(n) == {Cold} \cup [{"users", "calls", "results", "work"} -> 0..n]

TypeOK ==
    /\ messages \in Seq(Message(lastId)) /\ memory \in Memories(lastId)
    /\ folded \subseteq 1..lastId /\ parted \subseteq 1..lastId
    /\ slot \in [messages : Seq(Message(lastId)), memory : Memories(lastId),
                 folded : SUBSET (1..lastId)]
    /\ pc \in Stages /\ lastId \in 0..MaxIds
    /\ {extractCursor, foldCursor, request} \subseteq 0..lastId
    /\ turnsSince \in Nat /\ hooksSince \in Nat /\ guarded \in Nat
    /\ inProgress \in BOOLEAN /\ wrote \in BOOLEAN /\ cut \in BOOLEAN

Init ==
    /\ messages = <<>> /\ pc = "idle" /\ lastId = 0
    /\ extractCursor = 0 /\ turnsSince = 0 /\ inProgress = FALSE
    /\ foldCursor = 0 /\ memory = Cold /\ folded = {} /\ parted = {}
    /\ slot = [messages |-> <<>>, memory |-> Cold, folded |-> {}]
    /\ request = 0 /\ wrote = FALSE /\ hooksSince = 0 /\ cut = FALSE /\ guarded = 0

Takes(n) == lastId + n <= MaxIds /\ lastId' = lastId + n

-----------------------------------------------------------------------------
(* The run: what it appends to the transcript and takes from it. *)

UserInput ==
    /\ pc = "idle" /\ pc' = "run" /\ Takes(1)
    /\ messages' = Append(messages, UserText(lastId + 1))
    /\ request' = lastId + 1 /\ wrote' = FALSE
    /\ UNCHANGED <<fields, slot, hooksSince, cut, guarded>>

CallTool ==
    /\ pc = "run" /\ pc' = "tools" /\ Takes(1)
    /\ \E t \in Tools :
          /\ messages' = Append(messages,
                            ToolUse(lastId + 1, <<[call |-> lastId + 1, tool |-> t]>>))
          /\ wrote' = (wrote \/ t = "write_memory_entry")
    /\ UNCHANGED <<fields, slot, request, hooksSince, cut, guarded>>

ToolReturns ==
    /\ pc = "tools" /\ pc' = "run" /\ Takes(1)
    /\ messages' = Append(messages, ToolResults(lastId + 1, Replies(messages[Len(messages)].items)))
    /\ UNCHANGED <<fields, slot, request, history>>

CompactTranscript ==
    /\ pc = "run" /\ Takes(1)
    /\ messages' = Shrink!Compact(messages, lastId + 1)
    /\ UNCHANGED <<pc, fields, slot, request, history>>

WritesMemory(m) ==
    m.kind = "use" /\ \E j \in DOMAIN m.items : m.items[j].tool = "write_memory_entry"

\* An engine snip evicts cleared results and their calls, any copies of them, and puts a
\* boundary where the first was; what writes memory is never cleared, but once a
\* snip_history took its result it goes as an orphan.
Evict(S) ==
    LET kept == DOMAIN messages \ S
    IN  Pick(messages, {i \in kept : i < Min(S)}) \o <<SnipBoundary(lastId + 1)>>
        \o Pick(messages, {i \in kept : i > Min(S)})

EngineSnip ==
    /\ pc = "run" /\ Takes(1)
    /\ \E S \in SUBSET (OfKind(messages, "use") \cup OfKind(messages, "result")) :
          /\ S # {} /\ \A i \in S : messages[i].id < request \/ ~WritesMemory(messages[i])
          /\ messages' = Evict(S)
          /\ parted' = parted \cup ({messages[i].id : i \in S} \cap Ids(messages'))
    /\ UNCHANGED <<pc, extractCursor, turnsSince, inProgress, foldCursor, memory, folded, slot,
                   request, history>>

\* snip_history takes all copies of results of earlier runs.
SnipHistory ==
    /\ pc = "run"
    /\ \E us \in SUBSET {messages[i].id : i \in OfKind(messages, "result")} :
          /\ us # {} /\ \A u \in us : u < request
          /\ messages' = Shrink!SnipHistory(messages, us)
    /\ UNCHANGED <<pc, lastId, fields, slot, request, history>>

\* A run ends with a text, or with nothing new (max_steps, malformed).
EndRun ==
    /\ pc = "run" /\ pc' = "hooks"
    /\ \/ Takes(1) /\ messages' = Append(messages, AssistantText(lastId + 1))
       \/ UNCHANGED <<messages, lastId>>
    /\ UNCHANGED <<fields, slot, request, history>>

-----------------------------------------------------------------------------
(* Memory extraction *)

First(ms, u) == Min({i \in DOMAIN ms : ms[i].id = u})

\* Mutant: the scan covers what comes before the cursor, not after it.
WritesUpTo(ms, u) == u # 0 /\ \E i \in DOMAIN ms : WritesMemory(ms[i]) /\ i <= First(ms, u)

\* hasMemoryWritesSince: a uuid that is no longer there means no.
HasMemoryWritesSince(ms, u) ==
    \E i \in DOMAIN ms :
        WritesMemory(ms[i]) /\ (u = 0 \/ (u \in Ids(ms) /\ i > First(ms, u) /\ ms[i].id # u))

\* The flag is set whatever it was; what it was goes to the gates.
EnterHooks ==
    /\ pc = "hooks" /\ pc' = IF inProgress THEN "held" ELSE "gates"
    /\ inProgress' = TRUE
    /\ turnsSince' = turnsSince + 1 /\ hooksSince' = hooksSince + 1
    /\ UNCHANGED <<messages, lastId, extractCursor, foldCursor, memory, folded, parted,
                   slot, request, wrote, cut, guarded>>

\* Mutant: a hook that was held back puts the flag back.
GatesKeepingFlag ==
    /\ pc \in {"gates", "held"}
    /\ IF pc = "held" \/ HasMemoryWritesSince(messages, extractCursor) \/ turnsSince < Throttle
       THEN pc' = "fold" /\ inProgress' = (pc = "held")
       ELSE pc' = "extracting" /\ UNCHANGED inProgress
    /\ cut' = FALSE /\ guarded' = IF pc = "held" THEN guarded + 1 ELSE 0
    /\ UNCHANGED <<messages, lastId, extractCursor, turnsSince, foldCursor, memory, folded,
                   parted, slot, request, wrote, hooksSince>>

\* maybe_extract_memories up to gate 7.  A hook that stops at a gate clears the flag,
\* also when the flag is what it stopped at.
Gates ==
    /\ pc \in {"gates", "held"}
    /\ IF pc = "held" \/ HasMemoryWritesSince(messages, extractCursor) \/ turnsSince < Throttle
       THEN pc' = "fold" /\ inProgress' = FALSE
       ELSE pc' = "extracting" /\ UNCHANGED inProgress
    /\ cut' = FALSE /\ guarded' = IF pc = "held" THEN guarded + 1 ELSE 0
    /\ UNCHANGED <<messages, lastId, extractCursor, turnsSince, foldCursor, memory, folded,
                   parted, slot, request, wrote, hooksSince>>

\* Mutant: the cursor names the message that will come next.
ExtractedPastEnd ==
    /\ pc = "extracting" /\ pc' = "fold" /\ inProgress' = FALSE
    /\ extractCursor' = lastId + 1 /\ turnsSince' = 0
    /\ hooksSince' = 0
    /\ UNCHANGED <<messages, lastId, foldCursor, memory, folded, parted, slot, request,
                   wrote, cut, guarded>>

Extracted ==
    /\ pc = "extracting" /\ pc' = "fold" /\ inProgress' = FALSE
    /\ extractCursor' = messages[Len(messages)].id /\ turnsSince' = 0
    /\ hooksSince' = 0
    /\ UNCHANGED <<messages, lastId, foldCursor, memory, folded, parted, slot, request,
                   wrote, cut, guarded>>

\* Mutant: a failure restarts the throttle.
ExtractFailsResetting ==
    /\ pc = "extracting" /\ pc' = "fold" /\ inProgress' = FALSE /\ turnsSince' = 0
    /\ UNCHANGED <<messages, lastId, extractCursor, foldCursor, memory, folded, parted,
                   slot, request, history>>

\* The exception is swallowed; cursor and throttle stay as they are.
ExtractFails ==
    /\ pc = "extracting" /\ pc' = "fold" /\ inProgress' = FALSE
    /\ UNCHANGED <<messages, lastId, extractCursor, turnsSince, foldCursor, memory, folded, parted, slot,
                   request, history>>

-----------------------------------------------------------------------------
(* The session-memory fold *)

\* Mutant: a cursor that is gone leaves nothing to fold.
NothingSinceLost(ms, u) ==
    IF u = 0 THEN ms
    ELSE IF u \notin Ids(ms) THEN <<>> ELSE SubSeq(ms, First(ms, u) + 1, Len(ms))

\* _messages_since: a uuid that is no longer there means all of them.
MessagesSince(ms, u) ==
    IF u \in Ids(ms) THEN SubSeq(ms, First(ms, u) + 1, Len(ms)) ELSE ms

\* RuleBasedSummarizer: the messages that each section has a line of.
Summarize(ms) ==
    LET texts == OfKind(ms, "text")
    IN  [users |-> OfKind(ms, "user"), calls |-> OfKind(ms, "use"),
         results |-> OfKind(ms, "result"), work |-> IF texts = {} THEN {} ELSE {Max(texts)}]

\* _parse_sections takes a section to end with its first line.
ParseSections(ms, lines) ==
    [s \in DOMAIN lines |-> IF lines[s] = {} THEN 0 ELSE ms[Min(lines[s])].id]

\* Mutant: the fold sees what a payload shows.
UpdateFromView(state, new, blank) ==
    IF new = <<>> THEN state
    ELSE LET view == AfterCompactBoundary(new) IN ParseSections(view, Summarize(view))

\* update_session_memory: a section without content leaves what the previous memory said.
\* "(none)" is content, so that is the case only of a last answer that begins with a
\* blank line: the other sections are replaced.
UpdateSessionMemory(state, new, blank) ==
    IF new = <<>> THEN state
    ELSE LET parsed == ParseSections(new, Summarize(new))
             before == IF state = Cold THEN 0 ELSE state.work
         IN  IF blank /\ parsed.work # 0 THEN [parsed EXCEPT !.work = before] ELSE parsed

Fold ==
    /\ pc = "fold" /\ pc' = "idle"
    /\ LET new == MessagesSince(messages, foldCursor)
       IN  /\ \E blank \in BOOLEAN : memory' = UpdateSessionMemory(memory, new, blank)
           /\ IF new = <<>> THEN UNCHANGED <<foldCursor, folded>>
              ELSE /\ foldCursor' = new[Len(new)].id
                   /\ folded' = folded \cup Ids(new)
    /\ UNCHANGED <<messages, lastId, extractCursor, turnsSince, inProgress, parted, slot, request,
                   history>>

FoldFails ==
    /\ pc = "fold" /\ pc' = "idle"
    /\ UNCHANGED <<messages, lastId, fields, slot, request, history>>

-----------------------------------------------------------------------------
(* The REPL between and around runs *)

\* ^C: a hook in its gates or its extraction leaves the flag set, and the fold is not
\* reached.
Interrupt ==
    /\ pc # "idle" /\ pc' = "idle"
    /\ LET within == pc \in {"gates", "held", "extracting"}
       IN  cut' = (cut \/ within) /\ guarded' = IF within THEN 0 ELSE guarded
    /\ UNCHANGED <<messages, lastId, fields, slot, request, wrote, hooksSince>>

\* One save in the session (bound).
Save ==
    /\ pc = "idle" /\ slot.messages = <<>> /\ messages # <<>>
    /\ slot' = [messages |-> messages, memory |-> memory, folded |-> folded]
    /\ UNCHANGED <<messages, pc, lastId, fields, request, history>>

\* /load replaces the transcript and the session memory and drops the fold
\* cursor; the extraction cursor and throttle stay those of the old transcript.
Load ==
    /\ pc = "idle" /\ slot.messages # <<>>
    /\ messages' = slot.messages /\ memory' = slot.memory /\ folded' = slot.folded
    /\ foldCursor' = 0 /\ parted' = {}
    /\ UNCHANGED <<pc, lastId, extractCursor, turnsSince, inProgress, slot, request,
                   history>>

Next ==
    \/ UserInput \/ CallTool \/ ToolReturns \/ CompactTranscript \/ EngineSnip
    \/ SnipHistory \/ EndRun
    \/ EnterHooks \/ Gates \/ Extracted \/ ExtractFails \/ Fold \/ FoldFails
    \/ Interrupt \/ Save \/ Load

Spec == Init /\ [][Next]_vars

-----------------------------------------------------------------------------
(* Properties. *)

Attempts == pc = "gates" /\ pc' = "extracting"
Skips    == pc \in {"gates", "held"} /\ pc' = "fold"

\* While the agent writes no memory of its own, extraction runs at every
\* Throttle-th stop hook after the last success, is tried again at the next hook
\* when it failed, and is held back once after an interrupted stop hook.
ExtractionWhenDue ==
    [][(Attempts \/ Skips) /\ (\A i \in DOMAIN messages : ~WritesMemory(messages[i])) =>
          (Attempts <=> hooksSince >= Throttle /\ ~cut)]_vars

\* After a run that called write_memory_entry nothing is extracted, as long as
\* the extraction cursor points into the transcript (or was never set).
WriterIsNotSecondGuessed ==
    [][Attempts /\ wrote => extractCursor # 0 /\ extractCursor \notin Ids(messages)]_vars

\* A ^C within a stop hook, which may be one that the guard holds back already, makes
\* the re-entrancy guard stop one later extraction and no more.
GuardHeals == guarded <= 1

\* A fold that succeeds leaves no message of the transcript unread (a boundary says
\* nothing), although its cursor may have been copied, snipped away or reset.  Only the
\* calls and results of which a snip took some copies may have the others too far in front.
FoldMissesNothing ==
    [][Fold => \A i \in DOMAIN messages :
          messages[i].kind \notin {"boundary", "snip_boundary"}
              => messages[i].id \in folded' \cup parted]_vars

\* A session memory that is in use tells an input of the transcript, although each fold
\* replaces that section by what the messages since the cursor say: whatever compaction
\* copied, snips removed and /load put back, an input is among them.
WarmMemoryTellsInput ==
    memory # Cold => \E i \in OfKind(messages, "user") : messages[i].id = memory.users
=============================================================================
