---------------------------- MODULE Conversation ----------------------------
(****************************************************************************)
(* What the transcript holds while AgentLoop (loop.py) runs: the messages   *)
(* each step appends, and the four ways they shrink (Compaction.tla).  The  *)
(* control is that of AgentLoop.tla, with the fields that do not touch the  *)
(* transcript left out.  Whether the budget is exceeded, how long the user  *)
(* was away and how large the cleared results are is the world's choice.    *)
(****************************************************************************)
EXTENDS Compaction

CONSTANTS
    MaxCalls,  \* calls in one response (bound)
    MaxIds     \* uuids handed out in the session (bound)

ASSUME Bounds == MaxCalls \in Nat \ {0} /\ MaxIds \in Nat

VARIABLES
    messages,      \* Transcript._messages
    pc,            \* where the run is
    done,          \* calls of the current batch executed so far
    snipAttempted, \* _snip_attempted_this_turn
    microAgainst,  \* _microcompacted_against_assistant_uuid, 0 for None
    reactive,      \* reactive_compact_attempted
    lastId,        \* uuids handed out so far
    request        \* the uuid of the input of the current run (history)

vars == <<messages, pc, done, snipAttempted, microAgainst, reactive, lastId, request>>

Stages == {"idle", "micro", "snip", "compact", "call", "tools"}

TypeOK ==
    /\ messages \in Seq(Message(lastId))
    /\ pc \in Stages /\ done \in Nat
    /\ snipAttempted \in BOOLEAN /\ reactive \in BOOLEAN
    /\ lastId \in 0..MaxIds /\ microAgainst \in 0..lastId /\ request \in 0..lastId

Init ==
    /\ messages = <<>> /\ pc = "idle" /\ done = 0
    /\ snipAttempted = FALSE /\ reactive = FALSE /\ microAgainst = 0
    /\ lastId = 0 /\ request = 0

\* The next n uuids are taken; a boundary that is not inserted wastes its one.
Takes(n) == lastId + n <= MaxIds /\ lastId' = lastId + n

UserInput ==
    /\ pc = "idle" /\ pc' = "micro" /\ Takes(1)
    /\ messages' = Append(messages, UserText(lastId + 1)) /\ request' = lastId + 1
    /\ snipAttempted' = FALSE /\ reactive' = FALSE
    /\ UNCHANGED <<done, microAgainst>>

-----------------------------------------------------------------------------
(* The top of a turn *)

LatestAssistant ==
    LET A == {i \in DOMAIN messages : Role(messages[i]) = "assistant"}
    IN  IF A = {} THEN 0 ELSE messages[Max(A)].id

\* _maybe_microcompact: at most once against one assistant message, and when
\* that message is an hour old (with no assistant message there is none to ask).
MaybeMicrocompact ==
    /\ pc = "micro" /\ pc' = "snip"
    /\ \/ UNCHANGED <<messages, microAgainst>> /\ LatestAssistant # 0
       \/ /\ LatestAssistant = 0 \/ LatestAssistant # microAgainst
          /\ messages' = Microcompact(messages)
          /\ microAgainst' = LatestAssistant
    /\ UNCHANGED <<done, snipAttempted, reactive, lastId, request>>

\* Cleared results reach the token threshold: the n oldest are evicted, or there
\* is none that still has its call.
EnoughCleared(n) ==
    IF ClearedMessages(messages) # {} THEN n > 0
    ELSE \E p \in Places(messages, "result") : At(messages, p).body = "cleared"

\* _maybe_snip, once per user input.
MaybeSnip ==
    /\ pc = "snip" /\ pc' = "compact"
    /\ \/ /\ snipAttempted \/ ~SnipByCount(messages)
          /\ UNCHANGED <<messages, snipAttempted, lastId>>
       \/ /\ ~snipAttempted /\ snipAttempted' = TRUE
          /\ \E n \in 0..Cardinality(ClearedMessages(messages)) :
                /\ SnipByCount(messages) \/ EnoughCleared(n)
                /\ messages' = Snip(messages, n, lastId + 1)
          /\ Takes(1)
    /\ UNCHANGED <<done, microAgainst, reactive, request>>

\* _maybe_compact
MaybeCompact ==
    /\ pc = "compact" /\ pc' = "call"
    /\ \/ UNCHANGED <<messages, lastId>>
       \/ messages' = Compact(messages, lastId + 1) /\ Takes(1)
    /\ UNCHANGED <<done, snipAttempted, microAgainst, reactive, request>>

-----------------------------------------------------------------------------
(* The provider's answer *)

\* The one retry of a prompt-too-long.
ReactiveCompact ==
    /\ pc = "call" /\ ~reactive /\ reactive' = TRUE
    /\ messages' = Compact(messages, lastId + 1) /\ Takes(1)
    /\ UNCHANGED <<pc, done, snipAttempted, microAgainst, request>>

AnswerText ==
    /\ pc = "call" /\ pc' = "idle" /\ Takes(1)
    /\ messages' = Append(messages, AssistantText(lastId + 1))
    /\ UNCHANGED <<done, snipAttempted, microAgainst, reactive, request>>

\* Nothing to append: a malformed answer, or the output limit without a text.
AnswerNothing ==
    /\ pc = "call" /\ pc' = "idle"
    /\ UNCHANGED <<messages, done, snipAttempted, microAgainst, reactive, lastId, request>>

\* The tool_use message, after the text that came with it if any; its calls take
\* the ids that follow.
AnswerTools ==
    /\ pc = "call" /\ pc' = "tools" /\ done' = 0
    /\ \E n \in 1..MaxCalls, text \in {0, 1} :
          /\ Takes(text + 1 + n)
          /\ \E tools \in [1..n -> AllTools] :
                messages' =
                    messages
                    \o (IF text = 1 THEN <<AssistantText(lastId + 1)>> ELSE <<>>)
                    \o <<ToolUse(lastId + text + 1,
                            [j \in 1..n |-> [call |-> lastId + text + 1 + j, tool |-> tools[j]]])>>
    /\ UNCHANGED <<snipAttempted, microAgainst, reactive, request>>

-----------------------------------------------------------------------------
(* _handle_tool_calls *)

\* Executing tools never moves the tool_use message away from the end.
Batch == messages[Len(messages)].items

\* snip_history rewrites the transcript in the middle of its batch; refused, it
\* is a call like any other.
ExecuteSnip ==
    /\ pc = "tools" /\ done < Len(Batch) /\ Batch[done + 1].tool = "snip_history"
    /\ \E us \in kSubset(1, Ids(messages)) \cup kSubset(2, Ids(messages)) :
          /\ Accepts(messages, us)
          /\ messages' = SnipHistory(messages, us)
    /\ done' = done + 1
    /\ UNCHANGED <<pc, snipAttempted, microAgainst, reactive, lastId, request>>

ExecuteOther ==
    /\ pc = "tools" /\ done < Len(Batch) /\ done' = done + 1
    /\ UNCHANGED <<messages, pc, snipAttempted, microAgainst, reactive, lastId, request>>

\* The run goes on, or has taken its last turn.
EndBatch ==
    /\ pc = "tools" /\ done = Len(Batch) /\ done' = 0
    /\ pc' \in {"micro", "idle"} /\ Takes(1)
    /\ messages' = Append(messages, ToolResults(lastId + 1, Replies(Batch)))
    /\ UNCHANGED <<snipAttempted, microAgainst, reactive, request>>

\* ^C: what has been appended stays.
Interrupt ==
    /\ pc # "idle" /\ pc' = "idle" /\ done' = 0
    /\ UNCHANGED <<messages, snipAttempted, microAgainst, reactive, lastId, request>>

Next ==
    \/ UserInput \/ MaybeMicrocompact \/ MaybeSnip \/ MaybeCompact
    \/ ReactiveCompact \/ AnswerText \/ AnswerNothing \/ AnswerTools
    \/ ExecuteSnip \/ ExecuteOther \/ EndBatch \/ Interrupt

Spec == Init /\ [][Next]_vars

-----------------------------------------------------------------------------
(* Properties. *)

\* No message reaches the model twice: a compaction leaves copies of what it
\* keeps on both sides of its boundary, and the payload takes one side.
NoMessageTwice ==
    pc = "call" =>
        \A P \in Payloads(messages) : \A i, j \in DOMAIN P : P[i].id = P[j].id => i = j

\* The API accepts the message of a result only behind the assistant's message with its
\* call, other results apart.  Every request obeys this whatever was trimmed, snipped,
\* compacted or interrupted.
ResultsAnswerTheirCalls ==
    pc = "call" =>
        \A P \in Payloads(messages) :
            LET sent == OpenAIMessages(P)
            IN  \A i \in DOMAIN sent : sent[i].role = "tool" =>
                    \E k \in 1..(i - 1) :
                        /\ sent[k].role = "assistant" /\ sent[i].calls \subseteq sent[k].calls
                        /\ \A l \in (k + 1)..(i - 1) : sent[l].role = "tool"

\* When a batch has just run, its newest result reaches the model in full: no
\* cleaning at the top of the next turn, nor a retry, takes it back.
LatestResultReachesModel ==
    pc = "call" /\ messages # <<>> /\ messages[Len(messages)].kind = "result" =>
        LET P == RemoveOrphanToolResults(Normalize(messages), 1)
            m == P[Len(P)]
        IN  /\ m.id = messages[Len(messages)].id
            /\ m.items # <<>> /\ m.items[Len(m.items)].body = "full"

\* snip_history never removes a message of the current turn, however many copies
\* a compaction made of it.
SnipHistorySparesTurn ==
    [][pc = "tools" => \A i \in DOMAIN messages :
                           messages[i].id >= request => messages[i].id \in Ids(messages')]_vars

NewestFull(ms, t) ==
    {p \in RepliesOf(ms, {t}) :
        /\ At(ms, p).body = "full"
        /\ \A q \in RepliesOf(ms, {t}) : At(ms, q).body = "full" => ~Before(p, q)}

\* An engine snip never folds the newest full result of a path.
SnipKeepsNewest ==
    [][pc = "snip" => \A t \in PerPath : \A p \in NewestFull(messages, t) :
          \E q \in Places(messages', "result") : At(messages', q) = At(messages, p)]_vars

\* Deleting "paired microcompact-cleared (tool_use, tool_result) blocks" takes
\* nothing else from the model: a full result that would have been in the payload
\* and is the newest of its path is there after the snip.  It is not: the call
\* deleted with a cleared copy is the one its full copy answers.
SnipOnlyEvictsCleared ==
    [][pc = "snip" => \A t \in PerPath : \A p \in NewestFull(messages, t) :
          At(messages, p).call \in ReplyIds(RemoveOrphanToolResults(Normalize(messages), 1))
          => At(messages, p).call \in ReplyIds(RemoveOrphanToolResults(Normalize(messages'), 1))]_vars

\* "The engine still guarantees API-validity GC": a payload never has a tool_use
\* without its tool_result.
CallsAreAnswered ==
    pc = "call" =>
        LET P == RemoveOrphanToolResults(Normalize(messages), 1)
        IN  CallIds(P) \subseteq ReplyIds(P)
=============================================================================
