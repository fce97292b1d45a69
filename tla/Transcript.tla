----------------------------- MODULE Transcript -----------------------------
(****************************************************************************)
(* The transcript as a value (transcript.py, models.py) and the payload     *)
(* that ContextBuilder.build makes of it (context.py).                      *)
(*                                                                          *)
(* A message is its uuid, its kind and the tool blocks it holds; a call is  *)
(* its tool_use_id and its tool (for a tool kept per path, with the path);  *)
(* a result is the tool_use_id it answers and what its content has become.  *)
(* Text, tokens and the prepended attachments are left out.                 *)
(****************************************************************************)
EXTENDS Naturals, Sequences, FiniteSets, FiniteSetsExt, SequencesExt

Kinds  == {"user", "text", "use", "result", "boundary", "snip_boundary"}
Bodies == {"full", "cleared", "snipped"}

UserText(u)          == [id |-> u, kind |-> "user", items |-> <<>>]
AssistantText(u)     == [id |-> u, kind |-> "text", items |-> <<>>]
Boundary(u)          == [id |-> u, kind |-> "boundary", items |-> <<>>]
SnipBoundary(u)      == [id |-> u, kind |-> "snip_boundary", items |-> <<>>]
\* Mutant: the message of the calls keeps the default type.
ToolUseAsText(u, calls) == [id |-> u, kind |-> "text", items |-> calls]

ToolUse(u, calls)    == [id |-> u, kind |-> "use", items |-> calls]
ToolResults(u, reps) == [id |-> u, kind |-> "result", items |-> reps]

\* The result message that answers a batch of calls, just executed.
Replies(calls) == [j \in DOMAIN calls |-> [call |-> calls[j].call, body |-> "full"]]

\* Of the places 1..n those of I in their order, and what a sequence has at them: a
\* comprehension with a condition.
Positions(n, I) ==
    LET upto[k \in 0..n] ==
            IF k = 0 THEN <<>> ELSE IF k \in I THEN Append(upto[k - 1], k) ELSE upto[k - 1]
    IN  upto[n]

Pick(s, I) == LET at == Positions(Len(s), I) IN [k \in DOMAIN at |-> s[at[k]]]

Ids(ms) == {ms[i].id : i \in DOMAIN ms}

OfKind(ms, kind) == {i \in DOMAIN ms : ms[i].kind = kind}

\* The places of the tool blocks, as <<message, item>>, and their order.
Places(ms, kind) == UNION {{<<i, j>> : j \in DOMAIN ms[i].items} : i \in OfKind(ms, kind)}
At(ms, p)        == ms[p[1]].items[p[2]]
Before(p, q)     == p[1] < q[1] \/ (p[1] = q[1] /\ p[2] < q[2])

CallIds(ms)   == {At(ms, p).call : p \in Places(ms, "use")}
ReplyIds(ms)  == {At(ms, p).call : p \in Places(ms, "result")}
ToolOf(ms, c) == At(ms, CHOOSE p \in Places(ms, "use") : At(ms, p).call = c).tool

-----------------------------------------------------------------------------
(* Slicing at the last compact boundary *)

LastCompactBoundary(ms) ==
    LET B == OfKind(ms, "boundary") IN IF B = {} THEN 0 ELSE Max(B)

\* Mutant: the scan goes forward and stops at the first boundary.
AfterFirstBoundary(ms) ==
    LET B == OfKind(ms, "boundary") IN IF B = {} THEN ms ELSE SubSeq(ms, Min(B), Len(ms))

\* messages_after_compact_boundary: the boundary itself included.
AfterCompactBoundary(ms) ==
    IF LastCompactBoundary(ms) = 0 THEN ms
    ELSE SubSeq(ms, LastCompactBoundary(ms), Len(ms))

-----------------------------------------------------------------------------
(* The payload *)

Role(m) == IF m.kind \in {"text", "use"} THEN "assistant" ELSE "user"

\* _normalize_messages drops both kinds of boundary and merges neighbours of one
\* role; here the messages stay apart and only Starts knows of the merging.
Normalize(ms) ==
    LET slice == AfterCompactBoundary(ms)
    IN  Pick(slice, {i \in DOMAIN slice : slice[i].kind \notin {"boundary", "snip_boundary"}})

\* The budget pops merged messages from the front, so the payload starts where
\* the role changes (or nothing is left).  How many are popped depends on sizes.
Starts(api) == {1, Len(api) + 1} \cup {k \in 2..Len(api) : Role(api[k]) # Role(api[k - 1])}

\* Mutant: the ids of the calls are collected before trimming.
KeepAllAnswered(api, k) ==
    LET seen == CallIds(api)
    IN  [i \in 1..(Len(api) + 1 - k) |->
            LET m == api[k + i - 1]
            IN  IF m.kind # "result" THEN m
                ELSE [m EXCEPT !.items = Pick(@, {j \in DOMAIN @ : @[j].call \in seen})]]

\* _remove_orphan_tool_results, on what is left from k on.
RemoveOrphanToolResults(api, k) ==
    LET kept     == SubSeq(api, k, Len(api))
        seen(i)  == CallIds(SubSeq(kept, 1, i))
    IN  [i \in DOMAIN kept |->
            IF kept[i].kind # "result" THEN kept[i]
            ELSE [kept[i] EXCEPT !.items = Pick(@, {j \in DOMAIN @ : @[j].call \in seen(i)})]]

\* Every payload build() may hand to the provider, by how much it had to trim.
Payloads(ms) ==
    LET api == Normalize(ms)
        sent(left) == Pick(left, {i \in DOMAIN left : left[i].kind = "result" => left[i].items # <<>>})
    IN  {sent(RemoveOrphanToolResults(api, k)) : k \in Starts(api)}

\* One message more: neighbours of the assistant are one message with all their calls
\* (_coalesce_same_role), and every result is a message of its own.
Convert(out, m) ==
    LET message(role, calls) == [role |-> role, calls |-> calls]
        calls == {m.items[j].call : j \in DOMAIN m.items}
    IN  IF m.kind = "user" THEN Append(out, message("user", {}))
        ELSE IF m.kind = "result"
        THEN out \o [j \in DOMAIN m.items |-> message("tool", {m.items[j].call})]
        ELSE IF out # <<>> /\ Last(out).role = "assistant"
        THEN [out EXCEPT ![Len(out)].calls = @ \cup calls]
        ELSE Append(out, message("assistant", calls))

\* _openai_messages, a recursive function because the proofs speak of it.
OpenAIMessages(api) ==
    LET upto[k \in 0..Len(api)] == IF k = 0 THEN <<>> ELSE Convert(upto[k - 1], api[k])
    IN  upto[Len(api)]
=============================================================================
