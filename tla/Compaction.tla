----------------------------- MODULE Compaction -----------------------------
(****************************************************************************)
(* The four ways a transcript shrinks, as functions from a transcript to    *)
(* the next: compaction and microcompaction (compact.py), the engine's snip *)
(* (snip.py) and the model's snip_history (snip_tool_model.py).  Sizes in   *)
(* tokens decide when each runs; they are left to the callers' choice.      *)
(* Per-path calls carry a path, and no two per-path tools share one.        *)
(****************************************************************************)
EXTENDS Transcript

CONSTANTS
    PerPath,        \* calls of KEEP_LATEST_PER_PATH tools, one for each path
    Global,         \* KEEP_LATEST_GLOBAL tools
    OtherTools,     \* tools that no shrinking touches
    KeepCompact,    \* ContextCompactor.keep_recent
    KeepMicro,      \* MicroCompactor.keep_recent
    KeepSnip,       \* SnipTool.keep_recent
    KeepHistory,    \* SNIP_KEEP_RECENT_DEFAULT
    PathThreshold,  \* _PATH_THRESHOLD
    PairThreshold   \* _TOTAL_PAIR_THRESHOLD

AllTools    == PerPath \cup Global \cup OtherTools
Compactable == PerPath \cup Global

ASSUME ToolSets ==
    PerPath \cap Global = {} /\ (PerPath \cup Global) \cap OtherTools = {}
ASSUME Quotas ==
    /\ KeepCompact \in Nat /\ KeepMicro \in Nat /\ KeepHistory \in Nat
    /\ KeepSnip \in Nat \ {0}
    /\ PathThreshold \in Nat \ {0} /\ PairThreshold \in Nat \ {0}

\* No tool message is without a tool block, and no other message has one.
Calls      == [call : Nat, tool : AllTools]
Results    == [call : Nat, body : Bodies]
Message(n) == [id : 1..n, kind : {"use"}, items : Seq(Calls) \ {<<>>}]
              \cup [id : 1..n, kind : {"result"}, items : Seq(Results) \ {<<>>}]
              \cup [id : 1..n, kind : Kinds \ {"use", "result"}, items : {<<>>}]

\* The results whose call the transcript still has, with a tool of the set.
RepliesOf(ms, tools) ==
    {p \in Places(ms, "result") :
        At(ms, p).call \in CallIds(ms) /\ ToolOf(ms, At(ms, p).call) \in tools}

Rewrite(ms, places, body) ==
    [i \in DOMAIN ms |->
        [ms[i] EXCEPT !.items =
            [j \in DOMAIN @ |-> IF <<i, j>> \in places THEN [@[j] EXCEPT !.body = body] ELSE @[j]]]]

-----------------------------------------------------------------------------
(* ContextCompactor.compact: what is kept is appended again, after the new   *)
(* boundary, and what was there stays where it is.                           *)

\* Mutant: keep_recent messages are summarized and the rest is kept.
SplitFromFront(slice) == IF Len(slice) > KeepCompact THEN KeepCompact ELSE 0

SplitAt(slice) == IF Len(slice) > KeepCompact THEN Len(slice) - KeepCompact ELSE 0

Summarized(ms) ==
    LET slice == AfterCompactBoundary(ms) IN SubSeq(slice, 1, SplitAt(slice))

Compact(ms, u) ==
    LET slice == AfterCompactBoundary(ms)
    IN  ms \o <<Boundary(u)>> \o SubSeq(slice, SplitAt(slice) + 1, Len(slice))

-----------------------------------------------------------------------------
(* MicroCompactor.microcompact: all but the newest compactable results are   *)
(* cleared, over the whole transcript.                                       *)

RecentCompactable(ms) ==
    LET C == RepliesOf(ms, Compactable)
    IN  {p \in C : Cardinality({q \in C : Before(p, q)}) < KeepMicro}

Microcompact(ms) ==
    Rewrite(ms, RepliesOf(ms, Compactable) \ RecentCompactable(ms), "cleared")

-----------------------------------------------------------------------------
(* SnipTool *)

\* should_snip, but for the tokens of cleared results.
SnipByCount(ms) ==
    \/ \E t \in PerPath :
          Cardinality({p \in Places(ms, "use") : At(ms, p).tool = t}) >= PathThreshold
    \/ Cardinality(RepliesOf(ms, Compactable)) >= PairThreshold

\* Mutant: the scan goes forward and keeps the oldest result of each path.
PositionsKeepingOldest(ms) ==
    LET Live(t) == {p \in RepliesOf(ms, {t}) : At(ms, p).body = "full"}
    IN  UNION {{p \in Live(t) : \E q \in Live(t) : Before(q, p)} : t \in PerPath}

\* _positions_to_snip: of the results still in full, the newest of each path and
\* the KeepSnip newest of each global tool are kept.
PositionsToSnip(ms) ==
    LET Live(t)  == {p \in RepliesOf(ms, {t}) : At(ms, p).body = "full"}
        Newer(p, t) == {q \in Live(t) : Before(p, q)}
    IN  (UNION {{p \in Live(t) : Newer(p, t) # {}} : t \in PerPath})
        \cup (UNION {{p \in Live(t) : Cardinality(Newer(p, t)) >= KeepSnip} : t \in Global})

Orphans(ms) ==
    {p \in Places(ms, "use") : At(ms, p).call \notin ReplyIds(ms)}
    \cup {p \in Places(ms, "result") : At(ms, p).call \notin CallIds(ms)}

\* The messages with a cleared result that has a call, oldest first.
ClearedPairs(ms) ==
    {p \in Places(ms, "result") : At(ms, p).body = "cleared" /\ At(ms, p).call \in CallIds(ms)}

ClearedMessages(ms) == {p[1] : p \in ClearedPairs(ms)}

\* use_positions: the last place of each call.
LastUse(ms, c) ==
    CHOOSE p \in Places(ms, "use") :
        At(ms, p).call = c /\ \A q \in Places(ms, "use") : At(ms, q).call = c => ~Before(p, q)

\* The pairs of the n oldest such messages, each result with the LAST use of its id.
AncientPairs(ms, n) ==
    LET old == {i \in ClearedMessages(ms) :
                   Cardinality({k \in ClearedMessages(ms) : k < i}) < n}
        gone == {p \in ClearedPairs(ms) : p[1] \in old}
    IN  gone \cup {LastUse(ms, At(ms, p).call) : p \in gone}

\* Remove the places; a message they empty goes too, and a snip boundary marks
\* where the first of them was.
DeletePlaces(ms, places, u) ==
    LET left(i) == {j \in DOMAIN ms[i].items : <<i, j>> \notin places}
        kept    == {i \in DOMAIN ms : ms[i].items = <<>> \/ left(i) # {}}
        thin    == [i \in DOMAIN ms |-> [ms[i] EXCEPT !.items = Pick(@, left(i))]]
        first   == Min({p[1] : p \in places})
    IN  IF places = {} THEN ms
        ELSE Pick(thin, {i \in kept : i < first}) \o <<SnipBoundary(u)>>
             \o Pick(thin, {i \in kept : i >= first})

Snip(ms, n, u) ==
    DeletePlaces(Rewrite(ms, PositionsToSnip(ms), "snipped"),
                 Orphans(ms) \cup AncientPairs(ms, n), u)

-----------------------------------------------------------------------------
(* snip_history *)

SnippableResults(ms) == {i \in OfKind(ms, "result") : ms[i].items # <<>>}

LatestUserText(ms) == LET U == OfKind(ms, "user") IN IF U = {} THEN 0 ELSE Max(U)

\* The uuids at the last KeepHistory places, which copies of one message share.
ProtectedIds(ms) ==
    LET S == SnippableResults(ms)
    IN  {ms[i].id : i \in {i \in S : Cardinality({k \in S : k > i}) < KeepHistory}}

\* by_uuid maps a uuid to the last of its copies.
LastCopy(ms, u) == Max({i \in DOMAIN ms : ms[i].id = u})

\* Mutant: the first copy decides whether a message is of the current turn.
AcceptsByFirstCopy(ms, us) ==
    /\ us # {} /\ us \subseteq Ids(ms)
    /\ \A u \in us :
          /\ LastCopy(ms, u) \in SnippableResults(ms)
          /\ LatestUserText(ms) > 0 =>
                Min({i \in DOMAIN ms : ms[i].id = u}) <= LatestUserText(ms)
          /\ u \notin ProtectedIds(ms)

\* evaluate_snip_request: all of the request or none of it.
Accepts(ms, us) ==
    /\ us # {} /\ us \subseteq Ids(ms)
    /\ \A u \in us :
          /\ LastCopy(ms, u) \in SnippableResults(ms)
          /\ LatestUserText(ms) > 0 => LastCopy(ms, u) <= LatestUserText(ms)
          /\ u \notin ProtectedIds(ms)

\* The filter takes every copy, and leaves the calls the results answered.
SnipHistory(ms, us) == Pick(ms, {i \in DOMAIN ms : ms[i].id \notin us})
=============================================================================
