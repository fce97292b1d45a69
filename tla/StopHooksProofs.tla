-------------------------- MODULE StopHooksProofs --------------------------
(****************************************************************************)
(* Proofs about StopHooks, for every throttle, every keep_recent and every  *)
(* number of messages: the extraction hook's flag and throttle, and what    *)
(* both cursors are worth whatever compaction, snips, ^C and /load make of  *)
(* the transcript.                                                          *)
(****************************************************************************)
EXTENDS StopHooks, TranscriptProofs

-----------------------------------------------------------------------------
(* The flag and the throttle *)

CountersOK ==
    /\ pc \in Stages /\ turnsSince \in Nat /\ hooksSince \in Nat /\ guarded \in Nat
    /\ inProgress \in BOOLEAN /\ cut \in BOOLEAN

\* The flag is set within a stop hook and after one that was cut, and at no other time;
\* it holds back only the hook after one that was cut, and that one clears it.
FlagInv ==
    /\ inProgress = TRUE <=> pc \in {"gates", "held", "extracting"} \/ cut = TRUE
    /\ pc \in {"gates", "extracting"} => cut = FALSE
    /\ pc = "held" => cut = TRUE
    /\ guarded <= 1 /\ (cut = TRUE => guarded = 0)

\* The throttle counts the stop hooks since the last success.
ThrottleInv == turnsSince = hooksSince

HookInv == CountersOK /\ FlagInv /\ ThrottleInv

LEMMA HookInvInit == Init => HookInv
<1> SUFFICES ASSUME Init PROVE HookInv
    OBVIOUS
<1>1. /\ turnsSince = hooksSince /\ turnsSince \in Nat /\ hooksSince \in Nat
      /\ guarded \in Nat /\ guarded <= 1 /\ guarded = 0
      BY DEF Init
<1>2. pc \in Stages /\ pc = "idle" /\ inProgress = FALSE /\ cut = FALSE
      BY DEF Init, Stages
<1>. QED
     BY <1>1, <1>2, Zenon DEF HookInv, CountersOK, ThrottleInv, FlagInv

LEMMA HookInvInductive == HookInv /\ [Next]_vars => HookInv'
<1> SUFFICES ASSUME HookInv, [Next]_vars PROVE HookInv'
    OBVIOUS
<1> USE DEF HookInv, CountersOK, FlagInv, ThrottleInv, Stages, fields, history
<1>1. CASE UserInput \/ CallTool \/ ToolReturns \/ EndRun
      BY <1>1 DEF UserInput, CallTool, ToolReturns, EndRun
<1>2. CASE CompactTranscript \/ EngineSnip \/ SnipHistory
      BY <1>2 DEF CompactTranscript, EngineSnip, SnipHistory
<1>3. CASE EnterHooks
  <2>1. /\ pc = "hooks" /\ inProgress' = TRUE /\ cut' = cut /\ guarded' = guarded
        /\ turnsSince' = turnsSince + 1 /\ hooksSince' = hooksSince + 1
        BY <1>3 DEF EnterHooks
  <2>2. \/ pc' = "held" /\ cut = TRUE
        \/ pc' = "gates" /\ cut = FALSE
        BY <1>3 DEF EnterHooks
  <2>. QED
       BY <2>1, <2>2
<1>4. CASE Gates
  <2>1. /\ cut' = FALSE /\ turnsSince' = hooksSince'
        /\ turnsSince' \in Nat /\ hooksSince' \in Nat
        BY <1>4 DEF Gates
  <2>2. \/ pc' = "fold" /\ inProgress' = FALSE
        \/ pc' = "extracting" /\ inProgress' = TRUE
        BY <1>4 DEF Gates
  <2>3. guarded' \in Nat /\ guarded' <= 1
        BY <1>4 DEF Gates
  <2>4. CASE pc' = "fold" /\ inProgress' = FALSE
        BY <2>1, <2>3, <2>4, Zenon
  <2>5. CASE pc' = "extracting" /\ inProgress' = TRUE
        BY <2>1, <2>3, <2>5, Zenon
  <2>. QED
       BY <2>2, <2>4, <2>5
<1>5. CASE Extracted \/ ExtractFails
  <2>1. pc = "extracting" /\ pc' = "fold" /\ inProgress' = FALSE /\ cut' = cut /\ guarded' = guarded
        BY <1>5 DEF Extracted, ExtractFails
  <2>2. turnsSince' = hooksSince' /\ turnsSince' \in Nat /\ hooksSince' \in Nat
        BY <1>5 DEF Extracted, ExtractFails
  <2>3. cut = FALSE /\ guarded \in Nat /\ guarded <= 1
        BY <2>1
  <2>. QED
       BY <2>1, <2>2, <2>3, Zenon
<1>6. CASE Fold \/ FoldFails
      BY <1>6 DEF Fold, FoldFails
<1>7. CASE Interrupt
      BY <1>7 DEF Interrupt
<1>8. CASE Save \/ Load
      BY <1>8 DEF Save, Load
<1>9. CASE UNCHANGED vars
      BY <1>9 DEF vars
<1>. QED
     BY <1>1, <1>2, <1>3, <1>4, <1>5, <1>6, <1>7, <1>8, <1>9 DEF Next

LEMMA HookInvHolds == Spec => []HookInv
BY HookInvInit, HookInvInductive, PTL DEF Spec

\* The flag an interrupted stop hook leaves set stops one hook: the hook that finds it
\* set clears it, if it is not interrupted itself.
THEOREM GuardIsReleased == Spec => []GuardHeals
<1>1. HookInv => GuardHeals
      BY DEF HookInv, FlagInv, GuardHeals
<1>. QED
     BY <1>1, HookInvHolds, PTL

\* A hook decides by the throttle and the flag alone as long as the agent writes no
\* memory itself: the two say "due" and "not cut" of the history.
LEMMA HookDecides ==
    ASSUME HookInv, Gates, \A i \in DOMAIN messages : ~WritesMemory(messages[i])
    PROVE  Attempts <=> hooksSince >= Throttle /\ ~cut
<1>1. ~HasMemoryWritesSince(messages, extractCursor)
      BY DEF HasMemoryWritesSince
<1>2. pc = "held" <=> cut
      BY DEF HookInv, FlagInv, Gates
<1>3. turnsSince = hooksSince /\ hooksSince \in Nat
      BY DEF HookInv, ThrottleInv, CountersOK
<1>. QED
     BY <1>1, <1>2, <1>3, Parameters DEF Gates, Attempts

\* Extraction runs at every Throttle-th stop hook after the last success, is tried
\* again at the next hook when it failed, and is held back once after a hook that was
\* interrupted: for every throttle and transcript.
THEOREM ExtractionRunsWhenDue == Spec => ExtractionWhenDue
<1> DEFINE A == (Attempts \/ Skips) /\ (\A i \in DOMAIN messages : ~WritesMemory(messages[i]))
                   => (Attempts <=> hooksSince >= Throttle /\ ~cut)
<1>1. HookInv /\ [Next]_vars => [A]_vars
  <2> SUFFICES ASSUME HookInv, Next, Attempts \/ Skips,
                      \A i \in DOMAIN messages : ~WritesMemory(messages[i])
               PROVE  Attempts <=> hooksSince >= Throttle /\ ~cut
      OBVIOUS
  <2>1. pc \in {"gates", "held"} /\ pc' \in {"extracting", "fold"}
        BY DEF Attempts, Skips
  <2>2. ~(UserInput \/ CallTool \/ ToolReturns \/ CompactTranscript \/ EngineSnip
          \/ SnipHistory \/ EndRun)
        BY <2>1 DEF UserInput, CallTool, ToolReturns, CompactTranscript, EngineSnip, SnipHistory,
                    EndRun
  <2>3. ~(EnterHooks \/ Extracted \/ ExtractFails \/ Fold \/ FoldFails \/ Interrupt \/ Save \/ Load)
        BY <2>1 DEF EnterHooks, Extracted, ExtractFails, Fold, FoldFails, Interrupt, Save, Load
  <2>4. Gates
        BY <2>2, <2>3 DEF Next
  <2>. QED
       BY <2>4, HookDecides
<1>. QED
     BY <1>1, HookInvHolds, PTL DEF Spec, ExtractionWhenDue

-----------------------------------------------------------------------------
(* The transcript that the cursors point into *)

\* A uuid is one message, copies included.
OneForm(ms) == \A i, k \in 1..Len(ms) : ms[i].id = ms[k].id => ms[i] = ms[k]

\* Behind every message with an id of Y there is a copy of every message of X.
Trails(ms, X, Y) ==
    \A i, k \in 1..Len(ms) : ms[i] \in X /\ ms[k].id \in Y
        => \E j \in 1..Len(ms) : k < j /\ ms[j] = ms[i]

\* What is not read yet; the input and the memory writes of the run.
Unread(read) ==
    {m \in Message(MaxIds) : m.kind \notin {"boundary", "snip_boundary"} /\ m.id \notin read}
Own(req) == {m \in Message(MaxIds) : m.id >= req /\ (m.kind = "user" \/ WritesMemory(m))}

\* A session memory that is in use tells an input.
Tells(ms, state) ==
    state # Cold => \E i \in 1..Len(ms) : ms[i].kind = "user" /\ ms[i].id = state.users

\* While a run goes on its input is there, behind all that was there before it, and so
\* is what it writes to memory.
Running ==
    /\ \E i \in 1..Len(messages) : messages[i].kind = "user" /\ messages[i].id = request
    /\ Trails(messages, Own(request), 1..(request - 1))
    /\ foldCursor < request
    /\ pc # "fold" => extractCursor < request
    /\ pc \in {"run", "tools", "hooks", "gates"} /\ wrote
          => \E i \in 1..Len(messages) : WritesMemory(messages[i]) /\ messages[i].id >= request

CursorInv ==
    /\ OneForm(messages) /\ OneForm(slot.messages)
    /\ Tells(messages, memory) /\ Tells(slot.messages, slot.memory)
    /\ Trails(messages, Unread(folded \cup parted), {foldCursor})
    /\ pc # "idle" => Running
    /\ pc = "tools" => /\ messages # <<>>
                       /\ messages[Len(messages)].items \in Seq([call : Nat, tool : Tools])

LEMMA MessagesGrow ==
    ASSUME NEW n \in Nat, NEW m \in Nat, n <= m
    PROVE  Message(n) \subseteq Message(m) /\ Seq(Message(n)) \subseteq Seq(Message(m))
<1>1. Message(n) \subseteq Message(m)
  <2>. SUFFICES ASSUME NEW x \in Message(n) PROVE x \in Message(m)
       OBVIOUS
  <2>. QED
       BY DEF Message
<1>. QED
     BY <1>1, SeqMonotonic

\* r has the messages of ms at the places of K, and perhaps x.
Evolves(r, ms, x, K) ==
    /\ Len(r) \in Nat /\ DOMAIN r = 1..Len(r)
    /\ \A k \in 1..Len(r) : r[k] = x \/ \E i \in K : r[k] = ms[i]
    /\ \A i \in K : \E k \in 1..Len(r) : r[k] = ms[i]

LEMMA EvolvesOneForm ==
    ASSUME NEW r, NEW ms, NEW x, NEW K \in SUBSET (1..Len(ms)), Evolves(r, ms, x, K),
           OneForm(ms), \A i \in 1..Len(ms) : ms[i].id # x.id
    PROVE  OneForm(r)
<1>. SUFFICES ASSUME NEW a \in 1..Len(r), NEW b \in 1..Len(r), r[a].id = r[b].id
              PROVE  r[a] = r[b]
     BY DEF OneForm
<1>1. /\ r[a] = x \/ \E i \in 1..Len(ms) : r[a] = ms[i]
      /\ r[b] = x \/ \E i \in 1..Len(ms) : r[b] = ms[i]
      BY DEF Evolves
<1>. QED
     BY <1>1 DEF OneForm

\* A message of K is still there.
LEMMA EvolvesHas ==
    ASSUME NEW r, NEW ms, NEW x, NEW K, Evolves(r, ms, x, K), NEW i \in K
    PROVE  \E k \in 1..Len(r) : r[k] = ms[i]
BY DEF Evolves

LEMMA AppendEvolves ==
    ASSUME NEW T, NEW ms \in Seq(T), NEW m \in T
    PROVE  LET r == Append(ms, m)
           IN  /\ r \in Seq(T) /\ Len(r) = Len(ms) + 1
               /\ \A i \in 1..Len(ms) : r[i] = ms[i]
               /\ r[Len(ms) + 1] = m
               /\ Evolves(r, ms, m, 1..Len(ms))
<1> DEFINE r == Append(ms, m)
<1>1. /\ r \in Seq(T) /\ Len(r) = Len(ms) + 1 /\ Len(ms) \in Nat
      /\ \A i \in 1..Len(ms) : r[i] = ms[i]
      /\ r[Len(ms) + 1] = m
      BY AppendProperties
<1>. HIDE DEF r
<1>2. \A k \in 1..Len(r) : k \in 1..Len(ms) \/ k = Len(ms) + 1
      BY <1>1
<1>3. DOMAIN r = 1..Len(r)
      BY <1>1
<1>4. Evolves(r, ms, m, 1..Len(ms))
      BY <1>1, <1>2, <1>3 DEF Evolves
<1>. QED
     BY <1>1, <1>4 DEF r

LEMMA CompactEvolves ==
    ASSUME NEW S, NEW ms \in Seq(S), NEW u, NEW r, NEW d, Compacted(r, ms, u, d),
           DOMAIN r = 1..Len(r)
    PROVE  Evolves(r, ms, Boundary(u), 1..Len(ms))
<1>1. Len(ms) \in Nat /\ d \in Nat /\ d >= 1 /\ d <= Len(ms) + 1 /\ Len(r) = Len(ms) + d
      BY DEF Compacted
<1>2. ASSUME NEW k \in 1..Len(r)
      PROVE  r[k] = Boundary(u) \/ \E i \in 1..Len(ms) : r[k] = ms[i]
  <2>1. CASE k \in 1..Len(ms)
        BY <2>1 DEF Compacted
  <2>2. CASE k = Len(ms) + 1
        BY <2>2 DEF Compacted
  <2>3. CASE k > Len(ms) + 1
    <3>1. k \in (Len(ms) + 2)..(Len(ms) + d) /\ k - d \in 1..Len(ms)
          BY <1>1, <2>3
    <3>. QED
         BY <3>1 DEF Compacted
  <2>. QED
       BY <1>1, <2>1, <2>2, <2>3
<1>3. \A i \in 1..Len(ms) : i \in 1..Len(r) /\ r[i] = ms[i]
      BY <1>1 DEF Compacted
<1>. QED
     BY <1>1, <1>2, <1>3 DEF Evolves

LEMMA SpliceEvolves ==
    ASSUME NEW r, NEW ms, NEW x, NEW K, NEW g, Spliced(r, ms, K, x, g), 0 \notin K
    PROVE  Evolves(r, ms, x, K)
<1>1. \A k \in 1..Len(r) : r[k] = x \/ \E i \in K : r[k] = ms[i]
      BY DEF Spliced
<1>2. ASSUME NEW i \in K PROVE \E k \in 1..Len(r) : r[k] = ms[i]
  <2>1. PICK k \in 1..Len(r) : g[k] = i
        BY DEF Spliced
  <2>. QED
       BY <2>1 DEF Spliced
<1>. QED
     BY <1>1, <1>2 DEF Spliced, Evolves

-----------------------------------------------------------------------------
(* What a growing or shrinking transcript does to what trails *)

LEMMA AppendTrails ==
    ASSUME NEW T, NEW ms \in Seq(T), NEW m \in T, NEW X, NEW Y, Trails(ms, X, Y), m.id \notin Y
    PROVE  Trails(Append(ms, m), X, Y)
<1> DEFINE r == Append(ms, m)
<1>1. /\ Len(r) = Len(ms) + 1 /\ Len(ms) \in Nat
      /\ \A i \in 1..Len(ms) : r[i] = ms[i]
      /\ r[Len(ms) + 1] = m
      BY AppendEvolves
<1>. HIDE DEF r
<1>2. ASSUME NEW i \in 1..Len(r), NEW k \in 1..Len(r), r[i] \in X, r[k].id \in Y
      PROVE  \E j \in 1..Len(r) : k < j /\ r[j] = r[i]
  <2>1. k \in 1..Len(ms)
        BY <1>1, <1>2
  <2>2. CASE i \in 1..Len(ms)
    <3>1. \E j \in 1..Len(ms) : k < j /\ ms[j] = ms[i]
          BY <1>1, <1>2, <2>1, <2>2 DEF Trails
    <3>2. PICK j \in 1..Len(ms) : k < j /\ ms[j] = ms[i]
          BY <3>1
    <3>3. j \in 1..Len(r) /\ r[j] = r[i]
          BY <1>1, <2>2, <3>2
    <3>. QED
         BY <3>2, <3>3
  <2>3. CASE i = Len(ms) + 1
        BY <1>1, <2>1, <2>3
  <2>. QED
       BY <1>1, <2>2, <2>3
<1>3. Trails(r, X, Y)
      BY <1>2 DEF Trails
<1>. QED
     BY <1>3 DEF r

\* The copies of a compaction keep their order, and copies of what trails are among them.
LEMMA CompactTrails ==
    ASSUME NEW S, NEW ms \in Seq(S), NEW u, NEW r, NEW d, Compacted(r, ms, u, d),
           DOMAIN r = 1..Len(r),
           NEW X, NEW Y, Trails(ms, X, Y), Boundary(u) \notin X, u \notin Y
    PROVE  Trails(r, X, Y)
<1>1. Len(ms) \in Nat /\ d \in Nat /\ d >= 1 /\ d <= Len(ms) + 1 /\ Len(r) = Len(ms) + d
      BY DEF Compacted
<1>2. Boundary(u).id = u
      BY DEF Boundary
<1>3. Evolves(r, ms, Boundary(u), 1..Len(ms))
      BY CompactEvolves
<1>4. ASSUME NEW i \in 1..Len(r), NEW k \in 1..Len(r), r[i] \in X, r[k].id \in Y
      PROVE  \E j \in 1..Len(r) : k < j /\ r[j] = r[i]
  <2>1. PICK a \in 1..Len(ms) : r[i] = ms[a]
        BY <1>3, <1>4 DEF Evolves
  <2>2. r[k] # Boundary(u)
        BY <1>2, <1>4
  <2>3. CASE k \in 1..Len(ms)
    <3>1. r[k] = ms[k]
          BY <2>3 DEF Compacted
    <3>2. PICK j \in 1..Len(ms) : k < j /\ ms[j] = ms[a]
          BY <1>4, <2>1, <2>3, <3>1 DEF Trails
    <3>3. j \in 1..Len(r) /\ r[j] = ms[j]
          BY <1>1 DEF Compacted
    <3>. QED
         BY <2>1, <3>2, <3>3
  <2>4. CASE k \notin 1..Len(ms)
    <3>1. k # Len(ms) + 1
          BY <2>2 DEF Compacted
    <3>2. k \in (Len(ms) + 2)..(Len(ms) + d) /\ k - d \in 1..Len(ms)
          BY <1>1, <2>4, <3>1
    <3>3. r[k] = ms[k - d]
          BY <3>2 DEF Compacted
    <3>4. PICK j \in 1..Len(ms) : k - d < j /\ ms[j] = ms[a]
          BY <1>4, <2>1, <3>2, <3>3 DEF Trails
    <3>5. j + d \in (Len(ms) + 2)..(Len(ms) + d) /\ j + d \in 1..Len(r) /\ k < j + d
          /\ (j + d) - d = j
          BY <1>1, <3>2, <3>4
    <3>6. r[j + d] = ms[j]
          BY <3>5 DEF Compacted
    <3>. QED
         BY <2>1, <3>4, <3>5, <3>6
  <2>. QED
       BY <2>3, <2>4
<1>. QED
     BY <1>4 DEF Trails

\* A removal keeps what trails where it keeps all of its copies.
LEMMA SpliceTrails ==
    ASSUME NEW T, NEW ms \in Seq(T), NEW r, NEW x, NEW K \in SUBSET (1..Len(ms)), NEW g,
           Spliced(r, ms, K, x, g), NEW X, NEW Y, Trails(ms, X, Y), x \notin X, x.id \notin Y,
           \A i \in K, j \in 1..Len(ms) : ms[i] \in X /\ ms[j] = ms[i] => j \in K
    PROVE  Trails(r, X, Y)
<1>. SUFFICES ASSUME NEW a \in 1..Len(r), NEW b \in 1..Len(r), r[a] \in X, r[b].id \in Y
              PROVE  \E c \in 1..Len(r) : b < c /\ r[c] = r[a]
     BY DEF Trails
<1>1. /\ g[a] # 0 /\ g[a] \in K /\ r[a] = ms[g[a]]
      /\ g[b] # 0 /\ g[b] \in K /\ r[b] = ms[g[b]]
      BY DEF Spliced
<1>2. PICK j \in 1..Len(ms) : g[b] < j /\ ms[j] = ms[g[a]]
      BY <1>1 DEF Trails
<1>0. Len(ms) \in Nat /\ \A i \in K : i \in 1..Len(ms) /\ i \in Nat /\ i # 0
      OBVIOUS
<1>3. j \in K /\ j # 0
  <2>1. ms[g[a]] \in X
        BY <1>1
  <2>2. j \in K
        BY <1>1, <1>2, <2>1
  <2>. QED
       BY <1>0, <2>2
<1>4. PICK c \in 1..Len(r) : g[c] = j
      BY <1>3 DEF Spliced
<1>5. r[c] = ms[j]
      BY <1>3, <1>4 DEF Spliced
<1>6. b < c
  <2>1. Len(r) \in Nat /\ g[b] \in Nat /\ j \in Nat
        BY <1>0, <1>1, <1>3 DEF Spliced
  <2>2. CASE c < b
    <3>1. g[c] < g[b]
          BY <1>1, <1>3, <1>4, <2>2 DEF Spliced
    <3>. QED
         BY <1>2, <1>4, <2>1, <3>1
  <2>3. CASE c = b
        BY <1>2, <1>4, <2>1, <2>3
  <2>. QED
       BY <2>1, <2>2, <2>3
<1>. QED
     BY <1>1, <1>2, <1>5, <1>6

-----------------------------------------------------------------------------
(* What the actions do to the transcript *)

LEMMA ShrinkIsPlain ==
    ASSUME NEW ms
    PROVE  /\ Shrink!AfterCompactBoundary(ms) = AfterCompactBoundary(ms)
           /\ \A I : Shrink!Pick(ms, I) = Pick(ms, I)
<1>1. \A S : Shrink!Max(S) = Max(S)
      BY Zenon DEF Shrink!Max, Max
<1>2. Shrink!OfKind(ms, "boundary") = OfKind(ms, "boundary")
      BY Zenon DEF Shrink!OfKind, OfKind
<1>3. Shrink!LastCompactBoundary(ms) = LastCompactBoundary(ms)
      BY <1>1, <1>2 DEF Shrink!LastCompactBoundary, LastCompactBoundary
<1>4. ASSUME NEW I PROVE Shrink!Pick(ms, I) = Pick(ms, I)
  <2>1. \A n : Shrink!Positions(n, I) = Positions(n, I)
        BY Zenon DEF Shrink!Positions, Positions
  <2> DEFINE F(at) == [k \in DOMAIN at |-> ms[at[k]]]
  <2>2. Pick(ms, I) = F(Positions(Len(ms), I))
        BY DEF Pick
  <2>3. Shrink!Pick(ms, I) = F(Shrink!Positions(Len(ms), I))
        BY DEF Shrink!Pick
  <2>. HIDE DEF F
  <2>. QED
       BY <2>1, <2>2, <2>3
<1>. QED
     BY <1>3, <1>4 DEF Shrink!AfterCompactBoundary, AfterCompactBoundary

LEMMA TypedMessages ==
    ASSUME TypeOK
    PROVE  /\ lastId \in Nat /\ MaxIds \in Nat /\ lastId <= MaxIds
           /\ Len(messages) \in Nat /\ DOMAIN messages = 1..Len(messages)
           /\ \A i \in 1..Len(messages) :
                 /\ messages[i] \in Message(lastId) /\ messages[i] \in Message(MaxIds)
                 /\ messages[i].id \in 1..lastId
           /\ request \in 0..lastId /\ foldCursor \in 0..lastId /\ extractCursor \in 0..lastId
<1>1. /\ lastId \in Nat /\ MaxIds \in Nat /\ lastId <= MaxIds
      /\ request \in 0..lastId /\ foldCursor \in 0..lastId /\ extractCursor \in 0..lastId
      /\ messages \in Seq(Message(lastId))
      BY Parameters DEF TypeOK
<1>2. Message(lastId) \subseteq Message(MaxIds)
      BY <1>1, MessagesGrow
<1>3. \A x \in Message(lastId) : x.id \in 1..lastId
      BY DEF Message
<1>4. /\ Len(messages) \in Nat /\ DOMAIN messages = 1..Len(messages)
      /\ \A i \in 1..Len(messages) : messages[i] \in Message(lastId)
      BY <1>1
<1>. QED
     BY <1>1, <1>2, <1>3, <1>4

LEMMA Typed ==
    ASSUME TypeOK, Takes(1)
    PROVE  /\ lastId + 1 \in Nat /\ lastId' = lastId + 1 /\ lastId + 1 <= MaxIds
           /\ Message(lastId) \subseteq Message(lastId + 1)
           /\ messages \in Seq(Message(lastId + 1))
           /\ Boundary(lastId + 1) \in Message(lastId + 1)
           /\ SnipBoundary(lastId + 1) \in Message(lastId + 1)
           /\ UserText(lastId + 1) \in Message(lastId + 1)
           /\ AssistantText(lastId + 1) \in Message(lastId + 1)
<1>1. lastId \in Nat /\ lastId + 1 \in Nat /\ lastId' = lastId + 1 /\ lastId + 1 <= MaxIds
      BY TypedMessages DEF Takes
<1>2. Message(lastId) \subseteq Message(lastId + 1) /\ messages \in Seq(Message(lastId + 1))
      BY <1>1, MessagesGrow DEF TypeOK
<1>3. <<>> \in Seq([call : Nat, tool : Tools]) \cup Seq([call : Nat, body : Bodies])
      OBVIOUS
<1>4. lastId + 1 \in 1..(lastId + 1)
      BY <1>1
<1>5. /\ Boundary(lastId + 1) \in Message(lastId + 1)
      /\ SnipBoundary(lastId + 1) \in Message(lastId + 1)
      /\ UserText(lastId + 1) \in Message(lastId + 1)
      /\ AssistantText(lastId + 1) \in Message(lastId + 1)
      BY <1>3, <1>4 DEF Boundary, SnipBoundary, UserText, AssistantText, Message, Kinds
<1>. QED
     BY <1>1, <1>2, <1>5

LEMMA TrailsFewer ==
    ASSUME NEW ms, NEW X, NEW Y, NEW Z, Trails(ms, X, Y), Z \subseteq X
    PROVE  Trails(ms, Z, Y)
BY DEF Trails

\* r and p may follow messages and parted in a run, with n uuids handed out.
GoesOn(r, p, n) ==
    /\ r \in Seq(Message(n)) /\ OneForm(r) /\ Tells(r, memory)
    /\ Trails(r, Unread(folded \cup p), {foldCursor})
    /\ \E i \in 1..Len(r) : r[i].kind = "user" /\ r[i].id = request
    /\ Trails(r, Own(request), 1..(request - 1))
    /\ wrote => \E i \in 1..Len(r) : WritesMemory(r[i]) /\ r[i].id >= request

\* All of it but the trailing is there when inputs and the run's memory writes are.
LEMMA EvolvesGoesOn ==
    ASSUME TypeOK, CursorInv, pc \in {"run", "tools"},
           NEW r, NEW p, NEW n, NEW x, NEW K \in SUBSET (1..Len(messages)), Evolves(r, messages, x, K),
           x.id = lastId + 1, r \in Seq(Message(n)),
           \A i \in 1..Len(messages) :
              messages[i].kind = "user" \/ (messages[i].id >= request /\ WritesMemory(messages[i]))
                 => i \in K,
           Trails(r, Unread(folded \cup p), {foldCursor}),
           Trails(r, Own(request), 1..(request - 1))
    PROVE  GoesOn(r, p, n)
<1>1. \A i \in 1..Len(messages) : messages[i].id # x.id
      BY TypedMessages
<1>2. OneForm(r)
      BY <1>1, EvolvesOneForm DEF CursorInv
<1>3. \A i \in K : \E k \in 1..Len(r) : r[k] = messages[i]
      BY DEF Evolves
<1>4. Tells(r, memory)
      BY <1>3 DEF CursorInv, Tells
<1>5. Running
      BY DEF CursorInv
<1>6. \E i \in 1..Len(r) : r[i].kind = "user" /\ r[i].id = request
      BY <1>3, <1>5 DEF Running
<1>7. wrote => \E i \in 1..Len(r) : WritesMemory(r[i]) /\ r[i].id >= request
  <2>. SUFFICES ASSUME wrote PROVE \E i \in 1..Len(r) : WritesMemory(r[i]) /\ r[i].id >= request
       OBVIOUS
  <2>1. PICK i \in 1..Len(messages) : WritesMemory(messages[i]) /\ messages[i].id >= request
        BY <1>5 DEF Running
  <2>2. PICK k \in 1..Len(r) : r[k] = messages[i]
        BY <1>3, <2>1
  <2>. QED
       BY <2>1, <2>2
<1>. QED
     BY <1>2, <1>4, <1>6, <1>7 DEF GoesOn

\* A new uuid is not one that a message or a cursor has.
LEMMA NewIdIsNew ==
    ASSUME TypeOK
    PROVE  lastId + 1 \notin {foldCursor} /\ lastId + 1 \notin 1..(request - 1)
<1>1. lastId \in Nat /\ foldCursor \in 0..lastId /\ request \in 0..lastId
      BY TypedMessages
<1>. QED
     BY <1>1

LEMMA AppendGoesOn ==
    ASSUME TypeOK, CursorInv, pc \in {"run", "tools"}, Takes(1),
           NEW m \in Message(lastId + 1), m.id = lastId + 1
    PROVE  LET r == Append(messages, m)
           IN  /\ GoesOn(r, parted, lastId + 1)
               /\ Len(r) = Len(messages) + 1 /\ r[Len(messages) + 1] = m
<1> DEFINE r == Append(messages, m)
<1>1. messages \in Seq(Message(lastId + 1))
      BY Typed
<1>2. /\ r \in Seq(Message(lastId + 1))
      /\ Len(r) = Len(messages) + 1 /\ r[Len(messages) + 1] = m
      /\ Evolves(r, messages, m, 1..Len(messages))
      BY <1>1, AppendEvolves
<1>3. /\ Trails(messages, Unread(folded \cup parted), {foldCursor})
      /\ Trails(messages, Own(request), 1..(request - 1))
      BY DEF CursorInv, Running
<1>4. /\ Trails(r, Unread(folded \cup parted), {foldCursor})
      /\ Trails(r, Own(request), 1..(request - 1))
      BY <1>1, <1>3, NewIdIsNew, AppendTrails
<1>. HIDE DEF r
<1>5. GoesOn(r, parted, lastId + 1)
      BY <1>2, <1>4, EvolvesGoesOn
<1>. QED
     BY <1>2, <1>5 DEF r

LEMMA BoundariesSayNothing ==
    ASSUME NEW u, NEW read, NEW req
    PROVE  /\ Boundary(u) \notin Unread(read) /\ Boundary(u) \notin Own(req)
           /\ SnipBoundary(u) \notin Unread(read) /\ SnipBoundary(u) \notin Own(req)
           /\ Boundary(u).id = u /\ SnipBoundary(u).id = u
BY DEF Boundary, SnipBoundary, Unread, Own, WritesMemory

LEMMA CompactGoesOn ==
    ASSUME TypeOK, CursorInv, pc = "run", Takes(1)
    PROVE  GoesOn(Shrink!Compact(messages, lastId + 1), parted, lastId + 1)
<1> DEFINE slice == AfterCompactBoundary(messages)
           t == Shrink!SplitAt(slice)
           r == Shrink!Compact(messages, lastId + 1)
<1>1. messages \in Seq(Message(lastId)) /\ slice \in Seq(Message(lastId))
      BY SliceShape DEF TypeOK
<1>2. r = messages \o <<Boundary(lastId + 1)>> \o SubSeq(slice, t + 1, Len(slice))
      BY ShrinkIsPlain, Zenon DEF Shrink!Compact, Shrink!Boundary, Boundary
<1>3. t \in Nat /\ t <= Len(slice)
  <2>1. Len(slice) \in Nat /\ KeepCompact \in Nat
        BY <1>1, Parameters
  <2>. HIDE DEF slice
  <2>. QED
       BY <2>1 DEF Shrink!SplitAt
<1>. HIDE DEF r, t
<1>4. /\ \A T : Message(lastId) \subseteq T /\ Boundary(lastId + 1) \in T => r \in Seq(T)
      /\ \E d : Compacted(r, messages, lastId + 1, d)
      BY <1>1, <1>2, <1>3, CompactShape
<1>5. r \in Seq(Message(lastId + 1)) /\ DOMAIN r = 1..Len(r)
      BY <1>4, Typed
<1>6. PICK d : Compacted(r, messages, lastId + 1, d)
      BY <1>4
<1>7. Evolves(r, messages, Boundary(lastId + 1), 1..Len(messages))
      BY <1>1, <1>5, <1>6, CompactEvolves
<1>8. /\ Trails(messages, Unread(folded \cup parted), {foldCursor})
      /\ Trails(messages, Own(request), 1..(request - 1))
      BY DEF CursorInv, Running
<1>9. /\ Boundary(lastId + 1) \notin Unread(folded \cup parted)
      /\ Boundary(lastId + 1) \notin Own(request)
      /\ Boundary(lastId + 1).id = lastId + 1
      BY BoundariesSayNothing
<1>10. Trails(r, Unread(folded \cup parted), {foldCursor})
      BY <1>1, <1>5, <1>6, <1>8, <1>9, NewIdIsNew, CompactTrails
<1>11. Trails(r, Own(request), 1..(request - 1))
      BY <1>1, <1>5, <1>6, <1>8, <1>9, NewIdIsNew, CompactTrails
<1>12. GoesOn(r, parted, lastId + 1)
      BY <1>5, <1>7, <1>9, <1>10, <1>11, EvolvesGoesOn
<1>. QED
     BY <1>12 DEF r

LEMMA EvictGoesOn ==
    ASSUME TypeOK, CursorInv, pc = "run", Takes(1),
           NEW S \in SUBSET (OfKind(messages, "use") \cup OfKind(messages, "result")), S # {},
           \A i \in S : messages[i].id < request \/ ~WritesMemory(messages[i]),
           NEW p, p = parted \cup ({messages[i].id : i \in S} \cap Ids(Evict(S)))
    PROVE  GoesOn(Evict(S), p, lastId + 1)
<1> DEFINE r == Evict(S)
           K == DOMAIN messages \ S
           A == {i \in K : i < Min(S)}
           B == {i \in K : i > Min(S)}
           x == SnipBoundary(lastId + 1)
<1>1. /\ Len(messages) \in Nat /\ DOMAIN messages = 1..Len(messages)
      /\ messages \in Seq(Message(lastId + 1)) /\ x \in Message(lastId + 1)
      BY TypedMessages, Typed
<1>2. S \subseteq 1..Len(messages) /\ \A i \in S : messages[i].kind \in {"use", "result"}
      BY <1>1 DEF OfKind
<1>3. Min(S) \in S /\ \A y \in S : Min(S) <= y
      BY <1>1, <1>2, MinIsLeast
<1>4. K \subseteq 1..Len(messages) /\ K = A \cup B /\ \A a \in A, b \in B : a < b
  <2>1. Min(S) \in Nat /\ Min(S) \notin K /\ K \subseteq 1..Len(messages)
        BY <1>1, <1>2, <1>3
  <2>2. \A i \in K : i < Min(S) \/ i > Min(S)
        BY <1>1, <2>1
  <2>3. \A a \in A, b \in B : a < b
        BY <1>1, <2>1
  <2>. QED
       BY <2>1, <2>2, <2>3
<1>5. r = Pick(messages, A) \o <<x>> \o Pick(messages, B)
      BY Zenon DEF Evict
<1>. HIDE DEF r, A, B, x
<1>7. r \in Seq(Message(lastId + 1)) /\ \E g : Spliced(r, messages, K, x, g)
      BY <1>1, <1>4, <1>5, SpliceMiddle
<1>8. PICK g : Spliced(r, messages, K, x, g)
      BY <1>7
<1>9. 0 \notin K
      BY <1>1, <1>4
<1>10. Evolves(r, messages, x, K)
      BY <1>8, <1>9, SpliceEvolves
<1>11. x.id = lastId + 1 /\ x \notin Unread(folded \cup p) /\ x \notin Own(request)
      BY BoundariesSayNothing DEF x
<1>12. \A i \in 1..Len(messages) :
          messages[i].kind = "user" \/ (messages[i].id >= request /\ WritesMemory(messages[i]))
              => i \in K
  <2>. SUFFICES ASSUME NEW i \in S PROVE messages[i].kind # "user"
                  /\ ~(messages[i].id >= request /\ WritesMemory(messages[i]))
       BY <1>1
  <2>1. messages[i].id < request => ~(messages[i].id >= request)
        BY <1>2, TypedMessages
  <2>. QED
       BY <1>2, <2>1
<1>13. Trails(r, Own(request), 1..(request - 1))
  <2> DEFINE X == Own(request)
             Y == 1..(request - 1)
  <2>1. Trails(messages, X, Y) /\ x \notin X
        BY <1>11 DEF CursorInv, Running
  <2>2. \A i \in K, j \in 1..Len(messages) :
            messages[i] \in X /\ messages[j] = messages[i] => j \in K
        BY <1>12 DEF Own
  <2>3. x.id \notin Y
        BY <1>11, NewIdIsNew
  <2>. HIDE DEF X, Y
  <2>4. Trails(r, X, Y)
        BY <1>1, <1>4, <1>8, <2>1, <2>2, <2>3, SpliceTrails
  <2>. QED
       BY <2>4 DEF X, Y
<1>14. Trails(r, Unread(folded \cup p), {foldCursor})
  <2>1. Trails(messages, Unread(folded \cup p), {foldCursor})
    <3>1. Unread(folded \cup p) \subseteq Unread(folded \cup parted)
          BY DEF Unread
    <3>2. Trails(messages, Unread(folded \cup parted), {foldCursor})
          BY DEF CursorInv
    <3>. QED
         BY <3>1, <3>2, TrailsFewer
  <2>2. ASSUME NEW i \in K, NEW j \in 1..Len(messages), messages[i] \in Unread(folded \cup p),
               messages[j] = messages[i], j \notin K
        PROVE  FALSE
    <3>1. j \in S
          BY <1>1, <2>2
    <3>2. PICK k \in 1..Len(r) : r[k] = messages[i]
          BY <1>10 DEF Evolves
    <3>3. DOMAIN r = 1..Len(r)
          BY <1>10 DEF Evolves
    <3>4. messages[j].id \in Ids(r)
          BY <2>2, <3>2, <3>3 DEF Ids
    <3>5. messages[j].id \in p
          BY <3>1, <3>4 DEF r
    <3>. QED
         BY <2>2, <3>5 DEF Unread
  <2>3. \A i \in K, j \in 1..Len(messages) :
            messages[i] \in Unread(folded \cup p) /\ messages[j] = messages[i] => j \in K
        BY <2>2
  <2>. QED
       BY <1>1, <1>4, <1>8, <1>11, <2>1, <2>3, NewIdIsNew, SpliceTrails
<1>15. GoesOn(r, p, lastId + 1)
      BY <1>4, <1>7, <1>10, <1>11, <1>12, <1>13, <1>14, EvolvesGoesOn
<1>. QED
     BY <1>15 DEF r

LEMMA SnipHistoryGoesOn ==
    ASSUME TypeOK, CursorInv, pc = "run",
           NEW us \in SUBSET {messages[i].id : i \in OfKind(messages, "result")},
           \A u \in us : u < request
    PROVE  GoesOn(Shrink!SnipHistory(messages, us), parted, lastId)
<1> DEFINE K == {i \in DOMAIN messages : messages[i].id \notin us}
           r == Shrink!SnipHistory(messages, us)
           x == SnipBoundary(lastId + 1)
<1>1. /\ Len(messages) \in Nat /\ DOMAIN messages = 1..Len(messages)
      /\ messages \in Seq(Message(lastId)) /\ lastId \in Nat
      BY TypedMessages DEF TypeOK
<1>2. r = Pick(messages, K)
      BY ShrinkIsPlain, Zenon DEF Shrink!SnipHistory
<1>3. K \subseteq 1..Len(messages) /\ 0 \notin K
      BY <1>1
<1>. HIDE DEF r
<1>4. r \in Seq(Message(lastId)) /\ \E g : Spliced(r, messages, K, x, g)
      BY <1>1, <1>2, <1>3, SplicePick
<1>5. PICK g : Spliced(r, messages, K, x, g)
      BY <1>4
<1>6. Evolves(r, messages, x, K)
      BY <1>3, <1>5, SpliceEvolves
<1>7. x.id = lastId + 1 /\ x \notin Unread(folded \cup parted) /\ x \notin Own(request)
      BY BoundariesSayNothing
<1>. HIDE DEF x
<1>8. \A i \in 1..Len(messages) : messages[i].id \in us => messages[i].kind = "result"
  <2>. SUFFICES ASSUME NEW i \in 1..Len(messages), messages[i].id \in us
                PROVE  messages[i].kind = "result"
       OBVIOUS
  <2>1. PICK k \in OfKind(messages, "result") : messages[k].id = messages[i].id
        OBVIOUS
  <2>2. k \in 1..Len(messages) /\ messages[k].kind = "result"
        BY <1>1, <2>1 DEF OfKind
  <2>3. OneForm(messages)
        BY DEF CursorInv
  <2>. QED
       BY <2>1, <2>2, <2>3 DEF OneForm
<1>9. \A i \in 1..Len(messages) :
          messages[i].kind = "user" \/ (messages[i].id >= request /\ WritesMemory(messages[i]))
              => i \in K
      BY <1>1, <1>8 DEF WritesMemory
<1>10. Trails(r, Own(request), 1..(request - 1))
  <2> DEFINE X == Own(request)
             Y == 1..(request - 1)
  <2>1. Trails(messages, X, Y) /\ x \notin X
        BY <1>7 DEF CursorInv, Running
  <2>2. \A i \in K, j \in 1..Len(messages) :
            messages[i] \in X /\ messages[j] = messages[i] => j \in K
        BY <1>1 DEF Own
  <2>3. x.id \notin Y
        BY <1>7, NewIdIsNew
  <2>. HIDE DEF X, Y
  <2>4. Trails(r, X, Y)
        BY <1>1, <1>3, <1>5, <2>1, <2>2, <2>3, SpliceTrails
  <2>. QED
       BY <2>4 DEF X, Y
<1>11. Trails(r, Unread(folded \cup parted), {foldCursor})
  <2>1. Trails(messages, Unread(folded \cup parted), {foldCursor})
        BY DEF CursorInv
  <2>2. \A i \in K, j \in 1..Len(messages) :
            messages[i] \in Unread(folded \cup parted) /\ messages[j] = messages[i] => j \in K
        BY <1>1
  <2>. QED
       BY <1>1, <1>3, <1>5, <1>7, <2>1, <2>2, NewIdIsNew, SpliceTrails
<1>12. GoesOn(r, parted, lastId)
      BY <1>3, <1>4, <1>6, <1>7, <1>9, <1>10, <1>11, EvolvesGoesOn
<1>. QED
     BY <1>12 DEF r

\* A new input: it is the run's own, and nothing of the run is in front of it.
LEMMA InputStarts ==
    ASSUME TypeOK, CursorInv, Takes(1)
    PROVE  LET r == Append(messages, UserText(lastId + 1))
           IN  /\ r \in Seq(Message(lastId + 1)) /\ OneForm(r) /\ Tells(r, memory)
               /\ Trails(r, Unread(folded \cup parted), {foldCursor})
               /\ \E i \in 1..Len(r) : r[i].kind = "user" /\ r[i].id = lastId + 1
               /\ Trails(r, Own(lastId + 1), 1..lastId)
<1> DEFINE m == UserText(lastId + 1)
           r == Append(messages, m)
<1>1. messages \in Seq(Message(lastId + 1)) /\ m \in Message(lastId + 1) /\ lastId \in Nat
      BY Typed, TypedMessages
<1>2. /\ r \in Seq(Message(lastId + 1)) /\ Len(r) = Len(messages) + 1 /\ Len(messages) \in Nat
      /\ \A i \in 1..Len(messages) : r[i] = messages[i]
      /\ r[Len(messages) + 1] = m
      /\ Evolves(r, messages, m, 1..Len(messages))
      BY <1>1, AppendEvolves, TypedMessages
<1>3. m.id = lastId + 1 /\ m.kind = "user"
      BY DEF UserText
<1>4. Trails(r, Unread(folded \cup parted), {foldCursor})
  <2>1. Trails(messages, Unread(folded \cup parted), {foldCursor})
        BY DEF CursorInv
  <2>. QED
       BY <1>1, <1>3, <2>1, NewIdIsNew, AppendTrails
<1>. HIDE DEF m, r
<1>5. OneForm(r)
  <2>1. \A i \in 1..Len(messages) : messages[i].id # m.id
        BY <1>3, TypedMessages
  <2>2. OneForm(messages)
        BY DEF CursorInv
  <2>. QED
       BY <1>2, <2>1, <2>2, EvolvesOneForm
<1>6. Tells(r, memory)
      BY <1>2 DEF CursorInv, Tells
<1>7. Len(r) \in 1..Len(r) /\ r[Len(r)] = m
      BY <1>2
<1>8. Trails(r, Own(lastId + 1), 1..lastId)
  <2>. SUFFICES ASSUME NEW i \in 1..Len(r), NEW k \in 1..Len(r),
                       r[i] \in Own(lastId + 1), r[k].id \in 1..lastId
                PROVE  \E j \in 1..Len(r) : k < j /\ r[j] = r[i]
       BY DEF Trails
  <2>1. r[i].id >= lastId + 1
        BY DEF Own
  <2>2. i = Len(r)
    <3>1. ASSUME i \in 1..Len(messages) PROVE FALSE
      <4>1. r[i].id \in 1..lastId
            BY <1>2, <3>1, TypedMessages
      <4>. QED
           BY <1>1, <2>1, <4>1
    <3>. QED
         BY <1>2, <3>1
  <2>3. k # Len(r)
        BY <1>1, <1>3, <1>7
  <2>. QED
       BY <1>2, <1>7, <2>2, <2>3
<1>. QED
     BY <1>2, <1>3, <1>4, <1>5, <1>6, <1>7, <1>8 DEF m, r

-----------------------------------------------------------------------------
(* The steps *)

Slots(n) == [messages : Seq(Message(n)), memory : Memories(n), folded : SUBSET (1..n)]

LEMMA SlotsGrow ==
    ASSUME NEW n \in Nat, NEW m \in Nat, n <= m
    PROVE  Memories(n) \subseteq Memories(m) /\ Slots(n) \subseteq Slots(m)
<1>1. 0..n \subseteq 0..m /\ 1..n \subseteq 1..m
      OBVIOUS
<1>2. Memories(n) \subseteq Memories(m)
  <2> DEFINE D == {"users", "calls", "results", "work"}
  <2>1. \A f \in [D -> 0..n] : f \in [D -> 0..m]
        BY <1>1
  <2>. QED
       BY <2>1, Zenon DEF Memories
<1>3. Seq(Message(n)) \subseteq Seq(Message(m))
      BY MessagesGrow
<1>4. Slots(n) \subseteq Slots(m)
  <2>. SUFFICES ASSUME NEW s \in Slots(n) PROVE s \in Slots(m)
       OBVIOUS
  <2>1. \A S \in SUBSET (1..n) : S \in SUBSET (1..m)
        BY <1>1
  <2>. QED
       BY <1>2, <1>3, <2>1 DEF Slots
<1>. QED
     BY <1>2, <1>4

\* TypeOK by its parts: what the uuids handed out bound, and the rest.
Bounded(ms, mem, read, p, s, n) ==
    /\ ms \in Seq(Message(n)) /\ mem \in Memories(n)
    /\ read \subseteq 1..n /\ p \subseteq 1..n /\ s \in Slots(n)

Cursors(x, f, q, n) == x \in 0..n /\ f \in 0..n /\ q \in 0..n

LEMMA TypeParts ==
    TypeOK <=> /\ Bounded(messages, memory, folded, parted, slot, lastId)
               /\ Cursors(extractCursor, foldCursor, request, lastId)
               /\ pc \in Stages /\ lastId \in 0..MaxIds
               /\ turnsSince \in Nat /\ hooksSince \in Nat /\ guarded \in Nat
               /\ inProgress \in BOOLEAN /\ wrote \in BOOLEAN /\ cut \in BOOLEAN
<1>1. {extractCursor, foldCursor, request} \subseteq 0..lastId
          <=> Cursors(extractCursor, foldCursor, request, lastId)
      BY DEF Cursors
<1>2. slot \in Slots(lastId)
          <=> slot \in [messages : Seq(Message(lastId)), memory : Memories(lastId),
                        folded : SUBSET (1..lastId)]
      BY Zenon DEF Slots
<1>. QED
     BY <1>1, <1>2, Zenon DEF TypeOK, Bounded

LEMMA BoundsGrow ==
    ASSUME TypeOK, NEW n \in Nat, lastId <= n
    PROVE  /\ Bounded(messages, memory, folded, parted, slot, n)
           /\ Cursors(extractCursor, foldCursor, request, n)
<1>1. lastId \in Nat
      BY TypedMessages
<1>2. /\ Bounded(messages, memory, folded, parted, slot, lastId)
      /\ Cursors(extractCursor, foldCursor, request, lastId)
      BY TypeParts
<1>3. /\ Seq(Message(lastId)) \subseteq Seq(Message(n)) /\ Memories(lastId) \subseteq Memories(n)
      /\ Slots(lastId) \subseteq Slots(n) /\ 1..lastId \subseteq 1..n /\ 0..lastId \subseteq 0..n
      BY <1>1, MessagesGrow, SlotsGrow
<1>. QED
     BY <1>2, <1>3, Zenon DEF Bounded, Cursors

Rest == <<extractCursor, foldCursor, memory, folded, slot, request, turnsSince, inProgress,
          hooksSince, cut, guarded>>

\* A step of the run that goes on as it may keeps the invariant.
LEMMA GoesOnKeeps ==
    ASSUME TypeOK, CursorInv, pc \in {"run", "tools"}, pc' \in {"run", "tools", "hooks"},
           GoesOn(messages', parted', lastId'), lastId' \in 0..MaxIds, lastId <= lastId',
           parted' \subseteq 1..lastId', UNCHANGED Rest, wrote' \in BOOLEAN,
           wrote' => \E i \in 1..Len(messages') : WritesMemory(messages'[i]) /\ messages'[i].id >= request,
           pc' = "tools" => /\ messages' # <<>>
                            /\ messages'[Len(messages')].items \in Seq([call : Nat, tool : Tools])
    PROVE  TypeOK' /\ CursorInv'
<1>1. /\ messages' \in Seq(Message(lastId')) /\ OneForm(messages') /\ Tells(messages', memory)
      /\ Trails(messages', Unread(folded \cup parted'), {foldCursor})
      /\ \E i \in 1..Len(messages') : messages'[i].kind = "user" /\ messages'[i].id = request
      /\ Trails(messages', Own(request), 1..(request - 1))
      BY DEF GoesOn
<1>2. /\ extractCursor' = extractCursor /\ foldCursor' = foldCursor /\ memory' = memory
      /\ folded' = folded /\ slot' = slot /\ request' = request /\ turnsSince' = turnsSince
      /\ inProgress' = inProgress /\ hooksSince' = hooksSince /\ cut' = cut /\ guarded' = guarded
      BY DEF Rest
<1>3. TypeOK'
  <2>1. lastId' \in Nat /\ MaxIds \in Nat
        BY Parameters
  <2>2. /\ Bounded(messages, memory, folded, parted, slot, lastId')
        /\ Cursors(extractCursor, foldCursor, request, lastId')
        BY <2>1, BoundsGrow
  <2>3. Bounded(messages', memory', folded', parted', slot', lastId')
        BY <1>1, <1>2, <2>2 DEF Bounded
  <2>4. Cursors(extractCursor', foldCursor', request', lastId')
        BY <1>2, <2>2
  <2>5. pc' \in Stages
        BY DEF Stages
  <2>6. /\ turnsSince' \in Nat /\ hooksSince' \in Nat /\ guarded' \in Nat
        /\ inProgress' \in BOOLEAN /\ cut' \in BOOLEAN
        BY <1>2 DEF TypeOK
  <2>7. {extractCursor', foldCursor', request'} \subseteq 0..lastId'
        BY <2>4 DEF Cursors
  <2>8. slot' \in [messages : Seq(Message(lastId')), memory : Memories(lastId'),
                   folded : SUBSET (1..lastId')]
        BY <2>3, Zenon DEF Bounded, Slots
  <2>. QED
       BY <2>3, <2>5, <2>6, <2>7, <2>8, Zenon DEF TypeOK, Bounded
<1>4. Running /\ pc # "fold"
      BY DEF CursorInv
<1>5. Running'
      BY <1>1, <1>2, <1>4 DEF Running
<1>6. CursorInv'
  <2>1. /\ OneForm(slot'.messages) /\ Tells(slot'.messages, slot'.memory)
        BY <1>2 DEF CursorInv
  <2>. QED
       BY <1>1, <1>2, <1>5, <2>1 DEF CursorInv
<1>. QED
     BY <1>3, <1>6

LEMMA TypeKept ==
    ASSUME TypeOK, UNCHANGED <<messages, lastId, memory, folded, parted, slot, request, wrote>>,
           pc' \in Stages, extractCursor' \in 0..lastId, foldCursor' \in 0..lastId,
           turnsSince' \in Nat, hooksSince' \in Nat, guarded' \in Nat,
           inProgress' \in BOOLEAN, cut' \in BOOLEAN
    PROVE  TypeOK'
<1>1. request \in 0..lastId
      BY TypedMessages
<1>2. {extractCursor', foldCursor', request'} \subseteq 0..lastId'
      BY <1>1
<1>. QED
     BY <1>2 DEF TypeOK

LEMMA StandsStill ==
    ASSUME TypeOK, CursorInv, pc \in {"run", "tools"}
    PROVE  GoesOn(messages, parted, lastId)
<1>1. Running
      BY DEF CursorInv
<1>. QED
     BY <1>1, Zenon DEF GoesOn, CursorInv, Running, TypeOK

LEMMA RunSteps ==
    ASSUME TypeOK, CursorInv,
           CallTool \/ ToolReturns \/ CompactTranscript \/ EngineSnip \/ SnipHistory \/ EndRun
    PROVE  TypeOK' /\ CursorInv'
<1>1. /\ pc \in {"run", "tools"} /\ pc' \in {"run", "tools", "hooks"}
      /\ UNCHANGED Rest
      BY Zenon DEF CallTool, ToolReturns, CompactTranscript, EngineSnip, SnipHistory, EndRun,
                   Rest, fields, history
<1>2. wrote \in BOOLEAN /\ parted \subseteq 1..lastId
      BY DEF TypeOK
<1>3. lastId \in Nat /\ lastId <= MaxIds /\ MaxIds \in Nat
      BY TypedMessages
<1>4. 1..lastId \subseteq 1..(lastId + 1)
      BY <1>3
<1>5. Takes(1) => lastId' = lastId + 1 /\ lastId' \in 0..MaxIds /\ lastId <= lastId'
      BY <1>3 DEF Takes
<1>6. CASE CallTool
  <2>1. Takes(1) /\ parted' = parted /\ pc = "run"
        BY <1>6 DEF CallTool, fields
  <2>2. PICK t \in Tools :
            /\ messages' = Append(messages, ToolUse(lastId + 1, <<[call |-> lastId + 1, tool |-> t]>>))
            /\ wrote' = (wrote \/ t = "write_memory_entry")
        BY <1>6 DEF CallTool
  <2> DEFINE calls == <<[call |-> lastId + 1, tool |-> t]>>
             m == ToolUse(lastId + 1, calls)
  <2>3. /\ calls \in Seq([call : Nat, tool : Tools]) /\ DOMAIN calls = {1}
        /\ calls[1].tool = t
        BY <1>3
  <2>. HIDE DEF calls
  <2>4. m.id = lastId + 1 /\ m.items = calls /\ m.kind = "use"
        BY DEF ToolUse
  <2>5. m \in Message(lastId + 1)
    <3>1. lastId + 1 \in 1..(lastId + 1) /\ "use" \in Kinds
          BY <1>3 DEF Kinds
    <3>. QED
         BY <2>3, <3>1 DEF ToolUse, Message
  <2>. HIDE DEF m
  <2>6. messages' = Append(messages, m)
        BY <2>2 DEF m, calls
  <2>7. /\ GoesOn(messages', parted, lastId + 1)
        /\ Len(messages') = Len(messages) + 1 /\ messages'[Len(messages) + 1] = m
        BY <1>1, <2>1, <2>4, <2>5, <2>6, AppendGoesOn
  <2>8. Len(messages') \in 1..Len(messages') /\ messages'[Len(messages')] = m /\ messages' # <<>>
        BY <2>7, TypedMessages
  <2>9. wrote' => \E i \in 1..Len(messages') : WritesMemory(messages'[i]) /\ messages'[i].id >= request
    <3>1. CASE t = "write_memory_entry"
      <4>1. WritesMemory(m)
            BY <2>3, <2>4, <3>1 DEF WritesMemory
      <4>2. m.id >= request
            BY <1>3, <2>4, TypedMessages
      <4>. QED
           BY <2>8, <4>1, <4>2
    <3>2. CASE t # "write_memory_entry"
          BY <2>2, <2>7, <3>2 DEF GoesOn
    <3>. QED
         BY <3>1, <3>2
  <2>10. wrote' \in BOOLEAN
        BY <2>2
  <2>11. messages'[Len(messages')].items \in Seq([call : Nat, tool : Tools])
        BY <2>3, <2>4, <2>8
  <2>12. GoesOn(messages', parted', lastId') /\ parted' \subseteq 1..lastId'
        BY <1>2, <1>4, <1>5, <2>1, <2>7
  <2>. QED
       BY <1>1, <1>5, <2>1, <2>8, <2>9, <2>10, <2>11, <2>12, GoesOnKeeps
<1>7. ASSUME pc' # "tools", wrote' = wrote, GoesOn(messages', parted', lastId'),
             lastId' \in 0..MaxIds, lastId <= lastId', parted' \subseteq 1..lastId'
      PROVE  TypeOK' /\ CursorInv'
  <2>1. wrote' => \E i \in 1..Len(messages') : WritesMemory(messages'[i]) /\ messages'[i].id >= request
        BY <1>7, Zenon DEF GoesOn
  <2>. QED
       BY <1>1, <1>2, <1>7, <2>1, GoesOnKeeps
<1>8. CASE ToolReturns
  <2>1. /\ Takes(1) /\ parted' = parted /\ pc = "tools" /\ pc' = "run" /\ wrote' = wrote
        /\ messages' = Append(messages, ToolResults(lastId + 1, Replies(messages[Len(messages)].items)))
        BY <1>8 DEF ToolReturns, fields, history
  <2> DEFINE calls == messages[Len(messages)].items
             reps == Replies(calls)
             m == ToolResults(lastId + 1, reps)
  <2>2. calls \in Seq([call : Nat, tool : Tools])
        BY <2>1 DEF CursorInv
  <2>. HIDE DEF calls
  <2>3. reps \in Seq([call : Nat, body : Bodies])
    <3>1. /\ Len(calls) \in Nat /\ DOMAIN calls = 1..Len(calls)
          /\ \A j \in 1..Len(calls) : calls[j].call \in Nat
      <4> DEFINE C == [call : Nat, tool : Tools]
      <4>1. calls \in Seq(C) /\ \A c \in C : c.call \in Nat
            BY <2>2
      <4>. HIDE DEF C
      <4>2. /\ Len(calls) \in Nat /\ DOMAIN calls = 1..Len(calls)
            /\ \A j \in 1..Len(calls) : calls[j] \in C
            BY <4>1
      <4>. QED
           BY <4>1, <4>2
    <3>2. reps = [j \in 1..Len(calls) |-> [call |-> calls[j].call, body |-> "full"]]
          BY <3>1 DEF Replies
    <3>3. "full" \in Bodies
          BY DEF Bodies
    <3>4. \A j \in 1..Len(calls) :
             [call |-> calls[j].call, body |-> "full"] \in [call : Nat, body : Bodies]
          BY <3>1, <3>3
    <3>. QED
         BY <3>1, <3>2, <3>4
  <2>. HIDE DEF reps
  <2>4. m.id = lastId + 1 /\ m \in Message(lastId + 1)
    <3>1. lastId + 1 \in 1..(lastId + 1) /\ "result" \in Kinds
          BY <1>3 DEF Kinds
    <3>. QED
         BY <2>3, <3>1 DEF ToolResults, Message
  <2>. HIDE DEF m
  <2>5. messages' = Append(messages, m)
        BY <2>1 DEF m, reps, calls
  <2>6. GoesOn(messages', parted, lastId + 1)
        BY <1>1, <2>1, <2>4, <2>5, AppendGoesOn
  <2>. QED
       BY <1>2, <1>4, <1>5, <1>7, <2>1, <2>6
<1>9. CASE CompactTranscript
  <2>1. /\ Takes(1) /\ parted' = parted /\ pc = "run" /\ pc' = "run" /\ wrote' = wrote
        /\ messages' = Shrink!Compact(messages, lastId + 1)
        BY <1>9 DEF CompactTranscript, fields, history
  <2>2. GoesOn(messages', parted, lastId + 1)
        BY <2>1, CompactGoesOn
  <2>. QED
       BY <1>2, <1>4, <1>5, <1>7, <2>1, <2>2
<1>10. CASE EngineSnip
  <2>1. Takes(1) /\ pc = "run" /\ pc' = "run" /\ wrote' = wrote
        BY <1>10 DEF EngineSnip, history
  <2>2. PICK S \in SUBSET (OfKind(messages, "use") \cup OfKind(messages, "result")) :
            /\ S # {} /\ \A i \in S : messages[i].id < request \/ ~WritesMemory(messages[i])
            /\ messages' = Evict(S)
            /\ parted' = parted \cup ({messages[i].id : i \in S} \cap Ids(messages'))
        BY <1>10 DEF EngineSnip
  <2>3. parted' = parted \cup ({messages[i].id : i \in S} \cap Ids(Evict(S)))
        BY <2>2
  <2>4. GoesOn(messages', parted', lastId + 1)
        BY <2>1, <2>2, <2>3, EvictGoesOn
  <2>5. {messages[i].id : i \in S} \subseteq 1..lastId
    <3>1. S \subseteq 1..Len(messages)
          BY TypedMessages DEF OfKind
    <3>. QED
         BY <3>1, TypedMessages
  <2>6. parted' \subseteq 1..lastId'
        BY <1>2, <1>4, <1>5, <2>1, <2>2, <2>5
  <2>. QED
       BY <1>5, <1>7, <2>1, <2>4, <2>6
<1>11. CASE SnipHistory
  <2>1. pc = "run" /\ pc' = "run" /\ wrote' = wrote /\ parted' = parted /\ lastId' = lastId
        BY <1>11 DEF SnipHistory, history, fields
  <2>2. PICK us \in SUBSET {messages[i].id : i \in OfKind(messages, "result")} :
            (\A u \in us : u < request) /\ messages' = Shrink!SnipHistory(messages, us)
        BY <1>11 DEF SnipHistory
  <2>3. GoesOn(messages', parted', lastId')
        BY <2>1, <2>2, SnipHistoryGoesOn
  <2>. QED
       BY <1>2, <1>3, <1>7, <2>1, <2>3
<1>12. CASE EndRun
  <2>1. pc = "run" /\ pc' = "hooks" /\ wrote' = wrote /\ parted' = parted
        BY <1>12 DEF EndRun, history, fields
  <2>2. CASE Takes(1) /\ messages' = Append(messages, AssistantText(lastId + 1))
    <3>1. AssistantText(lastId + 1).id = lastId + 1 /\ AssistantText(lastId + 1) \in Message(lastId + 1)
          BY <2>2, Typed DEF AssistantText
    <3>2. GoesOn(messages', parted, lastId + 1)
          BY <1>1, <2>2, <3>1, AppendGoesOn
    <3>. QED
         BY <1>2, <1>4, <1>5, <1>7, <2>1, <2>2, <3>2
  <2>3. CASE UNCHANGED <<messages, lastId>>
    <3>1. GoesOn(messages', parted', lastId')
          BY <1>1, <2>1, <2>3, StandsStill
    <3>. QED
         BY <1>2, <1>3, <1>7, <2>1, <2>3, <3>1
  <2>. QED
       BY <1>12, <2>2, <2>3 DEF EndRun
<1>. QED
     BY <1>6, <1>8, <1>9, <1>10, <1>11, <1>12

LEMMA InputStep ==
    ASSUME TypeOK, CursorInv, UserInput PROVE TypeOK' /\ CursorInv'
<1>1. /\ Takes(1) /\ messages' = Append(messages, UserText(lastId + 1)) /\ pc' = "run"
      /\ request' = lastId + 1 /\ wrote' = FALSE /\ lastId' = lastId + 1
      /\ UNCHANGED <<extractCursor, turnsSince, inProgress, foldCursor, memory, folded, parted,
                     slot, hooksSince, cut, guarded>>
      BY DEF UserInput, fields, Takes
<1>2. /\ lastId \in Nat /\ lastId + 1 \in Nat /\ lastId + 1 <= MaxIds /\ lastId <= lastId + 1
      /\ extractCursor \in 0..lastId /\ foldCursor \in 0..lastId /\ MaxIds \in Nat
      BY <1>1, TypedMessages, Typed
<1>3. /\ messages' \in Seq(Message(lastId + 1)) /\ OneForm(messages') /\ Tells(messages', memory)
      /\ Trails(messages', Unread(folded \cup parted), {foldCursor})
      /\ \E i \in 1..Len(messages') : messages'[i].kind = "user" /\ messages'[i].id = lastId + 1
      /\ Trails(messages', Own(lastId + 1), 1..lastId)
      BY <1>1, InputStarts
<1>4. TypeOK'
  <2>1. /\ Bounded(messages, memory, folded, parted, slot, lastId + 1)
        /\ Cursors(extractCursor, foldCursor, request, lastId + 1)
        BY <1>2, BoundsGrow
  <2>2. slot' \in [messages : Seq(Message(lastId')), memory : Memories(lastId'),
                   folded : SUBSET (1..lastId')]
        BY <1>1, <2>1, Zenon DEF Bounded, Slots
  <2>3. {extractCursor', foldCursor', request'} \subseteq 0..lastId'
        BY <1>1, <1>2
  <2>4. /\ messages' \in Seq(Message(lastId')) /\ memory' \in Memories(lastId')
        /\ folded' \subseteq 1..lastId' /\ parted' \subseteq 1..lastId'
        BY <1>1, <1>3, <2>1 DEF Bounded
  <2>5. pc' \in Stages /\ lastId' \in 0..MaxIds
        BY <1>1, <1>2 DEF Stages
  <2>6. /\ turnsSince' \in Nat /\ hooksSince' \in Nat /\ guarded' \in Nat
        /\ inProgress' \in BOOLEAN /\ wrote' \in BOOLEAN /\ cut' \in BOOLEAN
        BY <1>1 DEF TypeOK
  <2>. QED
       BY <2>2, <2>3, <2>4, <2>5, <2>6, Zenon DEF TypeOK
<1>5. Running'
  <2>1. foldCursor' < request' /\ extractCursor' < request' /\ request' - 1 = lastId
        BY <1>1, <1>2
  <2>. QED
       BY <1>1, <1>3, <2>1 DEF Running
<1>6. CursorInv'
  <2>1. OneForm(slot'.messages) /\ Tells(slot'.messages, slot'.memory)
        BY <1>1 DEF CursorInv
  <2>. QED
       BY <1>1, <1>3, <1>5, <2>1 DEF CursorInv
<1>. QED
     BY <1>4, <1>6

-----------------------------------------------------------------------------
(* The fold *)

\* What a fold reads is the end of the transcript, has the input of the run, and with
\* what was read before has all that there is to read.
LEMMA FoldReads ==
    ASSUME TypeOK, CursorInv, pc = "fold",
           NEW new, new = MessagesSince(messages, foldCursor)
    PROVE  /\ new \in Seq(Message(lastId)) /\ Len(new) > 0
           /\ \A k \in 1..Len(new) : \E i \in 1..Len(messages) : new[k] = messages[i]
           /\ \E k \in 1..Len(new) : new[k].kind = "user"
           /\ \A i \in 1..Len(messages) :
                 messages[i].kind \notin {"boundary", "snip_boundary"}
                    => messages[i].id \in folded \cup parted \cup Ids(new)
<1>1. /\ lastId \in Nat /\ Len(messages) \in Nat /\ DOMAIN messages = 1..Len(messages)
      /\ \A i \in 1..Len(messages) :
             /\ messages[i] \in Message(lastId) /\ messages[i] \in Message(MaxIds)
             /\ messages[i].id \in 1..lastId
      /\ foldCursor \in 0..lastId /\ request \in 0..lastId /\ messages \in Seq(Message(lastId))
      BY TypedMessages DEF TypeOK
<1>2. Running
      BY DEF CursorInv
<1>3. PICK q \in 1..Len(messages) : messages[q].kind = "user" /\ messages[q].id = request
      BY <1>2 DEF Running
<1>4. CASE foldCursor \notin Ids(messages)
  <2>1. new = messages
        BY <1>4 DEF MessagesSince
  <2>2. \A i \in 1..Len(messages) : messages[i].id \in Ids(new)
        BY <1>1, <2>1 DEF Ids
  <2>3. Len(new) > 0
        BY <1>1, <1>3, <2>1
  <2>. QED
       BY <1>1, <1>3, <2>1, <2>2, <2>3
<1>5. CASE foldCursor \in Ids(messages)
  <2> DEFINE C == {i \in DOMAIN messages : messages[i].id = foldCursor}
             b == First(messages, foldCursor)
  <2>1. C \subseteq Nat /\ C # {}
        BY <1>1, <1>5 DEF Ids
  <2>2. b \in C
        BY <2>1, MinIsLeast DEF First
  <2>. HIDE DEF b
  <2>3. b \in 1..Len(messages) /\ messages[b].id = foldCursor
        BY <1>1, <2>2
  <2>4. new = SubSeq(messages, b + 1, Len(messages))
        BY <1>5 DEF MessagesSince, b
  <2>5. /\ new \in Seq(Message(lastId)) /\ Len(new) = Len(messages) - b
        /\ \A k \in 1..Len(new) : new[k] = messages[b + k]
    <3>1. \A i \in (b + 1)..Len(messages) : messages[i] \in Message(lastId)
          BY <1>1, <2>3
    <3>2. /\ new \in Seq(Message(lastId))
          /\ Len(new) = IF b + 1 <= Len(messages) THEN Len(messages) - (b + 1) + 1 ELSE 0
          /\ \A i \in 1..(Len(messages) - (b + 1) + 1) : new[i] = messages[b + 1 + i - 1]
          BY <1>1, <2>3, <2>4, <3>1, SubSeqProperties
    <3>3. Len(new) = Len(messages) - b
      <4> DEFINE l == Len(messages)
                 e == Len(new)
      <4>1. l \in Nat /\ b \in 1..l /\ e = IF b + 1 <= l THEN l - (b + 1) + 1 ELSE 0
            BY <1>1, <2>3, <3>2
      <4>. HIDE DEF l, e
      <4>2. e = l - b
            BY <4>1
      <4>. QED
           BY <4>2 DEF l, e
    <3>4. \A k \in 1..Len(new) : k \in 1..(Len(messages) - (b + 1) + 1) /\ b + 1 + k - 1 = b + k
          BY <1>1, <2>3, <3>3
    <3>5. \A k \in 1..Len(new) : new[k] = messages[b + k]
          BY <3>2, <3>4
    <3>. QED
         BY <3>2, <3>3, <3>5
  <2>6. ASSUME NEW j \in 1..Len(messages), b < j
        PROVE  \E k \in 1..Len(new) : new[k] = messages[j]
    <3>1. j - b \in 1..Len(new) /\ b + (j - b) = j
          BY <1>1, <2>3, <2>5, <2>6
    <3>. QED
         BY <2>5, <3>1
  <2>7. \E k \in 1..Len(new) : new[k].kind = "user"
    <3>1. messages[q] \in Own(request)
          BY <1>1, <1>3 DEF Own
    <3>2. messages[b].id \in 1..(request - 1)
          BY <1>1, <1>2, <2>3 DEF Running
    <3>3. PICK j \in 1..Len(messages) : b < j /\ messages[j] = messages[q]
          BY <1>2, <2>3, <3>1, <3>2 DEF Running, Trails
    <3>. QED
         BY <1>3, <2>6, <3>3
  <2>8. ASSUME NEW i \in 1..Len(messages), messages[i].kind \notin {"boundary", "snip_boundary"},
               messages[i].id \notin folded \cup parted
        PROVE  messages[i].id \in Ids(new)
    <3>1. messages[i] \in Unread(folded \cup parted)
          BY <1>1, <2>8 DEF Unread
    <3>2. PICK j \in 1..Len(messages) : b < j /\ messages[j] = messages[i]
          BY <2>3, <3>1 DEF CursorInv, Trails
    <3>3. PICK k \in 1..Len(new) : new[k] = messages[i]
          BY <2>6, <3>2
    <3>4. k \in DOMAIN new
          BY <2>5
    <3>. QED
         BY <3>3, <3>4 DEF Ids
  <2>9. \A k \in 1..Len(new) : b + k \in 1..Len(messages)
        BY <1>1, <2>3, <2>5
  <2>10. Len(new) > 0
        BY <1>1, <2>5, <2>7
  <2>. QED
       BY <2>5, <2>7, <2>8, <2>9, <2>10
<1>. QED
     BY <1>4, <1>5

\* Each section names a message that it tells, and the users' section an input.
LEMMA SectionsTell ==
    ASSUME NEW n \in Nat, NEW new \in Seq(Message(n)), \E k \in 1..Len(new) : new[k].kind = "user",
           NEW mem, mem = ParseSections(new, Summarize(new))
    PROVE  /\ mem \in [{"users", "calls", "results", "work"} -> 0..n]
           /\ \E k \in 1..Len(new) : new[k].kind = "user" /\ new[k].id = mem.users
<1> DEFINE lines == Summarize(new)
           D     == {"users", "calls", "results", "work"}
<1>1. /\ Len(new) \in Nat /\ DOMAIN new = 1..Len(new)
      /\ \A k \in 1..Len(new) : new[k].id \in 0..n
  <2>1. \A m \in Message(n) : m.id \in 0..n
        BY DEF Message
  <2>2. /\ Len(new) \in Nat /\ DOMAIN new = 1..Len(new)
        /\ \A k \in 1..Len(new) : new[k] \in Message(n)
        OBVIOUS
  <2>. QED
       BY <2>1, <2>2
<1>2. \A kind : OfKind(new, kind) \subseteq 1..Len(new)
      BY <1>1 DEF OfKind
<1>3. OfKind(new, "text") # {} => Max(OfKind(new, "text")) \in OfKind(new, "text")
  <2>1. OfKind(new, "text") \subseteq 0..Len(new)
        BY <1>1, <1>2
  <2>. QED
       BY <1>1, <2>1, MaxIsGreatest
<1>4. /\ DOMAIN lines = D
      /\ \A s \in D : lines[s] \subseteq 1..Len(new)
      /\ lines["users"] = OfKind(new, "user")
      BY <1>2, <1>3 DEF Summarize
<1>. HIDE DEF lines
<1>5. mem = [s \in D |-> IF lines[s] = {} THEN 0 ELSE new[Min(lines[s])].id]
      BY <1>4 DEF ParseSections, lines
<1>6. \A s \in D : lines[s] # {} => Min(lines[s]) \in lines[s]
  <2>1. \A s \in D : lines[s] \subseteq Nat
        BY <1>1, <1>4
  <2>. QED
       BY <2>1, MinIsLeast
<1>7. ASSUME NEW s \in D PROVE (IF lines[s] = {} THEN 0 ELSE new[Min(lines[s])].id) \in 0..n
  <2>1. CASE lines[s] = {}
        BY <2>1
  <2>2. CASE lines[s] # {}
    <3>1. Min(lines[s]) \in 1..Len(new)
          BY <1>4, <1>6, <2>2
    <3>. QED
         BY <1>1, <2>2, <3>1
  <2>. QED
       BY <2>1, <2>2
<1>8. mem \in [D -> 0..n]
      BY <1>5, <1>7
<1>9. lines["users"] # {}
      BY <1>1, <1>4 DEF OfKind
<1>10. /\ Min(lines["users"]) \in 1..Len(new)
       /\ new[Min(lines["users"])].kind = "user"
       BY <1>4, <1>6, <1>9 DEF OfKind
<1>11. mem.users = new[Min(lines["users"])].id
      BY <1>5, <1>9
<1>. QED
     BY <1>8, <1>10, <1>11

\* What the new messages say takes the place of the previous memory, but for the work.
LEMMA UpdateTells ==
    ASSUME NEW n \in Nat, NEW new \in Seq(Message(n)), \E k \in 1..Len(new) : new[k].kind = "user",
           NEW state \in Memories(n), NEW blank \in BOOLEAN
    PROVE  /\ UpdateSessionMemory(state, new, blank) \in Memories(n)
           /\ \E k \in 1..Len(new) :
                 new[k].kind = "user" /\ new[k].id = UpdateSessionMemory(state, new, blank).users
<1> DEFINE mem == UpdateSessionMemory(state, new, blank)
           parsed == ParseSections(new, Summarize(new))
           before == IF state = Cold THEN 0 ELSE state.work
<1>1. /\ parsed \in [{"users", "calls", "results", "work"} -> 0..n]
      /\ \E k \in 1..Len(new) : new[k].kind = "user" /\ new[k].id = parsed.users
      BY SectionsTell
<1>. HIDE DEF parsed
<1>2. before \in 0..n
  <2>1. state # Cold => state \in [{"users", "calls", "results", "work"} -> 0..n]
        BY DEF Memories
  <2>. QED
       BY <2>1
<1>. HIDE DEF before
<1>3. mem = parsed \/ mem = [parsed EXCEPT !.work = before]
  <2>1. new # <<>>
        OBVIOUS
  <2>. QED
       BY <2>1 DEF UpdateSessionMemory, parsed, before
<1>. HIDE DEF mem
<1>4. /\ mem \in [{"users", "calls", "results", "work"} -> 0..n]
      /\ mem.users = parsed.users
      BY <1>1, <1>2, <1>3
<1>5. mem \in Memories(n)
      BY <1>4, Zenon DEF Memories
<1>. QED
     BY <1>1, <1>4, <1>5 DEF mem

LEMMA FoldStep ==
    ASSUME TypeOK, CursorInv, Fold PROVE TypeOK' /\ CursorInv'
<1> DEFINE new == MessagesSince(messages, foldCursor)
<1>1. /\ pc = "fold" /\ pc' = "idle"
      /\ \E blank \in BOOLEAN : memory' = UpdateSessionMemory(memory, new, blank)
      /\ new # <<>> => foldCursor' = new[Len(new)].id /\ folded' = folded \cup Ids(new)
      /\ UNCHANGED <<messages, lastId, extractCursor, turnsSince, inProgress, parted, slot, request,
                     wrote, hooksSince, cut, guarded>>
      BY DEF Fold, history
<1>2. /\ new \in Seq(Message(lastId)) /\ Len(new) > 0
      /\ \A k \in 1..Len(new) : \E i \in 1..Len(messages) : new[k] = messages[i]
      /\ \E k \in 1..Len(new) : new[k].kind = "user"
      /\ \A i \in 1..Len(messages) :
            messages[i].kind \notin {"boundary", "snip_boundary"}
               => messages[i].id \in folded \cup parted \cup Ids(new)
      BY <1>1, FoldReads
<1>. HIDE DEF new
<1>3. /\ lastId \in Nat /\ \A i \in 1..Len(messages) : messages[i].id \in 1..lastId
      BY TypedMessages
<1>4. /\ Len(new) \in 1..Len(new) /\ DOMAIN new = 1..Len(new) /\ new # <<>>
      /\ \A k \in 1..Len(new) : new[k].id \in 1..lastId
      BY <1>2, <1>3
<1>5. foldCursor' \in 1..lastId /\ folded' = folded \cup Ids(new)
      BY <1>1, <1>4
<1>6. Ids(new) \subseteq 1..lastId
      BY <1>4 DEF Ids
<1>7. memory \in Memories(lastId)
      BY DEF TypeOK
<1>8. /\ memory' \in Memories(lastId)
      /\ \E k \in 1..Len(new) : new[k].kind = "user" /\ new[k].id = memory'.users
  <2>1. PICK blank \in BOOLEAN : memory' = UpdateSessionMemory(memory, new, blank)
        BY <1>1
  <2>2. /\ UpdateSessionMemory(memory, new, blank) \in Memories(lastId)
        /\ \E k \in 1..Len(new) :
              new[k].kind = "user" /\ new[k].id = UpdateSessionMemory(memory, new, blank).users
        BY <1>2, <1>3, <1>7, UpdateTells
  <2>. QED
       BY <2>1, <2>2
<1>9. TypeOK'
  <2>1. {extractCursor', foldCursor', request'} \subseteq 0..lastId'
        BY <1>1, <1>3, <1>5, TypedMessages
  <2>2. folded' \subseteq 1..lastId'
        BY <1>1, <1>5, <1>6 DEF TypeOK
  <2>3. pc' \in Stages
        BY <1>1 DEF Stages
  <2>. QED
       BY <1>1, <1>8, <2>1, <2>2, <2>3 DEF TypeOK
<1>10. CursorInv'
  <2>1. /\ OneForm(messages') /\ OneForm(slot'.messages) /\ Tells(slot'.messages, slot'.memory)
        BY <1>1 DEF CursorInv
  <2>2. Tells(messages', memory')
    <3>1. PICK k \in 1..Len(new) : new[k].kind = "user" /\ new[k].id = memory'.users
          BY <1>8
    <3>2. PICK i \in 1..Len(messages) : new[k] = messages[i]
          BY <1>2
    <3>. QED
         BY <1>1, <3>1, <3>2 DEF Tells
  <2>3. \A i \in 1..Len(messages') : messages'[i] \notin Unread(folded' \cup parted')
        BY <1>1, <1>2, <1>5 DEF Unread
  <2>4. Trails(messages', Unread(folded' \cup parted'), {foldCursor'})
        BY <2>3 DEF Trails
  <2>. QED
       BY <1>1, <2>1, <2>2, <2>4 DEF CursorInv
<1>. QED
     BY <1>9, <1>10

-----------------------------------------------------------------------------
(* The other steps *)

\* A step that leaves the transcript, what is read of it and the fold's cursor alone.
LEMMA QuietKeeps ==
    ASSUME CursorInv, UNCHANGED <<messages, memory, folded, parted, slot, foldCursor, request>>,
           pc' # "tools", pc' # "idle" => Running'
    PROVE  CursorInv'
BY DEF CursorInv

LEMMA HookSteps ==
    ASSUME TypeOK, CursorInv, EnterHooks \/ Gates \/ Extracted \/ ExtractFails
    PROVE  TypeOK' /\ CursorInv'
<1>1. /\ UNCHANGED <<messages, lastId, memory, folded, parted, slot, foldCursor, request, wrote>>
      /\ pc \in {"hooks", "gates", "held", "extracting"}
      /\ pc' \in {"gates", "held", "fold", "extracting"} /\ (pc' = "gates" => pc = "hooks")
      BY DEF EnterHooks, Gates, Extracted, ExtractFails, history
<1>2. Running /\ pc # "fold"
      BY <1>1 DEF CursorInv
<1>3. extractCursor' = extractCursor \/ (Extracted /\ pc' = "fold")
      BY DEF EnterHooks, Gates, Extracted, ExtractFails
<1>4. Running'
      BY <1>1, <1>2, <1>3 DEF Running
<1>5. CursorInv'
      BY <1>1, <1>4, QuietKeeps
<1>6. extractCursor' \in 0..lastId /\ foldCursor' \in 0..lastId
  <2>1. CASE Extracted
    <3>1. extractCursor' = messages[Len(messages)].id
          BY <2>1 DEF Extracted
    <3>2. Len(messages) \in 1..Len(messages)
          BY <1>2, TypedMessages DEF Running
    <3>. QED
         BY <1>1, <3>1, <3>2, TypedMessages
  <2>. QED
       BY <1>1, <1>3, <2>1, TypedMessages
<1>7. /\ pc' \in Stages /\ turnsSince' \in Nat /\ hooksSince' \in Nat /\ guarded' \in Nat
      /\ inProgress' \in BOOLEAN /\ cut' \in BOOLEAN
  <2>1. /\ turnsSince \in Nat /\ hooksSince \in Nat /\ guarded \in Nat
        /\ inProgress \in BOOLEAN /\ cut \in BOOLEAN
        BY DEF TypeOK
  <2>2. pc' \in Stages
        BY <1>1 DEF Stages
  <2>3. CASE EnterHooks
    <3>1. /\ turnsSince' = turnsSince + 1 /\ hooksSince' = hooksSince + 1
          /\ inProgress' = TRUE /\ cut' = cut /\ guarded' = guarded
          BY <2>3, Zenon DEF EnterHooks
    <3>2. turnsSince' \in Nat /\ hooksSince' \in Nat
          BY <2>1, <3>1
    <3>. QED
         BY <2>1, <2>2, <3>1, <3>2
  <2>4. CASE Gates
    <3>1. turnsSince' = turnsSince /\ hooksSince' = hooksSince /\ cut' = FALSE
          BY <2>4, Zenon DEF Gates
    <3>2. guarded' \in {guarded + 1, 0}
          BY <2>4, Zenon DEF Gates
    <3>3. guarded' \in Nat
          BY <2>1, <3>2
    <3>4. inProgress' \in BOOLEAN
          BY <2>1, <2>4 DEF Gates
    <3>. QED
         BY <2>1, <2>2, <3>1, <3>3, <3>4
  <2>5. CASE Extracted \/ ExtractFails
    <3>1. /\ inProgress' = FALSE /\ cut' = cut /\ guarded' = guarded
          /\ turnsSince' \in {0, turnsSince} /\ hooksSince' \in {0, hooksSince}
          BY <2>5 DEF Extracted, ExtractFails, history
    <3>2. turnsSince' \in Nat /\ hooksSince' \in Nat
          BY <2>1, <3>1
    <3>. QED
         BY <2>1, <2>2, <3>1, <3>2
  <2>. QED
       BY <2>3, <2>4, <2>5
<1>. QED
     BY <1>1, <1>5, <1>6, <1>7, TypeKept

LEMMA IdleSteps ==
    ASSUME TypeOK, CursorInv, FoldFails \/ Interrupt \/ Save \/ Load PROVE TypeOK' /\ CursorInv'
<1>1. pc' = "idle" /\ lastId' = lastId /\ request' = request
      BY DEF FoldFails, Interrupt, Save, Load
<1>2. /\ turnsSince' = turnsSince /\ hooksSince' = hooksSince
      /\ inProgress' = inProgress /\ wrote' = wrote /\ extractCursor' = extractCursor
      BY DEF FoldFails, Interrupt, Save, Load, fields, history
<1>3. cut' \in BOOLEAN /\ guarded' \in Nat /\ pc' \in Stages
  <2>1. cut \in BOOLEAN /\ guarded \in Nat
        BY DEF TypeOK
  <2>2. cut' \in BOOLEAN
    <3>1. cut' = cut \/ cut' = (cut \/ pc \in {"gates", "held", "extracting"})
          BY Zenon DEF FoldFails, Interrupt, Save, Load, history
    <3>. QED
         BY <2>1, <3>1
  <2>3. guarded' \in {guarded, 0}
        BY <2>1 DEF FoldFails, Interrupt, Save, Load, history
  <2>4. guarded' \in Nat
        BY <2>1, <2>3
  <2>5. pc' \in Stages
        BY <1>1 DEF Stages
  <2>. QED
       BY <2>2, <2>4, <2>5
<1>4. CASE FoldFails \/ Interrupt
  <2>1. UNCHANGED <<messages, memory, folded, parted, slot, foldCursor>>
        BY <1>4 DEF FoldFails, Interrupt, fields
  <2>2. CursorInv'
        BY <1>1, <2>1, QuietKeeps
  <2>. QED
       BY <1>1, <1>2, <1>3, <2>1, <2>2 DEF TypeOK
<1>5. CASE Save
  <2>1. /\ slot' = [messages |-> messages, memory |-> memory, folded |-> folded]
        /\ UNCHANGED <<messages, memory, folded, parted, foldCursor>>
        BY <1>5 DEF Save, fields
  <2>2. CursorInv'
        BY <1>1, <2>1 DEF CursorInv
  <2>. QED
       BY <1>1, <1>2, <1>3, <2>1, <2>2 DEF TypeOK
<1>6. CASE Load
  <2>1. /\ messages' = slot.messages /\ memory' = slot.memory /\ folded' = slot.folded
        /\ foldCursor' = 0 /\ parted' = {} /\ slot' = slot
        BY <1>6 DEF Load
  <2>2. /\ slot.messages \in Seq(Message(lastId)) /\ slot.memory \in Memories(lastId)
        /\ slot.folded \subseteq 1..lastId /\ lastId \in Nat
        BY TypedMessages, Zenon DEF TypeOK
  <2>3. TypeOK'
    <3>1. {extractCursor', foldCursor', request'} \subseteq 0..lastId'
          BY <1>1, <1>2, <2>1, TypedMessages
    <3>. QED
         BY <1>1, <1>2, <1>3, <2>1, <2>2, <3>1 DEF TypeOK
  <2>4. Trails(messages', Unread(folded' \cup parted'), {foldCursor'})
    <3>1. \A m \in Message(lastId) : m.id # 0
          BY <2>2 DEF Message
    <3>2. \A k \in 1..Len(messages') : messages'[k].id # 0
          BY <2>1, <2>2, <3>1
    <3>. QED
         BY <2>1, <3>2 DEF Trails
  <2>5. CursorInv'
        BY <1>1, <2>1, <2>4 DEF CursorInv
  <2>. QED
       BY <2>3, <2>5
<1>. QED
     BY <1>4, <1>5, <1>6

-----------------------------------------------------------------------------
(* The invariant, and what follows of it *)

LEMMA CursorInvInit == Init => TypeOK /\ CursorInv
<1>. SUFFICES ASSUME Init PROVE TypeOK /\ CursorInv
     OBVIOUS
<1>1. /\ messages = <<>> /\ pc = "idle" /\ lastId = 0 /\ extractCursor = 0 /\ turnsSince = 0
      /\ inProgress = FALSE /\ foldCursor = 0 /\ memory = Cold /\ folded = {} /\ parted = {}
      /\ slot = [messages |-> <<>>, memory |-> Cold, folded |-> {}]
      /\ request = 0 /\ wrote = FALSE /\ hooksSince = 0 /\ cut = FALSE /\ guarded = 0
      BY DEF Init
<1>2. <<>> \in Seq(Message(0)) /\ Cold \in Memories(0) /\ Len(<<>>) = 0
      BY DEF Memories
<1>3. TypeOK
  <2>1. slot \in [messages : Seq(Message(0)), memory : Memories(0), folded : SUBSET (1..0)]
        BY <1>1, <1>2
  <2>2. pc \in Stages /\ 0 \in 0..MaxIds
        BY <1>1, Parameters DEF Stages
  <2>3. /\ messages \in Seq(Message(lastId)) /\ memory \in Memories(lastId)
        /\ folded \subseteq 1..lastId /\ parted \subseteq 1..lastId
        BY <1>1, <1>2
  <2>4. slot \in [messages : Seq(Message(lastId)), memory : Memories(lastId),
                  folded : SUBSET (1..lastId)]
        BY <1>1, <2>1
  <2>5. {extractCursor, foldCursor, request} \subseteq 0..lastId
        BY <1>1
  <2>. QED
       BY <1>1, <2>2, <2>3, <2>4, <2>5 DEF TypeOK
<1>4. CursorInv
      BY <1>1, <1>2 DEF CursorInv, OneForm, Tells, Trails
<1>. QED
     BY <1>3, <1>4

LEMMA CursorInvInductive == TypeOK /\ CursorInv /\ [Next]_vars => TypeOK' /\ CursorInv'
<1>. SUFFICES ASSUME TypeOK, CursorInv, [Next]_vars PROVE TypeOK' /\ CursorInv'
     OBVIOUS
<1>1. CASE UserInput
      BY <1>1, InputStep
<1>2. CASE CallTool \/ ToolReturns \/ CompactTranscript \/ EngineSnip \/ SnipHistory \/ EndRun
      BY <1>2, RunSteps
<1>3. CASE EnterHooks \/ Gates \/ Extracted \/ ExtractFails
      BY <1>3, HookSteps
<1>4. CASE Fold
      BY <1>4, FoldStep
<1>5. CASE FoldFails \/ Interrupt \/ Save \/ Load
      BY <1>5, IdleSteps
<1>6. CASE UNCHANGED vars
  <2>1. UNCHANGED <<messages, pc, lastId, extractCursor, turnsSince, inProgress, foldCursor, memory,
                    folded, parted, slot, request, wrote, hooksSince, cut, guarded>>
        BY <1>6 DEF vars, fields, history
  <2>2. TypeOK'
        BY <2>1 DEF TypeOK
  <2>3. CursorInv'
        BY <2>1 DEF CursorInv, Running
  <2>. QED
       BY <2>2, <2>3
<1>. QED
     BY <1>1, <1>2, <1>3, <1>4, <1>5, <1>6 DEF Next

\* The cursors and the transcript, whatever compaction, snips, ^C and /load do.
THEOREM CursorInvHolds == Spec => [](TypeOK /\ CursorInv)
BY CursorInvInit, CursorInvInductive, PTL DEF Spec

\* The transcript, the session memory, the cursors and the saved slot are what they
\* should be, in every state of the hooks.
THEOREM HookTypeCorrect == Spec => []TypeOK
BY CursorInvHolds, PTL

\* A session memory in use tells an input that is in the transcript, for any number of
\* runs, compactions, snips and loads.
THEOREM MemoryTellsInput == Spec => []WarmMemoryTellsInput
<1>1. TypeOK /\ CursorInv => WarmMemoryTellsInput
  <2>. SUFFICES ASSUME TypeOK, CursorInv, memory # Cold
                PROVE  \E i \in OfKind(messages, "user") : messages[i].id = memory.users
       BY DEF WarmMemoryTellsInput
  <2>1. PICK i \in 1..Len(messages) : messages[i].kind = "user" /\ messages[i].id = memory.users
        BY DEF CursorInv, Tells
  <2>. QED
       BY <2>1, TypedMessages DEF OfKind
<1>. QED
     BY <1>1, CursorInvHolds, PTL

\* No fold leaves a message unread that it should have read, whatever became of the
\* message that its cursor names.
THEOREM FoldIsComplete == Spec => FoldMissesNothing
<1>1. TypeOK /\ CursorInv /\ [Next]_vars
        => [Fold => \A i \in DOMAIN messages :
              messages[i].kind \notin {"boundary", "snip_boundary"}
                  => messages[i].id \in folded' \cup parted]_vars
  <2>. SUFFICES ASSUME TypeOK, CursorInv, Fold, NEW i \in DOMAIN messages,
                       messages[i].kind \notin {"boundary", "snip_boundary"}
                PROVE  messages[i].id \in folded' \cup parted
       OBVIOUS
  <2> DEFINE new == MessagesSince(messages, foldCursor)
  <2>1. /\ Len(new) > 0
        /\ messages[i].id \in folded \cup parted \cup Ids(new)
    <3>1. pc = "fold" /\ i \in 1..Len(messages)
          BY TypedMessages DEF Fold
    <3>. QED
         BY <3>1, FoldReads
  <2>2. new # <<>> => folded' = folded \cup Ids(new)
        BY DEF Fold
  <2>3. new # <<>>
        BY <2>1
  <2>. QED
       BY <2>1, <2>2, <2>3
<1>. QED
     BY <1>1, CursorInvHolds, PTL DEF Spec, FoldMissesNothing

\* After a run that wrote memory itself no extraction is tried while its cursor is in
\* the transcript: compaction's copies of older messages do not hide what was written.
THEOREM WritersAreLeftAlone == Spec => WriterIsNotSecondGuessed
<1>1. TypeOK /\ CursorInv /\ [Next]_vars
        => [Attempts /\ wrote => extractCursor # 0 /\ extractCursor \notin Ids(messages)]_vars
  <2>. SUFFICES ASSUME TypeOK, CursorInv, Next, Attempts, wrote,
                       extractCursor = 0 \/ extractCursor \in Ids(messages)
                PROVE  FALSE
       OBVIOUS
  <2>1. pc = "gates" /\ pc' = "extracting"
        BY DEF Attempts
  <2>2. Gates
    <3>1. ~(UserInput \/ CallTool \/ ToolReturns \/ CompactTranscript \/ EngineSnip
            \/ SnipHistory \/ EndRun)
          BY <2>1 DEF UserInput, CallTool, ToolReturns, CompactTranscript, EngineSnip,
                      SnipHistory, EndRun
    <3>2. ~(EnterHooks \/ Extracted \/ ExtractFails \/ Fold \/ FoldFails \/ Interrupt \/ Save \/ Load)
          BY <2>1 DEF EnterHooks, Extracted, ExtractFails, Fold, FoldFails, Interrupt, Save, Load
    <3>. QED
         BY <3>1, <3>2 DEF Next
  <2>3. ~HasMemoryWritesSince(messages, extractCursor)
        BY <2>1, <2>2 DEF Gates
  <2>4. Running
        BY <2>1 DEF CursorInv
  <2>5. PICK w \in 1..Len(messages) : WritesMemory(messages[w]) /\ messages[w].id >= request
        BY <2>1, <2>4 DEF Running
  <2>6. /\ Len(messages) \in Nat /\ DOMAIN messages = 1..Len(messages)
        /\ messages[w] \in Message(MaxIds) /\ request \in Nat /\ extractCursor < request
        /\ \A i \in 1..Len(messages) : messages[i].id \in Nat /\ messages[i].id # 0
        BY <2>1, <2>4, TypedMessages DEF Running
  <2>7. CASE extractCursor = 0
        BY <2>3, <2>5, <2>6, <2>7 DEF HasMemoryWritesSince
  <2>8. CASE extractCursor \in Ids(messages)
    <3> DEFINE C == {i \in DOMAIN messages : messages[i].id = extractCursor}
               b == First(messages, extractCursor)
    <3>1. C \subseteq Nat /\ C # {}
          BY <2>6, <2>8 DEF Ids
    <3>2. b \in C
          BY <3>1, MinIsLeast DEF First
    <3>. HIDE DEF b
    <3>3. b \in 1..Len(messages) /\ messages[b].id = extractCursor
          BY <2>6, <3>2
    <3>4. messages[w] \in Own(request) /\ messages[b].id \in 1..(request - 1)
          BY <2>5, <2>6, <3>3 DEF Own
    <3>5. PICK j \in 1..Len(messages) : b < j /\ messages[j] = messages[w]
          BY <2>4, <3>3, <3>4 DEF Running, Trails
    <3>6. messages[j].id # extractCursor
          BY <2>5, <2>6, <3>5
    <3>7. j > First(messages, extractCursor)
          BY <2>6, <3>3, <3>5 DEF b
    <3>. QED
         BY <2>3, <2>5, <2>6, <2>8, <3>5, <3>6, <3>7 DEF HasMemoryWritesSince
  <2>. QED
       BY <2>7, <2>8
<1>. QED
     BY <1>1, CursorInvHolds, PTL DEF Spec, WriterIsNotSecondGuessed
=============================================================================
