--------------------------- MODULE ConversationProofs ---------------------------
(****************************************************************************)
(* The conversation's transcript, for any tools, quotas and number of       *)
(* messages: what is true of it in every state, and what follows for the    *)
(* payload, for snip_history and for the engine's snip.                     *)
(****************************************************************************)
EXTENDS Conversation, CompactionProofs

\* What every step keeps.  Copies of a message lie on both sides of a boundary, their
\* results are cleared oldest first, and what came after the input is never only
\* before it.
Sound(ms) == OneKindPerId(ms) /\ CopiesApart(ms) /\ CallsDistinct(ms) /\ ClearedFirst(ms)

EndsInCalls(ms) == Len(ms) > 0 /\ ms[Len(ms)].kind = "use"

Invariant ==
    /\ TypeOK
    /\ Sound(messages)
    /\ pc # "idle" => HasInput(messages, request)
    /\ ResultsFollow(messages, request)
    /\ pc = "tools" => EndsInCalls(messages)

-----------------------------------------------------------------------------
(* The invariant *)

LEMMA InvariantInit == Init => Invariant
<1> SUFFICES ASSUME Init PROVE Invariant
    OBVIOUS
<1>1. messages = <<>> /\ Len(messages) = 0
      BY DEF Init
<1>2. messages \in Seq(Message(lastId))
      BY <1>1, EmptySeq
<1>3. TypeOK
  <2>1. /\ pc \in Stages /\ done \in Nat
        /\ snipAttempted \in BOOLEAN /\ reactive \in BOOLEAN
        /\ lastId \in 0..MaxIds /\ microAgainst \in 0..lastId /\ request \in 0..lastId
    <3>1. lastId = 0 /\ microAgainst = 0 /\ request = 0 /\ 0 \in 0..0 /\ 0 \in 0..MaxIds
          BY Bounds DEF Init
    <3>2. pc \in Stages /\ done \in Nat /\ snipAttempted \in BOOLEAN /\ reactive \in BOOLEAN
          BY DEF Init, Stages
    <3>. QED
         BY <3>1, <3>2
  <2>. QED
       BY <1>2, <2>1 DEF TypeOK
<1>4. OneKindPerId(messages) /\ CopiesApart(messages) /\ ResultsFollow(messages, request)
      BY <1>1 DEF OneKindPerId, CopiesApart, ResultsFollow
<1>5. \A kind : Places(messages, kind) = {}
  <2>1. \A kind : \A p \in Places(messages, kind) : p[1] \in 1..Len(messages)
        BY <1>2, PlacesAre
  <2>. QED
       BY <1>1, <2>1
<1>6. CallsDistinct(messages) /\ ClearedFirst(messages)
      BY <1>5 DEF CallsDistinct, ClearedFirst
<1>. QED
     BY <1>3, <1>4, <1>6 DEF Invariant, Sound, Init

\* An id that is taken is new.
LEMMA FreshIds ==
    ASSUME TypeOK, NEW n \in Nat \ {0}, Takes(n)
    PROVE  /\ lastId \in Nat /\ lastId' = lastId + n /\ lastId' \in 0..MaxIds
           /\ Message(lastId) \subseteq Message(lastId')
           /\ messages \in Seq(Message(lastId'))
           /\ Ids(messages) \subseteq 1..lastId
           /\ \A i \in 1..n : lastId + i \in 1..lastId' /\ lastId + i \notin Ids(messages)
<1>1. /\ lastId \in Nat /\ lastId' = lastId + n /\ lastId' \in 0..MaxIds
      BY Bounds DEF TypeOK, Takes
<1>2. Message(lastId) \subseteq Message(lastId') /\ messages \in Seq(Message(lastId'))
      BY <1>1, MessageMonotonic DEF TypeOK
<1>3. Ids(messages) \subseteq 1..lastId
  <2>1. \A i \in DOMAIN messages : messages[i].id \in 1..lastId
    <3>1. \A i \in DOMAIN messages : messages[i] \in Message(lastId)
          BY LenProperties DEF TypeOK
    <3>. QED
         BY <3>1, MessageParts
  <2>. QED
       BY <2>1 DEF Ids
<1>. QED
     BY <1>1, <1>2, <1>3

LEMMA LatestAssistantIsId == TypeOK => LatestAssistant \in 0..lastId
<1> SUFFICES ASSUME TypeOK PROVE LatestAssistant \in 0..lastId
    OBVIOUS
<1> DEFINE A == {i \in DOMAIN messages : Role(messages[i]) = "assistant"}
<1>1. messages \in Seq(Message(lastId)) /\ lastId \in Nat
      BY Bounds DEF TypeOK
<1>2. DOMAIN messages = 1..Len(messages) /\ Len(messages) \in Nat
      BY <1>1, LenProperties
<1>3. CASE A = {}
      BY <1>1, <1>3 DEF LatestAssistant
<1>4. CASE A # {}
  <2>1. A \subseteq 0..Len(messages)
        BY <1>2
  <2>2. Max(A) \in A
    <3>. HIDE DEF A
    <3>. QED
         BY <1>2, <1>4, <2>1, MaxIsGreatest
  <2>3. Max(A) \in 1..Len(messages)
        BY <1>2, <2>2
  <2>4. messages[Max(A)].id \in 1..lastId
    <3>. HIDE DEF A
    <3>. QED
         BY <1>1, <2>3, MessageParts
  <2>5. LatestAssistant = messages[Max(A)].id
        BY <1>4 DEF LatestAssistant
  <2>. QED
       BY <1>1, <2>4, <2>5
<1>. QED
     BY <1>3, <1>4

\* A step that leaves the transcript alone.
LEMMA SameMessages ==
    ASSUME Invariant, UNCHANGED <<messages, request>>, TypeOK',
           pc' # "idle" => pc # "idle", pc' = "tools" => pc = "tools"
    PROVE  Invariant'
BY DEF Invariant, Sound, EndsInCalls

\* A step that rewrites or shrinks it.
LEMMA LessMessages ==
    ASSUME Invariant, TypeOK', request' = request, pc # "idle", Sound(messages'),
           \A v : HasInput(messages, v) => HasInput(messages', v),
           \A v : ResultsFollow(messages, v) => ResultsFollow(messages', v),
           pc' = "tools" => EndsInCalls(messages')
    PROVE  Invariant'
BY DEF Invariant, Sound, EndsInCalls

LEMMA UserInputKeeps == Invariant /\ UserInput => Invariant'
<1> SUFFICES ASSUME Invariant, UserInput PROVE Invariant'
    OBVIOUS
<1> DEFINE m == UserText(lastId + 1)
<1>1. /\ TypeOK /\ Takes(1) /\ messages' = Append(messages, m) /\ request' = lastId + 1
      /\ pc' = "micro" /\ UNCHANGED <<done, microAgainst>> /\ snipAttempted' = FALSE /\ reactive' = FALSE
      BY DEF UserInput, Invariant
<1>2. /\ lastId \in Nat /\ lastId' = lastId + 1 /\ lastId' \in 0..MaxIds
      /\ messages \in Seq(Message(lastId')) /\ Ids(messages) \subseteq 1..lastId
      /\ lastId + 1 \in 1..lastId' /\ lastId + 1 \notin Ids(messages)
      BY <1>1, FreshIds
<1>3. m \in Message(lastId') /\ m.id = lastId + 1 /\ m.kind = "user" /\ m.items = <<>>
      BY <1>2, NewMessages DEF UserText
<1>. HIDE DEF m
<1>4. OneKindPerId(messages) /\ CopiesApart(messages) /\ CallsDistinct(messages) /\ ClearedFirst(messages)
      BY DEF Invariant, Sound
<1>5. /\ messages' \in Seq(Message(lastId')) /\ Sound(messages')
      /\ HasInput(messages', lastId + 1) /\ Ids(messages') = Ids(messages) \cup {m.id}
  <2>1. \A i, j \in 1..Len(m.items) : m.items[i].call = m.items[j].call => i = j
        BY <1>3
  <2>. QED
       BY <1>1, <1>2, <1>3, <1>4, <2>1, AppendingKeeps DEF Sound
<1>6. TypeOK'
  <2>1. lastId' \in 0..MaxIds /\ microAgainst' \in 0..lastId' /\ request' \in 0..lastId'
        BY <1>1, <1>2 DEF TypeOK
  <2>. QED
       BY <1>1, <1>5, <2>1 DEF TypeOK, Stages
<1>7. ResultsFollow(messages', request')
  <2>1. \A i \in 1..Len(messages') : ~(messages'[i].id > request')
    <3>1. DOMAIN messages' = 1..Len(messages')
          BY <1>5, LenProperties
    <3>2. \A i \in 1..Len(messages') : messages'[i].id \in 1..(lastId + 1)
      <4>1. \A i \in 1..Len(messages') : messages'[i].id \in Ids(messages) \cup {m.id}
            BY <1>5, <3>1 DEF Ids
      <4>. QED
           BY <1>2, <1>3, <4>1
    <3>. QED
         BY <1>1, <1>2, <3>2
  <2>2. \A p \in Places(messages', "result") : p[1] \in 1..Len(messages')
        BY <1>5, PlacesAre
  <2>. QED
       BY <2>1, <2>2 DEF ResultsFollow
<1>. QED
     BY <1>1, <1>5, <1>6, <1>7 DEF Invariant

LEMMA MicrocompactStep == Invariant /\ MaybeMicrocompact => Invariant'
<1> SUFFICES ASSUME Invariant, MaybeMicrocompact PROVE Invariant'
    OBVIOUS
<1>1. /\ TypeOK /\ pc = "micro" /\ pc' = "snip"
      /\ UNCHANGED <<done, snipAttempted, reactive, lastId, request>>
      BY DEF MaybeMicrocompact, Invariant
<1>2. CASE UNCHANGED <<messages, microAgainst>>
  <2>1. TypeOK'
        BY <1>1, <1>2 DEF TypeOK, Stages
  <2>. QED
       BY <1>1, <1>2, <2>1, SameMessages
<1>3. CASE messages' = Microcompact(messages) /\ microAgainst' = LatestAssistant
  <2>1. messages \in Seq(Message(lastId)) /\ Sound(messages)
        BY <1>1 DEF TypeOK, Invariant
  <2> DEFINE places == RepliesOf(messages, Compactable) \ RecentCompactable(messages)
  <2>2. /\ messages' \in Seq(Message(lastId)) /\ Rewritten(messages', messages, places, "cleared")
        /\ places \subseteq Places(messages, "result") /\ ClearedFirst(messages')
        BY <1>3, <2>1, MicrocompactKeeps DEF Sound
  <2>. HIDE DEF places
  <2>3. /\ OneKindPerId(messages) => OneKindPerId(messages')
        /\ CopiesApart(messages) => CopiesApart(messages')
        /\ CallsDistinct(messages) => CallsDistinct(messages')
        /\ \A u : HasInput(messages, u) => HasInput(messages', u)
        /\ \A u : ResultsFollow(messages, u) => ResultsFollow(messages', u)
        BY <2>1, <2>2, RewritingKeeps
  <2>4. Sound(messages')
        BY <2>1, <2>2, <2>3 DEF Sound
  <2>5. TypeOK'
    <3>1. microAgainst' \in 0..lastId
          BY <1>1, <1>3, LatestAssistantIsId
    <3>. QED
         BY <1>1, <2>2, <3>1 DEF TypeOK, Stages
  <2>. QED
       BY <1>1, <2>3, <2>4, <2>5, LessMessages
<1>. QED
     BY <1>2, <1>3 DEF MaybeMicrocompact

\* A compaction in a step, proactive or reactive.
LEMMA Compacts ==
    ASSUME Invariant, Takes(1), messages' = Compact(messages, lastId + 1)
    PROVE  /\ messages' \in Seq(Message(lastId')) /\ Sound(messages')
           /\ \A v : HasInput(messages, v) => HasInput(messages', v)
           /\ \A v : ResultsFollow(messages, v) => ResultsFollow(messages', v)
<1> DEFINE u == lastId + 1
           n == lastId'
<1>1. TypeOK
      BY DEF Invariant
<1>2. messages \in Seq(Message(n)) /\ u \in 1..n /\ u \notin Ids(messages)
      BY <1>1, FreshIds
<1>3. OneKindPerId(messages) /\ CopiesApart(messages) /\ CallsDistinct(messages) /\ ClearedFirst(messages)
      BY DEF Invariant, Sound
<1>. HIDE DEF u, n
<1>4. messages' = Compact(messages, u)
      BY DEF u
<1>5. messages' \in Seq(Message(n)) /\ \E d : Compacted(messages', messages, u, d)
      BY <1>2, <1>4, CompactKeeps
<1>6. PICK d : Compacted(messages', messages, u, d)
      BY <1>5
<1>7. /\ OneKindPerId(messages') /\ CopiesApart(messages') /\ CallsDistinct(messages')
      /\ ClearedFirst(messages')
      /\ \A v : HasInput(messages, v) => HasInput(messages', v)
      /\ \A v : ResultsFollow(messages, v) => ResultsFollow(messages', v)
      BY <1>2, <1>3, <1>5, <1>6, CompactingKeeps
<1>. QED
     BY <1>5, <1>7 DEF Sound, n

\* What a step that takes an id needs of the other variables.
LEMMA StillTyped ==
    ASSUME TypeOK, NEW n \in Nat \ {0}, Takes(n), messages' \in Seq(Message(lastId')),
           pc' \in Stages, done' \in Nat, snipAttempted' \in BOOLEAN, reactive' \in BOOLEAN,
           UNCHANGED <<microAgainst, request>>
    PROVE  TypeOK'
<1>1. /\ lastId \in Nat /\ lastId' = lastId + n /\ lastId' \in 0..MaxIds
      BY FreshIds
<1>2. microAgainst' \in 0..lastId' /\ request' \in 0..lastId'
      BY <1>1 DEF TypeOK
<1>. QED
     BY <1>1, <1>2 DEF TypeOK

LEMMA SnipStep == Invariant /\ MaybeSnip => Invariant'
<1> SUFFICES ASSUME Invariant, MaybeSnip PROVE Invariant'
    OBVIOUS
<1>1. /\ TypeOK /\ pc = "snip" /\ pc' = "compact" /\ UNCHANGED <<done, microAgainst, reactive, request>>
      BY DEF MaybeSnip, Invariant
<1>2. CASE UNCHANGED <<messages, snipAttempted, lastId>>
  <2>1. TypeOK'
        BY <1>1, <1>2 DEF TypeOK, Stages
  <2>. QED
       BY <1>1, <1>2, <2>1, SameMessages
<1>3. ASSUME snipAttempted' = TRUE, Takes(1),
             NEW k \in 0..Cardinality(ClearedMessages(messages)),
             messages' = Snip(messages, k, lastId + 1)
      PROVE  Invariant'
  <2> DEFINE u == lastId + 1
             n == lastId'
  <2>1. messages \in Seq(Message(n)) /\ u \in 1..n /\ u \notin Ids(messages)
        BY <1>1, <1>3, FreshIds
  <2>2. /\ OneKindPerId(messages) /\ CopiesApart(messages) /\ CallsDistinct(messages)
        /\ ClearedFirst(messages)
        BY DEF Invariant, Sound
  <2>3. k \in Int /\ messages' = Snip(messages, k, u)
        BY <1>3
  <2>. HIDE DEF u, n
  <2>4. /\ messages' \in Seq(Message(n))
        /\ OneKindPerId(messages') /\ CopiesApart(messages') /\ CallsDistinct(messages')
        /\ ClearedFirst(messages')
        /\ \A v : HasInput(messages, v) => HasInput(messages', v)
        /\ \A v : ResultsFollow(messages, v) => ResultsFollow(messages', v)
        BY <2>1, <2>2, <2>3, SnipKeeps
  <2>5. TypeOK'
    <3>1. /\ done' \in Nat /\ reactive' \in BOOLEAN /\ snipAttempted' \in BOOLEAN /\ pc' \in Stages
          /\ UNCHANGED <<microAgainst, request>> /\ messages' \in Seq(Message(lastId'))
          BY <1>1, <1>3, <2>4 DEF TypeOK, Stages, n
    <3>. QED
         BY <1>1, <1>3, <3>1, StillTyped
  <2>6. Sound(messages')
        BY <2>4 DEF Sound
  <2>. QED
       BY <1>1, <2>4, <2>5, <2>6, LessMessages
<1>. QED
     BY <1>2, <1>3 DEF MaybeSnip

LEMMA CompactStep == Invariant /\ MaybeCompact => Invariant'
<1> SUFFICES ASSUME Invariant, MaybeCompact PROVE Invariant'
    OBVIOUS
<1>1. /\ TypeOK /\ pc = "compact" /\ pc' = "call"
      /\ UNCHANGED <<done, snipAttempted, microAgainst, reactive, request>>
      BY DEF MaybeCompact, Invariant
<1>2. CASE UNCHANGED <<messages, lastId>>
  <2>1. TypeOK'
        BY <1>1, <1>2 DEF TypeOK, Stages
  <2>. QED
       BY <1>1, <1>2, <2>1, SameMessages
<1>3. CASE messages' = Compact(messages, lastId + 1) /\ Takes(1)
  <2>1. /\ messages' \in Seq(Message(lastId')) /\ Sound(messages')
        /\ \A v : HasInput(messages, v) => HasInput(messages', v)
        /\ \A v : ResultsFollow(messages, v) => ResultsFollow(messages', v)
        BY <1>3, Compacts
  <2>2. TypeOK'
    <3>1. done' \in Nat /\ reactive' \in BOOLEAN /\ snipAttempted' \in BOOLEAN /\ pc' \in Stages
          BY <1>1 DEF TypeOK, Stages
    <3>. QED
         BY <1>1, <1>3, <2>1, <3>1, StillTyped
  <2>. QED
       BY <1>1, <2>1, <2>2, LessMessages
<1>. QED
     BY <1>2, <1>3 DEF MaybeCompact

LEMMA ReactiveStep == Invariant /\ ReactiveCompact => Invariant'
<1> SUFFICES ASSUME Invariant, ReactiveCompact PROVE Invariant'
    OBVIOUS
<1>1. /\ TypeOK /\ pc = "call" /\ pc' = "call" /\ reactive' = TRUE
      /\ messages' = Compact(messages, lastId + 1) /\ Takes(1)
      /\ UNCHANGED <<done, snipAttempted, microAgainst, request>>
      BY DEF ReactiveCompact, Invariant
<1>2. /\ messages' \in Seq(Message(lastId')) /\ Sound(messages')
      /\ \A v : HasInput(messages, v) => HasInput(messages', v)
      /\ \A v : ResultsFollow(messages, v) => ResultsFollow(messages', v)
      BY <1>1, Compacts
<1>3. TypeOK'
  <2>1. done' \in Nat /\ reactive' \in BOOLEAN /\ snipAttempted' \in BOOLEAN /\ pc' \in Stages
        BY <1>1 DEF TypeOK, Stages
  <2>. QED
       BY <1>1, <1>2, <2>1, StillTyped
<1>. QED
     BY <1>1, <1>2, <1>3, LessMessages

\* An assistant's or a result message at the end.
LEMMA Appends ==
    ASSUME Invariant, NEW n, messages \in Seq(Message(n)), NEW m \in Message(n),
           m.id \notin Ids(messages), m.kind # "user",
           \A i, j \in 1..Len(m.items) : m.items[i].call = m.items[j].call => i = j
    PROVE  LET r == Append(messages, m)
           IN  /\ r \in Seq(Message(n)) /\ Len(r) = Len(messages) + 1 /\ r[Len(r)] = m /\ Sound(r)
               /\ \A v : HasInput(messages, v) => HasInput(r, v)
               /\ \A v : ResultsFollow(messages, v) => ResultsFollow(r, v)
               /\ Ids(r) = Ids(messages) \cup {m.id}
<1>1. OneKindPerId(messages) /\ CopiesApart(messages) /\ CallsDistinct(messages) /\ ClearedFirst(messages)
      BY DEF Invariant, Sound
<1>. QED
     BY <1>1, AppendingKeeps DEF Sound

LEMMA AnswerTextStep == Invariant /\ AnswerText => Invariant'
<1> SUFFICES ASSUME Invariant, AnswerText PROVE Invariant'
    OBVIOUS
<1> DEFINE m == AssistantText(lastId + 1)
<1>1. /\ TypeOK /\ pc = "call" /\ pc' = "idle" /\ Takes(1) /\ messages' = Append(messages, m)
      /\ UNCHANGED <<done, snipAttempted, microAgainst, reactive, request>>
      BY DEF AnswerText, Invariant
<1>2. /\ messages \in Seq(Message(lastId')) /\ lastId + 1 \in 1..lastId'
      /\ lastId + 1 \notin Ids(messages)
      BY <1>1, FreshIds
<1>3. m \in Message(lastId') /\ m.id = lastId + 1 /\ m.kind = "text" /\ m.items = <<>>
      BY <1>2, NewMessages DEF AssistantText
<1>. HIDE DEF m
<1>4. \A i, j \in 1..Len(m.items) : m.items[i].call = m.items[j].call => i = j
      BY <1>3
<1>5. /\ messages' \in Seq(Message(lastId')) /\ Sound(messages')
      /\ \A v : HasInput(messages, v) => HasInput(messages', v)
      /\ \A v : ResultsFollow(messages, v) => ResultsFollow(messages', v)
      BY <1>1, <1>2, <1>3, <1>4, Appends
<1>6. TypeOK'
  <2>1. done' \in Nat /\ reactive' \in BOOLEAN /\ snipAttempted' \in BOOLEAN /\ pc' \in Stages
        BY <1>1 DEF TypeOK, Stages
  <2>. QED
       BY <1>1, <1>5, <2>1, StillTyped
<1>. QED
     BY <1>1, <1>5, <1>6, LessMessages

\* The steps that leave the transcript as it is.
LEMMA QuietSteps ==
    ASSUME Invariant, AnswerNothing \/ ExecuteOther \/ Interrupt \/ UNCHANGED vars
    PROVE  Invariant'
<1>1. /\ TypeOK /\ UNCHANGED <<messages, request, snipAttempted, microAgainst, reactive, lastId>>
      /\ pc' # "idle" => pc # "idle"
      /\ pc' = "tools" => pc = "tools"
      BY DEF Invariant, AnswerNothing, ExecuteOther, Interrupt, vars
<1>2. pc' \in Stages /\ done' \in Nat
      BY DEF Invariant, TypeOK, Stages, AnswerNothing, ExecuteOther, Interrupt, vars
<1>3. TypeOK'
      BY <1>1, <1>2 DEF TypeOK
<1>. QED
     BY <1>1, <1>3, SameMessages

\* An answer with calls appends a text or none, and the calls under new numbers.
LEMMA AnswerToolsShape ==
    ASSUME Invariant, AnswerTools
    PROVE  \E ms, m :
              /\ ms \in Seq(Message(lastId')) /\ m \in Message(lastId')
              /\ messages' = Append(ms, m) /\ m.kind = "use"
              /\ lastId \in Nat /\ lastId' \in Nat
              /\ \A i \in 1..Len(m.items) : m.items[i].call \in (lastId + 1)..lastId'
              /\ \A i, j \in 1..Len(m.items) : m.items[i].call = m.items[j].call => i = j
              /\ ms = messages \/ \E w : /\ w \in Message(lastId') /\ ms = Append(messages, w)
                                       /\ w.kind = "text" /\ w.items = <<>>
              /\ Sound(ms) /\ m.id \notin Ids(ms)
              /\ \A v : HasInput(messages, v) => HasInput(ms, v)
              /\ \A v : ResultsFollow(messages, v) => ResultsFollow(ms, v)
              /\ messages' \in Seq(Message(lastId')) => TypeOK'
<1>1. /\ TypeOK /\ pc = "call" /\ pc' = "tools" /\ done' = 0
      /\ UNCHANGED <<snipAttempted, microAgainst, reactive, request>>
      BY DEF AnswerTools, Invariant
<1>2a. PICK c \in 1..MaxCalls, text \in {0, 1} :
          /\ Takes(text + 1 + c)
          /\ \E tools \in [1..c -> AllTools] :
                messages' =
                    messages
                    \o (IF text = 1 THEN <<AssistantText(lastId + 1)>> ELSE <<>>)
                    \o <<ToolUse(lastId + text + 1,
                            [j \in 1..c |-> [call |-> lastId + text + 1 + j, tool |-> tools[j]]])>>
       BY DEF AnswerTools
<1>2. PICK tools \in [1..c -> AllTools] :
         messages' =
             messages
             \o (IF text = 1 THEN <<AssistantText(lastId + 1)>> ELSE <<>>)
             \o <<ToolUse(lastId + text + 1,
                     [j \in 1..c |-> [call |-> lastId + text + 1 + j, tool |-> tools[j]]])>>
      BY <1>2a
<1> DEFINE n  == lastId'
           u  == lastId + text + 1
           calls == [j \in 1..c |-> [call |-> lastId + text + 1 + j, tool |-> tools[j]]]
           m  == ToolUse(u, calls)
           w  == AssistantText(lastId + 1)
           ms == IF text = 1 THEN Append(messages, w) ELSE messages
<1>3. c \in Nat /\ c >= 1 /\ text + 1 + c \in Nat \ {0}
      BY Bounds
<1>4. /\ lastId \in Nat /\ lastId' = lastId + (text + 1 + c)
      /\ messages \in Seq(Message(n)) /\ Ids(messages) \subseteq 1..lastId
      BY <1>1, <1>2a, <1>3, FreshIds
<1>5. /\ u \in 1..n /\ lastId + 1 \in 1..n /\ u \notin Ids(messages) /\ lastId + 1 \notin Ids(messages)
      BY <1>3, <1>4
<1>6. w \in Message(n) /\ w.id = lastId + 1 /\ w.kind = "text" /\ w.items = <<>>
      BY <1>5, NewMessages DEF AssistantText
<1>7. calls \in Seq(Calls) \ {<<>>} /\ DOMAIN calls = 1..c /\ Len(calls) = c
  <2>1. calls \in [1..c -> Calls]
    <3>1. \A j \in 1..c : lastId + text + 1 + j \in Nat /\ tools[j] \in AllTools
          BY <1>3, <1>4
    <3>. QED
         BY <3>1 DEF Calls
  <2>. HIDE DEF calls
  <2>2. DOMAIN calls = 1..c /\ calls \in Seq(Calls) /\ Len(calls) = c
        BY <1>3, <2>1
  <2>. QED
       BY <1>3, <2>2
<1>8. /\ \A i, j \in 1..c : calls[i].call = calls[j].call => i = j
      /\ \A i \in 1..c : calls[i].call \in (lastId + 1)..lastId'
      BY <1>3, <1>4
<1>9. m = [id |-> u, kind |-> "use", items |-> calls]
      BY DEF ToolUse
<1>. HIDE DEF calls, u, w, m
<1>10. m \in Message(n) /\ m.id = u /\ m.kind = "use" /\ m.items = calls
  <2>1. "use" \in Kinds
        BY DEF Kinds
  <2>. QED
       BY <1>5, <1>7, <1>9, <2>1, MakeMessage
<1>11. messages' = Append(ms, m)
  <2>1. CASE text = 1
    <3>1. messages' = messages \o <<w>> \o <<m>>
          BY <1>2, <2>1 DEF w, m, u, calls
    <3>. QED
      <4>1. messages \o <<w>> = Append(messages, w) /\ Append(messages, w) \in Seq(Message(n))
            BY <1>4, <1>6, AppendProperties, AppendIsConcat
      <4>2. Append(messages, w) \o <<m>> = Append(Append(messages, w), m)
            BY <1>10, <4>1, AppendIsConcat
      <4>. QED
           BY <2>1, <3>1, <4>1, <4>2 DEF ms
  <2>2. CASE text = 0
    <3>1. messages' = messages \o <<>> \o <<m>>
          BY <1>2, <2>2 DEF w, m, u, calls
    <3>. QED
         BY <1>4, <1>10, <2>2, <3>1
  <2>. QED
       BY <2>1, <2>2
<1>12. /\ ms \in Seq(Message(n)) /\ Sound(ms) /\ u \notin Ids(ms)
       /\ \A v : HasInput(messages, v) => HasInput(ms, v)
       /\ \A v : ResultsFollow(messages, v) => ResultsFollow(ms, v)
  <2>1. CASE text = 1
    <3>1. \A i, j \in 1..Len(w.items) : w.items[i].call = w.items[j].call => i = j
          BY <1>6
    <3>2. LET r == Append(messages, w)
          IN  /\ r \in Seq(Message(n)) /\ Sound(r)
              /\ \A v : HasInput(messages, v) => HasInput(r, v)
              /\ \A v : ResultsFollow(messages, v) => ResultsFollow(r, v)
              /\ Ids(r) = Ids(messages) \cup {w.id}
          BY <1>4, <1>5, <1>6, <3>1, Appends
    <3>3. u # lastId + 1
          BY <1>4, <2>1 DEF u
    <3>. QED
         BY <1>5, <1>6, <2>1, <3>2, <3>3
  <2>2. CASE text = 0
        BY <1>4, <1>5, <2>2 DEF Invariant
  <2>. QED
       BY <2>1, <2>2
<1>. HIDE DEF ms
<1>13. \A i, j \in 1..Len(m.items) : m.items[i].call = m.items[j].call => i = j
       BY <1>7, <1>8, <1>10
<1>14. \A i \in 1..Len(m.items) : m.items[i].call \in (lastId + 1)..lastId'
       BY <1>7, <1>8, <1>10
<1>15. ms = messages \/ \E x : /\ x \in Message(lastId') /\ ms = Append(messages, x)
                              /\ x.kind = "text" /\ x.items = <<>>
       BY <1>6 DEF ms, n
<1>16. ASSUME messages' \in Seq(Message(lastId')) PROVE TypeOK'
  <2>1. done' \in Nat /\ reactive' \in BOOLEAN /\ snipAttempted' \in BOOLEAN /\ pc' \in Stages
        BY <1>1 DEF TypeOK, Stages
  <2>. QED
       BY <1>1, <1>2a, <1>3, <1>16, <2>1, StillTyped
<1>17. lastId \in Nat /\ lastId' \in Nat
       BY <1>3, <1>4
<1>18. ms \in Seq(Message(lastId')) /\ m \in Message(lastId') /\ m.kind = "use" /\ m.id \notin Ids(ms)
       BY <1>10, <1>12 DEF n
<1>. QED
     BY <1>11, <1>12, <1>13, <1>14, <1>15, <1>16, <1>17, <1>18

LEMMA AnswerToolsStep == Invariant /\ AnswerTools => Invariant'
<1> SUFFICES ASSUME Invariant, AnswerTools PROVE Invariant'
    OBVIOUS
<1> DEFINE n == lastId'
<1>1. pc = "call" /\ request' = request
      BY DEF AnswerTools
<1>2. PICK ms, m :
         /\ ms \in Seq(Message(n)) /\ m \in Message(n)
         /\ messages' = Append(ms, m) /\ m.kind = "use"
         /\ \A i, j \in 1..Len(m.items) : m.items[i].call = m.items[j].call => i = j
         /\ Sound(ms) /\ m.id \notin Ids(ms)
         /\ \A v : HasInput(messages, v) => HasInput(ms, v)
         /\ \A v : ResultsFollow(messages, v) => ResultsFollow(ms, v)
         /\ messages' \in Seq(Message(n)) => TypeOK'
      BY AnswerToolsShape
<1>3. /\ messages' \in Seq(Message(n)) /\ Sound(messages') /\ EndsInCalls(messages')
      /\ \A v : HasInput(ms, v) => HasInput(messages', v)
      /\ \A v : ResultsFollow(ms, v) => ResultsFollow(messages', v)
  <2>1. OneKindPerId(ms) /\ CopiesApart(ms) /\ CallsDistinct(ms) /\ ClearedFirst(ms)
        BY <1>2 DEF Sound
  <2>2. Len(ms) \in Nat /\ m.kind # "user"
        BY <1>2, LenProperties
  <2>3. LET r == Append(ms, m)
        IN  /\ r \in Seq(Message(n)) /\ Len(r) = Len(ms) + 1 /\ r[Len(r)] = m
            /\ OneKindPerId(r) /\ CopiesApart(r) /\ CallsDistinct(r) /\ ClearedFirst(r)
            /\ \A v : HasInput(ms, v) => HasInput(r, v)
            /\ m.kind # "user" => \A v : ResultsFollow(ms, v) => ResultsFollow(r, v)
            /\ m.kind = "user" => HasInput(r, m.id)
            /\ Ids(r) = Ids(ms) \cup {m.id}
        BY <1>2, <2>1, <2>2, AppendingKeeps
  <2>. QED
       BY <1>2, <2>2, <2>3 DEF Sound, EndsInCalls
<1>. QED
     BY <1>1, <1>2, <1>3, LessMessages

\* The end of a batch appends a full result for each of its calls.
LEMMA EndBatchShape ==
    ASSUME Invariant, EndBatch
    PROVE  \E m :
              /\ messages \in Seq(Message(lastId')) /\ m \in Message(lastId')
              /\ messages' = Append(messages, m) /\ m.id \notin Ids(messages)
              /\ m.kind = "result" /\ Len(m.items) = Len(Batch) /\ Len(Batch) \in Nat \ {0}
              /\ \A i \in 1..Len(Batch) : m.items[i].call = Batch[i].call /\ m.items[i].body = "full"
              /\ \A i, j \in 1..Len(m.items) : m.items[i].call = m.items[j].call => i = j
<1> DEFINE n == lastId'
           m == ToolResults(lastId + 1, Replies(Batch))
           last == messages[Len(messages)]
<1>1. /\ TypeOK /\ pc = "tools" /\ pc' \in {"micro", "idle"} /\ done' = 0 /\ Takes(1)
      /\ messages' = Append(messages, m) /\ UNCHANGED <<snipAttempted, microAgainst, reactive, request>>
      BY DEF EndBatch, Invariant
<1>2. /\ messages \in Seq(Message(n)) /\ lastId + 1 \in 1..n /\ lastId + 1 \notin Ids(messages)
      BY <1>1, FreshIds
<1>3. Len(messages) \in 1..Len(messages) /\ last \in Message(n) /\ last.kind = "use"
      BY <1>1, <1>2, LenProperties DEF Invariant, EndsInCalls
<1>4. Batch = last.items /\ Batch \in Seq(Calls) \ {<<>>}
      BY <1>3, MessageParts DEF Batch
<1>5. /\ Len(Batch) \in Nat \ {0} /\ DOMAIN Batch = 1..Len(Batch)
      /\ \A j \in 1..Len(Batch) : Batch[j].call \in Nat
  <2>1. \A j \in 1..Len(Batch) : Batch[j] \in Calls
        BY <1>4, ElementOfSeq
  <2>2. Len(Batch) # 0
        BY <1>4, EmptySeq
  <2>. QED
       BY <1>4, <2>1, <2>2, LenProperties DEF Calls
<1> DEFINE reps == Replies(Batch)
<1>6. /\ reps = [j \in 1..Len(Batch) |-> [call |-> Batch[j].call, body |-> "full"]]
      BY <1>5 DEF Replies
<1>7. reps \in Seq(Results) \ {<<>>} /\ Len(reps) = Len(Batch)
  <2>1. reps \in [1..Len(Batch) -> Results]
        BY <1>5, <1>6 DEF Results, Bodies
  <2>. HIDE DEF reps
  <2>2. DOMAIN reps = 1..Len(Batch) /\ reps \in Seq(Results) /\ Len(reps) = Len(Batch)
        BY <1>5, <2>1
  <2>. QED
       BY <1>5, <2>2
<1>8. \A i, j \in 1..Len(reps) : reps[i].call = reps[j].call => i = j
  <2> SUFFICES ASSUME NEW i \in 1..Len(reps), NEW j \in 1..Len(reps), reps[i].call = reps[j].call
               PROVE  i = j
      OBVIOUS
  <2> DEFINE l == Len(messages)
             p == <<l, i>>
             q == <<l, j>>
  <2>1. /\ i \in 1..Len(last.items) /\ j \in 1..Len(last.items)
        /\ last.items[i].call = last.items[j].call
        BY <1>4, <1>6, <1>7
  <2>2. p \in Places(messages, "use") /\ q \in Places(messages, "use")
        BY <1>2, <1>3, <2>1, PlacesAre
  <2>3. p[1] = q[1] /\ At(messages, p) = last.items[i] /\ At(messages, q) = last.items[j]
        BY DEF At
  <2>. HIDE DEF p, q
  <2>4. p = q
        BY <2>1, <2>2, <2>3 DEF Invariant, Sound, CallsDistinct
  <2>. QED
       BY <2>4 DEF p, q
<1>9. m = [id |-> lastId + 1, kind |-> "result", items |-> reps]
      BY DEF ToolResults
<1>. HIDE DEF m, reps
<1>10. m \in Message(n) /\ m.id = lastId + 1 /\ m.kind = "result" /\ m.items = reps
  <2>1. "result" \in Kinds
        BY DEF Kinds
  <2>. QED
       BY <1>2, <1>7, <1>9, <2>1, MakeMessage
<1>11. \A i \in 1..Len(Batch) : m.items[i].call = Batch[i].call /\ m.items[i].body = "full"
       BY <1>6, <1>10
<1>. QED
     BY <1>1, <1>2, <1>5, <1>7, <1>8, <1>10, <1>11

LEMMA EndBatchStep == Invariant /\ EndBatch => Invariant'
<1> SUFFICES ASSUME Invariant, EndBatch PROVE Invariant'
    OBVIOUS
<1>1. /\ TypeOK /\ pc = "tools" /\ pc' \in {"micro", "idle"} /\ done' = 0 /\ Takes(1)
      /\ UNCHANGED <<snipAttempted, microAgainst, reactive, request>>
      BY DEF EndBatch, Invariant
<1>2. PICK m :
         /\ messages \in Seq(Message(lastId')) /\ m \in Message(lastId')
         /\ messages' = Append(messages, m) /\ m.id \notin Ids(messages) /\ m.kind = "result"
         /\ \A i, j \in 1..Len(m.items) : m.items[i].call = m.items[j].call => i = j
      BY EndBatchShape
<1>3. /\ messages' \in Seq(Message(lastId')) /\ Sound(messages')
      /\ \A v : HasInput(messages, v) => HasInput(messages', v)
      /\ \A v : ResultsFollow(messages, v) => ResultsFollow(messages', v)
      BY <1>2, Appends
<1>4. TypeOK'
  <2>1. done' \in Nat /\ reactive' \in BOOLEAN /\ snipAttempted' \in BOOLEAN /\ pc' \in Stages
        BY <1>1 DEF TypeOK, Stages
  <2>. QED
       BY <1>1, <1>3, <2>1, StillTyped
<1>. QED
     BY <1>1, <1>3, <1>4, LessMessages

\* snip_history leaves the message of the calls, which is not a result, at the end.
LEMMA SnipHistoryKeepsEnd ==
    ASSUME NEW n, NEW ms \in Seq(Message(n)), NEW us, Accepts(ms, us), OneKindPerId(ms),
           EndsInCalls(ms)
    PROVE  LET r == SnipHistory(ms, us)
           IN  /\ EndsInCalls(r)
               /\ \A q \in Places(r, "use") : q[1] = Len(r) =>
                     \E p \in Places(ms, "use") : p[1] = Len(ms) /\ At(r, q) = At(ms, p)
<1> DEFINE K == {i \in DOMAIN ms : ms[i].id \notin us}
           r == SnipHistory(ms, us)
<1>1. r \in Seq(Message(n)) /\ \E t, g : Thinned(r, ms, K, {}, 0, t, g)
      BY SnipHistoryShape
<1>. HIDE DEF r
<1>2. PICK t, g : Thinned(r, ms, K, {}, 0, t, g)
      BY <1>1
<1>3. /\ Len(ms) \in Nat /\ DOMAIN ms = 1..Len(ms) /\ Len(r) \in Nat
      /\ \A k \in 1..Len(r) : r[k].id \in 1..n
      BY <1>1, LenProperties, MessageParts
<1>4. K \subseteq 1..Len(ms) /\ Len(ms) \in K
  <2>1. Len(ms) \in 1..Len(ms) /\ ms[Len(ms)].kind = "use"
        BY <1>3 DEF EndsInCalls
  <2>2. ms[Len(ms)].id \notin us
        BY <2>1, AcceptedAreResults
  <2>. QED
       BY <1>3, <2>1, <2>2
<1>. HIDE DEF K
<1>5. MessagesFrom(r, ms, K, {}, 0, g) /\ PlacesFrom(r, ms, K, {}, g, "use")
      BY <1>1, <1>2, <1>4, ThinnedPlaces
<1>6. \A k \in 1..Len(r) : g[k] # 0
  <2>1. \A k \in 1..Len(r) : g[k] = 0 => r[k].id = 0
        BY <1>5 DEF MessagesFrom, SnipBoundary
  <2>. QED
       BY <1>3, <2>1
<1>7. PICK k \in 1..Len(r) : g[k] = Len(ms)
      BY <1>2, <1>4 DEF Thinned, Spliced
<1>8. k = Len(r)
  <2>1. \A l \in 1..Len(r) : g[l] \in 1..Len(ms)
        BY <1>5, <1>6 DEF MessagesFrom
  <2>2. \A l \in 1..Len(r) : k < l => g[k] < g[l]
        BY <1>2, <1>6 DEF Thinned, Spliced
  <2>3. \A l \in 1..Len(r) : ~(k < l)
        BY <1>3, <1>7, <2>1, <2>2
  <2>. QED
       BY <1>3, <2>3
<1>9. r[k].kind = "use"
      BY <1>5, <1>6, <1>7 DEF MessagesFrom, EndsInCalls
<1>10. \A q \in Places(r, "use") : q[1] = Len(r) =>
          \E p \in Places(ms, "use") : p[1] = Len(ms) /\ At(r, q) = At(ms, p)
       BY <1>5, <1>7, <1>8 DEF PlacesFrom
<1>. QED
     BY <1>3, <1>8, <1>9, <1>10 DEF EndsInCalls, r

LEMMA ExecuteSnipStep == Invariant /\ ExecuteSnip => Invariant'
<1> SUFFICES ASSUME Invariant, ExecuteSnip PROVE Invariant'
    OBVIOUS
<1>1. /\ TypeOK /\ pc = "tools" /\ done' = done + 1
      /\ UNCHANGED <<pc, snipAttempted, microAgainst, reactive, lastId, request>>
      BY DEF ExecuteSnip, Invariant
<1>2. PICK us : Accepts(messages, us) /\ messages' = SnipHistory(messages, us)
      BY DEF ExecuteSnip
<1>3. /\ messages \in Seq(Message(lastId)) /\ EndsInCalls(messages)
      /\ OneKindPerId(messages) /\ CopiesApart(messages) /\ CallsDistinct(messages)
      /\ ClearedFirst(messages)
      BY <1>1 DEF Invariant, Sound, TypeOK
<1>4. /\ messages' \in Seq(Message(lastId))
      /\ OneKindPerId(messages') /\ CopiesApart(messages') /\ CallsDistinct(messages')
      /\ ClearedFirst(messages')
      /\ \A v : HasInput(messages, v) => HasInput(messages', v)
      /\ \A v : ResultsFollow(messages, v) => ResultsFollow(messages', v)
      BY <1>2, <1>3, SnipHistoryKeeps
<1>5. EndsInCalls(messages')
      BY <1>2, <1>3, SnipHistoryKeepsEnd
<1>6. TypeOK'
  <2>1. done' \in Nat
        BY <1>1 DEF TypeOK
  <2>. QED
       BY <1>1, <1>4, <2>1 DEF TypeOK
<1>7. Sound(messages')
      BY <1>4 DEF Sound
<1>. QED
     BY <1>1, <1>4, <1>5, <1>6, <1>7, LessMessages

LEMMA InvariantStep == Invariant /\ [Next]_vars => Invariant'
<1> SUFFICES ASSUME Invariant, [Next]_vars PROVE Invariant'
    OBVIOUS
<1>1. CASE UserInput
      BY <1>1, UserInputKeeps
<1>2. CASE MaybeMicrocompact
      BY <1>2, MicrocompactStep
<1>3. CASE MaybeSnip
      BY <1>3, SnipStep
<1>4. CASE MaybeCompact
      BY <1>4, CompactStep
<1>5. CASE ReactiveCompact
      BY <1>5, ReactiveStep
<1>6. CASE AnswerText
      BY <1>6, AnswerTextStep
<1>7. CASE AnswerTools
      BY <1>7, AnswerToolsStep
<1>8. CASE ExecuteSnip
      BY <1>8, ExecuteSnipStep
<1>9. CASE EndBatch
      BY <1>9, EndBatchStep
<1>10. CASE AnswerNothing \/ ExecuteOther \/ Interrupt \/ UNCHANGED vars
       BY <1>10, QuietSteps
<1>. QED
     BY <1>1, <1>2, <1>3, <1>4, <1>5, <1>6, <1>7, <1>8, <1>9, <1>10 DEF Next

\* In every state copies of a message are apart and of one kind, cleared oldest first,
\* and what came after the input has a copy behind every later user message.
THEOREM InvariantHolds == Spec => []Invariant
<1>. QED
     BY InvariantInit, InvariantStep, PTL DEF Spec

\* Every message of the transcript is well formed, and the other fields are of their
\* types.
THEOREM TypeCorrect == Spec => []TypeOK
<1>1. Invariant => TypeOK
      BY DEF Invariant
<1>. QED
     BY <1>1, InvariantHolds, PTL

-----------------------------------------------------------------------------
(* The payload *)

\* h says where in a transcript each message of a payload comes from.
Sent(P, ms, h) ==
    /\ Len(P) \in Nat /\ DOMAIN P = 1..Len(P)
    /\ \A i \in 1..Len(P) : h[i] \in 1..Len(ms) /\ P[i].id = ms[h[i]].id /\ P[i].kind = ms[h[i]].kind
    /\ \A i, j \in 1..Len(P) : i < j => h[i] < h[j]

\* The messages of the payload follow one boundary and are none.
LEMMA NormalizedFrom ==
    ASSUME NEW n, NEW ms \in Seq(Message(n))
    PROVE  /\ Normalize(ms) \in Seq(Message(n))
           /\ \E h, b : /\ Sent(Normalize(ms), ms, h) /\ b \in Int
                        /\ \A i \in 1..Len(Normalize(ms)) : Normalize(ms)[i] = ms[h[i]] /\ b <= h[i]
                        /\ \A i \in 1..Len(Normalize(ms)) :
                              ms[h[i]].kind \notin {"boundary", "snip_boundary"}
                        /\ \A k \in (b + 1)..Len(ms) : ms[k].kind # "boundary"
<1> DEFINE slice == AfterCompactBoundary(ms)
           I == {i \in DOMAIN slice : slice[i].kind \notin {"boundary", "snip_boundary"}}
           api == Normalize(ms)
<1>1. slice \in Seq(Message(n)) /\ \E b : Sliced(slice, ms, b)
      BY SliceShape
<1>2. api = Pick(slice, I)
      BY DEF Normalize
<1>. HIDE DEF slice, api
<1>3. PICK b : Sliced(slice, ms, b)
      BY <1>1
<1>4. api \in Seq(Message(n)) /\ \E f : Picks(api, slice, I, f)
  <2>. HIDE DEF I
  <2>. QED
       BY <1>1, <1>2, PickKeepsPlaces
<1>5. PICK f : Picks(api, slice, I, f)
      BY <1>4
<1>6. /\ Len(ms) \in Nat /\ Len(slice) \in Nat /\ b \in 1..(Len(ms) + 1)
      /\ Len(slice) = Len(ms) + 1 - b
      /\ \A k \in 1..Len(slice) : slice[k] = ms[b + k - 1]
      /\ \A k \in (b + 1)..Len(ms) : ms[k].kind # "boundary"
      BY <1>1, <1>3, LenProperties DEF Sliced
<1>7. \A k \in 1..Len(slice) : k \in I => slice[k].kind \notin {"boundary", "snip_boundary"}
      OBVIOUS
<1>. HIDE DEF I
<1>8. /\ Len(api) \in Nat /\ DOMAIN api = 1..Len(api)
      /\ \A i \in 1..Len(api) : f[i] \in I /\ f[i] \in 1..Len(slice) /\ api[i] = slice[f[i]]
      /\ \A i, j \in 1..Len(api) : i < j => f[i] < f[j]
      BY <1>5 DEF Picks
<1> DEFINE h == [i \in 1..Len(api) |-> b + f[i] - 1]
<1>9. \A i \in 1..Len(api) : /\ h[i] = b + f[i] - 1 /\ h[i] \in 1..Len(ms) /\ b <= h[i]
                             /\ api[i] = ms[h[i]]
                             /\ ms[h[i]].kind \notin {"boundary", "snip_boundary"}
  <2> SUFFICES ASSUME NEW i \in 1..Len(api)
               PROVE  /\ h[i] = b + f[i] - 1 /\ h[i] \in 1..Len(ms) /\ b <= h[i]
                      /\ api[i] = ms[h[i]]
                      /\ ms[h[i]].kind \notin {"boundary", "snip_boundary"}
      OBVIOUS
  <2>1. f[i] \in I /\ f[i] \in 1..Len(slice) /\ api[i] = slice[f[i]]
        BY <1>8
  <2>2. h[i] = b + f[i] - 1
        OBVIOUS
  <2>3. slice[f[i]] = ms[h[i]] /\ h[i] \in 1..Len(ms) /\ b <= h[i]
    <3>. HIDE DEF h
    <3>. QED
         BY <1>6, <2>1, <2>2, SMTT(30)
  <2>. HIDE DEF h
  <2>. QED
       BY <1>7, <2>1, <2>2, <2>3
<1>10. \A i, j \in 1..Len(api) : i < j => h[i] < h[j]
  <2> SUFFICES ASSUME NEW i \in 1..Len(api), NEW j \in 1..Len(api), i < j PROVE h[i] < h[j]
      OBVIOUS
  <2>1. f[i] < f[j] /\ f[i] \in Int /\ f[j] \in Int /\ b \in Int
        BY <1>6, <1>8
  <2>. QED
       BY <1>9, <2>1
<1>. HIDE DEF h
<1>11. Sent(api, ms, h)
       BY <1>8, <1>9, <1>10 DEF Sent
<1>12. b \in Int
       BY <1>6
<1>. QED
     BY <1>4, <1>6, <1>9, <1>11, <1>12 DEF api

\* What trimming and the removal of orphans leave of a payload.
LEMMA TrimmedFrom ==
    ASSUME NEW n, NEW api \in Seq(Message(n)), NEW k \in Starts(api)
    PROVE  LET left == RemoveOrphanToolResults(api, k)
           IN  /\ Len(left) = Len(api) + 1 - k /\ DOMAIN left = 1..Len(left) /\ k \in 1..(Len(api) + 1)
               /\ Len(left) \in Nat
               /\ \A i \in 1..Len(left) : /\ left[i].id = api[k + i - 1].id
                                          /\ left[i].kind = api[k + i - 1].kind
<1> DEFINE kept == SubSeq(api, k, Len(api))
           left == RemoveOrphanToolResults(api, k)
<1>1. Len(api) \in Nat /\ k \in 1..(Len(api) + 1)
      BY LenProperties DEF Starts
<1>2. /\ kept \in Seq(Message(n)) /\ Len(kept) = Len(api) + 1 - k /\ Len(kept) \in Nat
      /\ \A i \in 1..Len(kept) : kept[i] = api[k + i - 1] /\ kept[i] \in Message(n)
  <2>1. kept \in Seq(Message(n)) /\ Len(kept) = Len(api) + 1 - k /\ Len(kept) \in Nat
        BY <1>1, SubSeqProperties
  <2>2. \A i \in 1..Len(kept) : kept[i] = api[k + i - 1]
        BY <1>1, <2>1, SubSeqProperties
  <2>3. \A i \in 1..Len(kept) : kept[i] \in Message(n)
    <3>. HIDE DEF kept
    <3>. QED
         BY <2>1, ElementOfSeq
  <2>. QED
       BY <2>1, <2>2, <2>3
<1> DEFINE seen(i) == CallIds(SubSeq(kept, 1, i))
           thin(i) == Pick(kept[i].items, {j \in DOMAIN kept[i].items : kept[i].items[j].call \in seen(i)})
<1>3. left = [i \in DOMAIN kept |->
                 IF kept[i].kind # "result" THEN kept[i] ELSE [kept[i] EXCEPT !.items = thin(i)]]
      BY Zenon DEF RemoveOrphanToolResults
<1>. HIDE DEF kept, seen, thin, left
<1>4. DOMAIN kept = 1..Len(kept)
      BY <1>2, LenProperties
<1>5. DOMAIN left = 1..Len(kept)
      BY <1>3, <1>4
<1>6. Len(left) = Len(kept)
      BY <1>2, <1>3, <1>4
<1>7. ASSUME NEW i \in 1..Len(kept) PROVE left[i].id = kept[i].id /\ left[i].kind = kept[i].kind
  <2>1. kept[i] = [id |-> kept[i].id, kind |-> kept[i].kind, items |-> kept[i].items]
        BY <1>2, MessageParts
  <2>2. left[i] = IF kept[i].kind # "result" THEN kept[i] ELSE [kept[i] EXCEPT !.items = thin(i)]
        BY <1>3, <1>4
  <2>3. ASSUME NEW m, m = [id |-> m.id, kind |-> m.kind, items |-> m.items], NEW t
        PROVE  [m EXCEPT !.items = t].id = m.id /\ [m EXCEPT !.items = t].kind = m.kind
        BY <2>3
  <2>. QED
       BY <2>1, <2>2, <2>3
<1>. QED
     BY <1>1, <1>2, <1>5, <1>6, <1>7 DEF left

\* A payload is made of messages behind the last boundary, each sent once.
LEMMA PayloadFrom ==
    ASSUME NEW n, NEW ms \in Seq(Message(n)), NEW P \in Payloads(ms)
    PROVE  \E h, b : /\ Sent(P, ms, h) /\ b \in Int
                     /\ \A i \in 1..Len(P) :
                           b <= h[i] /\ ms[h[i]].kind \notin {"boundary", "snip_boundary"}
                     /\ \A k \in (b + 1)..Len(ms) : ms[k].kind # "boundary"
<1> DEFINE api == Normalize(ms)
<1>1. api \in Seq(Message(n))
      BY NormalizedFrom
<1>2. PICK f, b : /\ Sent(api, ms, f) /\ b \in Int
                  /\ \A i \in 1..Len(api) : api[i] = ms[f[i]] /\ b <= f[i]
                  /\ \A i \in 1..Len(api) : ms[f[i]].kind \notin {"boundary", "snip_boundary"}
                  /\ \A k \in (b + 1)..Len(ms) : ms[k].kind # "boundary"
      BY NormalizedFrom
<1>3. PICK k \in Starts(api) :
          P = Pick(RemoveOrphanToolResults(api, k),
                   {i \in DOMAIN RemoveOrphanToolResults(api, k) :
                       RemoveOrphanToolResults(api, k)[i].kind = "result"
                       => RemoveOrphanToolResults(api, k)[i].items # <<>>})
      BY Zenon DEF Payloads
<1>. HIDE DEF api
<1> DEFINE left == RemoveOrphanToolResults(api, k)
           I == {i \in DOMAIN left : left[i].kind = "result" => left[i].items # <<>>}
<1>4. /\ Len(left) = Len(api) + 1 - k /\ DOMAIN left = 1..Len(left) /\ k \in 1..(Len(api) + 1)
      /\ Len(left) \in Nat
      /\ \A i \in 1..Len(left) : left[i].id = api[k + i - 1].id /\ left[i].kind = api[k + i - 1].kind
      BY <1>1, TrimmedFrom
<1>. HIDE DEF left
<1> DEFINE S == {left[i] : i \in 1..Len(left)}
<1>5. left \in Seq(S)
  <2>1. left = [i \in 1..Len(left) |-> left[i]]
    <3>1. left = [i \in DOMAIN left |-> left[i]]
          BY Zenon, <1>3 DEF left, RemoveOrphanToolResults
    <3>. QED
         BY <1>4, <3>1
  <2>2. left \in [1..Len(left) -> S]
        BY <2>1
  <2>. HIDE DEF S
  <2>3. \A c \in Nat : left \in [1..c -> S] => left \in Seq(S)
        OBVIOUS
  <2>. QED
       BY <1>4, <2>2, <2>3
<1>6. P = Pick(left, I)
      BY <1>3 DEF left
<1>. HIDE DEF S, I
<1>7. PICK g : Picks(P, left, I, g)
      BY <1>5, <1>6, PickKeepsPlaces
<1>8. /\ Len(P) \in Nat /\ DOMAIN P = 1..Len(P)
      /\ \A i \in 1..Len(P) : g[i] \in 1..Len(left) /\ P[i] = left[g[i]]
      /\ \A i, j \in 1..Len(P) : i < j => g[i] < g[j]
      BY <1>7 DEF Picks
<1>9. Len(api) \in Nat /\ k \in Nat
      BY <1>1, <1>4, LenProperties
<1> DEFINE h == [i \in 1..Len(P) |-> f[k + g[i] - 1]]
<1>10. \A i \in 1..Len(P) : k + g[i] - 1 \in 1..Len(api)
       BY <1>4, <1>8, <1>9
<1>11. \A i \in 1..Len(P) :
          /\ h[i] \in 1..Len(ms) /\ P[i].id = ms[h[i]].id /\ P[i].kind = ms[h[i]].kind
          /\ b <= h[i] /\ ms[h[i]].kind \notin {"boundary", "snip_boundary"}
  <2> SUFFICES ASSUME NEW i \in 1..Len(P)
               PROVE  /\ h[i] \in 1..Len(ms) /\ P[i].id = ms[h[i]].id /\ P[i].kind = ms[h[i]].kind
                      /\ b <= h[i] /\ ms[h[i]].kind \notin {"boundary", "snip_boundary"}
      OBVIOUS
  <2> DEFINE x == k + g[i] - 1
  <2>1. x \in 1..Len(api) /\ h[i] = f[x]
        BY <1>10
  <2>2. P[i].id = api[x].id /\ P[i].kind = api[x].kind
        BY <1>4, <1>8
  <2>. HIDE DEF x, h
  <2>. QED
       BY <1>2, <2>1, <2>2 DEF Sent
<1>12. \A i, j \in 1..Len(P) : i < j => h[i] < h[j]
  <2> SUFFICES ASSUME NEW i \in 1..Len(P), NEW j \in 1..Len(P), i < j PROVE h[i] < h[j]
      OBVIOUS
  <2>1. k + g[i] - 1 < k + g[j] - 1
        BY <1>8, <1>9, <1>4, SMTT(30)
  <2>. QED
       BY <1>2, <1>10, <2>1 DEF Sent
<1>. HIDE DEF h
<1>13. Sent(P, ms, h)
       BY <1>8, <1>11, <1>12 DEF Sent
<1>. QED
     BY <1>2, <1>11, <1>13

\* No message reaches the model twice, whatever was trimmed, snipped or compacted:
\* a compaction's copies lie on both sides of a boundary, and a payload on one.
THEOREM OncePerPayload == Spec => []NoMessageTwice
<1>1. Invariant => NoMessageTwice
  <2> SUFFICES ASSUME Invariant, NEW P \in Payloads(messages), NEW i \in DOMAIN P, NEW j \in DOMAIN P,
                      P[i].id = P[j].id, i # j
               PROVE  FALSE
      BY DEF NoMessageTwice
  <2>1. messages \in Seq(Message(lastId)) /\ CopiesApart(messages)
        BY DEF Invariant, TypeOK, Sound
  <2>2. PICK h, b : /\ Sent(P, messages, h) /\ b \in Int
                    /\ \A l \in 1..Len(P) :
                          b <= h[l] /\ messages[h[l]].kind \notin {"boundary", "snip_boundary"}
                    /\ \A k \in (b + 1)..Len(messages) : messages[k].kind # "boundary"
        BY <2>1, PayloadFrom
  <2>3. /\ Len(P) \in Nat /\ DOMAIN P = 1..Len(P) /\ Len(messages) \in Nat
        /\ \A l \in 1..Len(P) : h[l] \in 1..Len(messages) /\ P[l].id = messages[h[l]].id
        /\ \A l, m \in 1..Len(P) : l < m => h[l] < h[m]
        BY <2>1, <2>2, LenProperties DEF Sent
  <2>4. ASSUME NEW l \in 1..Len(P), NEW m \in 1..Len(P), P[l].id = P[m].id, l < m PROVE FALSE
    <3>1. /\ h[l] \in 1..Len(messages) /\ h[m] \in 1..Len(messages) /\ h[l] < h[m]
          /\ messages[h[l]].id = messages[h[m]].id /\ messages[h[m]].kind # "boundary" /\ b <= h[l]
          BY <2>2, <2>3, <2>4
    <3>2. PICK k \in 1..Len(messages) : h[l] < k /\ k < h[m] /\ messages[k].kind = "boundary"
          BY <2>1, <3>1 DEF CopiesApart
    <3>3. k \in (b + 1)..Len(messages)
          BY <2>2, <2>3, <3>1, <3>2
    <3>. QED
         BY <2>2, <3>2, <3>3
  <2>. QED
       BY <2>3, <2>4
<1>. QED
     BY <1>1, InvariantHolds, PTL

-----------------------------------------------------------------------------
(* What the steps spare *)

\* A message that is not named stays.
LEMMA UnnamedStays ==
    ASSUME NEW n, NEW ms \in Seq(Message(n)), NEW us, NEW i \in 1..Len(ms), ms[i].id \notin us
    PROVE  ms[i].id \in Ids(SnipHistory(ms, us))
<1> DEFINE K == {l \in DOMAIN ms : ms[l].id \notin us}
           r == SnipHistory(ms, us)
<1>1. r \in Seq(Message(n)) /\ \E t, g : Thinned(r, ms, K, {}, 0, t, g)
      BY SnipHistoryShape
<1>. HIDE DEF r
<1>2. PICK t, g : Thinned(r, ms, K, {}, 0, t, g)
      BY <1>1
<1>3. K \subseteq 1..Len(ms) /\ i \in K
      BY LenProperties
<1>. HIDE DEF K
<1>4. MessagesFrom(r, ms, K, {}, 0, g)
      BY <1>1, <1>2, <1>3, ThinnedPlaces
<1>5. PICK k \in 1..Len(r) : g[k] = i
      BY <1>2, <1>3 DEF Thinned, Spliced
<1>6. r[k].id = ms[i].id
      BY <1>3, <1>4, <1>5 DEF MessagesFrom
<1>7. k \in DOMAIN r
      BY <1>1, LenProperties
<1>. QED
     BY <1>6, <1>7 DEF Ids, r

\* No message of the current turn can be named: its last copy lies behind every user
\* message, the input among them.
LEMMA TurnIsNotNamed ==
    ASSUME NEW n, NEW ms \in Seq(Message(n)), NEW us, Accepts(ms, us), NEW v \in Nat,
           OneKindPerId(ms), HasInput(ms, v), ResultsFollow(ms, v),
           NEW i \in 1..Len(ms), ms[i].id >= v
    PROVE  ms[i].id \notin us
<1> SUFFICES ASSUME ms[i].id \in us PROVE FALSE
    OBVIOUS
<1> DEFINE u == ms[i].id
           U == OfKind(ms, "user")
           x == LatestUserText(ms)
<1>1. /\ Len(ms) \in Nat /\ DOMAIN ms = 1..Len(ms)
      /\ \A l \in 1..Len(ms) : ms[l].id \in 1..n /\ ms[l] \in Message(n)
      BY LenProperties, MessageParts
<1>2. ms[i].kind = "result"
      BY AcceptedAreResults
<1>3. PICK w \in 1..Len(ms) : ms[w].kind = "user" /\ ms[w].id = v
      BY DEF HasInput
<1>4. u # v
      BY <1>2, <1>3 DEF OneKindPerId
<1>5. u > v
  <2>1. u \in Int
        BY <1>1
  <2>. HIDE DEF u
  <2>2. u >= v
        BY DEF u
  <2>. QED
       BY <1>4, <2>1, <2>2
<1>6. x \in 1..Len(ms) /\ ms[x].kind = "user"
  <2>1. U \subseteq 0..Len(ms) /\ U # {}
        BY <1>1, <1>3 DEF OfKind
  <2>2. Max(U) \in U
    <3>. HIDE DEF U
    <3>. QED
         BY <1>1, <2>1, MaxIsGreatest
  <2>3. x = Max(U)
        BY <2>1 DEF LatestUserText
  <2>. QED
       BY <1>1, <2>2, <2>3 DEF OfKind
<1> DEFINE p == <<i, 1>>
<1>7. p \in Places(ms, "result") /\ p[1] = i
  <2>1. ms[i].items \in Seq(Results) \ {<<>>}
        BY <1>1, <1>2, MessageParts
  <2>2. 1 \in 1..Len(ms[i].items)
        BY <2>1, EmptySeq, LenProperties
  <2>. QED
       BY <1>2, <2>2, PlacesAre
<1>. HIDE DEF x, p
<1>8. PICK q \in Places(ms, "result") : x < q[1] /\ ms[q[1]].id = u
      BY <1>5, <1>6, <1>7 DEF ResultsFollow
<1>9. q[1] \in 1..Len(ms)
      BY PlacesAre
<1>10. u \in Ids(ms) /\ LastCopy(ms, u) <= x
  <2>1. LatestUserText(ms) > 0
        BY <1>1, <1>6 DEF x
  <2>. QED
       BY <2>1 DEF Accepts, x
<1>11. LastCopy(ms, u) \in 1..Len(ms) /\ q[1] <= LastCopy(ms, u)
       BY <1>8, <1>9, <1>10, LastCopyIsCopy
<1>. QED
     BY <1>1, <1>6, <1>8, <1>9, <1>10, <1>11

\* snip_history takes no message of the current turn, however many copies of it a
\* compaction has made and whichever of them the engine's snip has left.
THEOREM TurnIsSpared == Spec => SnipHistorySparesTurn
<1> DEFINE Spared == pc = "tools" => \A i \in DOMAIN messages :
                        messages[i].id >= request => messages[i].id \in Ids(messages')
<1>1. Invariant /\ [Next]_vars => [Spared]_vars
  <2> SUFFICES ASSUME Invariant, Next, pc = "tools", NEW i \in DOMAIN messages,
                      messages[i].id >= request
               PROVE  messages[i].id \in Ids(messages')
      OBVIOUS
  <2>1. /\ messages \in Seq(Message(lastId)) /\ OneKindPerId(messages) /\ request \in Nat
        /\ HasInput(messages, request) /\ ResultsFollow(messages, request) /\ TypeOK
        BY Bounds DEF Invariant, Sound, TypeOK
  <2>2. CASE messages' = messages
        BY <2>2 DEF Ids
  <2>3. CASE ExecuteSnip
    <3>1. PICK us : Accepts(messages, us) /\ messages' = SnipHistory(messages, us)
          BY <2>3 DEF ExecuteSnip
    <3>2. i \in 1..Len(messages)
          BY <2>1, LenProperties
    <3>3. messages[i].id \notin us
          BY <2>1, <3>1, <3>2, TurnIsNotNamed
    <3>. QED
         BY <2>1, <3>1, <3>2, <3>3, UnnamedStays
  <2>4. CASE EndBatch
    <3> DEFINE m == ToolResults(lastId + 1, Replies(Batch))
    <3>1. messages' = Append(messages, m)
          BY <2>4 DEF EndBatch
    <3>. HIDE DEF m
    <3>2. \A T : messages \in Seq(T) /\ m \in T =>
              /\ DOMAIN Append(messages, m) = 1..(Len(messages) + 1)
              /\ Append(messages, m)[i] = messages[i]
          BY <2>1, AppendProperties, LenProperties
    <3>3. messages \in Seq(Message(lastId) \cup {m})
          BY <2>1, SeqMonotonic
    <3>4. i \in DOMAIN messages' /\ messages'[i] = messages[i]
          BY <2>1, <3>1, <3>2, <3>3, LenProperties
    <3>. QED
         BY <3>4 DEF Ids
  <2>5. ExecuteSnip \/ EndBatch \/ messages' = messages
        BY DEF Next, UserInput, MaybeMicrocompact, MaybeSnip, MaybeCompact, ReactiveCompact,
               AnswerText, AnswerNothing, AnswerTools, ExecuteOther, Interrupt
  <2>. QED
       BY <2>2, <2>3, <2>4, <2>5
<1>. QED
     BY <1>1, InvariantHolds, PTL DEF Spec, SnipHistorySparesTurn

\* The newest full result of a path is not among the results an engine snip folds.
LEMMA NewestIsNotFolded ==
    ASSUME NEW ms, NEW t \in PerPath, NEW p \in NewestFull(ms, t)
    PROVE  p \notin PositionsToSnip(ms)
<1> DEFINE Live(s) == {x \in RepliesOf(ms, {s}) : At(ms, x).body = "full"}
           Newer(x, s) == {q \in Live(s) : Before(x, q)}
           Older(s) == {x \in Live(s) : Newer(x, s) # {}}
           Beyond(s) == {x \in Live(s) : Cardinality(Newer(x, s)) >= KeepSnip}
<1>1. PositionsToSnip(ms) = (UNION {Older(s) : s \in PerPath}) \cup (UNION {Beyond(s) : s \in Global})
      BY Zenon DEF PositionsToSnip
<1>2. p \in RepliesOf(ms, {t}) /\ \A q \in RepliesOf(ms, {t}) : At(ms, q).body = "full" => ~Before(p, q)
      BY DEF NewestFull
<1>3. \A s : p \in Live(s) => s = t
      BY <1>2 DEF RepliesOf
<1>4. Newer(p, t) = {}
      BY <1>2
<1>5. \A s \in PerPath : p \notin Older(s)
      BY <1>3, <1>4
<1>6. \A s \in Global : p \notin Beyond(s)
  <2>1. \A s : p \in Beyond(s) => p \in Live(s)
        OBVIOUS
  <2>. HIDE DEF Live, Beyond
  <2>. QED
       BY <1>3, <2>1, ToolSets
<1>. HIDE DEF Older, Beyond
<1>7. \A S, T : p \in (UNION S) \cup (UNION T) => (\E A \in S : p \in A) \/ (\E B \in T : p \in B)
      OBVIOUS
<1>8. ASSUME p \in PositionsToSnip(ms)
      PROVE  (\E A \in {Older(s) : s \in PerPath} : p \in A) \/ (\E B \in {Beyond(s) : s \in Global} : p \in B)
      BY <1>1, <1>7, <1>8, Zenon
<1>. QED
     BY <1>5, <1>6, <1>8, Zenon

\* An engine snip leaves the newest full result of every path as it is, neither folded
\* nor evicted.
THEOREM NewestIsKept == Spec => SnipKeepsNewest
<1> DEFINE Keeps == pc = "snip" => \A t \in PerPath : \A p \in NewestFull(messages, t) :
                       \E q \in Places(messages', "result") : At(messages', q) = At(messages, p)
<1>1. Invariant /\ [Next]_vars => [Keeps]_vars
  <2> SUFFICES ASSUME Invariant, Next, pc = "snip", NEW t \in PerPath, NEW p \in NewestFull(messages, t)
               PROVE  \E q \in Places(messages', "result") : At(messages', q) = At(messages, p)
      OBVIOUS
  <2>1. /\ TypeOK /\ p \in Places(messages, "result") /\ At(messages, p).body = "full"
        /\ At(messages, p).call \in CallIds(messages)
        BY DEF NewestFull, RepliesOf, Invariant
  <2>2. CASE messages' = messages
        BY <2>1, <2>2
  <2>3. ASSUME Takes(1), NEW k, messages' = Snip(messages, k, lastId + 1)
        PROVE  \E q \in Places(messages', "result") : At(messages', q) = At(messages, p)
    <3> DEFINE u == lastId + 1
    <3>1. messages \in Seq(Message(lastId')) /\ u \in 1..lastId'
          BY <2>1, <2>3, FreshIds
    <3>. HIDE DEF u
    <3>2. \E q \in Places(Snip(messages, k, u), "result") : At(Snip(messages, k, u), q) = At(messages, p)
          BY <2>1, <3>1, NewestIsNotFolded, SnipSpares
    <3>. QED
         BY <2>3, <3>2 DEF u
  <2>4. MaybeSnip \/ messages' = messages
        BY DEF Next, UserInput, MaybeMicrocompact, MaybeCompact, ReactiveCompact, AnswerText,
               AnswerNothing, AnswerTools, ExecuteSnip, ExecuteOther, EndBatch, Interrupt
  <2>. QED
       BY <2>2, <2>3, <2>4 DEF MaybeSnip
<1>. QED
     BY <1>1, InvariantHolds, PTL DEF Spec, SnipKeepsNewest

-----------------------------------------------------------------------------
(* The newest result *)

\* What the stages of a turn know of the end of the transcript: the calls of a batch
\* that runs have no result yet, and from its end to the request its results stay.
Turn ==
    /\ CallsUpTo(messages, lastId)
    /\ pc = "tools" => \A p \in Places(messages, "use") :
                           p[1] = Len(messages) => At(messages, p).call \notin ReplyIds(messages)
    /\ pc \in {"micro", "snip"} =>
          Len(messages) > 0 /\ messages[Len(messages)].kind \in {"user", "result"} /\ Fresh(messages)
    /\ pc \in {"compact", "call"} => Len(messages) > 0 /\ Arrives(messages)

LEMMA TurnInit == Init => Turn
<1> SUFFICES ASSUME Init PROVE Turn
    OBVIOUS
<1>1. messages = <<>> /\ pc = "idle"
      BY DEF Init
<1>2. \A kind : Places(messages, kind) = {}
      BY <1>1 DEF Places, OfKind
<1>. QED
     BY <1>1, <1>2 DEF Turn, CallsUpTo

\* A step that takes numbers and leaves the transcript alone.
LEMMA MoreNumbers ==
    ASSUME NEW n, NEW ms \in Seq(Message(n)), NEW c \in Nat, NEW e \in Nat, c <= e, CallsUpTo(ms, c)
    PROVE  CallsUpTo(ms, e)
<1>1. \A kind \in {"use", "result"} : \A p \in Places(ms, kind) : At(ms, p).call \in Nat
      BY ItemAt DEF Calls, Results
<1>. QED
     BY <1>1 DEF CallsUpTo

\* What is fresh arrives.
LEMMA FreshArrives ==
    ASSUME NEW n, NEW ms \in Seq(Message(n)), Len(ms) > 0, Fresh(ms)
    PROVE  Arrives(ms)
<1> SUFFICES ASSUME ms[Len(ms)].kind = "result"
             PROVE  /\ At(ms, Newest(ms)).body = "full"
                    /\ \E p \in Places(ms, "use") :
                          p[1] = Len(ms) - 1 /\ At(ms, p).call = At(ms, Newest(ms)).call
    BY DEF Arrives
<1>1. Newest(ms) \in Places(ms, "result") /\ Newest(ms)[1] = Len(ms)
      BY NewestIsPlace
<1>. QED
     BY <1>1 DEF Fresh

LEMMA TurnUserInput == Invariant /\ Turn /\ UserInput => Turn'
<1> SUFFICES ASSUME Invariant, Turn, UserInput PROVE Turn'
    OBVIOUS
<1> DEFINE m == UserText(lastId + 1)
<1>1. TypeOK /\ Takes(1) /\ messages' = Append(messages, m) /\ pc' = "micro"
      BY DEF UserInput, Invariant
<1>2. /\ lastId \in Nat /\ lastId' = lastId + 1 /\ messages \in Seq(Message(lastId'))
      /\ lastId + 1 \in 1..lastId'
      BY <1>1, FreshIds
<1>3. m \in Message(lastId') /\ m.kind = "user" /\ m.items = <<>>
      BY <1>2, NewMessages DEF UserText
<1>. HIDE DEF m
<1>4. CallsUpTo(messages', lastId')
      BY <1>1, <1>2, <1>3, AppendCalls DEF Turn
<1>5. Len(messages') > 0 /\ messages'[Len(messages')] = m
      BY <1>1, <1>2, <1>3, AppendProperties, LenProperties
<1>. QED
     BY <1>1, <1>3, <1>4, <1>5 DEF Turn, Fresh

LEMMA TurnMicrocompact == Invariant /\ Turn /\ MaybeMicrocompact /\ KeepMicro # 0 => Turn'
<1> SUFFICES ASSUME Invariant, Turn, MaybeMicrocompact, KeepMicro # 0 PROVE Turn'
    OBVIOUS
<1>1. /\ messages \in Seq(Message(lastId)) /\ pc' = "snip" /\ lastId' = lastId
      /\ CallsUpTo(messages, lastId)
      /\ Len(messages) > 0 /\ messages[Len(messages)].kind \in {"user", "result"} /\ Fresh(messages)
      BY DEF MaybeMicrocompact, Invariant, TypeOK, Turn
<1>2. CASE messages' = messages
      BY <1>1, <1>2 DEF Turn
<1>3. CASE messages' = Microcompact(messages)
  <2>1. LET r == Microcompact(messages)
        IN  Fresh(r) /\ Len(r) = Len(messages) /\ r[Len(r)].kind = messages[Len(messages)].kind
        BY <1>1, MicrocompactFresh
  <2>2. CallsUpTo(messages', lastId)
        BY <1>1, <1>3, MicrocompactBlocks, FewerCalls
  <2>. QED
       BY <1>1, <1>3, <2>1, <2>2 DEF Turn
<1>. QED
     BY <1>2, <1>3 DEF MaybeMicrocompact

LEMMA TurnSnip == Invariant /\ Turn /\ MaybeSnip => Turn'
<1> SUFFICES ASSUME Invariant, Turn, MaybeSnip PROVE Turn'
    OBVIOUS
<1>1. /\ TypeOK /\ messages \in Seq(Message(lastId)) /\ pc' = "compact"
      /\ CallsUpTo(messages, lastId)
      /\ Len(messages) > 0 /\ messages[Len(messages)].kind \in {"user", "result"} /\ Fresh(messages)
      BY DEF MaybeSnip, Invariant, TypeOK, Turn
<1>2. CASE UNCHANGED <<messages, lastId>>
  <2>1. Arrives(messages)
        BY <1>1, FreshArrives
  <2>. QED
       BY <1>1, <1>2, <2>1 DEF Turn
<1>3. ASSUME Takes(1), NEW k, messages' = Snip(messages, k, lastId + 1) PROVE Turn'
  <2> DEFINE u == lastId + 1
  <2>1. /\ lastId \in Nat /\ lastId' = lastId + 1 /\ messages \in Seq(Message(lastId')) /\ u \in 1..lastId'
        BY <1>1, <1>3, FreshIds
  <2>. HIDE DEF u
  <2>2. Len(Snip(messages, k, u)) > 0 /\ Arrives(Snip(messages, k, u))
        BY <1>1, <2>1, SnipArrives
  <2>3. CallsUpTo(Snip(messages, k, u), lastId')
    <3>1. CallsUpTo(messages, lastId')
          BY <1>1, <2>1, MoreNumbers
    <3>. QED
         BY <2>1, <3>1, SnipBlocks, FewerCalls
  <2>. QED
       BY <1>1, <1>3, <2>2, <2>3 DEF Turn, u
<1>. QED
     BY <1>2, <1>3 DEF MaybeSnip

\* A compaction in a step.
LEMMA TurnCompacts ==
    ASSUME Invariant, CallsUpTo(messages, lastId), Len(messages) > 0, Arrives(messages),
           Takes(1), messages' = Compact(messages, lastId + 1), KeepCompact # 1
    PROVE  Len(messages') > 0 /\ Arrives(messages') /\ CallsUpTo(messages', lastId')
<1> DEFINE u == lastId + 1
<1>1. /\ lastId \in Nat /\ lastId' = lastId + 1 /\ messages \in Seq(Message(lastId')) /\ u \in 1..lastId'
      BY FreshIds DEF Invariant
<1>. HIDE DEF u
<1>2. Len(Compact(messages, u)) > 0 /\ Arrives(Compact(messages, u))
      BY <1>1, CompactArrives
<1>3. CallsUpTo(Compact(messages, u), lastId')
  <2>1. CallsUpTo(messages, lastId')
        BY <1>1, MoreNumbers
  <2>. QED
       BY <1>1, <2>1, CompactBlocks, FewerCalls
<1>. QED
     BY <1>2, <1>3 DEF u

LEMMA TurnCompact == Invariant /\ Turn /\ MaybeCompact /\ KeepCompact # 1 => Turn'
<1> SUFFICES ASSUME Invariant, Turn, MaybeCompact, KeepCompact # 1 PROVE Turn'
    OBVIOUS
<1>1. pc' = "call" /\ CallsUpTo(messages, lastId) /\ Len(messages) > 0 /\ Arrives(messages)
      BY DEF MaybeCompact, Turn
<1>2. CASE UNCHANGED <<messages, lastId>>
      BY <1>1, <1>2 DEF Turn
<1>3. CASE messages' = Compact(messages, lastId + 1) /\ Takes(1)
  <2>1. Len(messages') > 0 /\ Arrives(messages') /\ CallsUpTo(messages', lastId')
        BY <1>1, <1>3, TurnCompacts
  <2>. QED
       BY <1>1, <2>1 DEF Turn
<1>. QED
     BY <1>2, <1>3 DEF MaybeCompact

LEMMA TurnReactive == Invariant /\ Turn /\ ReactiveCompact /\ KeepCompact # 1 => Turn'
<1> SUFFICES ASSUME Invariant, Turn, ReactiveCompact, KeepCompact # 1 PROVE Turn'
    OBVIOUS
<1>1. /\ pc' = "call" /\ CallsUpTo(messages, lastId) /\ Len(messages) > 0 /\ Arrives(messages)
      /\ messages' = Compact(messages, lastId + 1) /\ Takes(1)
      BY DEF ReactiveCompact, Turn
<1>2. Len(messages') > 0 /\ Arrives(messages') /\ CallsUpTo(messages', lastId')
      BY <1>1, TurnCompacts
<1>. QED
     BY <1>1, <1>2 DEF Turn

LEMMA TurnAnswerText == Invariant /\ Turn /\ AnswerText => Turn'
<1> SUFFICES ASSUME Invariant, Turn, AnswerText PROVE Turn'
    OBVIOUS
<1> DEFINE m == AssistantText(lastId + 1)
<1>1. TypeOK /\ Takes(1) /\ messages' = Append(messages, m) /\ pc' = "idle"
      BY DEF AnswerText, Invariant
<1>2. /\ lastId \in Nat /\ lastId' = lastId + 1 /\ messages \in Seq(Message(lastId'))
      /\ lastId + 1 \in 1..lastId'
      BY <1>1, FreshIds
<1>3. m \in Message(lastId') /\ m.items = <<>>
      BY <1>2, NewMessages DEF AssistantText
<1>. HIDE DEF m
<1>4. CallsUpTo(messages', lastId')
      BY <1>1, <1>2, <1>3, AppendCalls DEF Turn
<1>. QED
     BY <1>1, <1>4 DEF Turn

\* The calls of a new batch have numbers no result has.
LEMMA TurnAnswerTools == Invariant /\ Turn /\ AnswerTools => Turn'
<1> SUFFICES ASSUME Invariant, Turn, AnswerTools PROVE Turn'
    OBVIOUS
<1> DEFINE n == lastId'
<1>1. pc' = "tools"
      BY DEF AnswerTools
<1>2. PICK ms, m :
         /\ ms \in Seq(Message(n)) /\ m \in Message(n)
         /\ messages' = Append(ms, m) /\ m.kind = "use"
         /\ lastId \in Nat /\ n \in Nat
         /\ \A i \in 1..Len(m.items) : m.items[i].call \in (lastId + 1)..n
         /\ ms = messages \/ \E w : /\ w \in Message(n) /\ ms = Append(messages, w)
                                    /\ w.kind = "text" /\ w.items = <<>>
      BY AnswerToolsShape
<1>3. messages \in Seq(Message(n)) /\ lastId <= n
  <2>1. messages \in Seq(Message(lastId))
        BY DEF Invariant, TypeOK
  <2>2. lastId <= n
        BY <1>2 DEF AnswerTools, Takes
  <2>. QED
       BY <1>2, <2>1, <2>2, MessageMonotonic
<1>4. CallsUpTo(ms, lastId)
  <2>1. CASE ms = messages
        BY <2>1 DEF Turn
  <2>2. ASSUME NEW w, w \in Message(n), ms = Append(messages, w), w.items = <<>>
        PROVE  CallsUpTo(ms, lastId)
        BY <1>2, <1>3, <2>2, AppendCalls DEF Turn
  <2>. QED
       BY <1>2, <2>1, <2>2
<1>. HIDE DEF n
<1>5. CallsUpTo(messages', n)
      BY <1>2, <1>3, <1>4, AppendCalls
<1>6. AppendedAt(messages', ms, m, "use") /\ AppendedAt(messages', ms, m, "result")
      BY <1>2, AppendedPlaces
<1>7. Len(messages') = Len(ms) + 1 /\ Len(ms) \in Nat
      BY <1>2, AppendProperties, LenProperties
<1>8. ASSUME NEW p \in Places(messages', "use"), p[1] = Len(messages')
      PROVE  At(messages', p).call \notin ReplyIds(messages')
  <2>1. At(messages', p).call \in (lastId + 1)..n
    <3>1. ~(p[1] <= Len(ms))
          BY <1>7, <1>8
    <3>. QED
         BY <1>2, <1>6, <3>1 DEF AppendedAt
  <2>2. ASSUME NEW q \in Places(messages', "result") PROVE At(messages', q).call # At(messages', p).call
    <3>1. q \in Places(ms, "result") /\ At(messages', q) = At(ms, q)
          BY <1>2, <1>6 DEF AppendedAt
    <3>2. At(ms, q).call <= lastId /\ At(ms, q).call \in Nat
          BY <1>2, <1>4, <3>1, ItemAt DEF CallsUpTo, Results
    <3>. QED
         BY <1>2, <2>1, <3>1, <3>2
  <2>. QED
       BY <2>2 DEF ReplyIds
<1>. QED
     BY <1>1, <1>5, <1>8 DEF Turn, n

LEMMA TurnExecuteSnip == Invariant /\ Turn /\ ExecuteSnip => Turn'
<1> SUFFICES ASSUME Invariant, Turn, ExecuteSnip PROVE Turn'
    OBVIOUS
<1>1. /\ messages \in Seq(Message(lastId)) /\ pc = "tools" /\ pc' = "tools" /\ lastId' = lastId
      /\ OneKindPerId(messages) /\ EndsInCalls(messages) /\ CallsUpTo(messages, lastId)
      /\ \A p \in Places(messages, "use") :
            p[1] = Len(messages) => At(messages, p).call \notin ReplyIds(messages)
      BY DEF ExecuteSnip, Invariant, TypeOK, Sound, Turn
<1>2. PICK us : Accepts(messages, us) /\ messages' = SnipHistory(messages, us)
      BY DEF ExecuteSnip
<1>3. CallsUpTo(messages', lastId) /\ ReplyIds(messages') \subseteq ReplyIds(messages)
      BY <1>1, <1>2, SnipHistoryBlocks, FewerCalls
<1>4. \A q \in Places(messages', "use") : q[1] = Len(messages') =>
          \E p \in Places(messages, "use") : p[1] = Len(messages) /\ At(messages', q) = At(messages, p)
  <2>1. LET r == SnipHistory(messages, us)
        IN  /\ EndsInCalls(r)
            /\ \A q \in Places(r, "use") : q[1] = Len(r) =>
                  \E p \in Places(messages, "use") : p[1] = Len(messages) /\ At(r, q) = At(messages, p)
        BY <1>1, <1>2, SnipHistoryKeepsEnd
  <2>. QED
       BY <1>2, <2>1
<1>5. \A q \in Places(messages', "use") : q[1] = Len(messages') =>
          At(messages', q).call \notin ReplyIds(messages')
      BY <1>1, <1>3, <1>4
<1>. QED
     BY <1>1, <1>3, <1>5 DEF Turn

\* The results of a batch are fresh: no result has one of their calls.
LEMMA TurnEndBatch == Invariant /\ Turn /\ EndBatch => Turn'
<1> SUFFICES ASSUME Invariant, Turn, EndBatch PROVE Turn'
    OBVIOUS
<1> DEFINE n == lastId'
           l == Len(messages)
           r == messages'
<1>1. /\ pc' \in {"micro", "idle"} /\ pc = "tools" /\ TypeOK /\ Takes(1) /\ EndsInCalls(messages)
      /\ CallsUpTo(messages, lastId)
      /\ \A p \in Places(messages, "use") : p[1] = l => At(messages, p).call \notin ReplyIds(messages)
      BY DEF EndBatch, Invariant, Turn
<1>2. PICK m :
         /\ messages \in Seq(Message(n)) /\ m \in Message(n) /\ r = Append(messages, m)
         /\ m.kind = "result" /\ Len(m.items) = Len(Batch) /\ Len(Batch) \in Nat \ {0}
         /\ \A i \in 1..Len(Batch) : m.items[i].call = Batch[i].call /\ m.items[i].body = "full"
         /\ \A i, j \in 1..Len(m.items) : m.items[i].call = m.items[j].call => i = j
      BY EndBatchShape
<1>3. lastId \in Nat /\ lastId' = lastId + 1
      BY <1>1, FreshIds
<1>4. l \in Nat /\ l > 0 /\ messages[l].kind = "use" /\ Batch = messages[l].items
      BY <1>1, <1>2, LenProperties DEF EndsInCalls, Batch
<1>5. ASSUME NEW i \in 1..Len(Batch)
      PROVE  /\ <<l, i>> \in Places(messages, "use") /\ At(messages, <<l, i>>) = Batch[i]
             /\ Batch[i].call \notin ReplyIds(messages) /\ Batch[i].call <= lastId
  <2> DEFINE p == <<l, i>>
  <2>1. p \in Places(messages, "use") /\ p[1] = l
        BY <1>2, <1>4, PlacesAre
  <2>2. At(messages, p) = Batch[i]
        BY <1>4 DEF At
  <2>. HIDE DEF p
  <2>3. Batch[i].call \notin ReplyIds(messages) /\ Batch[i].call <= lastId
        BY <1>1, <2>1, <2>2 DEF CallsUpTo
  <2>. QED
       BY <2>1, <2>2, <2>3 DEF p
<1>. HIDE DEF n, l, r
<1>6. r \in Seq(Message(n)) /\ Len(r) = l + 1 /\ r[l + 1] = m
      BY <1>2, AppendProperties, LenProperties DEF l
<1>7. CallsUpTo(r, lastId)
  <2>1. \A i \in 1..Len(m.items) : m.items[i].call <= lastId
        BY <1>2, <1>5
  <2>2. CallsUpTo(Append(messages, m), lastId)
        BY <1>1, <1>2, <1>3, <2>1, AppendCalls
  <2>. QED
       BY <1>2, <2>2
<1>8. AppendedAt(r, messages, m, "use") /\ AppendedAt(r, messages, m, "result")
      BY <1>2, AppendedPlaces
<1>9. Newest(r) = <<l + 1, Len(Batch)>>
      BY <1>2, <1>6 DEF Newest
<1>10. At(r, Newest(r)).body = "full"
  <2>1. At(r, Newest(r)) = m.items[Len(Batch)]
        BY <1>6, <1>9 DEF At
  <2>. QED
       BY <1>2, <2>1
<1>11. ASSUME NEW q \in Places(r, "result"), q[1] = Len(r)
       PROVE  /\ \E p \in Places(r, "use") : p[1] = Len(r) - 1 /\ At(r, p).call = At(r, q).call
              /\ \A x \in Places(r, "result") : At(r, x).call = At(r, q).call => x = q
  <2>1. q = <<l + 1, q[2]>> /\ q[2] \in 1..Len(Batch) /\ At(r, q) = m.items[q[2]]
        BY <1>2, <1>4, <1>6, <1>8, <1>11 DEF AppendedAt, l
  <2>2. At(r, q).call = Batch[q[2]].call
        BY <1>2, <2>1
  <2> DEFINE p == <<l, q[2]>>
  <2>3. p \in Places(r, "use") /\ At(r, p).call = At(r, q).call /\ p[1] = Len(r) - 1
    <3>1. p \in Places(messages, "use") /\ At(messages, p) = Batch[q[2]]
          BY <1>5, <2>1
    <3>2. p \in Places(r, "use") /\ At(r, p) = At(messages, p)
          BY <1>8, <3>1 DEF AppendedAt
    <3>3. p[1] = Len(r) - 1
          BY <1>4, <1>6
    <3>. QED
         BY <2>2, <3>1, <3>2, <3>3
  <2>4. ASSUME NEW x \in Places(r, "result"), At(r, x).call = At(r, q).call PROVE x = q
    <3>1. CASE x \in Places(messages, "result") /\ At(r, x) = At(messages, x)
      <4>1. At(messages, x).call \in ReplyIds(messages)
            BY <3>1 DEF ReplyIds
      <4>. QED
           BY <1>5, <2>1, <2>2, <2>4, <3>1, <4>1
    <3>2. CASE x = <<l + 1, x[2]>> /\ x[2] \in 1..Len(m.items) /\ At(r, x) = m.items[x[2]]
      <4>1. x[2] = q[2]
            BY <1>2, <2>1, <2>4, <3>2
      <4>. QED
           BY <2>1, <3>2, <4>1
    <3>. QED
         BY <1>8, <3>1, <3>2 DEF AppendedAt, l
  <2>. QED
       BY <2>3, <2>4
<1>12. Fresh(r)
       BY <1>10, <1>11 DEF Fresh
<1>13. CallsUpTo(r, lastId')
       BY <1>3, <1>6, <1>7, MoreNumbers
<1>. QED
     BY <1>1, <1>2, <1>4, <1>6, <1>12, <1>13 DEF Turn, r

LEMMA TurnStep ==
    ASSUME KeepMicro # 0, KeepCompact # 1
    PROVE  Invariant /\ Turn /\ [Next]_vars => Turn'
<1> SUFFICES ASSUME Invariant, Turn, [Next]_vars PROVE Turn'
    OBVIOUS
<1>1. CASE UserInput
      BY <1>1, TurnUserInput
<1>2. CASE MaybeMicrocompact
      BY <1>2, TurnMicrocompact
<1>3. CASE MaybeSnip
      BY <1>3, TurnSnip
<1>4. CASE MaybeCompact
      BY <1>4, TurnCompact
<1>5. CASE ReactiveCompact
      BY <1>5, TurnReactive
<1>6. CASE AnswerText
      BY <1>6, TurnAnswerText
<1>7. CASE AnswerTools
      BY <1>7, TurnAnswerTools
<1>8. CASE ExecuteSnip
      BY <1>8, TurnExecuteSnip
<1>9. CASE EndBatch
      BY <1>9, TurnEndBatch
<1>10. CASE AnswerNothing \/ ExecuteOther \/ Interrupt \/ UNCHANGED vars
  <2>1. /\ UNCHANGED <<messages, lastId>>
        /\ pc' = "tools" => pc = "tools"
        /\ pc' \in {"micro", "snip"} => pc' = pc
        /\ pc' \in {"compact", "call"} => pc' = pc
        BY <1>10 DEF AnswerNothing, ExecuteOther, Interrupt, vars
  <2>. QED
       BY <2>1 DEF Turn
<1>. QED
     BY <1>1, <1>2, <1>3, <1>4, <1>5, <1>6, <1>7, <1>8, <1>9, <1>10 DEF Next

\* The request ends in what the transcript ends in: a result behind its call is no orphan.
LEMMA NewestIsSent ==
    ASSUME NEW n, NEW ms \in Seq(Message(n)), Len(ms) > 0, ms[Len(ms)].kind = "result", Arrives(ms)
    PROVE  LET P == RemoveOrphanToolResults(Normalize(ms), 1)
               m == P[Len(P)]
           IN  m.id = ms[Len(ms)].id /\ m.items # <<>> /\ m.items[Len(m.items)].body = "full"
<1> DEFINE slice == AfterCompactBoundary(ms)
           I == {i \in DOMAIN slice : slice[i].kind \notin {"boundary", "snip_boundary"}}
           api == Normalize(ms)
           l == Len(ms)
<1>1. slice \in Seq(Message(n)) /\ l \in Nat /\ l > 0 /\ Len(slice) \in Nat
      BY SliceShape, LenProperties
<1>2. PICK b : Sliced(slice, ms, b)
      BY SliceShape
<1>3. PICK p \in Places(ms, "use") : p[1] = l - 1 /\ At(ms, p).call = At(ms, Newest(ms)).call
      BY DEF Arrives
<1>4. At(ms, Newest(ms)).body = "full"
      BY DEF Arrives
<1>5. /\ l - 1 \in 1..l /\ ms[l - 1].kind = "use" /\ p[2] \in 1..Len(ms[l - 1].items)
      /\ At(ms, p) = ms[l - 1].items[p[2]]
      BY <1>3, PlacesAre
<1>6. api = Pick(slice, I)
      BY DEF Normalize
<1>. HIDE DEF slice, api
<1>7. Len(slice) > 1 /\ slice[Len(slice)] = ms[l] /\ slice[Len(slice) - 1] = ms[l - 1]
  <2>1. b \in 1..(l + 1) /\ (b = 1 \/ (b <= l /\ ms[b].kind = "boundary")) /\ Len(slice) = l + 1 - b
        BY <1>2 DEF Sliced
  <2>2. (b # l /\ b # l - 1) \/ b = 1
        BY <1>5, <2>1
  <2>3. b <= l - 1
        BY <1>1, <1>5, <2>1, <2>2
  <2>4. Len(slice) \in 1..Len(slice) /\ Len(slice) - 1 \in 1..Len(slice) /\ Len(slice) > 1
        BY <1>1, <2>1, <2>3
  <2>5. b + Len(slice) - 1 = l /\ b + (Len(slice) - 1) - 1 = l - 1
        BY <1>1, <2>1
  <2>. QED
       BY <1>2, <2>4, <2>5 DEF Sliced
<1>8. Len(slice) \in I /\ Len(slice) - 1 \in I
  <2>1. DOMAIN slice = 1..Len(slice)
        BY <1>1, LenProperties
  <2>. QED
       BY <1>1, <1>5, <1>7, <2>1
<1>. HIDE DEF I
<1>9. api \in Seq(Message(n)) /\ \E f : Picks(api, slice, I, f)
      BY <1>1, <1>6, PickKeepsPlaces
<1>10. Len(api) > 1 /\ api[Len(api)] = ms[l] /\ api[Len(api) - 1] = ms[l - 1]
  <2>1. PICK f : Picks(api, slice, I, f)
        BY <1>9
  <2>. QED
       BY <1>1, <1>7, <1>8, <2>1, PickEnds
<1>11. Len(api) \in Nat /\ DOMAIN api = 1..Len(api)
       BY <1>9, LenProperties
<1>12. SubSeq(api, 1, Len(api)) = api
       BY <1>9, <1>11, SubSeqProperties
<1> DEFINE P == RemoveOrphanToolResults(api, 1)
           m == ms[l]
           J == {j \in DOMAIN m.items : m.items[j].call \in CallIds(api)}
<1>13. DOMAIN P = 1..Len(api) /\ Len(P) = Len(api)
  <2> DEFINE kept == SubSeq(api, 1, Len(api))
             seen(i) == CallIds(SubSeq(kept, 1, i))
             thin(i) == [kept[i] EXCEPT !.items = Pick(@, {j \in DOMAIN @ : @[j].call \in seen(i)})]
  <2>1. P = [i \in DOMAIN kept |-> IF kept[i].kind # "result" THEN kept[i] ELSE thin(i)]
        BY Zenon DEF RemoveOrphanToolResults
  <2>2. DOMAIN kept = 1..Len(api)
        BY <1>11, <1>12
  <2>. HIDE DEF kept, thin, P
  <2>3. DOMAIN P = 1..Len(api)
        BY <2>1, <2>2
  <2>4. P = [i \in 1..Len(api) |-> IF kept[i].kind # "result" THEN kept[i] ELSE thin(i)]
        BY <2>1, <2>2
  <2>. QED
       BY <1>11, <2>3, <2>4
<1>14. P[Len(api)] = [m EXCEPT !.items = Pick(m.items, J)]
  <2> DEFINE kept == SubSeq(api, 1, Len(api))
             seen(i) == CallIds(SubSeq(kept, 1, i))
             thin(i) == [kept[i] EXCEPT !.items =
                            Pick(kept[i].items, {j \in DOMAIN kept[i].items : kept[i].items[j].call \in seen(i)})]
             x == Len(api)
  <2>1. P = [i \in DOMAIN kept |-> IF kept[i].kind # "result" THEN kept[i] ELSE thin(i)]
        BY Zenon DEF RemoveOrphanToolResults
  <2>2. x \in DOMAIN kept /\ kept[x] = m /\ seen(x) = CallIds(api)
    <3>1. kept = api /\ SubSeq(kept, 1, x) = api
          BY <1>12
    <3>2. x \in 1..x
          BY <1>10, <1>11
    <3>. HIDE DEF kept
    <3>. QED
         BY <1>10, <1>11, <3>1, <3>2
  <2>. HIDE DEF P, kept
  <2>3. P[x] = IF kept[x].kind # "result" THEN kept[x] ELSE thin(x)
    <3>. HIDE DEF thin, x
    <3>. QED
         BY <2>1, <2>2
  <2>4. kept[x].kind = "result"
        BY <2>2
  <2>5. P[x] = thin(x)
        BY <2>3, <2>4
  <2>6. thin(x) = [m EXCEPT !.items = Pick(m.items, {j \in DOMAIN m.items : m.items[j].call \in CallIds(api)})]
    <3>. HIDE DEF x, seen, m
    <3>. QED
         BY <2>2, Zenon
  <2>. QED
       BY <2>5, <2>6
<1>15. /\ m = [id |-> m.id, kind |-> m.kind, items |-> m.items] /\ m.items \in Seq(Results) \ {<<>>}
  <2>1. m \in Message(n)
        BY <1>1, ElementOfSeq
  <2>. QED
       BY <2>1, MessageParts
<1>16. P[Len(api)].id = m.id /\ P[Len(api)].items = Pick(m.items, J)
  <2>1. ASSUME NEW y, y = [id |-> y.id, kind |-> y.kind, items |-> y.items], NEW t
        PROVE  [y EXCEPT !.items = t].id = y.id /\ [y EXCEPT !.items = t].items = t
        BY <2>1
  <2>. HIDE DEF P, J, m
  <2>. QED
       BY <1>14, <1>15, <2>1
<1>17. Len(m.items) > 0 /\ Len(m.items) \in J /\ m.items[Len(m.items)].body = "full"
  <2>1. Len(m.items) \in Nat /\ Len(m.items) > 0 /\ DOMAIN m.items = 1..Len(m.items)
        BY <1>15, EmptySeq, LenProperties
  <2>2. At(ms, Newest(ms)) = m.items[Len(m.items)]
        BY DEF At, Newest
  <2> DEFINE q == <<Len(api) - 1, p[2]>>
  <2>3. q \in Places(api, "use") /\ At(api, q) = At(ms, p)
    <3>1. Len(api) - 1 \in 1..Len(api)
          BY <1>10, <1>11
    <3>2. api[Len(api) - 1] = ms[l - 1]
          BY <1>10
    <3>3. \A i \in 1..Len(api) : \A j \in 1..Len(api[i].items) :
              api[i].kind = "use" => <<i, j>> \in Places(api, "use")
          BY <1>9, PlacesAre
    <3>4. q \in Places(api, "use")
          BY <1>5, <3>1, <3>2, <3>3
    <3>5. At(api, q) = api[Len(api) - 1].items[p[2]]
          BY DEF At
    <3>. QED
         BY <1>5, <3>2, <3>4, <3>5
  <2>4. m.items[Len(m.items)].call \in CallIds(api)
        BY <1>3, <2>2, <2>3 DEF CallIds
  <2>. HIDE DEF m
  <2>. QED
       BY <1>4, <2>1, <2>2, <2>4
<1>18. PICK h : Picks(Pick(m.items, J), m.items, J, h)
       BY <1>15, PickKeepsPlaces
<1>19. Len(Pick(m.items, J)) > 0 /\ Pick(m.items, J)[Len(Pick(m.items, J))] = m.items[Len(m.items)]
  <2>. HIDE DEF m, J
  <2>. QED
       BY <1>15, <1>17, <1>18, PickEnds
<1>20. Pick(m.items, J) # <<>>
       BY <1>19, EmptySeq
<1>. HIDE DEF P, J, m
<1>21. P[Len(P)].id = m.id /\ P[Len(P)].items # <<>> /\ P[Len(P)].items[Len(P[Len(P)].items)].body = "full"
       BY <1>13, <1>16, <1>17, <1>19, <1>20
<1>. QED
     BY <1>21 DEF P, api, m

\* When a batch has just run, the request holds its newest result in full: no cleaning at
\* the top of the turn, nor a retry, takes it or its call back, as long as a
\* microcompaction keeps a result and a compaction does not part a result from its call.
THEOREM NewestReachesModel ==
    ASSUME KeepMicro # 0, KeepCompact # 1
    PROVE  Spec => []LatestResultReachesModel
<1>1. Invariant /\ Turn => LatestResultReachesModel
  <2> SUFFICES ASSUME Invariant, Turn, pc = "call", messages # <<>>,
                      messages[Len(messages)].kind = "result"
               PROVE  LET P == RemoveOrphanToolResults(Normalize(messages), 1)
                          m == P[Len(P)]
                      IN  /\ m.id = messages[Len(messages)].id
                          /\ m.items # <<>> /\ m.items[Len(m.items)].body = "full"
      BY Zenon DEF LatestResultReachesModel
  <2>1. messages \in Seq(Message(lastId)) /\ Len(messages) > 0 /\ Arrives(messages)
        BY DEF Invariant, TypeOK, Turn
  <2>. QED
       BY <2>1, NewestIsSent
<1>2. Init => Turn
      BY TurnInit
<1>3. Invariant /\ Turn /\ [Next]_vars => Turn'
      BY TurnStep
<1>. QED
     BY <1>1, <1>2, <1>3, InvariantHolds, PTL DEF Spec

-----------------------------------------------------------------------------
(* What is sent *)

LEMMA PairedMore ==
    ASSUME NEW n, NEW ms \in Seq(Message(n)), NEW c \in Nat, NEW e \in Nat, c <= e, Paired(ms, c)
    PROVE  Paired(ms, e)
BY MoreNumbers DEF Paired

LEMMA PairedInit == Init => Paired(messages, lastId)
<1> SUFFICES ASSUME Init PROVE Paired(messages, lastId)
    OBVIOUS
<1>1. \A kind : Places(messages, kind) = {}
  <2>1. messages \in Seq(Message(lastId)) /\ Len(messages) = 0
        BY EmptySeq DEF Init
  <2>2. \A kind : \A p \in Places(messages, kind) : p[1] \in 1..Len(messages)
        BY <2>1, PlacesAre
  <2>. QED
       BY <2>1, <2>2
<1>. QED
     BY <1>1 DEF Paired, CallsUpTo, OneUsePerCall, AnsweredNext

LEMMA PairedStep == Invariant /\ Paired(messages, lastId) /\ [Next]_vars => Paired(messages', lastId')
<1> SUFFICES ASSUME Invariant, Paired(messages, lastId), [Next]_vars
             PROVE  Paired(messages', lastId')
    OBVIOUS
<1>1. /\ TypeOK /\ messages \in Seq(Message(lastId)) /\ lastId \in Nat
      /\ OneKindPerId(messages) /\ CopiesApart(messages)
      BY Bounds DEF Invariant, TypeOK, Sound
<1>2. ASSUME Takes(1)
      PROVE  /\ lastId' \in Nat /\ lastId <= lastId' /\ messages \in Seq(Message(lastId'))
             /\ lastId + 1 \in 1..lastId'
      BY <1>1, <1>2, FreshIds
<1>3. CASE UNCHANGED <<messages, lastId>>
      BY <1>3
\* A message without tool blocks.
<1>4. ASSUME Takes(1), NEW m, m \in {UserText(lastId + 1), AssistantText(lastId + 1)},
             messages' = Append(messages, m)
      PROVE  Paired(messages', lastId')
  <2>1. m \in Message(lastId') /\ m.kind \notin {"use", "result"}
    <3>1. m \in Message(lastId')
          BY <1>2, <1>4, NewMessages
    <3>2. m.kind = "user" \/ m.kind = "text"
          BY <1>4 DEF UserText, AssistantText
    <3>. QED
         BY <3>1, <3>2
  <2>. QED
       BY <1>1, <1>2, <1>4, <2>1, AppendPaired
<1>5. ASSUME messages' = Microcompact(messages), lastId' = lastId PROVE Paired(messages', lastId')
      BY <1>1, <1>5, MicrocompactPaired
<1>6. ASSUME Takes(1), NEW k, messages' = Snip(messages, k, lastId + 1)
      PROVE  Paired(messages', lastId')
  <2>1. Paired(messages, lastId')
        BY <1>1, <1>2, <1>6, PairedMore
  <2>. QED
       BY <1>2, <1>6, <2>1, SnipPaired
<1>7. ASSUME Takes(1), messages' = Compact(messages, lastId + 1) PROVE Paired(messages', lastId')
  <2>1. Paired(messages, lastId')
        BY <1>1, <1>2, <1>7, PairedMore
  <2>. QED
       BY <1>2, <1>7, <2>1, CompactPaired
<1>8. CASE AnswerTools
  <2> DEFINE n == lastId'
  <2>1. PICK ms, m :
           /\ ms \in Seq(Message(n)) /\ m \in Message(n)
           /\ messages' = Append(ms, m) /\ m.kind = "use"
           /\ lastId \in Nat /\ n \in Nat
           /\ \A i \in 1..Len(m.items) : m.items[i].call \in (lastId + 1)..n
           /\ ms = messages \/ \E w : /\ w \in Message(n) /\ ms = Append(messages, w)
                                      /\ w.kind = "text" /\ w.items = <<>>
           /\ Sound(ms)
        BY <1>8, AnswerToolsShape
  <2>2. lastId <= n
        BY <1>8, <2>1 DEF AnswerTools, Takes
  <2>3. messages \in Seq(Message(n))
        BY <1>1, <2>1, <2>2, MessageMonotonic
  <2>. HIDE DEF n
  <2>4. Paired(ms, lastId)
    <3>1. CASE ms = messages
          BY <3>1
    <3>2. ASSUME NEW w, w \in Message(n), ms = Append(messages, w), w.kind = "text"
          PROVE  Paired(ms, lastId)
          BY <1>1, <2>3, <3>2, AppendPaired
    <3>. QED
         BY <2>1, <3>1, <3>2
  <2>5. Paired(messages', n)
        BY <2>1, <2>2, <2>4, AppendPaired DEF Sound
  <2>. QED
       BY <2>5 DEF n
<1>9. CASE ExecuteSnip
  <2>1. PICK us : Accepts(messages, us) /\ messages' = SnipHistory(messages, us)
        BY <1>9 DEF ExecuteSnip
  <2>2. lastId' = lastId
        BY <1>9 DEF ExecuteSnip
  <2>. QED
       BY <1>1, <2>1, <2>2, SnipHistoryPaired
<1>10. CASE EndBatch
  <2>1. Takes(1) /\ EndsInCalls(messages)
        BY <1>10 DEF EndBatch, Invariant
  <2>2. PICK m :
           /\ m \in Message(lastId') /\ messages' = Append(messages, m)
           /\ m.kind = "result" /\ Len(m.items) = Len(Batch)
           /\ \A i \in 1..Len(Batch) : m.items[i].call = Batch[i].call
        BY <1>10, EndBatchShape
  <2>3. Len(messages) > 0 /\ messages[Len(messages)].kind = "use" /\ Batch = messages[Len(messages)].items
        BY <2>1 DEF EndsInCalls, Batch
  <2>4. \A i \in 1..Len(m.items) : \E j \in 1..Len(messages[Len(messages)].items) :
            messages[Len(messages)].items[j].call = m.items[i].call
        BY <2>2, <2>3
  <2>. QED
       BY <1>1, <1>2, <2>1, <2>2, <2>3, <2>4, AppendPaired
<1>11. CASE UserInput
       BY <1>4, <1>11 DEF UserInput
<1>12. CASE AnswerText
       BY <1>4, <1>12 DEF AnswerText
<1>13. CASE MaybeMicrocompact
       BY <1>3, <1>5, <1>13 DEF MaybeMicrocompact
<1>14. CASE MaybeSnip
       BY <1>3, <1>6, <1>14 DEF MaybeSnip
<1>15. CASE MaybeCompact
       BY <1>3, <1>7, <1>15 DEF MaybeCompact
<1>16. CASE ReactiveCompact
       BY <1>7, <1>16 DEF ReactiveCompact
<1>17. CASE AnswerNothing \/ ExecuteOther \/ Interrupt \/ UNCHANGED vars
       BY <1>3, <1>17 DEF AnswerNothing, ExecuteOther, Interrupt, vars
<1>. QED
     BY <1>8, <1>9, <1>10, <1>11, <1>12, <1>13, <1>14, <1>15, <1>16, <1>17 DEF Next

\* A message as it is sent, as far as calls go.
WireMessage == [role : {"user", "assistant", "tool"}, calls : SUBSET Nat]

\* Every message of a result follows, other results apart, the assistant's with its call.
Answers(out) ==
    \A i \in 1..Len(out) : out[i].role = "tool" =>
        \E k \in 1..(i - 1) :
            /\ out[k].role = "assistant" /\ out[i].calls \subseteq out[k].calls
            /\ \A l \in (k + 1)..(i - 1) : out[l].role = "tool"

\* The tool blocks of a message.
WellFormed(m) ==
    /\ Len(m.items) \in Nat /\ DOMAIN m.items = 1..Len(m.items)
    /\ \A j \in 1..Len(m.items) : m.items[j].call \in Nat

ItemCalls(m) == {m.items[j].call : j \in DOMAIN m.items}

\* The message that is sent last is the assistant's, with these calls among its own.
EndsWith(out, calls) ==
    Len(out) > 0 /\ out[Len(out)].role = "assistant" /\ calls \subseteq out[Len(out)].calls

LEMMA AppendAnswers ==
    ASSUME NEW out \in Seq(WireMessage), NEW w \in WireMessage, Answers(out), w.role # "tool"
    PROVE  LET r == Append(out, w)
           IN  /\ r \in Seq(WireMessage) /\ Answers(r)
               /\ w.role = "assistant" => EndsWith(r, w.calls)
<1> DEFINE r == Append(out, w)
           n == Len(out)
<1>1. /\ r \in Seq(WireMessage) /\ n \in Nat /\ Len(r) = n + 1 /\ r[n + 1] = w
      /\ \A i \in 1..n : r[i] = out[i]
      BY AppendProperties, LenProperties
<1>. HIDE DEF r
<1>2. Answers(r)
  <2> SUFFICES ASSUME NEW i \in 1..Len(r), r[i].role = "tool"
               PROVE  \E k \in 1..(i - 1) :
                         /\ r[k].role = "assistant" /\ r[i].calls \subseteq r[k].calls
                         /\ \A l \in (k + 1)..(i - 1) : r[l].role = "tool"
      BY DEF Answers
  <2>1. i \in 1..n /\ r[i] = out[i]
        BY <1>1
  <2>2. PICK k \in 1..(i - 1) :
            /\ out[k].role = "assistant" /\ out[i].calls \subseteq out[k].calls
            /\ \A l \in (k + 1)..(i - 1) : out[l].role = "tool"
        BY <2>1 DEF Answers
  <2>3. k \in 1..n /\ \A l \in (k + 1)..(i - 1) : l \in 1..n
        BY <1>1, <2>1
  <2>. QED
       BY <1>1, <2>1, <2>2, <2>3
<1>3. w.role = "assistant" => EndsWith(r, w.calls)
      BY <1>1 DEF EndsWith
<1>. QED
     BY <1>1, <1>2, <1>3 DEF r

\* More calls for the assistant's message at the end.
LEMMA MergeAnswers ==
    ASSUME NEW out \in Seq(WireMessage), Answers(out), Len(out) > 0,
           out[Len(out)].role = "assistant", NEW calls \in SUBSET Nat
    PROVE  LET r == [out EXCEPT ![Len(out)].calls = @ \cup calls]
           IN  r \in Seq(WireMessage) /\ Answers(r) /\ EndsWith(r, calls)
<1> DEFINE n == Len(out)
           last == out[n]
           new == [last EXCEPT !.calls = @ \cup calls]
           r == [out EXCEPT ![n] = new]
<1>1. n \in 1..n /\ DOMAIN out = 1..n /\ last \in WireMessage
      BY LenProperties, ElementOfSeq
<1>2. new \in WireMessage /\ new.role = "assistant" /\ new.calls = last.calls \cup calls
  <2>. HIDE DEF last
  <2>1. last.role = "assistant"
        BY DEF last
  <2>. QED
       BY <1>1, <2>1 DEF WireMessage
<1>3. /\ r \in Seq(WireMessage) /\ Len(r) = n /\ r[n] = new
      /\ \A i \in 1..n : i # n => r[i] = out[i]
  <2>. HIDE DEF new
  <2>. QED
       BY <1>1, <1>2, ExceptSeq
<1>. HIDE DEF new, r
<1>4. \A i \in 1..n : r[i].role = out[i].role /\ out[i].calls \subseteq r[i].calls
      BY <1>2, <1>3
<1>5. Answers(r)
  <2> SUFFICES ASSUME NEW i \in 1..n, r[i].role = "tool"
               PROVE  \E k \in 1..(i - 1) :
                         /\ r[k].role = "assistant" /\ r[i].calls \subseteq r[k].calls
                         /\ \A l \in (k + 1)..(i - 1) : r[l].role = "tool"
      BY <1>3 DEF Answers
  <2>1. out[i].role = "tool" /\ r[i] = out[i]
        BY <1>2, <1>3, <1>4
  <2>2. PICK k \in 1..(i - 1) :
            /\ out[k].role = "assistant" /\ out[i].calls \subseteq out[k].calls
            /\ \A l \in (k + 1)..(i - 1) : out[l].role = "tool"
        BY <2>1 DEF Answers
  <2>3. k \in 1..n /\ \A l \in (k + 1)..(i - 1) : l \in 1..n
        BY <1>1
  <2>4. r[k].role = "assistant" /\ r[i].calls \subseteq r[k].calls
        BY <1>4, <2>1, <2>2, <2>3
  <2>5. \A l \in (k + 1)..(i - 1) : r[l].role = "tool"
        BY <1>4, <2>2, <2>3
  <2>. QED
       BY <2>4, <2>5
<1>6. EndsWith(r, calls)
      BY <1>1, <1>2, <1>3 DEF EndsWith
<1>7. r = [out EXCEPT ![Len(out)].calls = @ \cup calls]
      BY DEF r, new
<1>. QED
     BY <1>3, <1>5, <1>6, <1>7

\* The results of the calls of the assistant's message at the end.
LEMMA ResultsAnswer ==
    ASSUME NEW out \in Seq(WireMessage), Answers(out), NEW m, WellFormed(m),
           \A j \in 1..Len(m.items) : EndsWith(out, {m.items[j].call})
    PROVE  LET r == out \o [j \in DOMAIN m.items |-> [role |-> "tool", calls |-> {m.items[j].call}]]
           IN  r \in Seq(WireMessage) /\ Answers(r)
<1> DEFINE n == Len(out)
           s == [j \in DOMAIN m.items |-> [role |-> "tool", calls |-> {m.items[j].call}]]
           r == out \o s
<1>1. /\ s \in Seq(WireMessage) /\ Len(s) = Len(m.items) /\ Len(s) \in Nat
      /\ \A j \in 1..Len(s) : s[j].role = "tool" /\ s[j].calls = {m.items[j].call}
  <2>1. /\ s \in [1..Len(m.items) -> WireMessage]
        /\ \A j \in 1..Len(m.items) : s[j].role = "tool" /\ s[j].calls = {m.items[j].call}
        BY DEF WireMessage, WellFormed
  <2>2. DOMAIN s = 1..Len(m.items) /\ Len(m.items) \in Nat
        BY DEF WellFormed
  <2>. HIDE DEF s
  <2>3. s \in Seq(WireMessage) /\ Len(s) = Len(m.items)
        BY <2>1, <2>2
  <2>. QED
       BY <2>1, <2>2, <2>3
<1>. HIDE DEF s
<1>2. /\ r \in Seq(WireMessage) /\ n \in Nat /\ Len(r) = n + Len(s)
      /\ \A i \in 1..n : r[i] = out[i]
      /\ \A i \in (n + 1)..Len(r) : r[i] = s[i - n] /\ i - n \in 1..Len(s)
  <2>1. /\ r \in Seq(WireMessage) /\ n \in Nat /\ Len(r) = n + Len(s)
        /\ \A i \in 1..(n + Len(s)) : r[i] = IF i <= n THEN out[i] ELSE s[i - n]
    <3>1. n \in Nat
          BY LenProperties
    <3>2. r \in Seq(WireMessage) /\ Len(r) = n + Len(s)
          BY <1>1, ConcatProperties
    <3>3. \A i \in 1..(n + Len(s)) : r[i] = IF i <= n THEN out[i] ELSE s[i - n]
          BY <1>1, ConcatProperties
    <3>. QED
         BY <3>1, <3>2, <3>3
  <2>. HIDE DEF r
  <2>. QED
       BY <1>1, <2>1, SMTT(30)
<1>. HIDE DEF r
<1>3. Answers(r)
  <2> SUFFICES ASSUME NEW i \in 1..Len(r), r[i].role = "tool"
               PROVE  \E k \in 1..(i - 1) :
                         /\ r[k].role = "assistant" /\ r[i].calls \subseteq r[k].calls
                         /\ \A l \in (k + 1)..(i - 1) : r[l].role = "tool"
      BY DEF Answers
  <2>1. CASE i \in 1..n
    <3>1. PICK k \in 1..(i - 1) :
              /\ out[k].role = "assistant" /\ out[i].calls \subseteq out[k].calls
              /\ \A l \in (k + 1)..(i - 1) : out[l].role = "tool"
          BY <1>2, <2>1 DEF Answers
    <3>2. k \in 1..n /\ \A l \in (k + 1)..(i - 1) : l \in 1..n
          BY <1>2, <2>1
    <3>. QED
         BY <1>2, <2>1, <3>1, <3>2
  <2>2. CASE i \in (n + 1)..Len(r)
    <3>1. i - n \in 1..Len(m.items) /\ r[i].calls = {m.items[i - n].call}
          BY <1>1, <1>2, <2>2
    <3>2. n > 0 /\ out[n].role = "assistant" /\ r[i].calls \subseteq out[n].calls
          BY <3>1 DEF EndsWith
    <3>3. n \in 1..(i - 1) /\ r[n] = out[n]
          BY <1>2, <2>2, <3>2
    <3>4. \A l \in (n + 1)..(i - 1) : r[l].role = "tool"
      <4> TAKE l \in (n + 1)..(i - 1)
      <4>1. l \in (n + 1)..Len(r) /\ l \in 1..(n + Len(s)) /\ ~(l <= n)
            BY <1>2, <2>2
      <4>2. l - n \in 1..Len(m.items) /\ r[l] = s[l - n]
            BY <1>1, <1>2, <4>1
      <4>. QED
           BY <1>1, <4>2
    <3>. QED
         BY <3>2, <3>3, <3>4
  <2>3. i \in 1..n \/ i \in (n + 1)..Len(r)
        BY <1>1, <1>2
  <2>. QED
       BY <2>1, <2>2, <2>3
<1>. QED
     BY <1>2, <1>3 DEF r, s

\* One message more.
LEMMA ConvertAnswers ==
    ASSUME NEW out \in Seq(WireMessage), Answers(out), NEW m, WellFormed(m),
           m.kind = "result" => \A j \in 1..Len(m.items) : EndsWith(out, {m.items[j].call})
    PROVE  LET r == Convert(out, m)
           IN  /\ r \in Seq(WireMessage) /\ Answers(r)
               /\ m.kind = "use" => EndsWith(r, ItemCalls(m))
<1> DEFINE r == Convert(out, m)
           calls == ItemCalls(m)
<1>1. calls \in SUBSET Nat
      BY DEF ItemCalls, WellFormed
<1>2. r = IF m.kind = "user" THEN Append(out, [role |-> "user", calls |-> {}])
          ELSE IF m.kind = "result"
          THEN out \o [j \in DOMAIN m.items |-> [role |-> "tool", calls |-> {m.items[j].call}]]
          ELSE IF out # <<>> /\ Last(out).role = "assistant"
          THEN [out EXCEPT ![Len(out)].calls = @ \cup calls]
          ELSE Append(out, [role |-> "assistant", calls |-> calls])
      BY Zenon DEF Convert, ItemCalls
<1>. HIDE DEF r, calls
<1>3. CASE m.kind = "user"
  <2>1. [role |-> "user", calls |-> {}] \in WireMessage
        BY DEF WireMessage
  <2>. QED
       BY <1>2, <1>3, <2>1, AppendAnswers DEF r
<1>4. CASE m.kind = "result"
  <2>1. r = out \o [j \in DOMAIN m.items |-> [role |-> "tool", calls |-> {m.items[j].call}]]
        BY <1>2, <1>4
  <2>. QED
       BY <1>4, <2>1, ResultsAnswer DEF r
<1>5. CASE m.kind \notin {"user", "result"} /\ out # <<>> /\ Last(out).role = "assistant"
  <2>1. r = [out EXCEPT ![Len(out)].calls = @ \cup calls]
        BY <1>2, <1>5
  <2>2. Len(out) > 0 /\ out[Len(out)].role = "assistant"
        BY <1>5, EmptySeq, LenProperties DEF Last
  <2>. QED
       BY <1>1, <2>1, <2>2, MergeAnswers DEF r, calls
<1>6. CASE m.kind \notin {"user", "result"} /\ ~(out # <<>> /\ Last(out).role = "assistant")
  <2> DEFINE w == [role |-> "assistant", calls |-> calls]
  <2>1. w \in WireMessage /\ w.role = "assistant" /\ w.calls = calls
        BY <1>1 DEF WireMessage
  <2>2. r = Append(out, w)
        BY <1>2, <1>6
  <2>. HIDE DEF w
  <2>. QED
       BY <2>1, <2>2, AppendAnswers DEF r, calls
<1>. QED
     BY <1>3, <1>4, <1>5, <1>6

Converts(f, api, n) == f = [k \in 0..n |-> IF k = 0 THEN <<>> ELSE Convert(f[k - 1], api[k])]

\* The recursion of OpenAIMessages defines a function.
LEMMA ConvertsExists ==
    ASSUME NEW api, NEW n \in Nat
    PROVE  \E f : Converts(f, api, n)
<1> DEFINE S == {m \in Nat : \E f : Converts(f, api, m)}
           step(x, k) == Convert(x, api[k])
<1>1. \A f, m : Converts(f, api, m) <=> f = [k \in 0..m |-> IF k = 0 THEN <<>> ELSE step(f[k - 1], k)]
      BY DEF Converts
<1>. HIDE DEF step
<1>2. 0 \in S
  <2> DEFINE f == [k \in 0..0 |-> <<>>]
  <2>1. f = [k \in 0..0 |-> IF k = 0 THEN <<>> ELSE step(f[k - 1], k)]
        OBVIOUS
  <2>. QED
       BY <1>1, <2>1
<1>3. ASSUME NEW m \in Nat, m \in S PROVE m + 1 \in S
  <2>1. PICK f : f = [k \in 0..m |-> IF k = 0 THEN <<>> ELSE step(f[k - 1], k)]
        BY <1>1, <1>3
  <2> DEFINE g == [k \in 0..(m + 1) |-> IF k = m + 1 THEN step(f[m], k) ELSE f[k]]
  <2>2. \A k \in 0..m : g[k] = IF k = 0 THEN <<>> ELSE step(g[k - 1], k)
    <3>1. \A k \in 0..m : g[k] = f[k]
          OBVIOUS
    <3>. HIDE DEF g
    <3>. QED
         BY <2>1, <3>1
  <2>3. g[m + 1] = step(g[m], m + 1)
        OBVIOUS
  <2>4. g = [k \in 0..(m + 1) |-> g[k]]
        OBVIOUS
  <2>. HIDE DEF g
  <2>5. g = [k \in 0..(m + 1) |-> IF k = 0 THEN <<>> ELSE step(g[k - 1], k)]
    <3>1. \A k \in 0..(m + 1) : k \in 0..m \/ (k = m + 1 /\ k # 0 /\ k - 1 = m)
          OBVIOUS
    <3>. QED
         BY <2>2, <2>3, <2>4, <3>1
  <2>6. Converts(g, api, m + 1)
        BY <1>1, <2>5
  <2>. QED
       BY <2>6
<1>. HIDE DEF S
<1>4. Nat \subseteq S
      BY <1>2, <1>3, SetInduction
<1>. QED
     BY <1>4 DEF S

\* f converts one message more in each step.
LEMMA ConvertsSteps ==
    ASSUME NEW api, Len(api) \in Nat
    PROVE  \E f : /\ OpenAIMessages(api) = f[Len(api)]
                  /\ f[0] = <<>>
                  /\ \A k \in Nat : k < Len(api) => f[k + 1] = Convert(f[k], api[k + 1])
<1> DEFINE n == Len(api)
           f == CHOOSE f : Converts(f, api, n)
           step(x, k) == Convert(x, api[k])
<1>1. n \in Nat
      OBVIOUS
<1>2. Converts(f, api, n)
  <2>. HIDE DEF n
  <2>. QED
       BY <1>1, ConvertsExists
<1>3. OpenAIMessages(api) = f[n]
      BY Zenon DEF OpenAIMessages, Converts
<1>. HIDE DEF f
<1>4. f = [k \in 0..n |-> IF k = 0 THEN <<>> ELSE step(f[k - 1], k)]
      BY <1>2 DEF Converts
<1>. HIDE DEF step
<1>5. f[0] = <<>> /\ \A k \in Nat : k < n => f[k + 1] = step(f[k], k + 1)
  <2>1. \A k \in Nat : k < n => k + 1 \in 0..n /\ k + 1 # 0 /\ (k + 1) - 1 = k
        BY <1>1
  <2>. QED
       BY <1>1, <1>4, <2>1
<1>. QED
     BY <1>3, <1>5 DEF step

\* Every result of P has its call in the message before.
AnswersBefore(P) ==
    \A i \in 1..Len(P) : P[i].kind = "result" =>
        \A j \in 1..Len(P[i].items) :
            /\ i > 1 /\ P[i - 1].kind = "use"
            /\ \E l \in 1..Len(P[i - 1].items) : P[i - 1].items[l].call = P[i].items[j].call

\* So it has in what is sent.
LEMMA OpenAIAnswers ==
    ASSUME NEW P, Len(P) \in Nat, \A i \in 1..Len(P) : WellFormed(P[i]), AnswersBefore(P)
    PROVE  OpenAIMessages(P) \in Seq(WireMessage) /\ Answers(OpenAIMessages(P))
<1>1. PICK f : /\ OpenAIMessages(P) = f[Len(P)]
               /\ f[0] = <<>>
               /\ \A k \in Nat : k < Len(P) => f[k + 1] = Convert(f[k], P[k + 1])
      BY ConvertsSteps
<1> DEFINE Good(k) == /\ f[k] \in Seq(WireMessage) /\ Answers(f[k])
                      /\ k > 0 /\ P[k].kind = "use" => EndsWith(f[k], ItemCalls(P[k]))
           S == {k \in Nat : k <= Len(P) => Good(k)}
<1>2. 0 \in S
  <2>1. <<>> \in Seq(WireMessage) /\ Len(<<>>) = 0
        BY EmptySeq
  <2>2. Answers(<<>>)
        BY <2>1 DEF Answers
  <2>3. Good(0)
        BY <1>1, <2>1, <2>2
  <2>. QED
       BY <2>3
<1>3. ASSUME NEW k \in Nat, k \in S PROVE k + 1 \in S
  <2> SUFFICES ASSUME k + 1 <= Len(P) PROVE Good(k + 1)
      OBVIOUS
  <2> DEFINE m == P[k + 1]
  <2>1. /\ f[k] \in Seq(WireMessage) /\ Answers(f[k])
        /\ k > 0 /\ P[k].kind = "use" => EndsWith(f[k], ItemCalls(P[k]))
        /\ f[k + 1] = Convert(f[k], m) /\ k + 1 \in 1..Len(P) /\ (k + 1) - 1 = k
        BY <1>1, <1>3
  <2>2. WellFormed(m)
        BY <2>1
  <2>3. ASSUME m.kind = "result", NEW j \in 1..Len(m.items)
        PROVE  EndsWith(f[k], {m.items[j].call})
    <3>1. /\ k > 0 /\ P[k].kind = "use"
          /\ \E l \in 1..Len(P[k].items) : P[k].items[l].call = m.items[j].call
      <4>1. /\ k + 1 > 1 /\ P[(k + 1) - 1].kind = "use"
            /\ \E l \in 1..Len(P[(k + 1) - 1].items) :
                  P[(k + 1) - 1].items[l].call = P[k + 1].items[j].call
            BY <2>1, <2>3, Zenon DEF AnswersBefore
      <4>. QED
           BY <2>1, <4>1
    <3>2. WellFormed(P[k])
          BY <2>1, <3>1
    <3>3. m.items[j].call \in ItemCalls(P[k])
          BY <3>1, <3>2 DEF ItemCalls, WellFormed
    <3>. QED
         BY <2>1, <3>1, <3>3 DEF EndsWith
  <2>. HIDE DEF m
  <2>4. /\ f[k + 1] \in Seq(WireMessage) /\ Answers(f[k + 1])
        /\ m.kind = "use" => EndsWith(f[k + 1], ItemCalls(m))
        BY <2>1, <2>2, <2>3, ConvertAnswers
  <2>. QED
       BY <2>4 DEF m
<1>. HIDE DEF S
<1>4. Nat \subseteq S
      BY <1>2, <1>3, SetInduction
<1>5. Good(Len(P))
      BY <1>4 DEF S
<1>. QED
     BY <1>1, <1>5

\* A result and an earlier use of its call are neighbours in s.
Neighbours(s) ==
    \A a, i \in 1..Len(s) : \A l \in 1..Len(s[a].items), j \in 1..Len(s[i].items) :
        /\ a < i /\ s[a].kind = "use" /\ s[i].kind = "result"
        /\ s[a].items[l].call = s[i].items[j].call
        => a = i - 1

LEMMA NormalizedNeighbours ==
    ASSUME NEW n, NEW ms \in Seq(Message(n)), AnsweredNext(ms)
    PROVE  Neighbours(Normalize(ms))
<1> DEFINE api == Normalize(ms)
<1>1. PICK h, b :
          /\ Sent(api, ms, h) /\ b \in Int
          /\ \A i \in 1..Len(api) : api[i] = ms[h[i]] /\ b <= h[i]
          /\ \A i \in 1..Len(api) : ms[h[i]].kind \notin {"boundary", "snip_boundary"}
          /\ \A k \in (b + 1)..Len(ms) : ms[k].kind # "boundary"
      BY NormalizedFrom
<1>. HIDE DEF api
<1>2. /\ Len(api) \in Nat /\ Len(ms) \in Nat
      /\ \A i \in 1..Len(api) : h[i] \in 1..Len(ms)
      /\ \A i, j \in 1..Len(api) : i < j => h[i] < h[j]
      BY <1>1, LenProperties DEF Sent
<1>3. ASSUME NEW a \in 1..Len(api), NEW i \in 1..Len(api), NEW l \in 1..Len(api[a].items),
             NEW j \in 1..Len(api[i].items), a < i, api[a].kind = "use", api[i].kind = "result",
             api[a].items[l].call = api[i].items[j].call
      PROVE  a = i - 1
  <2> SUFFICES ASSUME a # i - 1 PROVE FALSE
      OBVIOUS
  <2>1. i - 1 \in 1..Len(api) /\ a < i - 1 /\ i - 1 < i
        BY <1>2, <1>3, SMTT(30)
  <2> DEFINE p == <<h[a], l>>
             q == <<h[i], j>>
             k == h[i - 1]
  <2>2. p \in Places(ms, "use") /\ q \in Places(ms, "result")
    <3>1. h[a] \in 1..Len(ms) /\ ms[h[a]].kind = "use" /\ l \in 1..Len(ms[h[a]].items)
          BY <1>1, <1>2, <1>3
    <3>2. h[i] \in 1..Len(ms) /\ ms[h[i]].kind = "result" /\ j \in 1..Len(ms[h[i]].items)
          BY <1>1, <1>2, <1>3
    <3>. QED
         BY <3>1, <3>2, PlacesAre
  <2>3. At(ms, p).call = At(ms, q).call
        BY <1>1, <1>3 DEF At
  <2>4. p[1] < k /\ k < q[1] /\ k \in 1..Len(ms) /\ ms[k].kind # "snip_boundary"
        BY <1>1, <1>2, <2>1
  <2>5. p[1] = h[a] /\ q[1] = h[i]
        OBVIOUS
  <2>. HIDE DEF p, q, k
  <2>6. PICK c \in 1..Len(ms) : p[1] < c /\ c < q[1] /\ ms[c].kind = "boundary"
        BY <2>2, <2>3, <2>4 DEF AnsweredNext
  <2>7. b <= h[a] /\ h[a] \in Int
        BY <1>1, <1>2
  <2>8. c \in (b + 1)..Len(ms)
        BY <1>1, <1>2, <2>5, <2>6, <2>7
  <2>. QED
       BY <1>1, <2>6, <2>8
<1>4. Neighbours(api)
      BY <1>3 DEF Neighbours
<1>. QED
     BY <1>4 DEF api

\* What trimming and the removal of orphans leave has every result behind its call.
LEMMA TrimmedAnswers ==
    ASSUME NEW n, NEW api \in Seq(Message(n)), Neighbours(api), NEW k \in Starts(api)
    PROVE  LET left == RemoveOrphanToolResults(api, k)
           IN  /\ Len(left) \in Nat /\ DOMAIN left = 1..Len(left)
               /\ \A i \in 1..Len(left) : WellFormed(left[i])
               /\ AnswersBefore(left)
<1> DEFINE kept == SubSeq(api, k, Len(api))
           left == RemoveOrphanToolResults(api, k)
<1>1. /\ Len(left) = Len(api) + 1 - k /\ DOMAIN left = 1..Len(left) /\ k \in 1..(Len(api) + 1)
      /\ Len(left) \in Nat
      /\ \A i \in 1..Len(left) : left[i].kind = api[k + i - 1].kind
      BY TrimmedFrom
<1>2. Len(api) \in Nat
      BY LenProperties
<1>3. /\ kept \in Seq(Message(n)) /\ Len(kept) = Len(left) /\ DOMAIN kept = 1..Len(kept)
      /\ \A i \in 1..Len(kept) : kept[i] = api[k + i - 1] /\ kept[i] \in Message(n)
  <2>1. kept \in Seq(Message(n)) /\ Len(kept) = Len(api) + 1 - k
        BY <1>1, <1>2, SubSeqProperties
  <2>2. \A i \in 1..Len(kept) : kept[i] = api[k + i - 1]
        BY <1>1, <1>2, <2>1, SubSeqProperties
  <2>. HIDE DEF kept, left
  <2>. QED
       BY <1>1, <2>1, <2>2, ElementOfSeq, LenProperties
<1> DEFINE seen(i) == CallIds(SubSeq(kept, 1, i))
           J(i)    == {j \in DOMAIN kept[i].items : kept[i].items[j].call \in seen(i)}
           thin(i) == Pick(kept[i].items, J(i))
<1>4. left = [i \in DOMAIN kept |->
                 IF kept[i].kind # "result" THEN kept[i] ELSE [kept[i] EXCEPT !.items = thin(i)]]
      BY Zenon DEF RemoveOrphanToolResults
<1>. HIDE DEF kept, seen, J, thin, left
<1>5. \A i \in 1..Len(left) :
         left[i] = IF kept[i].kind # "result" THEN kept[i] ELSE [kept[i] EXCEPT !.items = thin(i)]
      BY <1>3, <1>4
\* The blocks of a message are of the types of its kind.
<1>6. ASSUME NEW i \in 1..Len(kept)
      PROVE  /\ kept[i].items \in Seq(Calls \cup Results) /\ WellFormed(kept[i])
             /\ kept[i] = [id |-> kept[i].id, kind |-> kept[i].kind, items |-> kept[i].items]
  <2>1. /\ kept[i].items \in Seq(Calls \cup Results)
        /\ kept[i] = [id |-> kept[i].id, kind |-> kept[i].kind, items |-> kept[i].items]
        BY <1>3, MessageParts
  <2>2. \A j \in 1..Len(kept[i].items) : kept[i].items[j] \in Calls \cup Results
        BY <2>1, ElementOfSeq
  <2>3. \A j \in 1..Len(kept[i].items) : kept[i].items[j].call \in Nat
        BY <2>2 DEF Calls, Results
  <2>. QED
       BY <2>1, <2>3, LenProperties DEF WellFormed
\* Where the results of a thinned message come from.
<1>7. ASSUME NEW i \in 1..Len(kept), kept[i].kind = "result"
      PROVE  /\ Len(left[i].items) \in Nat /\ DOMAIN left[i].items = 1..Len(left[i].items)
             /\ \A j \in 1..Len(left[i].items) : \E e \in 1..Len(kept[i].items) :
                   left[i].items[j] = kept[i].items[e] /\ kept[i].items[e].call \in seen(i)
  <2>1. left[i].items = thin(i)
    <3>1. left[i] = [kept[i] EXCEPT !.items = thin(i)]
          BY <1>3, <1>5, <1>7
    <3>2. ASSUME NEW m, m = [id |-> m.id, kind |-> m.kind, items |-> m.items], NEW t
          PROVE  [m EXCEPT !.items = t].items = t
          BY <3>2
    <3>. QED
         BY <1>6, <3>1, <3>2
  <2>2. PICK f : Picks(thin(i), kept[i].items, J(i), f)
        BY <1>6, PickKeepsPlaces DEF thin
  <2>3. \A e \in J(i) : kept[i].items[e].call \in seen(i)
        BY DEF J
  <2>4. Len(thin(i)) \in Nat /\ DOMAIN thin(i) = 1..Len(thin(i))
        BY <2>2 DEF Picks
  <2>5. ASSUME NEW j \in 1..Len(thin(i))
        PROVE  \E e \in 1..Len(kept[i].items) :
                  thin(i)[j] = kept[i].items[e] /\ kept[i].items[e].call \in seen(i)
    <3>1. f[j] \in J(i) /\ f[j] \in 1..Len(kept[i].items) /\ thin(i)[j] = kept[i].items[f[j]]
          BY <2>2 DEF Picks
    <3>. QED
         BY <2>3, <3>1
  <2>. QED
       BY <2>1, <2>4, <2>5
<1>8. \A i \in 1..Len(left) : WellFormed(left[i])
  <2> SUFFICES ASSUME NEW i \in 1..Len(left) PROVE WellFormed(left[i])
      OBVIOUS
  <2>1. CASE kept[i].kind # "result"
        BY <1>3, <1>5, <1>6, <2>1
  <2>2. CASE kept[i].kind = "result"
    <3>1. \A j \in 1..Len(left[i].items) : left[i].items[j].call \in Nat
      <4> SUFFICES ASSUME NEW j \in 1..Len(left[i].items) PROVE left[i].items[j].call \in Nat
          OBVIOUS
      <4>1. PICK e \in 1..Len(kept[i].items) : left[i].items[j] = kept[i].items[e]
            BY <1>3, <1>7, <2>2
      <4>2. WellFormed(kept[i])
            BY <1>3, <1>6
      <4>. QED
           BY <4>1, <4>2 DEF WellFormed
    <3>. QED
         BY <1>3, <1>7, <2>2, <3>1 DEF WellFormed
  <2>. QED
       BY <2>1, <2>2
<1>9. AnswersBefore(left)
  <2> SUFFICES ASSUME NEW i \in 1..Len(left), left[i].kind = "result", NEW j \in 1..Len(left[i].items)
               PROVE  /\ i > 1 /\ left[i - 1].kind = "use"
                      /\ \E l \in 1..Len(left[i - 1].items) :
                            left[i - 1].items[l].call = left[i].items[j].call
      BY DEF AnswersBefore
  <2>1. i \in 1..Len(kept) /\ kept[i].kind = "result" /\ kept[i] = api[k + i - 1]
        BY <1>1, <1>3
  <2>2. PICK e \in 1..Len(kept[i].items) :
            left[i].items[j] = kept[i].items[e] /\ kept[i].items[e].call \in seen(i)
        BY <1>7, <2>1
  <2> DEFINE c == left[i].items[j].call
             front == SubSeq(kept, 1, i)
  <2>3. /\ front \in Seq(Message(n)) /\ Len(front) = i
        /\ \A x \in 1..i : front[x] = kept[x]
    <3>1. Len(kept) \in Nat /\ kept \in Seq(Message(n))
          BY <1>1, <1>3
    <3>. QED
         BY <2>1, <3>1, SubSeqProperties, SMTT(30)
  <2>. HIDE DEF front
  <2>4. PICK p \in Places(front, "use") : At(front, p).call = c
    <3>1. c \in CallIds(front)
          BY <2>2 DEF seen, front
    <3>. QED
         BY <3>1 DEF CallIds
  <2>5. /\ p[1] \in 1..i /\ kept[p[1]].kind = "use"
        /\ p[2] \in 1..Len(kept[p[1]].items) /\ kept[p[1]].items[p[2]].call = c
    <3>1. /\ p[1] \in 1..Len(front) /\ front[p[1]].kind = "use"
          /\ p[2] \in 1..Len(front[p[1]].items) /\ At(front, p) = front[p[1]].items[p[2]]
          BY <2>3, PlacesAre
    <3>. QED
         BY <2>3, <2>4, <3>1
  <2>. HIDE DEF c
  <2>6. p[1] < i
        BY <2>1, <2>5
  <2> DEFINE a == k + p[1] - 1
             z == k + i - 1
  <2>7. /\ a \in 1..Len(api) /\ z \in 1..Len(api) /\ a < z
        /\ kept[p[1]] = api[a] /\ kept[i] = api[z]
    <3>1. /\ k \in 1..(Len(api) + 1) /\ Len(kept) = Len(api) + 1 - k
          /\ i \in 1..Len(kept) /\ p[1] \in 1..i
          BY <1>1, <1>3, <2>1, <2>5
    <3>2. a \in 1..Len(api) /\ z \in 1..Len(api) /\ a < z /\ p[1] \in 1..Len(kept)
          BY <1>2, <2>6, <3>1, SMTT(30)
    <3>. QED
         BY <1>3, <2>1, <3>2
  <2>8. api[z].items[e].call = c
        BY <2>2, <2>7 DEF c
  <2>9. a = z - 1
    <3>. HIDE DEF a, z
    <3>. QED
         BY <2>1, <2>2, <2>5, <2>7, <2>8, SMTT(30) DEF Neighbours
  <2>10. p[1] = i - 1
    <3>1. k \in Int /\ i \in Int /\ p[1] \in Int
          BY <1>1, <2>1, <2>5
    <3>. QED
         BY <2>9, <3>1
  <2>11. left[i - 1] = kept[i - 1] /\ i > 1
    <3>1. i - 1 \in 1..Len(left) /\ kept[i - 1].kind # "result" /\ i > 1
          BY <1>3, <2>1, <2>5, <2>10
    <3>. QED
         BY <1>5, <3>1
  <2>. QED
       BY <2>5, <2>10, <2>11 DEF c
<1>. QED
     BY <1>1, <1>8, <1>9 DEF left

\* A payload's results follow their calls: what is dropped are results.
LEMMA PayloadAnswers ==
    ASSUME NEW n, NEW ms \in Seq(Message(n)), AnsweredNext(ms), NEW P \in Payloads(ms)
    PROVE  /\ Len(P) \in Nat /\ \A i \in 1..Len(P) : WellFormed(P[i])
           /\ AnswersBefore(P)
<1> DEFINE api == Normalize(ms)
<1>1. api \in Seq(Message(n)) /\ Neighbours(api)
      BY NormalizedFrom, NormalizedNeighbours
<1>2. PICK k \in Starts(api) :
          P = Pick(RemoveOrphanToolResults(api, k),
                   {i \in DOMAIN RemoveOrphanToolResults(api, k) :
                       RemoveOrphanToolResults(api, k)[i].kind = "result"
                       => RemoveOrphanToolResults(api, k)[i].items # <<>>})
      BY Zenon DEF Payloads
<1>. HIDE DEF api
<1> DEFINE left == RemoveOrphanToolResults(api, k)
           I == {i \in DOMAIN left : left[i].kind = "result" => left[i].items # <<>>}
<1>3. /\ Len(left) \in Nat /\ DOMAIN left = 1..Len(left)
      /\ \A i \in 1..Len(left) : WellFormed(left[i])
      /\ AnswersBefore(left)
      BY <1>1, TrimmedAnswers
<1>. HIDE DEF left
<1> DEFINE S == {left[i] : i \in 1..Len(left)}
<1>4. left \in Seq(S)
  <2>1. left = [i \in 1..Len(left) |-> left[i]]
    <3>1. left = [i \in DOMAIN left |-> left[i]]
          BY Zenon, <1>2 DEF left, RemoveOrphanToolResults
    <3>. QED
         BY <1>3, <3>1
  <2>2. left \in [1..Len(left) -> S]
        BY <2>1
  <2>. HIDE DEF S
  <2>3. \A c \in Nat : left \in [1..c -> S] => left \in Seq(S)
        OBVIOUS
  <2>. QED
       BY <1>3, <2>2, <2>3
<1>5. P = Pick(left, I)
      BY <1>2 DEF left
<1>6. \A i \in 1..Len(left) : left[i].kind = "use" => i \in I
      BY <1>3
<1>. HIDE DEF S, I
<1>7. PICK g : Picks(P, left, I, g)
      BY <1>4, <1>5, PickKeepsPlaces
<1>8. /\ Len(P) \in Nat
      /\ \A i \in 1..Len(P) : g[i] \in 1..Len(left) /\ P[i] = left[g[i]]
      /\ \A i, j \in 1..Len(P) : i < j => g[i] < g[j]
      /\ \A e \in 1..Len(left) : e \in I => \E i \in 1..Len(P) : g[i] = e
      BY <1>7 DEF Picks
<1>9. AnswersBefore(P)
  <2> SUFFICES ASSUME NEW i \in 1..Len(P), P[i].kind = "result", NEW j \in 1..Len(P[i].items)
               PROVE  /\ i > 1 /\ P[i - 1].kind = "use"
                      /\ \E l \in 1..Len(P[i - 1].items) : P[i - 1].items[l].call = P[i].items[j].call
      BY DEF AnswersBefore
  <2> DEFINE e == g[i]
  <2>1. e \in 1..Len(left) /\ P[i] = left[e]
        BY <1>8
  <2>. HIDE DEF e
  <2>2. /\ e > 1 /\ left[e - 1].kind = "use"
        /\ \E l \in 1..Len(left[e - 1].items) : left[e - 1].items[l].call = P[i].items[j].call
        BY <1>3, <2>1 DEF AnswersBefore
  <2>3. e - 1 \in 1..Len(left) /\ e - 1 \in I
        BY <1>3, <1>6, <2>1, <2>2
  <2>4. PICK x \in 1..Len(P) : g[x] = e - 1
        BY <1>8, <2>3
  <2>5. x = i - 1
    <3>1. x < i
      <4>1. x # i /\ ~(i < x)
            BY <1>8, <2>1, <2>4 DEF e
      <4>. QED
           BY <1>8, <4>1
    <3>2. ~(x < i - 1)
      <4> SUFFICES ASSUME x < i - 1 PROVE FALSE
          OBVIOUS
      <4>1. i - 1 \in 1..Len(P) /\ i - 1 < i
            BY <1>8
      <4>2. g[x] < g[i - 1] /\ g[i - 1] < g[i] /\ g[i - 1] \in Int
            BY <1>8, <4>1
      <4>. QED
           BY <2>1, <2>4, <4>2 DEF e
    <3>. QED
         BY <1>8, <3>1, <3>2
  <2>6. P[i - 1] = left[e - 1] /\ i > 1
        BY <1>8, <2>4, <2>5
  <2>. QED
       BY <2>2, <2>6
<1>. QED
     BY <1>3, <1>8, <1>9

\* Whatever was trimmed, snipped, compacted or interrupted, the message of a result is
\* sent behind the assistant's message with its call, only other results in between.
THEOREM ResultsAreAnswers == Spec => []ResultsAnswerTheirCalls
<1>1. Invariant /\ Paired(messages, lastId) => ResultsAnswerTheirCalls
  <2> SUFFICES ASSUME Invariant, Paired(messages, lastId), NEW P \in Payloads(messages)
               PROVE  LET sent == OpenAIMessages(P)
                      IN  \A i \in DOMAIN sent : sent[i].role = "tool" =>
                              \E k \in 1..(i - 1) :
                                  /\ sent[k].role = "assistant" /\ sent[i].calls \subseteq sent[k].calls
                                  /\ \A l \in (k + 1)..(i - 1) : sent[l].role = "tool"
      BY DEF ResultsAnswerTheirCalls
  <2> DEFINE sent == OpenAIMessages(P)
  <2>1. messages \in Seq(Message(lastId)) /\ AnsweredNext(messages)
        BY DEF Invariant, TypeOK, Paired
  <2>2. sent \in Seq(WireMessage) /\ Answers(sent)
        BY <2>1, PayloadAnswers, OpenAIAnswers
  <2>. HIDE DEF sent
  <2>3. DOMAIN sent = 1..Len(sent)
        BY <2>2, LenProperties
  <2>4. \A i \in DOMAIN sent : sent[i].role = "tool" =>
            \E k \in 1..(i - 1) :
                /\ sent[k].role = "assistant" /\ sent[i].calls \subseteq sent[k].calls
                /\ \A l \in (k + 1)..(i - 1) : sent[l].role = "tool"
        BY <2>2, <2>3 DEF Answers
  <2>. QED
       BY <2>4 DEF sent
<1>2. Invariant /\ Paired(messages, lastId) /\ [Next]_vars => Paired(messages, lastId)'
      BY PairedStep
<1>. QED
     BY PairedInit, InvariantHolds, <1>1, <1>2, PTL DEF Spec
=============================================================================
