--------------------------- MODULE SessionProofs ---------------------------
(****************************************************************************)
(* Proofs about Session.  Recall: a memory is attached once in a process,   *)
(* and all of them within a bound.  Answers: however the deltas of several  *)
(* calls come, what is gathered is the calls as they were sent.  Store:     *)
(* what a batch makes of a store and of results.  The types, and on them    *)
(* the invariant that ties results, payloads and saved transcripts to the   *)
(* decisions and the files.                                                 *)
(****************************************************************************)
EXTENDS Session, SequenceTheorems, FiniteSetTheorems, TLAPS

\* Facts about lists of places and induction over the numbers.
Numbers == INSTANCE TranscriptProofs

-----------------------------------------------------------------------------
(* Recall *)

\* What was attached by an input of this process counts as surfaced.  Recall asks
\* only for what is not surfaced, so it never asks for what was attached.
RecallInv ==
    /\ inputs \in Nat
    /\ recalled \in [Memories -> SUBSET Nat]
    /\ \A m \in Memories : recalled[m] # {} => m \in surfaced
    /\ RecalledOnce

\* The cut of a set of places is a part of it.
LEMMA CutIsPart == ASSUME NEW places PROVE Cut(places) \subseteq places
  BY DEF Cut

\* Surfacing names that are not surfaced yet keeps the invariant.
LEMMA SurfaceKeeps ==
    ASSUME RecallInv, NEW names, NEW places, Surface(names, places), UNCHANGED inputs,
           \A k \in places : names[k] \notin surfaced
    PROVE  RecallInv'
  <1>1. inputs' \in Nat
    BY DEF RecallInv
  <1>2. recalled' \in [Memories -> SUBSET Nat]
    BY DEF RecallInv, Surface
  <1>3. ASSUME NEW m \in Memories
        PROVE  /\ recalled'[m] # {} => m \in surfaced'
               /\ Cardinality(recalled'[m]) <= 1
    <2>1. CASE \E k \in places : names[k] = m
      <3>1. recalled[m] = {}
        BY <2>1 DEF RecallInv
      <3>2. recalled'[m] = {inputs} /\ m \in surfaced'
        BY <2>1, <3>1 DEF Surface
      <3>. QED
        BY <3>2, FS_Singleton
    <2>2. CASE ~ \E k \in places : names[k] = m
      <3>1. recalled'[m] = recalled[m] /\ surfaced \subseteq surfaced'
        BY <2>2 DEF Surface
      <3>. QED
        BY <3>1 DEF RecallInv, RecalledOnce
    <2>. QED
      BY <2>1, <2>2
  <1>. QED
    BY <1>1, <1>2, <1>3 DEF RecallInv, RecalledOnce

\* What is attached before a ^C is a part of what was to be, so it is not surfaced yet.
LEMMA BegunIsFresh ==
    ASSUME RecallInterrupted
    PROVE  \E names, some : /\ Surface(names, some)
                            /\ \A k \in some : names[k] \in Memories /\ names[k] \notin surfaced
  <1>1. PICK headers \in (SUBSET Memories) \ {{}} :
          \/ \E names \in BoundedSeq(Memories \cup {Unknown}, MaxNamed) :
                \E some \in Beginnings(Selected(names, headers, surfaced)) : Surface(names, some)
          \/ \E ranking \in SetToSeqs(Memories) :
                \E some \in Beginnings(Fallback(ranking, headers, surfaced)) : Surface(ranking, some)
    BY DEF RecallInterrupted
  <1>2. ASSUME NEW names, NEW some,
               \/ some \in Beginnings(Selected(names, headers, surfaced))
               \/ some \in Beginnings(Fallback(names, headers, surfaced))
        PROVE  \A k \in some : names[k] \in Memories /\ names[k] \notin surfaced
    BY <1>2, CutIsPart DEF Beginnings, Selected, Fallback
  <1>. QED
    BY <1>1, <1>2

\* A new process has attached nothing.
LEMMA NothingRecalled ==
    ASSUME inputs' \in Nat, recalled' = [m \in Memories |-> {}]
    PROVE  RecallInv'
  BY FS_EmptySet DEF RecallInv, RecalledOnce

LEMMA RecallInit == Init => RecallInv
  BY FS_EmptySet DEF Init, RecallInv, RecalledOnce

LEMMA RecallInductive == RecallInv /\ [Next]_vars => RecallInv'
  <1> SUFFICES ASSUME RecallInv, [Next]_vars PROVE RecallInv'
    OBVIOUS
  <1>1. CASE UserInput
    BY <1>1 DEF UserInput, recall, RecallInv, RecalledOnce
  <1>2. CASE RecallSelects
    <2>1. PICK headers \in (SUBSET Memories) \ {{}}, names \in BoundedSeq(Memories \cup {Unknown}, MaxNamed) :
             Attach(names, Selected(names, headers, surfaced))
      BY <1>2 DEF RecallSelects
    <2>2. \A k \in Selected(names, headers, surfaced) : names[k] \notin surfaced
      BY CutIsPart DEF Selected
    <2>. QED
      BY <1>2, <2>1, <2>2, SurfaceKeeps DEF RecallSelects, Attach
  <1>3. CASE RecallFallsBack
    <2>1. PICK headers \in (SUBSET Memories) \ {{}}, ranking \in SetToSeqs(Memories) :
             Attach(ranking, Fallback(ranking, headers, surfaced))
      BY <1>3 DEF RecallFallsBack
    <2>2. \A k \in Fallback(ranking, headers, surfaced) : ranking[k] \notin surfaced
      BY CutIsPart DEF Fallback
    <2>. QED
      BY <1>3, <2>1, <2>2, SurfaceKeeps DEF RecallFallsBack, Attach
  <1>4. CASE Resume
    BY <1>4, NothingRecalled DEF Resume, RecallInv
  <1>5. CASE UNCHANGED <<recall, inputs>>
    BY <1>5 DEF recall, RecallInv, RecalledOnce
  <1>6. CASE RecallInterrupted
    <2>1. PICK names, some :
             /\ Surface(names, some)
             /\ \A k \in some : names[k] \in Memories /\ names[k] \notin surfaced
      BY <1>6, BegunIsFresh
    <2>. QED
      BY <1>6, <2>1, SurfaceKeeps DEF RecallInterrupted
  <1>7. [Next]_vars => \/ UserInput \/ RecallSelects \/ RecallFallsBack \/ RecallInterrupted
                       \/ Resume \/ UNCHANGED <<recall, inputs>>
    BY DEF Next, vars, RecallNothing, Microcompact, BuildPayload, Answer, RunBatch, Breaks, Save, Load
  <1>. QED
    BY <1>1, <1>2, <1>3, <1>4, <1>5, <1>6, <1>7

\* No memory is attached by two inputs of one process, for every set of memories,
\* whatever the selector names and however long the session is.
THEOREM RecallsOnce == Spec => []RecalledOnce
  <1>1. RecallInv => RecalledOnce
    BY DEF RecallInv
  <1>. QED
    BY RecallInit, RecallInductive, <1>1, PTL DEF Spec

-----------------------------------------------------------------------------
(* The ceiling *)

Upto(places, k) == {l \in places : l <= k}

\* The places that are left are told apart by how many there are up to each, which
\* are MaxAttached at most.
LEMMA CutIsBounded ==
    ASSUME NEW n \in Nat, NEW places \in SUBSET (1..n)
    PROVE  Cardinality(Cut(places)) \in Nat /\ Cardinality(Cut(places)) <= MaxAttached
  <1> DEFINE rank == [k \in Cut(places) |-> Cardinality(Upto(places, k))]
  <1>1. IsFiniteSet(places) /\ \A k \in places : k \in Nat
    <2>1. IsFiniteSet(1..n)
      BY FS_Interval
    <2>2. IsFiniteSet(places)
      BY <2>1, FS_Subset
    <2>3. \A k \in places : k \in Nat
      OBVIOUS
    <2>. QED
      BY <2>2, <2>3
  <1>2. ASSUME NEW k \in places
        PROVE  IsFiniteSet(Upto(places, k)) /\ Cardinality(Upto(places, k)) \in Nat /\ k \in Upto(places, k)
    BY <1>1, FS_Subset, FS_CardinalityType DEF Upto
  <1>3. ASSUME NEW k \in places PROVE Cardinality(Upto(places, k)) >= 1
    BY <1>2, FS_EmptySet
  <1>4. ASSUME NEW k \in Cut(places) PROVE rank[k] \in 1..MaxAttached
    <2>1. k \in places /\ Cardinality(Upto(places, k)) <= MaxAttached
      BY DEF Cut, Upto
    <2>. QED
      BY <2>1, <1>2, <1>3, RecallBounds
  <1>5. ASSUME NEW k \in Cut(places), NEW m \in Cut(places), k < m PROVE rank[k] # rank[m]
    <2>1. k \in places /\ m \in places /\ k \in Nat /\ m \in Nat
      BY <1>1, CutIsPart
    <2>2. \A l \in Upto(places, k) : l \in places /\ l <= k /\ l \in Nat
      BY <1>1 DEF Upto
    <2>3. \A l \in Upto(places, k) : l <= m /\ l # m
      BY <1>5, <2>1, <2>2
    <2>4. Upto(places, k) \subseteq Upto(places, m) /\ m \notin Upto(places, k)
      BY <2>2, <2>3 DEF Upto
    <2>. QED
      BY <1>2, <2>1, <2>4, FS_Subset
  <1>6. rank \in Injection(Cut(places), 1..MaxAttached)
    <2>1. \A k, m \in Cut(places) : k # m => k < m \/ m < k
      <3>1. \A k \in Cut(places) : k \in Nat
        BY <1>1, CutIsPart
      <3>. QED
        BY <3>1
    <2>. QED
      BY <1>4, <1>5, <2>1 DEF Injection, IsInjective
  <1>7. IsFiniteSet(1..MaxAttached) /\ Cardinality(1..MaxAttached) = MaxAttached
    BY FS_Interval, RecallBounds
  <1>. QED
    BY <1>1, <1>6, <1>7, CutIsPart, FS_Injection, FS_Subset, FS_CardinalityType

BytesInv == bytes \in Nat /\ RecallBounded

\* Before the ceiling there is room for MaxAttached attachments.
LEMMA AttachFits ==
    ASSUME NEW names, NEW places, Attach(names, places), bytes \in Nat, bytes < Ceiling,
           Cardinality(places) \in Nat, Cardinality(places) <= MaxAttached
    PROVE  BytesInv'
  <1>1. PICK n \in Cardinality(places)..(Cardinality(places) * MaxLength) : bytes' = bytes + n
    BY DEF Attach, Additions
  <1>2. Cardinality(places) * MaxLength <= MaxAttached * MaxLength
    BY RecallBounds
  <1>. QED
    BY <1>1, <1>2, RecallBounds DEF BytesInv, RecallBounded

LEMMA Room == 0 < Ceiling + MaxAttached * MaxLength
  BY RecallBounds

LEMMA BytesInductive == BytesInv /\ [Next]_vars => BytesInv'
  <1> SUFFICES ASSUME BytesInv, [Next]_vars PROVE BytesInv'
    OBVIOUS
  <1>1. CASE RecallSelects
    <2>1. PICK headers \in (SUBSET Memories) \ {{}}, names \in BoundedSeq(Memories \cup {Unknown}, MaxNamed) :
             Attach(names, Selected(names, headers, surfaced))
      BY <1>1 DEF RecallSelects
    <2>2. PICK n \in Nat : DOMAIN names = 1..n
      BY <2>1, SessionBounds DEF BoundedSeq, SeqOf
    <2>3. PICK places \in SUBSET (1..n) : Selected(names, headers, surfaced) = Cut(places)
      BY <2>2 DEF Selected
    <2>. QED
      BY <1>1, <2>1, <2>3, CutIsBounded, AttachFits DEF RecallSelects, BytesInv
  <1>2. CASE RecallFallsBack
    <2>1. PICK headers \in (SUBSET Memories) \ {{}}, ranking \in SetToSeqs(Memories) :
             Attach(ranking, Fallback(ranking, headers, surfaced))
      BY <1>2 DEF RecallFallsBack
    <2>2. PICK n \in Nat : DOMAIN ranking = 1..n
      BY RecallBounds, FS_CardinalityType DEF SetToSeqs
    <2>3. PICK places \in SUBSET (1..n) : Fallback(ranking, headers, surfaced) = Cut(places)
      BY <2>2 DEF Fallback
    <2>. QED
      BY <1>2, <2>1, <2>3, CutIsBounded, AttachFits DEF RecallFallsBack, BytesInv
  <1>3. CASE Resume
    BY <1>3, Room DEF Resume, BytesInv, RecallBounded
  <1>4. CASE UNCHANGED bytes
    BY <1>4 DEF BytesInv, RecallBounded
  <1>5. [Next]_vars => RecallSelects \/ RecallFallsBack \/ Resume \/ UNCHANGED bytes
    BY DEF Next, vars, recall, UserInput, RecallNothing, RecallInterrupted, Microcompact, BuildPayload,
           Answer, RunBatch, Breaks, Save, Load
  <1>. QED
    BY <1>1, <1>2, <1>3, <1>4, <1>5

\* What recall puts into a session stays below the ceiling and one run's attachments
\* more, for every ceiling, number and length of attachments.
THEOREM RecallStaysBounded == Spec => []RecallBounded
  <1>1. Init => BytesInv
    BY Room DEF Init, BytesInv, RecallBounded
  <1>2. BytesInv => RecallBounded
    BY DEF BytesInv
  <1>. QED
    BY <1>1, <1>2, BytesInductive, PTL DEF Spec

-----------------------------------------------------------------------------
(* Sequences and sets *)

Fragments == Nat \X Nat

Call == [id : {Own, Reused}, name : Seq(Nat), input : Seq(Fragments)]

LEMMA Interval == ASSUME NEW n \in Nat PROVE IsFiniteSet(1..n) /\ Cardinality(1..n) = n
  BY FS_Interval

LEMMA FinitePlaces ==
    ASSUME NEW n \in Nat, NEW X \in SUBSET (1..n)
    PROVE  IsFiniteSet(X) /\ Cardinality(X) \in Nat /\ Cardinality(X) <= n
  <1>1. IsFiniteSet(1..n) /\ Cardinality(1..n) = n
    BY FS_Interval
  <1>. QED
    BY <1>1, FS_Subset, FS_CardinalityType

-----------------------------------------------------------------------------
(* Fragments *)

LEMMA SentParts ==
    ASSUME NEW sent \in Seq(Sent), NEW c \in 1..Len(sent)
    PROVE  /\ sent[c].id \in {Own, Reused, None} /\ sent[c].pieces \in Nat \ {0}
           /\ sent[c].parses \subseteq Nat /\ c \in Nat /\ c - 1 \in Nat /\ None # c - 1
  <1>1. sent[c] \in Sent
    BY ElementOfSeq
  <1>2. c \in Nat /\ c - 1 \in Nat
    BY LenProperties
  <1>3. /\ sent[c].id \in {Own, Reused, None} /\ sent[c].pieces \in 1..MaxPieces
        /\ sent[c].parses \in SUBSET (1..MaxPieces)
    BY <1>1 DEF Sent
  <1>. QED
    BY <1>2, <1>3, StreamBounds

LEMMA PartShape ==
    ASSUME NEW c \in Nat, NEW n \in Nat
    PROVE  /\ Part(c, n) \in Seq(Fragments) /\ Len(Part(c, n)) = n
           /\ \A k \in 1..n : Part(c, n)[k] = <<c, k>>
  <1>1. \A k \in 1..n : <<c, k>> \in Fragments
    BY DEF Fragments
  <1>2. Part(c, n) \in [1..n -> Fragments]
    BY <1>1 DEF Part
  <1>. QED
    BY <1>2 DEF Part

LEMMA PartGrows ==
    ASSUME NEW c \in Nat, NEW n \in Nat
    PROVE  Part(c, n) \o <<<<c, n + 1>>>> = Part(c, n + 1)
  <1> DEFINE p == Part(c, n)
             q == <<<<c, n + 1>>>>
             r == Part(c, n + 1)
             t == p \o q
  <1>1. p \in Seq(Fragments) /\ Len(p) = n /\ \A k \in 1..n : p[k] = <<c, k>>
    BY PartShape
  <1>2. r \in Seq(Fragments) /\ Len(r) = n + 1 /\ \A k \in 1..(n + 1) : r[k] = <<c, k>>
    <2>1. n + 1 \in Nat
      OBVIOUS
    <2>. QED
      BY <2>1, PartShape
  <1>3. q \in Seq(Fragments) /\ Len(q) = 1 /\ q[1] = <<c, n + 1>>
    <2>1. <<c, n + 1>> \in Fragments
      BY DEF Fragments
    <2>. QED
      BY <2>1
  <1>. HIDE DEF p, q, r
  <1>4. /\ t \in Seq(Fragments) /\ Len(t) = Len(p) + Len(q)
        /\ \A k \in 1..(Len(p) + Len(q)) : t[k] = IF k <= Len(p) THEN p[k] ELSE q[k - Len(p)]
    BY <1>1, <1>3, ConcatProperties
  <1>. HIDE DEF t
  <1>5. ASSUME NEW k \in 1..(n + 1) PROVE t[k] = r[k]
    <2>1. Len(p) = n /\ Len(q) = 1 /\ k \in 1..(Len(p) + Len(q))
      BY <1>1, <1>3
    <2>2. CASE k <= n
      <3>1. k \in 1..n /\ t[k] = p[k]
        BY <1>4, <2>1, <2>2
      <3>. QED
        BY <1>1, <1>2, <3>1, Zenon
    <2>3. CASE k = n + 1
      <3>1. t[k] = q[1]
        BY <1>4, <2>1, <2>3
      <3>. QED
        BY <1>2, <1>3, <2>3, <3>1, Zenon
    <2>. QED
      BY <2>2, <2>3
  <1>6. Len(t) = n + 1
    BY <1>1, <1>3, <1>4
  <1>7. t = r
    BY <1>2, <1>4, <1>5, <1>6, SeqEqual
  <1>. QED
    BY <1>7 DEF p, q, r, t

\* How many deltas of a call there are among the first k.
LEMMA CountGrows ==
    ASSUME NEW S, NEW order \in Seq(S), NEW c
    PROVE  /\ Count(order, 0, c) = 0
           /\ \A k \in Nat :
                 /\ Count(order, k, c) \in Nat
                 /\ Count(order, k + 1, c) = Count(order, k, c) + (IF order[k + 1] = c THEN 1 ELSE 0)
  <1> DEFINE At(k) == {j \in 1..k : order[j] = c}
  <1>1. Count(order, 0, c) = 0
    <2>1. At(0) = {}
      OBVIOUS
    <2>. QED
      BY <2>1, FS_EmptySet DEF Count
  <1>2. ASSUME NEW k \in Nat
        PROVE  /\ Count(order, k, c) \in Nat
               /\ Count(order, k + 1, c) = Count(order, k, c) + (IF order[k + 1] = c THEN 1 ELSE 0)
    <2>1. IsFiniteSet(At(k)) /\ Cardinality(At(k)) \in Nat
      BY FinitePlaces
    <2>2. k + 1 \notin At(k)
      OBVIOUS
    <2>3. At(k + 1) = IF order[k + 1] = c THEN At(k) \cup {k + 1} ELSE At(k)
      <3>1. 1..(k + 1) = (1..k) \cup {k + 1}
        OBVIOUS
      <3>. QED
        BY <3>1
    <2>4. Count(order, k, c) = Cardinality(At(k)) /\ Count(order, k + 1, c) = Cardinality(At(k + 1))
      BY DEF Count
    <2>. HIDE DEF At
    <2>5. Cardinality(At(k) \cup {k + 1}) = Cardinality(At(k)) + 1
      BY <2>1, <2>2, FS_AddElement
    <2>. QED
      BY <2>1, <2>3, <2>4, <2>5
  <1>. QED
    BY <1>1, <1>2

-----------------------------------------------------------------------------
(* In the order of the indices *)

LEMMA OrderIs ==
    ASSUME NEW m \in Nat, NEW S \in SUBSET (0..m)
    PROVE  /\ Cardinality(S) \in Nat /\ IsFiniteSet(S)
           /\ InOrder(S) \in [1..Cardinality(S) -> S]
           /\ \A k, l \in 1..Cardinality(S) : k < l => InOrder(S)[k] < InOrder(S)[l]
           /\ \A x \in S : \E k \in 1..Cardinality(S) : InOrder(S)[k] = x
  <1>1. \A x \in S : x \in Nat
    OBVIOUS
  <1>2. IsFiniteSet(S) /\ Cardinality(S) \in Nat
    <2>1. IsFiniteSet(0..m)
      BY FS_Interval
    <2>. QED
      BY <2>1, FS_Subset, FS_CardinalityType
  <1> DEFINE n == Cardinality(S)
             I == {x + 1 : x \in S}
             p == Numbers!Positions(m + 1, I)
             q == [k \in 1..Len(p) |-> p[k] - 1]
  <1>3. Numbers!Lists(p, m + 1, I)
    BY Numbers!PositionsList
  <1>4. /\ Len(p) \in Nat
        /\ \A k \in 1..Len(p) : p[k] \in 1..(m + 1) /\ p[k] \in I
        /\ \A k, l \in 1..Len(p) : k < l => p[k] < p[l]
        /\ \A i \in I \cap (1..(m + 1)) : \E k \in 1..Len(p) : p[k] = i
    <2>. HIDE DEF p, I
    <2>. QED
      BY <1>3, ElementOfSeq, LenProperties DEF Numbers!Lists
  <1>5. \A x \in S : x + 1 \in I /\ x + 1 \in 1..(m + 1) /\ (x + 1) - 1 = x
    OBVIOUS
  <1>. HIDE DEF p
  <1>6. \A k \in 1..Len(p) : p[k] - 1 \in S /\ p[k] \in Nat
    BY <1>4
  <1>7. q \in [1..Len(p) -> S] /\ \A k, l \in 1..Len(p) : k < l => q[k] < q[l]
    BY <1>4, <1>6
  <1>8. \A x \in S : \E k \in 1..Len(p) : q[k] = x
    BY <1>4, <1>5
  <1>. HIDE DEF I, q
  <1>9. Len(p) = n
    <2>1. \A k, l \in 1..Len(p) : q[k] = q[l] => k = l
      <3>1. \A k \in 1..Len(p) : q[k] \in Nat
        BY <1>1, <1>7
      <3>. QED
        BY <1>4, <1>7, <3>1
    <2>2. q \in Bijection(1..Len(p), S)
      BY <1>7, <1>8, <2>1 DEF Bijection, Injection, Surjection, IsInjective
    <2>3. IsFiniteSet(1..Len(p)) /\ Cardinality(1..Len(p)) = Len(p)
      BY <1>4, Interval
    <2>4. ExistsBijection(1..Len(p), S)
      BY <2>2 DEF ExistsBijection
    <2>. QED
      BY <2>3, <2>4, FS_Bijection
  <1> DEFINE s == InOrder(S)
  <1>10. s \in [1..n -> S] /\ \A k, l \in 1..n : k < l => s[k] < s[l]
    <2>. HIDE DEF n
    <2>1. \E r \in [1..n -> S] : \A k, l \in 1..n : k < l => r[k] < r[l]
      BY <1>7, <1>9
    <2>. QED
      BY <2>1, Zenon DEF InOrder, n
  <1>. HIDE DEF s
  <1>11. s \in Injection(1..n, S)
    <2>1. \A k \in 1..n : s[k] \in Nat
      <3>. HIDE DEF n
      <3>. QED
        BY <1>1, <1>10
    <2>2. \A k, l \in 1..n : s[k] = s[l] => k = l
      BY <1>2, <1>10, <2>1
    <2>. QED
      BY <1>10, <2>2 DEF Injection, IsInjective
  <1>12. s \in Surjection(1..n, S)
    <2>. HIDE DEF n
    <2>1. IsFiniteSet(1..n) /\ Cardinality(1..n) = n
      BY <1>2, FS_Interval DEF n
    <2>. QED
      BY <1>2, <1>11, <2>1, FS_Injection DEF n
  <1>. QED
    BY <1>2, <1>10, <1>12 DEF Surjection, s

-----------------------------------------------------------------------------
(* What is gathered *)

Gathers(f, deltas, n) ==
    f = [k \in 0..n |-> IF k = 0 THEN <<>> ELSE Accumulate(f[k - 1], deltas[k])]

LEMMA GatheredRecursion ==
    ASSUME NEW deltas, NEW n \in Nat
    PROVE  \E f : Gathers(f, deltas, n)
  <1> DEFINE S == {m \in Nat : \E f : Gathers(f, deltas, m)}
             step(x, k) == Accumulate(x, deltas[k])
  <1>1. \A f, m : Gathers(f, deltas, m)
                     <=> f = [k \in 0..m |-> IF k = 0 THEN <<>> ELSE step(f[k - 1], k)]
    BY DEF Gathers
  <1>. HIDE DEF step
  <1>2. 0 \in S
    <2> DEFINE f == [k \in 0..0 |-> <<>>]
    <2>1. f = [k \in 0..0 |-> IF k = 0 THEN <<>> ELSE step(f[k - 1], k)]
      OBVIOUS
    <2>. QED
      BY <1>1, <2>1
  <1>3. ASSUME NEW m \in Nat, m \in S PROVE m + 1 \in S
    <2>1. PICK f : f = [k \in 0..m |-> IF k = 0 THEN <<>> ELSE step(f[k - 1], k)]
      BY <1>1, <1>3
    <2> DEFINE g == [k \in 0..(m + 1) |-> IF k = m + 1 THEN step(f[m], k) ELSE f[k]]
    <2>2. \A k \in 0..m : g[k] = IF k = 0 THEN <<>> ELSE step(g[k - 1], k)
      <3>1. \A k \in 0..m : g[k] = f[k]
        OBVIOUS
      <3>. HIDE DEF g
      <3>. QED
        BY <2>1, <3>1
    <2>3. g[m + 1] = step(g[m], m + 1)
      OBVIOUS
    <2>4. g = [k \in 0..(m + 1) |-> g[k]]
      OBVIOUS
    <2>. HIDE DEF g
    <2>5. g = [k \in 0..(m + 1) |-> IF k = 0 THEN <<>> ELSE step(g[k - 1], k)]
      <3>1. \A k \in 0..(m + 1) : k \in 0..m \/ (k = m + 1 /\ k # 0 /\ k - 1 = m)
        OBVIOUS
      <3>. QED
        BY <2>2, <2>3, <2>4, <3>1
    <2>6. Gathers(g, deltas, m + 1)
      BY <1>1, <2>5
    <2>. QED
      BY <2>6
  <1>. HIDE DEF S
  <1>4. Nat \subseteq S
    BY <1>2, <1>3, Numbers!SetInduction
  <1>. QED
    BY <1>4 DEF S

LEMMA GatheredSteps ==
    ASSUME NEW deltas, Len(deltas) \in Nat
    PROVE  \E f : /\ Gathered(deltas) = f[Len(deltas)]
                  /\ f[0] = <<>>
                  /\ \A k \in Nat : k < Len(deltas) => f[k + 1] = Accumulate(f[k], deltas[k + 1])
  <1> DEFINE n == Len(deltas)
             f == CHOOSE f : Gathers(f, deltas, n)
             step(x, k) == Accumulate(x, deltas[k])
  <1>1. n \in Nat
    OBVIOUS
  <1>2. Gathers(f, deltas, n)
    <2>. HIDE DEF n
    <2>. QED
      BY <1>1, GatheredRecursion
  <1>3. Gathered(deltas) = f[n]
    BY Zenon DEF Gathered, Gathers
  <1>. HIDE DEF f
  <1>4. f = [k \in 0..n |-> IF k = 0 THEN <<>> ELSE step(f[k - 1], k)]
    BY <1>2 DEF Gathers
  <1>. HIDE DEF step
  <1>5. f[0] = <<>> /\ \A k \in Nat : k < n => f[k + 1] = step(f[k], k + 1)
    <2>1. \A k \in Nat : k < n => k + 1 \in 0..n /\ k + 1 # 0 /\ (k + 1) - 1 = k
      BY <1>1
    <2>. QED
      BY <1>1, <1>4, <2>1
  <1>. QED
    BY <1>3, <1>5 DEF step

\* What is gathered of the calls of C, of each so many fragments.
Holds(parts, sent, C, upto) ==
    /\ C \subseteq 1..Len(sent)
    /\ DOMAIN parts = {c - 1 : c \in C}
    /\ \A c \in C : /\ upto[c] \in 0..sent[c].pieces
                    /\ parts[c - 1] = [id |-> sent[c].id, name |-> <<c>>, args |-> Part(c, upto[c])]

LEMMA AccumulateFirst ==
    ASSUME NEW sent \in Seq(Sent), NEW C, NEW upto, NEW parts, Holds(parts, sent, C, upto),
           NEW c \in 1..Len(sent), c \notin C, NEW n \in 0..sent[c].pieces, NEW d,
           d.index = c - 1 \/ (d.index = None /\ Cardinality(DOMAIN parts) = c - 1),
           d.id = sent[c].id, d.name = <<c>>, d.args = Part(c, n),
           NEW next, \A b \in C : next[b] = upto[b], next[c] = n
    PROVE  Holds(Accumulate(parts, d), sent, C \cup {c}, next)
  <1> DEFINE key == IF d.index = None THEN Cardinality(DOMAIN parts) ELSE d.index
             old == IF key \in DOMAIN parts THEN parts[key]
                    ELSE [id |-> None, name |-> <<>>, args |-> <<>>]
             new == [id   |-> IF d.id = None THEN old.id ELSE d.id,
                     name |-> old.name \o d.name, args |-> old.args \o d.args]
             r == Accumulate(parts, d)
  <1>1. c \in Nat /\ None # c - 1 /\ n \in Nat
    BY SentParts
  <1>2. key = c - 1
    BY <1>1
  <1>3. \A b \in C : b \in Nat /\ b # c
    BY LenProperties DEF Holds
  <1>4. c - 1 \notin DOMAIN parts
    BY <1>1, <1>3 DEF Holds
  <1>5. r = [k \in DOMAIN parts \cup {key} |-> IF k = key THEN new ELSE parts[k]]
    BY Zenon DEF Accumulate
  <1>6. old = [id |-> None, name |-> <<>>, args |-> <<>>]
    BY <1>2, <1>4
  <1>7. new = [id |-> sent[c].id, name |-> <<c>>, args |-> Part(c, n)]
    <2>1. new.id = sent[c].id
      BY <1>6
    <2>2. <<c>> \in Seq(Nat) /\ Part(c, n) \in Seq(Fragments)
      <3>1. Part(c, n) \in Seq(Fragments)
        BY <1>1, PartShape
      <3>2. <<c>> \in Seq(Nat)
        BY <1>1
      <3>. QED
        BY <3>1, <3>2
    <2>3. <<>> \o <<c>> = <<c>> /\ <<>> \o Part(c, n) = Part(c, n)
      BY <2>2, ConcatEmptySeq
    <2>4. new.name = <<c>> /\ new.args = Part(c, n)
      <3>1. old.name = <<>> /\ old.args = <<>>
        BY <1>6
      <3>. HIDE DEF old
      <3>2. new.name = old.name \o d.name /\ new.args = old.args \o d.args
        OBVIOUS
      <3>. HIDE DEF new
      <3>. QED
        BY <2>3, <3>1, <3>2, Zenon
    <2>. HIDE DEF old
    <2>. QED
      BY <2>1, <2>4
  <1>. HIDE DEF key, new, r
  <1>8. DOMAIN r = {b - 1 : b \in C \cup {c}}
    BY <1>2, <1>5 DEF Holds
  <1>9. ASSUME NEW b \in C \cup {c}
        PROVE  /\ next[b] \in 0..sent[b].pieces
               /\ r[b - 1] = [id |-> sent[b].id, name |-> <<b>>, args |-> Part(b, next[b])]
    <2>1. CASE b = c
      BY <1>2, <1>5, <1>7, <2>1
    <2>2. CASE b \in C
      <3>1. b - 1 \in DOMAIN parts /\ b - 1 # c - 1
        BY <1>1, <1>3, <2>2 DEF Holds
      <3>2. r[b - 1] = parts[b - 1]
        BY <1>2, <1>5, <3>1
      <3>. QED
        BY <2>2, <3>2 DEF Holds
    <2>. QED
      BY <2>1, <2>2
  <1>10. C \cup {c} \subseteq 1..Len(sent)
    BY DEF Holds
  <1>11. Holds(r, sent, C \cup {c}, next)
    BY <1>8, <1>9, <1>10 DEF Holds
  <1>. QED
    BY <1>11 DEF r

LEMMA AccumulateNext ==
    ASSUME NEW sent \in Seq(Sent), NEW C, NEW upto, NEW parts, Holds(parts, sent, C, upto),
           NEW c \in C, upto[c] < sent[c].pieces, NEW d, d.index = c - 1, d.id = None,
           d.name = <<>>, d.args = <<<<c, upto[c] + 1>>>>,
           NEW next, \A b \in C : next[b] = IF b = c THEN upto[b] + 1 ELSE upto[b]
    PROVE  Holds(Accumulate(parts, d), sent, C, next)
  <1> DEFINE key == IF d.index = None THEN Cardinality(DOMAIN parts) ELSE d.index
             old == IF key \in DOMAIN parts THEN parts[key]
                    ELSE [id |-> None, name |-> <<>>, args |-> <<>>]
             new == [id   |-> IF d.id = None THEN old.id ELSE d.id,
                     name |-> old.name \o d.name, args |-> old.args \o d.args]
             r == Accumulate(parts, d)
  <1>1. c \in 1..Len(sent)
    BY DEF Holds
  <1>2. c \in Nat /\ None # c - 1 /\ sent[c].pieces \in Nat /\ upto[c] \in 0..sent[c].pieces
    BY <1>1, SentParts DEF Holds
  <1>3. key = c - 1
    BY <1>2
  <1>4. \A b \in C : b \in Nat
    BY LenProperties DEF Holds
  <1>5. c - 1 \in DOMAIN parts
    BY DEF Holds
  <1>6. r = [k \in DOMAIN parts \cup {key} |-> IF k = key THEN new ELSE parts[k]]
    BY Zenon DEF Accumulate
  <1>7. old = [id |-> sent[c].id, name |-> <<c>>, args |-> Part(c, upto[c])]
    BY <1>3, <1>5 DEF Holds
  <1>8. new = [id |-> sent[c].id, name |-> <<c>>, args |-> Part(c, upto[c] + 1)]
    <2>1. new.id = sent[c].id
      BY <1>7
    <2>2. <<c>> \in Seq(Nat) /\ upto[c] \in Nat
      BY <1>2
    <2>3. <<c>> \o <<>> = <<c>> /\ Part(c, upto[c]) \o <<<<c, upto[c] + 1>>>> = Part(c, upto[c] + 1)
      BY <1>2, <2>2, ConcatEmptySeq, PartGrows
    <2>4. new.name = <<c>> /\ new.args = Part(c, upto[c] + 1)
      <3> DEFINE part == Part(c, upto[c])
      <3>. HIDE DEF old, part
      <3>1. old = [id |-> sent[c].id, name |-> <<c>>, args |-> part]
        BY <1>7 DEF part
      <3>2. old.name = <<c>> /\ old.args = part
        BY <3>1
      <3>3. old.name = <<c>> /\ old.args = Part(c, upto[c])
        BY <3>2 DEF part
      <3>4. new.name = old.name \o d.name /\ new.args = old.args \o d.args
        OBVIOUS
      <3>. HIDE DEF new
      <3>. QED
        BY <2>3, <3>3, <3>4, Zenon
    <2>. HIDE DEF old
    <2>. QED
      BY <2>1, <2>4
  <1>. HIDE DEF key, new, r, old
  <1>9. DOMAIN r = {b - 1 : b \in C}
    BY <1>3, <1>5, <1>6 DEF Holds
  <1>10. ASSUME NEW b \in C
         PROVE  /\ next[b] \in 0..sent[b].pieces
                /\ r[b - 1] = [id |-> sent[b].id, name |-> <<b>>, args |-> Part(b, next[b])]
    <2>1. CASE b = c
      <3>1. next[c] = upto[c] + 1 /\ next[c] \in 0..sent[c].pieces
        BY <1>2
      <3>2. r[c - 1] = new
        BY <1>3, <1>6
      <3>. QED
        BY <1>8, <2>1, <3>1, <3>2
    <2>2. CASE b # c
      <3>1. b - 1 \in DOMAIN parts /\ b - 1 # c - 1
        BY <1>2, <1>4, <2>2 DEF Holds
      <3>2. r[b - 1] = parts[b - 1] /\ next[b] = upto[b]
        BY <1>3, <1>6, <2>2, <3>1
      <3>. QED
        BY <3>2 DEF Holds
    <2>. QED
      BY <2>1, <2>2
  <1>11. Holds(r, sent, C, next)
    BY <1>9, <1>10 DEF Holds
  <1>. QED
    BY <1>11 DEF r

\* So many fragments of each call have come with the first k deltas.
Streamed(sent, order, k) ==
    [c \in 1..Len(sent) |-> Count(order, k, c) - 1]

Begun(sent, order, k) == {c \in 1..Len(sent) : Count(order, k, c) > 0}

\* What is gathered of a stream is the deltas of each call, in whatever order they come.
LEMMA StreamHolds ==
    ASSUME NEW sent \in Seq(Sent), NEW order \in Orders(sent)
    PROVE  LET n == Len(order)
           IN  Holds(Gathered(Indexed(sent, order)), sent, Begun(sent, order, n), Streamed(sent, order, n))
  <1> DEFINE n == Len(order)
             deltas == Indexed(sent, order)
             C(k) == Begun(sent, order, k)
             u(k) == Streamed(sent, order, k)
  <1>1. /\ order \in Seq(1..Len(sent)) /\ n \in Nat /\ DOMAIN order = 1..n
        /\ \A c \in 1..Len(sent) : Count(order, n, c) <= sent[c].pieces + 1
    <2>1. PICK m \in Nat : order \in [1..m -> DOMAIN sent]
      BY DEF Orders, BoundedSeq, SeqOf
    <2>2. DOMAIN sent = 1..Len(sent)
      BY LenProperties
    <2>3. order \in Seq(1..Len(sent))
      BY <2>1, <2>2
    <2>4. \A c \in DOMAIN sent : Count(order, Len(order), c) <= sent[c].pieces + 1
      BY DEF Orders
    <2>. QED
      BY <2>2, <2>3, <2>4, LenProperties
  <1>2. \A c : /\ Count(order, 0, c) = 0
               /\ \A k \in Nat :
                    /\ Count(order, k, c) \in Nat
                    /\ Count(order, k + 1, c) = Count(order, k, c) + (IF order[k + 1] = c THEN 1 ELSE 0)
    BY <1>1, CountGrows
  <1>3. ASSUME NEW c \in 1..Len(sent), NEW k \in Nat, k <= n PROVE Count(order, k, c) <= sent[c].pieces + 1
    <2> DEFINE S == {m \in Nat : k + m <= n => Count(order, k, c) <= Count(order, k + m, c)}
    <2>1. \A j \in Nat : Count(order, j, c) \in Nat /\ Count(order, j, c) <= Count(order, j + 1, c)
      <3> SUFFICES ASSUME NEW j \in Nat
                   PROVE  Count(order, j, c) \in Nat /\ Count(order, j, c) <= Count(order, j + 1, c)
        OBVIOUS
      <3> DEFINE at    == Count(order, j, c)
                 after == Count(order, j + 1, c)
                 one   == IF order[j + 1] = c THEN 1 ELSE 0
      <3>1. at \in Nat /\ after = at + one
        BY <1>2, Zenon
      <3>2. one \in {0, 1}
        OBVIOUS
      <3>. HIDE DEF at, after, one
      <3>3. at <= after
        BY <3>1, <3>2
      <3>. QED
        BY <3>1, <3>3 DEF at, after
    <2>2. 0 \in S
      BY <2>1
    <2>3. ASSUME NEW m \in Nat, m \in S PROVE m + 1 \in S
      <3> SUFFICES ASSUME k + (m + 1) <= n PROVE Count(order, k, c) <= Count(order, k + (m + 1), c)
        OBVIOUS
      <3>1. k + m \in Nat /\ k + (m + 1) = (k + m) + 1 /\ k + m <= n
        BY <1>1
      <3>2. Count(order, k, c) <= Count(order, k + m, c)
        BY <2>3, <3>1
      <3> DEFINE before == Count(order, k, c)
                 at     == Count(order, k + m, c)
                 after  == Count(order, k + (m + 1), c)
      <3>3. before \in Nat /\ at \in Nat /\ at <= Count(order, (k + m) + 1, c)
        BY <2>1, <3>1, Zenon
      <3>4. after \in Nat /\ at <= after
        <4>1. k + (m + 1) \in Nat
          OBVIOUS
        <4>2. after \in Nat
          BY <2>1, <4>1, Zenon
        <4>. QED
          BY <3>1, <3>3, <4>2, Zenon
      <3>. HIDE DEF before, at, after
      <3>5. before <= after
        BY <3>2, <3>3, <3>4 DEF before, at
      <3>. QED
        BY <3>5 DEF before, after
    <2>. HIDE DEF S
    <2>4. Nat \subseteq S
      BY <2>2, <2>3, Numbers!SetInduction
    <2>5. n - k \in Nat /\ k + (n - k) = n /\ n - k \in S
      BY <1>1, <1>3, <2>4
    <2>6. Count(order, k, c) <= Count(order, n, c)
      BY <2>5 DEF S
    <2>7. sent[c].pieces \in Nat /\ Count(order, k, c) \in Nat /\ Count(order, n, c) \in Nat
      BY <1>1, <1>2, SentParts
    <2>. QED
      BY <1>1, <2>6, <2>7
  <1>4. Len(deltas) = n /\ \A k \in 1..n :
           LET c == order[k]
               m == Count(order, k, c) - 1
           IN  deltas[k] = [index |-> c - 1,
                            id    |-> IF m = 0 THEN sent[c].id ELSE None,
                            name  |-> IF m = 0 THEN <<c>> ELSE <<>>,
                            args  |-> IF m = 0 THEN <<>> ELSE <<<<c, m>>>>]
    BY <1>1 DEF Indexed
  <1>. HIDE DEF deltas
  <1>5. PICK f : /\ Gathered(deltas) = f[n] /\ f[0] = <<>>
                 /\ \A k \in Nat : k < n => f[k + 1] = Accumulate(f[k], deltas[k + 1])
    BY <1>1, <1>4, GatheredSteps
  <1> DEFINE S == {k \in Nat : k <= n => Holds(f[k], sent, C(k), u(k))}
  <1>6. 0 \in S
    <2>1. C(0) = {}
      BY <1>2 DEF Begun
    <2>2. f[0] = <<>> /\ DOMAIN f[0] = {}
      BY <1>5
    <2>. HIDE DEF C, u
    <2>3. Holds(f[0], sent, C(0), u(0))
      BY <2>1, <2>2 DEF Holds
    <2>. QED
      BY <2>3
  <1>7. ASSUME NEW k \in Nat, k \in S PROVE k + 1 \in S
    <2> SUFFICES ASSUME k + 1 <= n PROVE Holds(f[k + 1], sent, C(k + 1), u(k + 1))
      OBVIOUS
    <2> DEFINE c == order[k + 1]
               d == deltas[k + 1]
    <2>1. Holds(f[k], sent, C(k), u(k)) /\ k < n /\ k + 1 \in 1..n
      BY <1>1, <1>7
    <2>2. f[k + 1] = Accumulate(f[k], d)
      BY <1>5, <2>1
    <2>3. c \in 1..Len(sent)
      BY <1>1, <2>1, ElementOfSeq
    <2>4. d = [index |-> c - 1,
               id    |-> IF Count(order, k + 1, c) - 1 = 0 THEN sent[c].id ELSE None,
               name  |-> IF Count(order, k + 1, c) - 1 = 0 THEN <<c>> ELSE <<>>,
               args  |-> IF Count(order, k + 1, c) - 1 = 0 THEN <<>>
                         ELSE <<<<c, Count(order, k + 1, c) - 1>>>>]
      BY <1>4, <2>1
    <2>. HIDE DEF c, d, S
    <2>5. \A b : /\ Count(order, k, b) \in Nat
                 /\ Count(order, k + 1, b) = Count(order, k, b) + (IF c = b THEN 1 ELSE 0)
      BY <1>2 DEF c
    <2>6. Count(order, k + 1, c) = Count(order, k, c) + 1 /\ Count(order, k, c) \in Nat
      BY <2>5
    <2>7. \A b : b # c => Count(order, k + 1, b) = Count(order, k, b)
      BY <2>5
    <2>8. Count(order, k + 1, c) <= sent[c].pieces + 1 /\ sent[c].pieces \in Nat
      <3>1. k + 1 \in Nat
        OBVIOUS
      <3>. QED
        BY <1>3, <2>3, <3>1, SentParts
    <2>9. /\ C(k) = {b \in 1..Len(sent) : Count(order, k, b) > 0}
          /\ C(k + 1) = {b \in 1..Len(sent) : Count(order, k + 1, b) > 0}
          /\ \A b \in 1..Len(sent) : /\ u(k)[b] = Count(order, k, b) - 1
                                     /\ u(k + 1)[b] = Count(order, k + 1, b) - 1
      BY DEF Begun, Streamed
    <2>. HIDE DEF C, u
    <2>10. CASE Count(order, k, c) = 0
      <3>1. c \notin C(k) /\ u(k + 1)[c] = 0
        BY <2>3, <2>6, <2>9, <2>10
      <3>2. C(k + 1) = C(k) \cup {c}
        <4>1. \A b \in 1..Len(sent) : b \in C(k + 1) <=> b \in C(k) \/ b = c
          BY <2>5, <2>6, <2>7, <2>9, <2>10
        <4>. QED
          BY <2>3, <2>9, <4>1
      <3>3. \A b \in C(k) : u(k + 1)[b] = u(k)[b]
        BY <2>7, <2>9, <3>1
      <3>4. d.index = c - 1 /\ d.id = sent[c].id /\ d.name = <<c>> /\ d.args = <<>>
        BY <2>4, <2>6, <2>10
      <3>5. d.args = Part(c, 0) /\ 0 \in 0..sent[c].pieces
        BY <2>8, <3>4 DEF Part
      <3>6. Holds(Accumulate(f[k], d), sent, C(k) \cup {c}, u(k + 1))
        <4>1. d.index = c - 1 \/ (d.index = None /\ Cardinality(DOMAIN f[k]) = c - 1)
          BY <3>4
        <4> DEFINE w == u(k)
                   v == u(k + 1)
                   B == C(k)
        <4>. HIDE DEF w, v, B
        <4>2. Holds(f[k], sent, B, w) /\ c \notin B /\ v[c] = 0 /\ \A b \in B : v[b] = w[b]
          BY <2>1, <3>1, <3>3 DEF w, v, B
        <4>3. Holds(Accumulate(f[k], d), sent, B \cup {c}, v)
          BY <2>3, <3>4, <3>5, <4>1, <4>2, AccumulateFirst
        <4>. QED
          BY <4>3 DEF v, B
      <3>. QED
        BY <2>2, <3>2, <3>6, Zenon
    <2>11. CASE Count(order, k, c) # 0
      <3>1. c \in C(k)
        BY <2>3, <2>6, <2>9, <2>11
      <3>2. C(k + 1) = C(k)
        <4>1. \A b \in 1..Len(sent) : b \in C(k + 1) <=> b \in C(k)
          BY <2>5, <2>6, <2>7, <2>9, <2>11
        <4>. QED
          BY <2>9, <4>1
      <3>3. \A b \in C(k) : u(k + 1)[b] = IF b = c THEN u(k)[b] + 1 ELSE u(k)[b]
        <4>1. u(k + 1)[c] = u(k)[c] + 1
          BY <2>3, <2>6, <2>9
        <4>2. \A b \in C(k) : b # c => u(k + 1)[b] = u(k)[b]
          BY <2>7, <2>9
        <4>. QED
          BY <4>1, <4>2
      <3>4. u(k)[c] + 1 = Count(order, k, c) /\ u(k)[c] < sent[c].pieces
        <4>1. u(k)[c] = Count(order, k, c) - 1
          BY <2>3, <2>9
        <4>. QED
          BY <2>6, <2>8, <4>1
      <3>5. d.index = c - 1 /\ d.id = None /\ d.name = <<>>
        BY <2>4, <2>6, <2>11
      <3>6. d.args = <<<<c, u(k)[c] + 1>>>>
        <4>1. Count(order, k + 1, c) - 1 = u(k)[c] + 1 /\ Count(order, k + 1, c) - 1 # 0
          BY <2>6, <2>11, <3>4
        <4>2. d.args = <<<<c, Count(order, k + 1, c) - 1>>>>
          BY <2>4, <4>1
        <4>. QED
          BY <4>1, <4>2
      <3>7. Holds(Accumulate(f[k], d), sent, C(k), u(k + 1))
        BY <2>1, <3>1, <3>3, <3>4, <3>5, <3>6, AccumulateNext
      <3>. QED
        BY <2>2, <3>2, <3>7, Zenon
    <2>. QED
      BY <2>10, <2>11
  <1>. HIDE DEF S
  <1>8. Nat \subseteq S
    BY <1>6, <1>7, Numbers!SetInduction
  <1>9. Holds(f[n], sent, C(n), u(n))
    BY <1>1, <1>8 DEF S
  <1>. QED
    BY <1>5, <1>9 DEF deltas

LEMMA PackedHolds ==
    ASSUME NEW sent \in Seq(Sent), NEW last \in 0..Len(sent)
    PROVE  Holds(Gathered(Packed(sent, last)), sent, 1..last, [c \in 1..Len(sent) |-> sent[c].pieces])
  <1> DEFINE deltas == Packed(sent, last)
             u == [c \in 1..Len(sent) |-> sent[c].pieces]
  <1>1. Len(sent) \in Nat /\ last \in Nat /\ last <= Len(sent)
    BY LenProperties
  <1>2. Len(deltas) = last /\ \A c \in 1..last :
           deltas[c] = [index |-> None, id |-> sent[c].id, name |-> <<c>>, args |-> Whole(sent, c)]
    BY <1>1 DEF Packed
  <1>3. \A c \in 1..Len(sent) : u[c] = sent[c].pieces /\ sent[c].pieces \in Nat
    BY SentParts
  <1>. HIDE DEF deltas, u
  <1>4. PICK f : /\ Gathered(deltas) = f[last] /\ f[0] = <<>>
                 /\ \A k \in Nat : k < last => f[k + 1] = Accumulate(f[k], deltas[k + 1])
    BY <1>1, <1>2, GatheredSteps
  <1> DEFINE S == {k \in Nat : k <= last => Holds(f[k], sent, 1..k, u)}
  <1>5. 0 \in S
    <2>1. 1..0 = {}
      OBVIOUS
    <2>2. f[0] = <<>> /\ DOMAIN f[0] = {}
      BY <1>4
    <2>3. Holds(f[0], sent, 1..0, u)
      BY <2>1, <2>2 DEF Holds
    <2>. QED
      BY <2>3
  <1>6. ASSUME NEW k \in Nat, k \in S PROVE k + 1 \in S
    <2> SUFFICES ASSUME k + 1 <= last PROVE Holds(f[k + 1], sent, 1..(k + 1), u)
      OBVIOUS
    <2> DEFINE c == k + 1
               d == deltas[c]
               B == 1..k
    <2>1. Holds(f[k], sent, B, u) /\ k < last /\ c \in 1..last /\ c \in 1..Len(sent)
      BY <1>1, <1>6
    <2>2. f[c] = Accumulate(f[k], d)
      BY <1>4, <2>1
    <2>3. d.index = None /\ d.id = sent[c].id /\ d.name = <<c>> /\ d.args = Part(c, sent[c].pieces)
      BY <1>2, <2>1 DEF Whole
    <2>4. Cardinality(DOMAIN f[k]) = c - 1
      <3>1. DOMAIN f[k] = {b - 1 : b \in B}
        BY <2>1 DEF Holds
      <3>2. {b - 1 : b \in 1..k} = 0..(k - 1)
        <4>1. ASSUME NEW x \in 0..(k - 1) PROVE x \in {b - 1 : b \in 1..k}
          <5>1. x + 1 \in 1..k /\ x = (x + 1) - 1
            OBVIOUS
          <5>. QED
            BY <5>1
        <4>2. \A b \in 1..k : b - 1 \in 0..(k - 1)
          OBVIOUS
        <4>. QED
          BY <4>1, <4>2
      <3>3. Cardinality(0..(k - 1)) = k
        BY FS_Interval
      <3>4. c - 1 = k
        OBVIOUS
      <3>. QED
        BY <3>1, <3>2, <3>3, <3>4, Zenon DEF B
    <2>5. c \notin B /\ B \cup {c} = 1..(k + 1)
      OBVIOUS
    <2>6. u[c] = sent[c].pieces /\ sent[c].pieces \in 0..sent[c].pieces
      BY <1>3, <2>1
    <2>. HIDE DEF c, d, B, S
    <2>7. Holds(Accumulate(f[k], d), sent, B \cup {c}, u)
      BY <2>1, <2>3, <2>4, <2>5, <2>6, AccumulateFirst
    <2>. QED
      BY <2>2, <2>5, <2>7 DEF c
  <1>. HIDE DEF S
  <1>7. Nat \subseteq S
    BY <1>5, <1>6, Numbers!SetInduction
  <1>8. Holds(f[last], sent, 1..last, u)
    BY <1>1, <1>7 DEF S
  <1>. QED
    BY <1>4, <1>8 DEF deltas, u

-----------------------------------------------------------------------------
(* What is read *)

\* The calls are those of C, in their order, each with the first fragments of its own.
Reads(calls, sent, C, upto) ==
    /\ calls \in Seq(Call) /\ C \subseteq 1..Len(sent)
    /\ \A c \in C : upto[c] \in 0..sent[c].pieces
    /\ \E place \in [1..Len(calls) -> C] :
          /\ \A k, l \in 1..Len(calls) : k < l => place[k] < place[l]
          /\ \A c \in C : \E k \in 1..Len(calls) : place[k] = c
          /\ \A k \in 1..Len(calls) : /\ calls[k].name = <<place[k]>>
                                      /\ calls[k].input = Part(place[k], upto[place[k]])

LEMMA CallsRead ==
    ASSUME NEW sent \in Seq(Sent), NEW deltas, NEW C, NEW upto,
           Holds(Gathered(deltas), sent, C, upto)
    PROVE  Reads(Calls(deltas), sent, C, upto)
  <1> DEFINE parts == Gathered(deltas)
             D == DOMAIN parts
             order == InOrder(D)
             m == Cardinality(D)
             calls == Calls(deltas)
             place == [k \in 1..m |-> order[k] + 1]
  <1>1. C \subseteq 1..Len(sent) /\ \A c \in C : c \in Nat /\ upto[c] \in 0..sent[c].pieces
    <2>1. C \subseteq 1..Len(sent) /\ \A c \in C : upto[c] \in 0..sent[c].pieces
      BY DEF Holds
    <2>. QED
      BY <2>1, LenProperties
  <1>2. D = {c - 1 : c \in C}
    BY DEF Holds
  <1>3. Len(sent) \in Nat /\ D \in SUBSET (0..Len(sent))
    BY <1>1, <1>2, LenProperties
  <1>4. calls = [k \in DOMAIN order |->
                   [id    |-> IF parts[order[k]].id = None THEN Own ELSE parts[order[k]].id,
                    name  |-> parts[order[k]].name, input |-> parts[order[k]].args]]
    BY Zenon DEF Calls
  <1>5. \A c \in C : parts[c - 1] = [id |-> sent[c].id, name |-> <<c>>, args |-> Part(c, upto[c])]
    BY DEF Holds
  <1>. HIDE DEF D, parts
  <1>6. /\ m \in Nat /\ order \in [1..m -> D]
        /\ \A k, l \in 1..m : k < l => order[k] < order[l]
        /\ \A x \in D : \E k \in 1..m : order[k] = x
    BY <1>3, OrderIs
  <1>. HIDE DEF order, m
  <1>7. ASSUME NEW k \in 1..m PROVE place[k] \in C /\ order[k] = place[k] - 1 /\ order[k] \in Nat
    <2>1. order[k] \in D
      BY <1>6
    <2>2. PICK c \in C : order[k] = c - 1
      BY <1>2, <2>1
    <2>. QED
      BY <1>1, <2>2
  <1>8. \A k \in 1..m :
           /\ calls[k].name = <<place[k]>>
           /\ calls[k].input = Part(place[k], upto[place[k]])
           /\ calls[k] \in Call
    <2> SUFFICES ASSUME NEW k \in 1..m
                 PROVE  /\ calls[k].name = <<place[k]>>
                        /\ calls[k].input = Part(place[k], upto[place[k]])
                        /\ calls[k] \in Call
      OBVIOUS
    <2> DEFINE c == place[k]
               part == Part(c, upto[c])
    <2>1. c \in C /\ order[k] = c - 1
      BY <1>7
    <2>2. c \in Nat /\ c \in 1..Len(sent)
      BY <1>1, <2>1
    <2>3. upto[c] \in Nat
      <3>1. sent[c].pieces \in Nat
        BY <2>2, SentParts
      <3>. HIDE DEF c
      <3>. QED
        BY <1>1, <2>1, <3>1
    <2>4. part \in Seq(Fragments) /\ <<c>> \in Seq(Nat)
      <3>1. \A b, n \in Nat : Part(b, n) \in Seq(Fragments)
        BY PartShape
      <3>2. <<c>> \in Seq(Nat)
        BY <2>2
      <3>. QED
        BY <2>2, <2>3, <3>1, <3>2, Zenon
    <2>5. sent[c].id \in {Own, Reused, None}
      BY <2>2, SentParts
    <2>6. parts[order[k]] = [id |-> sent[c].id, name |-> <<c>>, args |-> part]
      BY <1>5, <2>1
    <2>7. calls[k] = [id    |-> IF parts[order[k]].id = None THEN Own ELSE parts[order[k]].id,
                      name  |-> parts[order[k]].name, input |-> parts[order[k]].args]
      BY <1>4, <1>6
    <2>. HIDE DEF c, part, calls
    <2>8. calls[k] = [id |-> IF sent[c].id = None THEN Own ELSE sent[c].id,
                      name |-> <<c>>, input |-> part]
      BY <2>6, <2>7
    <2>9. calls[k] \in Call
      BY <2>4, <2>5, <2>8 DEF Call
    <2>. QED
      BY <2>8, <2>9 DEF c, part
  <1>9. calls \in Seq(Call) /\ Len(calls) = m
    <2>1. calls \in [1..m -> Call]
      BY <1>4, <1>6, <1>8
    <2>. HIDE DEF calls
    <2>. QED
      BY <1>6, <2>1
  <1>10. place \in [1..m -> C] /\ \A k, l \in 1..m : k < l => place[k] < place[l]
    <2>1. \A k \in 1..m : place[k] = order[k] + 1 /\ order[k] \in Nat /\ place[k] \in C
      BY <1>7
    <2>2. \A k, l \in 1..m : k < l => place[k] < place[l]
      BY <1>6, <2>1
    <2>. QED
      BY <2>1, <2>2
  <1>11. \A c \in C : \E k \in 1..m : place[k] = c
    <2> SUFFICES ASSUME NEW c \in C PROVE \E k \in 1..m : place[k] = c
      OBVIOUS
    <2>1. PICK k \in 1..m : order[k] = c - 1
      BY <1>2, <1>6
    <2>. QED
      BY <1>1, <2>1
  <1>. HIDE DEF calls, place
  <1>. QED
    BY <1>1, <1>8, <1>9, <1>10, <1>11 DEF Reads, calls

LEMMA MessageReads ==
    ASSUME NEW sent \in Seq(Sent), NEW last \in 1..Len(sent), NEW n \in 0..sent[last].pieces
    PROVE  Reads(Message(sent, last, n), sent, 1..last,
                 [c \in 1..last |-> IF c = last THEN n ELSE sent[c].pieces])
  <1> DEFINE calls == Message(sent, last, n)
             upto == [c \in 1..last |-> IF c = last THEN n ELSE sent[c].pieces]
             place == [k \in 1..last |-> k]
  <1>1. Len(sent) \in Nat /\ last \in Nat /\ 1..last \subseteq 1..Len(sent) /\ n \in Nat
    BY LenProperties, SentParts
  <1>2. ASSUME NEW c \in 1..last
        PROVE  /\ upto[c] \in 0..sent[c].pieces /\ upto[c] \in Nat
               /\ calls[c].name = <<c>> /\ calls[c].input = Part(c, upto[c]) /\ calls[c] \in Call
    <2> DEFINE part == Part(c, upto[c])
    <2>1. sent[c].pieces \in Nat /\ sent[c].id \in {Own, Reused, None} /\ c \in Nat
      BY <1>1, SentParts
    <2>2. upto[c] \in 0..sent[c].pieces /\ upto[c] \in Nat
      BY <2>1
    <2>3. part \in Seq(Fragments) /\ <<c>> \in Seq(Nat)
      <3>1. \A m \in Nat : Part(c, m) \in Seq(Fragments)
        BY <2>1, PartShape
      <3>2. <<c>> \in Seq(Nat)
        BY <2>1
      <3>. QED
        BY <2>2, <3>1, <3>2, Zenon
    <2>4. (IF c = last THEN Part(c, n) ELSE Whole(sent, c)) = part
      BY DEF Whole
    <2>5. calls[c] = [id |-> IF sent[c].id = None THEN Reused ELSE sent[c].id, name |-> <<c>>,
                      input |-> IF c = last THEN Part(c, n) ELSE Whole(sent, c)]
      BY DEF Message
    <2>. HIDE DEF calls, part, upto
    <2>6. calls[c] = [id |-> IF sent[c].id = None THEN Reused ELSE sent[c].id, name |-> <<c>>,
                      input |-> part]
      BY <2>4, <2>5
    <2>7. calls[c] \in Call
      BY <2>1, <2>3, <2>6 DEF Call
    <2>. QED
      BY <2>2, <2>6, <2>7 DEF part
  <1>3. calls \in Seq(Call) /\ Len(calls) = last
    <2>1. calls = [c \in 1..last |-> calls[c]]
      BY DEF Message
    <2>. HIDE DEF calls
    <2>2. calls \in [1..last -> Call]
      BY <1>2, <2>1
    <2>. QED
      BY <1>1, <2>2
  <1>4. /\ place \in [1..last -> 1..last] /\ \A k \in 1..last : place[k] = k
    OBVIOUS
  <1>. HIDE DEF calls, upto, place
  <1>5. Reads(calls, sent, 1..last, upto)
    <2>1. /\ \A k, l \in 1..last : k < l => place[k] < place[l]
          /\ \A c \in 1..last : \E k \in 1..last : place[k] = c
          /\ \A k \in 1..last : /\ calls[k].name = <<place[k]>>
                                /\ calls[k].input = Part(place[k], upto[place[k]])
      BY <1>2, <1>4
    <2>. QED
      BY <1>1, <1>2, <1>3, <1>4, <2>1 DEF Reads
  <1>. QED
    BY <1>5 DEF calls, upto

\* Whatever arrives is read as calls that were sent, and as all of them and whole
\* unless it was cut.
LEMMA ArrivedReads ==
    ASSUME NEW sent \in Seq(Sent), NEW arrived \in Arrivals(sent)
    PROVE  \E C, upto : /\ Reads(arrived.calls, sent, C, upto)
                        /\ ~arrived.cut => /\ C = 1..Len(sent)
                                           /\ \A c \in C : upto[c] = sent[c].pieces
  <1> DEFINE all == Len(sent)
             Read(calls, cut) == \E C, upto : /\ Reads(calls, sent, C, upto)
                                              /\ ~cut => /\ C = 1..all
                                                         /\ \A c \in C : upto[c] = sent[c].pieces
  <1>1. all \in Nat /\ DOMAIN sent = 1..all
    BY LenProperties
  <1>2. ASSUME NEW order \in Orders(sent)
        PROVE  Read(Calls(Indexed(sent, order)), EndsEarly(sent, order))
    <2> DEFINE C == Begun(sent, order, Len(order))
               u == Streamed(sent, order, Len(order))
               calls == Calls(Indexed(sent, order))
    <2>1. Reads(calls, sent, C, u)
      BY StreamHolds, CallsRead
    <2>2. ASSUME ~EndsEarly(sent, order), NEW c \in 1..all
          PROVE  c \in C /\ u[c] = sent[c].pieces
      <3>1. order \in Seq(1..all) /\ Len(order) \in Nat /\ Count(order, Len(order), c) <= sent[c].pieces + 1
        <4>1. PICK m \in Nat : order \in [1..m -> DOMAIN sent]
          BY DEF Orders, BoundedSeq, SeqOf
        <4>2. \A b \in DOMAIN sent : Count(order, Len(order), b) <= sent[b].pieces + 1
          BY DEF Orders
        <4>3. order \in Seq(1..all)
          BY <1>1, <4>1
        <4>. QED
          BY <1>1, <4>2, <4>3, LenProperties
      <3>2. Count(order, Len(order), c) \in Nat
        BY <3>1, CountGrows
      <3>3. ~(Count(order, Len(order), c) <= sent[c].pieces)
        BY <1>1, <2>2 DEF EndsEarly
      <3>4. sent[c].pieces \in Nat
        BY SentParts
      <3>5. Count(order, Len(order), c) = sent[c].pieces + 1
        BY <3>1, <3>2, <3>3, <3>4
      <3>6. Count(order, Len(order), c) > 0 /\ Count(order, Len(order), c) - 1 = sent[c].pieces
        BY <3>4, <3>5
      <3>. QED
        BY <3>6 DEF Begun, Streamed
    <2>3. C \subseteq 1..all
      BY DEF Begun
    <2>. HIDE DEF C, u, calls
    <2>4. ~EndsEarly(sent, order) => C = 1..all /\ \A c \in C : u[c] = sent[c].pieces
      BY <2>2, <2>3
    <2>5. Read(calls, EndsEarly(sent, order))
      BY <2>1, <2>4
    <2>. QED
      BY <2>5 DEF calls
  <1>3. ASSUME NEW last \in 0..all PROVE Read(Calls(Packed(sent, last)), last < all)
    <2> DEFINE u == [c \in 1..all |-> sent[c].pieces]
               calls == Calls(Packed(sent, last))
    <2>1. Reads(calls, sent, 1..last, u)
      BY PackedHolds, CallsRead
    <2>2. ~(last < all) => last = all
      <3>1. last \in Nat /\ last <= all
        BY <1>1
      <3>. HIDE DEF all
      <3>. QED
        BY <1>1, <3>1
    <2>3. \A c \in 1..last : u[c] = sent[c].pieces
      BY <1>1
    <2>. HIDE DEF u, calls, all
    <2>4. Read(calls, last < all)
      BY <2>1, <2>2, <2>3
    <2>. QED
      BY <2>4 DEF calls, all
  <1>4. Read(IF all = 0 THEN <<>> ELSE Message(sent, all, sent[all].pieces), FALSE)
    <2>1. CASE all = 0
      <3> DEFINE none == <<>>
                 place == [k \in 1..0 |-> 0]
      <3>1. none \in Seq(Call) /\ Len(none) = 0 /\ 1..all = {} /\ 1..0 = {}
        BY <2>1
      <3>2. place \in [1..Len(none) -> {}]
        BY <3>1
      <3>. HIDE DEF none, place
      <3>3. Reads(none, sent, 1..all, <<>>)
        BY <3>1, <3>2 DEF Reads
      <3>4. Read(none, FALSE)
        BY <3>1, <3>3
      <3>. QED
        BY <2>1, <3>4 DEF none
    <2>2. CASE all # 0
      <3> DEFINE u == [c \in 1..all |-> IF c = all THEN sent[all].pieces ELSE sent[c].pieces]
                 calls == Message(sent, all, sent[all].pieces)
      <3>1. all \in 1..all /\ sent[all].pieces \in 0..sent[all].pieces
        BY <1>1, <2>2, SentParts
      <3>2. Reads(calls, sent, 1..all, u)
        BY <3>1, MessageReads
      <3>3. \A c \in 1..all : u[c] = sent[c].pieces
        OBVIOUS
      <3>. HIDE DEF u, calls
      <3>4. Read(calls, FALSE)
        BY <3>2, <3>3
      <3>. QED
        BY <2>2, <3>4 DEF calls
    <2>. QED
      BY <2>1, <2>2
  <1>5. ASSUME NEW last \in 1..all, NEW n \in 0..(sent[last].pieces - 1)
        PROVE  Read(Message(sent, last, n), TRUE)
    <2>1. n \in 0..sent[last].pieces
      BY SentParts
    <2>2. Reads(Message(sent, last, n), sent, 1..last,
                [c \in 1..last |-> IF c = last THEN n ELSE sent[c].pieces])
      BY <2>1, MessageReads
    <2>. QED
      BY <2>2
  <1>6. \/ \E order \in Orders(sent) :
              arrived = [cut |-> EndsEarly(sent, order), calls |-> Calls(Indexed(sent, order))]
        \/ \E last \in 0..all : arrived = [cut |-> last < all, calls |-> Calls(Packed(sent, last))]
        \/ arrived = [cut   |-> FALSE,
                      calls |-> IF all = 0 THEN <<>> ELSE Message(sent, all, sent[all].pieces)]
        \/ \E last \in 1..all : \E n \in 0..(sent[last].pieces - 1) :
              arrived = [cut |-> TRUE, calls |-> Message(sent, last, n)]
    BY Zenon DEF Arrivals
  <1>7. Read(arrived.calls, arrived.cut)
    <2>. HIDE DEF Read, all
    <2>1. ASSUME NEW order \in Orders(sent),
                 arrived = [cut |-> EndsEarly(sent, order), calls |-> Calls(Indexed(sent, order))]
          PROVE  Read(arrived.calls, arrived.cut)
      BY <1>2, <2>1
    <2>2. ASSUME NEW last \in 0..all,
                 arrived = [cut |-> last < all, calls |-> Calls(Packed(sent, last))]
          PROVE  Read(arrived.calls, arrived.cut)
      BY <1>3, <2>2
    <2>3. ASSUME arrived = [cut   |-> FALSE,
                            calls |-> IF all = 0 THEN <<>> ELSE Message(sent, all, sent[all].pieces)]
          PROVE  Read(arrived.calls, arrived.cut)
      BY <1>4, <2>3
    <2>4. ASSUME NEW last \in 1..all, NEW n \in 0..(sent[last].pieces - 1),
                 arrived = [cut |-> TRUE, calls |-> Message(sent, last, n)]
          PROVE  Read(arrived.calls, arrived.cut)
      BY <1>5, <2>4
    <2>. QED
      BY <1>6, <2>1, <2>2, <2>3, <2>4
  <1>. QED
    BY <1>7

-----------------------------------------------------------------------------
(* Answers *)

\* What RunsWhatWasSent says of calls and of what was meant with them.
AsSent(calls, meant) ==
    \E place \in [DOMAIN calls -> DOMAIN meant.sent] :
       /\ \A k, l \in DOMAIN calls : k < l => place[k] < place[l]
       /\ \A k \in DOMAIN calls :
             /\ calls[k].name = <<place[k]>>
             /\ \E n \in 0..meant.sent[place[k]] :
                   calls[k].input = Part(place[k], n) /\ (~meant.cut => n = meant.sent[place[k]])
       /\ ~meant.cut => meant.sound /\ Len(calls) = Len(meant.sent)

LEMMA SamePart ==
    ASSUME NEW c \in Nat, NEW d \in Nat, NEW m \in Nat \ {0}, NEW n \in Nat, Part(c, m) = Part(d, n)
    PROVE  c = d /\ m = n
  <1>1. Len(Part(c, m)) = m /\ Len(Part(d, n)) = n
    BY PartShape
  <1>2. m = n
    BY <1>1
  <1>3. 1 \in 1..m /\ Part(c, m)[1] = <<c, 1>> /\ Part(d, n)[1] = <<d, 1>>
    <2>1. 1 \in 1..m /\ 1 \in 1..n
      BY <1>2
    <2>. QED
      BY <2>1, PartShape
  <1>4. <<c, 1>> = <<d, 1>>
    BY <1>3
  <1>. QED
    BY <1>2, <1>4

\* A call that parses with all of its arguments is one the service made soundly.
LEMMA ParsesSoundly ==
    ASSUME NEW sent \in Seq(Sent), NEW c \in 1..Len(sent), Parses(sent, Part(c, sent[c].pieces))
    PROVE  sent[c].pieces \in sent[c].parses
  <1> DEFINE m == sent[c].pieces
  <1>1. m \in Nat \ {0} /\ c \in Nat /\ DOMAIN sent = 1..Len(sent)
    BY SentParts, LenProperties
  <1>2. Part(c, m) # <<>>
    <2>1. Len(Part(c, m)) = m
      BY <1>1, PartShape
    <2>2. Len(<<>>) = 0
      OBVIOUS
    <2>. HIDE DEF m
    <2>. QED
      BY <1>1, <2>1, <2>2
  <1>3. PICK d \in 1..Len(sent) : \E n \in sent[d].parses : Part(c, m) = Part(d, n)
    BY <1>1, <1>2 DEF Parses
  <1>4. PICK n \in sent[d].parses : Part(c, m) = Part(d, n)
    BY <1>3
  <1>5. d \in Nat /\ n \in Nat
    BY <1>4, SentParts
  <1>. HIDE DEF m
  <1>6. c = d /\ m = n
    BY <1>1, <1>4, <1>5, SamePart
  <1>. QED
    BY <1>4, <1>6 DEF m

LEMMA ReadAsSent ==
    ASSUME NEW sent \in Seq(Sent), NEW calls, NEW C, NEW upto, NEW cut, NEW meant,
           Reads(calls, sent, C, upto),
           ~cut => C = 1..Len(sent) /\ \A c \in C : upto[c] = sent[c].pieces,
           \A k \in DOMAIN calls : Parses(sent, calls[k].input),
           meant.sent = [c \in DOMAIN sent |-> sent[c].pieces], meant.cut = cut,
           meant.sound = \A c \in DOMAIN sent : sent[c].pieces \in sent[c].parses
    PROVE  AsSent(calls, meant)
  <1> DEFINE m == Len(calls)
             all == Len(sent)
  <1>1. /\ calls \in Seq(Call) /\ C \subseteq 1..all
        /\ \A c \in C : upto[c] \in 0..sent[c].pieces
    BY DEF Reads
  <1>2. m \in Nat /\ DOMAIN calls = 1..m /\ all \in Nat /\ DOMAIN sent = 1..all
    BY <1>1, LenProperties
  <1>3. PICK place \in [1..m -> C] :
          /\ \A k, l \in 1..m : k < l => place[k] < place[l]
          /\ \A c \in C : \E k \in 1..m : place[k] = c
          /\ \A k \in 1..m : /\ calls[k].name = <<place[k]>>
                             /\ calls[k].input = Part(place[k], upto[place[k]])
    BY Zenon DEF Reads
  <1>. HIDE DEF m, all
  <1>4. /\ meant.sent \in Seq(Nat) /\ Len(meant.sent) = all /\ DOMAIN meant.sent = 1..all
        /\ \A c \in 1..all : meant.sent[c] = sent[c].pieces
    <2>1. \A c \in 1..all : sent[c].pieces \in Nat
      BY SentParts DEF all
    <2>2. meant.sent \in [1..all -> Nat]
      BY <1>2, <2>1
    <2>. QED
      BY <1>2, <2>2
  <1>5. place \in [DOMAIN calls -> DOMAIN meant.sent]
    BY <1>1, <1>2, <1>3, <1>4
  <1>6. \A k, l \in DOMAIN calls : k < l => place[k] < place[l]
    BY <1>2, <1>3
  <1>7. ASSUME NEW k \in DOMAIN calls
        PROVE  /\ calls[k].name = <<place[k]>>
               /\ \E n \in 0..meant.sent[place[k]] :
                     calls[k].input = Part(place[k], n) /\ (~meant.cut => n = meant.sent[place[k]])
    <2> DEFINE c == place[k]
    <2>1. c \in C /\ c \in 1..all
      BY <1>1, <1>2, <1>3
    <2>2. meant.sent[c] = sent[c].pieces /\ upto[c] \in 0..sent[c].pieces
      BY <1>1, <1>4, <2>1
    <2>3. calls[k].name = <<c>> /\ calls[k].input = Part(c, upto[c])
      BY <1>2, <1>3
    <2>4. ~meant.cut => upto[c] = meant.sent[c]
      BY <2>1, <2>2
    <2>5. upto[c] \in 0..meant.sent[c]
      BY <2>2
    <2>. HIDE DEF c
    <2>6. \E n \in 0..meant.sent[c] : calls[k].input = Part(c, n) /\ (~meant.cut => n = meant.sent[c])
      BY <2>3, <2>4, <2>5
    <2>. QED
      BY <2>3, <2>6 DEF c
  <1>8. ASSUME ~meant.cut PROVE meant.sound /\ Len(calls) = Len(meant.sent)
    <2>1. C = 1..all /\ \A c \in C : upto[c] = sent[c].pieces
      BY <1>8 DEF all
    <2>2. ASSUME NEW c \in DOMAIN sent PROVE sent[c].pieces \in sent[c].parses
      <3>1. c \in C /\ upto[c] = sent[c].pieces
        BY <1>2, <2>1
      <3>2. PICK k \in 1..m : place[k] = c
        BY <1>3, <3>1
      <3>3. Parses(sent, Part(c, sent[c].pieces))
        <4>1. calls[k].input = Part(c, sent[c].pieces)
          BY <1>3, <3>1, <3>2
        <4>2. Parses(sent, calls[k].input)
          BY <1>2
        <4>. QED
          BY <4>1, <4>2, Zenon
      <3>. QED
        BY <1>2, <3>3, ParsesSoundly DEF all
    <2>3. m = all
      <3>1. \A k, l \in 1..m : place[k] = place[l] => k = l
        <4>1. \A k \in 1..m : place[k] \in Nat
          BY <1>2, <1>3, <2>1
        <4>. QED
          BY <1>2, <1>3, <4>1
      <3>2. place \in Bijection(1..m, 1..all)
        BY <1>3, <2>1, <3>1 DEF Bijection, Injection, Surjection, IsInjective
      <3>3. ExistsBijection(1..m, 1..all)
        BY <3>2 DEF ExistsBijection
      <3>4. /\ IsFiniteSet(1..m) /\ Cardinality(1..m) = m
            /\ IsFiniteSet(1..all) /\ Cardinality(1..all) = all
        BY <1>2, Interval
      <3>. QED
        BY <3>3, <3>4, FS_Bijection
    <2>4. meant.sound
      BY <2>2
    <2>5. Len(calls) = Len(meant.sent)
      BY <1>4, <2>3 DEF m
    <2>. QED
      BY <2>4, <2>5
  <1>. QED
    BY <1>5, <1>6, <1>7, <1>8 DEF AsSent

\* The calls of an answer are calls as they were sent.
LEMMA AnswersRead ==
    ASSUME NEW a \in Answers
    PROVE  /\ a.response.calls \in Seq(Call)
           /\ a.response.calls # <<>> =>
                AsSent(a.response.calls, [sent |-> a.sent, sound |-> a.sound, cut |-> a.cut])
  <1>1. PICK sent \in BoundedSeq(Sent, MaxSent) : \E arrived \in Arrivals(sent) :
           \E finish \in Finishes(sent, arrived.cut) :
              a = [sent     |-> [c \in DOMAIN sent |-> sent[c].pieces],
                   sound    |-> \A c \in DOMAIN sent : sent[c].pieces \in sent[c].parses,
                   cut      |-> arrived.cut,
                   response |-> Response(sent, arrived.calls, finish)]
    BY DEF Answers
  <1>2. PICK arrived \in Arrivals(sent) : \E finish \in Finishes(sent, arrived.cut) :
              a = [sent     |-> [c \in DOMAIN sent |-> sent[c].pieces],
                   sound    |-> \A c \in DOMAIN sent : sent[c].pieces \in sent[c].parses,
                   cut      |-> arrived.cut,
                   response |-> Response(sent, arrived.calls, finish)]
    BY <1>1, Zenon
  <1>3. PICK finish \in Finishes(sent, arrived.cut) :
             a = [sent     |-> [c \in DOMAIN sent |-> sent[c].pieces],
                  sound    |-> \A c \in DOMAIN sent : sent[c].pieces \in sent[c].parses,
                  cut      |-> arrived.cut,
                  response |-> Response(sent, arrived.calls, finish)]
    BY <1>2, Zenon
  <1>4. sent \in Seq(Sent)
    BY StreamBounds DEF BoundedSeq, SeqOf
  <1> DEFINE calls == arrived.calls
             out == a.response.calls
             meant == [sent |-> a.sent, sound |-> a.sound, cut |-> a.cut]
  <1>5. PICK C, upto : /\ Reads(calls, sent, C, upto)
                       /\ ~arrived.cut => /\ C = 1..Len(sent)
                                          /\ \A c \in C : upto[c] = sent[c].pieces
    BY <1>4, ArrivedReads
  <1>6. /\ meant.sent = [c \in DOMAIN sent |-> sent[c].pieces] /\ meant.cut = arrived.cut
        /\ meant.sound = \A c \in DOMAIN sent : sent[c].pieces \in sent[c].parses
    BY <1>3, Zenon
  <1>7. a.response = Response(sent, calls, finish)
    BY <1>3
  <1>. HIDE DEF calls, meant
  <1>8. CASE \E k \in DOMAIN calls : ~Parses(sent, calls[k].input)
    <2>1. a.response = [calls |-> <<>>, stop |-> "end_turn"]
      BY <1>7, <1>8, Zenon DEF Response
    <2>2. out = <<>>
      BY <2>1
    <2>. HIDE DEF out
    <2>3. <<>> \in Seq(Call)
      OBVIOUS
    <2>. QED
      BY <2>2, <2>3 DEF out
  <1>9. CASE ~ \E k \in DOMAIN calls : ~Parses(sent, calls[k].input)
    <2>1. a.response = [calls |-> calls, stop |-> StopReason(finish, calls)]
      BY <1>7, <1>9, Zenon DEF Response
    <2>2. out = calls
      BY <2>1
    <2>3. calls \in Seq(Call)
      BY <1>5 DEF Reads
    <2>. HIDE DEF out
    <2>4. \A k \in DOMAIN calls : Parses(sent, calls[k].input)
      BY <1>9
    <2>5. AsSent(calls, meant)
      BY <1>4, <1>5, <1>6, <2>4, ReadAsSent
    <2>. QED
      BY <2>2, <2>3, <2>5 DEF out, meant
  <1>. QED
    BY <1>8, <1>9

-----------------------------------------------------------------------------
(* The store: what a batch makes of it, whatever the limits *)

Contents == [of : Nat, wraps : Nat, size : Nat]
AnyResult == [call : Nat, id : Nat, content : Contents]

IsStore(s) == s = [decided |-> s.decided, disk |-> s.disk]

\* t has what s has, and decisions of its own only on results of rs: each a pointer to
\* the content that is in the file.
Extends(t, s, rs) ==
    /\ \A i \in DOMAIN s.decided : i \in DOMAIN t.decided /\ t.decided[i] = s.decided[i]
    /\ \A i \in DOMAIN t.decided \ DOMAIN s.decided :
          \E k \in 1..Len(rs) : /\ rs[k].id = i /\ t.decided[i] = Pointer(rs[k].content)
                                /\ i \in DOMAIN t.disk /\ t.disk[i] = rs[k].content
    /\ \A i \in DOMAIN s.disk : i \in DOMAIN t.disk
    /\ \A i \in DOMAIN t.disk :
          \/ i \in DOMAIN s.disk /\ t.disk[i] = s.disk[i]
          \/ i \in DOMAIN t.decided \ DOMAIN s.decided
    /\ IsStore(s) => IsStore(t)

LEMMA ExtendsSelf == ASSUME NEW s, NEW rs PROVE Extends(s, s, rs)
  BY DEF Extends

LEMMA ExtendsOn ==
    ASSUME NEW s, NEW t, NEW u, NEW rs, Extends(t, s, rs), Extends(u, t, rs)
    PROVE  Extends(u, s, rs)
  <1>1. \A i \in DOMAIN s.decided : i \in DOMAIN u.decided /\ u.decided[i] = s.decided[i]
    BY DEF Extends
  <1>2. ASSUME NEW i \in DOMAIN u.decided \ DOMAIN s.decided
        PROVE  \E k \in 1..Len(rs) : /\ rs[k].id = i /\ u.decided[i] = Pointer(rs[k].content)
                                     /\ i \in DOMAIN u.disk /\ u.disk[i] = rs[k].content
    <2>1. CASE i \notin DOMAIN t.decided
      BY <2>1 DEF Extends
    <2>2. CASE i \in DOMAIN t.decided
      <3>1. PICK k \in 1..Len(rs) : /\ rs[k].id = i /\ t.decided[i] = Pointer(rs[k].content)
                                    /\ i \in DOMAIN t.disk /\ t.disk[i] = rs[k].content
        BY <2>2 DEF Extends
      <3>2. u.decided[i] = t.decided[i] /\ i \in DOMAIN u.disk /\ u.disk[i] = t.disk[i]
        BY <2>2, <3>1 DEF Extends
      <3>. QED
        BY <3>1, <3>2
    <2>. QED
      BY <2>1, <2>2
  <1>3. \A i \in DOMAIN s.disk : i \in DOMAIN u.disk
    BY DEF Extends
  <1>4. ASSUME NEW i \in DOMAIN u.disk
        PROVE  \/ i \in DOMAIN s.disk /\ u.disk[i] = s.disk[i]
               \/ i \in DOMAIN u.decided \ DOMAIN s.decided
    BY DEF Extends
  <1>5. IsStore(s) => IsStore(u)
    BY DEF Extends
  <1>. QED
    BY <1>1, <1>2, <1>3, <1>4, <1>5 DEF Extends

LEMMA ExternalizeExtends ==
    ASSUME NEW s, NEW rs, NEW k \in 1..Len(rs), rs[k].id \notin DOMAIN s.decided
    PROVE  /\ Extends(Externalize(s, rs[k].id, rs[k].content), s, rs)
           /\ rs[k].id \in DOMAIN Externalize(s, rs[k].id, rs[k].content).decided
  <1> DEFINE t == Externalize(s, rs[k].id, rs[k].content)
             j == rs[k].id
  <1>1. /\ DOMAIN t.decided = DOMAIN s.decided \cup {j}
        /\ DOMAIN t.disk = DOMAIN s.disk \cup {j}
        /\ \A i \in DOMAIN s.decided : t.decided[i] = s.decided[i]
        /\ t.decided[j] = Pointer(rs[k].content)
        /\ t.disk[j] = rs[k].content
        /\ \A i \in DOMAIN s.disk : i # j => t.disk[i] = s.disk[i]
    BY DEF Externalize
  <1>2. j = rs[k].id /\ IsStore(t)
    BY DEF Externalize, IsStore
  <1>. HIDE DEF t, j
  <1>3. Extends(t, s, rs)
    BY <1>1, <1>2 DEF Extends
  <1>. QED
    BY <1>1, <1>3 DEF t, j

\* acc is what has become of the first n of rs: those inline are as they were and not
\* too long, the others are shown as the store says.
Handed(acc, s, rs, limits, n) ==
    /\ Extends(acc.store, s, rs)
    /\ acc.served = [k \in 1..n |-> acc.served[k]] /\ Len(acc.served) = n
    /\ acc.inline \subseteq 1..n
    /\ \A k \in acc.inline : /\ acc.served[k] = rs[k].content
                             /\ rs[k].content.size <= limits.inline
                             /\ rs[k].id \notin DOMAIN s.decided
    /\ \A k \in (1..n) \ acc.inline : /\ rs[k].id \in DOMAIN acc.store.decided
                                      /\ acc.served[k] = acc.store.decided[rs[k].id]

\* What Process says of one result.
Processed(out, s, rs, k, limits) ==
    /\ Extends(out.store, s, rs)
    /\ out.inline \in BOOLEAN
    /\ out.inline => /\ out.content = rs[k].content /\ rs[k].content.size <= limits.inline
                     /\ rs[k].id \notin DOMAIN s.decided
    /\ ~out.inline => /\ rs[k].id \in DOMAIN out.store.decided
                      /\ out.content = out.store.decided[rs[k].id]

LEMMA ProcessOne ==
    ASSUME NEW s, NEW rs \in Seq(AnyResult), NEW k \in 1..Len(rs), NEW limits
    PROVE  Processed(Process(s, rs[k].id, rs[k].content, limits), s, rs, k, limits)
  <1> DEFINE out == Process(s, rs[k].id, rs[k].content, limits)
             t == Externalize(s, rs[k].id, rs[k].content)
  <1>1. CASE rs[k].id \in DOMAIN s.decided
    <2>1. out = [store |-> s, content |-> s.decided[rs[k].id], inline |-> FALSE]
      BY <1>1 DEF Process
    <2>. QED
      BY <1>1, <2>1, ExtendsSelf DEF Processed
  <1>2. CASE rs[k].id \notin DOMAIN s.decided /\ rs[k].content.size <= limits.inline
    <2>1. out = [store |-> s, content |-> rs[k].content, inline |-> TRUE]
      BY <1>2 DEF Process
    <2>. QED
      BY <1>2, <2>1, ExtendsSelf DEF Processed
  <1>3. CASE rs[k].id \notin DOMAIN s.decided /\ ~(rs[k].content.size <= limits.inline)
    <2>1. out = [store |-> t, content |-> t.decided[rs[k].id], inline |-> FALSE]
      BY <1>3 DEF Process
    <2>2. Extends(t, s, rs) /\ rs[k].id \in DOMAIN t.decided
      BY <1>3, ExternalizeExtends
    <2>. HIDE DEF t
    <2>. QED
      BY <2>1, <2>2 DEF Processed
  <1>. QED
    BY <1>1, <1>2, <1>3

-----------------------------------------------------------------------------
(* Pass 1 *)

PassOneStep(acc, rs, k, limits) ==
    LET out == Process(acc.store, rs[k].id, rs[k].content, limits)
    IN  [store  |-> out.store, served |-> Append(acc.served, out.content),
         inline |-> acc.inline \cup {i \in {k} : out.inline}]

PassesOne(f, s, rs, limits, n) ==
    f = [k \in 0..n |->
            IF k = 0 THEN [store |-> s, served |-> <<>>, inline |-> {}]
            ELSE LET acc == f[k - 1]
                     out == Process(acc.store, rs[k].id, rs[k].content, limits)
                 IN  [store  |-> out.store, served |-> Append(acc.served, out.content),
                      inline |-> acc.inline \cup {i \in {k} : out.inline}]]

LEMMA PassOneRecursion ==
    ASSUME NEW s, NEW rs, NEW limits, NEW n \in Nat
    PROVE  \E f : PassesOne(f, s, rs, limits, n)
  <1> DEFINE S == {m \in Nat : \E f : PassesOne(f, s, rs, limits, m)}
             base == [store |-> s, served |-> <<>>, inline |-> {}]
             step(x, k) == PassOneStep(x, rs, k, limits)
  <1>1. \A f, m : PassesOne(f, s, rs, limits, m)
                     <=> f = [k \in 0..m |-> IF k = 0 THEN base ELSE step(f[k - 1], k)]
    BY DEF PassesOne, PassOneStep
  <1>. HIDE DEF step, base
  <1>2. 0 \in S
    <2> DEFINE f == [k \in 0..0 |-> base]
    <2>1. f = [k \in 0..0 |-> IF k = 0 THEN base ELSE step(f[k - 1], k)]
      OBVIOUS
    <2>. QED
      BY <1>1, <2>1
  <1>3. ASSUME NEW m \in Nat, m \in S PROVE m + 1 \in S
    <2>1. PICK f : f = [k \in 0..m |-> IF k = 0 THEN base ELSE step(f[k - 1], k)]
      BY <1>1, <1>3
    <2> DEFINE g == [k \in 0..(m + 1) |-> IF k = m + 1 THEN step(f[m], k) ELSE f[k]]
    <2>2. \A k \in 0..m : g[k] = IF k = 0 THEN base ELSE step(g[k - 1], k)
      <3>1. \A k \in 0..m : g[k] = f[k]
        OBVIOUS
      <3>. HIDE DEF g
      <3>. QED
        BY <2>1, <3>1
    <2>3. g[m + 1] = step(g[m], m + 1)
      OBVIOUS
    <2>4. g = [k \in 0..(m + 1) |-> g[k]]
      OBVIOUS
    <2>. HIDE DEF g
    <2>5. g = [k \in 0..(m + 1) |-> IF k = 0 THEN base ELSE step(g[k - 1], k)]
      <3>1. \A k \in 0..(m + 1) : k \in 0..m \/ (k = m + 1 /\ k # 0 /\ k - 1 = m)
        OBVIOUS
      <3>. QED
        BY <2>2, <2>3, <2>4, <3>1
    <2>6. PassesOne(g, s, rs, limits, m + 1)
      BY <1>1, <2>5
    <2>. QED
      BY <2>6
  <1>. HIDE DEF S
  <1>4. Nat \subseteq S
    BY <1>2, <1>3, Numbers!SetInduction
  <1>. QED
    BY <1>4 DEF S

LEMMA PassOneStepHands ==
    ASSUME NEW s, NEW rs \in Seq(AnyResult), NEW limits, NEW n \in Nat, n < Len(rs),
           NEW acc, Handed(acc, s, rs, limits, n)
    PROVE  Handed(PassOneStep(acc, rs, n + 1, limits), s, rs, limits, n + 1)
  <1> DEFINE out == Process(acc.store, rs[n + 1].id, rs[n + 1].content, limits)
             next == PassOneStep(acc, rs, n + 1, limits)
             V == {acc.served[k] : k \in 1..n} \cup {out.content}
  <1>1. n + 1 \in 1..Len(rs) /\ \A k \in 1..(n + 1) : k \in 1..n \/ k = n + 1
    OBVIOUS
  <1>2. Processed(out, acc.store, rs, n + 1, limits)
    BY <1>1, ProcessOne
  <1>3. acc.served \in Seq(V) /\ out.content \in V /\ Len(acc.served) = n
    BY DEF Handed
  <1>4. /\ next.store = out.store
        /\ next.served = Append(acc.served, out.content)
        /\ next.inline = acc.inline \cup {i \in {n + 1} : out.inline}
    BY DEF PassOneStep
  <1>. HIDE DEF out, next, V
  <1>5. /\ next.served \in Seq(V) /\ Len(next.served) = n + 1
        /\ \A k \in 1..n : next.served[k] = acc.served[k]
        /\ next.served[n + 1] = out.content
    BY <1>3, <1>4, AppendProperties
  <1>6. next.served = [k \in 1..(n + 1) |-> next.served[k]]
    BY <1>5
  <1>7. Extends(next.store, s, rs)
    BY <1>2, <1>4, ExtendsOn DEF Handed, Processed
  <1>8. acc.inline \subseteq 1..n /\ next.inline \subseteq 1..(n + 1)
    BY <1>4 DEF Handed
  <1>9. ASSUME NEW k \in next.inline
        PROVE  /\ next.served[k] = rs[k].content
               /\ rs[k].content.size <= limits.inline
               /\ rs[k].id \notin DOMAIN s.decided
    <2>1. CASE k \in acc.inline
      BY <1>5, <1>8, <2>1 DEF Handed
    <2>2. CASE k = n + 1 /\ out.inline
      BY <1>2, <1>5, <2>2 DEF Handed, Processed, Extends
    <2>. QED
      BY <1>4, <2>1, <2>2
  <1>10. ASSUME NEW k \in (1..(n + 1)) \ next.inline
         PROVE  /\ rs[k].id \in DOMAIN next.store.decided
                /\ next.served[k] = next.store.decided[rs[k].id]
    <2>1. CASE k \in 1..n
      <3>1. k \notin acc.inline
        BY <1>4
      <3>. QED
        BY <1>2, <1>4, <1>5, <2>1, <3>1 DEF Handed, Processed, Extends
    <2>2. CASE k = n + 1
      <3>1. ~out.inline
        BY <1>4, <2>2
      <3>. QED
        BY <1>2, <1>4, <1>5, <2>2, <3>1 DEF Processed
    <2>. QED
      BY <1>1, <2>1, <2>2
  <1>11. Handed(next, s, rs, limits, n + 1)
    BY <1>5, <1>6, <1>7, <1>8, <1>9, <1>10 DEF Handed
  <1>. QED
    BY <1>11 DEF next

\* After pass 1 every result is inline and short enough, or as the store says.
LEMMA PassOneHands ==
    ASSUME NEW s, NEW rs \in Seq(AnyResult), NEW limits
    PROVE  Handed(PassOne(s, rs, limits), s, rs, limits, Len(rs))
  <1> DEFINE n == Len(rs)
             f == CHOOSE f : PassesOne(f, s, rs, limits, n)
  <1>1. n \in Nat /\ PassesOne(f, s, rs, limits, n)
    BY PassOneRecursion
  <1>2. PassOne(s, rs, limits) = f[n]
    BY Zenon DEF PassOne, PassesOne
  <1>. HIDE DEF f
  <1> DEFINE base == [store |-> s, served |-> <<>>, inline |-> {}]
             step(x, k) == PassOneStep(x, rs, k, limits)
  <1>3. f = [k \in 0..n |-> IF k = 0 THEN base ELSE step(f[k - 1], k)]
    BY <1>1 DEF PassesOne, PassOneStep
  <1>. HIDE DEF base, step
  <1>4. f[0] = base /\ \A k \in Nat : k < n => f[k + 1] = step(f[k], k + 1)
    <2>1. \A k \in Nat : k < n => k + 1 \in 0..n /\ k + 1 # 0 /\ (k + 1) - 1 = k
      BY <1>1
    <2>. QED
      BY <1>1, <1>3, <2>1
  <1> DEFINE S == {m \in Nat : m <= n => Handed(f[m], s, rs, limits, m)}
  <1>5. 0 \in S
    <2>1. Handed([store |-> s, served |-> <<>>, inline |-> {}], s, rs, limits, 0)
      BY ExtendsSelf DEF Handed
    <2>. QED
      BY <1>4, <2>1 DEF base
  <1>6. ASSUME NEW m \in Nat, m \in S PROVE m + 1 \in S
    <2> SUFFICES ASSUME m + 1 <= n PROVE Handed(f[m + 1], s, rs, limits, m + 1)
      OBVIOUS
    <2>1. m < n /\ Handed(f[m], s, rs, limits, m)
      BY <1>1, <1>6
    <2>. HIDE DEF S
    <2>. QED
      BY <1>1, <1>4, <2>1, PassOneStepHands DEF step
  <1>. HIDE DEF S
  <1>7. Nat \subseteq S
    BY <1>5, <1>6, Numbers!SetInduction
  <1>. QED
    BY <1>1, <1>2, <1>7 DEF S

-----------------------------------------------------------------------------
(* Totals *)

Sums(f, rs, places, n) ==
    f = [k \in 0..n |->
            IF k = 0 THEN 0
            ELSE f[k - 1] + (IF k \in places THEN rs[k].content.size ELSE 0)]

LEMMA TotalRecursion ==
    ASSUME NEW rs, NEW places, NEW n \in Nat
    PROVE  \E f : Sums(f, rs, places, n)
  <1> DEFINE S == {m \in Nat : \E f : Sums(f, rs, places, m)}
             step(x, k) == x + (IF k \in places THEN rs[k].content.size ELSE 0)
  <1>1. \A f, m : Sums(f, rs, places, m)
                     <=> f = [k \in 0..m |-> IF k = 0 THEN 0 ELSE step(f[k - 1], k)]
    BY DEF Sums
  <1>. HIDE DEF step
  <1>2. 0 \in S
    <2> DEFINE f == [k \in 0..0 |-> 0]
    <2>1. f = [k \in 0..0 |-> IF k = 0 THEN 0 ELSE step(f[k - 1], k)]
      OBVIOUS
    <2>. QED
      BY <1>1, <2>1
  <1>3. ASSUME NEW m \in Nat, m \in S PROVE m + 1 \in S
    <2>1. PICK f : f = [k \in 0..m |-> IF k = 0 THEN 0 ELSE step(f[k - 1], k)]
      BY <1>1, <1>3
    <2> DEFINE g == [k \in 0..(m + 1) |-> IF k = m + 1 THEN step(f[m], k) ELSE f[k]]
    <2>2. \A k \in 0..m : g[k] = IF k = 0 THEN 0 ELSE step(g[k - 1], k)
      <3>1. \A k \in 0..m : g[k] = f[k]
        OBVIOUS
      <3>. HIDE DEF g
      <3>. QED
        BY <2>1, <3>1
    <2>3. g[m + 1] = step(g[m], m + 1)
      OBVIOUS
    <2>4. g = [k \in 0..(m + 1) |-> g[k]]
      OBVIOUS
    <2>. HIDE DEF g
    <2>5. g = [k \in 0..(m + 1) |-> IF k = 0 THEN 0 ELSE step(g[k - 1], k)]
      <3>1. \A k \in 0..(m + 1) : k \in 0..m \/ (k = m + 1 /\ k # 0 /\ k - 1 = m)
        OBVIOUS
      <3>. QED
        BY <2>2, <2>3, <2>4, <3>1
    <2>6. Sums(g, rs, places, m + 1)
      BY <1>1, <2>5
    <2>. QED
      BY <2>6
  <1>. HIDE DEF S
  <1>4. Nat \subseteq S
    BY <1>2, <1>3, Numbers!SetInduction
  <1>. QED
    BY <1>4 DEF S

Length(rs, places, k) == IF k \in places THEN rs[k].content.size ELSE 0

LEMMA TotalAdds ==
    ASSUME NEW rs \in Seq(AnyResult), NEW places
    PROVE  \E f : /\ Total(rs, places) = f[Len(rs)]
                  /\ f[0] = 0
                  /\ \A k \in Nat : k < Len(rs) => f[k + 1] = f[k] + Length(rs, places, k + 1)
  <1> DEFINE n == Len(rs)
             f == CHOOSE f : Sums(f, rs, places, n)
  <1>1. n \in Nat /\ Sums(f, rs, places, n)
    <2>1. n \in Nat
      BY LenProperties
    <2>. HIDE DEF n
    <2>. QED
      BY <2>1, TotalRecursion
  <1>2. Total(rs, places) = f[n]
    BY Zenon DEF Total, Sums
  <1>. HIDE DEF f
  <1>3. f = [k \in 0..n |-> IF k = 0 THEN 0 ELSE f[k - 1] + Length(rs, places, k)]
    BY <1>1 DEF Sums, Length
  <1>4. f[0] = 0 /\ \A k \in Nat : k < n => f[k + 1] = f[k] + Length(rs, places, k + 1)
    <2>1. \A k \in Nat : k < n => k + 1 \in 0..n /\ k + 1 # 0 /\ (k + 1) - 1 = k
      BY <1>1
    <2>. QED
      BY <1>1, <1>3, <2>1
  <1>. QED
    BY <1>2, <1>4

\* What fewer results or the same ones amount to.
LEMMA TotalOfFewer ==
    ASSUME NEW rs \in Seq(AnyResult), NEW qs \in Seq(AnyResult), Len(rs) = Len(qs), NEW X, NEW Y,
           \A k \in 1..Len(rs) : k \in X => k \in Y /\ rs[k].content.size = qs[k].content.size
    PROVE  Total(rs, X) \in Nat /\ Total(qs, Y) \in Nat /\ Total(rs, X) <= Total(qs, Y)
  <1>1. PICK f : /\ Total(rs, X) = f[Len(rs)]
                 /\ f[0] = 0
                 /\ \A k \in Nat : k < Len(rs) => f[k + 1] = f[k] + Length(rs, X, k + 1)
    BY TotalAdds
  <1>2. PICK g : /\ Total(qs, Y) = g[Len(qs)]
                 /\ g[0] = 0
                 /\ \A k \in Nat : k < Len(qs) => g[k + 1] = g[k] + Length(qs, Y, k + 1)
    BY TotalAdds
  <1>3. ASSUME NEW k \in 1..Len(rs)
        PROVE  /\ Length(rs, X, k) \in Nat /\ Length(qs, Y, k) \in Nat
               /\ Length(rs, X, k) <= Length(qs, Y, k)
    <2>1. rs[k] \in AnyResult /\ qs[k] \in AnyResult
      BY ElementOfSeq
    <2>2. rs[k].content.size \in Nat /\ qs[k].content.size \in Nat
      BY <2>1 DEF AnyResult, Contents
    <2>. QED
      BY <2>2 DEF Length
  <1> DEFINE S == {m \in Nat : m <= Len(rs) => f[m] \in Nat /\ g[m] \in Nat /\ f[m] <= g[m]}
  <1>4. 0 \in S
    BY <1>1, <1>2
  <1>5. ASSUME NEW m \in Nat, m \in S PROVE m + 1 \in S
    <2> SUFFICES ASSUME m + 1 <= Len(rs)
                 PROVE  f[m + 1] \in Nat /\ g[m + 1] \in Nat /\ f[m + 1] <= g[m + 1]
      OBVIOUS
    <2>1. m < Len(rs) /\ m + 1 \in 1..Len(rs) /\ f[m] \in Nat /\ g[m] \in Nat /\ f[m] <= g[m]
      BY <1>5, LenProperties
    <2>2. f[m + 1] = f[m] + Length(rs, X, m + 1) /\ g[m + 1] = g[m] + Length(qs, Y, m + 1)
      BY <1>1, <1>2, <2>1
    <2>. QED
      BY <1>3, <2>1, <2>2
  <1>. HIDE DEF S
  <1>6. Nat \subseteq S
    BY <1>4, <1>5, Numbers!SetInduction
  <1>. QED
    BY <1>1, <1>2, <1>6, LenProperties DEF S

LEMMA TotalOfNone == ASSUME NEW rs \in Seq(AnyResult) PROVE Total(rs, {}) = 0
  <1>1. PICK f : /\ Total(rs, {}) = f[Len(rs)]
                 /\ f[0] = 0
                 /\ \A k \in Nat : k < Len(rs) => f[k + 1] = f[k] + Length(rs, {}, k + 1)
    BY TotalAdds
  <1> DEFINE S == {m \in Nat : m <= Len(rs) => f[m] = 0}
  <1>2. 0 \in S
    BY <1>1
  <1>3. ASSUME NEW m \in Nat, m \in S PROVE m + 1 \in S
    BY <1>1, <1>3, LenProperties DEF Length
  <1>. HIDE DEF S
  <1>4. Nat \subseteq S
    BY <1>2, <1>3, Numbers!SetInduction
  <1>. QED
    BY <1>1, <1>4, LenProperties DEF S

-----------------------------------------------------------------------------
(* Pass 2 *)

IsLargest(rs, places, i) ==
    /\ i \in places
    /\ \A j \in places : \/ rs[i].content.size > rs[j].content.size
                         \/ rs[i].content.size = rs[j].content.size /\ i <= j

\* There is a largest one, and Largest is one.
LEMMA LargestIsOne ==
    ASSUME NEW rs \in Seq(AnyResult), NEW places \in SUBSET (1..Len(rs)), places # {}
    PROVE  Largest(rs, places) \in places
  <1> DEFINE S == {m \in Nat : m <= Len(rs) =>
                        \A X \in SUBSET (1..m) : X # {} => \E i \in X : IsLargest(rs, X, i)}
  <1>1. 0 \in S
    <2>1. \A X \in SUBSET (1..0) : X = {}
      OBVIOUS
    <2>. QED
      BY <2>1
  <1>2. ASSUME NEW m \in Nat, m \in S PROVE m + 1 \in S
    <2> SUFFICES ASSUME m + 1 <= Len(rs), NEW X \in SUBSET (1..(m + 1)), X # {}
                 PROVE  \E i \in X : IsLargest(rs, X, i)
      OBVIOUS
    <2> DEFINE Y == X \ {m + 1}
    <2>1. \A i \in X : i \in 1..(m + 1) /\ rs[i].content.size \in Nat
      <3>1. \A i \in X : i \in 1..Len(rs) /\ i \in 1..(m + 1)
        BY LenProperties
      <3>2. \A i \in X : rs[i] \in AnyResult
        BY <3>1, ElementOfSeq
      <3>. QED
        BY <3>1, <3>2 DEF AnyResult, Contents
    <2>2. Y \in SUBSET (1..m)
      BY <2>1
    <2>3. CASE Y = {}
      <3>1. X = {m + 1}
        BY <2>3
      <3>. QED
        BY <2>1, <3>1 DEF IsLargest
    <2>4. CASE Y # {}
      <3>1. PICK i \in Y : IsLargest(rs, Y, i)
        <4>1. m <= Len(rs)
          BY LenProperties
        <4>2. \A Z \in SUBSET (1..m) : Z # {} => \E i \in Z : IsLargest(rs, Z, i)
          BY <1>2, <4>1
        <4>. QED
          BY <2>2, <2>4, <4>2
      <3>2. CASE m + 1 \notin X
        <4>1. Y = X
          BY <3>2
        <4>. QED
          BY <3>1, <4>1
      <3>3. CASE m + 1 \in X /\ rs[m + 1].content.size > rs[i].content.size
        <4>1. ASSUME NEW j \in X
              PROVE  \/ rs[m + 1].content.size > rs[j].content.size
                     \/ rs[m + 1].content.size = rs[j].content.size /\ m + 1 <= j
          BY <2>1, <3>1, <3>3 DEF IsLargest
        <4>. QED
          BY <3>3, <4>1 DEF IsLargest
      <3>4. CASE m + 1 \in X /\ ~(rs[m + 1].content.size > rs[i].content.size)
        <4>1. ASSUME NEW j \in X
              PROVE  \/ rs[i].content.size > rs[j].content.size
                     \/ rs[i].content.size = rs[j].content.size /\ i <= j
          BY <2>1, <3>1, <3>4 DEF IsLargest
        <4>. QED
          BY <3>1, <4>1 DEF IsLargest
      <3>. QED
        BY <3>2, <3>3, <3>4
    <2>. QED
      BY <2>3, <2>4
  <1>. HIDE DEF S
  <1>3. Nat \subseteq S
    BY <1>1, <1>2, Numbers!SetInduction
  <1>4. \E i \in places : IsLargest(rs, places, i)
    BY <1>3, LenProperties DEF S
  <1>. QED
    BY <1>4, Zenon DEF Largest, IsLargest

LEMMA ReplaceHands ==
    ASSUME NEW s, NEW rs \in Seq(AnyResult), NEW limits, NEW acc, NEW i \in acc.inline,
           Handed(acc, s, rs, limits, Len(rs))
    PROVE  Handed(Replace(acc, rs, i), s, rs, limits, Len(rs))
  <1> DEFINE n == Len(rs)
             id == rs[i].id
             next == IF id \in DOMAIN acc.store.decided THEN acc.store
                     ELSE Externalize(acc.store, id, rs[i].content)
             new == Replace(acc, rs, i)
  <1>1. i \in 1..n
    BY DEF Handed
  <1>2. Extends(next, acc.store, rs) /\ id \in DOMAIN next.decided
    BY <1>1, ExternalizeExtends, ExtendsSelf
  <1>3. /\ new.store = next /\ new.inline = acc.inline \ {i}
        /\ new.served = [acc.served EXCEPT ![i] = next.decided[id]]
    BY DEF Replace
  <1>4. id = rs[i].id
    OBVIOUS
  <1>. HIDE DEF next, id, new
  <1>5. Extends(new.store, s, rs)
    BY <1>2, <1>3, ExtendsOn DEF Handed
  <1>6. /\ acc.served = [k \in 1..n |-> acc.served[k]] /\ n \in Nat
        /\ DOMAIN acc.served = 1..n
    <2>1. acc.served = [k \in 1..n |-> acc.served[k]]
      BY DEF Handed
    <2>. QED
      BY <2>1, LenProperties
  <1>7. /\ new.served[i] = next.decided[id]
        /\ \A k \in 1..n : k # i => new.served[k] = acc.served[k]
        /\ new.served = [k \in 1..n |-> new.served[k]]
    BY <1>1, <1>3, <1>6
  <1>8. Len(new.served) = n
    BY <1>6, <1>7
  <1>9. new.inline \subseteq 1..n
    BY <1>3 DEF Handed
  <1>10. ASSUME NEW k \in new.inline
         PROVE  /\ new.served[k] = rs[k].content
                /\ rs[k].content.size <= limits.inline
                /\ rs[k].id \notin DOMAIN s.decided
    BY <1>3, <1>7, <1>9 DEF Handed
  <1>11. ASSUME NEW k \in (1..n) \ new.inline
         PROVE  /\ rs[k].id \in DOMAIN new.store.decided
                /\ new.served[k] = new.store.decided[rs[k].id]
    <2>1. CASE k = i
      BY <1>2, <1>3, <1>4, <1>7, <2>1
    <2>2. CASE k # i
      <3>1. k \in (1..n) \ acc.inline
        BY <1>3, <2>2
      <3>2. rs[k].id \in DOMAIN acc.store.decided /\ acc.served[k] = acc.store.decided[rs[k].id]
        BY <3>1 DEF Handed
      <3>. QED
        BY <1>2, <1>3, <1>7, <2>2, <3>2 DEF Extends
    <2>. QED
      BY <2>1, <2>2
  <1>12. Handed(new, s, rs, limits, n)
    BY <1>5, <1>7, <1>8, <1>9, <1>10, <1>11 DEF Handed
  <1>. QED
    BY <1>12 DEF new

PassTwoStep(acc, rs, limits) ==
    IF Total(rs, acc.inline) <= limits.total THEN acc
    ELSE Replace(acc, rs, Largest(rs, acc.inline))

PassesTwo(f, one, rs, limits, n) ==
    f = [k \in 0..n |->
            IF k = 0 THEN one
            ELSE LET acc == f[k - 1]
                 IN  IF Total(rs, acc.inline) <= limits.total THEN acc
                     ELSE Replace(acc, rs, Largest(rs, acc.inline))]

LEMMA PassTwoRecursion ==
    ASSUME NEW one, NEW rs, NEW limits, NEW n \in Nat
    PROVE  \E f : PassesTwo(f, one, rs, limits, n)
  <1> DEFINE S == {m \in Nat : \E f : PassesTwo(f, one, rs, limits, m)}
             step(x) == PassTwoStep(x, rs, limits)
  <1>1. \A f, m : PassesTwo(f, one, rs, limits, m)
                     <=> f = [k \in 0..m |-> IF k = 0 THEN one ELSE step(f[k - 1])]
    BY DEF PassesTwo, PassTwoStep
  <1>. HIDE DEF step
  <1>2. 0 \in S
    <2> DEFINE f == [k \in 0..0 |-> one]
    <2>1. f = [k \in 0..0 |-> IF k = 0 THEN one ELSE step(f[k - 1])]
      OBVIOUS
    <2>. QED
      BY <1>1, <2>1
  <1>3. ASSUME NEW m \in Nat, m \in S PROVE m + 1 \in S
    <2>1. PICK f : f = [k \in 0..m |-> IF k = 0 THEN one ELSE step(f[k - 1])]
      BY <1>1, <1>3
    <2> DEFINE g == [k \in 0..(m + 1) |-> IF k = m + 1 THEN step(f[m]) ELSE f[k]]
    <2>2. \A k \in 0..m : g[k] = IF k = 0 THEN one ELSE step(g[k - 1])
      <3>1. \A k \in 0..m : g[k] = f[k]
        OBVIOUS
      <3>. HIDE DEF g
      <3>. QED
        BY <2>1, <3>1
    <2>3. g[m + 1] = step(g[m])
      OBVIOUS
    <2>4. g = [k \in 0..(m + 1) |-> g[k]]
      OBVIOUS
    <2>. HIDE DEF g
    <2>5. g = [k \in 0..(m + 1) |-> IF k = 0 THEN one ELSE step(g[k - 1])]
      <3>1. \A k \in 0..(m + 1) : k \in 0..m \/ (k = m + 1 /\ k # 0 /\ k - 1 = m)
        OBVIOUS
      <3>. QED
        BY <2>2, <2>3, <2>4, <3>1
    <2>6. PassesTwo(g, one, rs, limits, m + 1)
      BY <1>1, <2>5
    <2>. QED
      BY <2>6
  <1>. HIDE DEF S
  <1>4. Nat \subseteq S
    BY <1>2, <1>3, Numbers!SetInduction
  <1>. QED
    BY <1>4 DEF S

LEMMA PassTwoSteps ==
    ASSUME NEW one, NEW rs \in Seq(AnyResult), NEW limits
    PROVE  \E f : /\ PassTwo(one, rs, limits) = f[Len(rs)]
                  /\ f[0] = one
                  /\ \A k \in Nat : k < Len(rs) => f[k + 1] = PassTwoStep(f[k], rs, limits)
  <1> DEFINE n == Len(rs)
             f == CHOOSE f : PassesTwo(f, one, rs, limits, n)
             step(x) == PassTwoStep(x, rs, limits)
  <1>1. n \in Nat
    BY LenProperties
  <1>2. PassesTwo(f, one, rs, limits, n)
    <2>. HIDE DEF n
    <2>. QED
      BY <1>1, PassTwoRecursion
  <1>3. PassTwo(one, rs, limits) = f[n]
    BY Zenon DEF PassTwo, PassesTwo
  <1>. HIDE DEF f
  <1>4. f = [k \in 0..n |-> IF k = 0 THEN one ELSE step(f[k - 1])]
    BY <1>2 DEF PassesTwo, PassTwoStep
  <1>. HIDE DEF step
  <1>5. f[0] = one /\ \A k \in Nat : k < n => f[k + 1] = step(f[k])
    <2>1. \A k \in Nat : k < n => k + 1 \in 0..n /\ k + 1 # 0 /\ (k + 1) - 1 = k
      BY <1>1
    <2>. QED
      BY <1>1, <1>4, <2>1
  <1>. QED
    BY <1>3, <1>5 DEF step

Fits(acc, rs, limits) == Total(rs, acc.inline) <= limits.total

\* After so many turns of pass 2 the rest fits, or that many results are gone.
LEMMA PassTwoStepHands ==
    ASSUME NEW s, NEW rs \in Seq(AnyResult), NEW limits, limits.total \in Nat, NEW acc,
           NEW m \in Nat, m < Len(rs), Handed(acc, s, rs, limits, Len(rs)),
           Fits(acc, rs, limits) \/ Cardinality(acc.inline) <= Len(rs) - m
    PROVE  LET new == PassTwoStep(acc, rs, limits)
           IN  /\ Handed(new, s, rs, limits, Len(rs))
               /\ Fits(new, rs, limits) \/ Cardinality(new.inline) <= Len(rs) - (m + 1)
  <1> DEFINE new == PassTwoStep(acc, rs, limits)
             i == Largest(rs, acc.inline)
  <1>1. CASE Fits(acc, rs, limits)
    <2>1. new = acc
      BY <1>1 DEF PassTwoStep, Fits
    <2>. QED
      BY <1>1, <2>1
  <1>2. CASE ~Fits(acc, rs, limits)
    <2>1. new = Replace(acc, rs, i)
      BY <1>2 DEF PassTwoStep, Fits
    <2>2. acc.inline # {}
      <3>1. Total(rs, {}) = 0
        BY TotalOfNone
      <3>2. ASSUME acc.inline = {} PROVE Fits(acc, rs, limits)
        <4>1. Total(rs, acc.inline) = 0
          BY <3>1, <3>2
        <4>2. 0 <= limits.total
          OBVIOUS
        <4>. QED
          BY <4>1, <4>2 DEF Fits
      <3>. QED
        BY <1>2, <3>2
    <2>3. acc.inline \in SUBSET (1..Len(rs)) /\ Len(rs) \in Nat
      BY LenProperties DEF Handed
    <2>4. i \in acc.inline
      BY <2>2, <2>3, LargestIsOne
    <2>5. IsFiniteSet(acc.inline)
      BY <2>3, FinitePlaces
    <2>6. Cardinality(acc.inline \ {i}) = Cardinality(acc.inline) - 1 /\ Cardinality(acc.inline) \in Nat
      BY <2>4, <2>5, FS_RemoveElement, FS_CardinalityType
    <2>. HIDE DEF i, new
    <2>7. Handed(new, s, rs, limits, Len(rs)) /\ new.inline = acc.inline \ {i}
      <3>1. Handed(Replace(acc, rs, i), s, rs, limits, Len(rs))
        BY <2>4, ReplaceHands
      <3>2. Replace(acc, rs, i).inline = acc.inline \ {i}
        BY Zenon DEF Replace
      <3>. QED
        BY <2>1, <3>1, <3>2
    <2>. QED
      BY <1>2, <2>3, <2>6, <2>7 DEF new
  <1>. QED
    BY <1>1, <1>2

\* A batch: every result is inline or as the store says, none inline is too long, and
\* together they fit.
LEMMA BatchHands ==
    ASSUME NEW s, NEW rs \in Seq(AnyResult), NEW limits, limits.total \in Nat
    PROVE  /\ Handed(ProcessBatch(s, rs, limits), s, rs, limits, Len(rs))
           /\ Fits(ProcessBatch(s, rs, limits), rs, limits)
  <1> DEFINE n == Len(rs)
             one == PassOne(s, rs, limits)
  <1>1. Handed(one, s, rs, limits, n) /\ n \in Nat
    BY PassOneHands, LenProperties
  <1>2. PICK f : /\ PassTwo(one, rs, limits) = f[n]
                 /\ f[0] = one
                 /\ \A k \in Nat : k < n => f[k + 1] = PassTwoStep(f[k], rs, limits)
    BY PassTwoSteps
  <1>. HIDE DEF one
  <1> DEFINE Good(acc, m) == /\ Handed(acc, s, rs, limits, n)
                             /\ Fits(acc, rs, limits) \/ Cardinality(acc.inline) <= n - m
             S == {m \in Nat : m <= n => Good(f[m], m)}
  <1>3. 0 \in S
    <2>1. one.inline \subseteq 1..n
      BY <1>1 DEF Handed
    <2>2. Cardinality(one.inline) <= n
      <3>. HIDE DEF n
      <3>. QED
        BY <1>1, <2>1, FinitePlaces
    <2>. QED
      BY <1>1, <1>2, <2>2
  <1>4. ASSUME NEW m \in Nat, m \in S PROVE m + 1 \in S
    <2> SUFFICES ASSUME m + 1 <= n PROVE Good(f[m + 1], m + 1)
      OBVIOUS
    <2>1. m < n /\ Good(f[m], m)
      BY <1>1, <1>4
    <2>2. f[m + 1] = PassTwoStep(f[m], rs, limits)
      BY <1>2, <2>1
    <2>. HIDE DEF S
    <2>. QED
      BY <2>1, <2>2, PassTwoStepHands
  <1>. HIDE DEF S
  <1>5. Nat \subseteq S
    BY <1>3, <1>4, Numbers!SetInduction
  <1>6. Good(f[n], n)
    BY <1>1, <1>5 DEF S
  <1>7. Fits(f[n], rs, limits)
    <2> SUFFICES ASSUME Cardinality(f[n].inline) <= n - n PROVE Fits(f[n], rs, limits)
      BY <1>6
    <2>1. f[n].inline \subseteq 1..n
      BY <1>6 DEF Handed
    <2>2. IsFiniteSet(f[n].inline)
      <3>. HIDE DEF n
      <3>. QED
        BY <1>1, <2>1, FinitePlaces
    <2>3. f[n].inline = {}
      BY <1>1, <2>2, FS_CardinalityType, FS_EmptySet
    <2>. QED
      BY <2>3, TotalOfNone DEF Fits
  <1>. QED
    BY <1>2, <1>6, <1>7 DEF ProcessBatch, one

-----------------------------------------------------------------------------
(* Types *)

ContentUpTo(c) == [of : 0..c, wraps : Nat, size : Nat]
ResultUpTo(c)  == [call : 1..c, id : 0..c, content : ContentUpTo(c)]

Filed(part, c) == DOMAIN part \subseteq 0..c /\ \A i \in DOMAIN part : part[i] \in ContentUpTo(c)

StoreUpTo(s, c) == Filed(s.decided, c) /\ Filed(s.disk, c) /\ IsStore(s)

Shown(rs, served) == [k \in DOMAIN rs |-> [rs[k] EXCEPT !.content = served[k]]]

LEMMA ResultParts ==
    ASSUME NEW c \in Nat, NEW r \in ResultUpTo(c)
    PROVE  /\ r = [call |-> r.call, id |-> r.id, content |-> r.content]
           /\ r.call \in 1..c /\ r.id \in 0..c /\ r.content \in ContentUpTo(c)
  BY DEF ResultUpTo

LEMMA PointerTypes ==
    ASSUME NEW c \in Nat, NEW content \in ContentUpTo(c)
    PROVE  Pointer(content) \in ContentUpTo(c)
  BY Lengths DEF Pointer, ContentUpTo

LEMMA MoreResults ==
    ASSUME NEW c \in Nat, NEW d \in Nat, c <= d
    PROVE  /\ ContentUpTo(c) \subseteq ContentUpTo(d)
           /\ ResultUpTo(c) \subseteq ResultUpTo(d) /\ ResultUpTo(c) \subseteq AnyResult
           /\ Seq(ResultUpTo(c)) \subseteq Seq(ResultUpTo(d))
           /\ Seq(ResultUpTo(c)) \subseteq Seq(AnyResult)
           /\ \A s : StoreUpTo(s, c) => StoreUpTo(s, d)
  <1>1. ContentUpTo(c) \subseteq ContentUpTo(d) /\ ContentUpTo(c) \subseteq Contents
    BY DEF ContentUpTo, Contents
  <1>2. 1..c \subseteq 1..d /\ 0..c \subseteq 0..d /\ 1..c \subseteq Nat /\ 0..c \subseteq Nat
    OBVIOUS
  <1>3. ResultUpTo(c) \subseteq ResultUpTo(d) /\ ResultUpTo(c) \subseteq AnyResult
    <2>. SUFFICES ASSUME NEW r \in ResultUpTo(c) PROVE r \in ResultUpTo(d) /\ r \in AnyResult
      OBVIOUS
    <2>1. /\ r = [call |-> r.call, id |-> r.id, content |-> r.content]
          /\ r.call \in 1..d /\ r.id \in 0..d /\ r.content \in ContentUpTo(d)
          /\ r.call \in Nat /\ r.id \in Nat /\ r.content \in Contents
      BY <1>1, <1>2, ResultParts
    <2>. QED
      BY <2>1, Zenon DEF ResultUpTo, AnyResult
  <1>4. \A s : StoreUpTo(s, c) => StoreUpTo(s, d)
    BY <1>1, <1>2 DEF StoreUpTo, Filed
  <1>. QED
    BY <1>1, <1>3, <1>4, SeqMonotonic

LEMMA ShownTypes ==
    ASSUME NEW c \in Nat, NEW rs \in Seq(ResultUpTo(c)), NEW served,
           \A k \in 1..Len(rs) : served[k] \in ContentUpTo(c)
    PROVE  /\ Shown(rs, served) \in Seq(ResultUpTo(c)) /\ Len(Shown(rs, served)) = Len(rs)
           /\ \A k \in 1..Len(rs) : /\ Shown(rs, served)[k].call = rs[k].call
                                    /\ Shown(rs, served)[k].id = rs[k].id
                                    /\ Shown(rs, served)[k].content = served[k]
  <1> DEFINE n == Len(rs)
             t == Shown(rs, served)
  <1>1. n \in Nat /\ DOMAIN rs = 1..n
    BY LenProperties
  <1>2. t = [k \in 1..n |-> [rs[k] EXCEPT !.content = served[k]]]
    BY <1>1, Zenon DEF Shown
  <1>. HIDE DEF t
  <1>3. ASSUME NEW k \in 1..n
        PROVE  /\ t[k] \in ResultUpTo(c) /\ t[k].call = rs[k].call
               /\ t[k].id = rs[k].id /\ t[k].content = served[k]
    <2>1. rs[k] \in ResultUpTo(c)
      BY <1>1
    <2>2. t[k] = [rs[k] EXCEPT !.content = served[k]]
      BY <1>2
    <2>3. t[k] = [call |-> rs[k].call, id |-> rs[k].id, content |-> served[k]]
      BY <2>1, <2>2, ResultParts
    <2>4. rs[k].call \in 1..c /\ rs[k].id \in 0..c /\ served[k] \in ContentUpTo(c)
      BY <2>1, ResultParts
    <2>. QED
      BY <2>3, <2>4 DEF ResultUpTo
  <1>4. t \in [1..n -> ResultUpTo(c)]
    BY <1>2, <1>3
  <1>5. t \in Seq(ResultUpTo(c)) /\ Len(t) = n
    <2>. HIDE DEF n
    <2>. QED
      BY <1>1, <1>4
  <1>. QED
    BY <1>3, <1>5 DEF t

LEMMA HandedTypes ==
    ASSUME NEW c \in Nat, NEW rs \in Seq(ResultUpTo(c)), NEW s, StoreUpTo(s, c), NEW limits,
           NEW acc, Handed(acc, s, rs, limits, Len(rs))
    PROVE  /\ StoreUpTo(acc.store, c)
           /\ \A k \in 1..Len(rs) : acc.served[k] \in ContentUpTo(c)
  <1> DEFINE t == acc.store
  <1>1. Extends(t, s, rs)
    BY DEF Handed
  <1>2. \A k \in 1..Len(rs) : rs[k].id \in 0..c /\ rs[k].content \in ContentUpTo(c)
    BY ResultParts, ElementOfSeq
  <1>. HIDE DEF t
  <1>3. ASSUME NEW i \in DOMAIN t.decided PROVE i \in 0..c /\ t.decided[i] \in ContentUpTo(c)
    <2>1. CASE i \in DOMAIN s.decided
      BY <1>1, <2>1 DEF Extends, StoreUpTo, Filed
    <2>2. CASE i \notin DOMAIN s.decided
      <3>1. PICK k \in 1..Len(rs) : rs[k].id = i /\ t.decided[i] = Pointer(rs[k].content)
        BY <1>1, <2>2 DEF Extends
      <3>. QED
        BY <1>2, <3>1, PointerTypes
    <2>. QED
      BY <2>1, <2>2
  <1>4. ASSUME NEW i \in DOMAIN t.disk PROVE i \in 0..c /\ t.disk[i] \in ContentUpTo(c)
    <2>1. CASE i \in DOMAIN s.disk /\ t.disk[i] = s.disk[i]
      BY <2>1 DEF StoreUpTo, Filed
    <2>2. CASE i \in DOMAIN t.decided \ DOMAIN s.decided
      <3>1. PICK k \in 1..Len(rs) : rs[k].id = i /\ t.disk[i] = rs[k].content
        BY <1>1, <2>2 DEF Extends
      <3>. QED
        BY <1>2, <3>1
    <2>. QED
      BY <1>1, <2>1, <2>2 DEF Extends
  <1>5. StoreUpTo(t, c)
    BY <1>1, <1>3, <1>4 DEF StoreUpTo, Filed, Extends
  <1>6. ASSUME NEW k \in 1..Len(rs) PROVE acc.served[k] \in ContentUpTo(c)
    <2>1. CASE k \in acc.inline
      BY <1>2, <2>1 DEF Handed
    <2>2. CASE k \notin acc.inline
      BY <1>3, <2>2 DEF Handed, t
    <2>. QED
      BY <2>1, <2>2
  <1>. QED
    BY <1>5, <1>6 DEF t

\* The results of a batch that has just run.
Fresh(sizes) ==
    [k \in DOMAIN batch |->
        [call |-> lastCall + k, id |-> IdOf(k),
         content |-> [of |-> lastCall + k, wraps |-> 0, size |-> sizes[k]]]]

LEMMA FreshTypes ==
    ASSUME lastCall \in Nat, NEW C, batch \in Seq(C), NEW sizes \in [DOMAIN batch -> Sizes]
    PROVE  /\ Fresh(sizes) \in Seq(ResultUpTo(lastCall + Len(batch)))
           /\ Len(Fresh(sizes)) = Len(batch)
           /\ \A k \in 1..Len(batch) :
                 /\ Fresh(sizes)[k].call = lastCall + k /\ Fresh(sizes)[k].id \in {lastCall + k, Shared}
                 /\ Fresh(sizes)[k].content.of = lastCall + k /\ Fresh(sizes)[k].content.wraps = 0
  <1> DEFINE n == Len(batch)
             c == lastCall + n
             f == Fresh(sizes)
  <1>1. n \in Nat /\ DOMAIN batch = 1..n
    BY LenProperties
  <1>2. f = [k \in 1..n |-> [call |-> lastCall + k, id |-> IdOf(k),
                             content |-> [of |-> lastCall + k, wraps |-> 0, size |-> sizes[k]]]]
    BY <1>1, Zenon DEF Fresh
  <1>. HIDE DEF f
  <1>3. ASSUME NEW k \in 1..n
        PROVE  /\ f[k] \in ResultUpTo(c) /\ f[k].call = lastCall + k
               /\ f[k].id \in {lastCall + k, Shared}
               /\ f[k].content.of = lastCall + k /\ f[k].content.wraps = 0
    <2>1. f[k] = [call |-> lastCall + k, id |-> IdOf(k),
                  content |-> [of |-> lastCall + k, wraps |-> 0, size |-> sizes[k]]]
      BY <1>2
    <2>2. IdOf(k) \in {lastCall + k, Shared}
      BY DEF IdOf
    <2>3. lastCall + k \in 1..c /\ lastCall + k \in 0..c /\ IdOf(k) \in 0..c
      BY <1>1, <2>2 DEF Shared
    <2>4. sizes[k] \in Nat
      BY <1>1, SessionBounds
    <2>5. [of |-> lastCall + k, wraps |-> 0, size |-> sizes[k]] \in ContentUpTo(c)
      BY <2>3, <2>4 DEF ContentUpTo
    <2>. HIDE DEF c
    <2>. QED
      BY <2>1, <2>2, <2>3, <2>5 DEF ResultUpTo
  <1>4. f \in [1..n -> ResultUpTo(c)]
    BY <1>2, <1>3
  <1>5. f \in Seq(ResultUpTo(c)) /\ Len(f) = n
    <2>. HIDE DEF n, c
    <2>. QED
      BY <1>1, <1>4
  <1>. QED
    BY <1>3, <1>5 DEF f

BatchTyped == batch \in Seq(Call) /\ (pc = "run" => lastCall + Len(batch) <= MaxCalls)

DataTyped ==
    /\ lastCall \in 0..MaxCalls
    /\ results \in Seq(ResultUpTo(lastCall)) /\ payload \in Seq(ResultUpTo(lastCall))
    /\ slot = Unsaved \/ slot \in Seq(ResultUpTo(lastCall))
    /\ StoreUpTo(store, lastCall)

RestTyped ==
    /\ pc \in {"idle", "recall", "ask", "build", "call", "run"} /\ preset \in Presets
    /\ inputs \in 0..MaxInputs /\ (pc = "recall" => inputs > 0)
    /\ surfaced \subseteq Memories /\ recalled \in [Memories -> SUBSET (1..MaxInputs)]
    /\ resumed \in BOOLEAN

TypeInv == BatchTyped /\ DataTyped /\ RestTyped

\* What running a batch makes of it: new is the results as they are, more is them as
\* they go into the transcript.
RanBatch(new, more) ==
    /\ new \in Seq(ResultUpTo(lastCall')) /\ more \in Seq(ResultUpTo(lastCall'))
    /\ Len(new) = Len(batch) /\ Len(more) = Len(batch)
    /\ results' = results \o more
    /\ Extends(store', store, new) /\ StoreUpTo(store', lastCall')
    /\ \A k \in 1..Len(batch) :
          /\ new[k].call = lastCall + k /\ new[k].id \in {lastCall + k, Shared}
          /\ new[k].content.of = lastCall + k /\ new[k].content.wraps = 0
          /\ more[k].call = new[k].call /\ more[k].id = new[k].id
          /\ \/ more[k].content = new[k].content
             \/ /\ new[k].id \in DOMAIN store'.decided
                /\ more[k].content = store'.decided[new[k].id]

LEMMA RunBatchGives ==
    ASSUME BatchTyped, DataTyped, RunBatch
    PROVE  /\ lastCall' \in 0..MaxCalls /\ lastCall <= lastCall' /\ lastCall' = lastCall + Len(batch)
           /\ \E new, more : RanBatch(new, more)
  <1>1. /\ lastCall \in Nat /\ Len(batch) \in Nat /\ lastCall' = lastCall + Len(batch)
        /\ lastCall' \in 0..MaxCalls /\ lastCall <= lastCall'
    BY LenProperties, SessionBounds DEF BatchTyped, DataTyped, RunBatch
  <1>2. PICK sizes \in [DOMAIN batch -> Sizes] :
           LET new == Fresh(sizes)
               out == PassOne(store, new, preset)
           IN  IF preset.loop
               THEN /\ store' = out.store
                    /\ results' = results \o Shown(new, out.served)
               ELSE results' = results \o new /\ UNCHANGED store
    BY Zenon DEF RunBatch, Fresh, Shown
  <1> DEFINE new == Fresh(sizes)
             out == PassOne(store, new, preset)
  <1>3. /\ new \in Seq(ResultUpTo(lastCall')) /\ Len(new) = Len(batch)
        /\ \A k \in 1..Len(batch) :
              /\ new[k].call = lastCall + k /\ new[k].id \in {lastCall + k, Shared}
              /\ new[k].content.of = lastCall + k /\ new[k].content.wraps = 0
    BY <1>1, FreshTypes DEF BatchTyped
  <1>4. StoreUpTo(store, lastCall') /\ new \in Seq(AnyResult)
    BY <1>1, <1>3, MoreResults DEF DataTyped
  <1>. HIDE DEF new
  <1>5. CASE preset.loop
    <2>1. Handed(out, store, new, preset, Len(new))
      BY <1>4, PassOneHands
    <2>. HIDE DEF out
    <2>2. StoreUpTo(out.store, lastCall') /\ \A k \in 1..Len(new) : out.served[k] \in ContentUpTo(lastCall')
      BY <1>1, <1>3, <1>4, <2>1, HandedTypes
    <2> DEFINE more == Shown(new, out.served)
    <2>3. /\ more \in Seq(ResultUpTo(lastCall')) /\ Len(more) = Len(new)
          /\ \A k \in 1..Len(new) : /\ more[k].call = new[k].call /\ more[k].id = new[k].id
                                    /\ more[k].content = out.served[k]
      BY <1>1, <1>3, <2>2, ShownTypes
    <2>4. results' = results \o more /\ store' = out.store
      BY <1>2, <1>5 DEF new, out
    <2>. HIDE DEF more
    <2>5. ASSUME NEW k \in 1..Len(batch)
          PROVE  \/ more[k].content = new[k].content
                 \/ /\ new[k].id \in DOMAIN store'.decided
                    /\ more[k].content = store'.decided[new[k].id]
      <3>1. CASE k \in out.inline
        BY <1>3, <2>1, <2>3, <3>1 DEF Handed
      <3>2. CASE k \notin out.inline
        BY <1>3, <2>1, <2>3, <2>4, <3>2 DEF Handed
      <3>. QED
        BY <3>1, <3>2
    <2>6. RanBatch(new, more)
      BY <1>3, <2>1, <2>2, <2>3, <2>4, <2>5 DEF RanBatch, Handed
    <2>. QED
      BY <1>1, <2>6
  <1>6. CASE ~preset.loop
    <2>1. results' = results \o new /\ store' = store
      BY <1>2, <1>6 DEF new
    <2>2. RanBatch(new, new)
      BY <1>3, <1>4, <2>1, ExtendsSelf DEF RanBatch
    <2>. QED
      BY <1>1, <2>2
  <1>. QED
    BY <1>5, <1>6

LEMMA PayloadGives ==
    ASSUME DataTyped, RestTyped, BuildPayload
    PROVE  \E out : /\ Handed(out, store, results, preset, Len(results))
                    /\ Fits(out, results, preset)
                    /\ store' = out.store /\ StoreUpTo(store', lastCall)
                    /\ payload' = Shown(results, out.served)
                    /\ payload' \in Seq(ResultUpTo(lastCall)) /\ Len(payload') = Len(results)
                    /\ \A k \in 1..Len(results) : /\ payload'[k].call = results[k].call
                                                  /\ payload'[k].id = results[k].id
                                                  /\ payload'[k].content = out.served[k]
  <1> DEFINE out == ProcessBatch(store, results, preset)
  <1>1. lastCall \in Nat /\ results \in Seq(AnyResult) /\ preset.total \in Nat
    BY MoreResults, SessionBounds DEF DataTyped, RestTyped
  <1>2. Handed(out, store, results, preset, Len(results)) /\ Fits(out, results, preset)
    BY <1>1, BatchHands
  <1>3. store' = out.store /\ payload' = Shown(results, out.served)
    BY Zenon DEF BuildPayload, Shown
  <1>. HIDE DEF out
  <1>4. StoreUpTo(out.store, lastCall) /\ \A k \in 1..Len(results) : out.served[k] \in ContentUpTo(lastCall)
    BY <1>1, <1>2, HandedTypes DEF DataTyped
  <1>5. /\ payload' \in Seq(ResultUpTo(lastCall)) /\ Len(payload') = Len(results)
        /\ \A k \in 1..Len(results) : /\ payload'[k].call = results[k].call
                                      /\ payload'[k].id = results[k].id
                                      /\ payload'[k].content = out.served[k]
    BY <1>1, <1>3, <1>4, ShownTypes DEF DataTyped
  <1>. QED
    BY <1>2, <1>3, <1>4, <1>5

\* What clearing old results leaves.
LEMMA MicrocompactGives ==
    ASSUME DataTyped, Microcompact
    PROVE  /\ results' \in Seq(ResultUpTo(lastCall)) /\ Len(results') = Len(results)
           /\ \A k \in 1..Len(results) : /\ results'[k].call = results[k].call
                                         /\ results'[k].id = results[k].id
                                         /\ results'[k].content \in {results[k].content, Cleared}
  <1>1. PICK S \in SUBSET (1..(Len(results) - KeepMicro)) \ {{}} :
           results' = [k \in DOMAIN results |->
                          IF k \in S THEN [results[k] EXCEPT !.content = Cleared] ELSE results[k]]
    BY Zenon DEF Microcompact
  <1> DEFINE served == [k \in DOMAIN results |-> IF k \in S THEN Cleared ELSE results[k].content]
  <1>2. lastCall \in Nat /\ results \in Seq(ResultUpTo(lastCall)) /\ DOMAIN results = 1..Len(results)
    BY LenProperties DEF DataTyped
  <1>3. ASSUME NEW k \in DOMAIN results
        PROVE  /\ [results[k] EXCEPT !.content = results[k].content] = results[k]
               /\ served[k] \in ContentUpTo(lastCall)
               /\ served[k] \in {results[k].content, Cleared}
    <2>1. results[k] \in ResultUpTo(lastCall)
      BY <1>2, <1>3
    <2>2. Cleared \in ContentUpTo(lastCall)
      BY <1>2 DEF Cleared, ContentUpTo
    <2>. QED
      BY <1>2, <2>1, <2>2, ResultParts
  <1>4. results' = Shown(results, served)
    BY <1>1, <1>3 DEF Shown
  <1>. HIDE DEF served
  <1>. QED
    BY <1>2, <1>3, <1>4, ShownTypes

LEMMA DataStep == BatchTyped /\ DataTyped /\ RestTyped /\ [Next]_vars => DataTyped'
  <1> SUFFICES ASSUME BatchTyped, DataTyped, RestTyped, [Next]_vars PROVE DataTyped'
    OBVIOUS
  <1>1. CASE UNCHANGED <<results, lastCall, store, payload, slot>>
    BY <1>1 DEF DataTyped
  <1>2. CASE Microcompact
    <2>1. results' \in Seq(ResultUpTo(lastCall))
      BY <1>2, MicrocompactGives
    <2>. QED
      BY <1>2, <2>1 DEF Microcompact, DataTyped
  <1>3. CASE BuildPayload
    <2>1. StoreUpTo(store', lastCall) /\ payload' \in Seq(ResultUpTo(lastCall))
      BY <1>3, PayloadGives
    <2>. QED
      BY <1>3, <2>1 DEF BuildPayload, transcript, DataTyped
  <1>4. CASE RunBatch
    <2>1. lastCall' \in 0..MaxCalls /\ lastCall <= lastCall'
      BY <1>4, RunBatchGives
    <2>2. PICK new, more : RanBatch(new, more)
      BY <1>4, RunBatchGives
    <2>3. lastCall \in Nat /\ lastCall' \in Nat
      BY <2>1 DEF DataTyped
    <2>4. Seq(ResultUpTo(lastCall)) \subseteq Seq(ResultUpTo(lastCall'))
      BY <2>1, <2>3, MoreResults
    <2>5. results' \in Seq(ResultUpTo(lastCall'))
      BY <2>2, <2>4, ConcatProperties DEF RanBatch, DataTyped
    <2>6. UNCHANGED <<payload, slot>>
      BY <1>4 DEF RunBatch
    <2>. QED
      BY <2>1, <2>2, <2>4, <2>5, <2>6 DEF RanBatch, DataTyped
  <1>5. CASE Save
    BY <1>5 DEF Save, transcript, DataTyped
  <1>6. CASE Load
    BY <1>6 DEF Load, DataTyped
  <1>7. CASE Resume
    <2>1. results' = slot /\ slot # Unsaved /\ payload' = <<>> /\ UNCHANGED <<lastCall, slot>>
      BY <1>7 DEF Resume
    <2>2. store' = [store EXCEPT !.decided = <<>>]
      BY <1>7 DEF Resume
    <2>3. store' = [decided |-> <<>>, disk |-> store.disk]
      BY <2>2 DEF DataTyped, StoreUpTo, IsStore
    <2>4. StoreUpTo(store', lastCall)
      BY <2>3 DEF DataTyped, StoreUpTo, IsStore, Filed
    <2>. QED
      BY <2>1, <2>4, EmptySeq DEF DataTyped
  <1>8. [Next]_vars => \/ UNCHANGED <<results, lastCall, store, payload, slot>>
                       \/ Microcompact \/ BuildPayload \/ RunBatch \/ Save \/ Load \/ Resume
    BY DEF Next, vars, transcript, UserInput, RecallNothing, RecallSelects, RecallFallsBack, RecallInterrupted,
         Answer, Breaks
  <1>. QED
    BY <1>1, <1>2, <1>3, <1>4, <1>5, <1>6, <1>7, <1>8

-----------------------------------------------------------------------------
(* Types, and what is run *)

\* After a step a run has calls to run only if it had them before or just got them.
LEMMA CallsOnlyFromAnswer ==
    ASSUME [Next]_vars
    PROVE  \/ Answer
           \/ pc' # "run" /\ (batch' = batch \/ batch' = <<>>)
           \/ UNCHANGED <<pc, batch, asked, lastCall>>
  BY DEF Next, vars, transcript, answer, Goto, UserInput, RecallNothing, RecallSelects, RecallFallsBack,
         RecallInterrupted, Microcompact, BuildPayload, RunBatch, Breaks, Save, Load, Resume

\* An answer is batch and what was meant with it, or ends the run.
LEMMA AnswerGives ==
    ASSUME Answer, lastCall \in Nat
    PROVE  /\ lastCall' = lastCall
           /\ \/ pc' = "idle" /\ UNCHANGED <<batch, asked>>
              \/ /\ pc' = "run" /\ batch' \in Seq(Call) /\ lastCall + Len(batch') <= MaxCalls
                 /\ AsSent(batch', asked')
  <1>1. PICK a \in Answers :
          /\ lastCall + Len(a.response.calls) <= MaxCalls
          /\ IF a.response.calls = <<>> THEN Goto("idle") /\ UNCHANGED answer
             ELSE Goto("run") /\ batch' = a.response.calls
                  /\ asked' = [sent |-> a.sent, sound |-> a.sound, cut |-> a.cut]
    BY Zenon DEF Answer
  <1>2. /\ a.response.calls \in Seq(Call)
        /\ a.response.calls # <<>> =>
             AsSent(a.response.calls, [sent |-> a.sent, sound |-> a.sound, cut |-> a.cut])
    BY AnswersRead
  <1>3. lastCall' = lastCall
    BY DEF Answer, transcript
  <1>4. CASE a.response.calls = <<>>
    BY <1>1, <1>3, <1>4 DEF Goto, answer
  <1>5. CASE a.response.calls # <<>>
    <2>1. /\ pc' = "run" /\ batch' = a.response.calls
          /\ asked' = [sent |-> a.sent, sound |-> a.sound, cut |-> a.cut]
      BY <1>1, <1>5 DEF Goto
    <2>2. batch' \in Seq(Call) /\ lastCall + Len(batch') <= MaxCalls
      BY <1>1, <1>2, <2>1
    <2>3. AsSent(batch', asked')
      BY <1>2, <1>5, <2>1, Zenon
    <2>. QED
      BY <1>3, <2>1, <2>2, <2>3
  <1>. QED
    BY <1>4, <1>5

LEMMA BatchStep == BatchTyped /\ DataTyped /\ [Next]_vars => BatchTyped'
  <1> SUFFICES ASSUME BatchTyped, DataTyped, [Next]_vars PROVE BatchTyped'
    OBVIOUS
  <1>1. lastCall \in Nat
    BY DEF DataTyped
  <1>2. CASE Answer
    <2>1. /\ lastCall' = lastCall
          /\ \/ pc' = "idle" /\ UNCHANGED <<batch, asked>>
             \/ pc' = "run" /\ batch' \in Seq(Call) /\ lastCall + Len(batch') <= MaxCalls
      BY <1>1, <1>2, AnswerGives
    <2>. QED
      BY <2>1 DEF BatchTyped
  <1>3. CASE pc' # "run" /\ (batch' = batch \/ batch' = <<>>)
    BY <1>3, EmptySeq DEF BatchTyped
  <1>4. CASE UNCHANGED <<pc, batch, asked, lastCall>>
    BY <1>4 DEF BatchTyped
  <1>. QED
    BY <1>2, <1>3, <1>4, CallsOnlyFromAnswer

\* What surfacing memories leaves.
LEMMA SurfaceTypes ==
    ASSUME RestTyped, pc = "recall", NEW names, NEW places, Surface(names, places),
           \A k \in places : names[k] \in Memories
    PROVE  surfaced' \subseteq Memories /\ recalled' \in [Memories -> SUBSET (1..MaxInputs)]
  <1>1. surfaced' \subseteq Memories
    BY DEF Surface, RestTyped
  <1>2. inputs \in 1..MaxInputs
    BY DEF RestTyped
  <1>3. recalled' = [m \in Memories |->
                       recalled[m] \cup (IF \E k \in places : names[k] = m THEN {inputs} ELSE {})]
    BY DEF Surface
  <1>4. ASSUME NEW m \in Memories
        PROVE  recalled[m] \cup (IF \E k \in places : names[k] = m THEN {inputs} ELSE {})
                  \in SUBSET (1..MaxInputs)
    BY <1>2 DEF RestTyped
  <1>. QED
    BY <1>1, <1>3, <1>4

LEMMA RestStep == RestTyped /\ [Next]_vars => RestTyped'
  <1> SUFFICES ASSUME RestTyped, [Next]_vars PROVE RestTyped'
    OBVIOUS
  <1>1. CASE UserInput
    <2>1. inputs' \in 0..MaxInputs /\ inputs' > 0
      BY <1>1, SessionBounds DEF UserInput, RestTyped
    <2>. QED
      BY <1>1, <2>1 DEF UserInput, Goto, recall, RestTyped
  <1>2. CASE RecallSelects
    <2>1. PICK headers \in (SUBSET Memories) \ {{}}, names \in BoundedSeq(Memories \cup {Unknown}, MaxNamed) :
             Attach(names, Selected(names, headers, surfaced))
      BY <1>2 DEF RecallSelects
    <2>2. \A k \in Selected(names, headers, surfaced) : names[k] \in Memories
      BY CutIsPart DEF Selected
    <2>3. pc = "recall"
      BY <1>2 DEF RecallSelects
    <2>4. surfaced' \subseteq Memories /\ recalled' \in [Memories -> SUBSET (1..MaxInputs)]
      BY <2>1, <2>2, <2>3, SurfaceTypes DEF Attach
    <2>5. pc' = "ask" /\ UNCHANGED <<preset, inputs, resumed>>
      BY <1>2 DEF RecallSelects, Goto
    <2>. QED
      BY <2>4, <2>5 DEF RestTyped
  <1>3. CASE RecallFallsBack
    <2>1. PICK headers \in (SUBSET Memories) \ {{}}, ranking \in SetToSeqs(Memories) :
             Attach(ranking, Fallback(ranking, headers, surfaced))
      BY <1>3 DEF RecallFallsBack
    <2>2. \A k \in Fallback(ranking, headers, surfaced) : ranking[k] \in Memories
      BY CutIsPart DEF Fallback
    <2>3. pc = "recall"
      BY <1>3 DEF RecallFallsBack
    <2>4. surfaced' \subseteq Memories /\ recalled' \in [Memories -> SUBSET (1..MaxInputs)]
      BY <2>1, <2>2, <2>3, SurfaceTypes DEF Attach
    <2>5. pc' = "ask" /\ UNCHANGED <<preset, inputs, resumed>>
      BY <1>3 DEF RecallFallsBack, Goto
    <2>. QED
      BY <2>4, <2>5 DEF RestTyped
  <1>4. CASE Resume
    <2>1. preset' \in Presets /\ pc = "idle" /\ UNCHANGED <<pc, inputs>> /\ resumed' = TRUE
      BY <1>4 DEF Resume
    <2>2. surfaced' = {} /\ recalled' = [m \in Memories |-> {}]
      BY <1>4 DEF Resume
    <2>. QED
      BY <2>1, <2>2 DEF RestTyped
  <1>5. CASE /\ pc' \in {"idle", "ask", "build", "call", "run"} \/ pc' = pc
             /\ UNCHANGED <<preset, recall, inputs, resumed>>
    BY <1>5 DEF recall, RestTyped
  <1>6. Answer => pc' \in {"idle", "run"} /\ UNCHANGED <<preset, recall, inputs, resumed>>
    BY DEF Answer, Goto
  <1>7. CASE RecallInterrupted
    <2>1. PICK names, some :
             /\ Surface(names, some)
             /\ \A k \in some : names[k] \in Memories /\ names[k] \notin surfaced
      BY <1>7, BegunIsFresh
    <2>2. pc = "recall" /\ pc' = "idle" /\ UNCHANGED <<preset, inputs, resumed>>
      BY <1>7 DEF RecallInterrupted, Goto
    <2>3. surfaced' \subseteq Memories /\ recalled' \in [Memories -> SUBSET (1..MaxInputs)]
      BY <2>1, <2>2, SurfaceTypes
    <2>. QED
      BY <2>2, <2>3 DEF RestTyped
  <1>8. [Next]_vars => \/ UserInput \/ RecallSelects \/ RecallFallsBack \/ RecallInterrupted
                       \/ Resume
                       \/ /\ pc' \in {"idle", "ask", "build", "call", "run"} \/ pc' = pc
                          /\ UNCHANGED <<preset, recall, inputs, resumed>>
    BY <1>6 DEF Next, vars, Goto, RecallNothing, Microcompact, BuildPayload, RunBatch, Breaks, Save, Load
  <1>. QED
    BY <1>1, <1>2, <1>3, <1>4, <1>5, <1>7, <1>8

LEMMA TypeInit == Init => TypeInv
  <1> SUFFICES ASSUME Init PROVE TypeInv
    OBVIOUS
  <1>1. BatchTyped
    BY EmptySeq DEF Init, BatchTyped
  <1>2. DataTyped
    <2>1. DOMAIN <<>> = {}
      OBVIOUS
    <2>. QED
      BY <2>1, EmptySeq, SessionBounds DEF Init, DataTyped, StoreUpTo, Filed, IsStore, Empty
  <1>3. RestTyped
    <2>1. 0 \in 0..MaxInputs
      BY SessionBounds
    <2>2. [m \in Memories |-> {}] \in [Memories -> SUBSET (1..MaxInputs)]
      OBVIOUS
    <2>. QED
      BY <2>1, <2>2 DEF Init, RestTyped
  <1>. QED
    BY <1>1, <1>2, <1>3 DEF TypeInv

LEMMA TypeStep == TypeInv /\ [Next]_vars => TypeInv'
  BY BatchStep, DataStep, RestStep DEF TypeInv

LEMMA TypesHold == Spec => []TypeInv
  BY TypeInit, TypeStep, PTL DEF Spec

LEMMA TypeInvTypes == TypeInv /\ BytesInv => TypeOK
  <1> SUFFICES ASSUME TypeInv, BytesInv PROVE TypeOK
    OBVIOUS
  <1>1. BatchTyped /\ DataTyped /\ RestTyped
    BY DEF TypeInv
  <1>2. Result = ResultUpTo(lastCall) /\ Content = ContentUpTo(lastCall) /\ CallIds = 0..lastCall
    BY DEF Result, Content, CallIds, ResultUpTo, ContentUpTo
  <1>3. /\ lastCall \in 0..MaxCalls /\ results \in Seq(Result) /\ payload \in Seq(Result)
        /\ slot = Unsaved \/ slot \in Seq(Result)
    BY <1>1, <1>2 DEF DataTyped
  <1>4. \A part \in {store.decided, store.disk} :
           DOMAIN part \subseteq CallIds /\ \A i \in DOMAIN part : part[i] \in Content
    BY <1>1, <1>2 DEF DataTyped, StoreUpTo, Filed
  <1>5. \A k \in DOMAIN batch : batch[k].id \in {Own, Reused}
    <2>1. batch \in Seq(Call) /\ \A k \in DOMAIN batch : batch[k] \in Call
      BY <1>1 DEF BatchTyped
    <2>. QED
      BY <2>1 DEF Call
  <1>6. bytes \in Nat
    BY DEF BytesInv
  <1>. QED
    BY <1>1, <1>3, <1>4, <1>5, <1>6 DEF RestTyped, TypeOK

\* Every variable has its type in every reachable state: the calls are numbered up to
\* lastCall, and every result, decision and file is of a call there was.
THEOREM TypeCorrect == Spec => []TypeOK
  <1>1. Init => BytesInv
    BY Room DEF Init, BytesInv, RecallBounded
  <1>. QED
    BY TypesHold, BytesInductive, TypeInvTypes, <1>1, PTL DEF Spec

\* The calls that are run are those the service made, in their order and each with its
\* own arguments, for every answer: any number of calls and fragments in any order,
\* with or without indices and ids, and cut anywhere.
THEOREM RunsAsSent == Spec => []RunsWhatWasSent
  <1>1. RunsWhatWasSent <=> (pc = "run" => AsSent(batch, asked))
    BY Zenon DEF RunsWhatWasSent, AsSent
  <1>2. Init => RunsWhatWasSent
    BY DEF Init, RunsWhatWasSent
  <1>3. TypeInv /\ RunsWhatWasSent /\ [Next]_vars => RunsWhatWasSent'
    <2> SUFFICES ASSUME TypeInv, RunsWhatWasSent, [Next]_vars PROVE RunsWhatWasSent'
      OBVIOUS
    <2>1. lastCall \in Nat
      BY DEF TypeInv, DataTyped
    <2>2. RunsWhatWasSent' <=> (pc' = "run" => AsSent(batch', asked'))
      BY Zenon DEF RunsWhatWasSent, AsSent
    <2>3. CASE Answer
      <3>1. pc' = "run" => AsSent(batch', asked')
        BY <2>1, <2>3, AnswerGives
      <3>. QED
        BY <2>2, <3>1
    <2>4. CASE pc' # "run"
      BY <2>2, <2>4
    <2>5. CASE UNCHANGED <<pc, batch, asked, lastCall>>
      BY <2>5 DEF RunsWhatWasSent
    <2>. QED
      BY <2>3, <2>4, <2>5, CallsOnlyFromAnswer
  <1>. QED
    BY TypesHold, <1>2, <1>3, PTL DEF Spec

-----------------------------------------------------------------------------
(* Results, payloads and decisions *)

\* A result that has its id to itself is of its own call, or cleared.
OwnContents(seq) ==
    \A k \in 1..Len(seq) : seq[k].id # Shared =>
        seq[k].id = seq[k].call /\ seq[k].content.of \in {seq[k].call, 0}

Rising(seq) == \A k, l \in 1..Len(seq) : k < l => seq[k].call < seq[l].call

\* A result of the same call has the same id.
SameIds(seq, other) ==
    \A k \in 1..Len(seq), l \in 1..Len(other) :
        seq[k].call = other[l].call => seq[k].id = other[l].id

Saved == IF slot = Unsaved THEN <<>> ELSE slot

\* What the process has of results.
Kept == {results, payload, Saved}

\* The decisions are pointers, those on an id of one call pointers to that call's result.
DecisionsOwn(s) ==
    \A i \in DOMAIN s.decided :
        s.decided[i].wraps > 0 /\ (i # Shared => s.decided[i].of \in {i, 0})

\* Every pointer there is to see was decided on, and the file has what it points to.
Pointing(seq, s) ==
    \A k \in 1..Len(seq) : seq[k].content.wraps > 0 =>
        seq[k].id \in DOMAIN s.decided /\ seq[k].content = s.decided[seq[k].id]

FilesMatch(s) ==
    \A i \in DOMAIN s.decided :
        i \in DOMAIN s.disk /\ s.disk[i].wraps = 0 /\ s.disk[i].of = s.decided[i].of

Sound(seq) == OwnContents(seq) /\ Rising(seq)

DataInv ==
    /\ \A seq \in Kept : Sound(seq)
    /\ \A seq, other \in Kept : SameIds(seq, other)
    /\ DecisionsOwn(store)
    /\ ~resumed => FilesMatch(store) /\ \A seq \in Kept : Pointing(seq, store)

LEMMA KeptTypes ==
    ASSUME DataTyped
    PROVE  \A seq \in Kept : seq \in Seq(ResultUpTo(lastCall))
  BY EmptySeq DEF DataTyped, Kept, Saved

LEMMA NothingIsSound ==
    /\ Sound(<<>>) /\ \A s : Pointing(<<>>, s)
    /\ \A seq : SameIds(<<>>, seq) /\ SameIds(seq, <<>>)
  <1>1. 1..Len(<<>>) = {}
    OBVIOUS
  <1>. QED
    BY <1>1 DEF Sound, OwnContents, Rising, Pointing, SameIds

LEMMA RisingSameIds ==
    ASSUME NEW c \in Nat, NEW seq \in Seq(ResultUpTo(c)), Rising(seq)
    PROVE  \A k, l \in 1..Len(seq) : seq[k].call = seq[l].call => k = l
  <1>1. \A k \in 1..Len(seq) : seq[k].call \in Nat /\ k \in Nat
    <2>1. \A k \in 1..Len(seq) : seq[k] \in ResultUpTo(c)
      BY ElementOfSeq
    <2>2. \A r \in ResultUpTo(c) : r.call \in Nat
      BY ResultParts
    <2>. QED
      BY <2>1, <2>2
  <1>. QED
    BY <1>1 DEF Rising

\* A store that has decided more on results that were as they should be.
LEMMA ExtendsKeeps ==
    ASSUME NEW s, NEW t, NEW c \in Nat, NEW rs \in Seq(ResultUpTo(c)), Extends(t, s, rs),
           DecisionsOwn(s), OwnContents(rs)
    PROVE  /\ DecisionsOwn(t)
           /\ \A seq : Pointing(seq, s) => Pointing(seq, t)
           /\ Pointing(rs, s) /\ FilesMatch(s) => FilesMatch(t)
  <1>1. \A k \in 1..Len(rs) : rs[k].content.wraps \in Nat /\ rs[k].id \in Nat
    <2>1. \A k \in 1..Len(rs) : rs[k].content \in ContentUpTo(c) /\ rs[k].id \in 0..c
      BY ResultParts, ElementOfSeq
    <2>2. \A x \in ContentUpTo(c) : x.wraps \in Nat
      BY DEF ContentUpTo
    <2>. QED
      BY <2>1, <2>2
  <1>2. ASSUME NEW i \in DOMAIN t.decided
        PROVE  t.decided[i].wraps > 0 /\ (i # Shared => t.decided[i].of \in {i, 0})
    <2>1. CASE i \in DOMAIN s.decided
      BY <2>1 DEF Extends, DecisionsOwn
    <2>2. CASE i \notin DOMAIN s.decided
      <3>1. PICK k \in 1..Len(rs) : rs[k].id = i /\ t.decided[i] = Pointer(rs[k].content)
        BY <2>2 DEF Extends
      <3>2. t.decided[i].wraps = rs[k].content.wraps + 1 /\ t.decided[i].of = rs[k].content.of
        BY <3>1 DEF Pointer
      <3>3. t.decided[i].wraps > 0
        BY <1>1, <3>2
      <3>4. i # Shared => rs[k].content.of \in {i, 0}
        BY <3>1 DEF OwnContents
      <3>. QED
        BY <3>2, <3>3, <3>4
    <2>. QED
      BY <2>1, <2>2
  <1>3. \A seq : Pointing(seq, s) => Pointing(seq, t)
    BY DEF Pointing, Extends
  <1>4. ASSUME Pointing(rs, s), FilesMatch(s), NEW i \in DOMAIN t.decided
        PROVE  i \in DOMAIN t.disk /\ t.disk[i].wraps = 0 /\ t.disk[i].of = t.decided[i].of
    <2>1. CASE i \in DOMAIN s.decided
      <3>1. i \in DOMAIN s.disk /\ s.disk[i].wraps = 0 /\ s.disk[i].of = s.decided[i].of
        BY <1>4, <2>1 DEF FilesMatch
      <3>2. i \in DOMAIN t.disk /\ t.disk[i] = s.disk[i] /\ t.decided[i] = s.decided[i]
        BY <2>1, <3>1 DEF Extends
      <3>. QED
        BY <3>1, <3>2
    <2>2. CASE i \notin DOMAIN s.decided
      <3>1. PICK k \in 1..Len(rs) : /\ rs[k].id = i /\ t.decided[i] = Pointer(rs[k].content)
                                    /\ i \in DOMAIN t.disk /\ t.disk[i] = rs[k].content
        BY <2>2 DEF Extends
      <3>2. ~(rs[k].content.wraps > 0)
        BY <1>4, <2>2, <3>1 DEF Pointing
      <3>3. rs[k].content.wraps = 0
        BY <1>1, <3>2
      <3>4. t.decided[i].of = rs[k].content.of
        BY <3>1 DEF Pointer
      <3>. QED
        BY <3>1, <3>3, <3>4
    <2>. QED
      BY <2>1, <2>2
  <1>. QED
    BY <1>2, <1>3, <1>4 DEF DecisionsOwn, FilesMatch

\* Results seq that show of each of rs its content or what was decided on its id.
LEMMA ShownIsSound ==
    ASSUME NEW rs, NEW seq, NEW s, Len(seq) = Len(rs), Sound(rs), DecisionsOwn(s),
           \A k \in 1..Len(rs) :
              /\ seq[k].call = rs[k].call /\ seq[k].id = rs[k].id
              /\ \/ seq[k].content \in {rs[k].content, Cleared}
                 \/ rs[k].id \in DOMAIN s.decided /\ seq[k].content = s.decided[rs[k].id]
    PROVE  /\ Sound(seq)
           /\ \A other : /\ SameIds(rs, other) => SameIds(seq, other)
                         /\ SameIds(other, rs) => SameIds(other, seq)
           /\ Pointing(rs, s) => Pointing(seq, s)
  <1>1. OwnContents(seq)
    <2> SUFFICES ASSUME NEW k \in 1..Len(rs), rs[k].id # Shared
                 PROVE  seq[k].id = seq[k].call /\ seq[k].content.of \in {seq[k].call, 0}
      BY DEF OwnContents
    <2>1. rs[k].id = rs[k].call /\ rs[k].content.of \in {rs[k].call, 0}
      BY DEF Sound, OwnContents
    <2>2. CASE seq[k].content \in {rs[k].content, Cleared}
      BY <2>1, <2>2 DEF Cleared
    <2>3. CASE rs[k].id \in DOMAIN s.decided /\ seq[k].content = s.decided[rs[k].id]
      BY <2>1, <2>3 DEF DecisionsOwn
    <2>. QED
      BY <2>2, <2>3
  <1>2. Rising(seq)
    BY DEF Sound, Rising
  <1>3. \A other : /\ SameIds(rs, other) => SameIds(seq, other)
                   /\ SameIds(other, rs) => SameIds(other, seq)
    BY DEF SameIds
  <1>4. ASSUME Pointing(rs, s), NEW k \in 1..Len(seq), seq[k].content.wraps > 0
        PROVE  seq[k].id \in DOMAIN s.decided /\ seq[k].content = s.decided[seq[k].id]
    <2>1. CASE seq[k].content = rs[k].content
      BY <1>4, <2>1 DEF Pointing
    <2>2. CASE seq[k].content = Cleared
      BY <1>4, <2>2 DEF Cleared
    <2>3. CASE rs[k].id \in DOMAIN s.decided /\ seq[k].content = s.decided[rs[k].id]
      BY <2>3
    <2>. QED
      BY <2>1, <2>2, <2>3
  <1>. QED
    BY <1>1, <1>2, <1>3, <1>4 DEF Sound, Pointing

\* What the process has becomes what it had and one sequence more.
LEMMA KeepsOneMore ==
    ASSUME DataInv, NEW new, Kept' \subseteq Kept \cup {new},
           Sound(new), SameIds(new, new),
           \A seq \in Kept : SameIds(new, seq) /\ SameIds(seq, new),
           DecisionsOwn(store'),
           ~resumed' => /\ FilesMatch(store') /\ Pointing(new, store')
                        /\ \A seq \in Kept : Pointing(seq, store')
    PROVE  DataInv'
  <1>1. \A seq \in Kept' : Sound(seq)
    BY DEF DataInv
  <1>2. \A seq, other \in Kept' : SameIds(seq, other)
    BY DEF DataInv
  <1>3. ~resumed' => FilesMatch(store') /\ \A seq \in Kept' : Pointing(seq, store')
    OBVIOUS
  <1>4. DataInv' <=> /\ \A seq \in Kept' : Sound(seq)
                     /\ \A seq, other \in Kept' : SameIds(seq, other)
                     /\ DecisionsOwn(store')
                     /\ ~resumed' => FilesMatch(store') /\ \A seq \in Kept' : Pointing(seq, store')
    BY Zenon DEF DataInv, Sound, OwnContents, Rising, SameIds, DecisionsOwn, FilesMatch, Pointing
  <1>. QED
    BY <1>1, <1>2, <1>3, <1>4

\* The same with nothing decided in between.
LEMMA KeepsWhatWas ==
    ASSUME DataInv, Kept' \subseteq Kept \cup {<<>>}, UNCHANGED store, resumed' => resumed,
           resumed => resumed'
    PROVE  DataInv'
  <1>1. /\ Sound(<<>>) /\ SameIds(<<>>, <<>>) /\ Pointing(<<>>, store')
        /\ \A seq \in Kept : SameIds(<<>>, seq) /\ SameIds(seq, <<>>)
    BY NothingIsSound
  <1>2. DecisionsOwn(store')
    <2>1. DecisionsOwn(store)
      BY DEF DataInv
    <2>. QED
      BY <2>1
  <1>3. ~resumed' => FilesMatch(store') /\ \A seq \in Kept : Pointing(seq, store')
    <2>1. ~resumed => FilesMatch(store) /\ \A seq \in Kept : Pointing(seq, store)
      BY DEF DataInv
    <2>. QED
      BY <2>1
  <1> DEFINE none == <<>>
  <1>. HIDE DEF none
  <1>4. /\ Kept' \subseteq Kept \cup {none}
        /\ Sound(none) /\ SameIds(none, none) /\ Pointing(none, store')
        /\ \A seq \in Kept : SameIds(none, seq) /\ SameIds(seq, none)
    BY <1>1 DEF none
  <1>. QED
    BY <1>2, <1>3, <1>4, KeepsOneMore, Zenon

LEMMA MicrocompactKeeps == TypeInv /\ DataInv /\ Microcompact => DataInv'
  <1> SUFFICES ASSUME TypeInv, DataInv, Microcompact PROVE DataInv'
    OBVIOUS
  <1>1. DataTyped /\ lastCall \in Nat
    BY DEF TypeInv, DataTyped
  <1>2. UNCHANGED <<payload, slot, store, resumed>>
    BY DEF Microcompact
  <1>3. /\ results' \in Seq(ResultUpTo(lastCall)) /\ Len(results') = Len(results)
        /\ \A k \in 1..Len(results) : /\ results'[k].call = results[k].call
                                      /\ results'[k].id = results[k].id
                                      /\ results'[k].content \in {results[k].content, Cleared}
    BY <1>1, MicrocompactGives
  <1>4. results \in Kept /\ Sound(results) /\ DecisionsOwn(store)
    BY DEF DataInv, Kept
  <1> DEFINE new == results'
  <1>5. Kept' \subseteq Kept \cup {new}
    BY <1>2 DEF Kept, Saved
  <1>. HIDE DEF new
  <1>6. /\ Sound(new)
        /\ \A other : /\ SameIds(results, other) => SameIds(new, other)
                      /\ SameIds(other, results) => SameIds(other, new)
        /\ Pointing(results, store) => Pointing(new, store)
    BY <1>3, <1>4, ShownIsSound DEF new
  <1>7. \A seq \in Kept : SameIds(new, seq) /\ SameIds(seq, new)
    BY <1>4, <1>6 DEF DataInv
  <1>8. SameIds(new, new)
    BY <1>4, <1>6, <1>7
  <1>9. ~resumed => /\ FilesMatch(store) /\ Pointing(new, store)
                    /\ \A seq \in Kept : Pointing(seq, store)
    BY <1>4, <1>6 DEF DataInv
  <1>10. /\ DecisionsOwn(store')
         /\ ~resumed' => /\ FilesMatch(store') /\ Pointing(new, store')
                         /\ \A seq \in Kept : Pointing(seq, store')
    BY <1>2, <1>4, <1>9
  <1>. QED
    <2>1. Sound(new)
      BY <1>6
    <2>. QED
      BY <1>5, <1>7, <1>8, <1>10, <2>1, KeepsOneMore, Zenon

LEMMA PayloadKeeps == TypeInv /\ DataInv /\ BuildPayload => DataInv'
  <1> SUFFICES ASSUME TypeInv, DataInv, BuildPayload PROVE DataInv'
    OBVIOUS
  <1>1. DataTyped /\ RestTyped /\ lastCall \in Nat /\ results \in Seq(ResultUpTo(lastCall))
    BY DEF TypeInv, DataTyped
  <1>2. UNCHANGED <<results, slot, resumed>>
    BY DEF BuildPayload, transcript
  <1>3. PICK out : /\ Handed(out, store, results, preset, Len(results))
                   /\ store' = out.store
                   /\ Len(payload') = Len(results)
                   /\ \A k \in 1..Len(results) : /\ payload'[k].call = results[k].call
                                                 /\ payload'[k].id = results[k].id
                                                 /\ payload'[k].content = out.served[k]
    BY <1>1, PayloadGives
  <1> DEFINE new == payload'
  <1>4. Kept' \subseteq Kept \cup {new}
    BY <1>2 DEF Kept, Saved
  <1>5. results \in Kept /\ Sound(results) /\ OwnContents(results) /\ DecisionsOwn(store)
    BY DEF DataInv, Kept, Sound
  <1>6. Extends(store', store, results)
    BY <1>3 DEF Handed
  <1>7. /\ DecisionsOwn(store')
        /\ \A seq : Pointing(seq, store) => Pointing(seq, store')
        /\ Pointing(results, store) /\ FilesMatch(store) => FilesMatch(store')
    BY <1>1, <1>5, <1>6, ExtendsKeeps
  <1>8. ASSUME NEW k \in 1..Len(results)
        PROVE  \/ payload'[k].content \in {results[k].content, Cleared}
               \/ /\ results[k].id \in DOMAIN store'.decided
                  /\ payload'[k].content = store'.decided[results[k].id]
    <2>1. CASE k \in out.inline
      BY <1>3, <2>1 DEF Handed
    <2>2. CASE k \notin out.inline
      BY <1>3, <2>2 DEF Handed
    <2>. QED
      BY <2>1, <2>2
  <1>. HIDE DEF new
  <1>9. /\ Sound(new)
        /\ \A other : /\ SameIds(results, other) => SameIds(new, other)
                      /\ SameIds(other, results) => SameIds(other, new)
        /\ Pointing(results, store') => Pointing(new, store')
    BY <1>3, <1>5, <1>7, <1>8, ShownIsSound DEF new
  <1>10. \A seq \in Kept : SameIds(new, seq) /\ SameIds(seq, new)
    BY <1>5, <1>9 DEF DataInv
  <1>11. SameIds(new, new)
    BY <1>5, <1>9, <1>10
  <1>12. ~resumed' => /\ FilesMatch(store') /\ Pointing(new, store')
                      /\ \A seq \in Kept : Pointing(seq, store')
    <2>1. ~resumed => FilesMatch(store) /\ \A seq \in Kept : Pointing(seq, store)
      BY DEF DataInv
    <2>. QED
      BY <1>2, <1>5, <1>7, <1>9, <2>1
  <1>. QED
    <2>1. Sound(new) /\ DecisionsOwn(store')
      BY <1>7, <1>9
    <2>. QED
      BY <1>4, <1>10, <1>11, <1>12, <2>1, KeepsOneMore, Zenon

\* The results of a batch have calls and ids no other results have.
LEMMA BatchKeeps == TypeInv /\ DataInv /\ RunBatch => DataInv'
  <1> SUFFICES ASSUME TypeInv, DataInv, RunBatch PROVE DataInv'
    OBVIOUS
  <1>1. DataTyped /\ BatchTyped /\ lastCall \in Nat /\ results \in Seq(ResultUpTo(lastCall))
    BY DEF TypeInv, DataTyped
  <1>2. UNCHANGED <<payload, slot, resumed>>
    BY DEF RunBatch
  <1>3. lastCall' \in Nat /\ lastCall <= lastCall' /\ Len(batch) \in Nat
    BY <1>1, RunBatchGives, LenProperties DEF BatchTyped
  <1>4. PICK ran, more : RanBatch(ran, more)
    BY <1>1, RunBatchGives
  <1> DEFINE c == lastCall
             d == lastCall'
             n == Len(results)
             m == Len(batch)
             new == results \o more
  <1>5. n \in Nat /\ m \in Nat /\ c \in Nat /\ d \in Nat /\ c <= d
    BY <1>1, <1>3, LenProperties
  <1>6. /\ ran \in Seq(ResultUpTo(d)) /\ more \in Seq(ResultUpTo(d))
        /\ Len(ran) = m /\ Len(more) = m /\ results' = new
        /\ Extends(store', store, ran)
        /\ \A k \in 1..m :
              /\ ran[k].call = c + k /\ ran[k].id \in {c + k, Shared}
              /\ ran[k].content.of = c + k /\ ran[k].content.wraps = 0
              /\ more[k].call = ran[k].call /\ more[k].id = ran[k].id
              /\ \/ more[k].content = ran[k].content
                 \/ /\ ran[k].id \in DOMAIN store'.decided
                    /\ more[k].content = store'.decided[ran[k].id]
    BY <1>4, Zenon DEF RanBatch
  <1>7. Seq(ResultUpTo(c)) \subseteq Seq(ResultUpTo(d))
    BY <1>5, MoreResults
  <1>8. Kept' \subseteq Kept \cup {new}
    BY <1>2, <1>6 DEF Kept, Saved
  <1>9. results \in Seq(ResultUpTo(d)) /\ results \in Kept
    BY <1>1, <1>7 DEF Kept
  <1>10. /\ new \in Seq(ResultUpTo(d)) /\ Len(new) = n + m
         /\ \A k \in 1..(n + m) : new[k] = IF k <= n THEN results[k] ELSE more[k - n]
    <2>1. Len(results) = n /\ Len(more) = m
      BY <1>6
    <2> DEFINE R == ResultUpTo(d)
    <2>2. results \in Seq(R) /\ more \in Seq(R)
      BY <1>6, <1>9
    <2>. HIDE DEF R, n, m
    <2>3. /\ results \o more \in Seq(R) /\ Len(results \o more) = n + m
          /\ \A k \in 1..(n + m) : (results \o more)[k] = IF k <= n THEN results[k] ELSE more[k - n]
      BY <2>1, <2>2, ConcatProperties
    <2>. QED
      BY <2>3 DEF R
  <1>11. \A seq \in Kept : \A k \in 1..Len(seq) : seq[k].call \in Nat /\ seq[k].call <= c
    <2>1. \A r \in ResultUpTo(c) : r.call \in Nat /\ r.call <= c
      BY <1>5, ResultParts
    <2>2. \A seq \in Kept : seq \in Seq(ResultUpTo(c))
      BY <1>1, KeptTypes
    <2>3. \A seq \in Seq(ResultUpTo(c)) : \A k \in 1..Len(seq) : seq[k] \in ResultUpTo(c)
      BY ElementOfSeq
    <2>. QED
      BY <2>1, <2>2, <2>3
  <1>12. Sound(results) /\ DecisionsOwn(store) /\ \A seq \in Kept : SameIds(seq, results) /\ SameIds(results, seq)
    BY <1>9 DEF DataInv
  <1>. HIDE DEF c, d, n, m, new
  <1>13. OwnContents(ran) /\ Pointing(ran, store)
    BY <1>6 DEF OwnContents, Pointing
  <1>14. /\ DecisionsOwn(store')
         /\ \A seq : Pointing(seq, store) => Pointing(seq, store')
         /\ Pointing(ran, store) /\ FilesMatch(store) => FilesMatch(store')
    BY <1>5, <1>6, <1>12, <1>13, ExtendsKeeps
  <1>15. ASSUME NEW k \in 1..(n + m)
         PROVE  \/ k \in 1..n /\ new[k] = results[k]
                \/ k > n /\ k - n \in 1..m /\ new[k] = more[k - n]
    BY <1>5, <1>10
  <1>16. OwnContents(new)
    <2> SUFFICES ASSUME NEW k \in 1..(n + m), new[k].id # Shared
                 PROVE  new[k].id = new[k].call /\ new[k].content.of \in {new[k].call, 0}
      BY <1>10 DEF OwnContents
    <2>1. CASE k \in 1..n /\ new[k] = results[k]
      BY <1>12, <2>1 DEF Sound, OwnContents, n
    <2>2. CASE k - n \in 1..m /\ new[k] = more[k - n]
      <3>1. PICK j \in 1..m : new[k] = more[j]
        BY <2>2
      <3>2. more[j].id = c + j /\ more[j].call = c + j
        BY <1>6, <3>1
      <3>3. more[j].content.of \in {c + j, 0}
        <4>1. CASE more[j].content = ran[j].content
          BY <1>6, <4>1
        <4>2. CASE /\ ran[j].id \in DOMAIN store'.decided
                   /\ more[j].content = store'.decided[ran[j].id]
          <5>1. ran[j].id = c + j /\ ran[j].id # Shared
            BY <1>6, <3>1, <3>2
          <5>. QED
            BY <1>14, <4>2, <5>1 DEF DecisionsOwn
        <4>. QED
          BY <1>6, <4>1, <4>2
      <3>. QED
        BY <3>1, <3>2, <3>3
    <2>. QED
      BY <1>15, <2>1, <2>2
  <1>17. \A k \in 1..m : more[k].call = c + k
    BY <1>6
  <1>18. \A k \in 1..n : results[k].call \in Nat /\ results[k].call <= c
    BY <1>9, <1>11 DEF n
  <1>19. Rising(new)
    <2> SUFFICES ASSUME NEW k \in 1..(n + m), NEW l \in 1..(n + m), k < l
                 PROVE  new[k].call < new[l].call
      BY <1>10 DEF Rising
    <2>1. CASE l \in 1..n /\ new[l] = results[l]
      <3>1. k \in 1..n /\ new[k] = results[k]
        BY <1>5, <1>15, <2>1
      <3>2. results[k].call < results[l].call
        BY <1>12, <2>1, <3>1 DEF Sound, Rising, n
      <3>. QED
        BY <2>1, <3>1, <3>2
    <2>2. CASE l > n /\ l - n \in 1..m /\ new[l] = more[l - n]
      <3>1. new[l].call = c + (l - n)
        BY <1>17, <2>2
      <3>2. CASE k \in 1..n /\ new[k] = results[k]
        BY <1>5, <1>18, <2>2, <3>1, <3>2
      <3>3. CASE k > n /\ k - n \in 1..m /\ new[k] = more[k - n]
        <4>1. new[k].call = c + (k - n)
          BY <1>17, <3>3
        <4>. QED
          BY <1>5, <3>1, <4>1
      <3>. QED
        BY <1>15, <3>2, <3>3
    <2>. QED
      BY <1>15, <2>1, <2>2
  <1>20. SameIds(new, new)
    <2>1. \A k, l \in 1..Len(new) : new[k].call = new[l].call => k = l
      BY <1>5, <1>10, <1>19, RisingSameIds
    <2>. QED
      BY <2>1 DEF SameIds
  <1>21. ASSUME NEW seq \in Kept PROVE SameIds(new, seq) /\ SameIds(seq, new)
    <2>1. ASSUME NEW k \in 1..(n + m), NEW l \in 1..Len(seq), new[k].call = seq[l].call
          PROVE  new[k].id = seq[l].id
      <3>1. CASE k \in 1..n /\ new[k] = results[k]
        BY <1>12, <2>1, <3>1 DEF SameIds, n
      <3>2. CASE k > n /\ k - n \in 1..m /\ new[k] = more[k - n]
        <4>1. new[k].call = c + (k - n)
          BY <1>17, <3>2
        <4>2. seq[l].call \in Nat /\ seq[l].call <= c
          BY <1>11
        <4>. QED
          BY <1>5, <2>1, <3>2, <4>1, <4>2
      <3>. QED
        BY <1>15, <3>1, <3>2
    <2>. QED
      BY <1>10, <2>1 DEF SameIds
  <1>22. ~resumed' => /\ FilesMatch(store') /\ Pointing(new, store')
                      /\ \A seq \in Kept : Pointing(seq, store')
    <2> SUFFICES ASSUME ~resumed'
                 PROVE  /\ FilesMatch(store') /\ Pointing(new, store')
                        /\ \A seq \in Kept : Pointing(seq, store')
      OBVIOUS
    <2>1. FilesMatch(store) /\ \A seq \in Kept : Pointing(seq, store)
      BY <1>2 DEF DataInv
    <2>2. FilesMatch(store') /\ \A seq \in Kept : Pointing(seq, store')
      BY <1>13, <1>14, <2>1
    <2>3. ASSUME NEW k \in 1..(n + m), new[k].content.wraps > 0
          PROVE  new[k].id \in DOMAIN store'.decided /\ new[k].content = store'.decided[new[k].id]
      <3>1. CASE k \in 1..n /\ new[k] = results[k]
        BY <1>9, <2>2, <2>3, <3>1 DEF Pointing, n
      <3>2. CASE k - n \in 1..m /\ new[k] = more[k - n]
        <4>1. PICK j \in 1..m : new[k] = more[j]
          BY <3>2
        <4>2. ran[j].content.wraps = 0 /\ more[j].id = ran[j].id
          BY <1>6
        <4>3. more[j].content # ran[j].content
          BY <2>3, <4>1, <4>2
        <4>. QED
          BY <1>6, <4>1, <4>2, <4>3
      <3>. QED
        BY <1>15, <3>1, <3>2
    <2>. QED
      BY <1>10, <2>2, <2>3 DEF Pointing
  <1>. QED
    <2>1. Sound(new) /\ DecisionsOwn(store')
      BY <1>14, <1>16, <1>19 DEF Sound
    <2>. QED
      BY <1>8, <1>20, <1>21, <1>22, <2>1, KeepsOneMore, Zenon

LEMMA DataInvInit == Init => DataInv
  <1> SUFFICES ASSUME Init PROVE DataInv
    OBVIOUS
  <1>1. \A seq \in Kept : seq = <<>>
    BY DEF Init, Kept, Saved
  <1>2. DOMAIN store.decided = {}
    BY DEF Init, Empty
  <1>3. DecisionsOwn(store) /\ FilesMatch(store)
    BY <1>2 DEF DecisionsOwn, FilesMatch
  <1>. QED
    BY <1>1, <1>3, NothingIsSound DEF DataInv

LEMMA DataInvStep == TypeInv /\ DataInv /\ [Next]_vars => DataInv'
  <1> SUFFICES ASSUME TypeInv, DataInv, [Next]_vars PROVE DataInv'
    OBVIOUS
  <1>1. CASE UNCHANGED <<results, payload, slot, store, resumed>>
    <2>1. Kept' = Kept
      BY <1>1 DEF Kept, Saved
    <2>. QED
      BY <1>1, <2>1, KeepsWhatWas
  <1>2. CASE Save
    <2>1. Kept' \subseteq Kept \cup {<<>>} /\ UNCHANGED <<store, resumed>>
      BY <1>2 DEF Save, transcript, Kept, Saved
    <2>. QED
      BY <2>1, KeepsWhatWas
  <1>3. CASE Load
    <2>1. Kept' \subseteq Kept \cup {<<>>} /\ UNCHANGED <<store, resumed>>
      BY <1>3 DEF Load, Kept, Saved
    <2>. QED
      BY <2>1, KeepsWhatWas
  <1>4. CASE Resume
    <2> DEFINE none == <<>>
    <2>1. Kept' \subseteq Kept \cup {none}
      BY <1>4 DEF Resume, Kept, Saved
    <2>2. store' = [store EXCEPT !.decided = <<>>] /\ resumed' = TRUE
      BY <1>4 DEF Resume
    <2>3. IsStore(store)
      BY DEF TypeInv, DataTyped, StoreUpTo
    <2>4. store' = [decided |-> <<>>, disk |-> store.disk]
      BY <2>2, <2>3 DEF IsStore
    <2>5. DecisionsOwn(store')
      BY <2>4 DEF DecisionsOwn
    <2>6. /\ Sound(none) /\ SameIds(none, none)
          /\ \A seq \in Kept : SameIds(none, seq) /\ SameIds(seq, none)
      BY NothingIsSound
    <2>. HIDE DEF none
    <2>. QED
      BY <2>1, <2>2, <2>5, <2>6, KeepsOneMore
  <1>5. [Next]_vars => \/ UNCHANGED <<results, payload, slot, store, resumed>>
                       \/ Microcompact \/ BuildPayload \/ RunBatch \/ Save \/ Load \/ Resume
    BY DEF Next, vars, transcript, UserInput, RecallNothing, RecallSelects, RecallFallsBack, RecallInterrupted,
         Answer, Breaks
  <1>. QED
    BY <1>1, <1>2, <1>3, <1>4, <1>5, MicrocompactKeeps, PayloadKeeps, BatchKeeps

LEMMA DataInvHolds == Spec => []DataInv
  BY TypesHold, DataInvInit, DataInvStep, PTL DEF Spec


\* No payload or transcript shows the output of another call for a result that has its
\* id to itself, for every number of results, limits and outputs.
THEOREM ShownAreOwn == Spec => []ShowsOwnResult
  <1>1. TypeInv /\ DataInv => ShowsOwnResult
    <2> SUFFICES ASSUME TypeInv, DataInv PROVE ShowsOwnResult
      OBVIOUS
    <2>1. payload \in Seq(ResultUpTo(lastCall)) /\ DOMAIN payload = 1..Len(payload)
      BY LenProperties DEF TypeInv, DataTyped
    <2>2. OwnContents(payload)
      BY DEF DataInv, Kept, Sound
    <2>. QED
      BY <2>1, <2>2 DEF OwnContents, ShowsOwnResult
  <1>. QED
    BY TypesHold, DataInvHolds, <1>1, PTL

\* A file that a pointer names keeps the full result, in the process that wrote it.
THEOREM FilesAreKept == Spec => []FilesKeepResults
  <1>1. TypeInv /\ DataInv => FilesKeepResults
    <2> SUFFICES ASSUME TypeInv, DataInv, ~resumed, NEW k \in DOMAIN payload,
                        payload[k].content.wraps > 0
                 PROVE  /\ payload[k].id \in DOMAIN store.disk
                        /\ store.disk[payload[k].id].wraps = 0
                        /\ store.disk[payload[k].id].of = payload[k].content.of
      BY DEF FilesKeepResults
    <2>1. payload \in Seq(ResultUpTo(lastCall)) /\ DOMAIN payload = 1..Len(payload)
      BY LenProperties DEF TypeInv, DataTyped
    <2>2. Pointing(payload, store) /\ FilesMatch(store)
      BY DEF DataInv, Kept
    <2>3. /\ payload[k].id \in DOMAIN store.decided
          /\ payload[k].content = store.decided[payload[k].id]
      BY <2>1, <2>2 DEF Pointing
    <2>. QED
      BY <2>2, <2>3 DEF FilesMatch
  <1>. QED
    BY TypesHold, DataInvHolds, <1>1, PTL

\* What a process has shown as a pointer it shows as that pointer ever after.
THEOREM ServesStably == Spec => ServedStably
  <1> DEFINE Stable ==
        resumed' = resumed =>
          \A k \in DOMAIN payload, l \in DOMAIN payload' :
             (payload[k].call = payload'[l].call /\ IsPointer(payload[k]))
                => payload'[l].content = payload[k].content
  <1>1. TypeInv /\ DataInv /\ [Next]_vars => Stable
    <2> SUFFICES ASSUME TypeInv, DataInv, [Next]_vars, resumed' = resumed,
                        NEW k \in DOMAIN payload, NEW l \in DOMAIN payload',
                        payload[k].call = payload'[l].call, IsPointer(payload[k])
                 PROVE  payload'[l].content = payload[k].content
      OBVIOUS
    <2>1. DataTyped /\ RestTyped /\ lastCall \in Nat
      BY DEF TypeInv, DataTyped
    <2>2. payload \in Seq(ResultUpTo(lastCall)) /\ DOMAIN payload = 1..Len(payload)
      BY LenProperties DEF TypeInv, DataTyped
    <2>3. Rising(payload) /\ SameIds(payload, results)
      BY DEF DataInv, Kept, Sound
    <2>4. CASE payload' = payload
      <3>1. k = l
        BY <2>1, <2>2, <2>3, <2>4, RisingSameIds
      <3>. QED
        BY <2>4, <3>1
    <2>5. CASE BuildPayload
      <3>1. PICK out : /\ Handed(out, store, results, preset, Len(results))
                       /\ store' = out.store
                       /\ payload' \in Seq(ResultUpTo(lastCall)) /\ Len(payload') = Len(results)
                       /\ \A i \in 1..Len(results) : /\ payload'[i].call = results[i].call
                                                     /\ payload'[i].id = results[i].id
                                                     /\ payload'[i].content = out.served[i]
        BY <2>1, <2>5, PayloadGives
      <3>2. l \in 1..Len(results)
        BY <3>1, LenProperties
      <3>3. results[l].id = payload[k].id
        BY <2>2, <2>3, <3>1, <3>2 DEF SameIds
      <3>4. results[l].id \in DOMAIN store.decided /\ payload[k].content = store.decided[results[l].id]
        BY <3>3 DEF IsPointer
      <3>5. l \notin out.inline
        BY <3>1, <3>4 DEF Handed
      <3>6. payload'[l].content = out.store.decided[results[l].id]
        BY <3>1, <3>2, <3>5 DEF Handed
      <3>7. out.store.decided[results[l].id] = store.decided[results[l].id]
        BY <3>1, <3>4 DEF Handed, Extends
      <3>. QED
        BY <3>4, <3>6, <3>7
    <2>6. CASE Resume
      BY <2>6 DEF Resume
    <2>7. [Next]_vars => payload' = payload \/ BuildPayload \/ Resume
      BY DEF Next, vars, UserInput, RecallNothing, RecallSelects, RecallFallsBack, RecallInterrupted,
             Microcompact, Answer, RunBatch, Breaks, Save, Load
    <2>. QED
      BY <2>4, <2>5, <2>6, <2>7
  <1>2. TypeInv /\ DataInv /\ [Next]_vars => [Stable]_vars
    BY <1>1
  <1>3. ServedStably <=> [][Stable]_vars
    BY DEF ServedStably
  <1>. QED
    BY TypesHold, DataInvHolds, <1>2, <1>3, PTL DEF Spec

\* Payloads stay within the limits per result and in total, for all limits.
THEOREM PayloadsFit == Spec => []PayloadWithinLimits
  <1>1. Init => PayloadWithinLimits
    BY DEF Init, PayloadWithinLimits
  <1>2. TypeInv /\ DataInv /\ DataInv' /\ PayloadWithinLimits /\ [Next]_vars => PayloadWithinLimits'
    <2> SUFFICES ASSUME TypeInv, DataInv, DataInv', PayloadWithinLimits, [Next]_vars
                 PROVE  PayloadWithinLimits'
      OBVIOUS
    <2>1. DataTyped /\ RestTyped /\ lastCall \in Nat /\ results \in Seq(ResultUpTo(lastCall))
      BY DEF TypeInv, DataTyped
    <2>2. CASE UNCHANGED <<pc, payload, preset>>
      BY <2>2 DEF PayloadWithinLimits, IsInline
    <2>3. CASE pc' # "call"
      BY <2>3 DEF PayloadWithinLimits
    <2>4. CASE BuildPayload
      <3>1. PICK out : /\ Handed(out, store, results, preset, Len(results))
                       /\ Fits(out, results, preset)
                       /\ store' = out.store
                       /\ payload' \in Seq(ResultUpTo(lastCall)) /\ Len(payload') = Len(results)
                       /\ \A i \in 1..Len(results) : /\ payload'[i].call = results[i].call
                                                     /\ payload'[i].id = results[i].id
                                                     /\ payload'[i].content = out.served[i]
        BY <2>1, <2>4, PayloadGives
      <3> DEFINE inline == {k \in DOMAIN payload' : IsInline(payload'[k])}
      <3>2. ASSUME NEW k \in 1..Len(results), k \in inline
            PROVE  /\ k \in out.inline /\ payload'[k].content = results[k].content
                   /\ payload'[k].content.size <= preset.inline
        <4>1. k \in out.inline
          <5> SUFFICES ASSUME k \notin out.inline PROVE FALSE
            OBVIOUS
          <5>1. /\ results[k].id \in DOMAIN store'.decided
                /\ payload'[k].content = store'.decided[results[k].id]
            BY <3>1 DEF Handed
          <5>2. payload'[k].content.wraps > 0
            BY <5>1 DEF DataInv, DecisionsOwn
          <5>3. payload'[k].content.wraps = 0
            BY <3>2 DEF IsInline
          <5>. QED
            BY <5>2, <5>3
        <4>. QED
          BY <3>1, <4>1 DEF Handed
      <3>3. DOMAIN payload' = 1..Len(results)
        BY <3>1, LenProperties
      <3>4. payload' \in Seq(AnyResult) /\ results \in Seq(AnyResult) /\ preset.total \in Nat
        BY <2>1, <3>1, MoreResults, SessionBounds DEF RestTyped
      <3>. HIDE DEF inline
      <3>5. /\ Total(payload', inline) \in Nat /\ Total(results, out.inline) \in Nat
            /\ Total(payload', inline) <= Total(results, out.inline)
        BY <3>1, <3>2, <3>4, TotalOfFewer
      <3>6. Total(payload', inline) <= preset.total
        BY <3>1, <3>4, <3>5 DEF Fits
      <3>7. \A k \in inline : payload'[k].content.size <= preset.inline
        BY <3>2, <3>3 DEF inline
      <3>8. preset' = preset
        BY <2>4 DEF BuildPayload
      <3>. QED
        BY <3>6, <3>7, <3>8 DEF PayloadWithinLimits, inline
    <2>5. [Next]_vars => UNCHANGED <<pc, payload, preset>> \/ pc' # "call" \/ BuildPayload
      BY DEF Next, vars, Goto, UserInput, RecallNothing, RecallSelects, RecallFallsBack, RecallInterrupted,
             Microcompact, Answer, RunBatch, Breaks, Save, Load, Resume
    <2>. QED
      BY <2>2, <2>3, <2>4, <2>5
  <1>. QED
    BY TypesHold, DataInvHolds, <1>1, <1>2, PTL DEF Spec
=============================================================================
