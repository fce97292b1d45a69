-------------------------- MODULE TranscriptProofs --------------------------
(****************************************************************************)
(* Facts about the operators of Transcript, for any transcript.  Induction  *)
(* is over sets of naturals: a set that has 0 and with each number the next *)
(* one has them all.                                                        *)
(****************************************************************************)
EXTENDS Transcript, WellFoundedInduction, SequenceTheorems, FiniteSetTheorems, TLAPS

-----------------------------------------------------------------------------
(* Induction and extrema *)

LEMMA LeastNumber ==
    ASSUME NEW T, T \subseteq Nat, T # {}
    PROVE  \E x \in T : \A y \in T : x <= y
<1>1. \E x \in T : \A y \in T : <<y, x>> \notin OpToRel(<, Nat)
      BY NatLessThanWellFounded, WFMin
<1>2. \E x \in T : \A y \in T : ~(y < x)
      BY <1>1 DEF OpToRel
<1>. QED
     BY <1>2

LEMMA SetInduction ==
    ASSUME NEW S, 0 \in S, \A n \in Nat : n \in S => n + 1 \in S
    PROVE  Nat \subseteq S
<1>. SUFFICES ASSUME Nat \ S # {} PROVE FALSE
     OBVIOUS
<1>1. PICK x \in Nat \ S : \A y \in Nat \ S : x <= y
      BY LeastNumber
<1>. QED
     BY <1>1

LEMMA MinIsLeast ==
    ASSUME NEW T, T \subseteq Nat, T # {}
    PROVE  Min(T) \in T /\ \A y \in T : Min(T) <= y
BY LeastNumber, Zenon DEF Min

LEMMA MaxIsGreatest ==
    ASSUME NEW n \in Nat, NEW T, T \subseteq 0..n, T # {}
    PROVE  Max(T) \in T /\ \A y \in T : Max(T) >= y
<1> DEFINE U == {m \in Nat : \E t \in T : m + t = n}
<1>1. \A t \in T : t \in 0..n /\ n - t \in Nat /\ (n - t) + t = n
      OBVIOUS
<1>2. U \subseteq Nat /\ U # {}
      BY <1>1
<1>. HIDE DEF U
<1>3. PICK x \in U : \A y \in U : x <= y
      BY <1>2, LeastNumber
<1>4. PICK t \in T : x + t = n
      BY DEF U
<1>5. ASSUME NEW y \in T PROVE t >= y
  <2>1. n - y \in U
        BY <1>1 DEF U
  <2>2. x <= n - y
        BY <1>3, <2>1
  <2>. QED
       BY <1>1, <1>2, <1>4, <2>2
<1>6. \A y \in T : t >= y
      BY <1>5
<1>. QED
     BY <1>6, Zenon DEF Max

-----------------------------------------------------------------------------
(* Positions and Pick *)

Grows(f, n, I) ==
    f = [k \in 0..n |->
            IF k = 0 THEN <<>> ELSE IF k \in I THEN Append(f[k - 1], k) ELSE f[k - 1]]

\* The recursion of Positions defines a function.
LEMMA GrowsExists == ASSUME NEW I, NEW n \in Nat PROVE \E f : Grows(f, n, I)
<1> DEFINE S == {m \in Nat : \E f : Grows(f, m, I)}
<1>1. 0 \in S
  <2> DEFINE f == [k \in 0..0 |-> <<>>]
  <2>1. Grows(f, 0, I)
        BY DEF Grows
  <2>. QED
       BY <2>1
<1>2. ASSUME NEW m \in Nat, m \in S PROVE m + 1 \in S
  <2>1. PICK f : Grows(f, m, I)
        BY <1>2
  <2> DEFINE g == [k \in 0..(m + 1) |->
                      IF k = m + 1 THEN (IF k \in I THEN Append(f[m], k) ELSE f[m]) ELSE f[k]]
  <2>2. \A k \in 0..m :
            f[k] = IF k = 0 THEN <<>> ELSE IF k \in I THEN Append(f[k - 1], k) ELSE f[k - 1]
        BY <2>1 DEF Grows
  <2>3. \A k \in 0..m : g[k] = f[k]
        OBVIOUS
  <2>4. g[m + 1] = IF m + 1 \in I THEN Append(f[m], m + 1) ELSE f[m]
        OBVIOUS
  <2>5. g = [k \in 0..(m + 1) |-> g[k]]
        OBVIOUS
  <2>6. \A k \in 0..(m + 1) :
            g[k] = IF k = 0 THEN <<>> ELSE IF k \in I THEN Append(g[k - 1], k) ELSE g[k - 1]
    <3> HIDE DEF g
    <3>. QED
         BY <2>2, <2>3, <2>4
  <2>7. Grows(g, m + 1, I)
    <3> HIDE DEF g
    <3>. QED
         BY <2>5, <2>6 DEF Grows
  <2>. QED
       BY <2>7
<1>. HIDE DEF S
<1>3. Nat \subseteq S
      BY <1>1, <1>2, SetInduction
<1>. QED
     BY <1>3 DEF S

\* f reaches Positions(n, I) one number at a time.
Reaches(f, n, I) ==
    /\ Positions(n, I) = f[n]
    /\ f[0] = <<>>
    /\ \A k \in 0..(n - 1) : f[k + 1] = IF k + 1 \in I THEN Append(f[k], k + 1) ELSE f[k]

LEMMA PositionsGrow == ASSUME NEW I, NEW n \in Nat PROVE \E f : Reaches(f, n, I)
<1> DEFINE f == CHOOSE f : Grows(f, n, I)
<1>1. Grows(f, n, I)
      BY GrowsExists
<1>2. Positions(n, I) = f[n]
      BY Zenon DEF Positions, Grows
<1>. HIDE DEF f
<1>3. \A k \in 0..n :
          f[k] = IF k = 0 THEN <<>> ELSE IF k \in I THEN Append(f[k - 1], k) ELSE f[k - 1]
      BY <1>1 DEF Grows
<1>4. \A k \in 0..(n - 1) : f[k + 1] = IF k + 1 \in I THEN Append(f[k], k + 1) ELSE f[k]
  <2> TAKE k \in 0..(n - 1)
  <2>1. k + 1 \in 0..n /\ k + 1 # 0 /\ (k + 1) - 1 = k
        OBVIOUS
  <2>. QED
       BY <1>3, <2>1
<1>5. Reaches(f, n, I)
      BY <1>2, <1>3, <1>4 DEF Reaches
<1>. QED
     BY <1>5

\* p has the numbers of I up to n, in their order.
Lists(p, n, I) ==
    /\ p \in Seq(1..n)
    /\ \A k \in 1..Len(p) : p[k] \in I
    /\ \A k, l \in 1..Len(p) : k < l => p[k] < p[l]
    /\ \A i \in I \cap (1..n) : \E k \in 1..Len(p) : p[k] = i

LEMMA ListsAppend ==
    ASSUME NEW I, NEW n \in Nat, NEW p, Lists(p, n, I), n + 1 \in I
    PROVE  Lists(Append(p, n + 1), n + 1, I)
<1> DEFINE q == Append(p, n + 1)
<1>1. p \in Seq(1..n) /\ p \in Seq(1..(n + 1))
      BY SeqMonotonic DEF Lists
<1>2. /\ q \in Seq(1..(n + 1)) /\ Len(q) = Len(p) + 1 /\ Len(p) \in Nat
      /\ \A k \in 1..Len(p) : q[k] = p[k]
      /\ q[Len(p) + 1] = n + 1
      BY <1>1, AppendProperties
<1>3. \A k \in 1..Len(p) : p[k] \in 1..n
      BY <1>1
<1>. HIDE DEF q
<1>4. \A k \in 1..Len(q) : k \in 1..Len(p) \/ k = Len(p) + 1
      BY <1>2
<1>5. \A k \in 1..Len(q) : q[k] \in I
      BY <1>2, <1>4 DEF Lists
<1>6. \A k, l \in 1..Len(q) : k < l => q[k] < q[l]
  <2> TAKE k, l \in 1..Len(q)
  <2> HAVE k < l
  <2>1. k \in 1..Len(p)
        BY <1>2
  <2>2. CASE l \in 1..Len(p)
        BY <1>2, <2>1, <2>2 DEF Lists
  <2>3. CASE l = Len(p) + 1
        BY <1>2, <1>3, <2>1, <2>3
  <2>. QED
       BY <1>4, <2>2, <2>3
<1>7. \A i \in I \cap (1..(n + 1)) : \E k \in 1..Len(q) : q[k] = i
  <2> TAKE i \in I \cap (1..(n + 1))
  <2>1. CASE i = n + 1
        BY <1>2, <2>1
  <2>2. CASE i # n + 1
    <3>1. i \in I \cap (1..n)
          BY <2>2
    <3>2. PICK k \in 1..Len(p) : p[k] = i
          BY <3>1 DEF Lists
    <3>. QED
         BY <1>2, <3>2
  <2>. QED
       BY <2>1, <2>2
<1>8. Lists(q, n + 1, I)
      BY <1>2, <1>5, <1>6, <1>7 DEF Lists
<1>. QED
     BY <1>8 DEF q

LEMMA ListsSkip ==
    ASSUME NEW I, NEW n \in Nat, NEW p, Lists(p, n, I), n + 1 \notin I
    PROVE  Lists(p, n + 1, I)
<1>1. p \in Seq(1..(n + 1))
      BY SeqMonotonic DEF Lists
<1>2. I \cap (1..(n + 1)) = I \cap (1..n)
      OBVIOUS
<1>. QED
     BY <1>1, <1>2 DEF Lists

\* Positions(n, I) lists the numbers of I up to n.
LEMMA PositionsList == ASSUME NEW I, NEW n \in Nat PROVE Lists(Positions(n, I), n, I)
<1>1. PICK f : Reaches(f, n, I)
      BY PositionsGrow
<1> DEFINE S == {m \in Nat : m <= n => Lists(f[m], m, I)}
<1>2. 0 \in S
  <2>1. Lists(<<>>, 0, I)
        BY DEF Lists
  <2>. QED
       BY <1>1, <2>1 DEF Reaches
<1>3. ASSUME NEW m \in Nat, m \in S PROVE m + 1 \in S
  <2> SUFFICES ASSUME m + 1 <= n PROVE Lists(f[m + 1], m + 1, I)
      OBVIOUS
  <2>1. Lists(f[m], m, I)
        BY <1>3
  <2>2. f[m + 1] = IF m + 1 \in I THEN Append(f[m], m + 1) ELSE f[m]
        BY <1>1 DEF Reaches
  <2>. QED
       BY <2>1, <2>2, ListsAppend, ListsSkip
<1>. HIDE DEF S
<1>4. Nat \subseteq S
      BY <1>2, <1>3, SetInduction
<1>. QED
     BY <1>1, <1>4 DEF S, Reaches

\* What Pick gives: f says where in s each of its elements comes from.
Picks(p, s, I, f) ==
    /\ Len(p) \in Nat /\ DOMAIN p = 1..Len(p)
    /\ f \in [1..Len(p) -> I \cap (1..Len(s))]
    /\ \A k \in 1..Len(p) : p[k] = s[f[k]]
    /\ \A k, l \in 1..Len(p) : k < l => f[k] < f[l]
    /\ \A i \in I \cap (1..Len(s)) : \E k \in 1..Len(p) : f[k] = i

\* Pick keeps the elements at the places of I, all of them and in their order.
LEMMA PickKeepsPlaces ==
    ASSUME NEW S, NEW s \in Seq(S), NEW I
    PROVE  /\ Pick(s, I) \in Seq(S)
           /\ \E f : Picks(Pick(s, I), s, I, f)
<1> DEFINE n == Len(s)
           f == Positions(n, I)
           p == Pick(s, I)
<1>1. n \in Nat /\ \A i \in 1..n : s[i] \in S
      OBVIOUS
<1>2. Lists(f, n, I)
      BY <1>1, PositionsList
<1>. HIDE DEF f
<1>3. Len(f) \in Nat /\ DOMAIN f = 1..Len(f) /\ \A k \in 1..Len(f) : f[k] \in 1..n
      BY <1>2 DEF Lists
<1>4. p = [k \in 1..Len(f) |-> s[f[k]]]
      BY <1>3, Zenon DEF Pick, f
<1>. HIDE DEF p
<1>5. p \in Seq(S) /\ Len(p) = Len(f)
  <2>1. p \in [1..Len(f) -> S]
        BY <1>1, <1>3, <1>4
  <2>. QED
       BY <1>3, <2>1
<1>6. Picks(p, s, I, f)
  <2>1. f = [k \in 1..Len(f) |-> f[k]]
        BY <1>2 DEF Lists
  <2>2. f \in [1..Len(p) -> I \cap (1..Len(s))]
        BY <1>2, <1>3, <1>5, <2>1 DEF Lists
  <2>. QED
       BY <1>2, <1>3, <1>4, <1>5, <2>2 DEF Picks, Lists
<1>. QED
     BY <1>5, <1>6 DEF p

-----------------------------------------------------------------------------
(* Compaction *)

LEMMA LastBoundaryIsLast ==
    ASSUME NEW S, NEW ms \in Seq(S)
    PROVE  /\ LastCompactBoundary(ms) \in 0..Len(ms)
           /\ LastCompactBoundary(ms) # 0 => ms[LastCompactBoundary(ms)].kind = "boundary"
           /\ \A k \in (LastCompactBoundary(ms) + 1)..Len(ms) : ms[k].kind # "boundary"
<1> DEFINE B == OfKind(ms, "boundary")
<1>1. Len(ms) \in Nat /\ DOMAIN ms = 1..Len(ms)
      OBVIOUS
<1>2. B \subseteq 0..Len(ms) /\ 0 \notin B
      BY <1>1 DEF OfKind
<1>3. CASE B = {}
      BY <1>1, <1>3 DEF LastCompactBoundary, OfKind
<1>4. CASE B # {}
  <2>1. Max(B) \in B /\ \A y \in B : Max(B) >= y
        BY <1>1, <1>2, <1>4, MaxIsGreatest
  <2>2. LastCompactBoundary(ms) = Max(B)
        BY <1>4 DEF LastCompactBoundary
  <2> DEFINE l == Max(B)
  <2>3. l \in 1..Len(ms) /\ ms[l].kind = "boundary"
        BY <1>1, <2>1 DEF OfKind
  <2>4. ASSUME NEW k \in (l + 1)..Len(ms) PROVE ms[k].kind # "boundary"
    <3>1. k \notin B
      <4>. HIDE DEF B
      <4>. QED
           BY <1>1, <2>1, <2>3
    <3>. QED
         BY <1>1, <2>3, <3>1 DEF OfKind
  <2>. QED
       BY <1>1, <2>2, <2>3, <2>4
<1>. QED
     BY <1>3, <1>4

\* The slice of a transcript starts at a place b, at a boundary unless it is the whole,
\* and has no boundary behind it.
Sliced(slice, ms, b) ==
    /\ b \in 1..(Len(ms) + 1) /\ Len(slice) = Len(ms) + 1 - b
    /\ b = 1 \/ (b <= Len(ms) /\ ms[b].kind = "boundary")
    /\ \A k \in 1..Len(slice) : slice[k] = ms[b + k - 1]
    /\ \A k \in (b + 1)..Len(ms) : ms[k].kind # "boundary"

LEMMA SliceShape ==
    ASSUME NEW S, NEW ms \in Seq(S)
    PROVE  /\ AfterCompactBoundary(ms) \in Seq(S)
           /\ \E b : Sliced(AfterCompactBoundary(ms), ms, b)
<1> DEFINE l == LastCompactBoundary(ms)
<1>1. /\ l \in 0..Len(ms) /\ (l # 0 => ms[l].kind = "boundary")
      /\ \A k \in (l + 1)..Len(ms) : ms[k].kind # "boundary"
      BY LastBoundaryIsLast
<1>2. Len(ms) \in Nat /\ \A i \in 1..Len(ms) : ms[i] \in S
      OBVIOUS
<1>. HIDE DEF l
<1>3. CASE l = 0
  <2>1. AfterCompactBoundary(ms) = ms
        BY <1>3 DEF AfterCompactBoundary, l
  <2>2. Sliced(ms, ms, 1)
        BY <1>1, <1>2, <1>3 DEF Sliced
  <2>. QED
       BY <2>1, <2>2
<1>4. CASE l # 0
  <2> DEFINE slice == SubSeq(ms, l, Len(ms))
  <2>1. AfterCompactBoundary(ms) = slice
        BY <1>4 DEF AfterCompactBoundary, l
  <2>2. l \in 1..Len(ms)
        BY <1>1, <1>4
  <2>3. /\ slice \in Seq(S) /\ Len(slice) = Len(ms) + 1 - l
        /\ \A k \in 1..Len(slice) : slice[k] = ms[l + k - 1]
    <3>1. \A i \in l..Len(ms) : ms[i] \in S
          BY <1>2, <2>2
    <3>. QED
         BY <1>2, <2>2, <3>1, SubSeqProperties
  <2>. HIDE DEF slice
  <2>4. Sliced(slice, ms, l)
        BY <1>1, <1>2, <2>2, <2>3 DEF Sliced
  <2>. QED
       BY <2>1, <2>3, <2>4
<1>. QED
     BY <1>3, <1>4

\* What a compaction makes of ms: behind ms the boundary u and copies of its last
\* messages, each d places further on; a boundary is at most the first of them.
Compacted(r, ms, u, d) ==
    /\ d \in 1..(Len(ms) + 1) /\ Len(r) = Len(ms) + d
    /\ \A i \in 1..Len(ms) : r[i] = ms[i]
    /\ r[Len(ms) + 1] = Boundary(u)
    /\ \A i \in (Len(ms) + 2)..(Len(ms) + d) : r[i] = ms[i - d]
    /\ \A k \in (Len(ms) + 3 - d)..Len(ms) : ms[k].kind # "boundary"

\* Two sequences with an element between them.
LEMMA Joined ==
    ASSUME NEW T, NEW s \in Seq(T), NEW t \in Seq(T), NEW x \in T,
           NEW r, r = s \o <<x>> \o t
    PROVE  /\ r \in Seq(T) /\ Len(r) = Len(s) + 1 + Len(t)
           /\ \A i \in 1..Len(s) : r[i] = s[i]
           /\ r[Len(s) + 1] = x
           /\ \A i \in 1..Len(t) : r[Len(s) + 1 + i] = t[i]
<1> DEFINE q == s \o <<x>>
<1>1. Len(s) \in Nat /\ Len(t) \in Nat /\ <<x>> \in Seq(T)
      OBVIOUS
<1>2. /\ q \in Seq(T) /\ Len(q) = Len(s) + 1
      /\ \A i \in 1..Len(s) : q[i] = s[i]
      /\ q[Len(s) + 1] = x
      BY <1>1, ConcatProperties
<1>3. r = q \o t
      OBVIOUS
<1>. HIDE DEF q
<1>4. /\ r \in Seq(T) /\ Len(r) = Len(q) + Len(t)
      /\ \A i \in 1..(Len(q) + Len(t)) : r[i] = IF i <= Len(q) THEN q[i] ELSE t[i - Len(q)]
  <2>1. \A a, b \in Seq(T) : /\ a \o b \in Seq(T) /\ Len(a \o b) = Len(a) + Len(b)
                            /\ \A i \in 1..(Len(a) + Len(b)) :
                                  (a \o b)[i] = IF i <= Len(a) THEN a[i] ELSE b[i - Len(a)]
        BY ConcatProperties
  <2>. QED
       BY <1>2, <1>3, <2>1
<1>. QED
     BY <1>1, <1>2, <1>4, SMTT(30)

\* A compaction, whatever the number of messages it splits off.
LEMMA CompactShape ==
    ASSUME NEW S, NEW ms \in Seq(S), NEW u, NEW t \in Nat, t <= Len(AfterCompactBoundary(ms))
    PROVE  LET slice == AfterCompactBoundary(ms)
               r     == ms \o <<Boundary(u)>> \o SubSeq(slice, t + 1, Len(slice))
           IN  /\ \A T : S \subseteq T /\ Boundary(u) \in T => r \in Seq(T)
               /\ \E d : Compacted(r, ms, u, d) /\ d = Len(slice) + 1 - t
<1> DEFINE slice == AfterCompactBoundary(ms)
           kept  == SubSeq(slice, t + 1, Len(slice))
           r     == ms \o <<Boundary(u)>> \o kept
<1>0. t <= Len(slice)
      OBVIOUS
<1>1. PICK b : Sliced(slice, ms, b)
      BY SliceShape
<1>2. slice \in Seq(S) /\ Len(slice) \in Nat /\ Len(ms) \in Nat
      BY SliceShape, LenProperties
<1>. HIDE DEF slice
<1>3. /\ kept \in Seq(S) /\ Len(kept) = Len(slice) - t
      /\ \A i \in 1..Len(kept) : kept[i] = slice[t + i]
  <2>1. \A i \in (t + 1)..Len(slice) : slice[i] \in S
        BY <1>2
  <2>2. /\ kept \in Seq(S) /\ Len(kept) = IF t + 1 <= Len(slice) THEN Len(slice) - (t + 1) + 1 ELSE 0
        /\ \A i \in 1..(Len(slice) - (t + 1) + 1) : kept[i] = slice[t + 1 + i - 1]
        BY <1>0, <1>2, <2>1, SubSeqProperties
  <2>. HIDE DEF kept
  <2>. QED
       BY <1>0, <1>2, <2>2
<1>4. r = ms \o <<Boundary(u)>> \o kept
      OBVIOUS
<1>. HIDE DEF kept, r
<1>5. PICK c \in 1..(Len(ms) + 1) : c = b + t
      BY <1>0, <1>1, <1>2 DEF Sliced
<1>6. /\ Len(kept) = Len(ms) + 1 - c
      /\ \A i \in 1..Len(kept) : kept[i] = ms[c + i - 1]
  <2>1. b \in Nat /\ c = b + t /\ Len(slice) = Len(ms) + 1 - b
        BY <1>1, <1>2, <1>5 DEF Sliced
  <2>2. Len(kept) = Len(ms) + 1 - c
        BY <1>2, <1>3, <2>1
  <2>3. ASSUME NEW i \in 1..Len(kept) PROVE kept[i] = ms[c + i - 1]
    <3>1. t + i \in 1..Len(slice) /\ b + (t + i) - 1 = c + i - 1
          BY <1>2, <1>3, <2>1
    <3>2. kept[i] = slice[t + i] /\ slice[t + i] = ms[b + (t + i) - 1]
          BY <1>1, <1>3, <3>1, Zenon DEF Sliced
    <3>. QED
         BY <3>1, <3>2
  <2>. QED
       BY <2>2, <2>3
<1>7. \A k \in (c + 1)..Len(ms) : ms[k].kind # "boundary"
  <2> TAKE k \in (c + 1)..Len(ms)
  <2>1. k \in (b + 1)..Len(ms)
        BY <1>1, <1>2, <1>5 DEF Sliced
  <2>. QED
       BY <1>1, <2>1 DEF Sliced
<1>8. ASSUME NEW T, S \subseteq T, Boundary(u) \in T
      PROVE  /\ r \in Seq(T) /\ Len(r) = Len(ms) + 1 + Len(kept)
             /\ \A i \in 1..Len(ms) : r[i] = ms[i]
             /\ r[Len(ms) + 1] = Boundary(u)
             /\ \A i \in 1..Len(kept) : r[Len(ms) + 1 + i] = kept[i]
  <2>1. ms \in Seq(T) /\ kept \in Seq(T)
        BY <1>3, <1>8, SeqMonotonic
  <2>. QED
       BY <1>4, <1>8, <2>1, Joined
<1>9. PICK d \in 1..(Len(ms) + 1) : d = Len(ms) + 2 - c
      BY <1>2, <1>5
<1>10. Compacted(r, ms, u, d) /\ d = Len(slice) + 1 - t
  <2>1. /\ Len(r) = Len(ms) + 1 + Len(kept)
        /\ \A i \in 1..Len(ms) : r[i] = ms[i]
        /\ r[Len(ms) + 1] = Boundary(u)
        /\ \A i \in 1..Len(kept) : r[Len(ms) + 1 + i] = kept[i]
    <3>1. S \subseteq S \cup {Boundary(u)} /\ Boundary(u) \in S \cup {Boundary(u)}
          OBVIOUS
    <3>. QED
         BY <1>8, <3>1
  <2>2. Len(r) = Len(ms) + d
        BY <1>2, <1>5, <1>6, <1>9, <2>1, SMTT(30)
  <2>3. \A i \in (Len(ms) + 2)..(Len(ms) + d) : r[i] = ms[i - d]
    <3> TAKE i \in (Len(ms) + 2)..(Len(ms) + d)
    <3> DEFINE k == i - (Len(ms) + 1)
    <3>1. k \in Nat /\ k >= 1 /\ k <= d - 1 /\ i = Len(ms) + 1 + k
          BY <1>2
    <3>2. k \in 1..Len(kept)
          BY <1>2, <1>6, <1>9, <3>1
    <3>3. c + k - 1 = i - d
          BY <1>2, <1>9, <3>1
    <3>. HIDE DEF k
    <3>. QED
         BY <1>6, <2>1, <3>1, <3>2, <3>3
  <2>4. \A k \in (Len(ms) + 3 - d)..Len(ms) : ms[k].kind # "boundary"
    <3>1. Len(ms) + 3 - d = c + 1
          BY <1>2, <1>9
    <3>. QED
         BY <1>7, <3>1
  <2>5. d = Len(slice) + 1 - t
        BY <1>1, <1>2, <1>5, <1>9 DEF Sliced
  <2>. QED
       BY <2>1, <2>2, <2>3, <2>4, <2>5 DEF Compacted
<1>. QED
     BY <1>8, <1>10 DEF r, kept, slice

-----------------------------------------------------------------------------
(* Thinning *)

\* r is made of the elements of s at the places of K, in their order, with x between
\* two of them at most once: g says which place each element comes from, 0 for x.
Spliced(r, s, K, x, g) ==
    /\ Len(r) \in Nat /\ DOMAIN r = 1..Len(r)
    /\ g \in [1..Len(r) -> K \cup {0}]
    /\ \A k \in 1..Len(r) : r[k] = IF g[k] = 0 THEN x ELSE s[g[k]]
    /\ \A k, l \in 1..Len(r) : k < l /\ g[k] # 0 /\ g[l] # 0 => g[k] < g[l]
    /\ \A k, l \in 1..Len(r) : g[k] = 0 /\ g[l] = 0 => k = l
    /\ \A i \in K : \E k \in 1..Len(r) : g[k] = i

LEMMA SpliceMiddle ==
    ASSUME NEW T, NEW s \in Seq(T), NEW x \in T, NEW K, K \subseteq 1..Len(s),
           NEW A, NEW B, K = A \cup B, \A a \in A, b \in B : a < b
    PROVE  LET r == Pick(s, A) \o <<x>> \o Pick(s, B)
           IN  r \in Seq(T) /\ \E g : Spliced(r, s, K, x, g)
<1> DEFINE p == Pick(s, A)
           q == Pick(s, B)
           r == p \o <<x>> \o q
<1>1. Len(s) \in Nat
      OBVIOUS
<1>2. /\ p \in Seq(T) /\ (\E f : Picks(p, s, A, f))
      /\ q \in Seq(T) /\ (\E f : Picks(q, s, B, f))
      BY PickKeepsPlaces
<1>3. A \cap (1..Len(s)) = A /\ B \cap (1..Len(s)) = B
      OBVIOUS
<1>4. A \subseteq K /\ B \subseteq K /\ 0 \notin A /\ 0 \notin B
      BY <1>1
<1>. HIDE DEF p, q
<1>5. /\ r \in Seq(T) /\ Len(r) = Len(p) + 1 + Len(q)
      /\ \A i \in 1..Len(p) : r[i] = p[i]
      /\ r[Len(p) + 1] = x
      /\ \A i \in 1..Len(q) : r[Len(p) + 1 + i] = q[i]
      BY <1>2, Joined
<1>. HIDE DEF r
<1>6. PICK e : Picks(p, s, A, e)
      BY <1>2
<1>7. PICK f : Picks(q, s, B, f)
      BY <1>2
<1>8. Len(p) \in Nat /\ Len(q) \in Nat /\ Len(r) \in Nat /\ DOMAIN r = 1..Len(r)
      BY <1>2, <1>5
<1> DEFINE g == [k \in 1..Len(r) |->
                    IF k <= Len(p) THEN e[k]
                    ELSE IF k = Len(p) + 1 THEN 0 ELSE f[k - (Len(p) + 1)]]
<1>9. /\ \A k \in 1..Len(p) : g[k] = e[k] /\ g[k] \in A /\ r[k] = s[g[k]]
      /\ g[Len(p) + 1] = 0
      /\ \A k \in 1..Len(q) : /\ g[Len(p) + 1 + k] = f[k] /\ g[Len(p) + 1 + k] \in B
                              /\ r[Len(p) + 1 + k] = s[g[Len(p) + 1 + k]]
  <2>1. \A k \in 1..Len(p) : g[k] = e[k]
        BY <1>5, <1>8
  <2>2. g[Len(p) + 1] = 0
        BY <1>5, <1>8
  <2>3. \A k \in 1..Len(q) : g[Len(p) + 1 + k] = f[k]
    <3> TAKE k \in 1..Len(q)
    <3>1. Len(p) + 1 + k \in 1..Len(r) /\ ~(Len(p) + 1 + k <= Len(p)) /\ Len(p) + 1 + k # Len(p) + 1
          /\ (Len(p) + 1 + k) - (Len(p) + 1) = k
          BY <1>5, <1>8
    <3>. QED
         BY <3>1
  <2>. HIDE DEF g
  <2>4. \A k \in 1..Len(p) : g[k] \in A /\ r[k] = s[g[k]]
        BY <1>3, <1>5, <1>6, <2>1 DEF Picks
  <2>5. \A k \in 1..Len(q) : f[k] \in B /\ q[k] = s[f[k]]
        BY <1>3, <1>7 DEF Picks
  <2>. QED
       BY <1>5, <2>1, <2>2, <2>3, <2>4, <2>5
<1>10. g = [k \in 1..Len(r) |-> g[k]]
      OBVIOUS
<1>. HIDE DEF g
<1>11. \A k \in 1..Len(r) :
          k \in 1..Len(p) \/ k = Len(p) + 1 \/ \E l \in 1..Len(q) : k = Len(p) + 1 + l
  <2> TAKE k \in 1..Len(r)
  <2> SUFFICES ASSUME k > Len(p) + 1 PROVE \E l \in 1..Len(q) : k = Len(p) + 1 + l
      BY <1>8
  <2>1. k - (Len(p) + 1) \in 1..Len(q) /\ k = Len(p) + 1 + (k - (Len(p) + 1))
        BY <1>5, <1>8
  <2>. QED
       BY <2>1
<1>12. \A k \in 1..Len(r) : g[k] \in K \cup {0} /\ r[k] = IF g[k] = 0 THEN x ELSE s[g[k]]
  <2> TAKE k \in 1..Len(r)
  <2>1. CASE k \in 1..Len(p)
        BY <1>4, <1>9, <2>1
  <2>2. CASE k = Len(p) + 1
        BY <1>5, <1>9, <2>2
  <2>3. CASE \E l \in 1..Len(q) : k = Len(p) + 1 + l
    <3>1. PICK l \in 1..Len(q) : k = Len(p) + 1 + l
          BY <2>3
    <3>2. g[k] \in B /\ r[k] = s[g[k]]
          BY <1>9, <3>1
    <3>. QED
         BY <1>4, <3>2
  <2>. QED
       BY <1>11, <2>1, <2>2, <2>3
<1>13. \A k, l \in 1..Len(r) : g[k] = 0 /\ g[l] = 0 => k = l
  <2>1. \A k \in 1..Len(r) : g[k] = 0 => k = Len(p) + 1
    <3> TAKE k \in 1..Len(r)
    <3>1. k \in 1..Len(p) => g[k] # 0
          BY <1>4, <1>9
    <3>2. (\E l \in 1..Len(q) : k = Len(p) + 1 + l) => g[k] # 0
          BY <1>4, <1>9
    <3>. QED
         BY <1>11, <3>1, <3>2
  <2>. QED
       BY <2>1
<1>14. \A k, l \in 1..Len(r) : k < l /\ g[k] # 0 /\ g[l] # 0 => g[k] < g[l]
  <2> TAKE k, l \in 1..Len(r)
  <2> HAVE k < l /\ g[k] # 0 /\ g[l] # 0
  <2>1. CASE l \in 1..Len(p)
    <3>1. k \in 1..Len(p)
          BY <1>8, <2>1
    <3>. QED
         BY <1>6, <1>9, <2>1, <3>1 DEF Picks
  <2>2. CASE k \in 1..Len(p) /\ l \notin 1..Len(p)
        BY <1>3, <1>9, <1>11, <2>2
  <2>3. CASE k \notin 1..Len(p) /\ l \notin 1..Len(p)
    <3>1. PICK a \in 1..Len(q) : k = Len(p) + 1 + a
          BY <1>9, <1>11, <2>3
    <3>2. PICK b \in 1..Len(q) : l = Len(p) + 1 + b
          BY <1>9, <1>11, <2>3
    <3>3. a < b
          BY <1>8, <3>1, <3>2
    <3>. QED
         BY <1>7, <1>9, <3>1, <3>2, <3>3 DEF Picks
  <2>. QED
       BY <2>1, <2>2, <2>3
<1>15. \A i \in K : \E k \in 1..Len(r) : g[k] = i
  <2> TAKE i \in K
  <2>1. CASE i \in A
    <3>1. PICK k \in 1..Len(p) : e[k] = i
          BY <1>3, <1>6, <2>1 DEF Picks
    <3>. QED
         BY <1>5, <1>8, <1>9, <3>1, SMTT(30)
  <2>2. CASE i \in B
    <3>1. PICK k \in 1..Len(q) : f[k] = i
          BY <1>3, <1>7, <2>2 DEF Picks
    <3>2. Len(p) + 1 + k \in 1..Len(r)
          BY <1>5, <1>8
    <3>. QED
         BY <1>9, <3>1, <3>2
  <2>. QED
       BY <1>3, <2>1, <2>2
<1>16. Spliced(r, s, K, x, g)
  <2>1. g \in [1..Len(r) -> K \cup {0}]
        BY <1>10, <1>12
  <2>. QED
       BY <1>8, <1>12, <1>13, <1>14, <1>15, <2>1 DEF Spliced
<1>. QED
     BY <1>5, <1>16 DEF r, p, q

LEMMA SpliceAll ==
    ASSUME NEW T, NEW s \in Seq(T), NEW x
    PROVE  \E g : Spliced(s, s, 1..Len(s), x, g)
<1> DEFINE g == [k \in 1..Len(s) |-> k]
<1>1. Len(s) \in Nat /\ DOMAIN s = 1..Len(s)
      OBVIOUS
<1>2. Spliced(s, s, 1..Len(s), x, g)
      BY <1>1 DEF Spliced
<1>. QED
     BY <1>2

LEMMA SplicePick ==
    ASSUME NEW T, NEW s \in Seq(T), NEW K, K \subseteq 1..Len(s), NEW x
    PROVE  Pick(s, K) \in Seq(T) /\ \E g : Spliced(Pick(s, K), s, K, x, g)
<1> DEFINE p == Pick(s, K)
<1>1. p \in Seq(T) /\ \E f : Picks(p, s, K, f)
      BY PickKeepsPlaces
<1>. HIDE DEF p
<1>2. PICK g : Picks(p, s, K, g)
      BY <1>1
<1>3. K \cap (1..Len(s)) = K /\ 0 \notin K /\ Len(s) \in Nat
  <2>1. Len(s) \in Nat /\ \A i \in K : i \in 1..Len(s) /\ i # 0
        OBVIOUS
  <2>. QED
       BY <2>1
<1>4. Spliced(p, s, K, x, g)
      BY <1>2, <1>3 DEF Picks, Spliced
<1>. QED
     BY <1>1, <1>4 DEF p

\* What is picked last, and last but one, when the sequence's ends are.
LEMMA PickEnds ==
    ASSUME NEW S, NEW s \in Seq(S), NEW I, NEW p, NEW f, Picks(p, s, I, f), Len(s) \in I, Len(s) > 0
    PROVE  /\ Len(p) > 0 /\ p[Len(p)] = s[Len(s)]
           /\ Len(s) > 1 /\ Len(s) - 1 \in I => Len(p) > 1 /\ p[Len(p) - 1] = s[Len(s) - 1]
<1> DEFINE n == Len(s)
           m == Len(p)
<1>1. n \in Nat /\ m \in Nat /\ n > 0
      BY DEF Picks
<1>2. /\ \A k \in 1..m : f[k] \in 1..n /\ p[k] = s[f[k]]
      /\ \A k, l \in 1..m : k < l => f[k] < f[l]
      BY DEF Picks
<1>3. PICK k \in 1..m : f[k] = n
      BY <1>1 DEF Picks
<1>. HIDE DEF n, m
<1>4. k = m
  <2>1. ASSUME k < m PROVE FALSE
    <3>1. m \in 1..m /\ f[k] < f[m]
          BY <1>1, <1>2, <2>1
    <3>. QED
         BY <1>1, <1>2, <1>3, <3>1
  <2>. QED
       BY <1>1, <2>1
<1>5. m > 0 /\ p[m] = s[n]
      BY <1>1, <1>2, <1>3, <1>4
<1>6. ASSUME n > 1, n - 1 \in I PROVE m > 1 /\ p[m - 1] = s[n - 1]
  <2>1. n - 1 \in 1..n
        BY <1>1, <1>6
  <2>2. PICK l \in 1..m : f[l] = n - 1
        BY <1>6, <2>1 DEF Picks, n, m
  <2>3. l < m
        BY <1>1, <1>3, <1>4, <2>2
  <2>4. ASSUME l < m - 1 PROVE FALSE
    <3>1. m - 1 \in 1..m /\ m \in 1..m /\ l < m - 1 /\ m - 1 < m
          BY <1>1, <2>4
    <3>2. f[l] < f[m - 1] /\ f[m - 1] < f[m] /\ f[m - 1] \in Int
          BY <1>2, <3>1
    <3>. QED
         BY <1>1, <1>3, <1>4, <2>2, <3>2
  <2>5. l = m - 1
        BY <1>1, <2>3, <2>4
  <2>. QED
       BY <1>1, <1>2, <2>2, <2>5
<1>. QED
     BY <1>5, <1>6 DEF n, m
=============================================================================
