-------------------------- MODULE CompactionProofs --------------------------
(****************************************************************************)
(* Facts about the four ways a transcript shrinks, for any transcript, any  *)
(* tools and any quotas: what each keeps, where it puts it, and what it     *)
(* may not touch.                                                           *)
(****************************************************************************)
EXTENDS Compaction, TranscriptProofs

-----------------------------------------------------------------------------
(* Messages and their tool blocks *)

LEMMA MessageParts ==
    ASSUME NEW n, NEW m \in Message(n)
    PROVE  /\ m.id \in 1..n /\ m.kind \in Kinds
           /\ m.kind = "use" => m.items \in Seq(Calls) \ {<<>>}
           /\ m.kind = "result" => m.items \in Seq(Results) \ {<<>>}
           /\ m.kind \notin {"use", "result"} => m.items = <<>>
           /\ m.items \in Seq(Calls \cup Results)
           /\ m = [id |-> m.id, kind |-> m.kind, items |-> m.items]
<1>1. CASE m \in [id : 1..n, kind : {"use"}, items : Seq(Calls) \ {<<>>}]
  <2>1. m.items \in Seq(Calls \cup Results)
        BY <1>1, SeqMonotonic
  <2>. QED
       BY <1>1, <2>1 DEF Kinds
<1>2. CASE m \in [id : 1..n, kind : {"result"}, items : Seq(Results) \ {<<>>}]
  <2>1. m.items \in Seq(Calls \cup Results)
        BY <1>2, SeqMonotonic
  <2>. QED
       BY <1>2, <2>1 DEF Kinds
<1>3. CASE m \in [id : 1..n, kind : Kinds \ {"use", "result"}, items : {<<>>}]
  <2>1. m.items = <<>>
        BY <1>3
  <2>2. m.items \in Seq(Calls \cup Results)
        BY <2>1, EmptySeq
  <2>. QED
       BY <1>3, <2>1, <2>2 DEF Kinds
<1>. QED
     BY <1>1, <1>2, <1>3 DEF Message

\* The other way round.
LEMMA MakeMessage ==
    ASSUME NEW n, NEW u \in 1..n, NEW kind \in Kinds, NEW items,
           kind = "use" => items \in Seq(Calls) \ {<<>>},
           kind = "result" => items \in Seq(Results) \ {<<>>},
           kind \notin {"use", "result"} => items = <<>>
    PROVE  [id |-> u, kind |-> kind, items |-> items] \in Message(n)
<1>1. CASE kind = "use"
      BY <1>1 DEF Message
<1>2. CASE kind = "result"
      BY <1>2 DEF Message
<1>3. CASE kind \notin {"use", "result"}
      BY <1>3 DEF Message
<1>. QED
     BY <1>1, <1>2, <1>3

LEMMA NewMessages ==
    ASSUME NEW n, NEW u \in 1..n
    PROVE  {UserText(u), AssistantText(u), Boundary(u), SnipBoundary(u)} \subseteq Message(n)
BY MakeMessage DEF UserText, AssistantText, Boundary, SnipBoundary, Kinds

LEMMA MessageMonotonic ==
    ASSUME NEW n \in Nat, NEW m \in Nat, n <= m
    PROVE  Message(n) \subseteq Message(m) /\ Seq(Message(n)) \subseteq Seq(Message(m))
<1>1. 1..n \subseteq 1..m
      OBVIOUS
<1>2. Message(n) \subseteq Message(m)
  <2> SUFFICES ASSUME NEW x \in Message(n) PROVE x \in Message(m)
      OBVIOUS
  <2>1. x.id \in 1..m
        BY <1>1, MessageParts
  <2>. QED
       BY <2>1, MessageParts, MakeMessage
<1>. QED
     BY <1>2, SeqMonotonic

\* The places of one kind of tool block, spelled out.
LEMMA PlacesAre ==
    ASSUME NEW n, NEW ms \in Seq(Message(n)), NEW kind
    PROVE  /\ \A p \in Places(ms, kind) :
                 /\ p = <<p[1], p[2]>> /\ p[1] \in 1..Len(ms) /\ ms[p[1]].kind = kind
                 /\ p[2] \in 1..Len(ms[p[1]].items) /\ At(ms, p) = ms[p[1]].items[p[2]]
           /\ \A i \in 1..Len(ms) : \A j \in 1..Len(ms[i].items) :
                 ms[i].kind = kind => <<i, j>> \in Places(ms, kind)
           /\ \A i \in 1..Len(ms) : ms[i] \in Message(n) /\ Len(ms[i].items) \in Nat
<1>1. DOMAIN ms = 1..Len(ms) /\ \A i \in 1..Len(ms) : ms[i] \in Message(n)
      OBVIOUS
<1>2. \A i \in 1..Len(ms) : /\ DOMAIN ms[i].items = 1..Len(ms[i].items)
                            /\ Len(ms[i].items) \in Nat
      BY <1>1, MessageParts, LenProperties
<1>. QED
     BY <1>1, <1>2 DEF Places, OfKind, At

-----------------------------------------------------------------------------
(* Rewriting results in place *)

\* r is ms with the bodies of the results at some places replaced.
Rewritten(r, ms, places, body) ==
    /\ Len(r) = Len(ms)
    /\ \A i \in 1..Len(ms) :
          /\ r[i].id = ms[i].id /\ r[i].kind = ms[i].kind
          /\ Len(r[i].items) = Len(ms[i].items)
          /\ \A j \in 1..Len(ms[i].items) :
                r[i].items[j] = IF <<i, j>> \in places THEN [ms[i].items[j] EXCEPT !.body = body]
                                ELSE ms[i].items[j]

LEMMA RewriteShape ==
    ASSUME NEW n, NEW ms \in Seq(Message(n)), NEW places, places \subseteq Places(ms, "result"),
           NEW body \in Bodies
    PROVE  LET r == Rewrite(ms, places, body)
           IN  r \in Seq(Message(n)) /\ Rewritten(r, ms, places, body)
<1> DEFINE Item(i, j) == IF <<i, j>> \in places THEN [ms[i].items[j] EXCEPT !.body = body]
                         ELSE ms[i].items[j]
           Items(i)   == [j \in DOMAIN ms[i].items |-> Item(i, j)]
           r          == Rewrite(ms, places, body)
<1>1. /\ Len(ms) \in Nat /\ DOMAIN ms = 1..Len(ms) /\ \A i \in 1..Len(ms) : ms[i] \in Message(n)
      BY LenProperties
<1>2. r = [i \in 1..Len(ms) |-> [ms[i] EXCEPT !.items = Items(i)]]
      BY <1>1 DEF Rewrite
<1>3. ASSUME NEW i \in 1..Len(ms)
      PROVE  /\ r[i] \in Message(n) /\ r[i].id = ms[i].id /\ r[i].kind = ms[i].kind
             /\ Len(r[i].items) = Len(ms[i].items)
             /\ \A j \in 1..Len(ms[i].items) : r[i].items[j] = Item(i, j)
  <2> DEFINE m == ms[i]
             t == Items(i)
  <2>1. /\ m \in Message(n) /\ m = [id |-> m.id, kind |-> m.kind, items |-> m.items]
        /\ m.items \in Seq(Calls \cup Results)
        BY <1>1, MessageParts
  <2>2. r[i] = [m EXCEPT !.items = t]
    <3> HIDE DEF Items
    <3>. QED
         BY <1>2
  <2>3. r[i] = [id |-> m.id, kind |-> m.kind, items |-> t]
    <3> HIDE DEF m, t
    <3>. QED
         BY <2>1, <2>2
  <2>4. DOMAIN m.items = 1..Len(m.items) /\ Len(m.items) \in Nat
        BY <2>1, LenProperties
  <2>5. t = [j \in 1..Len(m.items) |-> Item(i, j)]
        BY <2>4
  <2>6. Len(t) = Len(m.items) /\ \A j \in 1..Len(m.items) : t[j] = Item(i, j)
    <3> HIDE DEF Item, m
    <3>. QED
         BY <2>4, <2>5
  <2>7. CASE m.kind = "result"
    <3>1. m.items \in Seq(Results) /\ m.items # <<>> /\ Len(m.items) # 0
          BY <2>1, <2>7, MessageParts, EmptySeq
    <3>2. \A j \in 1..Len(m.items) : m.items[j] \in Results
          BY <3>1
    <3>3. \A j \in 1..Len(m.items) : Item(i, j) \in Results
          BY <3>2 DEF Results
    <3>4. t \in Seq(Results) /\ t # <<>>
      <4> HIDE DEF Item, m, t
      <4>1. t \in [1..Len(m.items) -> Results]
            BY <2>5, <3>3
      <4>. QED
           BY <2>4, <2>6, <3>1, <4>1
    <3>. HIDE DEF t, m
    <3>. QED
         BY <2>1, <2>3, <2>6, <2>7, <3>4, MessageParts, MakeMessage DEF m
  <2>8. CASE m.kind # "result"
    <3>1. \A j \in 1..Len(m.items) : <<i, j>> \notin places
      <4> TAKE j \in 1..Len(m.items)
      <4>1. <<i, j>> \in Places(ms, "result") => ms[i].kind = "result"
            BY PlacesAre
      <4>. QED
           BY <2>8, <4>1
    <3>2. t = m.items
      <4>1. \A j \in 1..Len(m.items) : Item(i, j) = m.items[j]
            BY <3>1
      <4>2. m.items = [j \in 1..Len(m.items) |-> m.items[j]]
            BY <2>1
      <4>. HIDE DEF Item, m, t
      <4>. QED
           BY <2>5, <4>1, <4>2
    <3>. HIDE DEF t, m
    <3>. QED
         BY <2>1, <2>3, <2>6, <3>2 DEF m
  <2>. QED
       BY <2>7, <2>8
<1>. HIDE DEF r
<1>4. r \in Seq(Message(n)) /\ Len(r) = Len(ms)
  <2>1. r = [i \in 1..Len(ms) |-> r[i]]
        BY <1>2
  <2>2. r \in [1..Len(ms) -> Message(n)]
    <3>. HIDE DEF Items, Item
    <3>. QED
         BY <1>3, <2>1
  <2>. QED
       BY <1>1, <2>2
<1>5. Rewritten(r, ms, places, body)
      BY <1>3, <1>4 DEF Rewritten
<1>. QED
     BY <1>4, <1>5 DEF r

\* What a place holds.
LEMMA ItemAt ==
    ASSUME NEW n, NEW ms \in Seq(Message(n))
    PROVE  /\ \A p \in Places(ms, "use") : At(ms, p) \in Calls
           /\ \A p \in Places(ms, "result") : At(ms, p) \in Results
           /\ Places(ms, "use") \cap Places(ms, "result") = {}
<1>1. ASSUME NEW p \in Places(ms, "use") PROVE At(ms, p) \in Calls
  <2>1. /\ ms[p[1]] \in Message(n) /\ ms[p[1]].kind = "use"
        /\ p[2] \in 1..Len(ms[p[1]].items) /\ At(ms, p) = ms[p[1]].items[p[2]]
        BY PlacesAre
  <2>2. ms[p[1]].items \in Seq(Calls)
        BY <2>1, MessageParts
  <2>. QED
       BY <2>1, <2>2, ElementOfSeq
<1>2. ASSUME NEW p \in Places(ms, "result") PROVE At(ms, p) \in Results
  <2>1. /\ ms[p[1]] \in Message(n) /\ ms[p[1]].kind = "result"
        /\ p[2] \in 1..Len(ms[p[1]].items) /\ At(ms, p) = ms[p[1]].items[p[2]]
        BY PlacesAre
  <2>2. ms[p[1]].items \in Seq(Results)
        BY <2>1, MessageParts
  <2>. QED
       BY <2>1, <2>2, ElementOfSeq
<1>3. ASSUME NEW p \in Places(ms, "use"), p \in Places(ms, "result") PROVE FALSE
  <2>1. ms[p[1]].kind = "use" /\ ms[p[1]].kind = "result"
        BY <1>3, PlacesAre
  <2>. QED
       BY <2>1
<1>. QED
     BY <1>1, <1>2, <1>3

\* The tool blocks of r are those of ms, at the same places, with other bodies.
SamePlaces(r, ms, places, body) ==
    /\ Places(r, "use") = Places(ms, "use") /\ Places(r, "result") = Places(ms, "result")
    /\ \A p \in Places(ms, "use") : At(r, p) = At(ms, p)
    /\ \A p \in Places(ms, "result") :
          /\ p \in places => At(r, p).body = body
          /\ p \notin places => At(r, p) = At(ms, p)
          /\ At(r, p).call = At(ms, p).call
    /\ CallIds(r) = CallIds(ms) /\ ReplyIds(r) = ReplyIds(ms)

LEMMA RewrittenPlaces ==
    ASSUME NEW n, NEW ms \in Seq(Message(n)), NEW r \in Seq(Message(n)),
           NEW places, places \subseteq Places(ms, "result"), NEW body,
           Rewritten(r, ms, places, body)
    PROVE  SamePlaces(r, ms, places, body)
<1>1. ASSUME NEW kind PROVE Places(r, kind) = Places(ms, kind)
  <2>1. ASSUME NEW p \in Places(r, kind) PROVE p \in Places(ms, kind)
    <3>1. /\ p = <<p[1], p[2]>> /\ p[1] \in 1..Len(ms) /\ ms[p[1]].kind = kind
          /\ p[2] \in 1..Len(ms[p[1]].items)
          BY PlacesAre DEF Rewritten
    <3>. QED
         BY <3>1, PlacesAre
  <2>2. ASSUME NEW p \in Places(ms, kind) PROVE p \in Places(r, kind)
    <3>1. /\ p = <<p[1], p[2]>> /\ p[1] \in 1..Len(r) /\ r[p[1]].kind = kind
          /\ p[2] \in 1..Len(r[p[1]].items)
          BY PlacesAre DEF Rewritten
    <3>. QED
         BY <3>1, PlacesAre
  <2>. QED
       BY <2>1, <2>2
<1>2. ASSUME NEW kind, NEW p \in Places(ms, kind)
      PROVE  /\ p \in places => At(r, p) = [At(ms, p) EXCEPT !.body = body]
             /\ p \notin places => At(r, p) = At(ms, p)
  <2>1. /\ p = <<p[1], p[2]>> /\ p[1] \in 1..Len(ms)
        /\ p[2] \in 1..Len(ms[p[1]].items) /\ At(ms, p) = ms[p[1]].items[p[2]]
        BY PlacesAre
  <2>2. At(r, p) = r[p[1]].items[p[2]]
        BY DEF At
  <2>. QED
       BY <2>1, <2>2 DEF Rewritten
<1>3. \A p \in Places(ms, "use") : At(r, p) = At(ms, p)
      BY <1>2, ItemAt
<1>4. ASSUME NEW p \in Places(ms, "result")
      PROVE  At(r, p).call = At(ms, p).call /\ (p \in places => At(r, p).body = body)
  <2>1. At(ms, p) \in Results
        BY ItemAt
  <2>2. /\ [At(ms, p) EXCEPT !.body = body].call = At(ms, p).call
        /\ [At(ms, p) EXCEPT !.body = body].body = body
        BY <2>1 DEF Results
  <2>. QED
       BY <1>2, <2>2
<1>5. CallIds(r) = CallIds(ms) /\ ReplyIds(r) = ReplyIds(ms)
      BY <1>1, <1>3, <1>4 DEF CallIds, ReplyIds
<1>. QED
     BY <1>1, <1>2, <1>3, <1>4, <1>5 DEF SamePlaces

-----------------------------------------------------------------------------
(* Deleting places *)

Left(ms, places, i) == {j \in DOMAIN ms[i].items : <<i, j>> \notin places}

Kept(ms, places) == {i \in DOMAIN ms : ms[i].items = <<>> \/ Left(ms, places, i) # {}}

\* t is ms without the tool blocks at some places, emptied messages included.
Thinner(t, ms, places) ==
    /\ Len(t) = Len(ms) /\ DOMAIN t = 1..Len(t)
    /\ \A i \in 1..Len(ms) :
          /\ t[i].id = ms[i].id /\ t[i].kind = ms[i].kind
          /\ \E h : Picks(t[i].items, ms[i].items, Left(ms, places, i), h)

LEMMA ThinnerSelf ==
    ASSUME NEW n, NEW ms \in Seq(Message(n))
    PROVE  Thinner(ms, ms, {}) /\ Kept(ms, {}) = 1..Len(ms)
<1>1. /\ Len(ms) \in Nat /\ DOMAIN ms = 1..Len(ms) /\ \A i \in 1..Len(ms) : ms[i] \in Message(n)
      BY LenProperties
<1>2. ASSUME NEW i \in 1..Len(ms)
      PROVE  /\ \E h : Picks(ms[i].items, ms[i].items, Left(ms, {}, i), h)
             /\ i \in Kept(ms, {})
  <2> DEFINE s == ms[i].items
             h == [j \in 1..Len(s) |-> j]
  <2>1. s \in Seq(Calls \cup Results)
        BY <1>1, MessageParts
  <2>2. Len(s) \in Nat /\ DOMAIN s = 1..Len(s)
        BY <2>1
  <2>3. Left(ms, {}, i) = 1..Len(s)
        BY <2>2 DEF Left
  <2>4. s # <<>> => 1..Len(s) # {}
    <3>1. s # <<>> => 1 \in 1..Len(s)
          BY <2>1, EmptySeq
    <3>. QED
         BY <3>1
  <2>5. i \in Kept(ms, {})
        BY <1>1, <2>3, <2>4 DEF Kept
  <2>6. Picks(s, s, 1..Len(s), h)
    <3> HIDE DEF s
    <3>. QED
         BY <2>2 DEF Picks
  <2>. QED
       BY <2>3, <2>5, <2>6
<1>. QED
     BY <1>1, <1>2 DEF Thinner, Kept

\* The messages that keep something, as messages.
LEMMA ThinnedMessage ==
    ASSUME NEW n, NEW ms \in Seq(Message(n)), NEW places, NEW i \in 1..Len(ms)
    PROVE  LET t == [ms[i] EXCEPT !.items = Pick(@, Left(ms, places, i))]
           IN  /\ t.id = ms[i].id /\ t.kind = ms[i].kind
               /\ t.items = Pick(ms[i].items, Left(ms, places, i))
               /\ \E h : Picks(t.items, ms[i].items, Left(ms, places, i), h)
               /\ i \in Kept(ms, places) => t \in Message(n)
<1> DEFINE m == ms[i]
           I == Left(ms, places, i)
           q == Pick(m.items, I)
           t == [m EXCEPT !.items = q]
<1>1. /\ m \in Message(n) /\ m = [id |-> m.id, kind |-> m.kind, items |-> m.items]
      /\ m.items \in Seq(Calls \cup Results) /\ m.id \in 1..n /\ m.kind \in Kinds
      /\ m.kind = "use" => m.items \in Seq(Calls)
      /\ m.kind = "result" => m.items \in Seq(Results)
      /\ m.kind \notin {"use", "result"} => m.items = <<>>
  <2>1. ms[i] \in Message(n)
        BY ElementOfSeq
  <2>. QED
       BY <2>1, MessageParts
<1>2. \E h : Picks(q, m.items, I, h)
      BY <1>1, PickKeepsPlaces
<1>3. (m.kind = "use" => q \in Seq(Calls)) /\ (m.kind = "result" => q \in Seq(Results))
      BY <1>1, PickKeepsPlaces
<1>4. I \subseteq 1..Len(m.items) /\ (m.items = <<>> => I = {})
      BY <1>1 DEF Left
<1>5. I # {} <=> q # <<>>
  <2>1. PICK h : Picks(q, m.items, I, h)
        BY <1>2
  <2>2. q = <<>> <=> Len(q) = 0
    <3>1. q \in Seq(Calls \cup Results)
          BY <1>1, PickKeepsPlaces
    <3>. QED
         BY <3>1, EmptySeq
  <2>. HIDE DEF q, I
  <2>3. ASSUME I # {} PROVE Len(q) # 0
    <3>1. PICK x \in I : x \in 1..Len(m.items)
          BY <1>4, <2>3
    <3>2. \E k \in 1..Len(q) : h[k] = x
          BY <2>1, <3>1 DEF Picks
    <3>. QED
         BY <3>2
  <2>4. ASSUME Len(q) # 0 PROVE I # {}
    <3>1. 1 \in 1..Len(q)
          BY <2>1, <2>4 DEF Picks
    <3>2. h[1] \in I
          BY <2>1, <3>1 DEF Picks
    <3>. QED
         BY <3>2
  <2>. QED
       BY <2>2, <2>3, <2>4
<1>6. t = [id |-> m.id, kind |-> m.kind, items |-> q]
  <2>. HIDE DEF m, q
  <2>. QED
       BY <1>1
<1>7. i \in Kept(ms, places) => m.items = <<>> \/ I # {}
      BY DEF Kept
<1>. HIDE DEF q, I
<1>8. ASSUME i \in Kept(ms, places) PROVE t \in Message(n)
  <2>1. CASE m.kind \in {"use", "result"}
    <3>1. m.items # <<>>
          BY <1>1, <2>1, MessageParts
    <3>2. q # <<>>
          BY <1>5, <1>7, <1>8, <3>1
    <3>. HIDE DEF m
    <3>. QED
         BY <1>1, <1>3, <1>6, <2>1, <3>2, MakeMessage
  <2>2. CASE m.kind \notin {"use", "result"}
    <3>1. q = <<>>
          BY <1>1, <1>4, <1>5, <2>2
    <3>. HIDE DEF m
    <3>. QED
         BY <1>1, <1>6, <2>2, <3>1, MakeMessage
  <2>. QED
       BY <2>1, <2>2
<1>. HIDE DEF t
<1>9. t.id = m.id /\ t.kind = m.kind /\ t.items = q
      BY <1>6
<1>. QED
     BY <1>2, <1>8, <1>9 DEF t, q, I

\* r is what is left of the messages at K without some tool blocks, and perhaps a snip
\* boundary.
Thinned(r, ms, K, places, u, t, g) ==
    Thinner(t, ms, places) /\ Spliced(r, t, K, SnipBoundary(u), g)

LEMMA SplicedMessages ==
    ASSUME NEW n, NEW u \in 1..n, NEW r, NEW T, r \in Seq(T), NEW t, NEW K, NEW g,
           Spliced(r, t, K, SnipBoundary(u), g), \A i \in K : t[i] \in Message(n)
    PROVE  r \in Seq(Message(n))
<1>1. Len(r) \in Nat /\ DOMAIN r = 1..Len(r)
      BY DEF Spliced
<1>2. \A k \in 1..Len(r) : r[k] \in Message(n)
  <2> TAKE k \in 1..Len(r)
  <2>1. CASE g[k] = 0
        BY <2>1, NewMessages DEF Spliced
  <2>2. CASE g[k] # 0
        BY <2>2 DEF Spliced
  <2>. QED
       BY <2>1, <2>2
<1>3. r = [k \in 1..Len(r) |-> r[k]]
      BY LenProperties
<1>4. r \in [1..Len(r) -> Message(n)]
      BY <1>2, <1>3
<1>. QED
     BY <1>1, <1>4

LEMMA DeletePlacesShape ==
    ASSUME NEW n, NEW ms \in Seq(Message(n)), NEW u \in 1..n,
           NEW places, places \subseteq Places(ms, "use") \cup Places(ms, "result")
    PROVE  LET r == DeletePlaces(ms, places, u)
           IN  /\ r \in Seq(Message(n))
               /\ \E t, g : Thinned(r, ms, Kept(ms, places), places, u, t, g)
<1> DEFINE r    == DeletePlaces(ms, places, u)
           K    == Kept(ms, places)
           thin == [i \in DOMAIN ms |-> [ms[i] EXCEPT !.items = Pick(@, Left(ms, places, i))]]
           firsts == {p[1] : p \in places}
<1>1. /\ Len(ms) \in Nat /\ DOMAIN ms = 1..Len(ms) /\ \A i \in 1..Len(ms) : ms[i] \in Message(n)
      BY LenProperties
<1>2. K \subseteq 1..Len(ms)
      BY <1>1 DEF Kept
<1>3. CASE places = {}
  <2>1. r = ms
        BY <1>3 DEF DeletePlaces
  <2>2. Thinner(ms, ms, places) /\ K = 1..Len(ms)
        BY <1>3, ThinnerSelf
  <2>3. PICK g : Spliced(ms, ms, 1..Len(ms), SnipBoundary(u), g)
        BY SpliceAll
  <2>4. Thinned(ms, ms, K, places, u, ms, g)
        BY <2>2, <2>3 DEF Thinned
  <2>. QED
       BY <2>1, <2>4
<1>4. CASE places # {}
  <2> DEFINE T == {thin[i] : i \in 1..Len(ms)} \cup {SnipBoundary(u)}
  <2>1. PICK first \in Int : first = Min(firsts)
    <3>1. \A p \in places : p[1] \in 1..Len(ms)
          BY PlacesAre
    <3>2. firsts \subseteq Nat /\ firsts # {}
          BY <1>4, <3>1
    <3>. HIDE DEF firsts
    <3>3. Min(firsts) \in firsts
          BY <3>2, MinIsLeast
    <3>4. Min(firsts) \in Nat
          BY <3>2, <3>3, Zenon
    <3>. QED
         BY <3>4
  <2>2. thin = [i \in 1..Len(ms) |-> thin[i]]
        BY <1>1
  <2>3. Thinner(thin, ms, places) /\ \A i \in K : thin[i] \in Message(n)
    <3>1. \A i \in 1..Len(ms) : thin[i] = [ms[i] EXCEPT !.items = Pick(@, Left(ms, places, i))]
          BY <1>1
    <3>. HIDE DEF thin, K
    <3>2. \A i \in 1..Len(ms) :
             /\ thin[i].id = ms[i].id /\ thin[i].kind = ms[i].kind
             /\ \E h : Picks(thin[i].items, ms[i].items, Left(ms, places, i), h)
             /\ i \in Kept(ms, places) => thin[i] \in Message(n)
      <4> TAKE i \in 1..Len(ms)
      <4>1. thin[i] = [ms[i] EXCEPT !.items = Pick(@, Left(ms, places, i))]
            BY <3>1
      <4> DEFINE m == [ms[i] EXCEPT !.items = Pick(@, Left(ms, places, i))]
      <4>2. /\ m.id = ms[i].id /\ m.kind = ms[i].kind
            /\ m.items = Pick(ms[i].items, Left(ms, places, i))
            /\ \E h : Picks(m.items, ms[i].items, Left(ms, places, i), h)
            /\ i \in Kept(ms, places) => m \in Message(n)
            BY ThinnedMessage
      <4>. HIDE DEF m
      <4>3. thin[i] = m
            BY <4>1 DEF m
      <4>. QED
           BY <4>2, <4>3
    <3>3. Len(thin) = Len(ms) /\ DOMAIN thin = 1..Len(thin)
          BY <1>1, <2>2
    <3>. QED
         BY <1>2, <3>2, <3>3 DEF Thinner, K
  <2>4. thin \in Seq(T) /\ Len(thin) = Len(ms) /\ SnipBoundary(u) \in T
    <3>1. \A i \in 1..Len(ms) : thin[i] \in T
          OBVIOUS
    <3>. HIDE DEF thin, T
    <3>2. thin \in [1..Len(ms) -> T]
          BY <2>2, <3>1
    <3>3. thin \in Seq(T)
          BY <1>1, <3>2
    <3>. QED
         BY <2>3, <3>3 DEF Thinner, T
  <2>5. r = Pick(thin, {i \in K : i < first}) \o <<SnipBoundary(u)>>
             \o Pick(thin, {i \in K : i >= first})
    <3>1. \A i \in DOMAIN ms : Left(ms, places, i) = {j \in DOMAIN ms[i].items : <<i, j>> \notin places}
          BY DEF Left
    <3>. QED
         BY <1>4, <2>1, Zenon DEF DeletePlaces, Left, Kept
  <2>. HIDE DEF thin, T, r, K
  <2>6. r \in Seq(T) /\ \E g : Spliced(r, thin, K, SnipBoundary(u), g)
    <3>1. K \subseteq 1..Len(thin)
          BY <1>2, <2>4
    <3> DEFINE A == {i \in K : i < first}
               B == {i \in K : i >= first}
    <3>2. r = Pick(thin, A) \o <<SnipBoundary(u)>> \o Pick(thin, B)
          BY <2>5
    <3>3. \A i \in K : i \in Int
          BY <1>2
    <3>4. K = A \cup B
      <4>1. \A i \in K : i < first \/ i >= first
            BY <3>3
      <4>. QED
           BY <4>1
    <3>5. \A a \in A, b \in B : a < first /\ b >= first /\ a \in Int /\ b \in Int
          BY <3>3
    <3>. HIDE DEF A, B
    <3>6. \A a \in A, b \in B : a < b
          BY <3>5
    <3>. QED
         BY <2>4, <3>1, <3>2, <3>4, <3>6, SpliceMiddle
  <2>7. PICK g : Spliced(r, thin, K, SnipBoundary(u), g)
        BY <2>6
  <2>8. r \in Seq(Message(n))
        BY <2>3, <2>6, <2>7, SplicedMessages
  <2>9. Thinned(r, ms, K, places, u, thin, g)
        BY <2>3, <2>7 DEF Thinned
  <2>. QED
       BY <2>8, <2>9 DEF r, K
<1>. QED
     BY <1>3, <1>4

LEMMA SnipHistoryShape ==
    ASSUME NEW n, NEW ms \in Seq(Message(n)), NEW u, NEW us
    PROVE  LET r == SnipHistory(ms, us)
           IN  /\ r \in Seq(Message(n))
               /\ \E t, g : Thinned(r, ms, {i \in DOMAIN ms : ms[i].id \notin us}, {}, u, t, g)
<1> DEFINE K == {i \in DOMAIN ms : ms[i].id \notin us}
           r == SnipHistory(ms, us)
<1>1. K \subseteq 1..Len(ms)
      BY LenProperties
<1>2. r = Pick(ms, K)
      BY DEF SnipHistory
<1>. HIDE DEF K
<1>3. r \in Seq(Message(n)) /\ \E g : Spliced(r, ms, K, SnipBoundary(u), g)
      BY <1>1, <1>2, SplicePick
<1>4. Thinner(ms, ms, {})
      BY ThinnerSelf
<1>5. \E t, g : Thinned(r, ms, K, {}, u, t, g)
      BY <1>3, <1>4 DEF Thinned
<1>. QED
     BY <1>3, <1>5 DEF K

\* Where the messages of a thinned transcript come from.
MessagesFrom(r, ms, K, places, u, g) ==
    \A k \in 1..Len(r) :
        /\ g[k] = 0 => r[k] = SnipBoundary(u)
        /\ g[k] # 0 => /\ g[k] \in K /\ g[k] \in 1..Len(ms)
                       /\ r[k].id = ms[g[k]].id /\ r[k].kind = ms[g[k]].kind
                       /\ \E h : Picks(r[k].items, ms[g[k]].items, Left(ms, places, g[k]), h)

\* Where its tool blocks come from, and where those of the old one are.
PlacesFrom(r, ms, K, places, g, kind) ==
    /\ \A q \in Places(r, kind) : \E p \in Places(ms, kind) \ places :
          p[1] = g[q[1]] /\ At(r, q) = At(ms, p) /\ r[q[1]].id = ms[p[1]].id
    /\ \A p \in Places(ms, kind) \ places : p[1] \in K =>
          \E q \in Places(r, kind) :
              p[1] = g[q[1]] /\ At(r, q) = At(ms, p) /\ r[q[1]].id = ms[p[1]].id

LEMMA ThinnedPlaces ==
    ASSUME NEW n, NEW ms \in Seq(Message(n)), NEW r \in Seq(Message(n)),
           NEW K, K \subseteq 1..Len(ms), NEW places, NEW u, NEW t, NEW g,
           Thinned(r, ms, K, places, u, t, g)
    PROVE  /\ MessagesFrom(r, ms, K, places, u, g)
           /\ PlacesFrom(r, ms, K, places, g, "use") /\ PlacesFrom(r, ms, K, places, g, "result")
<1>1. Thinner(t, ms, places) /\ Spliced(r, t, K, SnipBoundary(u), g)
      BY DEF Thinned
<1>2. ASSUME NEW k \in 1..Len(r)
      PROVE  /\ g[k] = 0 => r[k] = SnipBoundary(u)
             /\ g[k] # 0 => /\ g[k] \in K /\ g[k] \in 1..Len(ms) /\ r[k].id = ms[g[k]].id /\ r[k].kind = ms[g[k]].kind
                            /\ \E h : Picks(r[k].items, ms[g[k]].items, Left(ms, places, g[k]), h)
  <2>1. g[k] \in K \cup {0} /\ r[k] = IF g[k] = 0 THEN SnipBoundary(u) ELSE t[g[k]]
        BY <1>1 DEF Spliced
  <2>2. CASE g[k] # 0
    <3>1. g[k] \in 1..Len(ms) /\ r[k] = t[g[k]]
          BY <2>1, <2>2
    <3>2. /\ t[g[k]].id = ms[g[k]].id /\ t[g[k]].kind = ms[g[k]].kind
          /\ \E h : Picks(t[g[k]].items, ms[g[k]].items, Left(ms, places, g[k]), h)
          BY <1>1, <3>1 DEF Thinner
    <3>. QED
         BY <2>1, <2>2, <3>1, <3>2
  <2>. QED
       BY <2>1, <2>2
<1>3. ASSUME NEW kind \in {"use", "result"}, NEW q \in Places(r, kind)
      PROVE  \E p \in Places(ms, kind) \ places :
                /\ p[1] = g[q[1]] /\ At(r, q) = At(ms, p) /\ r[q[1]].id = ms[p[1]].id
  <2>1. /\ q = <<q[1], q[2]>> /\ q[1] \in 1..Len(r) /\ r[q[1]].kind = kind
        /\ q[2] \in 1..Len(r[q[1]].items) /\ At(r, q) = r[q[1]].items[q[2]]
        BY PlacesAre
  <2> DEFINE i == g[q[1]]
  <2>2. i # 0
        BY <1>2, <2>1 DEF SnipBoundary
  <2>3. /\ i \in 1..Len(ms) /\ ms[i].kind = kind /\ r[q[1]].id = ms[i].id
        /\ \E h : Picks(r[q[1]].items, ms[i].items, Left(ms, places, i), h)
        BY <1>2, <2>1, <2>2
  <2>. HIDE DEF i
  <2>4. PICK h : Picks(r[q[1]].items, ms[i].items, Left(ms, places, i), h)
        BY <2>3
  <2> DEFINE j == h[q[2]]
  <2>5. j \in Left(ms, places, i) /\ j \in 1..Len(ms[i].items) /\ At(r, q) = ms[i].items[j]
        BY <2>1, <2>4 DEF Picks
  <2>. HIDE DEF j
  <2> DEFINE p == <<i, j>>
  <2>6. p \in Places(ms, kind) /\ p \notin places
        BY <2>3, <2>5, PlacesAre DEF Left
  <2>7. p[1] = i /\ At(ms, p) = ms[i].items[j]
        BY DEF At
  <2>. HIDE DEF p
  <2>. QED
       BY <2>3, <2>5, <2>6, <2>7 DEF i
<1>4. ASSUME NEW kind \in {"use", "result"}, NEW p \in Places(ms, kind) \ places, p[1] \in K
      PROVE  \E q \in Places(r, kind) :
                /\ p[1] = g[q[1]] /\ At(r, q) = At(ms, p) /\ r[q[1]].id = ms[p[1]].id
  <2>1. /\ p = <<p[1], p[2]>> /\ p[1] \in 1..Len(ms) /\ ms[p[1]].kind = kind
        /\ p[2] \in 1..Len(ms[p[1]].items) /\ At(ms, p) = ms[p[1]].items[p[2]]
        /\ ms[p[1]] \in Message(n)
        BY PlacesAre
  <2>2. PICK k \in 1..Len(r) : g[k] = p[1]
        BY <1>1, <1>4 DEF Spliced
  <2>3. /\ r[k].id = ms[p[1]].id /\ r[k].kind = kind
        /\ \E h : Picks(r[k].items, ms[p[1]].items, Left(ms, places, p[1]), h)
        BY <1>2, <2>1, <2>2
  <2>4. PICK h : Picks(r[k].items, ms[p[1]].items, Left(ms, places, p[1]), h)
        BY <2>3
  <2>5. p[2] \in Left(ms, places, p[1]) \cap (1..Len(ms[p[1]].items))
    <3>1. DOMAIN ms[p[1]].items = 1..Len(ms[p[1]].items)
          BY <2>1, MessageParts, SMTT(30)
    <3>. QED
         BY <2>1, <3>1 DEF Left
  <2>6. PICK l \in 1..Len(r[k].items) : h[l] = p[2]
        BY <2>4, <2>5 DEF Picks
  <2>7. r[k].items[l] = At(ms, p)
        BY <2>1, <2>4, <2>6 DEF Picks
  <2> DEFINE q == <<k, l>>
  <2>8. q \in Places(r, kind)
        BY <2>3, <2>6, PlacesAre
  <2>9. q[1] = k /\ At(r, q) = r[k].items[l]
        BY DEF At
  <2>. HIDE DEF q
  <2>. QED
       BY <2>2, <2>3, <2>7, <2>8, <2>9
<1>. QED
     BY <1>2, <1>3, <1>4 DEF MessagesFrom, PlacesFrom

-----------------------------------------------------------------------------
(* What every transcript of a session satisfies *)

\* The copies of a message are of one kind.
OneKindPerId(ms) ==
    \A i, j \in 1..Len(ms) : ms[i].id = ms[j].id => ms[i].kind = ms[j].kind

\* Between two copies of a message lies the boundary of a compaction.
CopiesApart(ms) ==
    \A i, j \in 1..Len(ms) :
        i < j /\ ms[i].id = ms[j].id /\ ms[j].kind # "boundary"
        => \E k \in 1..Len(ms) : i < k /\ k < j /\ ms[k].kind = "boundary"

\* No message has two tool blocks for one call.
CallsDistinct(ms) ==
    \A kind \in {"use", "result"} : \A p, q \in Places(ms, kind) :
        p[1] = q[1] /\ At(ms, p).call = At(ms, q).call => p = q

\* Copies of a result are cleared oldest first.
ClearedFirst(ms) ==
    \A p, q \in Places(ms, "result") :
        /\ p[1] < q[1] /\ ms[p[1]].id = ms[q[1]].id /\ At(ms, p).call = At(ms, q).call
        /\ At(ms, q).body = "cleared"
        => At(ms, p).body = "cleared"

\* The input u is in the transcript.
HasInput(ms, u) == \E i \in 1..Len(ms) : ms[i].kind = "user" /\ ms[i].id = u

\* A result that is newer than the input u has a copy behind every user message.
ResultsFollow(ms, u) ==
    \A i \in 1..Len(ms) : ms[i].kind = "user" =>
        \A p \in Places(ms, "result") : ms[p[1]].id > u =>
            \E q \in Places(ms, "result") :
                i < q[1] /\ ms[q[1]].id = ms[p[1]].id /\ At(ms, q).call = At(ms, p).call

\* A rewriting leaves all of this but what it says of bodies alone.
LEMMA RewritingKeeps ==
    ASSUME NEW n, NEW ms \in Seq(Message(n)), NEW r \in Seq(Message(n)),
           NEW places, places \subseteq Places(ms, "result"), NEW body,
           Rewritten(r, ms, places, body)
    PROVE  /\ OneKindPerId(ms) => OneKindPerId(r)
           /\ CopiesApart(ms) => CopiesApart(r)
           /\ CallsDistinct(ms) => CallsDistinct(r)
           /\ \A u : HasInput(ms, u) => HasInput(r, u)
           /\ \A u : ResultsFollow(ms, u) => ResultsFollow(r, u)
           /\ Ids(r) = Ids(ms)
<1>1. Len(r) = Len(ms) /\ \A i \in 1..Len(ms) : r[i].id = ms[i].id /\ r[i].kind = ms[i].kind
      BY DEF Rewritten
<1>2. \A kind \in {"use", "result"} :
         /\ Places(r, kind) = Places(ms, kind)
         /\ \A p \in Places(ms, kind) : At(r, p).call = At(ms, p).call /\ p[1] \in 1..Len(ms)
  <2>1. /\ Places(r, "use") = Places(ms, "use") /\ Places(r, "result") = Places(ms, "result")
        /\ \A p \in Places(ms, "use") : At(r, p) = At(ms, p)
        /\ \A p \in Places(ms, "result") : At(r, p).call = At(ms, p).call
    <3>1. SamePlaces(r, ms, places, body)
          BY RewrittenPlaces
    <3>. QED
         BY <3>1 DEF SamePlaces
  <2>2. \A kind : \A p \in Places(ms, kind) : p[1] \in 1..Len(ms)
        BY PlacesAre
  <2>. QED
       BY <2>1, <2>2
<1>3. OneKindPerId(ms) => OneKindPerId(r)
      BY <1>1 DEF OneKindPerId
<1>4. CopiesApart(ms) => CopiesApart(r)
      BY <1>1 DEF CopiesApart
<1>5. CallsDistinct(ms) => CallsDistinct(r)
      BY <1>2 DEF CallsDistinct
<1>6. \A u : HasInput(ms, u) => HasInput(r, u)
      BY <1>1 DEF HasInput
<1>7. ASSUME NEW u, ResultsFollow(ms, u) PROVE ResultsFollow(r, u)
  <2> SUFFICES ASSUME NEW i \in 1..Len(r), r[i].kind = "user",
                      NEW p \in Places(r, "result"), r[p[1]].id > u
               PROVE  \E q \in Places(r, "result") :
                         i < q[1] /\ r[q[1]].id = r[p[1]].id /\ At(r, q).call = At(r, p).call
      BY DEF ResultsFollow
  <2>1. /\ i \in 1..Len(ms) /\ ms[i].kind = "user"
        /\ p \in Places(ms, "result") /\ ms[p[1]].id = r[p[1]].id
        BY <1>1, <1>2
  <2>2. PICK q \in Places(ms, "result") :
               i < q[1] /\ ms[q[1]].id = ms[p[1]].id /\ At(ms, q).call = At(ms, p).call
        BY <1>7, <2>1 DEF ResultsFollow
  <2>3. q \in Places(r, "result") /\ r[q[1]].id = ms[q[1]].id /\ At(r, q).call = At(ms, q).call
        BY <1>1, <1>2, <2>2
  <2>. QED
       BY <1>2, <2>1, <2>2, <2>3
<1>8. Ids(r) = Ids(ms)
  <2>1. DOMAIN r = 1..Len(r) /\ DOMAIN ms = 1..Len(ms)
        BY LenProperties
  <2>. QED
       BY <1>1, <2>1 DEF Ids
<1>. QED
     BY <1>3, <1>4, <1>5, <1>6, <1>7, <1>8

\* The part of it that only asks which messages are left.
LEMMA ThinningKeeps ==
    ASSUME NEW n, NEW ms \in Seq(Message(n)), NEW r \in Seq(Message(n)),
           NEW K, K \subseteq 1..Len(ms), NEW places, NEW u, NEW t, NEW g,
           Thinned(r, ms, K, places, u, t, g), u \notin Ids(ms),
           \A i \in 1..Len(ms) : ms[i].kind \in {"user", "boundary"} => i \in K
    PROVE  /\ OneKindPerId(ms) => OneKindPerId(r)
           /\ CopiesApart(ms) => CopiesApart(r)
           /\ CallsDistinct(ms) => CallsDistinct(r)
           /\ ClearedFirst(ms) => ClearedFirst(r)
           /\ \A v : HasInput(ms, v) => HasInput(r, v)
<1>1. /\ Len(r) \in Nat /\ Len(ms) \in Nat
      /\ g \in [1..Len(r) -> K \cup {0}]
      /\ \A k, l \in 1..Len(r) : k < l /\ g[k] # 0 /\ g[l] # 0 => g[k] < g[l]
      /\ \A k, l \in 1..Len(r) : g[k] = 0 /\ g[l] = 0 => k = l
      /\ \A i \in K : \E k \in 1..Len(r) : g[k] = i
      BY LenProperties DEF Thinned, Spliced
<1>2. \A k \in 1..Len(r) :
         /\ g[k] = 0 => r[k] = SnipBoundary(u)
         /\ g[k] # 0 => /\ g[k] \in 1..Len(ms) /\ g[k] \in K
                        /\ r[k].id = ms[g[k]].id /\ r[k].kind = ms[g[k]].kind
  <2>1. MessagesFrom(r, ms, K, places, u, g)
        BY ThinnedPlaces
  <2>. QED
       BY <2>1 DEF MessagesFrom
<1>3. \A i \in 1..Len(ms) : ms[i].id # u
  <2>1. DOMAIN ms = 1..Len(ms)
        BY LenProperties
  <2>. QED
       BY <2>1 DEF Ids
<1>4. \A k, l \in 1..Len(r) :
         r[k].id = r[l].id /\ k # l => /\ g[k] # 0 /\ g[l] # 0 /\ ms[g[k]].id = ms[g[l]].id
  <2>1. \A k \in 1..Len(r) : r[k].id = u <=> g[k] = 0
        BY <1>2, <1>3 DEF SnipBoundary
  <2>. QED
       BY <1>1, <1>2, <2>1
<1>5. OneKindPerId(ms) => OneKindPerId(r)
  <2> SUFFICES ASSUME OneKindPerId(ms), NEW k \in 1..Len(r), NEW l \in 1..Len(r),
                      r[k].id = r[l].id, k # l
               PROVE  r[k].kind = r[l].kind
      BY DEF OneKindPerId
  <2>1. /\ g[k] \in 1..Len(ms) /\ g[l] \in 1..Len(ms) /\ ms[g[k]].id = ms[g[l]].id
        /\ r[k].kind = ms[g[k]].kind /\ r[l].kind = ms[g[l]].kind
        BY <1>2, <1>4
  <2>. QED
       BY <2>1 DEF OneKindPerId
<1>6. CopiesApart(ms) => CopiesApart(r)
  <2> SUFFICES ASSUME CopiesApart(ms), NEW k \in 1..Len(r), NEW l \in 1..Len(r),
                      k < l, r[k].id = r[l].id, r[l].kind # "boundary"
               PROVE  \E x \in 1..Len(r) : k < x /\ x < l /\ r[x].kind = "boundary"
      BY DEF CopiesApart
  <2>1. g[k] # 0 /\ g[l] # 0 /\ ms[g[k]].id = ms[g[l]].id /\ g[k] < g[l]
        BY <1>1, <1>4
  <2>2. PICK y \in 1..Len(ms) : g[k] < y /\ y < g[l] /\ ms[y].kind = "boundary"
        BY <1>2, <2>1 DEF CopiesApart
  <2>3. PICK x \in 1..Len(r) : g[x] = y
        BY <1>1, <2>2
  <2>4. g[x] # 0 /\ r[x].kind = "boundary"
        BY <1>2, <2>2, <2>3
  <2>5. g[k] \in Int /\ g[l] \in Int /\ g[x] \in Int
        BY <1>2, <2>1, <2>3
  <2>6. k < x
    <3> SUFFICES ASSUME ~(k < x) PROVE FALSE
        OBVIOUS
    <3>1. x = k \/ x < k
          OBVIOUS
    <3>. QED
         BY <1>1, <2>1, <2>2, <2>3, <2>4, <2>5, <3>1, SMTT(30)
  <2>7. x < l
    <3> SUFFICES ASSUME ~(x < l) PROVE FALSE
        OBVIOUS
    <3>1. x = l \/ l < x
          OBVIOUS
    <3>. QED
         BY <1>1, <2>1, <2>2, <2>3, <2>4, <2>5, <3>1, SMTT(30)
  <2>. QED
       BY <2>4, <2>6, <2>7
<1>7. \A k, l \in 1..Len(r) : g[k] # 0 /\ g[l] # 0 /\ k < l => g[k] < g[l]
      BY <1>1
<1>8. ClearedFirst(ms) => ClearedFirst(r)
  <2> SUFFICES ASSUME ClearedFirst(ms), NEW p \in Places(r, "result"), NEW q \in Places(r, "result"),
                      p[1] < q[1], r[p[1]].id = r[q[1]].id, At(r, p).call = At(r, q).call,
                      At(r, q).body = "cleared"
               PROVE  At(r, p).body = "cleared"
      BY DEF ClearedFirst
  <2>0. PlacesFrom(r, ms, K, places, g, "result")
        BY ThinnedPlaces
  <2>1. PICK x \in Places(ms, "result") :
               x[1] = g[p[1]] /\ At(r, p) = At(ms, x) /\ r[p[1]].id = ms[x[1]].id
        BY <2>0 DEF PlacesFrom
  <2>2. PICK y \in Places(ms, "result") :
               y[1] = g[q[1]] /\ At(r, q) = At(ms, y) /\ r[q[1]].id = ms[y[1]].id
        BY <2>0 DEF PlacesFrom
  <2>3. p[1] \in 1..Len(r) /\ q[1] \in 1..Len(r) /\ x[1] \in 1..Len(ms) /\ y[1] \in 1..Len(ms)
        BY PlacesAre
  <2>4. x[1] < y[1]
    <3>1. g[p[1]] # 0 /\ g[q[1]] # 0
          BY <2>1, <2>2, <2>3
    <3>. QED
         BY <1>7, <2>1, <2>2, <2>3, <3>1
  <2>. QED
       BY <2>1, <2>2, <2>4 DEF ClearedFirst
<1>9. \A v : HasInput(ms, v) => HasInput(r, v)
  <2> SUFFICES ASSUME NEW v, HasInput(ms, v) PROVE HasInput(r, v)
      OBVIOUS
  <2>1. PICK i \in 1..Len(ms) : ms[i].kind = "user" /\ ms[i].id = v
        BY DEF HasInput
  <2>2. PICK k \in 1..Len(r) : g[k] = i
        BY <1>1, <2>1
  <2>. QED
       BY <1>2, <2>1, <2>2 DEF HasInput
<1>10. CallsDistinct(ms) => CallsDistinct(r)
  <2> SUFFICES ASSUME CallsDistinct(ms), NEW kind \in {"use", "result"},
                      NEW p \in Places(r, kind), NEW q \in Places(r, kind),
                      p[1] = q[1], At(r, p).call = At(r, q).call
               PROVE  p = q
      BY DEF CallsDistinct
  <2> DEFINE k == p[1]
  <2>1. /\ p = <<k, p[2]>> /\ q = <<k, q[2]>> /\ k \in 1..Len(r) /\ r[k].kind = kind
        /\ p[2] \in 1..Len(r[k].items) /\ At(r, p) = r[k].items[p[2]]
        /\ q[2] \in 1..Len(r[k].items) /\ At(r, q) = r[k].items[q[2]]
        BY PlacesAre
  <2>. HIDE DEF k
  <2>2. g[k] # 0
        BY <1>2, <2>1 DEF SnipBoundary
  <2>3. \E h : Picks(r[k].items, ms[g[k]].items, Left(ms, places, g[k]), h)
    <3>1. MessagesFrom(r, ms, K, places, u, g)
          BY ThinnedPlaces
    <3>. QED
         BY <2>1, <2>2, <3>1 DEF MessagesFrom
  <2>4. PICK h : Picks(r[k].items, ms[g[k]].items, Left(ms, places, g[k]), h)
        BY <2>3
  <2>5. g[k] \in 1..Len(ms) /\ ms[g[k]].kind = kind
        BY <1>2, <2>1, <2>2
  <2>6. /\ h[p[2]] \in 1..Len(ms[g[k]].items) /\ r[k].items[p[2]] = ms[g[k]].items[h[p[2]]]
        /\ h[q[2]] \in 1..Len(ms[g[k]].items) /\ r[k].items[q[2]] = ms[g[k]].items[h[q[2]]]
        BY <2>1, <2>4 DEF Picks
  <2> DEFINE x == <<g[k], h[p[2]]>>
             y == <<g[k], h[q[2]]>>
  <2>7. x \in Places(ms, kind) /\ y \in Places(ms, kind)
        BY <2>5, <2>6, PlacesAre
  <2>8. x[1] = y[1] /\ At(ms, x).call = At(ms, y).call
        BY <2>1, <2>6 DEF At
  <2>9. x = y
        BY <2>7, <2>8 DEF CallsDistinct
  <2>10. h[p[2]] = h[q[2]]
         BY <2>9
  <2>11. p[2] = q[2]
    <3>1. p[2] \in Int /\ q[2] \in Int /\ h[p[2]] \in Int
          BY <2>1, <2>6
    <3>2. ~(p[2] < q[2]) /\ ~(q[2] < p[2])
          BY <2>1, <2>4, <2>10, <3>1 DEF Picks
    <3>. QED
         BY <3>1, <3>2
  <2>. QED
       BY <2>1, <2>11
<1>. QED
     BY <1>5, <1>6, <1>8, <1>9, <1>10

\* Where the tool blocks of a compacted transcript come from, and go.
CompactedAt(r, ms, d, kind) ==
    /\ \A q \in Places(r, kind) :
          \/ q[1] \in 1..Len(ms) /\ q \in Places(ms, kind) /\ At(r, q) = At(ms, q)
          \/ /\ q[1] \in (Len(ms) + 2)..(Len(ms) + d)
             /\ <<q[1] - d, q[2]>> \in Places(ms, kind) /\ At(r, q) = At(ms, <<q[1] - d, q[2]>>)
    /\ \A p \in Places(ms, kind) :
          /\ p \in Places(r, kind) /\ At(r, p) = At(ms, p)
          /\ p[1] + d > Len(ms) + 1 =>
                <<p[1] + d, p[2]>> \in Places(r, kind) /\ At(r, <<p[1] + d, p[2]>>) = At(ms, p)

LEMMA CompactedPlaces ==
    ASSUME NEW n, NEW ms \in Seq(Message(n)), NEW r \in Seq(Message(n)), NEW u, NEW d,
           Compacted(r, ms, u, d), NEW kind \in {"use", "result"}
    PROVE  CompactedAt(r, ms, d, kind)
<1>1. /\ Len(ms) \in Nat /\ d \in 1..(Len(ms) + 1) /\ Len(r) = Len(ms) + d
      /\ \A i \in 1..Len(ms) : r[i] = ms[i]
      /\ r[Len(ms) + 1] = Boundary(u)
      /\ \A i \in (Len(ms) + 2)..(Len(ms) + d) : r[i] = ms[i - d]
      BY LenProperties DEF Compacted
<1>2. ASSUME NEW q \in Places(r, kind)
      PROVE  \/ q[1] \in 1..Len(ms) /\ q \in Places(ms, kind) /\ At(r, q) = At(ms, q)
             \/ /\ q[1] \in (Len(ms) + 2)..(Len(ms) + d)
                /\ <<q[1] - d, q[2]>> \in Places(ms, kind)
                /\ At(r, q) = At(ms, <<q[1] - d, q[2]>>)
  <2>1. /\ q = <<q[1], q[2]>> /\ q[1] \in 1..Len(r) /\ r[q[1]].kind = kind
        /\ q[2] \in 1..Len(r[q[1]].items) /\ At(r, q) = r[q[1]].items[q[2]]
        BY PlacesAre
  <2>2. q[1] # Len(ms) + 1
        BY <1>1, <2>1 DEF Boundary
  <2>3. CASE q[1] \in 1..Len(ms)
        BY <1>1, <2>1, <2>3, PlacesAre DEF At
  <2>4. CASE q[1] \notin 1..Len(ms)
    <3> DEFINE i == q[1]
    <3>1. i \in (Len(ms) + 2)..(Len(ms) + d) /\ i - d \in 1..Len(ms)
          BY <1>1, <2>1, <2>2, <2>4
    <3>2. r[i] = ms[i - d]
          BY <1>1, <3>1
    <3>3. <<i - d, q[2]>> \in Places(ms, kind)
          BY <2>1, <3>1, <3>2, PlacesAre
    <3>4. At(ms, <<i - d, q[2]>>) = ms[i - d].items[q[2]]
          BY DEF At
    <3>. QED
         BY <2>1, <3>1, <3>2, <3>3, <3>4
  <2>. QED
       BY <2>3, <2>4
<1>3. ASSUME NEW p \in Places(ms, kind)
      PROVE  /\ p \in Places(r, kind) /\ At(r, p) = At(ms, p)
             /\ p[1] + d > Len(ms) + 1 =>
                   <<p[1] + d, p[2]>> \in Places(r, kind) /\ At(r, <<p[1] + d, p[2]>>) = At(ms, p)
  <2>1. /\ p = <<p[1], p[2]>> /\ p[1] \in 1..Len(ms) /\ ms[p[1]].kind = kind
        /\ p[2] \in 1..Len(ms[p[1]].items) /\ At(ms, p) = ms[p[1]].items[p[2]]
        BY PlacesAre
  <2>2. p \in Places(r, kind) /\ At(r, p) = At(ms, p)
    <3>1. p[1] \in 1..Len(r) /\ r[p[1]] = ms[p[1]]
          BY <1>1, <2>1
    <3>. QED
         BY <2>1, <3>1, PlacesAre DEF At
  <2>3. ASSUME p[1] + d > Len(ms) + 1
        PROVE  /\ <<p[1] + d, p[2]>> \in Places(r, kind)
               /\ At(r, <<p[1] + d, p[2]>>) = At(ms, p)
    <3> DEFINE i == p[1] + d
    <3>1. i \in (Len(ms) + 2)..(Len(ms) + d) /\ i \in 1..Len(r) /\ i - d = p[1]
          BY <1>1, <2>1, <2>3, SMTT(30)
    <3>2. r[i] = ms[p[1]]
          BY <1>1, <3>1
    <3>3. <<i, p[2]>> \in Places(r, kind)
          BY <2>1, <3>1, <3>2, PlacesAre
    <3>4. At(r, <<i, p[2]>>) = r[i].items[p[2]]
          BY DEF At
    <3>. QED
         BY <2>1, <3>2, <3>3, <3>4
  <2>. QED
       BY <2>2, <2>3
<1>. QED
     BY <1>2, <1>3 DEF CompactedAt

\* A compaction keeps all of it: its boundary parts the copies it makes.
LEMMA CompactingKeeps ==
    ASSUME NEW n, NEW ms \in Seq(Message(n)), NEW r \in Seq(Message(n)), NEW u, NEW d,
           Compacted(r, ms, u, d), u \notin Ids(ms),
           OneKindPerId(ms), CopiesApart(ms), CallsDistinct(ms), ClearedFirst(ms)
    PROVE  /\ OneKindPerId(r) /\ CopiesApart(r) /\ CallsDistinct(r) /\ ClearedFirst(r)
           /\ \A v : HasInput(ms, v) => HasInput(r, v)
           /\ \A v : ResultsFollow(ms, v) => ResultsFollow(r, v)
<1>1. /\ Len(ms) \in Nat /\ d \in 1..(Len(ms) + 1) /\ Len(r) = Len(ms) + d
      /\ \A i \in 1..Len(ms) : r[i] = ms[i]
      /\ r[Len(ms) + 1] = Boundary(u)
      /\ \A i \in (Len(ms) + 2)..(Len(ms) + d) : r[i] = ms[i - d]
      /\ \A k \in (Len(ms) + 3 - d)..Len(ms) : ms[k].kind # "boundary"
      BY LenProperties DEF Compacted
<1>2. \A i \in 1..Len(r) :
         \/ i \in 1..Len(ms)
         \/ i = Len(ms) + 1
         \/ i \in (Len(ms) + 2)..(Len(ms) + d) /\ i - d \in 1..Len(ms) /\ i - d >= Len(ms) + 2 - d
      BY <1>1
<1>3. \A i \in 1..Len(ms) : ms[i].id # u
  <2>1. DOMAIN ms = 1..Len(ms)
        BY LenProperties
  <2>. QED
       BY <2>1 DEF Ids
<1>4. r[Len(ms) + 1].id = u /\ r[Len(ms) + 1].kind = "boundary"
      BY <1>1 DEF Boundary
<1>5. \A i \in 1..Len(r) : i # Len(ms) + 1 => \E k \in 1..Len(ms) : r[i] = ms[k]
      BY <1>1, <1>2
<1>6. OneKindPerId(r)
  <2> SUFFICES ASSUME NEW i \in 1..Len(r), NEW j \in 1..Len(r), r[i].id = r[j].id
               PROVE  r[i].kind = r[j].kind
      BY DEF OneKindPerId
  <2>1. CASE i = Len(ms) + 1 \/ j = Len(ms) + 1
        BY <1>3, <1>4, <1>5, <2>1
  <2>2. CASE i # Len(ms) + 1 /\ j # Len(ms) + 1
        BY <1>5, <2>2 DEF OneKindPerId
  <2>. QED
       BY <2>1, <2>2
\* No two of the messages that are copied are copies of one another.
<1>7. ASSUME NEW i \in 1..Len(ms), NEW j \in 1..Len(ms), i >= Len(ms) + 2 - d, i < j,
             ms[i].id = ms[j].id, ms[j].kind # "boundary"
      PROVE  FALSE
  <2>1. PICK k \in 1..Len(ms) : i < k /\ k < j /\ ms[k].kind = "boundary"
        BY <1>7 DEF CopiesApart
  <2>2. k \in (Len(ms) + 3 - d)..Len(ms)
        BY <1>1, <1>7, <2>1
  <2>. QED
       BY <1>1, <2>1, <2>2
<1>8. CopiesApart(r)
  <2> SUFFICES ASSUME NEW i \in 1..Len(r), NEW j \in 1..Len(r),
                      i < j, r[i].id = r[j].id, r[j].kind # "boundary"
               PROVE  \E k \in 1..Len(r) : i < k /\ k < j /\ r[k].kind = "boundary"
      BY DEF CopiesApart
  <2>1. j # Len(ms) + 1 /\ i # Len(ms) + 1
        BY <1>3, <1>4, <1>5
  <2>2. CASE j \in 1..Len(ms)
    <3>1. i \in 1..Len(ms) /\ ms[i].id = ms[j].id /\ ms[j].kind # "boundary"
          BY <1>1, <2>2
    <3>2. PICK k \in 1..Len(ms) : i < k /\ k < j /\ ms[k].kind = "boundary"
          BY <2>2, <3>1 DEF CopiesApart
    <3>. QED
         BY <1>1, <3>2
  <2>3. CASE j \notin 1..Len(ms) /\ i \in 1..Len(ms)
    <3>1. Len(ms) + 1 \in 1..Len(r) /\ i < Len(ms) + 1 /\ Len(ms) + 1 < j
      <4>1. j \in (Len(ms) + 2)..(Len(ms) + d)
            BY <1>2, <2>1, <2>3
      <4>. QED
           BY <1>1, <2>3, <4>1
    <3>. QED
         BY <1>4, <3>1
  <2>4. CASE i \notin 1..Len(ms)
    <3>1. /\ i - d \in 1..Len(ms) /\ j - d \in 1..Len(ms) /\ i - d >= Len(ms) + 2 - d
          /\ r[i] = ms[i - d] /\ r[j] = ms[j - d]
          BY <1>1, <1>2, <2>1, <2>4
    <3>2. i - d < j - d
          BY <1>1
    <3>. QED
         BY <1>7, <3>1, <3>2
  <2>. QED
       BY <2>2, <2>3, <2>4
<1>9. \A kind \in {"use", "result"} : CompactedAt(r, ms, d, kind)
      BY CompactedPlaces
<1>10. \A kind : /\ \A p \in Places(ms, kind) : p = <<p[1], p[2]>> /\ p[1] \in 1..Len(ms)
                 /\ \A p \in Places(r, kind) : p = <<p[1], p[2]>> /\ p[1] \in 1..Len(r)
       BY PlacesAre
<1>11. CallsDistinct(r)
  <2> SUFFICES ASSUME NEW kind \in {"use", "result"}, NEW p \in Places(r, kind),
                      NEW q \in Places(r, kind), p[1] = q[1], At(r, p).call = At(r, q).call
               PROVE  p = q
      BY DEF CallsDistinct
  <2>1. p = <<p[1], p[2]>> /\ q = <<q[1], q[2]>>
        BY <1>10
  <2>2. CASE p[1] \in 1..Len(ms)
    <3>1. /\ p \in Places(ms, kind) /\ At(r, p) = At(ms, p)
          /\ q \in Places(ms, kind) /\ At(r, q) = At(ms, q)
      <4>1. CompactedAt(r, ms, d, kind)
            BY <1>9
      <4>2. \A x \in Places(r, kind) :
               x[1] \in 1..Len(ms) => x \in Places(ms, kind) /\ At(r, x) = At(ms, x)
        <5> TAKE x \in Places(r, kind)
        <5> HAVE x[1] \in 1..Len(ms)
        <5>1. x[1] \notin (Len(ms) + 2)..(Len(ms) + d)
              BY <1>1
        <5>. QED
             BY <4>1, <5>1 DEF CompactedAt
      <4>. QED
           BY <2>2, <4>2
    <3>. QED
         BY <3>1 DEF CallsDistinct
  <2>3. CASE p[1] \notin 1..Len(ms)
    <3> DEFINE x == <<p[1] - d, p[2]>>
               y == <<q[1] - d, q[2]>>
    <3>1. /\ x \in Places(ms, kind) /\ At(r, p) = At(ms, x)
          /\ y \in Places(ms, kind) /\ At(r, q) = At(ms, y)
          BY <1>9, <2>3 DEF CompactedAt
    <3>2. x[1] = y[1] /\ At(ms, x).call = At(ms, y).call
          BY <3>1
    <3>3. x = y
          BY <3>1, <3>2 DEF CallsDistinct
    <3>. QED
         BY <2>1, <3>3
  <2>. QED
       BY <2>2, <2>3
<1>12. ClearedFirst(r)
  <2> SUFFICES ASSUME NEW p \in Places(r, "result"), NEW q \in Places(r, "result"),
                      p[1] < q[1], r[p[1]].id = r[q[1]].id, At(r, p).call = At(r, q).call,
                      At(r, q).body = "cleared"
               PROVE  At(r, p).body = "cleared"
      BY DEF ClearedFirst
  <2> DEFINE x == <<p[1] - d, p[2]>>
             y == <<q[1] - d, q[2]>>
  <2>0. x[1] = p[1] - d /\ y[1] = q[1] - d
        OBVIOUS
  <2>. HIDE DEF x, y
  <2>1. \/ p[1] \in 1..Len(ms) /\ p \in Places(ms, "result") /\ At(r, p) = At(ms, p)
        \/ /\ p[1] \in (Len(ms) + 2)..(Len(ms) + d)
           /\ x \in Places(ms, "result") /\ At(r, p) = At(ms, x)
        BY <1>9 DEF CompactedAt, x
  <2>2. \/ q[1] \in 1..Len(ms) /\ q \in Places(ms, "result") /\ At(r, q) = At(ms, q)
        \/ /\ q[1] \in (Len(ms) + 2)..(Len(ms) + d)
           /\ y \in Places(ms, "result") /\ At(r, q) = At(ms, y)
        BY <1>9 DEF CompactedAt, y
  <2>3. CASE q[1] \in 1..Len(ms)
    <3>1. /\ q \in Places(ms, "result") /\ At(r, q) = At(ms, q)
          /\ p \in Places(ms, "result") /\ At(r, p) = At(ms, p)
          /\ ms[p[1]].id = ms[q[1]].id
          BY <1>1, <1>10, <2>1, <2>2, <2>3
    <3>. QED
         BY <3>1 DEF ClearedFirst
  <2>4. CASE q[1] \notin 1..Len(ms) /\ p[1] \in 1..Len(ms)
    <3>1. /\ p \in Places(ms, "result") /\ At(r, p) = At(ms, p)
          /\ y \in Places(ms, "result") /\ At(r, q) = At(ms, y)
          /\ q[1] \in (Len(ms) + 2)..(Len(ms) + d)
          BY <1>1, <2>1, <2>2, <2>4
    <3>2. /\ y[1] \in 1..Len(ms) /\ y[1] >= Len(ms) + 2 - d /\ ms[y[1]].id = ms[p[1]].id
      <4>1. y[1] \in 1..Len(ms) /\ y[1] >= Len(ms) + 2 - d
            BY <1>1, <2>0, <3>1
      <4>2. r[q[1]] = ms[y[1]] /\ r[p[1]] = ms[p[1]]
            BY <1>1, <2>0, <2>4, <3>1
      <4>. QED
           BY <4>1, <4>2
    <3>3. ms[p[1]].kind # "boundary"
          BY <3>1, PlacesAre
    <3>4. ~(y[1] < p[1])
          BY <1>7, <2>4, <3>2, <3>3
    <3>5. CASE p[1] < y[1]
          BY <3>1, <3>2, <3>5 DEF ClearedFirst
    <3>6. CASE p[1] = y[1]
          BY <3>1, <3>6 DEF CallsDistinct
    <3>. QED
         BY <2>4, <3>2, <3>4, <3>5, <3>6
  <2>5. CASE p[1] \notin 1..Len(ms)
    <3>1. /\ x \in Places(ms, "result") /\ At(r, p) = At(ms, x)
          /\ p[1] \in (Len(ms) + 2)..(Len(ms) + d)
          BY <2>1, <2>5
    <3>2. /\ y \in Places(ms, "result") /\ At(r, q) = At(ms, y)
          /\ q[1] \in (Len(ms) + 2)..(Len(ms) + d)
          BY <1>1, <1>10, <2>2, <3>1
    <3>3. x[1] < y[1] /\ ms[x[1]].id = ms[y[1]].id
          BY <1>1, <2>0, <3>1, <3>2, SMTT(30)
    <3>. QED
         BY <3>1, <3>2, <3>3 DEF ClearedFirst
  <2>. QED
       BY <2>3, <2>4, <2>5
<1>13. \A v : HasInput(ms, v) => HasInput(r, v)
       BY <1>1 DEF HasInput
<1>14. ASSUME NEW v, ResultsFollow(ms, v) PROVE ResultsFollow(r, v)
  <2> SUFFICES ASSUME NEW i \in 1..Len(r), r[i].kind = "user",
                      NEW p \in Places(r, "result"), r[p[1]].id > v
               PROVE  \E q \in Places(r, "result") :
                         i < q[1] /\ r[q[1]].id = r[p[1]].id /\ At(r, q).call = At(r, p).call
      BY DEF ResultsFollow
  <2>1. PICK x \in Places(ms, "result") : At(r, p) = At(ms, x) /\ r[p[1]].id = ms[x[1]].id
    <3>1. CASE p[1] \in 1..Len(ms)
          BY <1>1, <1>9, <3>1 DEF CompactedAt
    <3>2. CASE p[1] \notin 1..Len(ms)
      <4>1. /\ p[1] \in (Len(ms) + 2)..(Len(ms) + d)
            /\ <<p[1] - d, p[2]>> \in Places(ms, "result")
            /\ At(r, p) = At(ms, <<p[1] - d, p[2]>>)
            BY <1>9, <3>2 DEF CompactedAt
      <4>2. r[p[1]] = ms[<<p[1] - d, p[2]>>[1]]
            BY <1>1, <4>1
      <4>. QED
           BY <4>1, <4>2
    <3>. QED
         BY <3>1, <3>2
  <2>2. CASE i \in 1..Len(ms)
    <3>1. PICK y \in Places(ms, "result") :
                 i < y[1] /\ ms[y[1]].id = ms[x[1]].id /\ At(ms, y).call = At(ms, x).call
          BY <1>1, <1>14, <2>1, <2>2 DEF ResultsFollow
    <3>2. y \in Places(r, "result") /\ At(r, y) = At(ms, y)
          BY <1>9 DEF CompactedAt
    <3>3. r[y[1]] = ms[y[1]]
          BY <1>1, <1>10
    <3>. QED
         BY <2>1, <3>1, <3>2, <3>3
  <2>3. CASE i \notin 1..Len(ms)
    <3>1. /\ i \in (Len(ms) + 2)..(Len(ms) + d) /\ i - d \in 1..Len(ms)
          /\ ms[i - d].kind = "user" /\ i - d >= Len(ms) + 2 - d
          BY <1>1, <1>2, <1>4, <2>3
    <3>2. PICK y \in Places(ms, "result") :
                 i - d < y[1] /\ ms[y[1]].id = ms[x[1]].id /\ At(ms, y).call = At(ms, x).call
          BY <1>14, <2>1, <3>1 DEF ResultsFollow
    <3>3. y[1] \in 1..Len(ms)
          BY <1>10
    <3> DEFINE z == <<y[1] + d, y[2]>>
    <3>4. /\ y[1] + d > Len(ms) + 1 /\ y[1] + d \in (Len(ms) + 2)..(Len(ms) + d)
          /\ i < y[1] + d /\ (y[1] + d) - d = y[1]
          BY <1>1, <3>1, <3>2, <3>3
    <3>5. z \in Places(r, "result") /\ At(r, z) = At(ms, y)
          BY <1>9, <3>4 DEF CompactedAt
    <3>6. z[1] = y[1] + d /\ r[z[1]] = ms[y[1]]
          BY <1>1, <3>4
    <3>. HIDE DEF z
    <3>. QED
         BY <2>1, <3>2, <3>4, <3>5, <3>6
  <2>. QED
       BY <2>2, <2>3
<1>. QED
     BY <1>6, <1>8, <1>11, <1>12, <1>13, <1>14

-----------------------------------------------------------------------------
(* Microcompaction *)

LEMMA PlacesFinite ==
    ASSUME NEW n, NEW ms \in Seq(Message(n)), NEW kind
    PROVE  IsFiniteSet(Places(ms, kind))
<1> DEFINE Row(i) == {<<i, j>> : j \in 1..Len(ms[i].items)}
           I == {i \in 1..Len(ms) : ms[i].kind = kind}
           f == [i \in I |-> Row(i)]
           T == {f[i] : i \in I}
<1>1. Len(ms) \in Nat /\ \A i \in 1..Len(ms) : Len(ms[i].items) \in Nat
      BY LenProperties, PlacesAre
<1>2. IsFiniteSet(I)
  <2>1. IsFiniteSet(1..Len(ms))
        BY <1>1, FS_Interval
  <2>. QED
       BY <2>1, FS_Subset
<1>3. IsFiniteSet(T)
  <2>1. f \in Surjection(I, T)
        BY DEF Surjection
  <2>. HIDE DEF f, T, I
  <2>. QED
       BY <1>2, <2>1, FS_Surjection
<1>4. \A i \in I : IsFiniteSet(Row(i))
  <2> TAKE i \in I
  <2> DEFINE J == 1..Len(ms[i].items)
             R == Row(i)
             h == [j \in J |-> <<i, j>>]
  <2>1. IsFiniteSet(J)
    <3>1. 1 \in Int /\ Len(ms[i].items) \in Int
          BY <1>1
    <3>. QED
         BY <3>1, FS_Interval
  <2>2. h \in Surjection(J, R)
        BY DEF Surjection
  <2>. HIDE DEF h, J, R
  <2>3. IsFiniteSet(R)
        BY <2>1, <2>2, FS_Surjection
  <2>. QED
       BY <2>3 DEF R
<1>5. \A S \in T : IsFiniteSet(S)
      BY <1>4
<1>6. Places(ms, kind) \subseteq UNION T
  <2> SUFFICES ASSUME NEW p \in Places(ms, kind) PROVE p \in UNION T
      OBVIOUS
  <2>1. /\ p = <<p[1], p[2]>> /\ p[1] \in I /\ p[2] \in 1..Len(ms[p[1]].items)
        BY PlacesAre
  <2>2. p \in f[p[1]] /\ f[p[1]] \in T
        BY <2>1
  <2>. QED
       BY <2>2
<1>. HIDE DEF T
<1>7. IsFiniteSet(UNION T)
      BY <1>3, <1>5, FS_UNION
<1>. QED
     BY <1>6, <1>7, FS_Subset

\* What is older has at least as many newer ones.
LEMMA OlderHasMoreNewer ==
    ASSUME NEW n, NEW ms \in Seq(Message(n)), NEW C, C \subseteq Places(ms, "result"),
           NEW p \in C, NEW q \in C, Before(p, q)
    PROVE  /\ Cardinality({x \in C : Before(q, x)}) \in Nat
           /\ Cardinality({x \in C : Before(p, x)}) \in Nat
           /\ Cardinality({x \in C : Before(q, x)}) <= Cardinality({x \in C : Before(p, x)})
<1> DEFINE P == {x \in C : Before(p, x)}
           Q == {x \in C : Before(q, x)}
<1>1. \A x \in C : x[1] \in Nat /\ x[2] \in Nat
      BY PlacesAre
<1>2. Q \subseteq P
      BY <1>1 DEF Before
<1>3. IsFiniteSet(C)
      BY PlacesFinite, FS_Subset
<1>. HIDE DEF P, Q
<1>4. P \subseteq C /\ Q \subseteq C
      BY DEF P, Q
<1>5. IsFiniteSet(P) /\ IsFiniteSet(Q)
      BY <1>3, <1>4, FS_Subset
<1>6. Cardinality(Q) <= Cardinality(P) /\ Cardinality(P) \in Nat /\ Cardinality(Q) \in Nat
      BY <1>2, <1>5, FS_Subset, FS_CardinalityType
<1>. QED
     BY <1>6 DEF P, Q

LEMMA MicrocompactKeeps ==
    ASSUME NEW n, NEW ms \in Seq(Message(n))
    PROVE  LET r == Microcompact(ms)
               places == RepliesOf(ms, Compactable) \ RecentCompactable(ms)
           IN  /\ r \in Seq(Message(n)) /\ Rewritten(r, ms, places, "cleared")
               /\ places \subseteq Places(ms, "result")
               /\ ClearedFirst(ms) => ClearedFirst(r)
<1> DEFINE C == RepliesOf(ms, Compactable)
           places == C \ RecentCompactable(ms)
           r == Microcompact(ms)
<1>1. C \subseteq Places(ms, "result") /\ places \subseteq Places(ms, "result")
      BY DEF RepliesOf
<1>2. r \in Seq(Message(n)) /\ Rewritten(r, ms, places, "cleared")
  <2>1. r = Rewrite(ms, places, "cleared")
        BY DEF Microcompact
  <2>. HIDE DEF r, places
  <2>. QED
       BY <1>1, <2>1, RewriteShape DEF Bodies
<1>. HIDE DEF r
<1>3. SamePlaces(r, ms, places, "cleared")
  <2>. HIDE DEF places
  <2>. QED
       BY <1>1, <1>2, RewrittenPlaces
<1>4. ASSUME ClearedFirst(ms) PROVE ClearedFirst(r)
  <2> SUFFICES ASSUME NEW p \in Places(r, "result"), NEW q \in Places(r, "result"),
                      p[1] < q[1], r[p[1]].id = r[q[1]].id, At(r, p).call = At(r, q).call,
                      At(r, q).body = "cleared"
               PROVE  At(r, p).body = "cleared"
      BY DEF ClearedFirst
  <2>1. /\ p \in Places(ms, "result") /\ q \in Places(ms, "result")
        /\ At(ms, p).call = At(ms, q).call
        BY <1>3 DEF SamePlaces
  <2>2. p[1] \in 1..Len(ms) /\ q[1] \in 1..Len(ms)
        BY <2>1, PlacesAre
  <2>3. ms[p[1]].id = ms[q[1]].id
        BY <1>2, <2>2 DEF Rewritten
  <2>4. CASE p \in places
        BY <1>3, <2>1, <2>4 DEF SamePlaces
  <2>5. CASE p \notin places
    <3>1. At(r, p) = At(ms, p)
          BY <1>3, <2>1, <2>5 DEF SamePlaces
    <3>2. CASE q \notin places
      <4>1. At(r, q) = At(ms, q)
            BY <1>3, <2>1, <3>2 DEF SamePlaces
      <4>. QED
           BY <1>4, <2>1, <2>3, <3>1, <4>1 DEF ClearedFirst
    <3>3. CASE q \in places
      <4>1. q \in C /\ p \in C
            BY <2>1, <3>3 DEF RepliesOf
      <4>2. Before(p, q)
            BY DEF Before
      <4>. HIDE DEF C
      <4>3. /\ Cardinality({x \in C : Before(q, x)}) \in Nat
            /\ Cardinality({x \in C : Before(p, x)}) \in Nat
            /\ Cardinality({x \in C : Before(q, x)}) <= Cardinality({x \in C : Before(p, x)})
            BY <1>1, <4>1, <4>2, OlderHasMoreNewer
      <4>4. p \in RecentCompactable(ms) /\ q \notin RecentCompactable(ms)
            BY <2>5, <3>3, <4>1
      <4>5. /\ Cardinality({x \in C : Before(p, x)}) < KeepMicro
            /\ ~(Cardinality({x \in C : Before(q, x)}) < KeepMicro)
            BY <4>1, <4>4, Zenon DEF RecentCompactable, C
      <4>. QED
           BY <4>3, <4>5, Quotas
    <3>. QED
         BY <3>2, <3>3
  <2>. QED
       BY <2>4, <2>5
<1>. QED
     BY <1>1, <1>2, <1>4 DEF r

-----------------------------------------------------------------------------
(* The engine's snip *)

LEMMA LastUseIsUse ==
    ASSUME NEW n, NEW ms \in Seq(Message(n)), NEW c \in CallIds(ms)
    PROVE  LastUse(ms, c) \in Places(ms, "use") /\ At(ms, LastUse(ms, c)).call = c
<1> DEFINE U == {p \in Places(ms, "use") : At(ms, p).call = c}
           I == {p[1] : p \in U}
           i == Max(I)
           J == {j \in 1..Len(ms[i].items) : <<i, j>> \in U}
           j == Max(J)
<1>1. \A p \in U : /\ p = <<p[1], p[2]>> /\ p[1] \in 1..Len(ms)
                   /\ p[2] \in 1..Len(ms[p[1]].items)
      BY PlacesAre
<1>2. U # {}
      BY DEF CallIds
<1>3. Len(ms) \in Nat /\ \A k \in 1..Len(ms) : Len(ms[k].items) \in Nat
      BY LenProperties, PlacesAre
<1>. HIDE DEF U
<1>4. i \in I /\ \A x \in I : i >= x
  <2>1. I \subseteq 0..Len(ms) /\ I # {}
        BY <1>1, <1>2, <1>3
  <2>. HIDE DEF I
  <2>. QED
       BY <1>3, <2>1, MaxIsGreatest
<1>5. PICK p \in U : p[1] = i
      BY <1>4
<1>6. i \in 1..Len(ms)
      BY <1>1, <1>5
<1>. HIDE DEF i
<1>7. j \in J /\ \A x \in J : j >= x
  <2>1. p[2] \in J
        BY <1>1, <1>5
  <2>2. Len(ms[i].items) \in Nat
        BY <1>3, <1>6
  <2>3. J \subseteq 0..Len(ms[i].items) /\ J # {}
    <3>1. J \subseteq 1..Len(ms[i].items)
          OBVIOUS
    <3>. HIDE DEF J
    <3>2. \A k \in J : k \in 0..Len(ms[i].items)
          BY <2>2, <3>1
    <3>. QED
         BY <2>1, <3>2
  <2>. HIDE DEF J
  <2>. QED
       BY <2>2, <2>3, MaxIsGreatest
<1>. HIDE DEF j
<1> DEFINE x == <<i, j>>
<1>8. x \in U /\ x[1] = i /\ x[2] = j
      BY <1>7
<1>. HIDE DEF x
<1>9. \A q \in U : ~Before(x, q)
  <2> TAKE q \in U
  <2>1. i >= q[1] /\ i \in Int /\ q[1] \in Int
    <3>1. q[1] \in I
          OBVIOUS
    <3>. QED
         BY <1>1, <1>4, <1>6, <3>1
  <2>2. q[1] = i => j >= q[2] /\ j \in Int /\ q[2] \in Int
    <3>. SUFFICES ASSUME q[1] = i PROVE j >= q[2] /\ j \in Int /\ q[2] \in Int
         OBVIOUS
    <3>1. q[2] \in J
          BY <1>1
    <3>. QED
         BY <1>7, <3>1
  <2>. QED
       BY <1>8, <2>1, <2>2 DEF Before
<1>10. \E y \in Places(ms, "use") :
          /\ At(ms, y).call = c
          /\ \A q \in Places(ms, "use") : At(ms, q).call = c => ~Before(y, q)
       BY <1>8, <1>9, Zenon DEF U
<1>. QED
     BY <1>10, Zenon DEF LastUse

LEMMA EvictedPlaces ==
    ASSUME NEW n, NEW ms \in Seq(Message(n)), NEW k
    PROVE  /\ Orphans(ms) \cup AncientPairs(ms, k)
                 \subseteq Places(ms, "use") \cup Places(ms, "result")
           /\ \A p \in AncientPairs(ms, k) :
                 p \in Places(ms, "result") =>
                    /\ p \in ClearedPairs(ms)
                    /\ Cardinality({i \in ClearedMessages(ms) : i < p[1]}) < k
           /\ \A p \in ClearedPairs(ms) :
                 Cardinality({i \in ClearedMessages(ms) : i < p[1]}) < k => p \in AncientPairs(ms, k)
           /\ \A p \in AncientPairs(ms, k) \cap Places(ms, "use") :
                 \E x \in ClearedPairs(ms) : At(ms, x).call = At(ms, p).call
           /\ \A p \in AncientPairs(ms, k) \cap Places(ms, "result") :
                 AncientPairs(ms, k) \cap Places(ms, "use") # {}
<1> DEFINE old == {i \in ClearedMessages(ms) : Cardinality({l \in ClearedMessages(ms) : l < i}) < k}
           gone == {p \in ClearedPairs(ms) : p[1] \in old}
           uses == {LastUse(ms, At(ms, p).call) : p \in gone}
<1>1. AncientPairs(ms, k) = gone \cup uses
      BY DEF AncientPairs
<1>2. gone \subseteq Places(ms, "result") /\ \A p \in gone : At(ms, p).call \in CallIds(ms)
      BY DEF ClearedPairs
<1>3. /\ uses \subseteq Places(ms, "use")
      /\ \A p \in uses : \E x \in gone : At(ms, x).call = At(ms, p).call
      /\ gone # {} => uses # {}
  <2>. HIDE DEF gone
  <2>. QED
       BY <1>2, LastUseIsUse
<1>4. Orphans(ms) \subseteq Places(ms, "use") \cup Places(ms, "result")
      BY DEF Orphans
<1>5. \A p \in ClearedPairs(ms) : p[1] \in ClearedMessages(ms)
      BY DEF ClearedMessages
<1>6. \A p \in gone : /\ p \in ClearedPairs(ms)
                      /\ Cardinality({i \in ClearedMessages(ms) : i < p[1]}) < k
      OBVIOUS
<1>7. \A p \in ClearedPairs(ms) :
         Cardinality({i \in ClearedMessages(ms) : i < p[1]}) < k => p \in gone
      BY <1>5
<1>. HIDE DEF gone, uses
<1>8. \A p \in AncientPairs(ms, k) : p \in Places(ms, "result") => p \in gone
      BY <1>1, <1>3, ItemAt
<1>9. \A p \in AncientPairs(ms, k) \cap Places(ms, "use") :
         \E x \in ClearedPairs(ms) : At(ms, x).call = At(ms, p).call
  <2>1. \A p \in gone : p \notin Places(ms, "use")
        BY <1>2, ItemAt
  <2>. QED
       BY <1>1, <1>3, <1>6, <2>1
<1>10. \A p \in AncientPairs(ms, k) \cap Places(ms, "result") :
          AncientPairs(ms, k) \cap Places(ms, "use") # {}
       BY <1>1, <1>3, <1>8
<1>. QED
     BY <1>1, <1>2, <1>3, <1>4, <1>6, <1>7, <1>8, <1>9, <1>10

\* The transcript with its snipped bodies, and the places an engine snip then deletes.
Folded(ms)     == Rewrite(ms, PositionsToSnip(ms), "snipped")
Evicted(ms, k) == Orphans(ms) \cup AncientPairs(ms, k)

LEMMA FoldedShape ==
    ASSUME NEW n, NEW ms \in Seq(Message(n))
    PROVE  /\ Folded(ms) \in Seq(Message(n))
           /\ PositionsToSnip(ms) \subseteq Places(ms, "result")
           /\ \A p \in PositionsToSnip(ms) : At(ms, p).body = "full"
           /\ Rewritten(Folded(ms), ms, PositionsToSnip(ms), "snipped")
           /\ SamePlaces(Folded(ms), ms, PositionsToSnip(ms), "snipped")
           /\ ClearedFirst(ms) => ClearedFirst(Folded(ms))
<1> DEFINE S == PositionsToSnip(ms)
           f == Folded(ms)
<1>1. S \subseteq Places(ms, "result") /\ \A p \in S : At(ms, p).body = "full"
  <2> SUFFICES ASSUME NEW p \in PositionsToSnip(ms)
               PROVE  p \in Places(ms, "result") /\ At(ms, p).body = "full"
      OBVIOUS
  <2> DEFINE Live(t) == {x \in RepliesOf(ms, {t}) : At(ms, x).body = "full"}
             Newer(x, t) == {q \in Live(t) : Before(x, q)}
             Older(t) == {x \in Live(t) : Newer(x, t) # {}}
             Beyond(t) == {x \in Live(t) : Cardinality(Newer(x, t)) >= KeepSnip}
  <2>1. p \in (UNION {Older(t) : t \in PerPath}) \cup (UNION {Beyond(t) : t \in Global})
        BY Zenon DEF PositionsToSnip
  <2>2. \A t : Older(t) \subseteq Live(t) /\ Beyond(t) \subseteq Live(t)
        OBVIOUS
  <2>. HIDE DEF Older, Beyond
  <2>3. \E t : p \in Older(t) \/ p \in Beyond(t)
    <3>1. \A X, Y : p \in (UNION X) \cup (UNION Y) => (\E A \in X : p \in A) \/ (\E B \in Y : p \in B)
          OBVIOUS
    <3>2. \/ \E A \in {Older(t) : t \in PerPath} : p \in A
          \/ \E B \in {Beyond(t) : t \in Global} : p \in B
          BY <2>1, <3>1, Zenon
    <3>. QED
         BY <3>2, Zenon
  <2>4. \E t : p \in Live(t)
    <3>. HIDE DEF Live
    <3>1. PICK t : p \in Older(t) \/ p \in Beyond(t)
          BY <2>3
    <3>. QED
         BY <2>2, <3>1
  <2>. QED
       BY <2>4 DEF RepliesOf
<1>2. f \in Seq(Message(n)) /\ Rewritten(f, ms, S, "snipped")
  <2>1. f = Rewrite(ms, S, "snipped")
        BY DEF Folded
  <2>. HIDE DEF f, S
  <2>. QED
       BY <1>1, <2>1, RewriteShape DEF Bodies
<1>. HIDE DEF f, S
<1>3. SamePlaces(f, ms, S, "snipped")
      BY <1>1, <1>2, RewrittenPlaces
<1>4. ASSUME ClearedFirst(ms) PROVE ClearedFirst(f)
  <2> SUFFICES ASSUME NEW p \in Places(f, "result"), NEW q \in Places(f, "result"),
                      p[1] < q[1], f[p[1]].id = f[q[1]].id, At(f, p).call = At(f, q).call,
                      At(f, q).body = "cleared"
               PROVE  At(f, p).body = "cleared"
      BY DEF ClearedFirst
  <2>1. /\ p \in Places(ms, "result") /\ q \in Places(ms, "result")
        /\ At(ms, p).call = At(ms, q).call
        BY <1>3 DEF SamePlaces
  <2>2. p[1] \in 1..Len(ms) /\ q[1] \in 1..Len(ms)
        BY <2>1, PlacesAre
  <2>3. ms[p[1]].id = ms[q[1]].id
        BY <1>2, <2>2 DEF Rewritten
  <2>4. q \notin S /\ At(f, q) = At(ms, q)
        BY <1>3, <2>1 DEF SamePlaces
  <2>5. At(ms, p).body = "cleared"
        BY <1>4, <2>1, <2>3, <2>4 DEF ClearedFirst
  <2>6. p \notin S /\ At(f, p) = At(ms, p)
        BY <1>1, <1>3, <2>1, <2>5 DEF SamePlaces
  <2>. QED
       BY <2>5, <2>6
<1>. QED
     BY <1>1, <1>2, <1>3, <1>4 DEF f, S

LEMMA SnipShape ==
    ASSUME NEW n, NEW ms \in Seq(Message(n)), NEW u \in 1..n, NEW k
    PROVE  LET f == Folded(ms)
               E == Evicted(ms, k)
               r == Snip(ms, k, u)
           IN  /\ r \in Seq(Message(n))
               /\ \E t, g : Thinned(r, f, Kept(f, E), E, u, t, g)
<1> DEFINE f == Folded(ms)
           E == Evicted(ms, k)
           r == Snip(ms, k, u)
<1>1. f \in Seq(Message(n)) /\ SamePlaces(f, ms, PositionsToSnip(ms), "snipped")
      BY FoldedShape
<1>2. r = DeletePlaces(f, E, u)
      BY Zenon DEF Snip, Folded, Evicted
<1>. HIDE DEF f, r
<1>3. E \subseteq Places(f, "use") \cup Places(f, "result")
  <2>1. Orphans(ms) \cup AncientPairs(ms, k) \subseteq Places(ms, "use") \cup Places(ms, "result")
        BY EvictedPlaces
  <2>. QED
       BY <1>1, <2>1 DEF Evicted, SamePlaces
<1>. HIDE DEF E
<1>4. r \in Seq(Message(n)) /\ \E t, g : Thinned(r, f, Kept(f, E), E, u, t, g)
      BY <1>1, <1>2, <1>3, DeletePlacesShape
<1>. QED
     BY <1>4 DEF r, f, E

\* Emptied messages go, others stay.
LEMMA KeptMessages ==
    ASSUME NEW n, NEW ms \in Seq(Message(n)), NEW places
    PROVE  /\ Kept(ms, places) \subseteq 1..Len(ms)
           /\ \A i \in 1..Len(ms) : ms[i].kind \notin {"use", "result"} => i \in Kept(ms, places)
           /\ \A kind : \A p \in Places(ms, kind) \ places : p[1] \in Kept(ms, places)
<1>1. /\ DOMAIN ms = 1..Len(ms)
      /\ \A i \in 1..Len(ms) : ms[i] \in Message(n)
      BY LenProperties
<1>2. \A i \in 1..Len(ms) : ms[i].kind \notin {"use", "result"} => ms[i].items = <<>>
      BY <1>1, MessageParts
<1>3. \A i \in 1..Len(ms) : DOMAIN ms[i].items = 1..Len(ms[i].items)
      BY <1>1, MessageParts, LenProperties
<1>4. ASSUME NEW kind, NEW p \in Places(ms, kind) \ places PROVE p[1] \in Kept(ms, places)
  <2>1. /\ p = <<p[1], p[2]>> /\ p[1] \in 1..Len(ms) /\ p[2] \in 1..Len(ms[p[1]].items)
        BY PlacesAre
  <2>2. p[2] \in Left(ms, places, p[1])
        BY <1>3, <2>1 DEF Left
  <2>. QED
       BY <1>1, <2>1, <2>2 DEF Kept
<1>. QED
     BY <1>1, <1>2, <1>4 DEF Kept

\* A full result that is not folded and has its call outlives the snip, as it is.
LEMMA SnipSpares ==
    ASSUME NEW n, NEW ms \in Seq(Message(n)), NEW u \in 1..n, NEW k,
           NEW p \in Places(ms, "result"), At(ms, p).body = "full",
           At(ms, p).call \in CallIds(ms), p \notin PositionsToSnip(ms)
    PROVE  \E q \in Places(Snip(ms, k, u), "result") : At(Snip(ms, k, u), q) = At(ms, p)
<1> DEFINE f == Folded(ms)
           E == Evicted(ms, k)
           r == Snip(ms, k, u)
<1>1. f \in Seq(Message(n)) /\ SamePlaces(f, ms, PositionsToSnip(ms), "snipped")
      BY FoldedShape
<1>2. r \in Seq(Message(n)) /\ \E t, g : Thinned(r, f, Kept(f, E), E, u, t, g)
      BY SnipShape
<1>. HIDE DEF f, r
<1>3. p \in Places(f, "result") /\ At(f, p) = At(ms, p) /\ At(f, p).call \in CallIds(f)
      BY <1>1 DEF SamePlaces
<1>4. p \notin E
  <2>1. p \notin Orphans(ms)
    <3>1. p \notin Places(ms, "use")
          BY ItemAt
    <3>. QED
         BY <3>1 DEF Orphans
  <2>2. p \notin AncientPairs(ms, k)
    <3>1. p \notin ClearedPairs(ms)
          BY DEF ClearedPairs
    <3>. QED
         BY <3>1, EvictedPlaces
  <2>. QED
       BY <2>1, <2>2 DEF Evicted
<1>. HIDE DEF E
<1>5. PICK t, g : Thinned(r, f, Kept(f, E), E, u, t, g)
      BY <1>2
<1>6. Kept(f, E) \subseteq 1..Len(f) /\ p[1] \in Kept(f, E)
      BY <1>1, <1>3, <1>4, KeptMessages
<1>7. PlacesFrom(r, f, Kept(f, E), E, g, "result")
      BY <1>1, <1>2, <1>5, <1>6, ThinnedPlaces
<1>8. \E q \in Places(r, "result") : At(r, q) = At(f, p)
      BY <1>3, <1>4, <1>6, <1>7 DEF PlacesFrom
<1>. QED
     BY <1>3, <1>8 DEF r

LEMMA FewerBefore ==
    ASSUME NEW n, NEW ms \in Seq(Message(n)), NEW a \in Nat, NEW b \in Nat, a < b
    PROVE  LET fewer == {i \in ClearedMessages(ms) : i < a}
               more  == {i \in ClearedMessages(ms) : i < b}
           IN  /\ Cardinality(fewer) \in Nat /\ Cardinality(more) \in Nat
               /\ Cardinality(fewer) <= Cardinality(more)
<1> DEFINE fewer == {i \in ClearedMessages(ms) : i < a}
           more  == {i \in ClearedMessages(ms) : i < b}
<1>1. ClearedMessages(ms) \subseteq 1..Len(ms)
  <2>1. \A p \in ClearedPairs(ms) : p[1] \in 1..Len(ms)
        BY PlacesAre DEF ClearedPairs
  <2>. QED
       BY <2>1 DEF ClearedMessages
<1>2. fewer \subseteq more /\ more \subseteq 1..Len(ms)
      BY <1>1
<1>3. IsFiniteSet(1..Len(ms))
      BY LenProperties, FS_Interval
<1>. HIDE DEF fewer, more
<1>4. IsFiniteSet(more) /\ IsFiniteSet(fewer)
      BY <1>2, <1>3, FS_Subset
<1>5. Cardinality(fewer) <= Cardinality(more) /\ Cardinality(fewer) \in Nat /\ Cardinality(more) \in Nat
      BY <1>2, <1>4, FS_Subset, FS_CardinalityType
<1>. QED
     BY <1>5 DEF fewer, more

\* A copy of a result is evicted only after all older ones.
LEMMA OlderCopyIsEvicted ==
    ASSUME NEW n, NEW ms \in Seq(Message(n)), NEW k \in Int, ClearedFirst(ms),
           NEW x \in Places(ms, "result"), NEW y \in Places(ms, "result"),
           x[1] < y[1], ms[x[1]].id = ms[y[1]].id, At(ms, x).call = At(ms, y).call,
           y \in Evicted(ms, k)
    PROVE  x \in Evicted(ms, k)
<1>1. x[1] \in Nat /\ y[1] \in Nat
      BY PlacesAre
<1>2. y \notin Places(ms, "use")
      BY ItemAt
<1>3. CASE y \in Orphans(ms)
      BY <1>2, <1>3 DEF Orphans, Evicted
<1>4. CASE y \in AncientPairs(ms, k)
  <2>1. y \in ClearedPairs(ms) /\ Cardinality({i \in ClearedMessages(ms) : i < y[1]}) < k
        BY <1>4, EvictedPlaces
  <2>2. At(ms, x).body = "cleared"
        BY <2>1 DEF ClearedFirst, ClearedPairs
  <2>3. x \in ClearedPairs(ms)
        BY <2>1, <2>2 DEF ClearedPairs
  <2> DEFINE fewer == Cardinality({i \in ClearedMessages(ms) : i < x[1]})
             more  == Cardinality({i \in ClearedMessages(ms) : i < y[1]})
  <2>4. fewer \in Nat /\ more \in Nat /\ fewer <= more
        BY <1>1, FewerBefore
  <2>5. fewer < k
    <3>1. more < k
          BY <2>1
    <3>. HIDE DEF fewer, more
    <3>. QED
         BY <2>4, <3>1
  <2>6. x \in AncientPairs(ms, k)
        BY <2>3, <2>5, EvictedPlaces
  <2>. QED
       BY <2>6 DEF Evicted
<1>. QED
     BY <1>3, <1>4 DEF Evicted

LEMMA SnipFollows ==
    ASSUME NEW n, NEW ms \in Seq(Message(n)), NEW u \in 1..n, NEW k \in Int, NEW v,
           ClearedFirst(ms), ResultsFollow(ms, v)
    PROVE  ResultsFollow(Snip(ms, k, u), v)
<1> DEFINE f == Folded(ms)
           E == Evicted(ms, k)
           r == Snip(ms, k, u)
<1>1. /\ f \in Seq(Message(n)) /\ PositionsToSnip(ms) \subseteq Places(ms, "result")
      /\ Rewritten(f, ms, PositionsToSnip(ms), "snipped")
      /\ SamePlaces(f, ms, PositionsToSnip(ms), "snipped")
      BY FoldedShape
<1>2. r \in Seq(Message(n)) /\ \E t, g : Thinned(r, f, Kept(f, E), E, u, t, g)
      BY SnipShape
<1>. HIDE DEF f, r
<1>3. ResultsFollow(f, v)
      BY <1>1, RewritingKeeps
<1>4. \A x \in Places(f, "result") : /\ x \in Places(ms, "result") /\ x[1] \in 1..Len(f)
                                     /\ f[x[1]].id = ms[x[1]].id /\ At(f, x).call = At(ms, x).call
  <2>1. \A x \in Places(f, "result") : x[1] \in 1..Len(f)
        BY <1>1, PlacesAre
  <2>. QED
       BY <1>1, <2>1 DEF SamePlaces, Rewritten
<1>5. PICK t, g : Thinned(r, f, Kept(f, E), E, u, t, g)
      BY <1>2
<1> DEFINE K == Kept(f, E)
<1>6. K \subseteq 1..Len(f) /\ \A p \in Places(f, "result") \ E : p[1] \in K
      BY <1>1, KeptMessages
<1>7. MessagesFrom(r, f, K, E, u, g) /\ PlacesFrom(r, f, K, E, g, "result")
      BY <1>1, <1>2, <1>5, <1>6, ThinnedPlaces
<1>8. \A i, j \in 1..Len(r) : i < j /\ g[i] # 0 /\ g[j] # 0 => g[i] < g[j]
      BY <1>5 DEF Thinned, Spliced
<1>9. Len(r) \in Nat /\ Len(f) \in Nat
      BY <1>1, <1>2, LenProperties
<1>. HIDE DEF K
<1> SUFFICES ASSUME NEW i \in 1..Len(r), r[i].kind = "user",
                    NEW p \in Places(r, "result"), r[p[1]].id > v
             PROVE  \E q \in Places(r, "result") :
                       i < q[1] /\ r[q[1]].id = r[p[1]].id /\ At(r, q).call = At(r, p).call
    BY Zenon DEF ResultsFollow, r
<1>10. PICK x \in Places(f, "result") \ E :
           x[1] = g[p[1]] /\ At(r, p) = At(f, x) /\ r[p[1]].id = f[x[1]].id
       BY <1>7 DEF PlacesFrom
<1>11. g[i] # 0 /\ g[i] \in 1..Len(f) /\ f[g[i]].kind = "user"
       BY <1>7 DEF MessagesFrom, SnipBoundary
<1>12. p[1] \in 1..Len(r) /\ r[p[1]].kind = "result"
       BY <1>2, PlacesAre
<1>13. CASE i < p[1]
       BY <1>13
<1>14. CASE ~(i < p[1])
  <2>1. x[1] < g[i]
    <3>1. p[1] < i
          BY <1>9, <1>12, <1>14
    <3>2. x[1] # 0
          BY <1>4, <1>9
    <3>. QED
         BY <1>8, <1>10, <1>11, <1>12, <3>1, <3>2
  <2>2. PICK y \in Places(f, "result") :
            g[i] < y[1] /\ f[y[1]].id = f[x[1]].id /\ At(f, y).call = At(f, x).call
        BY <1>3, <1>10, <1>11 DEF ResultsFollow
  <2>3. x[1] < y[1]
        BY <1>4, <1>9, <1>11, <2>1, <2>2
  <2>4. y \notin E
        BY <1>4, <2>2, <2>3, OlderCopyIsEvicted
  <2>5. PICK q \in Places(r, "result") :
            y[1] = g[q[1]] /\ At(r, q) = At(f, y) /\ r[q[1]].id = f[y[1]].id
        BY <1>6, <1>7, <2>4 DEF PlacesFrom
  <2>6. i < q[1]
    <3>1. q[1] \in 1..Len(r) /\ g[q[1]] # 0
          BY <1>2, <1>4, <1>9, <2>5, PlacesAre, SMTT(30)
    <3>2. ASSUME q[1] < i PROVE FALSE
          BY <1>4, <1>8, <1>9, <1>11, <2>2, <2>5, <3>1, <3>2, SMTT(30)
    <3>3. q[1] # i
          BY <1>4, <1>9, <1>11, <2>2, <2>5
    <3>. QED
         BY <1>9, <3>1, <3>2, <3>3
  <2>. QED
       BY <1>10, <2>2, <2>5, <2>6
<1>. QED
     BY <1>13, <1>14

\* An engine snip keeps all that is said of a session's transcripts.
LEMMA SnipKeeps ==
    ASSUME NEW n, NEW ms \in Seq(Message(n)), NEW u \in 1..n, NEW k \in Int, u \notin Ids(ms),
           OneKindPerId(ms), CopiesApart(ms), CallsDistinct(ms), ClearedFirst(ms)
    PROVE  LET r == Snip(ms, k, u)
           IN  /\ r \in Seq(Message(n))
               /\ OneKindPerId(r) /\ CopiesApart(r) /\ CallsDistinct(r) /\ ClearedFirst(r)
               /\ \A v : HasInput(ms, v) => HasInput(r, v)
               /\ \A v : ResultsFollow(ms, v) => ResultsFollow(r, v)
<1> DEFINE f == Folded(ms)
           E == Evicted(ms, k)
           r == Snip(ms, k, u)
<1>1. /\ f \in Seq(Message(n)) /\ PositionsToSnip(ms) \subseteq Places(ms, "result")
      /\ Rewritten(f, ms, PositionsToSnip(ms), "snipped") /\ ClearedFirst(f)
      BY FoldedShape
<1>2. r \in Seq(Message(n)) /\ \E t, g : Thinned(r, f, Kept(f, E), E, u, t, g)
      BY SnipShape
<1>3. \A v : ResultsFollow(ms, v) => ResultsFollow(r, v)
      BY SnipFollows
<1>. HIDE DEF f, r
<1>4. /\ OneKindPerId(f) /\ CopiesApart(f) /\ CallsDistinct(f)
      /\ \A v : HasInput(ms, v) => HasInput(f, v)
      /\ u \notin Ids(f)
      BY <1>1, RewritingKeeps
<1>5. PICK t, g : Thinned(r, f, Kept(f, E), E, u, t, g)
      BY <1>2
<1>6. /\ Kept(f, E) \subseteq 1..Len(f)
      /\ \A i \in 1..Len(f) : f[i].kind \in {"user", "boundary"} => i \in Kept(f, E)
      BY <1>1, KeptMessages
<1>7. /\ OneKindPerId(r) /\ CopiesApart(r) /\ CallsDistinct(r) /\ ClearedFirst(r)
      /\ \A v : HasInput(f, v) => HasInput(r, v)
      BY <1>1, <1>2, <1>4, <1>5, <1>6, ThinningKeeps
<1>. QED
     BY <1>2, <1>3, <1>4, <1>7 DEF r

-----------------------------------------------------------------------------
(* snip_history *)

LEMMA LastCopyIsCopy ==
    ASSUME NEW n, NEW ms \in Seq(Message(n)), NEW u \in Ids(ms)
    PROVE  /\ LastCopy(ms, u) \in 1..Len(ms) /\ ms[LastCopy(ms, u)].id = u
           /\ \A i \in 1..Len(ms) : ms[i].id = u => i <= LastCopy(ms, u)
<1> DEFINE C == {i \in DOMAIN ms : ms[i].id = u}
<1>1. DOMAIN ms = 1..Len(ms) /\ Len(ms) \in Nat
      BY LenProperties
<1>2. C \subseteq 0..Len(ms) /\ C # {}
      BY <1>1 DEF Ids
<1>3. LastCopy(ms, u) = Max(C)
      BY DEF LastCopy
<1>4. Max(C) \in C /\ \A y \in C : Max(C) >= y
  <2>. HIDE DEF C
  <2>. QED
       BY <1>1, <1>2, MaxIsGreatest
<1>. QED
     BY <1>1, <1>3, <1>4

\* A request that is accepted names result messages only.
LEMMA AcceptedAreResults ==
    ASSUME NEW n, NEW ms \in Seq(Message(n)), NEW us, Accepts(ms, us), OneKindPerId(ms),
           NEW i \in 1..Len(ms), ms[i].id \in us
    PROVE  ms[i].kind = "result"
<1> DEFINE l == LastCopy(ms, ms[i].id)
<1>1. l \in SnippableResults(ms) /\ ms[i].id \in Ids(ms)
      BY DEF Accepts
<1>2. ms[l].kind = "result"
      BY <1>1 DEF SnippableResults, OfKind
<1>3. l \in 1..Len(ms) /\ ms[l].id = ms[i].id
      BY <1>1, LastCopyIsCopy
<1>. QED
     BY <1>2, <1>3 DEF OneKindPerId

\* All copies of a message go or none, so what is left of the results still follows.
LEMMA SnipHistoryFollows ==
    ASSUME NEW n, NEW ms \in Seq(Message(n)), NEW us, NEW v, ResultsFollow(ms, v)
    PROVE  ResultsFollow(SnipHistory(ms, us), v)
<1> DEFINE K == {i \in DOMAIN ms : ms[i].id \notin us}
           r == SnipHistory(ms, us)
<1>1. r \in Seq(Message(n)) /\ \E t, g : Thinned(r, ms, K, {}, 0, t, g)
      BY SnipHistoryShape
<1>. HIDE DEF r
<1>2. PICK t, g : Thinned(r, ms, K, {}, 0, t, g)
      BY <1>1
<1>3. K \subseteq 1..Len(ms) /\ Len(ms) \in Nat /\ Len(r) \in Nat
      BY <1>1, LenProperties
<1>4. \A i \in 1..Len(ms) : i \in K <=> ms[i].id \notin us
      BY LenProperties
<1>. HIDE DEF K
<1>5. MessagesFrom(r, ms, K, {}, 0, g) /\ PlacesFrom(r, ms, K, {}, g, "result")
      BY <1>1, <1>2, <1>3, ThinnedPlaces
<1>6. \A i, j \in 1..Len(r) : i < j /\ g[i] # 0 /\ g[j] # 0 => g[i] < g[j]
      BY <1>2 DEF Thinned, Spliced
<1> SUFFICES ASSUME NEW i \in 1..Len(r), r[i].kind = "user",
                    NEW p \in Places(r, "result"), r[p[1]].id > v
             PROVE  \E q \in Places(r, "result") :
                       i < q[1] /\ r[q[1]].id = r[p[1]].id /\ At(r, q).call = At(r, p).call
    BY Zenon DEF ResultsFollow, r
<1>7. PICK x \in Places(ms, "result") :
          x[1] = g[p[1]] /\ At(r, p) = At(ms, x) /\ r[p[1]].id = ms[x[1]].id
      BY <1>5 DEF PlacesFrom
<1>8. x[1] \in 1..Len(ms) /\ p[1] \in 1..Len(r)
      BY <1>1, PlacesAre
<1>9. ms[x[1]].id \notin us
      BY <1>3, <1>4, <1>5, <1>7, <1>8 DEF MessagesFrom
<1>10. g[i] # 0 /\ g[i] \in 1..Len(ms) /\ ms[g[i]].kind = "user"
       BY <1>5 DEF MessagesFrom, SnipBoundary
<1>11. PICK y \in Places(ms, "result") :
           g[i] < y[1] /\ ms[y[1]].id = ms[x[1]].id /\ At(ms, y).call = At(ms, x).call
       BY <1>7, <1>10 DEF ResultsFollow
<1>12. y[1] \in 1..Len(ms) /\ y[1] \in K
  <2>1. y[1] \in 1..Len(ms)
        BY PlacesAre
  <2>. QED
       BY <1>4, <1>9, <1>11, <2>1
<1>13. PICK q \in Places(r, "result") :
           y[1] = g[q[1]] /\ At(r, q) = At(ms, y) /\ r[q[1]].id = ms[y[1]].id
       BY <1>5, <1>12 DEF PlacesFrom
<1>14. i < q[1]
  <2>1. q[1] \in 1..Len(r) /\ g[q[1]] # 0
        BY <1>1, <1>3, <1>12, <1>13, PlacesAre
  <2>2. ASSUME q[1] < i PROVE FALSE
        BY <1>3, <1>6, <1>10, <1>11, <1>12, <1>13, <2>1, <2>2
  <2>3. q[1] # i
        BY <1>3, <1>10, <1>11, <1>12, <1>13
  <2>. QED
       BY <1>3, <2>1, <2>2, <2>3
<1>. QED
     BY <1>7, <1>11, <1>13, <1>14

LEMMA SnipHistoryKeeps ==
    ASSUME NEW n, NEW ms \in Seq(Message(n)), NEW us, Accepts(ms, us),
           OneKindPerId(ms), CopiesApart(ms), CallsDistinct(ms), ClearedFirst(ms)
    PROVE  LET r == SnipHistory(ms, us)
           IN  /\ r \in Seq(Message(n))
               /\ OneKindPerId(r) /\ CopiesApart(r) /\ CallsDistinct(r) /\ ClearedFirst(r)
               /\ \A v : HasInput(ms, v) => HasInput(r, v)
               /\ \A v : ResultsFollow(ms, v) => ResultsFollow(r, v)
<1> DEFINE K == {i \in DOMAIN ms : ms[i].id \notin us}
           r == SnipHistory(ms, us)
<1>1. r \in Seq(Message(n)) /\ \E t, g : Thinned(r, ms, K, {}, 0, t, g)
      BY SnipHistoryShape
<1>2. \A v : ResultsFollow(ms, v) => ResultsFollow(r, v)
      BY SnipHistoryFollows
<1>. HIDE DEF r
<1>3. PICK t, g : Thinned(r, ms, K, {}, 0, t, g)
      BY <1>1
<1>4. \A i \in 1..Len(ms) : ms[i].id \in us => ms[i].kind = "result"
      BY AcceptedAreResults
<1>5. K \subseteq 1..Len(ms) /\ \A i \in 1..Len(ms) : ms[i].kind \in {"user", "boundary"} => i \in K
      BY <1>4, LenProperties
<1>6. 0 \notin Ids(ms)
  <2>1. \A i \in DOMAIN ms : ms[i].id \in 1..n
        BY MessageParts, LenProperties
  <2>. QED
       BY <2>1 DEF Ids
<1>. HIDE DEF K
<1>7. /\ OneKindPerId(r) /\ CopiesApart(r) /\ CallsDistinct(r) /\ ClearedFirst(r)
      /\ \A v : HasInput(ms, v) => HasInput(r, v)
      BY <1>1, <1>3, <1>5, <1>6, ThinningKeeps
<1>. QED
     BY <1>1, <1>2, <1>7 DEF r

-----------------------------------------------------------------------------
(* Compaction *)

LEMMA CompactKeeps ==
    ASSUME NEW n, NEW ms \in Seq(Message(n)), NEW u \in 1..n
    PROVE  LET r == Compact(ms, u)
           IN  r \in Seq(Message(n)) /\ \E d : Compacted(r, ms, u, d)
<1> DEFINE slice == AfterCompactBoundary(ms)
           t == SplitAt(slice)
           r == ms \o <<Boundary(u)>> \o SubSeq(slice, t + 1, Len(slice))
<1>1. slice \in Seq(Message(n)) /\ Len(slice) \in Nat
      BY SliceShape, LenProperties
<1>2. t \in Nat /\ t <= Len(slice)
  <2>. HIDE DEF slice
  <2>. QED
       BY <1>1, Quotas DEF SplitAt
<1>3. Boundary(u) \in Message(n)
      BY NewMessages
<1>4. Compact(ms, u) = r
      BY Zenon DEF Compact
<1>5. r \in Seq(Message(n)) /\ \E d : Compacted(r, ms, u, d)
  <2>. HIDE DEF t
  <2>. QED
       BY <1>2, <1>3, CompactShape
<1>. QED
     BY <1>4, <1>5

-----------------------------------------------------------------------------
(* Appending *)

\* Where the tool blocks of ms with m behind it come from, and go.
AppendedAt(r, ms, m, kind) ==
    /\ \A q \in Places(r, kind) :
          \/ q \in Places(ms, kind) /\ q[1] <= Len(ms) /\ At(r, q) = At(ms, q)
          \/ /\ m.kind = kind /\ q = <<Len(ms) + 1, q[2]>> /\ q[1] = Len(ms) + 1
             /\ q[2] \in 1..Len(m.items) /\ At(r, q) = m.items[q[2]]
    /\ \A p \in Places(ms, kind) : p \in Places(r, kind) /\ At(r, p) = At(ms, p)

LEMMA AppendedPlaces ==
    ASSUME NEW n, NEW ms \in Seq(Message(n)), NEW m \in Message(n), NEW kind
    PROVE  AppendedAt(Append(ms, m), ms, m, kind)
<1> DEFINE r == Append(ms, m)
<1>1. /\ r \in Seq(Message(n)) /\ Len(ms) \in Nat /\ Len(r) = Len(ms) + 1
      /\ \A i \in 1..Len(ms) : r[i] = ms[i]
      /\ r[Len(ms) + 1] = m
      BY AppendProperties, LenProperties
<1>. HIDE DEF r
<1>2. ASSUME NEW q \in Places(r, kind)
      PROVE  \/ q \in Places(ms, kind) /\ q[1] <= Len(ms) /\ At(r, q) = At(ms, q)
             \/ /\ m.kind = kind /\ q = <<Len(ms) + 1, q[2]>> /\ q[1] = Len(ms) + 1
                /\ q[2] \in 1..Len(m.items) /\ At(r, q) = m.items[q[2]]
  <2>1. /\ q = <<q[1], q[2]>> /\ q[1] \in 1..Len(r) /\ r[q[1]].kind = kind
        /\ q[2] \in 1..Len(r[q[1]].items) /\ At(r, q) = r[q[1]].items[q[2]]
        BY <1>1, PlacesAre
  <2>2. CASE q[1] <= Len(ms)
    <3>1. q[1] \in 1..Len(ms) /\ r[q[1]] = ms[q[1]]
          BY <1>1, <2>1, <2>2
    <3>. QED
         BY <2>1, <2>2, <3>1, PlacesAre DEF At
  <2>3. CASE ~(q[1] <= Len(ms))
    <3>1. q[1] = Len(ms) + 1
          BY <1>1, <2>1, <2>3
    <3>. QED
         BY <1>1, <2>1, <3>1
  <2>. QED
       BY <2>2, <2>3
<1>3. ASSUME NEW p \in Places(ms, kind) PROVE p \in Places(r, kind) /\ At(r, p) = At(ms, p)
  <2>1. /\ p = <<p[1], p[2]>> /\ p[1] \in 1..Len(ms) /\ ms[p[1]].kind = kind
        /\ p[2] \in 1..Len(ms[p[1]].items)
        BY PlacesAre
  <2>2. p[1] \in 1..Len(r) /\ r[p[1]] = ms[p[1]]
        BY <1>1, <2>1
  <2>. QED
       BY <1>1, <2>1, <2>2, PlacesAre DEF At
<1>. QED
     BY <1>2, <1>3 DEF AppendedAt, r

\* A new message keeps all of it, but for what follows a user's.
LEMMA AppendingKeeps ==
    ASSUME NEW n, NEW ms \in Seq(Message(n)), NEW m \in Message(n), m.id \notin Ids(ms),
           \A i, j \in 1..Len(m.items) : m.items[i].call = m.items[j].call => i = j,
           OneKindPerId(ms), CopiesApart(ms), CallsDistinct(ms), ClearedFirst(ms)
    PROVE  LET r == Append(ms, m)
           IN  /\ r \in Seq(Message(n)) /\ Len(r) = Len(ms) + 1 /\ r[Len(r)] = m
               /\ OneKindPerId(r) /\ CopiesApart(r) /\ CallsDistinct(r) /\ ClearedFirst(r)
               /\ \A v : HasInput(ms, v) => HasInput(r, v)
               /\ m.kind # "user" => \A v : ResultsFollow(ms, v) => ResultsFollow(r, v)
               /\ m.kind = "user" => HasInput(r, m.id)
               /\ Ids(r) = Ids(ms) \cup {m.id}
<1> DEFINE r == Append(ms, m)
           l == Len(ms) + 1
<1>1. /\ r \in Seq(Message(n)) /\ Len(ms) \in Nat /\ Len(r) = l
      /\ \A i \in 1..Len(ms) : r[i] = ms[i]
      /\ r[l] = m
      BY AppendProperties, LenProperties
<1>2. AppendedAt(r, ms, m, "use") /\ AppendedAt(r, ms, m, "result")
      BY AppendedPlaces
<1>. HIDE DEF r
<1>3. \A i \in 1..Len(r) : i \in 1..Len(ms) \/ i = l
      BY <1>1
<1>4. \A i \in 1..Len(ms) : ms[i].id # m.id /\ i < l /\ i \in 1..Len(r)
  <2>1. \A i \in 1..Len(ms) : ms[i].id # m.id
        BY LenProperties DEF Ids
  <2>. QED
       BY <1>1, <2>1
<1>5. OneKindPerId(r)
      BY <1>1, <1>3, <1>4 DEF OneKindPerId
<1>6. CopiesApart(r)
  <2> SUFFICES ASSUME NEW i \in 1..Len(r), NEW j \in 1..Len(r),
                      i < j, r[i].id = r[j].id, r[j].kind # "boundary"
               PROVE  \E k \in 1..Len(r) : i < k /\ k < j /\ r[k].kind = "boundary"
      BY DEF CopiesApart
  <2>1. i \in 1..Len(ms) /\ j \in 1..Len(ms)
        BY <1>1, <1>3, <1>4
  <2>2. PICK k \in 1..Len(ms) : i < k /\ k < j /\ ms[k].kind = "boundary"
        BY <1>1, <2>1 DEF CopiesApart
  <2>. QED
       BY <1>1, <1>4, <2>2
<1>7. CallsDistinct(r)
  <2> SUFFICES ASSUME NEW kind \in {"use", "result"}, NEW p \in Places(r, kind),
                      NEW q \in Places(r, kind), p[1] = q[1], At(r, p).call = At(r, q).call
               PROVE  p = q
      BY DEF CallsDistinct
  <2>1. AppendedAt(r, ms, m, kind)
        BY <1>2
  <2>2. CASE p[1] = l
    <3>1. ~(p[1] <= Len(ms)) /\ ~(q[1] <= Len(ms))
          BY <1>1, <2>2
    <3>2. /\ p = <<l, p[2]>> /\ p[2] \in 1..Len(m.items) /\ At(r, p) = m.items[p[2]]
          BY <2>1, <3>1 DEF AppendedAt
    <3>3. /\ q = <<l, q[2]>> /\ q[2] \in 1..Len(m.items) /\ At(r, q) = m.items[q[2]]
          BY <2>1, <3>1 DEF AppendedAt
    <3>4. p[2] = q[2]
          BY <3>2, <3>3
    <3>. QED
         BY <3>2, <3>3, <3>4
  <2>3. CASE p[1] # l
    <3>1. /\ p \in Places(ms, kind) /\ q \in Places(ms, kind)
          /\ At(ms, p).call = At(ms, q).call
          BY <1>1, <2>1, <2>3 DEF AppendedAt
    <3>. QED
         BY <3>1 DEF CallsDistinct
  <2>. QED
       BY <2>2, <2>3
<1>8. ClearedFirst(r)
  <2> SUFFICES ASSUME NEW p \in Places(r, "result"), NEW q \in Places(r, "result"),
                      p[1] < q[1], r[p[1]].id = r[q[1]].id, At(r, p).call = At(r, q).call,
                      At(r, q).body = "cleared"
               PROVE  At(r, p).body = "cleared"
      BY DEF ClearedFirst
  <2>1. p[1] \in 1..Len(r) /\ q[1] \in 1..Len(r)
        BY <1>1, PlacesAre
  <2>2. p[1] \in 1..Len(ms) /\ q[1] \in 1..Len(ms)
        BY <1>1, <1>3, <1>4, <2>1
  <2>3. /\ p \in Places(ms, "result") /\ q \in Places(ms, "result")
        /\ At(r, p) = At(ms, p) /\ At(r, q) = At(ms, q)
        BY <1>1, <1>2, <2>2 DEF AppendedAt
  <2>. QED
       BY <1>1, <2>2, <2>3 DEF ClearedFirst
<1>9. \A v : HasInput(ms, v) => HasInput(r, v)
      BY <1>1, <1>4 DEF HasInput
<1>10. ASSUME m.kind # "user", NEW v, ResultsFollow(ms, v) PROVE ResultsFollow(r, v)
  <2> SUFFICES ASSUME NEW i \in 1..Len(r), r[i].kind = "user",
                      NEW p \in Places(r, "result"), r[p[1]].id > v
               PROVE  \E q \in Places(r, "result") :
                         i < q[1] /\ r[q[1]].id = r[p[1]].id /\ At(r, q).call = At(r, p).call
      BY DEF ResultsFollow
  <2>1. i \in 1..Len(ms) /\ i < l /\ ms[i].kind = "user"
        BY <1>1, <1>3, <1>4, <1>10
  <2>2. CASE p[1] = l
        BY <2>1, <2>2
  <2>3. CASE p[1] # l
    <3>1. p \in Places(ms, "result") /\ At(r, p) = At(ms, p)
          BY <1>1, <1>2, <2>3 DEF AppendedAt
    <3>2. p[1] \in 1..Len(ms) /\ r[p[1]] = ms[p[1]]
          BY <1>1, <3>1, PlacesAre
    <3>3. PICK q \in Places(ms, "result") :
              i < q[1] /\ ms[q[1]].id = ms[p[1]].id /\ At(ms, q).call = At(ms, p).call
          BY <1>10, <2>1, <3>1, <3>2 DEF ResultsFollow
    <3>4. q \in Places(r, "result") /\ At(r, q) = At(ms, q) /\ r[q[1]] = ms[q[1]]
          BY <1>1, <1>2, <3>3, PlacesAre DEF AppendedAt
    <3>. QED
         BY <3>1, <3>2, <3>3, <3>4
  <2>. QED
       BY <2>2, <2>3
<1>11. ASSUME m.kind = "user" PROVE HasInput(r, m.id)
       BY <1>1, <1>11 DEF HasInput
<1>12. Ids(r) = Ids(ms) \cup {m.id}
  <2>1. DOMAIN r = 1..Len(r) /\ DOMAIN ms = 1..Len(ms)
        BY <1>1, LenProperties
  <2>. QED
       BY <1>1, <1>3, <1>4, <2>1 DEF Ids
<1>. QED
     BY <1>1, <1>5, <1>6, <1>7, <1>8, <1>9, <1>10, <1>11, <1>12 DEF r

-----------------------------------------------------------------------------
(* The newest result *)

Newest(ms) == <<Len(ms), Len(ms[Len(ms)].items)>>

\* A result message at the end is in full and answers the calls right before it, and
\* nothing else answers them.
Fresh(ms) ==
    ms[Len(ms)].kind = "result" =>
        /\ At(ms, Newest(ms)).body = "full"
        /\ \A q \in Places(ms, "result") : q[1] = Len(ms) =>
              /\ \E p \in Places(ms, "use") : p[1] = Len(ms) - 1 /\ At(ms, p).call = At(ms, q).call
              /\ \A x \in Places(ms, "result") : At(ms, x).call = At(ms, q).call => x = q

\* What is left of that when the transcript has been cleaned.
Arrives(ms) ==
    ms[Len(ms)].kind = "result" =>
        /\ At(ms, Newest(ms)).body = "full"
        /\ \E p \in Places(ms, "use") :
              p[1] = Len(ms) - 1 /\ At(ms, p).call = At(ms, Newest(ms)).call

\* No call has a number beyond n.
CallsUpTo(ms, n) ==
    \A kind \in {"use", "result"} : \A p \in Places(ms, kind) : At(ms, p).call <= n

LEMMA NewestIsPlace ==
    ASSUME NEW n, NEW ms \in Seq(Message(n)), Len(ms) > 0, ms[Len(ms)].kind = "result"
    PROVE  /\ Newest(ms) \in Places(ms, "result") /\ Newest(ms)[1] = Len(ms)
           /\ \A x \in Places(ms, "result") : ~Before(Newest(ms), x)
<1> DEFINE l == Len(ms)
           q == Newest(ms)
<1>1. l \in 1..l /\ l \in Nat
      BY LenProperties
<1>2. ms[l].items \in Seq(Results) \ {<<>>}
      BY <1>1, MessageParts, ElementOfSeq
<1>3. Len(ms[l].items) \in Nat /\ Len(ms[l].items) > 0
      BY <1>2, EmptySeq, LenProperties
<1>4. q \in Places(ms, "result") /\ q[1] = l /\ q[2] = Len(ms[l].items)
  <2>1. q = <<l, Len(ms[l].items)>>
        BY DEF Newest
  <2>2. Len(ms[l].items) \in 1..Len(ms[l].items)
        BY <1>3
  <2>. QED
       BY <1>1, <2>1, <2>2, PlacesAre
<1>. HIDE DEF q
<1>5. ASSUME NEW x \in Places(ms, "result"), Before(q, x) PROVE FALSE
  <2>1. x[1] \in 1..l /\ x[2] \in 1..Len(ms[x[1]].items)
        BY PlacesAre
  <2>. QED
       BY <1>1, <1>3, <1>4, <1>5, <2>1 DEF Before
<1>. QED
     BY <1>4, <1>5 DEF q

LEMMA RewritingFresh ==
    ASSUME NEW n, NEW ms \in Seq(Message(n)), NEW r \in Seq(Message(n)), Len(ms) > 0,
           NEW places, places \subseteq Places(ms, "result"), NEW body, Rewritten(r, ms, places, body),
           ms[Len(ms)].kind = "result" => Newest(ms) \notin places,
           Fresh(ms)
    PROVE  Fresh(r) /\ Newest(r) = Newest(ms) /\ Len(r) = Len(ms) /\ r[Len(r)].kind = ms[Len(ms)].kind
<1>1. Len(ms) \in 1..Len(ms)
      BY LenProperties
<1>2. /\ Len(r) = Len(ms) /\ r[Len(r)].kind = ms[Len(ms)].kind
      /\ Len(r[Len(ms)].items) = Len(ms[Len(ms)].items)
      BY <1>1 DEF Rewritten
<1>3. Newest(r) = Newest(ms)
      BY <1>2 DEF Newest
<1>4. SamePlaces(r, ms, places, body)
      BY RewrittenPlaces
<1>5. ASSUME ms[Len(ms)].kind = "result" PROVE Fresh(r)
  <2>1. Newest(ms) \in Places(ms, "result") /\ Newest(ms) \notin places
        BY <1>5, NewestIsPlace
  <2>2. At(r, Newest(r)).body = "full"
        BY <1>3, <1>4, <1>5, <2>1 DEF Fresh, SamePlaces
  <2>3. /\ Places(r, "result") = Places(ms, "result") /\ Places(r, "use") = Places(ms, "use")
        /\ \A q \in Places(ms, "result") : At(r, q).call = At(ms, q).call
        /\ \A q \in Places(ms, "use") : At(r, q) = At(ms, q)
        BY <1>4 DEF SamePlaces
  <2>4. ASSUME NEW q \in Places(r, "result"), q[1] = Len(r)
        PROVE  /\ \E p \in Places(r, "use") : p[1] = Len(r) - 1 /\ At(r, p).call = At(r, q).call
               /\ \A x \in Places(r, "result") : At(r, x).call = At(r, q).call => x = q
    <3>1. /\ \E p \in Places(ms, "use") : p[1] = Len(ms) - 1 /\ At(ms, p).call = At(ms, q).call
          /\ \A x \in Places(ms, "result") : At(ms, x).call = At(ms, q).call => x = q
          BY <1>2, <1>5, <2>3, <2>4 DEF Fresh
    <3>. QED
         BY <1>2, <2>3, <2>4, <3>1
  <2>. QED
       BY <2>2, <2>4 DEF Fresh
<1>6. ASSUME ms[Len(ms)].kind # "result" PROVE Fresh(r)
      BY <1>2, <1>6 DEF Fresh
<1>. QED
     BY <1>2, <1>3, <1>5, <1>6

\* A microcompaction that keeps any result keeps the newest.
LEMMA MicrocompactFresh ==
    ASSUME NEW n, NEW ms \in Seq(Message(n)), Len(ms) > 0, Fresh(ms), KeepMicro # 0
    PROVE  LET r == Microcompact(ms)
           IN  Fresh(r) /\ Len(r) = Len(ms) /\ r[Len(r)].kind = ms[Len(ms)].kind
<1> DEFINE C == RepliesOf(ms, Compactable)
           places == C \ RecentCompactable(ms)
           r == Microcompact(ms)
<1>1. /\ r \in Seq(Message(n)) /\ Rewritten(r, ms, places, "cleared")
      /\ places \subseteq Places(ms, "result")
      BY MicrocompactKeeps
<1>2. ASSUME ms[Len(ms)].kind = "result" PROVE Newest(ms) \notin places
  <2> SUFFICES ASSUME Newest(ms) \in C PROVE Newest(ms) \in RecentCompactable(ms)
      OBVIOUS
  <2>1. C \subseteq Places(ms, "result")
        BY DEF RepliesOf
  <2>2. {x \in C : Before(Newest(ms), x)} = {}
        BY <1>2, <2>1, NewestIsPlace
  <2>3. Cardinality({x \in C : Before(Newest(ms), x)}) = 0
        BY <2>2, FS_EmptySet
  <2>4. 0 < KeepMicro
        BY Quotas
  <2>. HIDE DEF C
  <2>5. Newest(ms) \in {p \in C : Cardinality({x \in C : Before(p, x)}) < KeepMicro}
        BY <2>3, <2>4
  <2>. QED
       BY <2>5, Zenon DEF RecentCompactable, C
<1>. HIDE DEF places, r
<1>3. Fresh(r) /\ Len(r) = Len(ms) /\ r[Len(r)].kind = ms[Len(ms)].kind
      BY <1>1, <1>2, RewritingFresh
<1>. QED
     BY <1>3 DEF r

LEMMA NewestStaysUnfolded ==
    ASSUME NEW n, NEW ms \in Seq(Message(n)), Len(ms) > 0, ms[Len(ms)].kind = "result"
    PROVE  Newest(ms) \notin PositionsToSnip(ms)
<1> DEFINE p == Newest(ms)
           Live(s) == {x \in RepliesOf(ms, {s}) : At(ms, x).body = "full"}
           Newer(x, s) == {q \in Live(s) : Before(x, q)}
           Older(s) == {x \in Live(s) : Newer(x, s) # {}}
           Beyond(s) == {x \in Live(s) : Cardinality(Newer(x, s)) >= KeepSnip}
<1>1. PositionsToSnip(ms) = (UNION {Older(s) : s \in PerPath}) \cup (UNION {Beyond(s) : s \in Global})
      BY Zenon DEF PositionsToSnip
<1>2. \A x \in Places(ms, "result") : ~Before(p, x)
      BY NewestIsPlace
<1>3. \A s : Live(s) \subseteq Places(ms, "result")
      BY DEF RepliesOf
<1>. HIDE DEF Live, p
<1>4. \A s : Newer(p, s) = {}
      BY <1>2, <1>3
<1>5. \A s : p \notin Older(s)
      BY <1>4
<1>6. \A s : p \notin Beyond(s)
  <2>1. \A s : Cardinality(Newer(p, s)) = 0
        BY <1>4, FS_EmptySet
  <2>. HIDE DEF Newer
  <2>. QED
       BY <2>1, Quotas
<1>. HIDE DEF Older, Beyond
<1>7. \A S, T : p \in (UNION S) \cup (UNION T) => (\E A \in S : p \in A) \/ (\E B \in T : p \in B)
      OBVIOUS
<1>8. ASSUME p \in PositionsToSnip(ms)
      PROVE  (\E A \in {Older(s) : s \in PerPath} : p \in A) \/ (\E B \in {Beyond(s) : s \in Global} : p \in B)
      BY <1>1, <1>7, <1>8, Zenon
<1>9. p \notin PositionsToSnip(ms)
      BY <1>5, <1>6, <1>8, Zenon
<1>. QED
     BY <1>9 DEF p

\* A deletion that begins before the last message leaves the last two at the end.
LEMMA DeletePlacesEnd ==
    ASSUME NEW n, NEW ms \in Seq(Message(n)), NEW u \in 1..n,
           NEW places, places \subseteq Places(ms, "use") \cup Places(ms, "result"),
           Len(ms) > 1, {Len(ms) - 1, Len(ms)} \subseteq Kept(ms, places),
           places # {} => \E p \in places : p[1] < Len(ms)
    PROVE  LET r == DeletePlaces(ms, places, u)
           IN  \E t : /\ Thinner(t, ms, places)
                      /\ Len(r) > 1 /\ r[Len(r)] = t[Len(ms)] /\ r[Len(r) - 1] = t[Len(ms) - 1]
<1> DEFINE r    == DeletePlaces(ms, places, u)
           l    == Len(ms)
           K    == Kept(ms, places)
           thin == [i \in DOMAIN ms |-> [ms[i] EXCEPT !.items = Pick(@, Left(ms, places, i))]]
           firsts == {p[1] : p \in places}
<1>1. l \in Nat /\ DOMAIN ms = 1..l
      BY LenProperties
<1>2. CASE places = {}
  <2>1. r = ms
        BY <1>2 DEF DeletePlaces
  <2>2. Thinner(ms, ms, places)
        BY <1>2, ThinnerSelf
  <2>. QED
       BY <2>1, <2>2
<1>3. CASE places # {}
  <2>1. PICK first \in Int : first = Min(firsts) /\ first < l
    <3>1. \A p \in places : p[1] \in 1..l
          BY PlacesAre
    <3>2. firsts \subseteq Nat /\ firsts # {}
          BY <1>3, <3>1
    <3>3. PICK e \in places : e[1] < l
          BY <1>3
    <3>4. e[1] \in firsts /\ e[1] \in Nat
          BY <3>1
    <3>. HIDE DEF firsts
    <3>5. Min(firsts) \in firsts /\ \A y \in firsts : Min(firsts) <= y
          BY <3>2, MinIsLeast
    <3>6. Min(firsts) \in Nat
          BY <3>2, <3>5, Zenon
    <3>7. Min(firsts) <= e[1]
          BY <3>4, <3>5
    <3>. QED
         BY <1>1, <3>3, <3>4, <3>6, <3>7
  <2>2. \A i \in 1..l : thin[i] = [ms[i] EXCEPT !.items = Pick(@, Left(ms, places, i))]
        BY <1>1
  <2>3. thin = [i \in 1..l |-> thin[i]]
        BY <1>1
  <2> DEFINE T == {thin[i] : i \in 1..l} \cup {SnipBoundary(u)}
  <2>4. \A i \in 1..l : thin[i] \in T
        OBVIOUS
  <2>5. SnipBoundary(u) \in T
        OBVIOUS
  <2>6. r = Pick(thin, {i \in K : i < first}) \o <<SnipBoundary(u)>>
             \o Pick(thin, {i \in K : i >= first})
    <3>1. \A i \in DOMAIN ms : Left(ms, places, i) = {j \in DOMAIN ms[i].items : <<i, j>> \notin places}
          BY DEF Left
    <3>. QED
         BY <1>3, <2>1, Zenon DEF DeletePlaces, Left, Kept
  <2>. HIDE DEF thin, T, r
  <2>7. Len(thin) = l /\ DOMAIN thin = 1..l /\ thin \in Seq(T)
    <3>1. thin \in [1..l -> T]
          BY <2>3, <2>4
    <3>. QED
         BY <1>1, <3>1
  <2>8. Thinner(thin, ms, places)
    <3>1. \A i \in 1..l :
             /\ thin[i].id = ms[i].id /\ thin[i].kind = ms[i].kind
             /\ \E h : Picks(thin[i].items, ms[i].items, Left(ms, places, i), h)
      <4> TAKE i \in 1..l
      <4> DEFINE m == [ms[i] EXCEPT !.items = Pick(@, Left(ms, places, i))]
      <4>1. /\ m.id = ms[i].id /\ m.kind = ms[i].kind
            /\ m.items = Pick(ms[i].items, Left(ms, places, i))
            /\ \E h : Picks(m.items, ms[i].items, Left(ms, places, i), h)
            /\ i \in Kept(ms, places) => m \in Message(n)
            BY ThinnedMessage
      <4>2. thin[i] = m
            BY <2>2
      <4>. HIDE DEF m
      <4>. QED
           BY <4>1, <4>2
    <3>. QED
         BY <1>1, <2>7, <3>1 DEF Thinner
  <2> DEFINE p == Pick(thin, {i \in K : i < first})
             B == {i \in K : i >= first}
             q == Pick(thin, B)
  <2>9. p \in Seq(T) /\ q \in Seq(T) /\ \E f : Picks(q, thin, B, f)
        BY <2>7, PickKeepsPlaces
  <2>10. l \in B /\ l - 1 \in B
         BY <1>1, <2>1
  <2>11. r = p \o <<SnipBoundary(u)>> \o q
         BY <2>6
  <2>. HIDE DEF p, q, B
  <2>12. Len(q) > 1 /\ q[Len(q)] = thin[l] /\ q[Len(q) - 1] = thin[l - 1]
         BY <1>1, <2>7, <2>9, <2>10, PickEnds
  <2>13. /\ Len(p) \in Nat /\ Len(q) \in Nat /\ Len(r) = Len(p) + 1 + Len(q)
         /\ \A i \in 1..Len(q) : r[Len(p) + 1 + i] = q[i]
         BY <2>5, <2>9, <2>11, Joined, LenProperties
  <2>14. Len(r) > 1 /\ r[Len(r)] = q[Len(q)] /\ r[Len(r) - 1] = q[Len(q) - 1]
    <3>1. /\ Len(q) \in 1..Len(q) /\ Len(r) = Len(p) + 1 + Len(q)
          /\ Len(q) - 1 \in 1..Len(q) /\ Len(r) - 1 = Len(p) + 1 + (Len(q) - 1)
          BY <2>12, <2>13
    <3>. QED
         BY <2>12, <2>13, <3>1, SMTT(30)
  <2>. QED
       BY <2>8, <2>12, <2>14 DEF r
<1>. QED
     BY <1>2, <1>3

\* A user's or a result message that is the last keeps to be, as far as results go.
LEMMA ThinnedEnd ==
    ASSUME NEW n, NEW ms \in Seq(Message(n)), NEW r \in Seq(Message(n)), Len(ms) > 0,
           NEW K, K \subseteq 1..Len(ms), NEW places, NEW u, NEW t, NEW g,
           Thinned(r, ms, K, places, u, t, g), Len(ms) \in K
    PROVE  /\ Len(r) > 0
           /\ r[Len(r)].kind = "result" => ms[Len(ms)].kind = "result"
<1>1. /\ Len(ms) \in Nat /\ Len(r) \in Nat
      /\ \A k \in 1..Len(r) : g[k] = 0 \/ g[k] \in 1..Len(ms)
      /\ \A k, l \in 1..Len(r) : k < l /\ g[k] # 0 /\ g[l] # 0 => g[k] < g[l]
      BY LenProperties DEF Thinned, Spliced
<1>2. MessagesFrom(r, ms, K, places, u, g)
      BY ThinnedPlaces
<1>3. PICK k \in 1..Len(r) : g[k] = Len(ms)
      BY DEF Thinned, Spliced
<1>4. Len(r) \in 1..Len(r)
      BY <1>1, <1>3
<1>5. CASE g[Len(r)] = 0
      BY <1>1, <1>2, <1>4, <1>5 DEF MessagesFrom, SnipBoundary
<1>6. CASE g[Len(r)] # 0
  <2>1. g[Len(r)] = Len(ms)
    <3>1. ASSUME k < Len(r) PROVE FALSE
      <4>1. g[k] < g[Len(r)]
            BY <1>1, <1>3, <1>4, <1>6, <3>1
      <4>. QED
           BY <1>1, <1>3, <1>4, <1>6, <4>1
    <3>. QED
         BY <1>1, <1>3, <3>1
  <2>. QED
       BY <1>1, <1>2, <1>4, <1>6, <2>1 DEF MessagesFrom
<1>. QED
     BY <1>5, <1>6

\* An engine snip at the top of a turn leaves the newest result in full, with its call
\* right before it.
LEMMA SnipArrives ==
    ASSUME NEW n, NEW ms \in Seq(Message(n)), NEW u \in 1..n, NEW k, Len(ms) > 0,
           ms[Len(ms)].kind \in {"user", "result"}, Fresh(ms)
    PROVE  Len(Snip(ms, k, u)) > 0 /\ Arrives(Snip(ms, k, u))
<1> DEFINE f == Folded(ms)
           E == Evicted(ms, k)
           r == Snip(ms, k, u)
           l == Len(ms)
           q == Newest(ms)
<1>1. /\ f \in Seq(Message(n)) /\ PositionsToSnip(ms) \subseteq Places(ms, "result")
      /\ Rewritten(f, ms, PositionsToSnip(ms), "snipped")
      /\ SamePlaces(f, ms, PositionsToSnip(ms), "snipped")
      BY FoldedShape
<1>2. r \in Seq(Message(n)) /\ \E t, g : Thinned(r, f, Kept(f, E), E, u, t, g)
      BY SnipShape
<1>3. r = DeletePlaces(f, E, u)
      BY Zenon DEF Snip, Folded, Evicted
<1>. HIDE DEF f, r
<1>4. Fresh(f) /\ Newest(f) = q /\ Len(f) = l /\ f[l].kind = ms[l].kind
      BY <1>1, NewestStaysUnfolded, RewritingFresh
<1>5. l \in Nat /\ l \in 1..l
      BY LenProperties
<1>6. /\ Kept(f, E) \subseteq 1..Len(f)
      /\ \A i \in 1..Len(f) : f[i].kind \notin {"use", "result"} => i \in Kept(f, E)
      /\ \A kind : \A p \in Places(f, kind) \ E : p[1] \in Kept(f, E)
      BY <1>1, KeptMessages
<1>. HIDE DEF q
<1>7. CASE ms[l].kind = "user"
  <2>1. l \in Kept(f, E)
        BY <1>4, <1>5, <1>6, <1>7
  <2>2. PICK t, g : Thinned(r, f, Kept(f, E), E, u, t, g)
        BY <1>2
  <2>3. Len(r) > 0 /\ (r[Len(r)].kind = "result" => f[l].kind = "result")
        BY <1>1, <1>2, <1>4, <1>5, <1>6, <2>1, <2>2, ThinnedEnd
  <2>. QED
       BY <1>4, <1>7, <2>3 DEF Arrives, r
<1>8. CASE ms[l].kind = "result"
  <2>1. /\ q \in Places(ms, "result") /\ q[1] = l /\ At(ms, q).body = "full"
        BY <1>8, NewestIsPlace DEF Fresh, q
  <2>2. \A y \in Places(ms, "result") : y[1] = l =>
           /\ \E p \in Places(ms, "use") : p[1] = l - 1 /\ At(ms, p).call = At(ms, y).call
           /\ \A x \in Places(ms, "result") : At(ms, x).call = At(ms, y).call => x = y
        BY <1>8 DEF Fresh
  <2>3. PICK p \in Places(ms, "use") : p[1] = l - 1 /\ At(ms, p).call = At(ms, q).call
        BY <2>1, <2>2
  <2>4. q \notin Places(ms, "use") /\ p \notin Places(ms, "result")
        BY <2>1, ItemAt
  <2>5. q \notin E
    <3>1. q \notin Orphans(ms)
          BY <2>3, <2>4 DEF Orphans, CallIds
    <3>2. q \notin ClearedPairs(ms)
          BY <2>1 DEF ClearedPairs
    <3>. QED
         BY <2>1, <3>1, <3>2, EvictedPlaces DEF Evicted
  <2>6. p \notin E
    <3>1. p \notin Orphans(ms)
          BY <2>1, <2>3, <2>4 DEF Orphans, ReplyIds
    <3>2. ASSUME p \in AncientPairs(ms, k) PROVE FALSE
      <4>1. PICK x \in ClearedPairs(ms) : At(ms, x).call = At(ms, p).call
            BY <3>2, EvictedPlaces
      <4>2. x \in Places(ms, "result") /\ At(ms, x).body = "cleared"
            BY DEF ClearedPairs
      <4>3. x = q
            BY <2>1, <2>2, <2>3, <4>1, <4>2
      <4>. QED
           BY <2>1, <4>2, <4>3
    <3>. QED
         BY <3>1, <3>2 DEF Evicted
  <2>7. E \subseteq Places(ms, "use") \cup Places(ms, "result")
        BY EvictedPlaces DEF Evicted
  <2>8. E # {} => \E e \in E : e[1] < l
    <3> SUFFICES ASSUME NEW e \in E PROVE \E d \in E : d[1] < l
        OBVIOUS
    <3>1. \A x \in Places(ms, "use") : x[1] \in 1..l /\ x[1] # l
          BY <1>8, PlacesAre
    <3>2. CASE e \in Places(ms, "use")
          BY <1>5, <3>1, <3>2
    <3>3. CASE e \in Places(ms, "result") /\ e[1] # l
      <4>1. e[1] \in 1..l
            BY <3>3, PlacesAre
      <4>. QED
           BY <1>5, <3>3, <4>1
    <3>4. CASE e \in Places(ms, "result") /\ e[1] = l
      <4>1. At(ms, e).call \in CallIds(ms)
            BY <2>2, <3>4 DEF CallIds
      <4>2. e \notin Orphans(ms)
        <5>1. e \notin Places(ms, "use")
              BY <1>8, <3>1, <3>4
        <5>. QED
             BY <4>1, <5>1 DEF Orphans
      <4>3. e \in AncientPairs(ms, k) \cap Places(ms, "result")
            BY <3>4, <4>2 DEF Evicted
      <4>4. PICK d \in AncientPairs(ms, k) : d \in Places(ms, "use")
            BY <4>3, EvictedPlaces
      <4>5. d \in E /\ d[1] < l
            BY <1>5, <3>1, <4>4 DEF Evicted
      <4>. QED
           BY <4>5
    <3>. QED
         BY <2>7, <3>2, <3>3, <3>4
  <2>. HIDE DEF E
  <2>9. /\ q \in Places(f, "result") /\ p \in Places(f, "use") /\ At(f, p) = At(ms, p)
        /\ At(f, q) = At(ms, q)
        BY <1>1, <1>8, <2>1, NewestStaysUnfolded DEF SamePlaces, q
  <2>10. l > 1 /\ l \in Kept(f, E) /\ l - 1 \in Kept(f, E)
    <3>1. p[1] \in 1..l
          BY PlacesAre
    <3>. QED
         BY <1>5, <1>6, <2>1, <2>3, <2>5, <2>6, <2>9, <3>1
  <2>11. E \subseteq Places(f, "use") \cup Places(f, "result")
         BY <1>1, <2>7 DEF SamePlaces
  <2>12. PICK t : /\ Thinner(t, f, E) /\ Len(r) > 1
                  /\ r[Len(r)] = t[l] /\ r[Len(r) - 1] = t[l - 1]
    <3>1. LET s == DeletePlaces(f, E, u)
          IN  \E t : /\ Thinner(t, f, E)
                     /\ Len(s) > 1 /\ s[Len(s)] = t[Len(f)] /\ s[Len(s) - 1] = t[Len(f) - 1]
          BY <1>1, <1>4, <2>8, <2>10, <2>11, DeletePlacesEnd
    <3>. QED
         BY <1>3, <1>4, <3>1
  <2>13. /\ Len(r) \in Nat /\ Len(r) \in 1..Len(r) /\ Len(r) - 1 \in 1..Len(r)
         BY <1>2, <2>12, LenProperties
  <2>14. l - 1 \in 1..l
         BY <1>5, <2>10
  <2>15. /\ t[l].kind = "result" /\ \E h : Picks(t[l].items, f[l].items, Left(f, E, l), h)
         /\ t[l - 1].kind = f[l - 1].kind
         /\ \E h : Picks(t[l - 1].items, f[l - 1].items, Left(f, E, l - 1), h)
         BY <1>4, <1>5, <1>8, <2>12, <2>14 DEF Thinner
  <2>16. At(r, Newest(r)) = At(f, q)
    <3> DEFINE s == f[l].items
               w == t[l].items
    <3>1. q = <<l, Len(s)>>
          BY <1>4 DEF Newest
    <3>2. s \in Seq(Calls \cup Results) /\ Len(s) \in Nat /\ DOMAIN s = 1..Len(s)
      <4>1. f[l] \in Message(n)
            BY <1>1, <1>4, <1>5, ElementOfSeq
      <4>. QED
           BY <4>1, MessageParts, LenProperties
    <3>3. Len(s) \in 1..Len(s)
          BY <1>1, <2>9, <3>1, PlacesAre
    <3>4. Len(s) > 0 /\ Len(s) \in Left(f, E, l)
      <4>1. <<l, Len(s)>> \notin E
            BY <2>5, <3>1
      <4>2. Left(f, E, l) = {j \in DOMAIN s : <<l, j>> \notin E}
            BY Zenon DEF Left
      <4>. HIDE DEF s
      <4>. QED
           BY <3>2, <3>3, <4>1, <4>2
    <3>5. PICK h : Picks(w, s, Left(f, E, l), h)
          BY <2>15
    <3>. HIDE DEF s, w
    <3>6. w[Len(w)] = s[Len(s)]
          BY <3>2, <3>4, <3>5, PickEnds
    <3>7. At(f, q) = s[Len(s)]
          BY <3>1 DEF At, s
    <3>8. At(r, Newest(r)) = w[Len(w)]
          BY <2>12 DEF At, Newest, w
    <3>. QED
         BY <3>6, <3>7, <3>8
  <2>17. \E d \in Places(r, "use") : d[1] = Len(r) - 1 /\ At(r, d) = At(f, p)
    <3> DEFINE s == f[l - 1].items
               w == t[l - 1].items
    <3>1. p = <<p[1], p[2]>> /\ p[2] \in 1..Len(s) /\ At(f, p) = s[p[2]] /\ f[l - 1].kind = "use"
          BY <1>1, <2>3, <2>9, PlacesAre
    <3>2. p[2] \in Left(f, E, l - 1)
      <4>1. DOMAIN s = 1..Len(s)
        <5>1. f[l - 1] \in Message(n)
              BY <1>1, <1>4, <2>14, ElementOfSeq
        <5>. QED
             BY <5>1, MessageParts, LenProperties
      <4>. QED
           BY <2>3, <2>6, <3>1, <4>1 DEF Left
    <3>3. PICK h : Picks(w, s, Left(f, E, l - 1), h)
          BY <2>15
    <3>. HIDE DEF s, w
    <3>4. PICK j \in 1..Len(w) : h[j] = p[2]
          BY <3>1, <3>2, <3>3 DEF Picks
    <3>5. w[j] = s[p[2]]
          BY <3>3, <3>4 DEF Picks
    <3> DEFINE d == <<Len(r) - 1, j>>
    <3>6. r[Len(r) - 1].kind = "use" /\ r[Len(r) - 1].items = w
          BY <2>12, <2>15, <3>1 DEF w
    <3>7. d \in Places(r, "use")
          BY <1>2, <2>13, <3>4, <3>6, PlacesAre
    <3>8. d[1] = Len(r) - 1 /\ At(r, d) = w[j]
          BY <3>6 DEF At
    <3>. HIDE DEF d
    <3>. QED
         BY <3>1, <3>5, <3>7, <3>8
  <2>18. Arrives(r)
         BY <2>1, <2>3, <2>9, <2>16, <2>17 DEF Arrives
  <2>. QED
       BY <2>12, <2>13, <2>18 DEF r
<1>. QED
     BY <1>7, <1>8

\* A compaction that keeps the calls with their results leaves it where the model sees it.
LEMMA CompactArrives ==
    ASSUME NEW n, NEW ms \in Seq(Message(n)), NEW u \in 1..n, Len(ms) > 0, Arrives(ms),
           KeepCompact # 1
    PROVE  Len(Compact(ms, u)) > 0 /\ Arrives(Compact(ms, u))
<1> DEFINE slice == AfterCompactBoundary(ms)
           t == SplitAt(slice)
           r == ms \o <<Boundary(u)>> \o SubSeq(slice, t + 1, Len(slice))
           l == Len(ms)
<1>1. slice \in Seq(Message(n)) /\ Len(slice) \in Nat /\ l \in Nat
      BY SliceShape, LenProperties
<1>2. PICK b : Sliced(slice, ms, b)
      BY SliceShape
<1>3. t \in Nat /\ t <= Len(slice) /\ Len(slice) - t = IF Len(slice) > KeepCompact THEN KeepCompact ELSE Len(slice)
  <2>. HIDE DEF slice
  <2>. QED
       BY <1>1, Quotas DEF SplitAt
<1>4. Compact(ms, u) = r
      BY Zenon DEF Compact
<1>5. r \in Seq(Message(n)) /\ \E d : Compacted(r, ms, u, d) /\ d = Len(slice) + 1 - t
  <2>1. Boundary(u) \in Message(n)
        BY NewMessages
  <2>. HIDE DEF t
  <2>. QED
       BY <1>3, <2>1, CompactShape
<1> SUFFICES Len(r) > 0 /\ Arrives(r)
    BY <1>4, Zenon
<1>. HIDE DEF r, t, slice
<1>6. PICK d : Compacted(r, ms, u, d) /\ d = Len(slice) + 1 - t
      BY <1>5
<1>7. /\ d \in 1..(l + 1) /\ Len(r) = l + d /\ r[l + 1] = Boundary(u)
      /\ \A i \in (l + 2)..(l + d) : r[i] = ms[i - d]
      BY <1>6 DEF Compacted
<1>8. CASE d = 1
  <2>1. r[Len(r)].kind = "boundary"
        BY <1>7, <1>8 DEF Boundary
  <2>. QED
       BY <1>1, <1>7, <2>1 DEF Arrives
<1>9. CASE d # 1
  <2>1. r[Len(r)] = ms[l]
    <3>1. l + d \in (l + 2)..(l + d) /\ (l + d) - d = l
          BY <1>1, <1>7, <1>9
    <3>. QED
         BY <1>7, <3>1
  <2>2. CASE ms[l].kind # "result"
        BY <1>1, <1>7, <2>1, <2>2 DEF Arrives
  <2>3. CASE ms[l].kind = "result"
    <3>1. /\ At(ms, Newest(ms)).body = "full"
          /\ \E p \in Places(ms, "use") : p[1] = l - 1 /\ At(ms, p).call = At(ms, Newest(ms)).call
          BY <2>3 DEF Arrives
    <3>2. PICK p \in Places(ms, "use") : p[1] = l - 1 /\ At(ms, p).call = At(ms, Newest(ms)).call
          BY <3>1
    <3>3. l - 1 \in 1..l /\ ms[l - 1].kind = "use"
          BY <3>2, PlacesAre
    <3>4. Len(slice) >= 2
      <4>1. (b # l /\ b # l - 1) \/ b = 1
            BY <1>2, <2>3, <3>3 DEF Sliced
      <4>2. b \in 1..(l + 1) /\ (b = 1 \/ b <= l) /\ Len(slice) = l + 1 - b
            BY <1>2 DEF Sliced
      <4>. QED
           BY <1>1, <3>3, <4>1, <4>2
    <3>5. d >= 3
          BY <1>1, <1>3, <1>6, <1>7, <1>9, <3>4, Quotas
    <3>6. r[Len(r) - 1] = ms[l - 1]
      <4>1. l + d - 1 \in (l + 2)..(l + d) /\ (l + d - 1) - d = l - 1
            BY <1>1, <1>7, <3>5
      <4>. QED
           BY <1>7, <4>1
    <3>7. CompactedAt(r, ms, d, "use")
          BY <1>5, <1>6, CompactedPlaces
    <3> DEFINE q == <<p[1] + d, p[2]>>
    <3>8. q \in Places(r, "use") /\ At(r, q) = At(ms, p) /\ q[1] = Len(r) - 1
      <4>1. p[1] + d > l + 1 /\ q[1] = Len(r) - 1
            BY <1>1, <1>7, <3>2, <3>5
      <4>2. p[1] + d > Len(ms) + 1 => q \in Places(r, "use") /\ At(r, q) = At(ms, p)
            BY <3>7 DEF CompactedAt
      <4>. QED
           BY <4>1, <4>2
    <3>. HIDE DEF q
    <3>9. At(r, Newest(r)) = At(ms, Newest(ms))
          BY <2>1 DEF At, Newest
    <3>. QED
         BY <1>1, <1>7, <3>1, <3>2, <3>8, <3>9 DEF Arrives
  <2>. QED
       BY <2>2, <2>3
<1>. QED
     BY <1>8, <1>9

\* Every tool block of r is one of ms, as far as the call goes.
BlocksFrom(r, ms) ==
    \A kind \in {"use", "result"} : \A q \in Places(r, kind) :
        \E p \in Places(ms, kind) : At(r, q).call = At(ms, p).call

LEMMA FewerCalls ==
    ASSUME NEW r, NEW ms, BlocksFrom(r, ms)
    PROVE  /\ \A n : CallsUpTo(ms, n) => CallsUpTo(r, n)
           /\ ReplyIds(r) \subseteq ReplyIds(ms)
<1>1. ASSUME NEW n, CallsUpTo(ms, n) PROVE CallsUpTo(r, n)
      BY <1>1 DEF BlocksFrom, CallsUpTo
<1>2. ReplyIds(r) \subseteq ReplyIds(ms)
      BY DEF BlocksFrom, ReplyIds
<1>. QED
     BY <1>1, <1>2

LEMMA MicrocompactBlocks ==
    ASSUME NEW n, NEW ms \in Seq(Message(n))
    PROVE  BlocksFrom(Microcompact(ms), ms)
<1> DEFINE places == RepliesOf(ms, Compactable) \ RecentCompactable(ms)
           r == Microcompact(ms)
<1>1. /\ r \in Seq(Message(n)) /\ Rewritten(r, ms, places, "cleared")
      /\ places \subseteq Places(ms, "result")
      BY MicrocompactKeeps
<1>. HIDE DEF places, r
<1>2. SamePlaces(r, ms, places, "cleared")
      BY <1>1, RewrittenPlaces
<1>3. BlocksFrom(r, ms)
      BY <1>2 DEF BlocksFrom, SamePlaces
<1>. QED
     BY <1>3 DEF r

LEMMA ThinnedBlocks ==
    ASSUME NEW n, NEW ms \in Seq(Message(n)), NEW r \in Seq(Message(n)),
           NEW K, K \subseteq 1..Len(ms), NEW places, NEW u, NEW t, NEW g,
           Thinned(r, ms, K, places, u, t, g)
    PROVE  BlocksFrom(r, ms)
<1>1. PlacesFrom(r, ms, K, places, g, "use") /\ PlacesFrom(r, ms, K, places, g, "result")
      BY ThinnedPlaces
<1>. QED
     BY <1>1 DEF PlacesFrom, BlocksFrom

LEMMA SnipBlocks ==
    ASSUME NEW n, NEW ms \in Seq(Message(n)), NEW u \in 1..n, NEW k
    PROVE  BlocksFrom(Snip(ms, k, u), ms)
<1> DEFINE f == Folded(ms)
           E == Evicted(ms, k)
           r == Snip(ms, k, u)
<1>1. f \in Seq(Message(n)) /\ SamePlaces(f, ms, PositionsToSnip(ms), "snipped")
      BY FoldedShape
<1>2. r \in Seq(Message(n)) /\ \E t, g : Thinned(r, f, Kept(f, E), E, u, t, g)
      BY SnipShape
<1>. HIDE DEF f, E, r
<1>3. Kept(f, E) \subseteq 1..Len(f)
      BY <1>1, LenProperties DEF Kept
<1>4. BlocksFrom(r, f)
      BY <1>1, <1>2, <1>3, ThinnedBlocks
<1>5. BlocksFrom(f, ms)
      BY <1>1 DEF BlocksFrom, SamePlaces
<1>6. BlocksFrom(r, ms)
      BY <1>4, <1>5 DEF BlocksFrom
<1>. QED
     BY <1>6 DEF r

LEMMA SnipHistoryBlocks ==
    ASSUME NEW n, NEW ms \in Seq(Message(n)), NEW us
    PROVE  BlocksFrom(SnipHistory(ms, us), ms)
<1> DEFINE K == {i \in DOMAIN ms : ms[i].id \notin us}
           r == SnipHistory(ms, us)
<1>1. r \in Seq(Message(n)) /\ \E t, g : Thinned(r, ms, K, {}, 0, t, g)
      BY SnipHistoryShape
<1>2. K \subseteq 1..Len(ms)
      BY LenProperties
<1>. HIDE DEF K, r
<1>3. BlocksFrom(r, ms)
      BY <1>1, <1>2, ThinnedBlocks
<1>. QED
     BY <1>3 DEF r

LEMMA CompactBlocks ==
    ASSUME NEW n, NEW ms \in Seq(Message(n)), NEW u \in 1..n
    PROVE  BlocksFrom(Compact(ms, u), ms)
<1> DEFINE r == Compact(ms, u)
<1>1. r \in Seq(Message(n)) /\ \E d : Compacted(r, ms, u, d)
      BY CompactKeeps
<1>. HIDE DEF r
<1>2. PICK d : Compacted(r, ms, u, d)
      BY <1>1
<1>3. ASSUME NEW kind \in {"use", "result"} PROVE CompactedAt(r, ms, d, kind)
      BY <1>1, <1>2, CompactedPlaces
<1>4. BlocksFrom(r, ms)
      BY <1>3 DEF BlocksFrom, CompactedAt
<1>. QED
     BY <1>4 DEF r

\* Appended blocks are the message's own.
LEMMA AppendCalls ==
    ASSUME NEW n, NEW ms \in Seq(Message(n)), NEW m \in Message(n), NEW c \in Nat, NEW e \in Nat,
           CallsUpTo(ms, c), c <= e, \A j \in 1..Len(m.items) : m.items[j].call <= e
    PROVE  CallsUpTo(Append(ms, m), e)
<1> DEFINE r == Append(ms, m)
<1>1. \A kind : AppendedAt(r, ms, m, kind)
      BY AppendedPlaces
<1>2. \A kind \in {"use", "result"} : \A p \in Places(ms, kind) : At(ms, p).call \in Nat
      BY ItemAt DEF Calls, Results
<1>. HIDE DEF r
<1>3. ASSUME NEW kind \in {"use", "result"}, NEW q \in Places(r, kind) PROVE At(r, q).call <= e
  <2>1. CASE q \in Places(ms, kind) /\ At(r, q) = At(ms, q)
        BY <1>2, <2>1 DEF CallsUpTo
  <2>2. CASE q[2] \in 1..Len(m.items) /\ At(r, q) = m.items[q[2]]
        BY <2>2
  <2>. QED
       BY <1>1, <2>1, <2>2 DEF AppendedAt
<1>. QED
     BY <1>3 DEF CallsUpTo, r

-----------------------------------------------------------------------------
(* Calls and their results *)

\* The uses of a call are in copies of one message.
OneUsePerCall(ms) ==
    \A p, q \in Places(ms, "use") : At(ms, p).call = At(ms, q).call => ms[p[1]].id = ms[q[1]].id

\* Nothing but snip boundaries lies between a use and a later result of its call, unless
\* the boundary of a compaction does.
AnsweredNext(ms) ==
    \A p \in Places(ms, "use"), q \in Places(ms, "result") : \A k \in 1..Len(ms) :
        /\ At(ms, p).call = At(ms, q).call
        /\ p[1] < k /\ k < q[1] /\ ms[k].kind # "snip_boundary"
        => \E b \in 1..Len(ms) : p[1] < b /\ b < q[1] /\ ms[b].kind = "boundary"

\* What is always true of calls and results.
Paired(ms, c) == CallsUpTo(ms, c) /\ OneUsePerCall(ms) /\ AnsweredNext(ms)

\* A rewriting moves nothing.
LEMMA RewritingPaired ==
    ASSUME NEW n, NEW ms \in Seq(Message(n)), NEW r \in Seq(Message(n)),
           NEW places, places \subseteq Places(ms, "result"), NEW body,
           Rewritten(r, ms, places, body)
    PROVE  /\ OneUsePerCall(ms) => OneUsePerCall(r)
           /\ AnsweredNext(ms) => AnsweredNext(r)
<1>1. Len(r) = Len(ms) /\ \A i \in 1..Len(ms) : r[i].id = ms[i].id /\ r[i].kind = ms[i].kind
      BY DEF Rewritten
<1>2. /\ Places(r, "use") = Places(ms, "use") /\ Places(r, "result") = Places(ms, "result")
      /\ \A p \in Places(ms, "use") : At(r, p).call = At(ms, p).call /\ p[1] \in 1..Len(ms)
      /\ \A p \in Places(ms, "result") : At(r, p).call = At(ms, p).call
  <2>1. SamePlaces(r, ms, places, body)
        BY RewrittenPlaces
  <2>. QED
       BY <2>1, PlacesAre DEF SamePlaces
<1>3. OneUsePerCall(ms) => OneUsePerCall(r)
      BY <1>1, <1>2 DEF OneUsePerCall
<1>4. AnsweredNext(ms) => AnsweredNext(r)
      BY <1>1, <1>2 DEF AnsweredNext
<1>. QED
     BY <1>3, <1>4

\* A thinning that leaves the boundaries moves nothing in between.
LEMMA ThinningPaired ==
    ASSUME NEW n, NEW ms \in Seq(Message(n)), NEW r \in Seq(Message(n)),
           NEW K, K \subseteq 1..Len(ms), NEW places, NEW u, NEW t, NEW g,
           Thinned(r, ms, K, places, u, t, g),
           \A i \in 1..Len(ms) : ms[i].kind = "boundary" => i \in K
    PROVE  /\ OneUsePerCall(ms) => OneUsePerCall(r)
           /\ AnsweredNext(ms) => AnsweredNext(r)
<1>1. /\ Len(r) \in Nat /\ Len(ms) \in Nat
      /\ \A k, l \in 1..Len(r) : k < l /\ g[k] # 0 /\ g[l] # 0 => g[k] < g[l]
      /\ \A i \in K : \E k \in 1..Len(r) : g[k] = i
      BY LenProperties DEF Thinned, Spliced
<1>2. /\ MessagesFrom(r, ms, K, places, u, g)
      /\ PlacesFrom(r, ms, K, places, g, "use") /\ PlacesFrom(r, ms, K, places, g, "result")
      BY ThinnedPlaces
<1>3. \A k \in 1..Len(r) :
         /\ g[k] = 0 => r[k].kind = "snip_boundary"
         /\ g[k] # 0 => g[k] \in 1..Len(ms) /\ r[k].kind = ms[g[k]].kind
      BY <1>2 DEF MessagesFrom, SnipBoundary
<1>4. OneUsePerCall(ms) => OneUsePerCall(r)
  <2> SUFFICES ASSUME OneUsePerCall(ms), NEW p \in Places(r, "use"), NEW q \in Places(r, "use"),
                      At(r, p).call = At(r, q).call
               PROVE  r[p[1]].id = r[q[1]].id
      BY DEF OneUsePerCall
  <2>1. PICK x \in Places(ms, "use") : At(r, p) = At(ms, x) /\ r[p[1]].id = ms[x[1]].id
        BY <1>2 DEF PlacesFrom
  <2>2. PICK y \in Places(ms, "use") : At(r, q) = At(ms, y) /\ r[q[1]].id = ms[y[1]].id
        BY <1>2 DEF PlacesFrom
  <2>. QED
       BY <2>1, <2>2 DEF OneUsePerCall
<1>5. ASSUME AnsweredNext(ms), NEW p \in Places(r, "use"), NEW q \in Places(r, "result"),
             NEW k \in 1..Len(r), At(r, p).call = At(r, q).call,
             p[1] < k, k < q[1], r[k].kind # "snip_boundary"
      PROVE  \E b \in 1..Len(r) : p[1] < b /\ b < q[1] /\ r[b].kind = "boundary"
  <2>1. PICK x \in Places(ms, "use") : x[1] = g[p[1]] /\ At(r, p) = At(ms, x)
        BY <1>2 DEF PlacesFrom
  <2>2. PICK y \in Places(ms, "result") : y[1] = g[q[1]] /\ At(r, q) = At(ms, y)
        BY <1>2 DEF PlacesFrom
  <2>3. p[1] \in 1..Len(r) /\ q[1] \in 1..Len(r) /\ x[1] \in 1..Len(ms) /\ y[1] \in 1..Len(ms)
        BY PlacesAre
  <2>4. g[k] \in 1..Len(ms) /\ ms[g[k]].kind # "snip_boundary" /\ x[1] < g[k] /\ g[k] < y[1]
    <3>1. g[k] # 0 /\ g[p[1]] # 0 /\ g[q[1]] # 0
          BY <1>3, <1>5, <2>1, <2>2, <2>3
    <3>2. g[p[1]] < g[k] /\ g[k] < g[q[1]]
          BY <1>1, <1>5, <2>3, <3>1
    <3>. QED
         BY <1>3, <1>5, <2>1, <2>2, <3>1, <3>2
  <2>5. PICK c \in 1..Len(ms) : x[1] < c /\ c < y[1] /\ ms[c].kind = "boundary"
        BY <1>5, <2>1, <2>2, <2>4 DEF AnsweredNext
  <2>6. PICK b \in 1..Len(r) : g[b] = c
        BY <1>1, <2>5
  <2>7. r[b].kind = "boundary"
        BY <1>3, <2>5, <2>6
  <2>8. p[1] < b /\ b < q[1]
    <3>1. b # p[1] /\ b # q[1]
          BY <2>1, <2>2, <2>3, <2>5, <2>6
    <3>2. ~(b < p[1])
      <4>1. g[b] # 0 /\ g[p[1]] # 0
            BY <2>1, <2>3, <2>5, <2>6
      <4>2. b < p[1] => g[b] < g[p[1]]
            BY <1>1, <2>3, <4>1
      <4>. QED
           BY <2>1, <2>3, <2>5, <2>6, <4>2
    <3>3. ~(q[1] < b)
      <4>1. g[b] # 0 /\ g[q[1]] # 0
            BY <2>2, <2>3, <2>5, <2>6
      <4>2. q[1] < b => g[q[1]] < g[b]
            BY <1>1, <2>3, <4>1
      <4>. QED
           BY <2>2, <2>3, <2>5, <2>6, <4>2
    <3>. QED
         BY <2>3, <3>1, <3>2, <3>3
  <2>. QED
       BY <2>7, <2>8
<1>. QED
     BY <1>4, <1>5 DEF AnsweredNext

\* A compaction parts what it copies from what it copies it from.
LEMMA CompactingPaired ==
    ASSUME NEW n, NEW ms \in Seq(Message(n)), NEW r \in Seq(Message(n)), NEW u, NEW d,
           Compacted(r, ms, u, d)
    PROVE  /\ OneUsePerCall(ms) => OneUsePerCall(r)
           /\ AnsweredNext(ms) => AnsweredNext(r)
<1>1. /\ Len(ms) \in Nat /\ d \in 1..(Len(ms) + 1) /\ Len(r) = Len(ms) + d
      /\ \A i \in 1..Len(ms) : r[i] = ms[i]
      /\ r[Len(ms) + 1].kind = "boundary"
      /\ \A i \in (Len(ms) + 2)..(Len(ms) + d) : r[i] = ms[i - d]
      BY LenProperties DEF Compacted, Boundary
<1> DEFINE l == Len(ms)
\* Where a tool block comes from.
<1>2. ASSUME NEW kind \in {"use", "result"}, NEW q \in Places(r, kind)
      PROVE  \E p \in Places(ms, kind) :
                /\ At(r, q) = At(ms, p) /\ r[q[1]] = ms[p[1]]
                /\ p[1] \in 1..l
                /\ \/ q[1] = p[1]
                   \/ q[1] \in (l + 2)..(l + d) /\ p[1] = q[1] - d
  <2>1. CompactedAt(r, ms, d, kind)
        BY <1>2, CompactedPlaces
  <2>2. CASE q[1] \in 1..l /\ q \in Places(ms, kind) /\ At(r, q) = At(ms, q)
        BY <1>1, <2>2
  <2>3. CASE /\ q[1] \in (l + 2)..(l + d)
             /\ <<q[1] - d, q[2]>> \in Places(ms, kind) /\ At(r, q) = At(ms, <<q[1] - d, q[2]>>)
    <3>1. r[q[1]] = ms[q[1] - d] /\ q[1] - d \in 1..l
          BY <1>1, <2>3
    <3>. QED
         BY <2>3, <3>1
  <2>. QED
       BY <2>1, <2>2, <2>3 DEF CompactedAt
<1>3. OneUsePerCall(ms) => OneUsePerCall(r)
  <2>1. \A q \in Places(r, "use") : \E p \in Places(ms, "use") :
            At(r, q) = At(ms, p) /\ r[q[1]] = ms[p[1]]
        BY <1>2
  <2> SUFFICES ASSUME OneUsePerCall(ms), NEW p \in Places(r, "use"), NEW q \in Places(r, "use"),
                      At(r, p).call = At(r, q).call
               PROVE  r[p[1]].id = r[q[1]].id
      BY DEF OneUsePerCall
  <2>2. PICK x \in Places(ms, "use") : At(r, p) = At(ms, x) /\ r[p[1]] = ms[x[1]]
        BY <2>1
  <2>3. PICK y \in Places(ms, "use") : At(r, q) = At(ms, y) /\ r[q[1]] = ms[y[1]]
        BY <2>1
  <2>. QED
       BY <2>2, <2>3 DEF OneUsePerCall
<1>4. ASSUME AnsweredNext(ms), NEW p \in Places(r, "use"), NEW q \in Places(r, "result"),
             NEW k \in 1..Len(r), At(r, p).call = At(r, q).call,
             p[1] < k, k < q[1], r[k].kind # "snip_boundary"
      PROVE  \E b \in 1..Len(r) : p[1] < b /\ b < q[1] /\ r[b].kind = "boundary"
  <2>1. PICK x \in Places(ms, "use") :
            /\ At(r, p) = At(ms, x) /\ x[1] \in 1..l
            /\ p[1] = x[1] \/ (p[1] \in (l + 2)..(l + d) /\ x[1] = p[1] - d)
        BY <1>2
  <2>2. PICK y \in Places(ms, "result") :
            /\ At(r, q) = At(ms, y) /\ y[1] \in 1..l
            /\ q[1] = y[1] \/ (q[1] \in (l + 2)..(l + d) /\ y[1] = q[1] - d)
        BY <1>2
  <2>3. CASE p[1] = x[1] /\ q[1] = y[1]
    <3>1. k \in 1..l /\ ms[k].kind # "snip_boundary"
          BY <1>1, <1>4, <2>1, <2>2, <2>3
    <3>2. PICK b \in 1..l : x[1] < b /\ b < y[1] /\ ms[b].kind = "boundary"
          BY <1>4, <2>1, <2>2, <2>3, <3>1 DEF AnsweredNext
    <3>3. b \in 1..Len(r) /\ r[b].kind = "boundary"
          BY <1>1, <3>2
    <3>. QED
         BY <2>3, <3>2, <3>3
  <2>4. CASE p[1] = x[1] /\ q[1] \in (l + 2)..(l + d)
    <3>1. l + 1 \in 1..Len(r) /\ p[1] < l + 1 /\ l + 1 < q[1]
          BY <1>1, <2>1, <2>4
    <3>. QED
         BY <1>1, <3>1
  <2>5. CASE /\ p[1] \in (l + 2)..(l + d) /\ x[1] = p[1] - d
             /\ q[1] \in (l + 2)..(l + d) /\ y[1] = q[1] - d
    <3>1. /\ k - d \in 1..l /\ r[k] = ms[k - d] /\ x[1] < k - d /\ k - d < y[1]
          BY <1>1, <1>4, <2>1, <2>2, <2>5, SMTT(30)
    <3>2. PICK c \in 1..l : x[1] < c /\ c < y[1] /\ ms[c].kind = "boundary"
          BY <1>4, <2>1, <2>2, <3>1 DEF AnsweredNext
    <3>3. /\ c + d \in 1..Len(r) /\ p[1] < c + d /\ c + d < q[1]
          /\ c + d \in (l + 2)..(l + d) /\ c + d - d = c
          BY <1>1, <2>1, <2>2, <2>5, <3>2, SMTT(30)
    <3>4. r[c + d] = ms[c]
          BY <1>1, <3>3
    <3>. QED
         BY <3>2, <3>3, <3>4
  <2>6. CASE p[1] \in (l + 2)..(l + d) /\ q[1] = y[1]
        BY <1>1, <1>4, <2>2, <2>6
  <2>. QED
       BY <2>1, <2>2, <2>3, <2>4, <2>5, <2>6
<1>. QED
     BY <1>3, <1>4 DEF AnsweredNext

LEMMA MicrocompactPaired ==
    ASSUME NEW n, NEW ms \in Seq(Message(n)), NEW c, Paired(ms, c)
    PROVE  Paired(Microcompact(ms), c)
<1> DEFINE places == RepliesOf(ms, Compactable) \ RecentCompactable(ms)
           r == Microcompact(ms)
<1>1. /\ r \in Seq(Message(n)) /\ Rewritten(r, ms, places, "cleared")
      /\ places \subseteq Places(ms, "result") /\ BlocksFrom(r, ms)
      BY MicrocompactKeeps, MicrocompactBlocks
<1>. HIDE DEF places, r
<1>2. CallsUpTo(r, c) /\ OneUsePerCall(r) /\ AnsweredNext(r)
      BY <1>1, FewerCalls, RewritingPaired DEF Paired
<1>. QED
     BY <1>2 DEF Paired, r

LEMMA SnipPaired ==
    ASSUME NEW n, NEW ms \in Seq(Message(n)), NEW u \in 1..n, NEW k, NEW c, Paired(ms, c)
    PROVE  Paired(Snip(ms, k, u), c)
<1> DEFINE f == Folded(ms)
           E == Evicted(ms, k)
           r == Snip(ms, k, u)
<1>1. /\ f \in Seq(Message(n)) /\ PositionsToSnip(ms) \subseteq Places(ms, "result")
      /\ Rewritten(f, ms, PositionsToSnip(ms), "snipped")
      BY FoldedShape
<1>2. r \in Seq(Message(n)) /\ \E t, g : Thinned(r, f, Kept(f, E), E, u, t, g)
      BY SnipShape
<1>3. BlocksFrom(r, ms)
      BY SnipBlocks
<1>. HIDE DEF f, r
<1>4. OneUsePerCall(f) /\ AnsweredNext(f)
      BY <1>1, RewritingPaired DEF Paired
<1>5. PICK t, g : Thinned(r, f, Kept(f, E), E, u, t, g)
      BY <1>2
<1>6. /\ Kept(f, E) \subseteq 1..Len(f)
      /\ \A i \in 1..Len(f) : f[i].kind = "boundary" => i \in Kept(f, E)
      BY <1>1, KeptMessages
<1>7. OneUsePerCall(r) /\ AnsweredNext(r)
      BY <1>1, <1>2, <1>4, <1>5, <1>6, ThinningPaired
<1>8. CallsUpTo(r, c)
      BY <1>3, FewerCalls DEF Paired
<1>. QED
     BY <1>7, <1>8 DEF Paired, r

LEMMA SnipHistoryPaired ==
    ASSUME NEW n, NEW ms \in Seq(Message(n)), NEW us, Accepts(ms, us), OneKindPerId(ms),
           NEW c, Paired(ms, c)
    PROVE  Paired(SnipHistory(ms, us), c)
<1> DEFINE K == {i \in DOMAIN ms : ms[i].id \notin us}
           r == SnipHistory(ms, us)
<1>1. r \in Seq(Message(n)) /\ \E t, g : Thinned(r, ms, K, {}, 0, t, g)
      BY SnipHistoryShape
<1>2. BlocksFrom(r, ms)
      BY SnipHistoryBlocks
<1>. HIDE DEF r
<1>3. PICK t, g : Thinned(r, ms, K, {}, 0, t, g)
      BY <1>1
<1>4. \A i \in 1..Len(ms) : ms[i].id \in us => ms[i].kind = "result"
      BY AcceptedAreResults
<1>5. K \subseteq 1..Len(ms) /\ \A i \in 1..Len(ms) : ms[i].kind = "boundary" => i \in K
      BY <1>4, LenProperties
<1>. HIDE DEF K
<1>6. OneUsePerCall(r) /\ AnsweredNext(r)
      BY <1>1, <1>3, <1>5, ThinningPaired DEF Paired
<1>7. CallsUpTo(r, c)
      BY <1>2, FewerCalls DEF Paired
<1>. QED
     BY <1>6, <1>7 DEF Paired, r

LEMMA CompactPaired ==
    ASSUME NEW n, NEW ms \in Seq(Message(n)), NEW u \in 1..n, NEW c, Paired(ms, c)
    PROVE  Paired(Compact(ms, u), c)
<1> DEFINE r == Compact(ms, u)
<1>1. r \in Seq(Message(n)) /\ \E d : Compacted(r, ms, u, d)
      BY CompactKeeps
<1>2. BlocksFrom(r, ms)
      BY CompactBlocks
<1>. HIDE DEF r
<1>3. OneUsePerCall(r) /\ AnsweredNext(r)
      BY <1>1, CompactingPaired DEF Paired
<1>4. CallsUpTo(r, c)
      BY <1>2, FewerCalls DEF Paired
<1>. QED
     BY <1>3, <1>4 DEF Paired, r

\* What is appended is a message without results, its calls under new numbers, or the
\* results of the calls right before it.
LEMMA AppendPaired ==
    ASSUME NEW n, NEW ms \in Seq(Message(n)), NEW m \in Message(n), NEW c \in Nat, NEW e \in Nat,
           c <= e, Paired(ms, c), CopiesApart(ms),
           m.kind = "use" => \A i \in 1..Len(m.items) : m.items[i].call \in (c + 1)..e,
           m.kind = "result" =>
              /\ Len(ms) > 0 /\ ms[Len(ms)].kind = "use"
              /\ \A i \in 1..Len(m.items) : \E j \in 1..Len(ms[Len(ms)].items) :
                    ms[Len(ms)].items[j].call = m.items[i].call
    PROVE  Paired(Append(ms, m), e)
<1> DEFINE r == Append(ms, m)
           l == Len(ms)
<1>1. /\ r \in Seq(Message(n)) /\ l \in Nat /\ Len(r) = l + 1
      /\ \A i \in 1..l : r[i] = ms[i]
      /\ r[l + 1] = m
      BY AppendProperties, LenProperties
<1>2. AppendedAt(r, ms, m, "use") /\ AppendedAt(r, ms, m, "result")
      BY AppendedPlaces
<1>3. /\ CallsUpTo(ms, c) /\ OneUsePerCall(ms) /\ AnsweredNext(ms)
      /\ \A p \in Places(ms, "use") : p[1] \in 1..l /\ At(ms, p).call \in Nat /\ At(ms, p).call <= c
      BY PlacesAre, ItemAt DEF Paired, CallsUpTo, Calls
<1>4. \A i \in 1..Len(m.items) : m.items[i].call <= e
  <2>1. CASE m.kind = "use"
        BY <2>1
  <2>2. CASE m.kind = "result"
    <3> SUFFICES ASSUME NEW i \in 1..Len(m.items) PROVE m.items[i].call <= e
        OBVIOUS
    <3>1. PICK j \in 1..Len(ms[l].items) : ms[l].items[j].call = m.items[i].call
          BY <2>2
    <3> DEFINE p == <<l, j>>
    <3>2. p \in Places(ms, "use") /\ At(ms, p) = ms[l].items[j]
      <4>1. l \in 1..Len(ms) /\ ms[l].kind = "use"
            BY <1>1, <2>2
      <4>. QED
           BY <4>1, PlacesAre DEF At
    <3>. HIDE DEF p
    <3>. QED
         BY <1>3, <3>1, <3>2, SMTT(30)
  <2>3. CASE m.kind \notin {"use", "result"}
    <3>1. Len(m.items) = 0
          BY <2>3, MessageParts
    <3>. QED
         BY <3>1
  <2>. QED
       BY <2>1, <2>2, <2>3
<1>. HIDE DEF r
<1>5. CallsUpTo(r, e)
      BY <1>3, <1>4, AppendCalls DEF r
<1>6. OneUsePerCall(r)
  <2> SUFFICES ASSUME NEW p \in Places(r, "use"), NEW q \in Places(r, "use"),
                      At(r, p).call = At(r, q).call
               PROVE  r[p[1]].id = r[q[1]].id
      BY DEF OneUsePerCall
  <2>1. ASSUME NEW x \in Places(r, "use")
        PROVE  \/ x \in Places(ms, "use") /\ x[1] \in 1..l /\ At(r, x) = At(ms, x) /\ At(r, x).call <= c
               \/ x[1] = l + 1 /\ At(r, x).call \in (c + 1)..e
    <3>1. CASE x \in Places(ms, "use") /\ At(r, x) = At(ms, x)
          BY <1>3, <3>1
    <3>2. CASE m.kind = "use" /\ x[1] = l + 1 /\ x[2] \in 1..Len(m.items) /\ At(r, x) = m.items[x[2]]
          BY <3>2
    <3>. QED
         BY <1>2, <3>1, <3>2 DEF AppendedAt
  <2>2. CASE p \in Places(ms, "use") /\ p[1] \in 1..l /\ At(r, p) = At(ms, p) /\ At(r, p).call <= c
    <3>1. q \in Places(ms, "use") /\ q[1] \in 1..l /\ At(r, q) = At(ms, q)
          BY <2>1, <2>2
    <3>. QED
         BY <1>1, <1>3, <2>2, <3>1 DEF OneUsePerCall
  <2>3. CASE p[1] = l + 1 /\ At(r, p).call \in (c + 1)..e
    <3>1. q[1] = l + 1
          BY <2>1, <2>3
    <3>. QED
         BY <2>3, <3>1
  <2>. QED
       BY <2>1, <2>2, <2>3
<1>7. AnsweredNext(r)
  <2> SUFFICES ASSUME NEW p \in Places(r, "use"), NEW q \in Places(r, "result"), NEW k \in 1..Len(r),
                      At(r, p).call = At(r, q).call,
                      p[1] < k, k < q[1], r[k].kind # "snip_boundary"
               PROVE  \E b \in 1..Len(r) : p[1] < b /\ b < q[1] /\ r[b].kind = "boundary"
      BY DEF AnsweredNext
  <2>1. p[1] \in 1..Len(r) /\ q[1] \in 1..Len(r) /\ k \in 1..l /\ p[1] \in 1..l
        BY <1>1, PlacesAre
  <2>2. p \in Places(ms, "use") /\ At(r, p) = At(ms, p)
        BY <1>1, <1>2, <2>1 DEF AppendedAt
  <2>3. CASE q \in Places(ms, "result") /\ At(r, q) = At(ms, q)
    <3>1. PICK b \in 1..l : p[1] < b /\ b < q[1] /\ ms[b].kind = "boundary"
          BY <1>1, <1>3, <2>1, <2>2, <2>3 DEF AnsweredNext
    <3>. QED
         BY <1>1, <3>1
  <2>4. CASE /\ m.kind = "result" /\ q[1] = l + 1
             /\ q[2] \in 1..Len(m.items) /\ At(r, q) = m.items[q[2]]
    <3>1. PICK j \in 1..Len(ms[l].items) : ms[l].items[j].call = m.items[q[2]].call
          BY <2>4
    <3> DEFINE x == <<l, j>>
    <3>2. x \in Places(ms, "use") /\ At(ms, x) = ms[l].items[j] /\ x[1] = l
      <4>1. l \in 1..Len(ms) /\ ms[l].kind = "use"
            BY <1>1, <2>4
      <4>. QED
           BY <4>1, PlacesAre DEF At
    <3>. HIDE DEF x
    <3>3. ms[p[1]].id = ms[l].id
          BY <1>3, <2>2, <2>4, <3>1, <3>2, SMTT(30) DEF OneUsePerCall
    <3>4. p[1] < l
          BY <1>1, <2>1, <2>4
    <3>5. PICK b \in 1..l : p[1] < b /\ b < l /\ ms[b].kind = "boundary"
      <4>1. l \in 1..Len(ms) /\ p[1] \in 1..Len(ms) /\ ms[l].kind # "boundary"
            BY <1>1, <2>1, <2>4
      <4>. HIDE DEF l
      <4>2. \E b \in 1..Len(ms) : p[1] < b /\ b < l /\ ms[b].kind = "boundary"
            BY <3>3, <3>4, <4>1 DEF CopiesApart
      <4>. QED
           BY <4>2 DEF l
    <3>. QED
         BY <1>1, <2>4, <3>5
  <2>. QED
       BY <1>2, <2>3, <2>4 DEF AppendedAt
<1>. QED
     BY <1>5, <1>6, <1>7 DEF Paired, r
=============================================================================
