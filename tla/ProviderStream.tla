--------------------------- MODULE ProviderStream ---------------------------
(****************************************************************************)
(* What OpenAIProvider (provider.py) makes of an answer: the fragments of   *)
(* tool calls that a stream delivers, interleaved and possibly cut short,   *)
(* become calls, or none.  The text of an answer changes nothing and is     *)
(* left out; of a call's arguments only matters which fragments they hold.  *)
(****************************************************************************)
EXTENDS Naturals, Sequences, FiniteSets, FiniteSetsExt, SequencesExt

CONSTANTS
    None,      \* a field a delta or a call does not have
    Own,       \* an id no other call has
    Reused,    \* an id the service gives to calls of several answers
    MaxSent,   \* calls in one answer (bound)
    MaxPieces  \* fragments of the arguments of one call (bound)

ASSUME StreamBounds == MaxSent \in Nat /\ MaxPieces \in Nat /\ None \notin Nat

\* A call as the model makes it: its arguments, of so many fragments, and the lengths
\* at which what is there of them parses: as JSON, or for the lenient parser, which is
\* content with a brace at the end, be it one in the middle of a string.
Sent == {call \in [id : {Own, Reused, None}, pieces : 1..MaxPieces, parses : SUBSET (1..MaxPieces)] :
             call.parses \subseteq 1..call.pieces}

\* The first n fragments of the c-th call, and all of them.
Part(c, n)     == [k \in 1..n |-> <<c, k>>]
Whole(sent, c) == Part(c, sent[c].pieces)

-----------------------------------------------------------------------------
(* What the service streams *)

\* In which order the deltas of several calls come: order[k] is the call the k-th is of.
\* The stream may end behind any of them.
Count(order, k, c) == Cardinality({j \in 1..k : order[j] = c})

Orders(sent) ==
    {order \in BoundedSeq(DOMAIN sent, Len(sent) * (MaxPieces + 1)) :
        \A c \in DOMAIN sent : Count(order, Len(order), c) <= sent[c].pieces + 1}

EndsEarly(sent, order) ==
    \E c \in DOMAIN sent : Count(order, Len(order), c) <= sent[c].pieces

\* Every delta names its index: first id and name, then the arguments.
Indexed(sent, order) ==
    [k \in DOMAIN order |->
        LET c == order[k]
            n == Count(order, k, c) - 1
        IN  [index |-> c - 1,
             id    |-> IF n = 0 THEN sent[c].id ELSE None,
             name  |-> IF n = 0 THEN <<c>> ELSE <<>>,
             args  |-> IF n = 0 THEN <<>> ELSE <<<<c, n>>>>]]

\* A service that leaves the index out sends a call in one delta.
Packed(sent, last) ==
    [c \in 1..last |->
        [index |-> None, id |-> sent[c].id, name |-> <<c>>, args |-> Whole(sent, c)]]

-----------------------------------------------------------------------------
(* What stream_call makes of it *)

Accumulate(parts, d) ==
    LET key == IF d.index = None THEN Cardinality(DOMAIN parts) ELSE d.index
        old == IF key \in DOMAIN parts THEN parts[key]
               ELSE [id |-> None, name |-> <<>>, args |-> <<>>]
        new == [id   |-> IF d.id = None THEN old.id ELSE d.id,
                name |-> old.name \o d.name, args |-> old.args \o d.args]
    IN  [k \in DOMAIN parts \cup {key} |-> IF k = key THEN new ELSE parts[k]]

Gathered(deltas) ==
    LET upto[k \in 0..Len(deltas)] ==
            IF k = 0 THEN <<>> ELSE Accumulate(upto[k - 1], deltas[k])
    IN  upto[Len(deltas)]

InOrder(S) ==
    CHOOSE s \in [1..Cardinality(S) -> S] : \A k, l \in 1..Cardinality(S) : k < l => s[k] < s[l]

\* Mutant: a call that came without an id is left without one.
CallsAsSent(deltas) ==
    LET parts == Gathered(deltas)
        order == InOrder(DOMAIN parts)
    IN  [k \in DOMAIN order |->
            LET part == parts[order[k]]
            IN  [id |-> part.id, name |-> part.name, input |-> part.args]]

\* In the order of their indices.  A call that came without an id is given a new one.
Calls(deltas) ==
    LET parts == Gathered(deltas)
        order == InOrder(DOMAIN parts)
    IN  [k \in DOMAIN order |->
            LET part == parts[order[k]]
            IN  [id |-> IF part.id = None THEN Own ELSE part.id, name |-> part.name, input |-> part.args]]

\* No arguments at all count as an empty object.
Parses(sent, input) ==
    input = <<>> \/ \E c \in DOMAIN sent : \E n \in sent[c].parses : input = Part(c, n)

StopReason(finish, calls) ==
    IF finish = "tool_calls" \/ calls # <<>> THEN "tool_use"
    ELSE IF finish = "length" THEN "max_tokens" ELSE "end_turn"

\* Mutant: the calls that parse are handed on without the others.
PartialResponse(sent, calls, finish) ==
    LET good == SelectSeq(calls, LAMBDA c : Parses(sent, c.input))
    IN  [calls |-> good, stop |-> StopReason(finish, good)]

\* One call that does not parse takes all others with it.
Response(sent, calls, finish) ==
    IF \E k \in DOMAIN calls : ~Parses(sent, calls[k].input)
    THEN [calls |-> <<>>, stop |-> "end_turn"]
    ELSE [calls |-> calls, stop |-> StopReason(finish, calls)]

\* The calls of a message that is not streamed, as far as the service got with it: of
\* the last one n fragments.  Every call without an id gets the id "None".
Message(sent, last, n) ==
    [c \in 1..last |->
        [id |-> IF sent[c].id = None THEN Reused ELSE sent[c].id, name |-> <<c>>,
         input |-> IF c = last THEN Part(c, n) ELSE Whole(sent, c)]]

\* All that can arrive of an answer, as a stream or as a message: whether it was cut at
\* the length limit, and the calls it is read as.
Arrivals(sent) ==
    LET arrival(cut, calls) == [cut |-> cut, calls |-> calls]
        all == Len(sent)
    IN  {arrival(EndsEarly(sent, order), Calls(Indexed(sent, order))) : order \in Orders(sent)}
          \cup {arrival(last < all, Calls(Packed(sent, last))) : last \in 0..all}
          \cup {arrival(FALSE, IF all = 0 THEN <<>> ELSE Message(sent, all, sent[all].pieces))}
          \cup UNION {{arrival(TRUE, Message(sent, last, n)) : n \in 0..(sent[last].pieces - 1)} :
                        last \in 1..all}

Finishes(sent, cut) ==
    IF cut THEN {"length"} ELSE {"stop", "tool_calls"}

\* Every answer there can be, with what was sent of it.
Answers ==
    UNION {UNION {{[sent     |-> [c \in DOMAIN sent |-> sent[c].pieces],
                    sound    |-> \A c \in DOMAIN sent : sent[c].pieces \in sent[c].parses,
                    cut      |-> arrived.cut,
                    response |-> Response(sent, arrived.calls, finish)] :
                       finish \in Finishes(sent, arrived.cut)} : arrived \in Arrivals(sent)} :
             sent \in BoundedSeq(Sent, MaxSent)}
=============================================================================
