------------------------------- MODULE Recall -------------------------------
(****************************************************************************)
(* Memory recall at the start of a run: the selector's answer, or the       *)
(* fallback, becomes memory attachments (memdir.py, recall_hooks.py).       *)
(****************************************************************************)
EXTENDS Naturals, Sequences, FiniteSets

CONSTANTS
    Memories,     \* ids of entries
    Ceiling,      \* _SESSION_BYTES_CEILING
    MaxAttached,  \* five: selected[:5], n = 5
    MaxLength     \* length of an attachment (_MAX_BYTES_PER_MEMORY and its frame)

ASSUME RecallBounds ==
    /\ {Ceiling, MaxAttached, MaxLength} \subseteq Nat /\ Ceiling > 0 /\ MaxLength > 0
    /\ IsFiniteSet(Memories)

\* The places of the first MaxAttached of a set of places.
Cut(places) == {k \in places : Cardinality({l \in places : l <= k}) <= MaxAttached}

\* Mutant: what the selector named is not cut.
SelectedAll(answer, headers, surfaced) ==
    {k \in DOMAIN answer : answer[k] \in headers /\ answer[k] \notin surfaced}

\* The places of the selector's answer that are followed: names of entries there
\* are, not attached before.  A name given twice counts twice.
Selected(answer, headers, surfaced) ==
    Cut({k \in DOMAIN answer : answer[k] \in headers /\ answer[k] \notin surfaced})

\* Mutant: the fallback does not look at what was attached.
FallbackAll(ranking, headers, surfaced) == Cut({k \in DOMAIN ranking : ranking[k] \in headers})

\* _jaccard_fallback: the first of the candidates as their scores rank them.
Fallback(ranking, headers, surfaced) ==
    Cut({k \in DOMAIN ranking : ranking[k] \in headers /\ ranking[k] \notin surfaced})

\* read_memories_for_surfacing: how much so many attachments add; each is cut, and one
\* that can no longer be read is a note.
Additions(count) == count..(count * MaxLength)
=============================================================================
