----------------------------- MODULE MCSession -----------------------------
(* TLC instances of Session. *)
EXTENDS Session

\* An output of 5 is too large for either preset, two of 2 together are for both, and
\* a pointer to an output is longer than the aggressive preset allows.
Default    == [inline |-> 4, total |-> 5, loop |-> FALSE]
Aggressive == [inline |-> 2, total |-> 3, loop |-> TRUE]
Both       == {Default, Aggressive}

MemoryPermutations == Permutations(Memories)
=============================================================================
