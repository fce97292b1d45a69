-------------------------- MODULE ToolResultStore --------------------------
(****************************************************************************)
(* ToolResultStore of tool_result_store.py: large tool results are written  *)
(* to files and replaced by pointers, and a decision, once taken for an id, *)
(* is repeated whatever the content.                                        *)
(*                                                                          *)
(* A content is the result it comes from (0 for the marker a cleared result *)
(* is replaced with), how often it was wrapped in a pointer, and its        *)
(* length.  A store has the pointers it decided on by id; the files         *)
(* are on disk, where they outlive the process.                             *)
(****************************************************************************)
EXTENDS Naturals, Sequences

CONSTANTS
    Preview,  \* PREVIEW_CHARS
    Header    \* length of a pointer without its preview

ASSUME Lengths == Preview \in Nat /\ Header \in Nat

\* make_pointer and preview_result
Pointer(content) ==
    [of |-> content.of, wraps |-> content.wraps + 1,
     size |-> Header + (IF content.size <= Preview THEN content.size ELSE Preview)]

\* _externalize.  A decision that is there already stays (record).
Externalize(store, id, content) ==
    [decided |-> [i \in DOMAIN store.decided \cup {id} |->
                     IF i \in DOMAIN store.decided THEN store.decided[i] ELSE Pointer(content)],
     disk    |-> [i \in DOMAIN store.disk \cup {id} |->
                     IF i = id THEN content ELSE store.disk[i]]]

\* Mutant: the content decides, not what was decided before.
ProcessAnew(store, id, content, limits) ==
    IF content.size <= limits.inline THEN [store |-> store, content |-> content, inline |-> TRUE]
    ELSE LET next == Externalize(store, id, content)
         IN  [store |-> next, content |-> next.decided[id], inline |-> FALSE]

\* process_result
Process(store, id, content, limits) ==
    IF id \in DOMAIN store.decided
    THEN [store |-> store, content |-> store.decided[id], inline |-> FALSE]
    ELSE IF content.size <= limits.inline
    THEN [store |-> store, content |-> content, inline |-> TRUE]
    ELSE LET next == Externalize(store, id, content)
         IN  [store |-> next, content |-> next.decided[id], inline |-> FALSE]

\* Pass 1 of process_results_batch: each result on its own, in their order, and the
\* places of those that stay inline.
PassOne(store, results, limits) ==
    LET upto[k \in 0..Len(results)] ==
            IF k = 0 THEN [store |-> store, served |-> <<>>, inline |-> {}]
            ELSE LET acc == upto[k - 1]
                     out == Process(acc.store, results[k].id, results[k].content, limits)
                 IN  [store  |-> out.store, served |-> Append(acc.served, out.content),
                      inline |-> acc.inline \cup {i \in {k} : out.inline}]
    IN  upto[Len(results)]

\* The length of the results at some places taken together.
Total(results, places) ==
    LET upto[k \in 0..Len(results)] ==
            IF k = 0 THEN 0
            ELSE upto[k - 1] + (IF k \in places THEN results[k].content.size ELSE 0)
    IN  upto[Len(results)]

\* The first of a stable sort by length, the largest in front.
Largest(results, places) ==
    CHOOSE i \in places : \A j \in places :
        \/ results[i].content.size > results[j].content.size
        \/ results[i].content.size = results[j].content.size /\ i <= j

\* One turn of the loop of pass 2: an id that is decided by now has its pointer.
Replace(acc, results, i) ==
    LET r    == results[i]
        next == IF r.id \in DOMAIN acc.store.decided THEN acc.store
                ELSE Externalize(acc.store, r.id, r.content)
    IN  [store |-> next, inline |-> acc.inline \ {i},
         served |-> [acc.served EXCEPT ![i] = next.decided[r.id]]]

\* Pass 2: while what is left inline exceeds the total, the largest of it goes too.
PassTwo(one, results, limits) ==
    LET after[k \in 0..Len(results)] ==
            IF k = 0 THEN one
            ELSE LET acc == after[k - 1]
                 IN  IF Total(results, acc.inline) <= limits.total THEN acc
                     ELSE Replace(acc, results, Largest(results, acc.inline))
    IN  after[Len(results)]

\* Mutant: there is no pass 2.
ItemsOnly(store, results, limits) == PassOne(store, results, limits)

ProcessBatch(store, results, limits) ==
    PassTwo(PassOne(store, results, limits), results, limits)
=============================================================================
