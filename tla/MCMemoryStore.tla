--------------------------- MODULE MCMemoryStore ---------------------------
(* TLC instance of MemoryStore: three entries, the texts a, b and c a chain of *)
(* duplicates, d like no other.                                                *)
EXTENDS MemoryStore

CONSTANTS p, q, i, j, k, a, b, c, d

Chain == {<<a, b>>, <<b, a>>, <<b, c>>, <<c, b>>, <<a, a>>, <<b, b>>, <<c, c>>, <<d, d>>}

Gone == [at |-> 0, text |-> None]

\* i, j and k written in this order, or not at all.
Dir(x, y, z) ==
    [e \in Ids |-> LET v == [at |-> IF e = i THEN 1 ELSE IF e = j THEN 2 ELSE 3,
                             text |-> IF e = i THEN x ELSE IF e = j THEN y ELSE z]
                   IN  IF v.text = None THEN Gone ELSE v]

Json(x, y, z) == [e \in Ids |-> IF e = i THEN x ELSE IF e = j THEN y ELSE z]

Directories ==
    {[md |-> Dir(a, b, c), json |-> Json(None, None, None), at |-> 3],
     [md |-> Dir(a, c, d), json |-> Json(None, None, None), at |-> 3],
     [md |-> Dir(a, None, None), json |-> Json(b, c, None), at |-> 3]}

Asked(kind, id, text) == [kind |-> kind, id |-> id, text |-> text]

Operations ==
    {Asked("save", i, d), Asked("delete", i, a), Asked("update", j, a),
     Asked("migrate", i, a), Asked("dream", i, a), Asked("agent", i, a)}

\* One entry, and a save of another like it while a dream runs.
OneEntry == {[md |-> Dir(a, None, None), json |-> Json(None, None, None), at |-> 1]}
DreamAndSave == {Asked("save", j, b), Asked("dream", i, a)}
=============================================================================
