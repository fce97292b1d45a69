---------------------------- MODULE MemoryStore ----------------------------
(****************************************************************************)
(* The memory directory (ProjectMemory of memory.py) under the operations   *)
(* that several processes run on it at once: a save (write_memory_entry,    *)
(* /remember, "memory add"), a delete, an update, the format migration, the *)
(* deterministic dream (dream.py), and the extraction or dream sub-agent    *)
(* (forked_agent.py), which saves entries from within a bounded             *)
(* conversation.  Every system call that changes or looks up a file is a    *)
(* step of its own; a listing is one step with the reads of what it lists.  *)
(*                                                                          *)
(* An entry is the time its file was written and its text; of a text only   *)
(* matters which texts are alike (Jaccard at HIGH_JACCARD_THRESHOLD).       *)
(****************************************************************************)
EXTENDS Naturals, Sequences, FiniteSets, FiniteSetsExt, SequencesExt

CONSTANTS
    Procs,     \* processes that work on the directory
    Ids,       \* entry ids
    Texts,     \* what a user or a model stores
    Alike,     \* pairs of texts that the dream takes for duplicates
    Torn,      \* the body of a file opened for writing and not written yet
    None,      \* no file; also no process
    MaxLines,  \* MANIFEST_MAX_ENTRIES, _MANIFEST_MAX_LINES
    MaxTurns,  \* max_turns of a sub-agent
    MaxBatch,  \* tool calls in one answer to a sub-agent (bound)
    MaxJobs,   \* operations begun (bound)
    Requests,  \* the operations asked for: records [kind, id, text] (bound)
    Starts     \* the directories to begin with: records [md, json, at], at the
               \* time of the last write (bound)

Kinds == {"save", "delete", "update", "migrate", "dream", "agent"}
Entry == [at : Nat, text : Texts \cup {Torn, None}]
Jobs  == [kind : Kinds, id : Ids, text : Texts]

ASSUME Names    == Torn \notin Texts /\ None \notin Texts \cup Procs /\ Torn # None
ASSUME Bounds   == {MaxLines, MaxTurns, MaxBatch, MaxJobs} \subseteq Nat
\* File names have a bounded length; the Jaccard index of two texts is symmetric.
ASSUME Finite   == IsFiniteSet(Ids)
ASSUME Mutual   == \A a \in Alike : <<a[2], a[1]>> \in Alike
ASSUME Begins   == /\ Requests \subseteq Jobs
                   /\ Starts \subseteq [md : [Ids -> Entry], json : [Ids -> Texts \cup {None}], at : Nat]
                   /\ \A s \in Starts, i \in Ids : s.md[i].at <= s.at

VARIABLES
    md,        \* the .md files
    json,      \* the legacy .json files
    manifest,  \* the ids MEMORY.md lists
    clock,     \* time of the last write
    begun,     \* operations begun
    pc,        \* where each process is
    job,       \* what it was asked
    removed,   \* delete(): removed
    todo,      \* ids a dream has yet to delete, or a migration to visit
    listing,   \* what the manifest will list, from the scan before it is written
    headers,   \* a dream's scan_memory_files(): mtimes, None for what it did not list
    entries,   \* its pm.all(): the texts of the .md files it read, None for no other
    turn,      \* turn_count of a sub-agent
    batch,     \* calls of its last answer not dispatched yet
    \* history, read by the properties only:
    solo,      \* the process that began last, if it has been alone since
    tainted,   \* an operation overlapped or broke off, or migrated, since one ran alone
    broken,    \* a process died or a system call failed
    superseded \* legacy entries whose id has had an .md file

files   == <<md, json, manifest, clock>>
seen    == <<headers, entries>>
locals  == <<pc, job, removed, todo, listing, seen, turn, batch>>
history == <<solo, tainted, broken, superseded>>
vars    == <<files, begun, locals, history>>

SaveStages   == {"truncate", "write", "scan", "replace"}
DeleteStages == {"look", "unlink", "lookjson", "unlinkjson"}
Stages == {"idle", "dead", "load", "migrate", "headers", "entries", "plan", "purge", "ask", "dispatch"}
              \cup SaveStages \cup DeleteStages

Present == {i \in Ids : md[i].text # None}
Legacy  == {i \in Ids : json[i] # None}

\* The first n of the ids of S, newest first: an id outside has n newer ones.
\* Clock ticks tell all writes apart.
Newest(at, S, n) == {i \in S : Cardinality({j \in S : at[j] > at[i]}) < n}

Listed == Newest([i \in Ids |-> md[i].at], Present, MaxLines)

SeenTypeOK ==
    /\ headers \in [Procs -> [Ids -> Nat \cup {None}]]
    /\ entries \in [Procs -> [Ids -> Texts \cup {Torn, None}]]

TypeOK ==
    /\ md \in [Ids -> Entry] /\ json \in [Ids -> Texts \cup {None}]
    /\ manifest \subseteq Ids /\ clock \in Nat /\ begun \in Nat
    /\ pc \in [Procs -> Stages] /\ job \in [Procs -> Jobs \cup {None}]
    /\ removed \in [Procs -> BOOLEAN]
    /\ todo \in [Procs -> SUBSET Ids] /\ listing \in [Procs -> SUBSET Ids]
    /\ SeenTypeOK
    /\ turn \in [Procs -> Nat] /\ batch \in [Procs -> Nat]
    /\ \A p \in Procs : pc[p] \notin {"idle", "dead"} => job[p] \in Jobs
    /\ solo \in Procs \cup {None} /\ tainted \in BOOLEAN /\ broken \in BOOLEAN
    /\ superseded \subseteq Ids

\* Of a listing that has not been made, or is not needed any more.
Nothing == [i \in Ids |-> None]

\* The manifest is there and right, as the last save left it.
Init ==
    /\ \E s \in Starts : md = s.md /\ json = s.json /\ clock = s.at
    /\ manifest = Listed
    /\ begun = 0
    /\ pc = [p \in Procs |-> "idle"] /\ job = [p \in Procs |-> None]
    /\ removed = [p \in Procs |-> FALSE]
    /\ todo = [p \in Procs |-> {}] /\ listing = [p \in Procs |-> {}]
    /\ headers = [p \in Procs |-> Nothing] /\ entries = [p \in Procs |-> Nothing]
    /\ turn = [p \in Procs |-> 0] /\ batch = [p \in Procs |-> 0]
    /\ solo = None /\ tainted = FALSE /\ broken = FALSE
    /\ superseded = Present \cap Legacy

Active(p) == pc[p] \notin {"idle", "dead"}
Others(p) == \E q \in Procs \ {p} : Active(q)

Goto(p, stage) == pc' = [pc EXCEPT ![p] = stage]

\* Where an operation goes on when its save or delete is done, or has failed.
Back(kind, ok) ==
    CASE kind = "dream"   -> IF ok THEN "purge" ELSE "idle"
      [] kind = "agent"   -> "dispatch"   \* ToolExecutor turns the failure into a result
      [] kind = "migrate" -> "migrate"    \* warns and goes on
      [] OTHER            -> "idle"

Return(p, ok) == Goto(p, Back(job[p].kind, ok))

-----------------------------------------------------------------------------
(* Beginnings *)

First(kind) ==
    CASE kind = "save" -> "truncate" [] kind = "delete" -> "look"  [] kind = "update" -> "load"
      [] kind = "migrate" -> "migrate" [] kind = "dream" -> "headers" [] OTHER -> "ask"

Begin(p) ==
    /\ pc[p] = "idle" /\ begun < MaxJobs /\ begun' = begun + 1
    /\ \E r \in Requests :
          /\ job' = [job EXCEPT ![p] = r] /\ Goto(p, First(r.kind))
          /\ todo' = [todo EXCEPT ![p] = IF r.kind = "migrate" THEN Legacy ELSE {}]
    /\ removed' = [removed EXCEPT ![p] = FALSE]
    /\ turn' = [turn EXCEPT ![p] = 0] /\ batch' = [batch EXCEPT ![p] = 0]
    /\ solo' = IF Others(p) THEN None ELSE p
    /\ tainted' = (tainted \/ Others(p))
    /\ UNCHANGED <<files, listing, seen, broken, superseded>>

\* "memory update" loads the entry, .md first, and saves it with a new body.
Load(p) ==
    /\ pc[p] = "load"
    /\ Goto(p, IF job[p].id \in Present \cup Legacy THEN "truncate" ELSE "idle")
    /\ UNCHANGED <<files, begun, job, removed, todo, listing, seen, turn, batch, history>>

\* Mutant: the legacy file is not looked up again when its turn comes.
MigrateUnseen(p) ==
    /\ pc[p] = "migrate"
    /\ \/ /\ todo[p] = {} /\ Goto(p, "idle") /\ UNCHANGED <<job, todo>>
       \/ \E i \in todo[p] :
             /\ todo' = [todo EXCEPT ![p] = @ \ {i}]
             /\ IF i \in Present
                THEN Goto(p, "migrate") /\ UNCHANGED job
                ELSE /\ Goto(p, "truncate")
                     /\ job' = [job EXCEPT ![p].id = i, ![p].text = json[i]]
    /\ UNCHANGED <<files, begun, removed, listing, seen, turn, batch, history>>

\* "memory migrate-format": a legacy entry without .md is written as .md.
Migrate(p) ==
    /\ pc[p] = "migrate"
    /\ \/ /\ todo[p] = {} /\ Goto(p, "idle") /\ UNCHANGED <<job, todo>>
       \/ \E i \in todo[p] :
             /\ todo' = [todo EXCEPT ![p] = @ \ {i}]
             /\ IF i \in Present \/ i \notin Legacy
                THEN Goto(p, "migrate") /\ UNCHANGED job
                ELSE /\ Goto(p, "truncate")
                     /\ job' = [job EXCEPT ![p].id = i, ![p].text = json[i]]
    /\ UNCHANGED <<files, begun, removed, listing, seen, turn, batch, history>>

-----------------------------------------------------------------------------
(* save and _update_manifest *)

Stamped(p, text) ==
    /\ clock' = clock + 1
    /\ md' = [md EXCEPT ![job[p].id] = [at |-> clock + 1, text |-> text]]
    /\ superseded' = superseded \cup (Legacy \cap {job[p].id})

\* path.write_text opens the file, which empties it, ...
Truncate(p) ==
    /\ pc[p] = "truncate" /\ Goto(p, "write") /\ Stamped(p, Torn)
    /\ UNCHANGED <<json, manifest, begun, job, removed, todo, listing, seen, turn, batch,
                   solo, tainted, broken>>

\* ... and writes it.  A migration goes on without touching the manifest.
Write(p) ==
    /\ pc[p] = "write" /\ Stamped(p, job[p].text)
    /\ Goto(p, IF job[p].kind = "migrate" THEN "migrate" ELSE "scan")
    /\ tainted' = (tainted \/ job[p].kind = "migrate")
    /\ UNCHANGED <<json, manifest, begun, job, removed, todo, listing, seen, turn, batch, solo, broken>>

\* Mutant: the index is cut to its newest lines from the wrong end.
ScanOldest(p) ==
    /\ pc[p] = "scan" /\ Goto(p, "replace")
    /\ listing' = [listing EXCEPT ![p] =
                       {i \in Present : Cardinality({j \in Present : md[j].at < md[i].at}) < MaxLines}]
    /\ UNCHANGED <<files, begun, job, removed, todo, seen, turn, batch, history>>

\* scan_memory_files and _build_manifest_content
Scan(p) ==
    /\ pc[p] = "scan" /\ Goto(p, "replace")
    /\ listing' = [listing EXCEPT ![p] = Listed]
    /\ UNCHANGED <<files, begun, job, removed, todo, seen, turn, batch, history>>

\* os.replace: atomic, but of a content that was right when it was scanned.
Replace(p) ==
    /\ pc[p] = "replace" /\ Return(p, TRUE)
    /\ manifest' = listing[p] /\ listing' = [listing EXCEPT ![p] = {}]
    /\ tainted' = (tainted /\ solo # p)
    /\ UNCHANGED <<md, json, clock, begun, job, removed, todo, seen, turn, batch,
                   solo, broken, superseded>>

-----------------------------------------------------------------------------
(* delete *)

\* Each file is looked up and then unlinked; in between it can go.
Look(p) ==
    /\ pc[p] = "look" /\ Goto(p, IF job[p].id \in Present THEN "unlink" ELSE "lookjson")
    /\ UNCHANGED <<files, begun, job, removed, todo, listing, seen, turn, batch, history>>

Unlink(p) ==
    /\ pc[p] = "unlink" /\ job[p].id \in Present /\ Goto(p, "lookjson")
    /\ md' = [md EXCEPT ![job[p].id] = [at |-> 0, text |-> None]]
    /\ removed' = [removed EXCEPT ![p] = TRUE]
    /\ UNCHANGED <<json, manifest, clock, begun, job, todo, listing, seen, turn, batch, history>>

\* Mutant: the legacy file is looked up only when there was no .md file.
LookJsonOnlyAlone(p) ==
    /\ pc[p] = "lookjson"
    /\ IF job[p].id \in Legacy /\ ~removed[p] THEN Goto(p, "unlinkjson")
       ELSE IF removed[p] THEN Goto(p, "scan") ELSE Return(p, TRUE)
    /\ UNCHANGED <<files, begun, job, removed, todo, listing, seen, turn, batch, history>>

LookJson(p) ==
    /\ pc[p] = "lookjson"
    /\ IF job[p].id \in Legacy THEN Goto(p, "unlinkjson")
       ELSE IF removed[p] THEN Goto(p, "scan") ELSE Return(p, TRUE)
    /\ UNCHANGED <<files, begun, job, removed, todo, listing, seen, turn, batch, history>>

UnlinkJson(p) ==
    /\ pc[p] = "unlinkjson" /\ job[p].id \in Legacy /\ Goto(p, "scan")
    /\ json' = [json EXCEPT ![job[p].id] = None]
    /\ superseded' = superseded \ {job[p].id}
    /\ UNCHANGED <<md, manifest, clock, begun, job, removed, todo, listing, seen, turn, batch,
                   solo, tainted, broken>>

\* FileNotFoundError: another process was faster.
UnlinkRaces(p) ==
    /\ \/ pc[p] = "unlink" /\ job[p].id \notin Present
       \/ pc[p] = "unlinkjson" /\ job[p].id \notin Legacy
    /\ Return(p, FALSE) /\ tainted' = TRUE
    /\ UNCHANGED <<files, begun, job, removed, todo, listing, seen, turn, batch, solo, broken, superseded>>

-----------------------------------------------------------------------------
(* The deterministic dream *)

\* scan_memory_files(): the mtimes of the .md files ...
ListHeaders(p) ==
    /\ pc[p] = "headers" /\ Goto(p, "entries")
    /\ headers' = [headers EXCEPT ![p] = [i \in Ids |-> IF i \in Present THEN md[i].at ELSE None]]
    /\ UNCHANGED <<files, begun, job, removed, todo, listing, entries, turn, batch, history>>

\* ... and all(), another listing: first the .md files, with their texts, ...
ReadEntries(p) ==
    /\ pc[p] = "entries" /\ Goto(p, "plan")
    /\ entries' = [entries EXCEPT ![p] = [i \in Ids |-> md[i].text]]
    /\ UNCHANGED <<files, begun, job, removed, todo, listing, headers, turn, batch, history>>

Headed(p) == {i \in Ids : headers[p][i] # None}
AsRead(p) == {i \in Ids : entries[p][i] # None}
Known(p)  == AsRead(p) \cup Legacy

\* ... then the legacy ones that are not among these.
Orders(p) == {a \o b : a \in SetToSeqs(AsRead(p)), b \in SetToSeqs(Legacy \ AsRead(p))}

TextOf(p, i) == IF i \in AsRead(p) THEN entries[p][i] ELSE json[i]

\* What the first listing did not have counts as the oldest.
TimeOf(p, i) == IF i \in Headed(p) THEN headers[p][i] ELSE 0

\* Mutant: a tie or an older first entry loses the wrong one.
LosesNewer(p, i, j) == IF TimeOf(p, i) <= TimeOf(p, j) THEN j ELSE i

\* Of two duplicates the older one goes; at a tie the first.
Loser(p, i, j) == IF TimeOf(p, i) <= TimeOf(p, j) THEN i ELSE j

\* Step 1, pairwise: entry i of the list against j, which is behind it.
Compare(p, order, dead, i, j) ==
    IF order[j] \in dead \/ <<TextOf(p, order[i]), TextOf(p, order[j])>> \notin Alike
    THEN dead ELSE dead \cup {Loser(p, order[i], order[j])}

\* An entry found dead is not compared again, but one that dies while it is being
\* compared stays in the comparison to the end.
CompareRest(p, order, dead, i) ==
    LET upto[j \in 0..Len(order)] ==
            IF j <= i THEN dead ELSE Compare(p, order, upto[j - 1], i, j)
    IN  IF order[i] \in dead THEN dead ELSE upto[Len(order)]

Twins(p, order) ==
    LET upto[i \in 0..Len(order)] ==
            IF i = 0 THEN {} ELSE CompareRest(p, order, upto[i - 1], i)
    IN  upto[Len(order)]

\* Step 2: of the .md files of the first listing that are left all but the newest
\* MaxLines go too.
Doomed(p, order) ==
    LET left == Headed(p) \ Twins(p, order)
    IN  {i \in Known(p) \cup Headed(p) :
            i \in Twins(p, order) \/ i \in left \ Newest(headers[p], left, MaxLines)}

Plan(p) ==
    /\ pc[p] = "plan" /\ Goto(p, "purge")
    /\ \E order \in Orders(p) : todo' = [todo EXCEPT ![p] = Doomed(p, order)]
    /\ headers' = [headers EXCEPT ![p] = Nothing] /\ entries' = [entries EXCEPT ![p] = Nothing]
    /\ UNCHANGED <<files, begun, job, removed, listing, turn, batch, history>>

\* Mutant: what is being deleted stays on the list.
PurgeAgain(p) ==
    /\ pc[p] = "purge"
    /\ \/ todo[p] = {} /\ Goto(p, "idle") /\ UNCHANGED <<job, removed>>
       \/ \E i \in todo[p] :
             /\ job' = [job EXCEPT ![p].id = i] /\ removed' = [removed EXCEPT ![p] = FALSE]
             /\ Goto(p, "look")
    /\ UNCHANGED <<files, begun, todo, listing, seen, turn, batch, history>>

\* The deletions, in any order, each with its rewrite of the manifest.
Purge(p) ==
    /\ pc[p] = "purge"
    /\ \/ todo[p] = {} /\ Goto(p, "idle") /\ UNCHANGED <<job, removed, todo>>
       \/ \E i \in todo[p] :
             /\ todo' = [todo EXCEPT ![p] = @ \ {i}]
             /\ job' = [job EXCEPT ![p].id = i] /\ removed' = [removed EXCEPT ![p] = FALSE]
             /\ Goto(p, "look")
    /\ UNCHANGED <<files, begun, listing, seen, turn, batch, history>>

-----------------------------------------------------------------------------
(* The sub-agent (ForkedAgentRunner.run) *)

\* The provider raises or ends the turn, or asks for tools.
Ask(p) ==
    /\ pc[p] = "ask"
    /\ \/ Goto(p, "idle") /\ UNCHANGED <<turn, batch>>
       \/ /\ Goto(p, "dispatch") /\ turn' = [turn EXCEPT ![p] = @ + 1]
          /\ \E n \in 1..MaxBatch : batch' = [batch EXCEPT ![p] = n]
    /\ UNCHANGED <<files, begun, job, removed, todo, listing, seen, history>>

\* write_memory_entry with arguments it accepts; every other call, denied by the
\* gate, unknown, read-only or refused by the checks, changes nothing.
Dispatch(p) ==
    /\ pc[p] = "dispatch"
    /\ \/ /\ batch[p] > 0 /\ batch' = [batch EXCEPT ![p] = @ - 1]
          /\ \/ Goto(p, "dispatch") /\ UNCHANGED job
             \/ /\ Goto(p, "truncate")
                /\ \E r \in Requests : /\ r.kind = "save"
                                       /\ job' = [job EXCEPT ![p].id = r.id, ![p].text = r.text]
       \/ /\ batch[p] = 0 /\ Goto(p, IF turn[p] = MaxTurns THEN "idle" ELSE "ask")
          /\ UNCHANGED <<job, batch>>
    /\ UNCHANGED <<files, begun, removed, todo, listing, seen, turn, history>>

-----------------------------------------------------------------------------
(* Failures *)

\* A system call fails (no space, no permission): the operation ends with an
\* exception and nothing is taken back, save the temporary file of the manifest.
Fails(p) ==
    /\ pc[p] \in {"truncate", "write", "replace", "unlink", "unlinkjson"} /\ Return(p, FALSE)
    /\ tainted' = TRUE /\ broken' = TRUE
    /\ UNCHANGED <<files, begun, job, removed, todo, listing, seen, turn, batch, solo, superseded>>

\* A kill or a ^C.
Dies(p) ==
    /\ Active(p) /\ Goto(p, "dead")
    /\ tainted' = TRUE /\ broken' = TRUE
    /\ UNCHANGED <<files, begun, job, removed, todo, listing, seen, turn, batch, solo, superseded>>

Step(p) ==
    \/ Load(p) \/ Migrate(p) \/ Truncate(p) \/ Write(p) \/ Scan(p) \/ Replace(p)
    \/ Look(p) \/ Unlink(p) \/ LookJson(p) \/ UnlinkJson(p) \/ UnlinkRaces(p)
    \/ ListHeaders(p) \/ ReadEntries(p) \/ Plan(p) \/ Purge(p) \/ Ask(p) \/ Dispatch(p)

Rest == /\ begun = MaxJobs \/ \A p \in Procs : pc[p] = "dead"
        /\ \A p \in Procs : ~Active(p)
        /\ UNCHANGED vars

Next == (\E p \in Procs : Begin(p) \/ Step(p) \/ Fails(p) \/ Dies(p)) \/ Rest

\* A process that runs gets on, and a provider answers or raises in the end.
Spec == Init /\ [][Next]_vars /\ \A p \in Procs : WF_vars(Step(p))

-----------------------------------------------------------------------------
(* Properties. *)

Quiet == \A p \in Procs : ~Active(p)

\* At rest MEMORY.md lists the newest MaxLines entries there are, although entry
\* and manifest are written one after the other: after operations that overlapped,
\* broke off or migrated it may not, until one operation that removes or saves an
\* entry has run alone.
ManifestTellsEntries == Quiet /\ ~tainted => manifest = Listed

\* An old text never comes back: a legacy file whose entry has been rewritten as
\* .md is gone at rest when the .md is, however saves, deletes, dreams and
\* migrations of several processes interleaved, unless one broke off in the middle.
SupersededStaysDead == Quiet /\ ~broken => superseded \cap Legacy \subseteq Present

\* The second entry may stand for the first: a duplicate of it that is not older,
\* as the dream read them.
Replaces(p, j, k) ==
    <<TextOf(p, j), TextOf(p, k)>> \in Alike /\ TimeOf(p, j) <= TimeOf(p, k) /\ j # k

\* An entry and those that follow it in a chain of duplicates: what every set has
\* that has the entry and with each one also those that may stand for it.
Leads(p, i) ==
    {k \in Known(p) : \A S \in SUBSET Known(p) :
        i \in S /\ (\A x \in S, y \in Known(p) : Replaces(p, x, y) => y \in S) => k \in S}

\* What a dream decides to delete, whatever order the directory is listed in and
\* whatever other processes did between the listings: an entry goes only when one
\* that follows it in its chain of duplicates stays (its own twin may go as well),
\* with a file, if it still has one, no older than the entry was when listed; or
\* when MaxLines newer ones stay.
DreamSpares ==
    [][\A p \in Procs : Plan(p) =>
          \A i \in todo'[p] :
             \/ \E k \in Leads(p, i) : /\ k \notin todo'[p]
                                       /\ k \in Present => md[k].at >= TimeOf(p, i)
             \/ Cardinality({k \in Headed(p) \ todo'[p] : TimeOf(p, k) > TimeOf(p, i)}) >= MaxLines]_vars

\* Of the files as they are, a dream decides to delete one only when there is a
\* newer one that is like it, or MaxLines newer ones stay: "Keep NEWEST by mtime"
\* (dream.py:396).
DreamKeepsNewest ==
    [][\A p \in Procs : Plan(p) =>
          \A i \in todo'[p] \cap Present :
             \/ \E k \in Present \ {i} : <<md[i].text, md[k].text>> \in Alike /\ md[k].at > md[i].at
             \/ Cardinality({k \in Present \ todo'[p] : md[k].at > md[i].at}) >= MaxLines]_vars

\* Whatever was begun comes to an end: the sub-agent within MaxTurns answers, a
\* dream and a migration with the list they made.
OperationsEnd == \A p \in Procs : Active(p) ~> ~Active(p)
=============================================================================
